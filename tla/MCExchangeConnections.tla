----------------------- MODULE MCExchangeConnections -----------------------
(***************************************************************************)
(* A small instance of ExchangeConnections: two connections compete for    *)
(* being active; of the credentials, the exchange accepts one; two tests   *)
(* can overlap each other and anything else.  One process trades: a client *)
(* affects no other, and the properties of it are of each client alone.    *)
(***************************************************************************)
EXTENDS ExchangeConnections, TLC

CONSTANTS C1, C2, Good, Bad, T1, T2

MCConns   == {C1, C2}
MCSecrets == {Good, Bad}
MCValid   == {Good}
MCProbes  == {T1, T2}
MCProcess == {Api}
MCSymmetry == Permutations(MCConns) \cup Permutations(MCProbes)

=============================================================================
