-------------------------- MODULE MCSquadOrchestrator --------------------------
(***************************************************************************)
(* A small instance of SquadOrchestrator: two pairs compete for two       *)
(* slots; three orders of one or two units give partial closes, closes of  *)
(* two lots by one fill, and dropped residues; a loss of 3 and a loss of 1 *)
(* per cent reach the daily limit of 4, a run of small ones the limit on   *)
(* consecutive losses, which is scaled down from 3 to 2.  The pairs are    *)
(* interchangeable.                                                        *)
(***************************************************************************)
EXTENDS SquadOrchestrator, TLC

CONSTANTS BTC, ETH

MCSymbols == {BTC, ETH}
MCSymmetry == Permutations(MCSymbols)
MCPnl == {-3, -1, 2}

================================================================================
