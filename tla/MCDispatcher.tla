---------------------------- MODULE MCDispatcher ----------------------------
(***************************************************************************)
(* Two workers, one channel and two alerts of one kind: both fit one       *)
(* batch or come in two, and the second may fall in the window of the      *)
(* first.  The kind is a low one, so that quiet hours may drop it.         *)
(***************************************************************************)
EXTENDS Dispatcher

CONSTANTS W1, W2, C1, Guardrail

MCWorkers  == {W1, W2}
MCChannels == {C1}
MCKinds    == {Guardrail}
MCRules    == [k \in MCKinds |-> MCChannels]
MCKindOf   == [a \in Alert |-> Guardrail]

=============================================================================
