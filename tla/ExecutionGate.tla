---------------------------- MODULE ExecutionGate ----------------------------
(***************************************************************************)
(* What the order bridge promises, with the processes, the table and the   *)
(* polling left out: an order is sanctioned by a human or by the autonomy  *)
(* threshold, and the loop executes a sanctioned order at most once        *)
(* (src/hitl/orders.py, the lifecycle at the head of the file, and the     *)
(* fail-closed approval of SquadOrchestrator).  OrderBridge implements it. *)
(***************************************************************************)
CONSTANT Order

VARIABLES
    sanctioned,   \* the orders somebody or something with authority let pass
    executed      \* how often the trade of each order was executed

Init == sanctioned = {} /\ executed = [o \in Order |-> 0]

Sanction(o) ==
    /\ sanctioned' = sanctioned \cup {o}
    /\ UNCHANGED executed

Execute(o) ==
    /\ o \in sanctioned /\ executed[o] = 0
    /\ executed' = [executed EXCEPT ![o] = 1]
    /\ UNCHANGED sanctioned

Next == \E o \in Order : Sanction(o) \/ Execute(o)

Spec == Init /\ [][Next]_<<sanctioned, executed>>

=============================================================================
