----------------------------- MODULE OrderBridge -----------------------------
(***************************************************************************)
(* The human-in-the-loop order bridge (src/hitl/orders.py, the order       *)
(* routes of the API, and the approval/execution half of                   *)
(* SquadOrchestrator.analyze_and_trade).                                   *)
(*                                                                         *)
(* Two processes share the SQLite table "orders".  The API submits the     *)
(* orders of POST /v1/orders and writes the operator's decisions; the      *)
(* trading loop submits the orders of its signals, polls for a decision,   *)
(* executes and marks the order filled.  Every store call opens its own    *)
(* connection, so a handler is a sequence of transactions: one action of   *)
(* this module is the code between two accesses to shared state.  In       *)
(* particular OrderStore._update writes WHERE id=?, without looking at the *)
(* status that the handler read before.                                    *)
(*                                                                         *)
(* The API runs one uvicorn worker and its order handlers never await      *)
(* between store calls, so at most one of them is in progress; the loop is *)
(* one coroutine that handles one symbol at a time.                        *)
(***************************************************************************)
EXTENDS Naturals, FiniteSets

CONSTANTS
    LoopOrders,   \* orders the loop may submit (make_approval_handler)
    ApiOrders,    \* orders a client may submit (POST /v1/orders)
    NoOrder,      \* the handler of a process holds no order
    Notional,     \* price * quantity of each order, in USDT
    Critical,     \* the orders submitted with critical = True
    Unsafe,       \* the orders GuardrailSystem.validate_order refuses
    EnvLevel,     \* AUTONOMY_LEVEL in the environment of both processes
    OperatorLevels,  \* the levels operators set
    MaxFailures   \* how many crashes or failing steps a behaviour has

Order == LoopOrders \cup ApiOrders
Level == 0 .. 3

\* Upper bound of the notional an order may have to be approved by no human.
Threshold == [l \in Level |-> CASE l = 0 -> 0
                                [] l = 1 -> 500
                                [] l = 2 -> 1000
                                [] OTHER -> 5000]

ASSUME OrderAssumption ==
    /\ LoopOrders \cap ApiOrders = {}
    /\ NoOrder \notin Order
    /\ Notional \in [Order -> Nat]
    /\ EnvLevel \in Level /\ OperatorLevels \subseteq Level
    /\ MaxFailures \in Nat

Status   == {"none", "pending", "approved", "filled", "rejected", "cancelled"}
Decision == {"approved", "rejected"}

ApiStep  == {"idle", "gate", "log_fill", "decide", "answer"}
LoopStep == {"idle", "gate", "log_fill", "wait", "expire", "cancel",
             "granted", "execute", "mark", "log_mark"}

VARIABLES
    row,        \* status column of each order; "none" before the INSERT
    level,      \* HITLConfigStore._level, in the memory of the API process
    apiPc, apiOrder, apiDecision,   \* the API handler in progress
    loopPc, loopOrder,              \* the cycle of the loop in progress
    paper,      \* trades executed for each order (order_fill under PAPER_ id)
    fillLog,    \* order_fill events the store logged under the order's own id
    yesLog,     \* hitl_approval events with approved = True
    human,      \* history: orders whose approval an operator's PATCH wrote
    told,       \* history: the decision a 200 answer reported to an operator
    failures    \* history: crashes and failing steps so far

apiVars    == <<apiPc, apiOrder, apiDecision>>
loopVars   == <<loopPc, loopOrder>>
ledgerVars == <<paper, fillLog, yesLog>>
histVars   == <<human, told, failures>>
vars == <<row, level, apiVars, loopVars, ledgerVars, histVars>>

(***************************************************************************)
(* submit's test: auto = (threshold > 0) and (notional <= threshold) and   *)
(* not critical.                                                           *)
(***************************************************************************)
AutoApproved(o, l) ==
    /\ Threshold[l] > 0 /\ Notional[o] <= Threshold[l]
    /\ o \notin Critical

LoopAuto(o) == o \in LoopOrders /\ AutoApproved(o, EnvLevel)

SetRow(o, s) == row' = [row EXCEPT ![o] = s]
Bump(log, o) == [log EXCEPT ![o] = @ + 1]

ApiGoto(pc)  == apiPc' = pc /\ UNCHANGED <<apiOrder, apiDecision>>
ApiDone_KeepsOrder == apiPc' = "idle" /\ UNCHANGED <<apiOrder, apiDecision>>
ApiDone      == apiPc' = "idle" /\ apiOrder' = NoOrder /\ apiDecision' = "approved"
LoopGoto(pc) == loopPc' = pc /\ UNCHANGED loopOrder
LoopDone     == loopPc' = "idle" /\ loopOrder' = NoOrder

Init ==
    /\ row = [o \in Order |-> "none"]
    /\ level = EnvLevel
    /\ apiPc = "idle" /\ apiOrder = NoOrder /\ apiDecision = "approved"
    /\ loopPc = "idle" /\ loopOrder = NoOrder
    /\ paper   = [o \in Order |-> 0]
    /\ fillLog = [o \in Order |-> 0]
    /\ yesLog  = [o \in Order |-> 0]
    /\ human = {}
    /\ told = [o \in Order |-> "none"]
    /\ failures = 0

-----------------------------------------------------------------------------
(***************************************************************************)
(* The API process.                                                        *)
(***************************************************************************)

\* create_order -> submit: _insert writes the row as pending.
ApiSubmit(o) ==
    /\ apiPc = "idle"
    /\ o \in ApiOrders /\ row[o] = "none"
    /\ SetRow(o, "pending")
    /\ apiPc' = "gate" /\ apiOrder' = o /\ UNCHANGED apiDecision
    /\ UNCHANGED <<level, loopVars, ledgerVars, histVars>>

\* submit, after the insert: _risk_ok rejects an order the guardrails refuse ...
ApiRiskReject ==
    /\ apiPc = "gate" /\ apiOrder \in Unsafe
    /\ SetRow(apiOrder, "rejected")
    /\ ApiDone
    /\ UNCHANGED <<level, loopVars, ledgerVars, histVars>>

\* ... one within the operator's threshold is filled on the spot ...
ApiAutoFill ==
    /\ apiPc = "gate" /\ apiOrder \notin Unsafe
    /\ AutoApproved(apiOrder, level)
    /\ SetRow(apiOrder, "filled")
    /\ ApiGoto("log_fill")
    /\ UNCHANGED <<level, loopVars, ledgerVars, histVars>>

\* ... and any other order is left pending (202).
ApiLeavePending ==
    /\ apiPc = "gate" /\ apiOrder \notin Unsafe
    /\ ~AutoApproved(apiOrder, level)
    /\ ApiDone
    /\ UNCHANGED <<row, level, loopVars, ledgerVars, histVars>>

\* _log_fill_events of the auto-filled order.
ApiLogFill ==
    /\ apiPc = "log_fill"
    /\ yesLog' = Bump(yesLog, apiOrder)
    /\ fillLog' = Bump(fillLog, apiOrder)
    /\ ApiDone
    /\ UNCHANGED <<row, level, loopVars, paper, histVars>>

ApiDecideRead_AnyTime(o, d) ==
    /\ apiPc = "idle"
    /\ row[o] # "none"
    /\ apiPc' = "decide" /\ apiOrder' = o /\ apiDecision' = d
    /\ UNCHANGED <<row, level, loopVars, ledgerVars, histVars>>

\* decide_order -> resolve, first half: the order is read and is pending.
\* An order that is not pending is answered 404 or 409 and nothing changes.
ApiDecideRead(o, d) ==
    /\ apiPc = "idle"
    /\ row[o] = "pending"
    /\ apiPc' = "decide" /\ apiOrder' = o /\ apiDecision' = d
    /\ UNCHANGED <<row, level, loopVars, ledgerVars, histVars>>

\* resolve, second half: _update writes the decision over whatever is there.
ApiDecideWrite ==
    /\ apiPc = "decide"
    /\ SetRow(apiOrder, apiDecision)
    /\ human' = IF apiDecision = "approved" THEN human \cup {apiOrder} ELSE human
    /\ ApiGoto("answer")
    /\ UNCHANGED <<level, loopVars, ledgerVars, told, failures>>

\* log_hitl_approval, the process event, and the 200 answer.
ApiAnswer ==
    /\ apiPc = "answer"
    /\ yesLog' = IF apiDecision = "approved" THEN Bump(yesLog, apiOrder) ELSE yesLog
    /\ told' = [told EXCEPT ![apiOrder] = apiDecision]
    /\ ApiDone
    /\ UNCHANGED <<row, level, loopVars, paper, fillLog, human, failures>>

\* PATCH /v1/hitl/config -> HITLConfigStore.set_level.
SetLevel(l) ==
    /\ apiPc = "idle"
    /\ level' = l
    /\ UNCHANGED <<row, apiVars, loopVars, ledgerVars, histVars>>

-----------------------------------------------------------------------------
(***************************************************************************)
(* The trading loop.                                                       *)
(***************************************************************************)

\* make_approval_handler -> submit: the order of a signal is inserted.
LoopSubmit(o) ==
    /\ loopPc = "idle"
    /\ o \in LoopOrders /\ row[o] = "none"
    /\ SetRow(o, "pending")
    /\ loopPc' = "gate" /\ loopOrder' = o
    /\ UNCHANGED <<level, apiVars, ledgerVars, histVars>>

\* submit in the loop: its store has no guardrails, and the threshold is the
\* one of the loop's own environment.
LoopAutoFill ==
    /\ loopPc = "gate" /\ AutoApproved(loopOrder, EnvLevel)
    /\ SetRow(loopOrder, "filled")
    /\ LoopGoto("log_fill")
    /\ UNCHANGED <<level, apiVars, ledgerVars, histVars>>

LoopLeavePending ==
    /\ loopPc = "gate" /\ ~AutoApproved(loopOrder, EnvLevel)
    /\ LoopGoto("wait")
    /\ UNCHANGED <<row, level, apiVars, ledgerVars, histVars>>

LoopLogFill ==
    /\ loopPc = "log_fill"
    /\ yesLog' = Bump(yesLog, loopOrder)
    /\ fillLog' = Bump(fillLog, loopOrder)
    /\ LoopGoto("granted")
    /\ UNCHANGED <<row, level, apiVars, paper, histVars>>

\* wait_for_decision, one poll; a poll that reads "pending" changes nothing.
LoopPollGranted ==
    /\ loopPc = "wait" /\ row[loopOrder] \in {"approved", "filled"}
    /\ LoopGoto("granted")
    /\ UNCHANGED <<row, level, apiVars, ledgerVars, histVars>>

LoopPollDenied ==
    /\ loopPc = "wait" /\ row[loopOrder] \in {"rejected", "cancelled"}
    /\ LoopDone
    /\ UNCHANGED <<row, level, apiVars, ledgerVars, histVars>>

LoopDeadline_OnceDecided ==
    /\ loopPc = "wait" /\ row[loopOrder] # "pending"
    /\ LoopGoto("expire")
    /\ UNCHANGED <<row, level, apiVars, ledgerVars, histVars>>

\* The deadline passes between the last poll and the next turn of the while.
LoopDeadline ==
    /\ loopPc = "wait"
    /\ LoopGoto("expire")
    /\ UNCHANGED <<row, level, apiVars, ledgerVars, histVars>>

LoopExpireRead_FailsOpen ==
    /\ loopPc = "expire"
    /\ LoopGoto("granted")
    /\ UNCHANGED <<row, level, apiVars, ledgerVars, histVars>>

LoopExpireRead_NoCancel ==
    /\ loopPc = "expire"
    /\ LoopDone
    /\ UNCHANGED <<row, level, apiVars, ledgerVars, histVars>>

\* cancel, first half: read the order; only a pending one is cancelled.
\* wait_for_decision answers False in both cases.
LoopExpireRead ==
    /\ loopPc = "expire"
    /\ IF row[loopOrder] = "pending" THEN LoopGoto("cancel") ELSE LoopDone
    /\ UNCHANGED <<row, level, apiVars, ledgerVars, histVars>>

\* cancel, second half: _update, unguarded.
LoopCancelWrite ==
    /\ loopPc = "cancel"
    /\ SetRow(loopOrder, "cancelled")
    /\ LoopDone
    /\ UNCHANGED <<level, apiVars, ledgerVars, histVars>>

LoopGranted_MarksFirst ==
    /\ loopPc = "granted"
    /\ yesLog' = Bump(yesLog, loopOrder)
    /\ SetRow(loopOrder, "filled")
    /\ LoopGoto("execute")
    /\ UNCHANGED <<level, apiVars, paper, fillLog, histVars>>

\* analyze_and_trade logs the approval it was handed ...
LoopGranted ==
    /\ loopPc = "granted"
    /\ yesLog' = Bump(yesLog, loopOrder)
    /\ LoopGoto("execute")
    /\ UNCHANGED <<row, level, apiVars, paper, fillLog, histVars>>

\* ... executes the trade and logs its fill ...
LoopExecute ==
    /\ loopPc = "execute"
    /\ paper' = Bump(paper, loopOrder)
    /\ LoopGoto("mark")
    /\ UNCHANGED <<row, level, apiVars, fillLog, yesLog, histVars>>

LoopMarkFilled_NoWhere ==
    /\ loopPc = "mark"
    /\ SetRow(loopOrder, "filled") /\ LoopGoto("log_mark")
    /\ UNCHANGED <<level, apiVars, ledgerVars, histVars>>

LoopMarkFilled_NoCallback ==
    /\ loopPc = "mark"
    /\ LoopDone
    /\ UNCHANGED <<row, level, apiVars, ledgerVars, histVars>>

\* ... and calls mark_filled: UPDATE ... WHERE id=? AND status='approved'.
LoopMarkFilled ==
    /\ loopPc = "mark"
    /\ IF row[loopOrder] = "approved"
         THEN SetRow(loopOrder, "filled") /\ LoopGoto("log_mark")
         ELSE UNCHANGED row /\ LoopDone
    /\ UNCHANGED <<level, apiVars, ledgerVars, histVars>>

LoopLogMark_PollsAgain ==
    /\ loopPc = "log_mark"
    /\ yesLog' = Bump(yesLog, loopOrder)
    /\ fillLog' = Bump(fillLog, loopOrder)
    /\ LoopGoto("wait")
    /\ UNCHANGED <<row, level, apiVars, paper, histVars>>

LoopLogMark ==
    /\ loopPc = "log_mark"
    /\ yesLog' = Bump(yesLog, loopOrder)
    /\ fillLog' = Bump(fillLog, loopOrder)
    /\ LoopDone
    /\ UNCHANGED <<row, level, apiVars, paper, histVars>>

-----------------------------------------------------------------------------
(***************************************************************************)
(* Failures.  An exception out of a store or ledger call (which the API    *)
(* turns into a 500 and run_cycle catches) or a crash of a process ends    *)
(* the handler where it is: what it held in memory is gone, the row and    *)
(* the ledger stay.  An execution that reports success = False ends the    *)
(* cycle in the same way.  An API that restarts also forgets the level an  *)
(* operator set.                                                           *)
(***************************************************************************)
ApiFail ==
    /\ failures < MaxFailures
    /\ failures' = failures + 1
    /\ level' \in {level, EnvLevel}
    /\ ApiDone
    /\ UNCHANGED <<row, loopVars, ledgerVars, human, told>>

LoopFail ==
    /\ loopPc # "idle" /\ failures < MaxFailures
    /\ failures' = failures + 1
    /\ LoopDone
    /\ UNCHANGED <<row, level, apiVars, ledgerVars, human, told>>

-----------------------------------------------------------------------------
ApiHandlerStep ==
    \/ ApiRiskReject \/ ApiAutoFill \/ ApiLeavePending \/ ApiLogFill
    \/ ApiDecideWrite \/ ApiAnswer

Client ==
    \/ \E o \in ApiOrders : ApiSubmit(o)
    \/ \E o \in Order, d \in Decision : ApiDecideRead(o, d)
    \/ \E l \in OperatorLevels : SetLevel(l)

LoopCycleStep ==
    \/ LoopAutoFill \/ LoopLeavePending \/ LoopLogFill
    \/ LoopPollGranted \/ LoopPollDenied \/ LoopDeadline
    \/ LoopExpireRead \/ LoopCancelWrite
    \/ LoopGranted \/ LoopExecute \/ LoopMarkFilled \/ LoopLogMark

Next ==
    \/ Client \/ ApiHandlerStep
    \/ \E o \in LoopOrders : LoopSubmit(o)
    \/ LoopCycleStep
    \/ ApiFail \/ LoopFail

\* The two processes run; clients, operators and the strategy may do nothing.
Fairness == WF_vars(ApiHandlerStep) /\ WF_vars(LoopCycleStep)

Spec == Init /\ [][Next]_vars
FairSpec == Spec /\ Fairness

-----------------------------------------------------------------------------
(***************************************************************************)
(* Properties.                                                             *)
(***************************************************************************)

\* Every variable has its type; a process holds an order iff it is not idle.
TypeOK ==
    /\ row \in [Order -> Status]
    /\ level \in Level
    /\ apiPc \in ApiStep /\ apiOrder \in Order \cup {NoOrder} /\ apiDecision \in Decision
    /\ loopPc \in LoopStep /\ loopOrder \in LoopOrders \cup {NoOrder}
    /\ apiPc = "idle" <=> apiOrder = NoOrder
    /\ loopPc = "idle" <=> loopOrder = NoOrder
    /\ paper \in [Order -> Nat] /\ fillLog \in [Order -> Nat] /\ yesLog \in [Order -> Nat]
    /\ human \subseteq Order
    /\ told \in [Order -> Decision \cup {"none"}]
    /\ failures \in 0 .. MaxFailures

\* The gate fails closed: whatever the two processes do to the row, a trade the
\* loop executed was within the loop's threshold or approved by an operator.
ExecutedIsSanctioned ==
    \A o \in Order : paper[o] > 0 => o \in human \/ LoopAuto(o)

\* mark_filled runs after the execution: an order the loop waited for is shown
\* as filled only if its trade was executed, crashes included.
FilledMeansTraded ==
    \A o \in LoopOrders : row[o] = "filled" /\ ~LoopAuto(o) => paper[o] = 1

\* An operator who was answered "rejected" for an order above the threshold will
\* not see it executed, however the answer raced with the poll and the timeout.
RefusalIsFinal ==
    \A o \in Order : told[o] = "rejected" /\ ~LoopAuto(o) => paper[o] = 0

\* An approval answered with 200 can be undone by the decision timeout only: no
\* second decision and no gate of submit puts the order back or rejects it.
ApprovalYieldsOnlyToTimeout ==
    \A o \in Order : told[o] = "approved" => row[o] \in {"approved", "filled", "cancelled"}

\* The WHERE status='approved' of mark_filled: the store logs the fill of an order
\* twice only when an operator's approval landed on an order auto-filled meanwhile.
FillLoggedOnce ==
    \A o \in Order : fillLog[o] > 1 => LoopAuto(o) /\ o \in human

\* The bridge implements the execution gate: the history of sanctions is that of
\* the operators and of the threshold, the executions are the trades.
Gate == INSTANCE ExecutionGate WITH
            sanctioned <- human \cup {o \in LoopOrders : LoopAuto(o) /\ row[o] # "none"},
            executed   <- paper

GateSpec == Gate!Spec

\* wait_for_decision never blocks the loop forever, even if nobody decides.
LoopUnblocks == (loopPc = "wait") ~> (loopPc = "idle")

\* As long as nothing fails, an order of the loop does not stay pending: it is
\* decided by an operator or cancelled by the timeout.
LoopOrderDecided ==
    [](failures = 0) => \A o \in LoopOrders : row[o] = "pending" ~> row[o] # "pending"

\* As long as nothing fails, a human approval the loop has seen is carried to the
\* end of the manual path: executed, and the order filled.
GrantIsCompleted ==
    [](failures = 0) =>
        \A o \in LoopOrders :
            (loopPc = "granted" /\ loopOrder = o /\ ~LoopAuto(o))
                ~> (paper[o] = 1 /\ row[o] = "filled")

-----------------------------------------------------------------------------
(***************************************************************************)
(* What the repository says of the bridge and the code does not keep; the  *)
(* runs that check these expect TLC to find a violation.                   *)
(***************************************************************************)

\* The lifecycle drawn at the head of orders.py: only a pending order is
\* decided, filled automatically or cancelled, and only an approved one is
\* executed into filled.
LifecycleArrow(s, t) ==
    \/ s = t
    \/ s = "none" /\ t = "pending"
    \/ s = "pending" /\ t \in {"filled", "approved", "rejected", "cancelled"}
    \/ s = "approved" /\ t = "filled"

DocumentedLifecycle == [][\A o \in Order : LifecycleArrow(row[o], row'[o])]_row

\* Level 0, "every order requires human approval": while the operator has set it,
\* no order becomes filled without having been approved.
ManualLevelHonoured ==
    [][\A o \in Order : level = 0 /\ row[o] = "pending" => row'[o] # "filled"]_row

\* The lifecycle's second arrow: what an operator approved, the loop executes.
ApprovedIsExecuted ==
    [](failures = 0) => \A o \in Order : row[o] = "approved" ~> row[o] = "filled"

=============================================================================
