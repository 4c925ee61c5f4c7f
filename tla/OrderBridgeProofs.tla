-------------------------- MODULE OrderBridgeProofs --------------------------
(***************************************************************************)
(* What OrderBridge guarantees for any sets of orders, any notionals, any  *)
(* autonomy levels and any number of failures.  Three parts, each stable   *)
(* under the two processes, make the inductive invariant:                  *)
(*   GateInv      what a position in the loop's code says of the row, the  *)
(*                sanction and the execution of the order it holds;        *)
(*   DecisionInv  an order is decided by an operator at most once;         *)
(*   FillInv      how often the fill of an order was logged before each    *)
(*                position that logs it.                                   *)
(***************************************************************************)
EXTENDS OrderBridge, TLAPS

Sanctioned(o) == o \in human \/ LoopAuto(o)

\* A position of the loop before / after the execution of the order it holds.
BeforeTrade == {"gate", "log_fill", "wait", "expire", "cancel", "granted", "execute"}
AfterTrade  == {"mark", "log_mark"}
\* A position the loop reaches only with a sanction.
Granted     == {"log_fill", "granted", "execute", "mark", "log_mark"}

GateInv ==
    /\ \A o \in Order : row[o] = "none" => o \notin human /\ paper[o] = 0
    /\ apiPc # "idle" => row[apiOrder] # "none"
    /\ apiPc \in {"gate", "log_fill"} => apiOrder \in ApiOrders
    /\ loopPc # "idle" => row[loopOrder] # "none"
    /\ loopPc \in BeforeTrade => paper[loopOrder] = 0
    /\ loopPc \in AfterTrade => paper[loopOrder] = 1
    /\ loopPc \in Granted => Sanctioned(loopOrder)
    /\ \A o \in Order : row[o] = "approved" => o \in human
    /\ \A o \in LoopOrders : row[o] = "filled" => Sanctioned(o)
    /\ ExecutedIsSanctioned
    /\ FilledMeansTraded

DecisionInv ==
    /\ \A o \in Order : o \in human \/ told[o] # "none" => row[o] \notin {"none", "pending"}
    /\ apiPc \in {"gate", "log_fill", "decide"}
          => apiOrder \notin human /\ told[apiOrder] = "none"
    /\ apiPc = "answer" => row[apiOrder] \notin {"none", "pending"}
    /\ apiPc = "answer" /\ apiDecision = "rejected" => apiOrder \notin human
    /\ apiPc = "answer" /\ apiDecision = "approved"
          => row[apiOrder] \in {"approved", "filled", "cancelled"}
    /\ \A o \in Order : told[o] = "rejected" => o \notin human
    /\ ApprovalYieldsOnlyToTimeout

FillInv ==
    /\ \A o \in Order : row[o] = "none" => fillLog[o] = 0
    /\ apiPc \in {"gate", "log_fill"} => fillLog[apiOrder] = 0
    /\ loopPc \in {"gate", "log_fill"} => fillLog[loopOrder] = 0
    /\ loopPc = "log_fill" => LoopAuto(loopOrder)
    /\ loopPc # "idle" => fillLog[loopOrder] \in {0, 1}
    /\ loopPc # "idle" /\ ~LoopAuto(loopOrder) => fillLog[loopOrder] = 0
    /\ loopPc = "log_mark" => loopOrder \in human
    /\ FillLoggedOnce

-----------------------------------------------------------------------------
(***************************************************************************)
(* Type correctness.                                                       *)
(***************************************************************************)

LEMMA TypeInit == Init => TypeOK
  BY OrderAssumption DEF Init, TypeOK, Status, Decision, ApiStep, LoopStep, Level, Order

LEMMA TypeStep == TypeOK /\ [Next]_vars => TypeOK'
<1> SUFFICES ASSUME TypeOK, [Next]_vars PROVE TypeOK'
  OBVIOUS
<1> USE OrderAssumption DEF TypeOK, Status, Decision, ApiStep, LoopStep, Order
<1>1. ASSUME NEW o \in ApiOrders, ApiSubmit(o) PROVE TypeOK'
  BY <1>1 DEF ApiSubmit, SetRow, loopVars, ledgerVars, histVars
<1>2. ASSUME NEW o \in Order, NEW d \in Decision, ApiDecideRead(o, d) PROVE TypeOK'
  BY <1>2 DEF ApiDecideRead, loopVars, ledgerVars, histVars
<1>3. ASSUME NEW l \in OperatorLevels, SetLevel(l) PROVE TypeOK'
  BY <1>3 DEF SetLevel, apiVars, loopVars, ledgerVars, histVars
<1>4. CASE ApiRiskReject
  BY <1>4 DEF ApiRiskReject, SetRow, ApiDone, loopVars, ledgerVars, histVars
<1>5. CASE ApiAutoFill
  BY <1>5 DEF ApiAutoFill, SetRow, ApiGoto, loopVars, ledgerVars, histVars
<1>6. CASE ApiLeavePending
  BY <1>6 DEF ApiLeavePending, ApiDone, loopVars, ledgerVars, histVars
<1>7. CASE ApiLogFill
  BY <1>7 DEF ApiLogFill, Bump, ApiDone, loopVars, histVars
<1>8. CASE ApiDecideWrite
  BY <1>8 DEF ApiDecideWrite, SetRow, ApiGoto, loopVars, ledgerVars
<1>9. CASE ApiAnswer
  BY <1>9 DEF ApiAnswer, Bump, ApiDone, loopVars
<1>10. ASSUME NEW o \in LoopOrders, LoopSubmit(o) PROVE TypeOK'
  BY <1>10 DEF LoopSubmit, SetRow, apiVars, ledgerVars, histVars
<1>11. CASE LoopAutoFill
  BY <1>11 DEF LoopAutoFill, SetRow, LoopGoto, apiVars, ledgerVars, histVars
<1>12. CASE LoopLeavePending
  BY <1>12 DEF LoopLeavePending, LoopGoto, apiVars, ledgerVars, histVars
<1>13. CASE LoopLogFill
  BY <1>13 DEF LoopLogFill, Bump, LoopGoto, apiVars, histVars
<1>14. CASE LoopPollGranted
  BY <1>14 DEF LoopPollGranted, LoopGoto, apiVars, ledgerVars, histVars
<1>15. CASE LoopPollDenied
  BY <1>15 DEF LoopPollDenied, LoopDone, apiVars, ledgerVars, histVars
<1>16. CASE LoopDeadline
  BY <1>16 DEF LoopDeadline, LoopGoto, apiVars, ledgerVars, histVars
<1>17. CASE LoopExpireRead
  BY <1>17 DEF LoopExpireRead, LoopGoto, LoopDone, apiVars, ledgerVars, histVars
<1>18. CASE LoopCancelWrite
  BY <1>18 DEF LoopCancelWrite, SetRow, LoopDone, apiVars, ledgerVars, histVars
<1>19. CASE LoopGranted
  BY <1>19 DEF LoopGranted, Bump, LoopGoto, apiVars, histVars
<1>20. CASE LoopExecute
  BY <1>20 DEF LoopExecute, Bump, LoopGoto, apiVars, histVars
<1>21. CASE LoopMarkFilled
  BY <1>21 DEF LoopMarkFilled, SetRow, LoopGoto, LoopDone, apiVars, ledgerVars, histVars
<1>22. CASE LoopLogMark
  BY <1>22 DEF LoopLogMark, Bump, LoopDone, apiVars, histVars
<1>23. CASE ApiFail
  BY <1>23 DEF ApiFail, ApiDone, loopVars, ledgerVars
<1>24. CASE LoopFail
  BY <1>24 DEF LoopFail, LoopDone, apiVars, ledgerVars
<1>25. CASE UNCHANGED vars
  BY <1>25 DEF vars, apiVars, loopVars, ledgerVars, histVars
<1>26. QED
  BY <1>1, <1>2, <1>3, <1>4, <1>5, <1>6, <1>7, <1>8, <1>9, <1>10, <1>11, <1>12, <1>13,
     <1>14, <1>15, <1>16, <1>17, <1>18, <1>19, <1>20, <1>21, <1>22, <1>23, <1>24, <1>25
     DEF Next, Client, ApiHandlerStep, LoopCycleStep

\* Every variable of the bridge keeps its type, and a process holds an order
\* exactly while a handler of it is in progress.
THEOREM TypeCorrect == Spec => []TypeOK
  BY TypeInit, TypeStep, PTL DEF Spec

-----------------------------------------------------------------------------
(***************************************************************************)
(* The gate.                                                               *)
(***************************************************************************)

LEMMA GateInvInit == Init => GateInv
  BY OrderAssumption DEF Init, GateInv, ExecutedIsSanctioned, FilledMeansTraded, Sanctioned, BeforeTrade, AfterTrade, Granted, Order

LEMMA GateInvStep == TypeOK /\ GateInv /\ [Next]_vars => GateInv'
<1> SUFFICES ASSUME TypeOK, GateInv, [Next]_vars PROVE GateInv'
  OBVIOUS
<1> USE OrderAssumption DEF TypeOK, Status, Decision, ApiStep, LoopStep, Order,
       GateInv, ExecutedIsSanctioned, FilledMeansTraded, Sanctioned, BeforeTrade, AfterTrade, Granted
<1>1. ASSUME NEW o \in ApiOrders, ApiSubmit(o) PROVE GateInv'
  BY <1>1 DEF ApiSubmit, SetRow, loopVars, ledgerVars, histVars
<1>2. ASSUME NEW o \in Order, NEW d \in Decision, ApiDecideRead(o, d) PROVE GateInv'
  BY <1>2 DEF ApiDecideRead, loopVars, ledgerVars, histVars
<1>3. ASSUME NEW l \in OperatorLevels, SetLevel(l) PROVE GateInv'
  BY <1>3 DEF SetLevel, apiVars, loopVars, ledgerVars, histVars
<1>4. CASE ApiRiskReject
  BY <1>4 DEF ApiRiskReject, SetRow, ApiDone, loopVars, ledgerVars, histVars
<1>5. CASE ApiAutoFill
  BY <1>5 DEF ApiAutoFill, SetRow, ApiGoto, loopVars, ledgerVars, histVars
<1>6. CASE ApiLeavePending
  BY <1>6 DEF ApiLeavePending, ApiDone, loopVars, ledgerVars, histVars
<1>7. CASE ApiLogFill
  BY <1>7 DEF ApiLogFill, Bump, ApiDone, loopVars, histVars
<1>8. CASE ApiDecideWrite
  BY <1>8 DEF ApiDecideWrite, SetRow, ApiGoto, loopVars, ledgerVars
<1>9. CASE ApiAnswer
  BY <1>9 DEF ApiAnswer, Bump, ApiDone, loopVars
<1>10. ASSUME NEW o \in LoopOrders, LoopSubmit(o) PROVE GateInv'
  BY <1>10 DEF LoopSubmit, SetRow, apiVars, ledgerVars, histVars
<1>11. CASE LoopAutoFill
  BY <1>11 DEF LoopAutoFill, SetRow, LoopGoto, apiVars, ledgerVars, histVars, LoopAuto
<1>12. CASE LoopLeavePending
  BY <1>12 DEF LoopLeavePending, LoopGoto, apiVars, ledgerVars, histVars
<1>13. CASE LoopLogFill
  BY <1>13 DEF LoopLogFill, Bump, LoopGoto, apiVars, histVars
<1>14. CASE LoopPollGranted
  BY <1>14 DEF LoopPollGranted, LoopGoto, apiVars, ledgerVars, histVars
<1>15. CASE LoopPollDenied
  BY <1>15 DEF LoopPollDenied, LoopDone, apiVars, ledgerVars, histVars
<1>16. CASE LoopDeadline
  BY <1>16 DEF LoopDeadline, LoopGoto, apiVars, ledgerVars, histVars
<1>17. CASE LoopExpireRead
  BY <1>17 DEF LoopExpireRead, LoopGoto, LoopDone, apiVars, ledgerVars, histVars
<1>18. CASE LoopCancelWrite
  BY <1>18 DEF LoopCancelWrite, SetRow, LoopDone, apiVars, ledgerVars, histVars
<1>19. CASE LoopGranted
  BY <1>19 DEF LoopGranted, Bump, LoopGoto, apiVars, histVars
<1>20. CASE LoopExecute
  BY <1>20 DEF LoopExecute, Bump, LoopGoto, apiVars, histVars
<1>21. CASE LoopMarkFilled
  BY <1>21 DEF LoopMarkFilled, SetRow, LoopGoto, LoopDone, apiVars, ledgerVars, histVars
<1>22. CASE LoopLogMark
  BY <1>22 DEF LoopLogMark, Bump, LoopDone, apiVars, histVars
<1>23. CASE ApiFail
  BY <1>23 DEF ApiFail, ApiDone, loopVars, ledgerVars
<1>24. CASE LoopFail
  BY <1>24 DEF LoopFail, LoopDone, apiVars, ledgerVars
<1>25. CASE UNCHANGED vars
  BY <1>25 DEF vars, apiVars, loopVars, ledgerVars, histVars
<1>26. QED
  BY <1>1, <1>2, <1>3, <1>4, <1>5, <1>6, <1>7, <1>8, <1>9, <1>10, <1>11, <1>12, <1>13,
     <1>14, <1>15, <1>16, <1>17, <1>18, <1>19, <1>20, <1>21, <1>22, <1>23, <1>24, <1>25
     DEF Next, Client, ApiHandlerStep, LoopCycleStep

-----------------------------------------------------------------------------
(***************************************************************************)
(* One decision per order.                                                 *)
(***************************************************************************)

LEMMA DecisionInvInit == Init => DecisionInv
  BY OrderAssumption DEF Init, DecisionInv, ApprovalYieldsOnlyToTimeout, Order

LEMMA DecisionInvStep == TypeOK /\ GateInv /\ DecisionInv /\ [Next]_vars => DecisionInv'
<1> SUFFICES ASSUME TypeOK, GateInv, DecisionInv, [Next]_vars PROVE DecisionInv'
  OBVIOUS
<1> USE OrderAssumption DEF TypeOK, Status, Decision, ApiStep, LoopStep, Order, GateInv,
       DecisionInv, ApprovalYieldsOnlyToTimeout
<1>1. ASSUME NEW o \in ApiOrders, ApiSubmit(o) PROVE DecisionInv'
  BY <1>1 DEF ApiSubmit, SetRow, loopVars, ledgerVars, histVars
<1>2. ASSUME NEW o \in Order, NEW d \in Decision, ApiDecideRead(o, d) PROVE DecisionInv'
  BY <1>2 DEF ApiDecideRead, loopVars, ledgerVars, histVars
<1>3. ASSUME NEW l \in OperatorLevels, SetLevel(l) PROVE DecisionInv'
  BY <1>3 DEF SetLevel, apiVars, loopVars, ledgerVars, histVars
<1>4. CASE ApiRiskReject
  BY <1>4 DEF ApiRiskReject, SetRow, ApiDone, loopVars, ledgerVars, histVars
<1>5. CASE ApiAutoFill
  BY <1>5 DEF ApiAutoFill, SetRow, ApiGoto, loopVars, ledgerVars, histVars
<1>6. CASE ApiLeavePending
  BY <1>6 DEF ApiLeavePending, ApiDone, loopVars, ledgerVars, histVars
<1>7. CASE ApiLogFill
  BY <1>7 DEF ApiLogFill, Bump, ApiDone, loopVars, histVars
<1>8. CASE ApiDecideWrite
  BY <1>8 DEF ApiDecideWrite, SetRow, ApiGoto, loopVars, ledgerVars
<1>9. CASE ApiAnswer
  BY <1>9 DEF ApiAnswer, Bump, ApiDone, loopVars
<1>10. ASSUME NEW o \in LoopOrders, LoopSubmit(o) PROVE DecisionInv'
  BY <1>10 DEF LoopSubmit, SetRow, apiVars, ledgerVars, histVars
<1>11. CASE LoopAutoFill
  BY <1>11 DEF LoopAutoFill, SetRow, LoopGoto, apiVars, ledgerVars, histVars
<1>12. CASE LoopLeavePending
  BY <1>12 DEF LoopLeavePending, LoopGoto, apiVars, ledgerVars, histVars
<1>13. CASE LoopLogFill
  BY <1>13 DEF LoopLogFill, Bump, LoopGoto, apiVars, histVars
<1>14. CASE LoopPollGranted
  BY <1>14 DEF LoopPollGranted, LoopGoto, apiVars, ledgerVars, histVars
<1>15. CASE LoopPollDenied
  BY <1>15 DEF LoopPollDenied, LoopDone, apiVars, ledgerVars, histVars
<1>16. CASE LoopDeadline
  BY <1>16 DEF LoopDeadline, LoopGoto, apiVars, ledgerVars, histVars
<1>17. CASE LoopExpireRead
  BY <1>17 DEF LoopExpireRead, LoopGoto, LoopDone, apiVars, ledgerVars, histVars
<1>18. CASE LoopCancelWrite
  BY <1>18 DEF LoopCancelWrite, SetRow, LoopDone, apiVars, ledgerVars, histVars
<1>19. CASE LoopGranted
  BY <1>19 DEF LoopGranted, Bump, LoopGoto, apiVars, histVars
<1>20. CASE LoopExecute
  BY <1>20 DEF LoopExecute, Bump, LoopGoto, apiVars, histVars
<1>21. CASE LoopMarkFilled
  BY <1>21 DEF LoopMarkFilled, SetRow, LoopGoto, LoopDone, apiVars, ledgerVars, histVars
<1>22. CASE LoopLogMark
  BY <1>22 DEF LoopLogMark, Bump, LoopDone, apiVars, histVars
<1>23. CASE ApiFail
  BY <1>23 DEF ApiFail, ApiDone, loopVars, ledgerVars
<1>24. CASE LoopFail
  BY <1>24 DEF LoopFail, LoopDone, apiVars, ledgerVars
<1>25. CASE UNCHANGED vars
  BY <1>25 DEF vars, apiVars, loopVars, ledgerVars, histVars
<1>26. QED
  BY <1>1, <1>2, <1>3, <1>4, <1>5, <1>6, <1>7, <1>8, <1>9, <1>10, <1>11, <1>12, <1>13,
     <1>14, <1>15, <1>16, <1>17, <1>18, <1>19, <1>20, <1>21, <1>22, <1>23, <1>24, <1>25
     DEF Next, Client, ApiHandlerStep, LoopCycleStep

-----------------------------------------------------------------------------
(***************************************************************************)
(* Fills logged.                                                           *)
(***************************************************************************)

LEMMA FillInvInit == Init => FillInv
  BY OrderAssumption DEF Init, FillInv, FillLoggedOnce, Order

LEMMA FillInvStep == TypeOK /\ GateInv /\ FillInv /\ [Next]_vars => FillInv'
<1> SUFFICES ASSUME TypeOK, GateInv, FillInv, [Next]_vars PROVE FillInv'
  OBVIOUS
<1> USE OrderAssumption DEF TypeOK, Status, Decision, ApiStep, LoopStep, Order, GateInv,
       FillInv, FillLoggedOnce
<1>1. ASSUME NEW o \in ApiOrders, ApiSubmit(o) PROVE FillInv'
  BY <1>1 DEF ApiSubmit, SetRow, loopVars, ledgerVars, histVars
<1>2. ASSUME NEW o \in Order, NEW d \in Decision, ApiDecideRead(o, d) PROVE FillInv'
  BY <1>2 DEF ApiDecideRead, loopVars, ledgerVars, histVars
<1>3. ASSUME NEW l \in OperatorLevels, SetLevel(l) PROVE FillInv'
  BY <1>3 DEF SetLevel, apiVars, loopVars, ledgerVars, histVars
<1>4. CASE ApiRiskReject
  BY <1>4 DEF ApiRiskReject, SetRow, ApiDone, loopVars, ledgerVars, histVars
<1>5. CASE ApiAutoFill
  BY <1>5 DEF ApiAutoFill, SetRow, ApiGoto, loopVars, ledgerVars, histVars
<1>6. CASE ApiLeavePending
  BY <1>6 DEF ApiLeavePending, ApiDone, loopVars, ledgerVars, histVars
<1>7. CASE ApiLogFill
  BY <1>7 DEF ApiLogFill, Bump, ApiDone, loopVars, histVars
<1>8. CASE ApiDecideWrite
  BY <1>8 DEF ApiDecideWrite, SetRow, ApiGoto, loopVars, ledgerVars
<1>9. CASE ApiAnswer
  BY <1>9 DEF ApiAnswer, Bump, ApiDone, loopVars
<1>10. ASSUME NEW o \in LoopOrders, LoopSubmit(o) PROVE FillInv'
  BY <1>10 DEF LoopSubmit, SetRow, apiVars, ledgerVars, histVars
<1>11. CASE LoopAutoFill
  BY <1>11 DEF LoopAutoFill, SetRow, LoopGoto, apiVars, ledgerVars, histVars, LoopAuto
<1>12. CASE LoopLeavePending
  BY <1>12 DEF LoopLeavePending, LoopGoto, apiVars, ledgerVars, histVars
<1>13. CASE LoopLogFill
  BY <1>13 DEF LoopLogFill, Bump, LoopGoto, apiVars, histVars
<1>14. CASE LoopPollGranted
  BY <1>14 DEF LoopPollGranted, LoopGoto, apiVars, ledgerVars, histVars
<1>15. CASE LoopPollDenied
  BY <1>15 DEF LoopPollDenied, LoopDone, apiVars, ledgerVars, histVars
<1>16. CASE LoopDeadline
  BY <1>16 DEF LoopDeadline, LoopGoto, apiVars, ledgerVars, histVars
<1>17. CASE LoopExpireRead
  BY <1>17 DEF LoopExpireRead, LoopGoto, LoopDone, apiVars, ledgerVars, histVars
<1>18. CASE LoopCancelWrite
  BY <1>18 DEF LoopCancelWrite, SetRow, LoopDone, apiVars, ledgerVars, histVars
<1>19. CASE LoopGranted
  BY <1>19 DEF LoopGranted, Bump, LoopGoto, apiVars, histVars
<1>20. CASE LoopExecute
  BY <1>20 DEF LoopExecute, Bump, LoopGoto, apiVars, histVars
<1>21. CASE LoopMarkFilled
  BY <1>21 DEF LoopMarkFilled, SetRow, LoopGoto, LoopDone, apiVars, ledgerVars, histVars
<1>22. CASE LoopLogMark
  BY <1>22 DEF LoopLogMark, Bump, LoopDone, apiVars, histVars
<1>23. CASE ApiFail
  BY <1>23 DEF ApiFail, ApiDone, loopVars, ledgerVars
<1>24. CASE LoopFail
  BY <1>24 DEF LoopFail, LoopDone, apiVars, ledgerVars
<1>25. CASE UNCHANGED vars
  BY <1>25 DEF vars, apiVars, loopVars, ledgerVars, histVars
<1>26. QED
  BY <1>1, <1>2, <1>3, <1>4, <1>5, <1>6, <1>7, <1>8, <1>9, <1>10, <1>11, <1>12, <1>13,
     <1>14, <1>15, <1>16, <1>17, <1>18, <1>19, <1>20, <1>21, <1>22, <1>23, <1>24, <1>25
     DEF Next, Client, ApiHandlerStep, LoopCycleStep

-----------------------------------------------------------------------------
(***************************************************************************)
(* The theorems.                                                           *)
(***************************************************************************)

IInv == TypeOK /\ GateInv /\ DecisionInv /\ FillInv

LEMMA Invariance == Spec => []IInv
<1>1. Init => IInv
  BY TypeInit, GateInvInit, DecisionInvInit, FillInvInit DEF IInv
<1>2. IInv /\ [Next]_vars => IInv'
  BY TypeStep, GateInvStep, DecisionInvStep, FillInvStep DEF IInv
<1>3. QED
  BY <1>1, <1>2, PTL DEF Spec

\* Whatever the API, the loop, their failures and the decision timeout do to the
\* row of an order, the loop trades it only with an operator's approval or within
\* the threshold of its own environment.
THEOREM ExecutionIsSanctioned == Spec => []ExecutedIsSanctioned
<1>1. IInv => ExecutedIsSanctioned
  BY DEF IInv, GateInv
<1>2. QED
  BY <1>1, Invariance, PTL

\* An order that the loop waited for and that is shown as filled was traded,
\* exactly once, even if a process crashes between any two of its steps.
THEOREM FilledWasTraded == Spec => []FilledMeansTraded
<1>1. IInv => FilledMeansTraded
  BY DEF IInv, GateInv
<1>2. QED
  BY <1>1, Invariance, PTL

\* A rejection answered to an operator is never followed by, nor was preceded by,
\* a trade of the order, unless the threshold alone sanctioned it.
THEOREM RefusalHolds == Spec => []RefusalIsFinal
<1>1. IInv => RefusalIsFinal
  BY DEF IInv, TypeOK, GateInv, DecisionInv, ExecutedIsSanctioned, RefusalIsFinal
<1>2. QED
  BY <1>1, Invariance, PTL

\* An approval answered to an operator is undone by nobody but the timeout of
\* wait_for_decision.
THEOREM ApprovalHolds == Spec => []ApprovalYieldsOnlyToTimeout
<1>1. IInv => ApprovalYieldsOnlyToTimeout
  BY DEF IInv, DecisionInv
<1>2. QED
  BY <1>1, Invariance, PTL

\* The store logs a second fill of an order only for one that was filled within
\* the threshold while an operator was approving it.
THEOREM FillsAreLoggedOnce == Spec => []FillLoggedOnce
<1>1. IInv => FillLoggedOnce
  BY DEF IInv, FillInv
<1>2. QED
  BY <1>1, Invariance, PTL

-----------------------------------------------------------------------------
(***************************************************************************)
(* The bridge implements ExecutionGate.  Three kinds of step are visible   *)
(* there: a sanction by the threshold (LoopSubmit) or by an operator       *)
(* (ApiDecideWrite), and an execution (LoopExecute).                       *)
(***************************************************************************)
AutoSanctioned == {o \in LoopOrders : LoopAuto(o) /\ row[o] # "none"}
GateSanctioned == human \cup AutoSanctioned
GateStep       == [Gate!Next]_<<GateSanctioned, paper>>

LEMMA GateInit == Init => Gate!Init
  BY DEF Init, Gate!Init, Order

LEMMA GateStutter ==
    ASSUME UNCHANGED <<GateSanctioned, paper>> PROVE GateStep
  BY DEF GateStep

LEMMA GateRefined == TypeOK /\ GateInv /\ [Next]_vars => GateStep
<1> SUFFICES ASSUME TypeOK, GateInv, [Next]_vars PROVE GateStep
  OBVIOUS
<1> USE OrderAssumption DEF TypeOK, GateInv, Order, GateSanctioned
<1>1. ASSUME NEW o \in ApiOrders, ApiSubmit(o) PROVE GateStep
  BY <1>1, GateStutter DEF ApiSubmit, SetRow, loopVars, ledgerVars, histVars,
      AutoSanctioned
<1>2. ASSUME NEW o \in Order, NEW d \in Decision, ApiDecideRead(o, d) PROVE GateStep
  BY <1>2, GateStutter DEF ApiDecideRead, loopVars, ledgerVars, histVars, AutoSanctioned
<1>3. ASSUME NEW l \in OperatorLevels, SetLevel(l) PROVE GateStep
  BY <1>3, GateStutter DEF SetLevel, apiVars, loopVars, ledgerVars, histVars,
      AutoSanctioned
<1>4. CASE ApiRiskReject
  BY <1>4, GateStutter DEF ApiRiskReject, SetRow, ApiDone, loopVars, ledgerVars,
      histVars, AutoSanctioned
<1>5. CASE ApiAutoFill
  BY <1>5, GateStutter DEF ApiAutoFill, SetRow, ApiGoto, loopVars, ledgerVars, histVars,
      AutoSanctioned
<1>6. CASE ApiLeavePending
  BY <1>6, GateStutter DEF ApiLeavePending, ApiDone, loopVars, ledgerVars, histVars,
      AutoSanctioned
<1>7. CASE ApiLogFill
  BY <1>7, GateStutter DEF ApiLogFill, Bump, ApiDone, loopVars, histVars, AutoSanctioned
<1>8. CASE ApiDecideWrite
  <2>1. PICK o \in Order : apiOrder = o
    BY <1>8 DEF ApiDecideWrite
  <2>2. UNCHANGED <<AutoSanctioned, paper>>
    BY <1>8 DEF ApiDecideWrite, SetRow, ledgerVars, Decision, AutoSanctioned
  <2>3. CASE apiDecision = "approved"
    <3>1. Gate!Sanction(o)
      BY <1>8, <2>1, <2>2, <2>3 DEF ApiDecideWrite, AutoSanctioned, Gate!Sanction
    <3>2. QED
      BY <2>1, <3>1 DEF GateStep, Gate!Next
  <2>4. CASE apiDecision # "approved"
    BY <1>8, <2>2, <2>4, GateStutter DEF ApiDecideWrite, GateSanctioned
  <2>5. QED
    BY <2>3, <2>4
<1>9. CASE ApiAnswer
  BY <1>9, GateStutter DEF ApiAnswer, Bump, ApiDone, loopVars, AutoSanctioned
<1>10. ASSUME NEW o \in LoopOrders, LoopSubmit(o) PROVE GateStep
  <2>1. CASE LoopAuto(o)
    <3>1. Gate!Sanction(o)
      BY <1>10, <2>1 DEF LoopSubmit, SetRow, ledgerVars, histVars, AutoSanctioned, Gate!Sanction
    <3>2. QED
      BY <3>1 DEF GateStep, Gate!Next
  <2>2. CASE ~LoopAuto(o)
    BY <1>10, <2>2, GateStutter
       DEF LoopSubmit, SetRow, ledgerVars, histVars, AutoSanctioned
  <2>3. QED
    BY <2>1, <2>2
<1>11. CASE LoopAutoFill
  BY <1>11, GateStutter DEF LoopAutoFill, SetRow, LoopGoto, apiVars, ledgerVars,
      histVars, AutoSanctioned
<1>12. CASE LoopLeavePending
  BY <1>12, GateStutter DEF LoopLeavePending, LoopGoto, apiVars, ledgerVars, histVars,
      AutoSanctioned
<1>13. CASE LoopLogFill
  BY <1>13, GateStutter DEF LoopLogFill, Bump, LoopGoto, apiVars, histVars,
      AutoSanctioned
<1>14. CASE LoopPollGranted
  BY <1>14, GateStutter DEF LoopPollGranted, LoopGoto, apiVars, ledgerVars, histVars,
      AutoSanctioned
<1>15. CASE LoopPollDenied
  BY <1>15, GateStutter DEF LoopPollDenied, LoopDone, apiVars, ledgerVars, histVars,
      AutoSanctioned
<1>16. CASE LoopDeadline
  BY <1>16, GateStutter DEF LoopDeadline, LoopGoto, apiVars, ledgerVars, histVars,
      AutoSanctioned
<1>17. CASE LoopExpireRead
  BY <1>17, GateStutter DEF LoopExpireRead, LoopGoto, LoopDone, apiVars, ledgerVars,
      histVars, AutoSanctioned
<1>18. CASE LoopCancelWrite
  BY <1>18, GateStutter DEF LoopCancelWrite, SetRow, LoopDone, apiVars, ledgerVars,
      histVars, AutoSanctioned
<1>19. CASE LoopGranted
  BY <1>19, GateStutter DEF LoopGranted, Bump, LoopGoto, apiVars, histVars,
      AutoSanctioned
<1>20. CASE LoopExecute
  <2>1. PICK o \in Order : loopOrder = o /\ paper[o] = 0 /\ row[o] # "none"
    BY <1>20 DEF LoopExecute, BeforeTrade
  <2>2. o \in GateSanctioned
    BY <1>20, <2>1 DEF LoopExecute, Granted, Sanctioned, LoopAuto, AutoSanctioned
  <2>3. paper' = [paper EXCEPT ![o] = 1]
    BY <1>20, <2>1 DEF LoopExecute, Bump
  <2>4. UNCHANGED GateSanctioned
    BY <1>20 DEF LoopExecute, histVars, AutoSanctioned
  <2>5. Gate!Execute(o)
    BY <2>1, <2>2, <2>3, <2>4 DEF Gate!Execute, AutoSanctioned
  <2>6. QED
    BY <2>1, <2>5 DEF GateStep, Gate!Next
<1>21. CASE LoopMarkFilled
  BY <1>21, GateStutter DEF LoopMarkFilled, SetRow, LoopGoto, LoopDone, apiVars,
      ledgerVars, histVars, AutoSanctioned
<1>22. CASE LoopLogMark
  BY <1>22, GateStutter DEF LoopLogMark, Bump, LoopDone, apiVars, histVars,
      AutoSanctioned
<1>23. CASE ApiFail
  BY <1>23, GateStutter DEF ApiFail, ApiDone, loopVars, ledgerVars, AutoSanctioned
<1>24. CASE LoopFail
  BY <1>24, GateStutter DEF LoopFail, LoopDone, apiVars, ledgerVars, AutoSanctioned
<1>25. CASE UNCHANGED vars
  BY <1>25, GateStutter DEF AutoSanctioned, vars, apiVars, loopVars, ledgerVars, histVars
<1>26. QED
  BY <1>1, <1>2, <1>3, <1>4, <1>5, <1>6, <1>7, <1>8, <1>9, <1>10, <1>11, <1>12, <1>13,
     <1>14, <1>15, <1>16, <1>17, <1>18, <1>19, <1>20, <1>21, <1>22, <1>23, <1>24, <1>25
     DEF Next, Client, ApiHandlerStep, LoopCycleStep

\* The whole bridge, two processes, a table without guarded writes, crashes and a
\* timeout, implements the gate that executes each sanctioned order at most once.
THEOREM BridgeImplementsGate == Spec => GateSpec
<1>1. Init => Gate!Init
  BY GateInit
<1>2. IInv /\ [Next]_vars => GateStep
  BY GateRefined DEF IInv
<1>3. QED
  BY <1>1, <1>2, Invariance, PTL
     DEF Spec, GateSpec, Gate!Spec, GateStep, GateSanctioned, AutoSanctioned

=============================================================================
