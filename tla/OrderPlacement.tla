----------------------------- MODULE OrderPlacement -----------------------------
(***************************************************************************)
(* Where an order goes: agents/execution_agent.py in front of              *)
(* core/exchange_client.py in front of the exchange (external).  A process *)
(* builds one client, whose mode its environment decides; the client of a  *)
(* paper process keeps its orders in memory, that of a live one gives them *)
(* to the exchange over a connection that may lose a request or an answer. *)
(***************************************************************************)
EXTENDS Naturals, Sequences

CONSTANTS MaxTasks,    \* execution tasks of a history
          MaxDeploys   \* clients that are built

ASSUME PlacementAssumption == MaxTasks \in Nat /\ MaxDeploys \in Nat

VARIABLES client,     \* the ExchangeClient, and how many were built
          papers,     \* its simulated_orders
          exchange,   \* the orders the exchange holds
          execution   \* the execution task under way

placementVars == <<client, papers, exchange, execution>>

Modes == {"none", "offline", "paper", "live"}
NoTask == [n |-> 0, phase |-> "idle", approved |-> FALSE, sized |-> FALSE, answer |-> "none"]

PlacementInit ==
  /\ client = [mode |-> "none", built |-> 0]
  /\ papers = <<>> /\ exchange = <<>> /\ execution = NoTask

--------------------------------------------------------------------------------
\* __init__: EXCHANGE_DRY_RUN has no default, ORDER_ROUTING must be known, and live
\* orders need live data.  ExchangeClient raises otherwise, and nothing is built.
ModeOf(dry, routing) ==
  CASE dry = "unset" \/ routing = "other" -> "none"
    [] dry = "true" -> IF routing = "live" THEN "none" ELSE "offline"
    [] OTHER -> routing

\* A process (re)starts in some environment: the paper orders and the task are gone.
BuildClient(dry, routing) ==
  /\ client.built < MaxDeploys
  /\ client' = [mode |-> ModeOf(dry, routing), built |-> client.built + 1]
  /\ papers' = <<>> /\ execution' = [NoTask EXCEPT !.n = execution.n]
  /\ UNCHANGED exchange

Working == client.mode # "none"
Raise == execution' = [execution EXCEPT !.phase = "done", !.answer = "raised"]
Reply(success) == execution' = [execution EXCEPT !.phase = "done", !.answer = IF success THEN "success" ELSE "failed"]

\* ExecutionAgent.execute: refused without a human's approval; a task without sizing is
\* answered with a synthetic fill that no order stands behind.
Execute(approved, sized) ==
  /\ Working /\ execution.phase \in {"idle", "done"} /\ execution.n < MaxTasks
  /\ execution' = [n |-> execution.n + 1, approved |-> approved, sized |-> sized,
              phase |-> IF approved /\ sized THEN "placing" ELSE "done",
              answer |-> IF approved /\ sized THEN "none" ELSE IF approved THEN "synthetic" ELSE "refused"]
  /\ UNCHANGED <<client, papers, exchange>>

\* _react_execution and _simulate_order: what counts as a success.
Succeeds(status) == status \in {"filled", "open"}
Order(type, status) == [task |-> execution.n, type |-> type, status |-> status, mode |-> client.mode]

--------------------------------------------------------------------------------
(* _create_paper_order: the ticker is awaited first, and may fail unless the  *)
(* data are synthetic; a market order is filled at once.                     *)
PaperOrder ==
  \/ /\ papers' = Append(papers, Order("market", "filled")) /\ Reply(TRUE) /\ UNCHANGED exchange
  \/ client.mode # "offline" /\ Raise /\ UNCHANGED <<papers, exchange>>

(* The exchange takes the order, as filled, open or rejected; the request or  *)
(* its answer may be lost, and create_order raises in either case.           *)
LiveOrder ==
  \/ \E status \in {"filled", "open", "rejected"} :
       /\ exchange' = Append(exchange, Order("market", status))
       /\ Reply(Succeeds(status)) \/ Raise
       /\ UNCHANGED papers
  \/ Raise /\ UNCHANGED <<papers, exchange>>

\* Mutant: real data make real orders, whatever the routing.
CreateOrder_ByData ==
  /\ execution.phase = "placing"
  /\ IF client.mode = "offline" THEN PaperOrder ELSE LiveOrder
  /\ UNCHANGED client

CreateOrder ==
  /\ execution.phase = "placing"
  /\ IF client.mode = "live" THEN LiveOrder ELSE PaperOrder
  /\ UNCHANGED client

\* create_order with a limit price (no caller in src/): a paper one stays open.
CreatePaperLimit ==
  /\ client.mode \in {"offline", "paper"} /\ Len(papers) < MaxTasks
  /\ papers' = Append(papers, [task |-> 0, type |-> "limit", status |-> "open", mode |-> client.mode])
  /\ UNCHANGED <<client, exchange, execution>>

Canceled(orders, i) == [orders EXCEPT ![i].status = IF @ = "open" THEN "canceled" ELSE @]
CancelPaper(i) ==
  /\ client.mode \in {"offline", "paper"} /\ i \in DOMAIN papers
  /\ papers' = Canceled(papers, i) /\ UNCHANGED <<client, exchange, execution>>

\* An id that is not among the simulated orders goes to the exchange, in paper mode too;
\* offline there is none to ask, and the call raises.
CancelAtExchange(i) ==
  /\ client.mode \in {"paper", "live"} /\ i \in DOMAIN exchange
  /\ exchange' = Canceled(exchange, i) /\ UNCHANGED <<client, papers, execution>>

\* The exchange's own doing.
FillAtExchange(i) ==
  /\ i \in DOMAIN exchange /\ exchange[i].status = "open"
  /\ exchange' = [exchange EXCEPT ![i].status = "filled"] /\ UNCHANGED <<client, papers, execution>>

PlacementNext ==
  \/ \E dry \in {"unset", "true", "false"}, routing \in {"paper", "live", "other"} : BuildClient(dry, routing)
  \/ \E approved, sized \in BOOLEAN : Execute(approved, sized)
  \/ CreateOrder \/ CreatePaperLimit
  \/ \E i \in 1..MaxTasks : CancelPaper(i) \/ CancelAtExchange(i) \/ FillAtExchange(i)

PlacementSpec == PlacementInit /\ [][PlacementNext]_placementVars

--------------------------------------------------------------------------------
Orders == [task : 0..MaxTasks, type : {"market", "limit"}, mode : Modes,
           status : {"open", "filled", "canceled", "rejected"}]

\* Types of the variables.
PlacementTypeOK ==
  /\ client \in [mode : Modes, built : 0..MaxDeploys]
  /\ papers \in Seq(Orders) /\ exchange \in Seq(Orders)
  /\ execution \in [n : 0..MaxTasks, phase : {"idle", "placing", "done"}, approved : BOOLEAN, sized : BOOLEAN,
               answer : {"none", "refused", "synthetic", "success", "failed", "raised"}]

OrdersOf(n) == {<<"paper", i>> : i \in {i \in DOMAIN papers : papers[i].task = n}}
                 \cup {<<"real", i>> : i \in {i \in DOMAIN exchange : exchange[i].task = n}}
Real(n) == \E i \in DOMAIN exchange : exchange[i].task = n

\* The exchange holds orders of live clients only, one at most for a task; the answer of
\* the running task agrees with what was placed for it: a success has one order behind
\* it, a refusal, a synthetic fill and, in a paper process, an error have none.  (A live
\* error tells nothing: the order may be at the exchange, exchange_client.py:195-216.)
PlacedAsAnswered ==
  /\ \A i \in DOMAIN exchange : exchange[i].mode = "live"
  /\ \A n \in 1..MaxTasks : \A o, p \in OrdersOf(n) : o = p
  /\ execution.phase = "done" =>
       /\ execution.answer \in {"success", "failed"} => OrdersOf(execution.n) # {} /\ execution.approved
       /\ execution.answer \in {"refused", "synthetic"} => OrdersOf(execution.n) = {}
       /\ execution.answer = "raised" /\ ~Real(execution.n) => OrdersOf(execution.n) = {}
       /\ execution.answer = "raised" /\ client.mode # "live" => ~Real(execution.n)
================================================================================
