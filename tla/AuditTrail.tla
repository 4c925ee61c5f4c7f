----------------------------- MODULE AuditTrail -----------------------------
(***************************************************************************)
(* The two append-only books and their readers: the ledger, of which the    *)
(* audit trail is a filtered view (core/ledger.py, audit/normalize.py,       *)
(* api/routes/audit.py), and the file of alerts (core/alerts.py,             *)
(* api/routes/alerts.py).  A reader asks for an action, page by page, as an   *)
(* export or as one event, while the loop and the API go on writing.         *)
(*                                                                         *)
(* The filter is SQL, the envelope that is shown is Python: the module says   *)
(* that the two must stay in lockstep.  Of the filters, action and actor are  *)
(* modelled; entity and time are conjuncts of the same predicate.            *)
(***************************************************************************)
EXTENDS Integers, Sequences, SequencesExt, FiniteSets

CONSTANTS People,       \* who acts; "none" is nobody
          MaxEvents,    \* bound: entries of the ledger
          MaxAlerts,    \* bound: lines of the file of alerts
          PageSize,     \* limit of a page
          Batch,        \* rows fetched at a time by an export
          Replay        \* alerts sent again when a stream opens

ASSUME AuditAssumption ==
  /\ "none" \notin People /\ "orchestrator" \notin People
  /\ MaxEvents \in Nat /\ MaxAlerts \in Nat /\ PageSize \in Nat \ {0} /\ Batch \in Nat \ {0} /\ Replay \in Nat

VARIABLES trail,    \* ledger_events, by id
          alerts,   \* the lines of alerts.jsonl
          tornLine,     \* a line of it was cut by a crash
          walk      \* the reader

auditVars == <<trail, alerts, tornLine, walk>>

-----------------------------------------------------------------------------
(* What is written.  An event type is a family (auth_, connection_, apikey_) *)
(* and a name; of the payload, the identities and the approval are kept.      *)

LoopTypes == {"position_closed", "circuit_breaker_tripped", "circuit_breaker_reset",
              "signal_skipped", "data_fallback", "notification_sent", "notification_failed"}
BlankEvent == [family |-> "none", name |-> "none", actor |-> "none", user |-> "none", agent |-> "none", approved |-> FALSE]
AuthEvent(n, p) == [BlankEvent EXCEPT !.family = "auth", !.name = n, !.actor = p]
KeyEvent(f, p) == [BlankEvent EXCEPT !.family = f, !.name = "added", !.actor = p]
Approval(yes, p) == [BlankEvent EXCEPT !.name = "hitl_approval", !.approved = yes, !.user = p]
ConfigEvent(n, p) == [BlankEvent EXCEPT !.name = n, !.actor = p]
ExecutionEvent == [BlankEvent EXCEPT !.name = "order_executed", !.agent = "execution"]
FillEvent == [BlankEvent EXCEPT !.name = "order_fill", !.agent = "execution"]
LoopEvent(n) == [BlankEvent EXCEPT !.name = n]

LedgerEntries ==
  (UNION { {AuthEvent(n, p) : n \in {"login", "logout", "password_reset", "user_deleted"}}
          \cup {KeyEvent(f, p) : f \in {"connection", "apikey"}}
          \cup {Approval(yes, p) : yes \in BOOLEAN}
          \cup {ConfigEvent(n, p) : n \in {"config_changed", "hitl_level_changed"}} : p \in People })
  \cup {ExecutionEvent, FillEvent} \cup {LoopEvent(n) : n \in LoopTypes}

-----------------------------------------------------------------------------
(* One event, as Python shows it.                                          *)

AUDIT_ACTIONS == {"login", "logout", "security", "user_management", "order_approved",
            "order_rejected", "autonomy_changed", "config_changed", "position_closed",
            "circuit_breaker", "order_executed", "notification", "connection",
            "platform_key", "signal_skipped", "data_fallback"}
ActorOf(e) == IF e.actor # "none" THEN e.actor ELSE IF e.user # "none" THEN e.user
              ELSE IF e.agent # "none" THEN e.agent ELSE "orchestrator"
ActionOf(e) ==
  CASE e.family = "auth" -> (CASE e.name \in {"login", "logout"} -> e.name
                               [] e.name = "user_deleted" -> "user_management"
                               [] OTHER -> "security")
    [] e.family = "connection" -> "connection"
    [] e.family = "apikey" -> "platform_key"
    [] e.name = "hitl_approval" -> IF e.approved THEN "order_approved" ELSE "order_rejected"
    [] e.name = "hitl_level_changed" -> "autonomy_changed"
    [] e.name \in {"circuit_breaker_tripped", "circuit_breaker_reset"} -> "circuit_breaker"
    [] e.name \in {"notification_sent", "notification_failed"} -> "notification"
    [] e.name \in AUDIT_ACTIONS -> e.name
    [] OTHER -> "other"

(* The same, as SQL selects it.                                            *)

AUDITABLE == {"hitl_approval", "hitl_level_changed", "config_changed", "order_executed"} \cup LoopTypes
Auditable(e) == e.family \in {"auth", "connection", "apikey"} \/ e.name \in AUDITABLE

\* Mutant: the events about users are not taken out of the security events.
ActionPredicate_Overlaps(a, e) ==
  IF a = "security" THEN e.family = "auth" /\ e.name \notin {"login", "logout"}
  ELSE ActionOf(e) = a

\* _action_predicate: the clause for an action.
ActionPredicate(a, e) ==
  CASE a \in {"login", "logout"} -> e.family = "auth" /\ e.name = a
    [] a = "user_management" -> e.family = "auth" /\ e.name = "user_deleted"
    [] a = "security" -> e.family = "auth" /\ e.name \notin {"login", "logout", "user_deleted"}
    [] a = "order_approved" -> e.name = "hitl_approval" /\ e.approved
    [] a = "order_rejected" -> e.name = "hitl_approval" /\ ~e.approved
    [] a = "autonomy_changed" -> e.name = "hitl_level_changed"
    [] a = "circuit_breaker" -> e.name \in {"circuit_breaker_tripped", "circuit_breaker_reset"}
    [] a = "notification" -> e.name \in {"notification_sent", "notification_failed"}
    [] a = "connection" -> e.family = "connection"
    [] a = "platform_key" -> e.family = "apikey"
    [] OTHER -> e.name = a

Selected(e, q) ==
  /\ Auditable(e)
  /\ q.action # "any" => ActionPredicate(q.action, e)
  /\ q.actor # "any" => ActorOf(e) = q.actor

-----------------------------------------------------------------------------
(* The readers.                                                            *)

AuditWalks == {"pages", "export", "event"}
Questions == [action: AUDIT_ACTIONS \cup {"any"}, actor: {"any"}]
             \cup [action: {"any"}, actor: People \cup {"orchestrator"}]
Severities == {"low", "high"}
AlertQuestions == [severity: Severities \cup {"any"}]

NewestFirst(S) ==
  CHOOSE s \in [1..Cardinality(S) -> S] : \A m, n \in DOMAIN s : m < n => s[m] > s[n]
ListedEvents(q) == NewestFirst({i \in DOMAIN trail : Selected(trail[i], q)})
ListedAlerts(q) == NewestFirst({i \in DOMAIN alerts : q.severity \in {"any", alerts[i]}})
Slice(s, offset) ==
  SubSeq(s, offset + 1, IF offset + PageSize < Len(s) THEN offset + PageSize ELSE Len(s))

Gone == [kind |-> "none", asked |-> [action |-> "any", actor |-> "any"], ids |-> {}, offset |-> 0,
         total |-> 0, shown |-> <<>>, left |-> <<>>, phase |-> "idle"]
Asks(kind, q, ids) == [Gone EXCEPT !.kind = kind, !.asked = q, !.ids = ids, !.phase = "asks"]

AuditInit == trail = <<>> /\ alerts = <<>> /\ tornLine = FALSE /\ walk = Gone

LogDecision(e) ==
  /\ Len(trail) < MaxEvents
  /\ trail' = Append(trail, e) /\ UNCHANGED <<alerts, tornLine, walk>>

\* The store's append, and publish_alert: the loop's bus has no subscriber, the API's no publisher.
AppendAlert(s) ==
  /\ Len(alerts) < MaxAlerts /\ ~tornLine
  /\ alerts' = Append(alerts, s) /\ UNCHANGED <<trail, tornLine, walk>>

\* A crash in the middle of the line; what is appended next continues it.
TearAlert ==
  /\ ~tornLine /\ tornLine' = TRUE /\ UNCHANGED <<trail, alerts, walk>>

\* /v1/audit: the total, then the rows, each from the database as it is at that moment; the
\* client asks for the next page until one comes short.
BeginPages(q) ==
  /\ walk = Gone
  /\ walk' = Asks("pages", q, DOMAIN trail) /\ UNCHANGED <<trail, alerts, tornLine>>

CountPage ==
  /\ walk.kind = "pages" /\ walk.phase = "asks"
  /\ walk' = [walk EXCEPT !.total = Len(ListedEvents(walk.asked)), !.phase = "counted"]
  /\ UNCHANGED <<trail, alerts, tornLine>>

Turned(rows) ==
  [walk EXCEPT !.shown = @ \o rows, !.offset = @ + PageSize,
               !.phase = IF Len(rows) < PageSize THEN "done" ELSE "asks"]
ReadPage ==
  /\ walk.kind = "pages" /\ walk.phase = "counted"
  /\ walk' = Turned(Slice(ListedEvents(walk.asked), walk.offset))
  /\ UNCHANGED <<trail, alerts, tornLine>>

\* /v1/audit/export: one statement, whose rows are fetched as the client takes them.
BeginExport(q) ==
  /\ walk = Gone
  /\ walk' = [Asks("export", q, DOMAIN trail) EXCEPT !.left = ListedEvents(q)]
  /\ UNCHANGED <<trail, alerts, tornLine>>

FetchBatch ==
  /\ walk.kind = "export" /\ walk.phase = "asks"
  /\ LET n == IF Batch < Len(walk.left) THEN Batch ELSE Len(walk.left)
     IN walk' = [walk EXCEPT !.shown = @ \o SubSeq(walk.left, 1, n),
                             !.left = SubSeq(@, n + 1, Len(@)),
                             !.phase = IF n = 0 THEN "done" ELSE "asks"]
  /\ UNCHANGED <<trail, alerts, tornLine>>

\* /v1/audit/{id}: 404 for what is not part of the trail.
GetAuditEvent(i) ==
  /\ walk = Gone
  /\ LET q == Gone.asked
     IN walk' = [Asks("event", q, {i}) EXCEPT
                   !.shown = IF Selected(trail[i], q) THEN <<i>> ELSE <<>>, !.phase = "done"]
  /\ UNCHANGED <<trail, alerts, tornLine>>

\* /v1/alerts/history: every page reads the file anew. A cut line makes each of them fail.
BeginHistory(q) ==
  /\ walk = Gone
  /\ walk' = Asks("history", q, DOMAIN alerts) /\ UNCHANGED <<trail, alerts, tornLine>>

ReadHistory ==
  /\ walk.kind = "history" /\ walk.phase = "asks"
  /\ walk' = IF tornLine THEN Gone
             ELSE [Turned(Slice(ListedAlerts(walk.asked), walk.offset))
                     EXCEPT !.total = Len(ListedAlerts(walk.asked))]
  /\ UNCHANGED <<trail, alerts, tornLine>>

\* /v1/alerts: the last ones are sent again, the oldest of them first, then heartbeats only.
StreamAlerts(q) ==
  /\ walk = Gone /\ ~tornLine
  /\ LET last == ListedAlerts(q)
     IN walk' = [Asks("stream", q, DOMAIN alerts) EXCEPT
                   !.shown = Reverse(SubSeq(last, 1, IF Replay < Len(last) THEN Replay ELSE Len(last))),
                   !.phase = "live"]
  /\ UNCHANGED <<trail, alerts, tornLine>>

Leave ==
  /\ walk # Gone /\ walk' = Gone /\ UNCHANGED <<trail, alerts, tornLine>>

\* The books have nothing to do with each other, nor have their readers.
TrailNext ==
  \/ \E e \in LedgerEntries : LogDecision(e)
  \/ \E q \in Questions : BeginPages(q) \/ BeginExport(q)
  \/ CountPage \/ ReadPage \/ FetchBatch
  \/ \E i \in DOMAIN trail : GetAuditEvent(i)
  \/ Leave

AlertNext ==
  \/ \E s \in Severities : AppendAlert(s)
  \/ TearAlert
  \/ \E q \in AlertQuestions : BeginHistory(q) \/ StreamAlerts(q)
  \/ ReadHistory \/ Leave

AuditSpec == AuditInit /\ [][TrailNext \/ AlertNext]_auditVars

-----------------------------------------------------------------------------
(* Types.                                                                  *)
AuditTypeOK ==
  /\ Len(trail) <= MaxEvents /\ Range(trail) \subseteq LedgerEntries
  /\ Len(alerts) <= MaxAlerts /\ Range(alerts) \subseteq Severities /\ tornLine \in BOOLEAN
  /\ walk.kind \in AuditWalks \cup {"none", "history", "stream"}
  /\ walk.asked \in Questions \cup AlertQuestions
  /\ walk.phase \in {"idle", "asks", "counted", "done", "live"}
  /\ walk.total \in Nat /\ walk.offset \in Nat
  /\ walk.ids \cup Range(walk.shown \o walk.left) \subseteq 1..(MaxEvents + MaxAlerts)

\* What the reader means, told by what an entry is shown as.
Means(i) ==
  IF walk.kind \in AuditWalks
  THEN /\ ActionOf(trail[i]) \in (IF walk.asked.action = "any" THEN AUDIT_ACTIONS ELSE {walk.asked.action})
       /\ walk.asked.actor \in {"any", ActorOf(trail[i])}
  ELSE walk.asked.severity \in {"any", alerts[i]}

(* A reader is shown only what the filter means, by the envelope's own account of the       *)
(* event; nothing is left out between two entries it was shown, though pages are cut by      *)
(* offset and entries are added while it turns them; and when it has reached the end it has   *)
(* seen every entry that was there when it began (audit/normalize.py, "lockstep", "the        *)
(* complete filtered set").                                                                  *)
TrailIsComplete ==
  LET seen == Range(walk.shown)
      meant == {i \in walk.ids : Means(i)}
  IN walk.kind # "none" =>
       /\ \A i \in seen : Means(i)
       /\ \A i \in meant : (\E j, k \in seen : j < i /\ i < k) => i \in seen
       /\ walk.phase = "done" => meant \subseteq seen

=============================================================================
