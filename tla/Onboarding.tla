------------------------------ MODULE Onboarding ------------------------------
(***************************************************************************)
(* The first-configuration guide: onboarding/status.py and                 *)
(* api/routes/onboarding.py.  Four of its steps are found done in the      *)
(* system itself (a tested active connection, ledger events); the row      *)
(* onboarding_status keeps what the administrator skipped, marked or       *)
(* dismissed, and the stamp completed_at.  A handler has no await, so a    *)
(* request is one step of its worker, save for a crash between the row     *)
(* and the ledger.                                                         *)
(***************************************************************************)
EXTENDS Naturals, FiniteSets

CONSTANTS GuidePeople,   \* kinds of principals that ask for the guide
          GuideAdmin     \* the one among them that is a user with role admin

ASSUME GuideAssumption == GuideAdmin \in GuidePeople

STEP_IDS == {"connect_exchange", "risk_capital", "strategy_agents", "review", "start_dryrun"}

VARIABLES world,   \* what the rest of the system shows the guide
          row,     \* onboarding_status
          guide    \* what the API has said of it, and the events it wrote

guideVars == <<world, row, guide>>

\* The active connection; the ledger events that stand for the other steps.
Worlds == [connection : {"none", "untested", "tested"}, events : SUBSET STEP_IDS]

OnboardingInit ==
  /\ world = [connection |-> "none", events |-> {}]
  /\ row = [skipped |-> {}, manual |-> {}, dismissed |-> FALSE, stamped |-> FALSE]
  /\ guide = [answer |-> "none", completed |-> 0]

--------------------------------------------------------------------------------
(* The system goes on meanwhile.  Ledger events stay; a connection can be   *)
(* revoked, replaced by one that was not tested, or fail its next test.     *)
ChangeConnection(c) ==
  /\ c # world.connection
  /\ world' = [world EXCEPT !.connection = c] /\ UNCHANGED <<row, guide>>

\* config_changed of scope risk or capital; agent:* or hitl_level_changed; activity.
LogActivity(step) ==
  /\ step \notin world.events
  /\ world' = [world EXCEPT !.events = @ \cup {step}] /\ UNCHANGED <<row, guide>>

Detected == world.events \cup {s \in {"connect_exchange"} : world.connection = "tested"}

--------------------------------------------------------------------------------
OthersAuto == STEP_IDS \ {"review"} \subseteq Detected

StatusOf(r, step) ==
  IF step \in Detected \/ (step = "review" /\ OthersAuto) THEN "done_auto"
  ELSE IF step \in r.manual THEN "done_manual"
  ELSE IF step \in r.skipped THEN "skipped" ELSE "pending"

AllSettled(r) == \A step \in STEP_IDS : StatusOf(r, step) # "pending"

Answered(r) == IF AllSettled(r) \/ r.stamped THEN "completed" ELSE "open"

\* compute_status, on the row r just loaded or saved.  It may die after the
\* stamp: the event is then never written, and there is no answer.
ComputeStatus(r) ==
  IF AllSettled(r) /\ ~r.stamped
    THEN /\ row' = [r EXCEPT !.stamped = TRUE]
         /\ \/ guide' = [answer |-> "completed", completed |-> guide.completed + 1]
            \/ UNCHANGED guide
    ELSE /\ row' = r /\ guide' = [guide EXCEPT !.answer = Answered(r)]

MayAsk(p) == p = GuideAdmin

\* Anybody else is refused, whatever is asked.
Forbid(p) ==
  /\ ~MayAsk(p)
  /\ guide' = [guide EXCEPT !.answer = "forbidden"] /\ UNCHANGED <<world, row>>

GetStatus(p) == MayAsk(p) /\ ComputeStatus(row) /\ UNCHANGED world

Marked(r, step, action) ==
  IF action = "skip"
    THEN [r EXCEPT !.skipped = @ \cup {step}, !.manual = @ \ {step}]
    ELSE [r EXCEPT !.manual = @ \cup {step}, !.skipped = @ \ {step}]

\* A step without an action is refused, and nothing is saved.
RefusePatch(p) ==
  /\ MayAsk(p)
  /\ guide' = [guide EXCEPT !.answer = "invalid"] /\ UNCHANGED <<world, row>>

\* The body's step with its action ("none": no step), and dismiss.
PatchStatus(p, step, action, dismiss) ==
  /\ MayAsk(p) /\ UNCHANGED world
  /\ LET marked == IF step = "none" THEN row ELSE Marked(row, step, action)
     IN  ComputeStatus([marked EXCEPT !.dismissed = IF dismiss = "none" THEN @ ELSE dismiss = "yes"])

OnboardingNext ==
  \/ \E c \in {"none", "untested", "tested"} : ChangeConnection(c)
  \/ \E step \in STEP_IDS \ {"connect_exchange", "review"} : LogActivity(step)
  \/ \E p \in GuidePeople : Forbid(p) \/ GetStatus(p) \/ RefusePatch(p)
  \/ \E p \in GuidePeople, dismiss \in {"yes", "no", "none"} : PatchStatus(p, "none", "none", dismiss)
  \/ \E p \in GuidePeople, step \in STEP_IDS, action \in {"skip", "complete"},
        dismiss \in {"yes", "no", "none"} : PatchStatus(p, step, action, dismiss)

OnboardingSpec == OnboardingInit /\ [][OnboardingNext]_guideVars

--------------------------------------------------------------------------------
\* Types of the variables, and a step is never both skipped and marked done.
OnboardingTypeOK ==
  /\ world \in Worlds
  /\ row \in [skipped : SUBSET STEP_IDS, manual : SUBSET STEP_IDS, dismissed : BOOLEAN, stamped : BOOLEAN]
  /\ row.skipped \cap row.manual = {}
  /\ guide \in [answer : {"none", "forbidden", "invalid", "open", "completed"}, completed : {0, 1}]

\* "Nunca reaparece, nem após restart" (onboarding/status.py:177): an answer that calls
\* the configuration complete rests on a stamp that no later request takes back, so the
\* guide is never again answered as open, though the connection be revoked or a step be
\* unmarked; onboarding_completed is written once at most, of a system that was settled.
GuideStaysClosed ==
  [][/\ guide'.answer = "completed" => row'.stamped
     /\ row.stamped => row'.stamped /\ (guide' # guide => guide'.answer # "open")
     /\ guide'.completed # guide.completed => AllSettled(row') /\ ~row.stamped]_guideVars
================================================================================
