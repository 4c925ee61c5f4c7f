----------------------------- MODULE AgentCycles -----------------------------
(***************************************************************************)
(* The cycle counts of agents/registry.py: the loop's process records a    *)
(* cycle of an agent in memory and in the table cycle_events, and the API  *)
(* counts the rows of the day when it is asked for the agents' status      *)
(* (api/routes/agents.py).  One agent's rows stand for those of each.      *)
(***************************************************************************)
EXTENDS Integers

CONSTANTS LastCycleDay,      \* bound: the clock stops there
          Retention,    \* days of rows that pruning keeps (30 in the code)
          MaxCycles     \* bound: cycles recorded in a day

ASSUME CyclesAssumption == LastCycleDay \in Nat /\ Retention \in Nat \ {0} /\ MaxCycles \in Nat

CycleDays == 0 .. LastCycleDay
NoDay == -1

VARIABLES
  clock,      \* the UTC day
  events,     \* cycle_events: how many rows each day has
  counter,    \* the loop's registry: _cycles and _cycles_date
  status,     \* the API's status: the count it has read, the day of the last action
  ran         \* ghost: the cycles that were recorded in full, by day

cycleVars == <<clock, events, counter, status, ran>>

NoStatus == [at |-> "idle", asked |-> 0, cycles |-> 0, last |-> NoDay]

\* Rows older than the cutoff go.  The cutoff is an instant, so of the rows of its day
\* the later ones stay.
Prune(rows) ==
  {kept \in [CycleDays -> 0 .. MaxCycles] :
     \A d \in CycleDays : \/ d > clock - Retention /\ kept[d] = rows[d]
                          \/ d = clock - Retention /\ kept[d] <= rows[d]
                          \/ d < clock - Retention /\ kept[d] = 0}

CyclesInit ==
  /\ clock = 0
  /\ events = [d \in CycleDays |-> 0]
  /\ counter = [cycles |-> 0, date |-> 0]
  /\ status = NoStatus
  /\ ran = events

-----------------------------------------------------------------------------
(* The loop.                                                                *)

\* The first cycle of a day clears the memory and prunes the table; the insert that
\* follows may fail, and the memory has then counted one more than the table.
RecordCycle(inserted) ==
  LET fresh == clock > counter.date
  IN  /\ counter.cycles < MaxCycles \/ fresh
      /\ events[clock] < MaxCycles
      /\ counter' = [cycles |-> IF fresh THEN 1 ELSE counter.cycles + 1, date |-> clock]
      /\ \E kept \in IF fresh THEN Prune(events) ELSE {events} :
            events' = IF inserted THEN [kept EXCEPT ![clock] = @ + 1] ELSE kept
      /\ ran' = IF inserted THEN [ran EXCEPT ![clock] = @ + 1] ELSE ran
      /\ UNCHANGED <<clock, status>>

\* from_env prunes when the loop starts, with a registry that counts from zero.
RestartLoop ==
  /\ events' \in Prune(events)
  /\ counter' = [cycles |-> 0, date |-> clock]
  /\ UNCHANGED <<clock, status, ran>>

Midnight ==
  /\ clock < LastCycleDay
  /\ clock' = clock + 1
  /\ UNCHANGED <<events, counter, status, ran>>

-----------------------------------------------------------------------------
(* The API: two statements, each of which works out the day anew.           *)

CyclesToday ==
  /\ status.at = "idle"
  /\ status' = [NoStatus EXCEPT !.at = "counted", !.asked = clock, !.cycles = events[clock]]
  /\ UNCHANGED <<clock, events, counter, ran>>

LastActionAt ==
  /\ status.at = "counted"
  /\ status' = [status EXCEPT !.at = "told", !.last = IF events[clock] > 0 THEN clock ELSE NoDay]
  /\ UNCHANGED <<clock, events, counter, ran>>

GetAgent ==
  /\ status.at = "told"
  /\ status' = NoStatus
  /\ UNCHANGED <<clock, events, counter, ran>>

CyclesNext ==
  \/ \E inserted \in BOOLEAN : RecordCycle(inserted)
  \/ RestartLoop \/ Midnight \/ CyclesToday \/ LastActionAt \/ GetAgent

CyclesSpec == CyclesInit /\ [][CyclesNext]_cycleVars

-----------------------------------------------------------------------------
CyclesTypeOK ==
  /\ clock \in CycleDays
  /\ events \in [CycleDays -> 0 .. MaxCycles] /\ ran \in [CycleDays -> 0 .. MaxCycles]
  /\ counter \in [cycles : 0 .. MaxCycles, date : CycleDays]
  /\ status \in [at : {"idle", "counted", "told"}, asked : CycleDays, cycles : 0 .. MaxCycles,
                 last : CycleDays \cup {NoDay}]

\* Neither a pruning at midnight nor one at a restart takes a row of the days that are
\* kept; an agent is shown with cycles and no last action, or with an action of another
\* day than the one counted, only when midnight falls between the two statements
\* (AgentRegistry.prune_cycle_events, cycles_today, _last_action_at).
CyclesAreCounted ==
  /\ \A d \in CycleDays : d > clock - Retention => events[d] = ran[d]
  /\ (status.at = "told" /\ clock = status.asked) =>
        /\ status.cycles > 0 => status.last = clock
        /\ status.last \in {clock, NoDay}
=============================================================================
