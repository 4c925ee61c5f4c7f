--------------------------- MODULE OperatedPairs ---------------------------
(***************************************************************************)
(* The pairs the loop trades: the table operated_pairs behind /v1/pairs    *)
(* (api/routes/pairs.py, core/pairs_store.py), its precedence over the     *)
(* environment (core/pairs.py), and the loop, another process, that        *)
(* resolves its list at boot and reads the pauses once per cycle           *)
(* (orchestration/orchestrator_loop.py, main_loop.py).                     *)
(*                                                                         *)
(* A handler of the API does not await after the market look-up, so no     *)
(* other request comes between its transactions; the loop may.  A read of  *)
(* the table that fails is no error to its reader: it sees an empty table. *)
(***************************************************************************)
EXTENDS Naturals, FiniteSets

CONSTANTS Pairs,      \* USDT pairs that a request may name
          Allowed,    \* MARKET_PAIRS
          Env,        \* SYMBOLS
          Default,    \* BTC/USDT
          MaxAdding   \* bound: additions that wait for the exchange at once

ASSUME PairsAssumption ==
  IsFiniteSet(Pairs) /\ Allowed \subseteq Pairs /\ Env \subseteq Pairs /\ Default \in Pairs
  /\ MaxAdding \in Nat

VARIABLES rows,      \* symbols of the table
          paused,    \* those of them with the flag
          adding,    \* additions that wait for get_markets
          seeding,   \* the addition that is writing: {} or {[pair, left]}
          loop,      \* the loop process
          promised,  \* pairs operated since the last removal or death (history)
          held,      \* pairs paused ever since the cycle began (history)
          opened     \* pairs that opened a position in this cycle (history)

pairVars == <<rows, paused, adding, seeding, loop, promised, held, opened>>

Loop == [at: {"down", "idle", "cycle"}, symbols: SUBSET Pairs, todo: SUBSET Pairs,
         skip: SUBSET Pairs, blind: BOOLEAN, stopping: BOOLEAN]
Down == [at |-> "down", symbols |-> {}, todo |-> {}, skip |-> {}, blind |-> FALSE,
         stopping |-> FALSE]

\* list_all: all there is, or nothing when the read raises.
Reads(table) == {table, {}}

\* operated_pairs: the table if it has a row, else SYMBOLS; what is not allowed is dropped,
\* and what remains is never empty.
Operated(table) ==
  LET valid == (IF table # {} THEN table ELSE Env) \intersect Allowed
  IN IF valid = {} THEN {Default} ELSE valid

PairsInit ==
  /\ rows = {} /\ paused = {} /\ adding = {} /\ seeding = {} /\ loop = Down
  /\ promised = Operated({}) /\ held = {} /\ opened = {}

-----------------------------------------------------------------------------
(* The API.                                                                *)

Free == seeding = {}
Writes(table, flags) ==
  /\ rows' = table /\ paused' = flags /\ held' = held \intersect flags
  /\ UNCHANGED <<adding, loop, opened>>

\* _validate_addable: past the allowlist, the exchange is asked.
AskAdd(s) ==
  /\ Free /\ s \in Allowed \ adding /\ Cardinality(adding) < MaxAdding
  /\ adding' = adding \union {s}
  /\ UNCHANGED <<rows, paused, seeding, loop, promised, held, opened>>

\* 422: the exchange does not list it; 409: it is operated by now.
RefuseAdd(s) ==
  /\ Free
  /\ adding' = adding \ {s}
  /\ UNCHANGED <<rows, paused, seeding, loop, promised, held, opened>>

\* Mutant: an empty table is not seeded.
BeginAdd_Unseeded(s) ==
  /\ Free /\ s \notin Operated(rows)
  /\ adding' = adding \ {s}
  /\ seeding' = {[pair |-> s, left |-> {}]}
  /\ UNCHANGED <<rows, paused, loop, promised, held, opened>>

\* The exchange lists it, or did not answer.  The table is read twice: for the operated set
\* before, and whether it is empty, into which that set goes first; what is a row is ignored.
BeginAdd(s) ==
  /\ Free
  /\ \E seen, again \in Reads(rows) :
       /\ s \notin Operated(seen)
       /\ seeding' = {[pair |-> s, left |-> (IF again = {} THEN Operated(seen) ELSE {}) \ rows]}
  /\ adding' = adding \ {s}
  /\ UNCHANGED <<rows, paused, loop, promised, held, opened>>

\* One INSERT OR IGNORE each; the pair that was asked for is the last.
Seed(p) ==
  \E w \in seeding :
    /\ p \in w.left
    /\ seeding' = {[w EXCEPT !.left = @ \ {p}]}
    /\ Writes(rows \union {p}, paused) /\ UNCHANGED promised

FinishAdd ==
  \E w \in seeding :
    /\ w.left = {}
    /\ seeding' = {}
    /\ promised' = promised \union {w.pair}
    /\ Writes(rows \union {w.pair}, paused)

\* 404 unless it is a row, though it be operated.
SetPaused(s, on) ==
  /\ Free /\ s \in rows
  /\ Writes(rows, IF on THEN paused \union {s} ELSE paused \ {s})
  /\ UNCHANGED <<seeding, promised>>

\* Mutant: the flag outlives the row.
RemoveOperated_KeepsFlag(s) ==
  /\ Free /\ s \in rows
  /\ Writes(rows \ {s}, paused)
  /\ promised' = Operated(rows \ {s})
  /\ UNCHANGED seeding

RemoveOperated(s) ==
  /\ Free /\ s \in rows
  /\ Writes(rows \ {s}, paused \ {s})
  /\ promised' = Operated(rows \ {s})
  /\ UNCHANGED seeding

\* The process dies; an INSERT that raises ends its own addition in the same way.
ApiDies ==
  /\ adding \union seeding # {}
  /\ adding' = {} /\ seeding' = {}
  /\ promised' = Operated(rows)
  /\ UNCHANGED <<rows, paused, loop, held, opened>>

-----------------------------------------------------------------------------
(* The loop process.                                                       *)

Runs(step) ==
  /\ loop' = step
  /\ UNCHANGED <<rows, paused, adding, seeding, promised>>

BootLoop ==
  /\ loop.at = "down"
  /\ \E seen \in Reads(rows) :
       Runs([Down EXCEPT !.at = "idle", !.symbols = Operated(seen)])
  /\ UNCHANGED <<held, opened>>

\* _paused_symbols: a cycle that cannot read the flags takes no pair to be paused.
StartCycle ==
  /\ loop.at = "idle" /\ ~loop.stopping
  /\ \E blind \in BOOLEAN :
       Runs([loop EXCEPT !.at = "cycle", !.todo = loop.symbols, !.blind = blind,
                         !.skip = IF blind THEN {} ELSE paused])
  /\ held' = paused /\ opened' = {}

\* A pair that is skipped still manages its position; a pair that fails spoils no other.
TradePair(s, opens) ==
  /\ loop.at = "cycle" /\ s \in loop.todo
  /\ opens => s \notin loop.skip
  /\ Runs([loop EXCEPT !.todo = @ \ {s}])
  /\ opened' = (IF opens THEN opened \union {s} ELSE opened) /\ UNCHANGED held

EndCycle ==
  /\ loop.at = "cycle" /\ loop.todo = {}
  /\ Runs([loop EXCEPT !.at = "idle", !.skip = {}, !.blind = FALSE])
  /\ held' = {} /\ opened' = {}

\* SIGTERM: the cycle that runs is completed first.
StopLoop ==
  /\ loop.at # "down"
  /\ Runs(IF loop.at = "idle" THEN Down ELSE [loop EXCEPT !.stopping = TRUE])
  /\ UNCHANGED <<held, opened>>

ExitLoop ==
  /\ loop.at = "idle" /\ loop.stopping
  /\ Runs(Down) /\ UNCHANGED <<held, opened>>

LoopDies ==
  /\ loop.at = "cycle"
  /\ Runs(Down) /\ held' = {} /\ opened' = {}

PairsNext ==
  \/ \E s \in Pairs : AskAdd(s) \/ Seed(s) \/ RemoveOperated(s)
  \/ \E s \in adding : RefuseAdd(s) \/ BeginAdd(s)
  \/ \E s \in Pairs, on \in BOOLEAN : SetPaused(s, on) \/ TradePair(s, on)
  \/ FinishAdd \/ ApiDies
  \/ BootLoop \/ StartCycle \/ EndCycle \/ StopLoop \/ ExitLoop \/ LoopDies

PairsSpec == PairsInit /\ [][PairsNext]_pairVars

-----------------------------------------------------------------------------
(* Types.                                                                  *)
PairsTypeOK ==
  /\ rows \subseteq Pairs /\ paused \subseteq rows /\ adding \subseteq Allowed
  /\ seeding \subseteq [pair: Pairs, left: SUBSET Pairs] /\ Cardinality(seeding) <= 1
  /\ loop \in Loop /\ promised \subseteq Pairs
  /\ held \subseteq paused /\ opened \subseteq loop.symbols

(* An allowed pair that is operated stays so until someone removes a pair: the first  *)
(* additions, which wait for the exchange and turn the table into the source, drop     *)
(* none, not even where a read of the table fails, unless the process dies, or an      *)
(* INSERT raises, while it seeds (pairs.py:131).                                       *)
AdditionOnlyAdds == seeding = {} => promised \intersect Allowed \subseteq Operated(rows)

(* A pair that has been paused since before the cycle began opens no position in it,   *)
(* whoever writes the table meanwhile (orchestrator_loop.py:144), unless the cycle     *)
(* could not read the flags: then it trades the paused pairs too.                      *)
PauseHolds == ~loop.blind => opened \intersect held = {}

=============================================================================
