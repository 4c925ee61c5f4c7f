--------------------------- MODULE ServicesProofs ---------------------------
(***************************************************************************)
(* What the services beside the loop promise for every value of their      *)
(* constants: the operated pairs, the execution agent and the exchange,    *)
(* the signal, the notification settings, the guide and the configuration. *)
(***************************************************************************)
EXTENDS OperatedPairs, OrderPlacement, SignalPipeline, NotificationChannels,
        Onboarding, RuntimeConfig, SequenceTheorems, FiniteSetTheorems, TLAPS

-----------------------------------------------------------------------------
(* The operated pairs (api/routes/pairs.py, orchestrator_loop.py).         *)

\* One addition writes at a time; its pair is allowed, and what is still to be seeded was
\* operated: allowed, or the default.
PairSeedingOK ==
  \/ seeding = {}
  \/ \E w \in [pair: Allowed, left: SUBSET (Allowed \union {Default})] : seeding = {w}

PairTablesOK ==
  /\ rows \subseteq Allowed \union {Default} /\ paused \subseteq rows
  /\ adding \subseteq Allowed /\ promised \subseteq Pairs
  /\ PairSeedingOK

\* Out of a cycle there is nothing held or opened; in it, what is held is skipped.
PairLoopOK ==
  /\ loop \in Loop
  /\ loop.todo \subseteq loop.symbols
  /\ held \subseteq paused /\ opened \subseteq loop.symbols
  /\ loop.at # "cycle" => held = {} /\ opened = {}
  /\ held \subseteq loop.skip \/ loop.at # "cycle" \/ loop.blind

\* While an addition writes, what was promised is in the table or about to be.
PairPromiseOK ==
  /\ AdditionOnlyAdds
  /\ \A w \in seeding : promised \intersect Allowed \subseteq rows \union w.left

PairsInv == PairTablesOK /\ PairLoopOK /\ PauseHolds /\ PairPromiseOK

-----------------------------------------------------------------------------
LEMMA OperatedProperties ==
  ASSUME NEW table
  PROVE  /\ Operated(table) \subseteq Allowed \union {Default}
         /\ Operated(table) \subseteq Pairs
         /\ table # {} => Operated(table) \intersect Allowed = table \intersect Allowed
                          \/ (table \intersect Allowed = {} /\ Operated(table) = {Default})
         /\ table \intersect Allowed \subseteq Operated(table)
  BY PairsAssumption DEF Operated

\* A table with a row of its own shows all of its allowed rows, and no other allowed pair.
LEMMA TableShows ==
  ASSUME NEW table, table \subseteq Allowed \union {Default}, table # {}
  PROVE  Operated(table) \intersect Allowed \subseteq table
  BY PairsAssumption DEF Operated

LEMMA PairsInitOK == PairsInit => PairsInv
  BY OperatedProperties, PairsAssumption
     DEF PairsInit, PairsInv, PairTablesOK, PairSeedingOK, PairLoopOK, Loop, Down, PauseHolds, PairPromiseOK, AdditionOnlyAdds

-----------------------------------------------------------------------------
(* What the API writes disturbs the loop by the flags only.                 *)

LEMMA WritesLoop ==
  ASSUME PairsInv, NEW table, NEW flags, Writes(table, flags)
  PROVE  PairLoopOK' /\ PauseHolds'
<1>1. held' \subseteq held /\ held' \subseteq flags /\ paused' = flags /\ loop' = loop /\ opened' = opened
  BY DEF Writes
<1>2. QED  BY <1>1 DEF PairsInv, PairLoopOK, PauseHolds

LEMMA IdleLoop ==
  ASSUME PairsInv, UNCHANGED <<paused, loop, held, opened>>
  PROVE  PairLoopOK' /\ PauseHolds'
  BY DEF PairsInv, PairLoopOK, PauseHolds

LEMMA WaitingOK ==
  ASSUME PairsInv, NEW s \in Pairs, AskAdd(s) \/ RefuseAdd(s)
  PROVE  PairsInv'
<1>1. UNCHANGED <<rows, paused, seeding, loop, promised, held, opened>> /\ adding' \subseteq Allowed
  BY DEF AskAdd, RefuseAdd, PairsInv, PairTablesOK
<1>2. PairLoopOK' /\ PauseHolds'
  BY <1>1, IdleLoop
<1>3. PairTablesOK' /\ PairPromiseOK'
  BY <1>1 DEF PairsInv, PairTablesOK, PairSeedingOK, PairPromiseOK, AdditionOnlyAdds
<1>4. QED  BY <1>2, <1>3 DEF PairsInv

LEMMA BeginAddOK ==
  ASSUME PairsInv, NEW s \in adding, BeginAdd(s)
  PROVE  PairsInv'
<1>1. PICK seen \in Reads(rows), again \in Reads(rows) :
          seeding' = {[pair |-> s, left |-> (IF again = {} THEN Operated(seen) ELSE {}) \ rows]}
  BY DEF BeginAdd
<1> DEFINE w == [pair |-> s, left |-> (IF again = {} THEN Operated(seen) ELSE {}) \ rows]
<1>2. /\ UNCHANGED <<rows, paused, loop, promised, held, opened>>
      /\ seeding = {} /\ seeding' = {w} /\ adding' \subseteq adding /\ s \in Allowed
      /\ w.left = (IF again = {} THEN Operated(seen) ELSE {}) \ rows
  BY <1>1 DEF BeginAdd, Free, PairsInv, PairTablesOK
<1>3. w \in [pair: Allowed, left: SUBSET (Allowed \union {Default})]
  BY <1>2, OperatedProperties
<1> HIDE DEF w
<1>4. promised \intersect Allowed \subseteq rows \union w.left
  <2>1. promised \intersect Allowed \subseteq Operated(rows)
    BY <1>2 DEF PairsInv, PairPromiseOK, AdditionOnlyAdds
  <2>2. CASE rows = {}
    BY <1>2, <2>1, <2>2 DEF Reads
  <2>3. CASE rows # {}
    BY <2>1, <2>3, TableShows DEF PairsInv, PairTablesOK
  <2>4. QED  BY <2>2, <2>3
<1>5. PairTablesOK'
  BY <1>2, <1>3 DEF PairsInv, PairTablesOK, PairSeedingOK
<1>6. PairPromiseOK'
  BY <1>2, <1>4 DEF PairPromiseOK, AdditionOnlyAdds
<1>7. QED  BY <1>2, <1>5, <1>6, IdleLoop DEF PairsInv

LEMMA SeedOK == ASSUME PairsInv, NEW p \in Pairs, Seed(p) PROVE PairsInv'
<1>1. PICK w \in seeding :
        /\ p \in w.left /\ seeding' = {[w EXCEPT !.left = @ \ {p}]}
        /\ Writes(rows \union {p}, paused) /\ UNCHANGED promised
  BY DEF Seed
<1>2. w \in [pair: Allowed, left: SUBSET (Allowed \union {Default})]
  BY DEF PairsInv, PairTablesOK, PairSeedingOK
<1> DEFINE v == [w EXCEPT !.left = @ \ {p}]
<1>3. v \in [pair: Allowed, left: SUBSET (Allowed \union {Default})] /\ v.left = w.left \ {p}
  BY <1>2
<1>4. seeding' = {v}
  BY <1>1
<1> HIDE DEF v
<1>5. rows' = rows \union {p} /\ paused' = paused /\ adding' = adding
  BY <1>1 DEF Writes
<1>6. PairTablesOK'
  BY <1>1, <1>2, <1>3, <1>4, <1>5 DEF PairsInv, PairTablesOK, PairSeedingOK
<1>7. PairPromiseOK'
  BY <1>1, <1>3, <1>4, <1>5 DEF PairsInv, PairPromiseOK, AdditionOnlyAdds
<1>8. QED  BY <1>1, <1>6, <1>7, WritesLoop DEF PairsInv

LEMMA FinishAddOK == ASSUME PairsInv, FinishAdd PROVE PairsInv'
<1>1. PICK w \in seeding :
        /\ w.left = {} /\ seeding' = {} /\ promised' = promised \union {w.pair}
        /\ Writes(rows \union {w.pair}, paused)
  BY DEF FinishAdd
<1>2. w.pair \in Allowed /\ w.pair \in Pairs
  BY PairsAssumption DEF PairsInv, PairTablesOK, PairSeedingOK
<1>3. rows' = rows \union {w.pair} /\ paused' = paused /\ adding' = adding
  BY <1>1 DEF Writes
<1>4. promised' \intersect Allowed \subseteq rows' \intersect Allowed
  BY <1>1, <1>2, <1>3 DEF PairsInv, PairPromiseOK
<1>5. PairTablesOK'
  BY <1>1, <1>2, <1>3 DEF PairsInv, PairTablesOK, PairSeedingOK
<1>6. PairPromiseOK'
  <2>1. rows' \intersect Allowed \subseteq Operated(rows')
    BY OperatedProperties
  <2>2. Operated(rows') = Operated(rows)'
    BY DEF Operated
  <2>3. QED  BY <1>1, <1>4, <2>1, <2>2 DEF PairPromiseOK, AdditionOnlyAdds
<1>7. QED  BY <1>1, <1>5, <1>6, WritesLoop DEF PairsInv

LEMMA SetPausedOK ==
  ASSUME PairsInv, NEW s \in Pairs, NEW on \in BOOLEAN, SetPaused(s, on)
  PROVE  PairsInv'
<1>1. PICK flags : Writes(rows, flags) /\ flags \subseteq rows /\ UNCHANGED <<seeding, promised>>
  BY DEF SetPaused, PairsInv, PairTablesOK
<1>2. PairTablesOK'
  BY <1>1 DEF Writes, PairsInv, PairTablesOK, PairSeedingOK
<1>3. PairPromiseOK'
  BY <1>1 DEF Writes, PairsInv, PairPromiseOK, AdditionOnlyAdds
<1>4. QED  BY <1>1, <1>2, <1>3, WritesLoop DEF PairsInv

LEMMA RemoveOK == ASSUME PairsInv, NEW s \in Pairs, RemoveOperated(s) PROVE PairsInv'
<1>1. /\ seeding = {} /\ seeding' = {} /\ Writes(rows \ {s}, paused \ {s})
      /\ promised' = Operated(rows \ {s})
  BY DEF RemoveOperated, Free
<1>2. rows' = rows \ {s} /\ paused' = paused \ {s} /\ adding' = adding
  BY <1>1 DEF Writes
<1>3. PairTablesOK'
  BY <1>1, <1>2, OperatedProperties DEF PairsInv, PairTablesOK, PairSeedingOK
<1>4. PairPromiseOK'
  BY <1>1, <1>2 DEF PairPromiseOK, AdditionOnlyAdds
<1>5. QED  BY <1>1, <1>3, <1>4, WritesLoop DEF PairsInv

LEMMA ApiDiesOK == ASSUME PairsInv, ApiDies PROVE PairsInv'
<1>1. /\ seeding' = {} /\ adding' = {} /\ promised' = Operated(rows)
      /\ UNCHANGED <<rows, paused, loop, held, opened>>
  BY DEF ApiDies
<1>2. PairTablesOK' /\ PairPromiseOK'
  BY <1>1, OperatedProperties DEF PairsInv, PairTablesOK, PairSeedingOK, PairPromiseOK, AdditionOnlyAdds
<1>3. QED  BY <1>1, <1>2, IdleLoop DEF PairsInv

-----------------------------------------------------------------------------
(* The loop reads the table and writes none.                               *)

LEMMA RunsTables ==
  ASSUME PairsInv, NEW step, Runs(step)
  PROVE  PairTablesOK' /\ PairPromiseOK'
  BY DEF Runs, PairsInv, PairTablesOK, PairSeedingOK, PairPromiseOK, AdditionOnlyAdds

LEMMA BootLoopOK == ASSUME PairsInv, BootLoop PROVE PairsInv'
<1>1. PICK seen : Runs([Down EXCEPT !.at = "idle", !.symbols = Operated(seen)])
                  /\ UNCHANGED <<held, opened>>
  BY DEF BootLoop
<1>2. loop.at = "down"
  BY DEF BootLoop
<1>3. PairLoopOK' /\ PauseHolds'
  BY <1>1, <1>2, OperatedProperties DEF Runs, Down, Loop, PairsInv, PairLoopOK, PauseHolds
<1>4. QED  BY <1>1, <1>3, RunsTables DEF PairsInv

LEMMA StartCycleOK == ASSUME PairsInv, StartCycle PROVE PairsInv'
<1>1. PICK blind \in BOOLEAN :
        /\ Runs([loop EXCEPT !.at = "cycle", !.todo = loop.symbols, !.blind = blind,
                             !.skip = IF blind THEN {} ELSE paused])
        /\ held' = paused /\ opened' = {}
  BY DEF StartCycle
<1>2. paused \subseteq Pairs
  BY PairsAssumption DEF PairsInv, PairTablesOK
<1>3. PairLoopOK' /\ PauseHolds'
  BY <1>1, <1>2 DEF Runs, Loop, PairsInv, PairLoopOK, PauseHolds
<1>4. QED  BY <1>1, <1>3, RunsTables DEF PairsInv

LEMMA TradePairOK ==
  ASSUME PairsInv, NEW s \in Pairs, NEW opens \in BOOLEAN, TradePair(s, opens)
  PROVE  PairsInv'
<1>1. /\ loop.at = "cycle" /\ s \in loop.todo /\ (opens => s \notin loop.skip)
      /\ Runs([loop EXCEPT !.todo = @ \ {s}])
      /\ opened' = (IF opens THEN opened \union {s} ELSE opened) /\ held' = held
  BY DEF TradePair
<1>2. loop \in Loop
  BY DEF PairsInv, PairLoopOK
<1>3. /\ loop' \in Loop /\ loop'.todo = loop.todo \ {s} /\ loop'.symbols = loop.symbols
      /\ loop'.skip = loop.skip /\ loop'.blind = loop.blind /\ loop'.at = "cycle"
      /\ paused' = paused
  BY <1>1, <1>2 DEF Runs, Loop
<1>4. PairLoopOK' /\ PauseHolds'
  BY <1>1, <1>3 DEF PairsInv, PairLoopOK, PauseHolds
<1>5. QED  BY <1>1, <1>4, RunsTables DEF PairsInv

LEMMA EndCycleOK == ASSUME PairsInv, EndCycle PROVE PairsInv'
<1>1. Runs([loop EXCEPT !.at = "idle", !.skip = {}, !.blind = FALSE]) /\ held' = {} /\ opened' = {}
  BY DEF EndCycle
<1>2. PairLoopOK' /\ PauseHolds'
  BY <1>1 DEF Runs, Loop, PairsInv, PairLoopOK, PauseHolds
<1>3. QED  BY <1>1, <1>2, RunsTables DEF PairsInv

LEMMA StopLoopOK == ASSUME PairsInv, StopLoop PROVE PairsInv'
<1>1. /\ Runs(IF loop.at = "idle" THEN Down ELSE [loop EXCEPT !.stopping = TRUE])
      /\ UNCHANGED <<held, opened>>
  BY DEF StopLoop
<1>2. PairLoopOK' /\ PauseHolds'
  <2>1. CASE loop.at = "idle"
    BY <1>1, <2>1 DEF Runs, Down, Loop, PairsInv, PairLoopOK, PauseHolds
  <2>2. CASE loop.at # "idle"
    BY <1>1, <2>2 DEF Runs, Loop, PairsInv, PairLoopOK, PauseHolds
  <2>3. QED  BY <2>1, <2>2
<1>3. QED  BY <1>1, <1>2, RunsTables DEF PairsInv

LEMMA ExitLoopOK == ASSUME PairsInv, ExitLoop PROVE PairsInv'
<1>1. loop.at = "idle" /\ Runs(Down) /\ UNCHANGED <<held, opened>>
  BY DEF ExitLoop
<1>2. PairLoopOK' /\ PauseHolds'
  BY <1>1 DEF Runs, Down, Loop, PairsInv, PairLoopOK, PauseHolds
<1>3. QED  BY <1>1, <1>2, RunsTables DEF PairsInv

LEMMA LoopDiesOK == ASSUME PairsInv, LoopDies PROVE PairsInv'
<1>1. Runs(Down) /\ held' = {} /\ opened' = {}
  BY DEF LoopDies
<1>2. PairLoopOK' /\ PauseHolds'
  BY <1>1 DEF Runs, Down, Loop, PairsInv, PairLoopOK, PauseHolds
<1>3. QED  BY <1>1, <1>2, RunsTables DEF PairsInv

-----------------------------------------------------------------------------
LEMMA PairsStep == PairsInv /\ [PairsNext]_pairVars => PairsInv'
<1> SUFFICES ASSUME PairsInv, [PairsNext]_pairVars PROVE PairsInv'
  OBVIOUS
<1>1. adding \subseteq Pairs
  BY PairsAssumption DEF PairsInv, PairTablesOK
<1>2. CASE PairsNext
  BY <1>1, <1>2, WaitingOK, BeginAddOK, SeedOK, FinishAddOK, SetPausedOK, RemoveOK, ApiDiesOK, BootLoopOK,
     StartCycleOK, TradePairOK, EndCycleOK, StopLoopOK, ExitLoopOK, LoopDiesOK DEF PairsNext
<1>3. CASE UNCHANGED pairVars
  <2>1. PairTablesOK' /\ PairPromiseOK'
    BY <1>3 DEF pairVars, PairsInv, PairTablesOK, PairSeedingOK, PairPromiseOK, AdditionOnlyAdds
  <2>2. QED  BY <1>3, <2>1, IdleLoop DEF pairVars, PairsInv
<1>4. QED  BY <1>2, <1>3

LEMMA PairsInvHolds == PairsSpec => []PairsInv
  BY PairsInitOK, PairsStep, PTL DEF PairsSpec

\* The types of the table, of the additions under way and of the loop.
THEOREM PairsTypes == PairsSpec => []PairsTypeOK
<1>1. PairsInv => PairsTypeOK
  <2> SUFFICES ASSUME PairsInv PROVE PairsTypeOK
    OBVIOUS
  <2>1. seeding \subseteq [pair: Pairs, left: SUBSET Pairs] /\ Cardinality(seeding) <= 1
    <3>1. CASE seeding = {}
      BY <3>1, FS_EmptySet
    <3>2. CASE \E w \in [pair: Allowed, left: SUBSET (Allowed \union {Default})] : seeding = {w}
      <4>1. PICK w \in [pair: Allowed, left: SUBSET (Allowed \union {Default})] : seeding = {w}
        BY <3>2
      <4>2. w \in [pair: Pairs, left: SUBSET Pairs]
        BY PairsAssumption
      <4>3. QED  BY <4>1, <4>2, FS_Singleton
    <3>3. QED  BY <3>1, <3>2 DEF PairsInv, PairTablesOK, PairSeedingOK
  <2>2. QED  BY <2>1, PairsAssumption DEF PairsInv, PairTablesOK, PairLoopOK, PauseHolds, PairsTypeOK
<1>2. QED  BY <1>1, PairsInvHolds, PTL

\* An allowed pair that is operated stays so until a pair is removed, whatever additions
\* wait for the exchange and whoever pauses meanwhile (api/routes/pairs.py add_pair).
THEOREM PairsAdditionOnlyAdds == PairsSpec => []AdditionOnlyAdds
<1>1. PairsInv => AdditionOnlyAdds
  BY DEF PairsInv, PairPromiseOK
<1>2. QED  BY <1>1, PairsInvHolds, PTL

\* A pair paused since before the cycle opens nothing in it, at any interleaving of the
\* loop's cycle with the API, unless the cycle failed to read which pairs are paused
\* (orchestration/orchestrator_loop.py run_cycle, _paused_symbols).
THEOREM PairsPauseHolds == PairsSpec => []PauseHolds
<1>1. PairsInv => PauseHolds
  BY DEF PairsInv
<1>2. QED  BY <1>1, PairsInvHolds, PTL

-----------------------------------------------------------------------------
(* The placement of orders (execution_agent.py, exchange_client.py).       *)

\* What an order is known by stays, whatever is cancelled or filled.
SameOrders ==
  /\ DOMAIN papers' = DOMAIN papers /\ DOMAIN exchange' = DOMAIN exchange
  /\ \A i \in DOMAIN papers : papers'[i].task = papers[i].task
  /\ \A i \in DOMAIN exchange : /\ exchange'[i].task = exchange[i].task
                                /\ exchange'[i].mode = exchange[i].mode

Paper(o) == papers' = Append(papers, o) /\ UNCHANGED exchange
Placed(o) == exchange' = Append(exchange, o) /\ UNCHANGED papers

\* The tasks to come have no order; nor has the one whose order is being placed, by a
\* client that exists.
Upcoming == \A n \in 1..MaxTasks : n > execution.n => OrdersOf(n) = {}
Pending ==
  /\ execution.phase = "placing" =>
       execution.approved /\ client.mode # "none" /\ OrdersOf(execution.n) = {}
  /\ execution.phase # "idle" => execution.n # 0

PlacementInv == PlacementTypeOK /\ Upcoming /\ Pending /\ PlacedAsAnswered

-----------------------------------------------------------------------------
LEMMA SameOrdersOf ==
  ASSUME SameOrders, NEW n
  PROVE  OrdersOf(n)' = OrdersOf(n) /\ Real(n)' = Real(n)
  BY DEF SameOrders, OrdersOf, Real

LEMMA Grows ==
  ASSUME NEW S, NEW s \in Seq(S), NEW o \in S
  PROVE  /\ Append(s, o) \in Seq(S) /\ Len(s) \in Nat
         /\ DOMAIN s = 1..Len(s) /\ DOMAIN Append(s, o) = 1..Len(s) + 1
         /\ \A i \in DOMAIN s : Append(s, o)[i] = s[i]
         /\ Append(s, o)[Len(s) + 1] = o
  BY AppendProperties

\* A new order is one of its own task only.
LEMMA PaperOrdersOf ==
  ASSUME PlacementTypeOK, NEW o \in Orders, Paper(o), NEW n
  PROVE  /\ OrdersOf(n)' = OrdersOf(n) \cup (IF o.task = n THEN {<<"paper", Len(papers) + 1>>} ELSE {})
         /\ Real(n)' = Real(n)
<1>1. papers \in Seq(Orders)
  BY DEF PlacementTypeOK
<1>2. /\ Len(papers) \in Nat /\ DOMAIN papers = 1..Len(papers) /\ DOMAIN papers' = 1..Len(papers) + 1
      /\ \A i \in DOMAIN papers : papers'[i] = papers[i]
      /\ papers'[Len(papers) + 1] = o
  BY <1>1, Grows DEF Paper
<1>3. {i \in DOMAIN papers' : papers'[i].task = n}
        = {i \in DOMAIN papers : papers[i].task = n} \cup (IF o.task = n THEN {Len(papers) + 1} ELSE {})
  BY <1>2
<1>4. QED
  BY <1>3 DEF OrdersOf, Real, Paper

LEMMA PlacedOrdersOf ==
  ASSUME PlacementTypeOK, NEW o \in Orders, Placed(o), NEW n
  PROVE  /\ OrdersOf(n)' = OrdersOf(n) \cup (IF o.task = n THEN {<<"real", Len(exchange) + 1>>} ELSE {})
         /\ Real(n)' <=> Real(n) \/ o.task = n
<1>1. exchange \in Seq(Orders)
  BY DEF PlacementTypeOK
<1>2. /\ Len(exchange) \in Nat /\ DOMAIN exchange = 1..Len(exchange) /\ DOMAIN exchange' = 1..Len(exchange) + 1
      /\ \A i \in DOMAIN exchange : exchange'[i] = exchange[i]
      /\ exchange'[Len(exchange) + 1] = o
  BY <1>1, Grows DEF Placed
<1>3. {i \in DOMAIN exchange' : exchange'[i].task = n}
        = {i \in DOMAIN exchange : exchange[i].task = n} \cup (IF o.task = n THEN {Len(exchange) + 1} ELSE {})
  BY <1>2
<1>4. Real(n)' <=> Real(n) \/ o.task = n
  <2>1. DOMAIN exchange' = DOMAIN exchange \cup {Len(exchange) + 1}
    BY <1>2
  <2>2. QED  BY <1>2, <2>1, Zenon DEF Real
<1>5. papers' = papers
  BY DEF Placed
<1>6. QED
  BY <1>3, <1>4, <1>5 DEF OrdersOf

LEMMA RealIsOrder == ASSUME NEW n PROVE Real(n) => OrdersOf(n) # {}
  BY DEF Real, OrdersOf

LEMMA CanceledSame ==
  ASSUME NEW s \in Seq(Orders), NEW i \in DOMAIN s
  PROVE  /\ Canceled(s, i) \in Seq(Orders) /\ DOMAIN Canceled(s, i) = DOMAIN s
         /\ \A j \in DOMAIN s : Canceled(s, i)[j].task = s[j].task /\ Canceled(s, i)[j].mode = s[j].mode
<1>1. s[i] \in Orders /\ DOMAIN s = 1..Len(s) /\ Len(s) \in Nat
  OBVIOUS
<1> DEFINE st == IF s[i].status = "open" THEN "canceled" ELSE s[i].status
           rewritten == [s[i] EXCEPT !.status = st]
<1>2. rewritten \in Orders /\ rewritten.task = s[i].task /\ rewritten.mode = s[i].mode
  BY <1>1 DEF Orders
<1>3. Canceled(s, i) = [s EXCEPT ![i] = rewritten]
  BY DEF Canceled
<1>4. [s EXCEPT ![i] = rewritten] \in Seq(Orders)
  BY <1>1, <1>2
<1>5. \A j \in DOMAIN s : [s EXCEPT ![i] = rewritten][j] = IF j = i THEN rewritten ELSE s[j]
  OBVIOUS
<1>6. QED  BY <1>2, <1>3, <1>4, <1>5

-----------------------------------------------------------------------------
LEMMA PlacementInitOK == PlacementInit => PlacementInv
<1> SUFFICES ASSUME PlacementInit PROVE PlacementInv
  OBVIOUS
<1>1. DOMAIN papers = {} /\ DOMAIN exchange = {}
  BY DEF PlacementInit
<1>2. \A n : OrdersOf(n) = {}
  BY <1>1 DEF OrdersOf
<1>3. PlacementTypeOK
  BY PlacementAssumption DEF PlacementInit, PlacementTypeOK, NoTask, Modes
<1>4. QED
  BY <1>1, <1>2, <1>3 DEF PlacementInit, PlacementInv, NoTask, Upcoming, Pending, PlacedAsAnswered

\* Cancellations and the exchange's own doing touch no task.
LEMMA SameOrdersOK ==
  ASSUME PlacementInv, SameOrders, UNCHANGED <<client, execution>>
  PROVE  Upcoming' /\ Pending' /\ PlacedAsAnswered'
<1>1. \A n : OrdersOf(n)' = OrdersOf(n) /\ (Real(n)' <=> Real(n))
  BY SameOrdersOf
<1>2. execution' = execution /\ client' = client
  OBVIOUS
<1>3. \A i \in DOMAIN exchange' : exchange'[i].mode = "live"
  BY DEF SameOrders, PlacementInv, PlacedAsAnswered
<1>4. Upcoming' /\ Pending'
  BY <1>1, <1>2 DEF PlacementInv, Upcoming, Pending
<1>5. QED
  BY <1>1, <1>2, <1>3, <1>4 DEF PlacementInv, PlacedAsAnswered

LEMMA BuildClientOK ==
  ASSUME PlacementInv, NEW dry \in {"unset", "true", "false"}, NEW routing \in {"paper", "live", "other"},
         BuildClient(dry, routing)
  PROVE  PlacementInv'
<1>1. ModeOf(dry, routing) \in Modes
  BY DEF ModeOf, Modes
<1>2. PlacementTypeOK'
  <2>1. client' \in [mode : Modes, built : 0..MaxDeploys]
    BY <1>1, PlacementAssumption DEF PlacementInv, PlacementTypeOK, BuildClient
  <2>2. papers' \in Seq(Orders) /\ exchange' \in Seq(Orders)
    BY EmptySeq DEF PlacementInv, PlacementTypeOK, BuildClient
  <2>3. /\ execution.n \in 0..MaxTasks
        /\ execution' = [n |-> execution.n, phase |-> "idle", approved |-> FALSE, sized |-> FALSE, answer |-> "none"]
    BY DEF PlacementInv, PlacementTypeOK, BuildClient, NoTask
  <2>4. QED  BY <2>1, <2>2, <2>3 DEF PlacementTypeOK
<1>3. DOMAIN papers' = {} /\ exchange' = exchange
  BY DEF BuildClient
<1>4. \A n : OrdersOf(n)' \subseteq OrdersOf(n)
  BY <1>3 DEF OrdersOf
<1>5. execution'.n = execution.n /\ execution'.phase = "idle"
  BY DEF BuildClient, NoTask, PlacementInv, PlacementTypeOK
<1>6. Upcoming' /\ Pending'
  BY <1>4, <1>5 DEF PlacementInv, Upcoming, Pending
<1>7. PlacedAsAnswered'
  BY <1>3, <1>4, <1>5 DEF PlacementInv, PlacedAsAnswered
<1>8. QED  BY <1>2, <1>6, <1>7 DEF PlacementInv

LEMMA ExecuteOK ==
  ASSUME PlacementInv, NEW approved \in BOOLEAN, NEW sized \in BOOLEAN, Execute(approved, sized)
  PROVE  PlacementInv'
<1>1. execution.n \in 0..MaxTasks /\ execution.n < MaxTasks
  BY DEF PlacementInv, PlacementTypeOK, Execute
<1>2. /\ execution'.n = execution.n + 1 /\ execution'.approved = approved
      /\ execution'.phase = (IF approved /\ sized THEN "placing" ELSE "done")
      /\ execution'.answer = (IF approved /\ sized THEN "none" ELSE IF approved THEN "synthetic" ELSE "refused")
  BY DEF Execute
<1>3. papers' = papers /\ exchange' = exchange /\ client' = client
  BY DEF Execute
<1>4. \A n : OrdersOf(n)' = OrdersOf(n)
  BY <1>3 DEF OrdersOf
<1>5. OrdersOf(execution'.n) = {} /\ execution'.n \in 1..MaxTasks
  BY <1>1, <1>2, PlacementAssumption DEF PlacementInv, Upcoming
<1>6. PlacementTypeOK'
  BY <1>1, <1>3, PlacementAssumption DEF PlacementInv, PlacementTypeOK, Execute
<1>7. Upcoming'
  BY <1>1, <1>2, <1>4, PlacementAssumption DEF PlacementInv, Upcoming
<1>8. Pending'
  <2>1. OrdersOf(execution.n)' = {}
    BY <1>4, <1>5
  <2>2. client'.mode # "none"
    BY <1>3 DEF Execute, Working
  <2>3. QED  BY <1>2, <1>5, <2>1, <2>2 DEF Pending
<1>9. PlacedAsAnswered'
  <2>1. OrdersOf(execution.n)' = {}
    BY <1>4, <1>5
  <2>2. /\ \A i \in DOMAIN exchange' : exchange'[i].mode = "live"
        /\ \A n \in 1..MaxTasks : \A o, p \in OrdersOf(n)' : o = p
    BY <1>3, <1>4 DEF PlacementInv, PlacedAsAnswered
  <2>3. execution'.answer \in {"none", "synthetic", "refused"}
    BY <1>2
  <2>4. QED  BY <2>1, <2>2, <2>3 DEF PlacedAsAnswered
<1>10. QED  BY <1>6, <1>7, <1>8, <1>9 DEF PlacementInv

-----------------------------------------------------------------------------
(* The order of the running task is its first.                             *)

LEMMA FirstOrder ==
  ASSUME PlacementInv, execution.phase = "placing", execution'.n = execution.n,
         NEW x, \A n : OrdersOf(n)' = OrdersOf(n) \cup (IF execution.n = n THEN {x} ELSE {})
  PROVE  /\ Upcoming'
         /\ \A n \in 1..MaxTasks : \A o, p \in OrdersOf(n)' : o = p
         /\ OrdersOf(execution.n)' = {x}
<1>1. OrdersOf(execution.n) = {} /\ execution.n \in Nat
  BY DEF PlacementInv, Pending, PlacementTypeOK
<1>2. Upcoming'
  BY <1>1 DEF PlacementInv, Upcoming
<1>3. \A n \in 1..MaxTasks : \A o, p \in OrdersOf(n)' : o = p
  BY <1>1 DEF PlacementInv, PlacedAsAnswered
<1>4. QED  BY <1>1, <1>2, <1>3

LEMMA RaisedOK ==
  ASSUME PlacementInv, execution.phase = "placing", Raise, UNCHANGED <<client, papers, exchange>>
  PROVE  PlacementInv'
<1>1. /\ execution'.n = execution.n /\ execution'.phase = "done" /\ execution'.answer = "raised"
      /\ execution' \in [n : 0..MaxTasks, phase : {"idle", "placing", "done"}, approved : BOOLEAN, sized : BOOLEAN,
               answer : {"none", "refused", "synthetic", "success", "failed", "raised"}]
  BY DEF PlacementInv, PlacementTypeOK, Raise
<1>2. \A n : OrdersOf(n)' = OrdersOf(n) /\ (Real(n)' <=> Real(n))
  BY DEF OrdersOf, Real
<1>3. PlacementTypeOK'
  BY <1>1 DEF PlacementInv, PlacementTypeOK
<1>4. OrdersOf(execution.n) = {} /\ execution.n # 0 /\ ~Real(execution.n)
  BY RealIsOrder DEF PlacementInv, Pending
<1>5. Upcoming' /\ Pending'
  BY <1>1, <1>2, <1>4 DEF PlacementInv, Upcoming, Pending
<1>6. OrdersOf(execution.n)' = {} /\ ~Real(execution.n)'
  BY <1>1, <1>2, <1>4
<1>7. PlacedAsAnswered'
  BY <1>1, <1>2, <1>6 DEF PlacementInv, PlacedAsAnswered
<1>8. QED  BY <1>3, <1>5, <1>7 DEF PlacementInv

LEMMA PaperOK ==
  ASSUME PlacementInv, execution.phase = "placing", client.mode \in {"offline", "paper"},
         Paper(Order("market", "filled")), Reply(TRUE), UNCHANGED client
  PROVE  PlacementInv'
<1> DEFINE o == Order("market", "filled")
           x == <<"paper", Len(papers) + 1>>
<1>1. /\ execution'.n = execution.n /\ execution'.phase = "done" /\ execution'.answer = "success"
      /\ execution'.approved = execution.approved
      /\ execution' \in [n : 0..MaxTasks, phase : {"idle", "placing", "done"}, approved : BOOLEAN, sized : BOOLEAN,
               answer : {"none", "refused", "synthetic", "success", "failed", "raised"}]
  BY DEF PlacementInv, PlacementTypeOK, Reply
<1>2. o \in Orders /\ o.task = execution.n
  BY DEF PlacementInv, PlacementTypeOK, Order, Orders
<1>3. PlacementTypeOK'
  BY <1>1, <1>2 DEF PlacementInv, PlacementTypeOK, Paper
<1>4. \A n : OrdersOf(n)' = OrdersOf(n) \cup (IF execution.n = n THEN {x} ELSE {})
  BY <1>2, PaperOrdersOf DEF PlacementInv
<1> HIDE DEF o, x
<1>5. /\ Upcoming'
      /\ \A n \in 1..MaxTasks : \A y, z \in OrdersOf(n)' : y = z
      /\ OrdersOf(execution.n)' = {x}
  BY <1>1, <1>4, FirstOrder
<1>6. Pending' /\ execution'.approved
  BY <1>1 DEF PlacementInv, Pending
<1>7. \A i \in DOMAIN exchange' : exchange'[i].mode = "live"
  BY DEF Paper, PlacementInv, PlacedAsAnswered
<1>8. PlacedAsAnswered'
  BY <1>1, <1>5, <1>6, <1>7 DEF PlacedAsAnswered
<1>9. QED  BY <1>3, <1>5, <1>6, <1>8 DEF PlacementInv

LEMMA LiveOK ==
  ASSUME PlacementInv, execution.phase = "placing", client.mode = "live",
         NEW status \in {"filled", "open", "rejected"},
         Placed(Order("market", status)), Reply(Succeeds(status)) \/ Raise, UNCHANGED client
  PROVE  PlacementInv'
<1> DEFINE o == Order("market", status)
           x == <<"real", Len(exchange) + 1>>
<1>1. /\ execution'.n = execution.n /\ execution'.phase = "done"
      /\ execution'.answer \in {"success", "failed", "raised"}
      /\ execution'.approved = execution.approved
      /\ execution' \in [n : 0..MaxTasks, phase : {"idle", "placing", "done"}, approved : BOOLEAN, sized : BOOLEAN,
               answer : {"none", "refused", "synthetic", "success", "failed", "raised"}]
  BY DEF PlacementInv, PlacementTypeOK, Reply, Raise
<1>2. o \in Orders /\ o.task = execution.n /\ o.mode = "live"
  BY DEF PlacementInv, PlacementTypeOK, Order, Orders
<1>3. PlacementTypeOK'
  BY <1>1, <1>2 DEF PlacementInv, PlacementTypeOK, Placed
<1>4. \A n : /\ OrdersOf(n)' = OrdersOf(n) \cup (IF execution.n = n THEN {x} ELSE {})
             /\ Real(n)' <=> Real(n) \/ execution.n = n
  BY <1>2, PlacedOrdersOf DEF PlacementInv
<1>5. \A i \in DOMAIN exchange' : exchange'[i].mode = "live"
  <2>1. exchange \in Seq(Orders)
    BY DEF PlacementInv, PlacementTypeOK
  <2>2. QED  BY <1>2, <2>1, Grows DEF Placed, PlacementInv, PlacedAsAnswered
<1> HIDE DEF o, x
<1>6. /\ Upcoming'
      /\ \A n \in 1..MaxTasks : \A y, z \in OrdersOf(n)' : y = z
      /\ OrdersOf(execution.n)' = {x}
  BY <1>1, <1>4, FirstOrder
<1>7. Pending' /\ execution'.approved
  BY <1>1 DEF PlacementInv, Pending
<1>8. Real(execution.n)' /\ client'.mode = "live"
  BY <1>1, <1>4
<1>9. PlacedAsAnswered'
  BY <1>1, <1>5, <1>6, <1>7, <1>8 DEF PlacedAsAnswered
<1>10. QED  BY <1>3, <1>6, <1>7, <1>9 DEF PlacementInv

LEMMA CreateOrderOK ==
  ASSUME PlacementInv, CreateOrder
  PROVE  PlacementInv'
<1>1. /\ execution.phase = "placing" /\ client' = client
      /\ IF client.mode = "live" THEN LiveOrder ELSE PaperOrder
  BY DEF CreateOrder
<1>2. client.mode \in Modes \ {"none"}
  BY <1>1 DEF PlacementInv, PlacementTypeOK, Pending
<1>3. CASE client.mode = "live"
  BY <1>1, <1>3, LiveOK, RaisedOK DEF LiveOrder, Placed
<1>4. CASE client.mode # "live"
  BY <1>1, <1>2, <1>4, PaperOK, RaisedOK DEF PaperOrder, Paper, Modes
<1>5. QED  BY <1>3, <1>4

LEMMA LimitOK == ASSUME PlacementInv, CreatePaperLimit PROVE PlacementInv'
<1> DEFINE o == [task |-> 0, type |-> "limit", status |-> "open", mode |-> client.mode]
<1>1. o \in Orders /\ o.task = 0
  BY PlacementAssumption DEF PlacementInv, PlacementTypeOK, Orders
<1>2. papers' = Append(papers, o) /\ exchange' = exchange /\ client' = client /\ execution' = execution
  BY DEF CreatePaperLimit
<1> HIDE DEF o
<1>3. PlacementTypeOK'
  BY <1>1, <1>2 DEF PlacementInv, PlacementTypeOK
<1>4. \A n : n # 0 => OrdersOf(n)' = OrdersOf(n) /\ (Real(n)' <=> Real(n))
  BY <1>1, <1>2, PaperOrdersOf DEF PlacementInv, Paper
<1>5. Upcoming' /\ Pending'
  BY <1>2, <1>4 DEF PlacementInv, Upcoming, Pending
<1>6. \A n \in 1..MaxTasks : \A x, y \in OrdersOf(n)' : x = y
  BY <1>4 DEF PlacementInv, PlacedAsAnswered
<1>7. execution.phase = "done" => execution.n # 0
  BY DEF PlacementInv, Pending
<1>8. PlacedAsAnswered'
  BY <1>2, <1>4, <1>6, <1>7 DEF PlacementInv, PlacedAsAnswered
<1>9. QED  BY <1>3, <1>5, <1>8 DEF PlacementInv

LEMMA CancelOK ==
  ASSUME PlacementInv, NEW i, CancelPaper(i) \/ CancelAtExchange(i)
  PROVE  PlacementInv'
<1>1. papers \in Seq(Orders) /\ exchange \in Seq(Orders) /\ UNCHANGED <<client, execution>>
  BY DEF PlacementInv, PlacementTypeOK, CancelPaper, CancelAtExchange
<1>2. SameOrders /\ papers' \in Seq(Orders) /\ exchange' \in Seq(Orders)
  <2>1. CASE CancelPaper(i)
    <3>1. papers' = Canceled(papers, i) /\ exchange' = exchange /\ i \in DOMAIN papers
      BY <2>1 DEF CancelPaper
    <3>2. papers' \in Seq(Orders) /\ DOMAIN papers' = DOMAIN papers
          /\ \A j \in DOMAIN papers : papers'[j].task = papers[j].task
      BY <1>1, <3>1, CanceledSame
    <3>3. QED  BY <1>1, <3>1, <3>2 DEF SameOrders
  <2>2. CASE CancelAtExchange(i)
    <3>1. exchange' = Canceled(exchange, i) /\ papers' = papers /\ i \in DOMAIN exchange
      BY <2>2 DEF CancelAtExchange
    <3>2. exchange' \in Seq(Orders) /\ DOMAIN exchange' = DOMAIN exchange
          /\ \A j \in DOMAIN exchange : /\ exchange'[j].task = exchange[j].task
                                       /\ exchange'[j].mode = exchange[j].mode
      BY <1>1, <3>1, CanceledSame
    <3>3. QED  BY <1>1, <3>1, <3>2 DEF SameOrders
  <2>3. QED  BY <2>1, <2>2
<1>3. PlacementTypeOK'
  BY <1>1, <1>2 DEF PlacementInv, PlacementTypeOK
<1>4. QED  BY <1>1, <1>2, <1>3, SameOrdersOK DEF PlacementInv

LEMMA FillOK == ASSUME PlacementInv, NEW i, FillAtExchange(i) PROVE PlacementInv'
<1>1. /\ exchange \in Seq(Orders) /\ i \in DOMAIN exchange /\ UNCHANGED <<client, papers, execution>>
      /\ exchange' = [exchange EXCEPT ![i].status = "filled"]
  BY DEF PlacementInv, PlacementTypeOK, FillAtExchange
<1>2. exchange[i] \in Orders /\ DOMAIN exchange = 1..Len(exchange) /\ Len(exchange) \in Nat
  BY <1>1
<1> DEFINE rewritten == [exchange[i] EXCEPT !.status = "filled"]
<1>3. rewritten \in Orders /\ rewritten.task = exchange[i].task /\ rewritten.mode = exchange[i].mode
  BY <1>2 DEF Orders
<1>4. exchange' = [exchange EXCEPT ![i] = rewritten]
  BY <1>1
<1> HIDE DEF rewritten
<1>5. exchange' \in Seq(Orders) /\ DOMAIN exchange' = DOMAIN exchange
  BY <1>1, <1>2, <1>3, <1>4
<1>6. \A j \in DOMAIN exchange : exchange'[j] = IF j = i THEN rewritten ELSE exchange[j]
  BY <1>4
<1>7. SameOrders
  BY <1>1, <1>3, <1>5, <1>6 DEF SameOrders
<1>8. PlacementTypeOK'
  BY <1>1, <1>5 DEF PlacementInv, PlacementTypeOK
<1>9. QED  BY <1>1, <1>7, <1>8, SameOrdersOK DEF PlacementInv

LEMMA RestOK == ASSUME PlacementInv, UNCHANGED placementVars PROVE PlacementInv'
<1>1. SameOrders /\ PlacementTypeOK' /\ UNCHANGED <<client, execution>>
  BY DEF placementVars, SameOrders, PlacementInv, PlacementTypeOK
<1>2. QED  BY <1>1, SameOrdersOK DEF PlacementInv

LEMMA PlacementStep == PlacementInv /\ [PlacementNext]_placementVars => PlacementInv'
  BY BuildClientOK, ExecuteOK, CreateOrderOK, LimitOK, CancelOK, FillOK, RestOK DEF PlacementNext

\* The types of the client, of the orders and of the task that runs.
THEOREM PlacementTypes == PlacementSpec => []PlacementTypeOK
<1>1. PlacementInv => PlacementTypeOK
  BY DEF PlacementInv
<1>2. QED  BY <1>1, PlacementInitOK, PlacementStep, PTL DEF PlacementSpec

\* Whatever requests and answers get lost and however often clients are built, a task has
\* one order at most, the exchange holds orders of live clients only, and the answer of
\* the running task agrees with what was placed for it (execution_agent.py, exchange_client.py).
THEOREM PlacementAnswers == PlacementSpec => []PlacedAsAnswered
<1>1. PlacementInv => PlacedAsAnswered
  BY DEF PlacementInv
<1>2. QED  BY <1>1, PlacementInitOK, PlacementStep, PTL DEF PlacementSpec

-----------------------------------------------------------------------------
(* The signal, from the strategy to the risk agent.                        *)

\* The confidences of a signal that is no trade.
LowScore == 2500
LowScores == 0..LowScore

LEMMA ScoresOK ==
  /\ \A x \in Confidences : x \in Int
  /\ \A x \in LowScores : x \in Confidences /\ ~(x >= 6000)
<1>1. PICK m \in Nat : m = MaxConfidence /\ m >= 2500
  BY SMT DEF MaxConfidence
<1>2. PICK l \in Nat : l = LowScore /\ l <= 2500
  BY SMT DEF LowScore
<1>3. Confidences = 0..m /\ LowScores = 0..l
  BY <1>1, <1>2 DEF Confidences, LowScores
<1>4. QED  BY <1>1, <1>2, <1>3, SMT

LEMMA CapRange == \A x \in Int : Cap(x) \in Confidences
<1> SUFFICES ASSUME NEW x \in Int PROVE Cap(x) \in Confidences
  OBVIOUS
<1>1. PICK m \in Nat : m = MaxConfidence /\ m >= 1000
  BY SMT DEF MaxConfidence
<1>2. Confidences = 0..m
  BY <1>1 DEF Confidences
<1>3. QED  BY <1>1, <1>2, SMT DEF Cap

ModelAnswers == [action: {"BUY", "SELL", "HOLD"}, entry: Nat, stop: Nat \union {NoStop}, target: Nat,
                 size: 0..100, trust: Int, thin: BOOLEAN, wild: BOOLEAN, confidence: {0}]

LEMMA HoldOK ==
  ASSUME NEW p \in Nat, NEW size \in 0..100
  PROVE  /\ Proposal("HOLD", p, NoStop, 0, size, 0) \in ModelAnswers
         /\ Proposal("HOLD", p, NoStop, 0, size, 0).action = "HOLD"
<1>1. "HOLD" \in {"BUY", "SELL", "HOLD"} /\ 0 \in Nat /\ 0 \in Int
  OBVIOUS
<1>2. QED  BY <1>1 DEF Proposal, ModelAnswers

\* How many of three are true.
LEMMA CountInt == ASSUME NEW P, P \subseteq 1..3 PROVE Cardinality(P) \in Int
<1>1. IsFiniteSet(1..3)
  <2>1. \A m, n \in Int : IsFiniteSet(m..n)
    BY FS_Interval
  <2>2. 1 \in Int /\ 3 \in Int
    OBVIOUS
  <2>3. QED  BY <2>1, <2>2
<1>2. IsFiniteSet(P)
  BY <1>1, FS_Subset
<1>3. Cardinality(P) \in Nat
  BY <1>2, FS_CardinalityType
<1>4. QED  BY <1>3

\* What a price, or a level, is rounded to is within half a cent of it.
LEMMA NearestTo ==
  ASSUME NEW n \in Nat
  PROVE  /\ \A r \in Nearest(n, 10)   : r \in Nat /\ 20 * r <= 2 * n + 10     /\ 2 * n - 10 <= 20 * r
         /\ \A r \in Nearest(n, 100)  : r \in Nat /\ 200 * r <= 2 * n + 100   /\ 2 * n - 100 <= 200 * r
         /\ \A r \in Nearest(n, 300)  : r \in Nat /\ 600 * r <= 2 * n + 300   /\ 2 * n - 300 <= 600 * r
         /\ \A r \in Nearest(n, 1000) : r \in Nat /\ 2000 * r <= 2 * n + 1000 /\ 2 * n - 1000 <= 2000 * r
  BY SMT DEF Nearest

\* A proposal to trade at a price.
LEMMA TradeOK ==
  ASSUME NEW action \in {"BUY", "SELL"}, NEW p \in Nat, NEW stop \in Nat, NEW target \in Nat,
         NEW size \in 0..100, NEW trust \in Int,
         stop = 0 => p < Tiny,
         p >= Cheap => (action = "BUY" => stop < p) /\ (action = "SELL" => stop > p)
  PROVE  /\ Proposal(action, p, stop, target, size, trust) \in ModelAnswers
         /\ Proposal(action, p, stop, target, size, trust).action # "HOLD"
         /\ Stopped(Proposal(action, p, stop, target, size, trust))
<1> DEFINE s == Proposal(action, p, stop, target, size, trust)
<1>1. s \in ModelAnswers /\ s.action = action /\ s.stop = stop /\ s.entry = p
  BY DEF Proposal, ModelAnswers
<1>2. stop # NoStop
  BY SMT DEF NoStop
<1> HIDE DEF s
<1>3. Stopped(s)
  <2>1. s.stop = 0 => s.entry < Tiny
    BY <1>1
  <2>2. s.entry >= Cheap => (s.action = "BUY" => s.stop < s.entry) /\ (s.action = "SELL" => s.stop > s.entry)
    BY <1>1
  <2>3. s.stop # NoStop
    BY <1>1, <1>2
  <2>4. QED  BY <2>1, <2>2, <2>3 DEF Stopped, StopOk
<1>4. QED  BY <1>1, <1>3 DEF s

LEMMA GridTrustOK == ASSUME NEW a PROVE GridTrust(a) \in Int
<1> DEFINE calm == CASE a.calm = "still" -> 2000 [] a.calm = "quiet" -> 1000 [] OTHER -> 0
           volume == IF a.volume \in {"meagre", "edge", "fair", "brisk"} THEN 1500 ELSE 0
<1>1. calm \in {0, 1000, 2000}
  <2>1. CASE a.calm = "still"
    BY <2>1
  <2>2. CASE a.calm # "still" /\ a.calm = "quiet"
    BY <2>2
  <2>3. CASE a.calm # "still" /\ a.calm # "quiet"
    BY <2>3
  <2>4. QED  BY <2>1, <2>2, <2>3
<1>2. volume \in {0, 1500}
  OBVIOUS
<1>3. GridTrust(a) = 5000 + calm + volume
  BY DEF GridTrust
<1> HIDE DEF calm, volume
<1>4. QED  BY <1>1, <1>2, <1>3

\* The stop of the grid, two roundings away from the price.
LEMMA GridStopOK ==
  ASSUME NEW p \in Nat, NEW buys \in BOOLEAN, NEW stop \in GridStops(p, buys)
  PROVE  /\ Cent * stop \in Nat
         /\ Cent * stop = 0 => p < Tiny
         /\ p >= Cheap => IF buys THEN Cent * stop < p ELSE Cent * stop > p
<1>1. PICK x \in {9, 11}, y \in {98, 102} : /\ x = IF buys THEN 9 ELSE 11
                                            /\ y = IF buys THEN 98 ELSE 102
  OBVIOUS
<1>2. Cent = 10 /\ 10 * Cent = 100 /\ Tiny = 6 /\ Cheap = 250
  BY SMT DEF Cent, Tiny, Cheap
<1>3. PICK level \in Nearest(x * p, 100) : stop \in Nearest(y * level, 100)
  BY <1>1, <1>2 DEF GridStops, GridLevels
<1>4. x * p \in Nat
  BY <1>1
<1>5. level \in Nat /\ 200 * level <= 2 * (x * p) + 100 /\ 2 * (x * p) - 100 <= 200 * level
  BY <1>3, <1>4, NearestTo
<1>6. y * level \in Nat
  BY <1>1, <1>5
<1>7. stop \in Nat /\ 200 * stop <= 2 * (y * level) + 100 /\ 2 * (y * level) - 100 <= 200 * stop
  BY <1>3, <1>6, NearestTo
<1>8. CASE buys
  <2>1. x = 9 /\ y = 98
    BY <1>1, <1>8
  <2>2. QED  BY <1>2, <1>5, <1>7, <1>8, <2>1
<1>9. CASE ~buys
  <2>1. x = 11 /\ y = 102
    BY <1>1, <1>9
  <2>2. QED  BY <1>2, <1>5, <1>7, <1>9, <2>1
<1>10. QED  BY <1>8, <1>9

LEMMA GridOK ==
  ASSUME NEW a, NEW p \in Nat, NEW s \in Grid(a, p)
  PROVE  s \in ModelAnswers /\ (s.action # "HOLD" => Stopped(s))
<1>1. CASE a.belowPoc
  <2>1. PICK stop \in GridStops(p, TRUE) : s = Proposal("BUY", p, Cent * stop, 0, 5, GridTrust(a))
    <3>1. GridStops(p, a.belowPoc) = GridStops(p, TRUE)
      BY <1>1 DEF GridStops, GridLevels
    <3>2. QED  BY <1>1, <3>1 DEF Grid
  <2>2. Cent * stop \in Nat /\ (Cent * stop = 0 => p < Tiny) /\ (p >= Cheap => Cent * stop < p)
    BY GridStopOK
  <2>3. 0 \in Nat /\ 5 \in 0..100 /\ GridTrust(a) \in Int /\ "BUY" # "SELL"
    BY GridTrustOK
  <2>4. QED  BY <2>1, <2>2, <2>3, TradeOK
<1>2. CASE ~a.belowPoc
  <2>1. PICK stop \in GridStops(p, FALSE) : s = Proposal("SELL", p, Cent * stop, 0, 5, GridTrust(a))
    <3>1. GridStops(p, a.belowPoc) = GridStops(p, FALSE)
      BY <1>2 DEF GridStops, GridLevels
    <3>2. QED  BY <1>2, <3>1 DEF Grid
  <2>2. Cent * stop \in Nat /\ (Cent * stop = 0 => p < Tiny) /\ (p >= Cheap => Cent * stop > p)
    BY GridStopOK
  <2>3. 0 \in Nat /\ 5 \in 0..100 /\ GridTrust(a) \in Int /\ "BUY" # "SELL"
    BY GridTrustOK
  <2>4. QED  BY <2>1, <2>2, <2>3, TradeOK
<1>3. QED  BY <1>1, <1>2

LEMMA DcaTrustOK == ASSUME NEW a PROVE DcaTrust(a) \in Int
<1>1. DcaHits(a) \in Int
  <2> DEFINE P == {h \in 1..3 : \/ h = 1 /\ a.rsi = "oversold"
                                \/ h = 2 /\ a.macd = 1
                                \/ h = 3 /\ a.band = "floor"}
  <2>1. P \subseteq 1..3
    OBVIOUS
  <2> HIDE DEF P
  <2>2. Cardinality(P) \in Int
    BY <2>1, CountInt
  <2>3. QED  BY <2>2 DEF P, DcaHits
<1>2. PICK x \in {1000, 1500} : x = IF a.averages = "down" THEN 1500 ELSE 1000
  BY SMT
<1>3. PICK y \in Int : y = (DcaHits(a) * 2500) \div 3
  BY <1>1, SMT
<1>4. DcaTrust(a) = 6000 + x + y
  BY <1>2, <1>3 DEF DcaTrust
<1>5. QED  BY <1>4

\* The stop of the DCA, 3% below the average of three entries.
LEMMA DcaStopOK ==
  ASSUME NEW p \in Nat, NEW sum \in DcaSums(p), NEW stop \in Nearest(97 * sum, 300),
         NEW target \in Nearest(109 * sum, 300)
  PROVE  /\ Cent * stop \in Nat /\ Cent * target \in Nat
         /\ Cent * stop = 0 => p < Tiny
         /\ p >= Cheap => Cent * stop < p
<1>1. Cent = 10 /\ 100 * Cent = 1000 /\ Tiny = 6 /\ Cheap = 250
  BY SMT DEF Cent, Tiny, Cheap
<1>2. PICK x \in Nearest(p, 10), y \in Nearest(99 * p, 1000), z \in Nearest(98 * p, 1000) : sum = x + y + z
  BY <1>1 DEF DcaSums
<1>3. /\ x \in Nat /\ 20 * x <= 2 * p + 10 /\ 2 * p - 10 <= 20 * x
      /\ y \in Nat /\ 2000 * y <= 2 * (99 * p) + 1000 /\ 2 * (99 * p) - 1000 <= 2000 * y
      /\ z \in Nat /\ 2000 * z <= 2 * (98 * p) + 1000 /\ 2 * (98 * p) - 1000 <= 2000 * z
  <2>1. p \in Nat /\ 99 * p \in Nat /\ 98 * p \in Nat
    OBVIOUS
  <2>2. QED  BY <1>2, <2>1, NearestTo
<1>4. sum \in Nat /\ 97 * sum \in Nat /\ 109 * sum \in Nat
  BY <1>2, <1>3
<1>5. /\ stop \in Nat /\ 600 * stop <= 2 * (97 * sum) + 300 /\ 2 * (97 * sum) - 300 <= 600 * stop
      /\ target \in Nat
  BY <1>4, NearestTo
<1>6. QED  BY <1>1, <1>2, <1>3, <1>5

LEMMA DcaOK ==
  ASSUME NEW a, NEW p \in Nat, NEW s \in Dca(a, p)
  PROVE  s \in ModelAnswers /\ (s.action # "HOLD" => Stopped(s))
<1>1. CASE ~DcaEnters(a)
  <2>1. s = Proposal("HOLD", p, NoStop, 0, 20, 0)
    BY <1>1 DEF Dca
  <2>2. 20 \in 0..100
    OBVIOUS
  <2>3. QED  BY <2>1, <2>2, HoldOK
<1>2. CASE DcaEnters(a)
  <2>1. PICK sum \in DcaSums(p) : s \in DcaOrders(a, p, sum)
    BY <1>2 DEF Dca
  <2>2. PICK stop \in Nearest(97 * sum, 300), target \in Nearest(109 * sum, 300) :
          s = Proposal("BUY", p, Cent * stop, Cent * target, 20, DcaTrust(a))
    BY <2>1 DEF DcaOrders
  <2>3. /\ Cent * stop \in Nat /\ Cent * target \in Nat
        /\ Cent * stop = 0 => p < Tiny
        /\ p >= Cheap => Cent * stop < p
    BY <2>1, DcaStopOK
  <2>4. 20 \in 0..100 /\ DcaTrust(a) \in Int /\ "BUY" # "SELL"
    BY DcaTrustOK
  <2>5. QED  BY <2>2, <2>3, <2>4, TradeOK
<1>3. QED  BY <1>1, <1>2

LEMMA AnswersOK ==
  ASSUME NEW a, NEW p \in Nat, NEW s \in Proposals(a, p)
  PROVE  s \in ModelAnswers /\ (s.action # "HOLD" => Stopped(s))
<1>1. CASE FirstStrategy(a.regime) = "grid"
  <2>1. s \in Grid(a, p)
    BY <1>1 DEF Proposals
  <2>2. QED  BY <2>1, GridOK
<1>2. CASE FirstStrategy(a.regime) = "dca"
  <2>1. s \in Dca(a, p)
    BY <1>2 DEF Proposals
  <2>2. QED  BY <2>1, DcaOK
<1>3. CASE FirstStrategy(a.regime) # "grid" /\ FirstStrategy(a.regime) # "dca"
  <2>1. s = Hold(p)
    BY <1>3 DEF Proposals
  <2>2. 0 \in 0..100
    OBVIOUS
  <2>3. QED  BY <2>1, <2>2, HoldOK DEF Hold
<1>4. QED  BY <1>1, <1>2, <1>3

\* The market goes along with the signal.
LEMMA InMarketOK ==
  ASSUME NEW a, NEW s \in ModelAnswers
  PROVE  /\ InMarket(s, a) \in ModelAnswers /\ InMarket(s, a).action = s.action
         /\ InMarket(s, a).stop = s.stop /\ InMarket(s, a).entry = s.entry
<1>1. (a.volume = "thin") \in BOOLEAN /\ (a.calm = "wild") \in BOOLEAN
  OBVIOUS
<1>2. PICK x \in BOOLEAN, y \in BOOLEAN : InMarket(s, a) = [[s EXCEPT !.thin = x] EXCEPT !.wild = y]
  BY <1>1 DEF InMarket, ModelAnswers
<1>3. QED  BY <1>2 DEF ModelAnswers

LEMMA VolumeScoreOK == ASSUME NEW a PROVE VolumeScore(a) \in {0, 700, 1500}
<1>1. CASE a.volume \in {"brisk", "strong"}
  BY <1>1, SMT DEF VolumeScore
<1>2. CASE a.volume \notin {"brisk", "strong"} /\ a.volume = "fair"
  BY <1>2, SMT DEF VolumeScore
<1>3. CASE a.volume \notin {"brisk", "strong"} /\ a.volume # "fair"
  BY <1>3, SMT DEF VolumeScore
<1>4. QED  BY <1>1, <1>2, <1>3

LEMMA AgentScoreOK ==
  ASSUME NEW a, a.near \in Int, NEW action
  PROVE  /\ AgentScore(a, action) \in Confidences
         /\ action = "HOLD" => AgentScore(a, action) \in LowScores
<1>1. PICK v \in Int : v = VolumeScore(a) /\ v \in {0, 700, 1500}
  BY VolumeScoreOK, SMT
<1>2. ASSUME action = "HOLD" PROVE AgentScore(a, action) \in LowScores
  <2>1. AgentScore(a, action) = Cap(1000 + v)
    BY <1>1, <1>2, SMT DEF AgentScore
  <2>2. PICK l \in Nat : l = LowScore /\ l = 2500
    BY SMT DEF LowScore
  <2>3. Cap(1000 + v) = 1000 + v
    BY <1>1, SMT DEF Cap, MaxConfidence
  <2>4. 1000 + v \in 0..l
    BY <1>1, <2>2, SMT
  <2>5. LowScores = 0..l
    BY <2>2 DEF LowScores
  <2>6. QED  BY <2>1, <2>3, <2>4, <2>5
<1>3. ASSUME action # "HOLD" PROVE AgentScore(a, action) \in Confidences
  <2> DEFINE buys == action = "BUY"
             trend == IF a.trend = (IF buys THEN "bullish" ELSE "bearish") THEN 2500 ELSE 0
             P == {h \in 1..3 :
                     \/ h = 1 /\ a.rsi \in (IF buys THEN {"oversold", "low", "mid"} ELSE {"mid", "high"})
                     \/ h = 2 /\ a.macd = (IF buys THEN 1 ELSE -1)
                     \/ h = 3 /\ a.band \in (IF buys THEN {"floor", "low"} ELSE {"high"})}
  <2>1. trend \in Int
    BY SMT
  <2>2. PICK h \in Int : h = Hits(a, buys)
    <3>1. P \subseteq 1..3
      OBVIOUS
    <3> HIDE DEF P
    <3>2. Cardinality(P) \in Int
      BY <3>1, CountInt
    <3>3. QED  BY <3>2 DEF P, Hits
  <2>3. PICK n \in Int : n = NearScore(a, buys)
    BY SMT DEF NearScore
  <2>4. PICK d \in Int : d = Divergence(a, buys)
    <3>1. Divergence(a, buys) \in Int
      BY SMT DEF Divergence
    <3>2. QED  BY <3>1
  <2>5. AgentScore(a, action) = Cap(trend + 1000 * h + n + v + d)
    BY <1>1, <1>3, <2>2, <2>3, <2>4, SMT DEF AgentScore
  <2> HIDE DEF trend
  <2>6. trend + 1000 * h + n + v + d \in Int
    BY <2>1, SMT
  <2>7. QED  BY <2>5, <2>6, CapRange, SMT
<1>4. QED  BY <1>2, <1>3, ScoresOK

Signals == [action: {"BUY", "SELL", "HOLD"}, entry: Nat, stop: Nat \union {NoStop}, target: Nat,
            size: 0..100, trust: {0}, thin: BOOLEAN, wild: BOOLEAN, confidence: Confidences]

LEMMA AnalysedOK ==
  ASSUME NEW a, a.near \in Int, NEW p \in Nat, NEW s \in Proposals(a, p)
  PROVE  /\ Analysed(s, a) \in Signals
         /\ Analysed(s, a).action # "HOLD" => Stopped(Analysed(s, a))
         /\ Analysed(s, a).action = "HOLD" => Analysed(s, a).confidence \in LowScores
<1>1. s \in ModelAnswers /\ (s.action # "HOLD" => Stopped(s))
  BY AnswersOK
<1>2. PICK x \in Confidences : x = Blend(s, a) /\ (s.action = "HOLD" => x \in LowScores)
  <2>1. CASE s.action = "HOLD"
    <3>1. Blend(s, a) = AgentScore(a, "HOLD")
      BY <2>1 DEF Blend
    <3>2. AgentScore(a, "HOLD") \in Confidences /\ AgentScore(a, "HOLD") \in LowScores
      BY AgentScoreOK
    <3>3. QED  BY <3>1, <3>2
  <2>2. CASE s.action # "HOLD"
    <3>1. PICK t \in Int : t = s.trust
      BY <1>1 DEF ModelAnswers
    <3>2. PICK c \in Int : c = AgentScore(a, s.action)
      <4>1. AgentScore(a, s.action) \in Confidences
        BY AgentScoreOK
      <4>2. QED  BY <4>1, ScoresOK
    <3>3. PICK y \in Int : y = (6 * t + 4 * c) \div 10
      BY SMT
    <3>4. Blend(s, a) = Cap(y)
      BY <2>2, <3>1, <3>2, <3>3 DEF Blend
    <3>5. Cap(y) \in Confidences
      BY CapRange
    <3>6. QED  BY <2>2, <3>4, <3>5
  <2>3. QED  BY <2>1, <2>2
<1>3. PICK m \in ModelAnswers : /\ m = InMarket(s, a) /\ m.action = s.action
                                /\ m.stop = s.stop /\ m.entry = s.entry
  BY <1>1, InMarketOK
<1>4. PICK r : r = [m EXCEPT !.confidence = x]
  OBVIOUS
<1>5. Analysed(s, a) = [r EXCEPT !.trust = 0]
  BY <1>2, <1>3, <1>4 DEF Analysed
<1>6. /\ r.action = s.action /\ r.stop = s.stop /\ r.entry = s.entry /\ r.confidence = x
      /\ r \in [action: {"BUY", "SELL", "HOLD"}, entry: Nat, stop: Nat \union {NoStop}, target: Nat,
                size: 0..100, trust: Int, thin: BOOLEAN, wild: BOOLEAN, confidence: Confidences]
  BY <1>3, <1>4 DEF ModelAnswers
<1>7. Analysed(s, a) \in Signals
  BY <1>5, <1>6 DEF Signals
<1>8. /\ Analysed(s, a).action = s.action /\ Analysed(s, a).stop = s.stop
      /\ Analysed(s, a).entry = s.entry /\ Analysed(s, a).confidence = x
  BY <1>5, <1>6
<1>9. Stopped(Analysed(s, a)) <=> Stopped(s)
  BY <1>8 DEF Stopped, StopOk
<1>10. QED  BY <1>1, <1>2, <1>7, <1>8, <1>9

\* What holds at every moment of the pipeline: a signal that is no trade scores below the
\* threshold, and one that is has its stop.
SignalInv ==
  /\ stage \in {"idle", "signalled", "assessed", "judged"} /\ signal \in Signals
  /\ verdict \in [approved: BOOLEAN, confidence: {0, 3000, 7500, 9000}, review: BOOLEAN]
  /\ signal.action # "HOLD" => Stopped(signal)
  /\ signal.action = "HOLD" => signal.confidence \in LowScores
  /\ stage = "judged" => signal.action # "HOLD"

LEMMA AnalyseStep ==
  ASSUME SignalInv, NEW a, a.near \in Int, NEW p \in Nat, NEW s \in Proposals(a, p),
         stage' = "signalled", signal' = Analysed(s, a), verdict' = verdict
  PROVE  SignalInv'
<1>1. /\ signal' \in Signals
      /\ signal'.action # "HOLD" => Stopped(signal')
      /\ signal'.action = "HOLD" => signal'.confidence \in LowScores
  BY AnalysedOK
<1>2. (verdict \in [approved: BOOLEAN, confidence: {0, 3000, 7500, 9000}, review: BOOLEAN])'
  BY SMT DEF SignalInv
<1>3. stage' \in {"idle", "signalled", "assessed", "judged"} /\ stage' # "judged"
  OBVIOUS
<1>4. QED  BY <1>1, <1>2, <1>3 DEF SignalInv, Stopped, StopOk

LEMMA MarketsNear ==
  /\ \A a \in Idling \union Ranging \union Rising : a.near \in Int
  /\ Stub.near \in Int
<1>1. ASSUME NEW a \in Idling PROVE a.near \in Int
  <2>1. \A g, v : Inactive(g, v).near = -1
    BY SMT DEF Inactive, Market
  <2>2. PICK g, v : a = Inactive(g, v)
    BY DEF Idling
  <2>3. a.near = -1
    BY <2>1, <2>2
  <2>4. QED  BY <2>3, SMT
<1>2. ASSUME NEW a \in Ranging PROVE a.near \in Int
  <2>1. \A t, r, m, b, v, n, d, p, c : Sideways(t, r, m, b, v, n, d, p, c).near = n
    BY SMT DEF Sideways, Market
  <2>2. a.near \in Nears
    BY <2>1, SMT DEF Ranging
  <2>3. QED  BY <2>2, SMT DEF Nears
<1>3. ASSUME NEW a \in Rising PROVE a.near \in Int
  <2>1. \A g, r, m, b, v, n, d, f, c : Upward(g, r, m, b, v, n, d, f, c).near = n
    BY SMT DEF Upward, Market
  <2>2. a.near \in Nears
    BY <2>1, SMT DEF Rising
  <2>3. QED  BY <2>2, SMT DEF Nears
<1>4. Stub.near \in Int
  BY SMT DEF Stub, Market
<1>5. QED  BY <1>1, <1>2, <1>3, <1>4

LEMMA NoSignalLow == 0 \in Confidences /\ 0 \in LowScores
<1>1. PICK m \in Nat : m = MaxConfidence
  BY SMT DEF MaxConfidence
<1>2. PICK l \in Nat : l = LowScore
  BY SMT DEF LowScore
<1>3. 0 \in 0..m /\ 0 \in 0..l
  OBVIOUS
<1>4. QED  BY <1>1, <1>2, <1>3 DEF Confidences, LowScores

LEMMA NextTickOK == ASSUME NextTick PROVE SignalInv'
<1>1. signal' = NoSignal /\ verdict' = NoVerdict /\ stage' = "idle"
  BY DEF NextTick
<1>2. NoSignal \in Signals /\ NoSignal.action = "HOLD" /\ NoSignal.confidence \in LowScores
  BY NoSignalLow, SMT DEF NoSignal, Hold, Proposal, Signals
<1>3. NoVerdict \in [approved: BOOLEAN, confidence: {0, 3000, 7500, 9000}, review: BOOLEAN]
  BY SMT DEF NoVerdict
<1>4. QED  BY <1>1, <1>2, <1>3 DEF SignalInv, Stopped, StopOk

\* What the risk agent answers, from its rules and its second thoughts.
Judgement(b, hidden) ==
  Reflected([NoVerdict EXCEPT !.approved = b, !.confidence = IF b THEN 9000 ELSE 3000], hidden)

ModelAnswered(v, b, c) == [v EXCEPT !.approved = b, !.confidence = c]

GivenScores == {0, 3000, 7500, 9000}

LEMMA JudgedOK ==
  ASSUME NEW A, NEW C, NEW v \in [approved: A, confidence: C, review: A], NEW b \in A, NEW c \in C
  PROVE  ModelAnswered(v, b, c) \in [approved: A, confidence: C, review: A]
<1>1. PICK x : x = [v EXCEPT !.approved = b]
  OBVIOUS
<1>2. x \in [approved: A, confidence: C, review: A]
  BY <1>1, SMT
<1>3. [x EXCEPT !.confidence = c] \in [approved: A, confidence: C, review: A]
  BY <1>2, SMT
<1>4. QED  BY <1>1, <1>3 DEF ModelAnswered

LEMMA Reviewed ==
  ASSUME NEW A, NEW C, NEW v \in [approved: A, confidence: C, review: A], NEW h \in A,
         C = GivenScores
  PROVE  Reflected(v, h) \in [approved: A, confidence: C, review: A]
<1>1. PICK x : x = [v EXCEPT !.review = h]
  OBVIOUS
<1>2. x \in [approved: A, confidence: C, review: A]
  BY <1>1, SMT
<1>3. PICK k : k = IF h /\ v.confidence > 7500 THEN 7500 ELSE v.confidence
  OBVIOUS
<1>4. k \in C
  <2>1. v.confidence \in C /\ 7500 \in C
    BY SMT DEF GivenScores
  <2>2. QED  BY <2>1, <1>3
<1>5. [x EXCEPT !.confidence = k] \in [approved: A, confidence: C, review: A]
  BY <1>2, <1>4, SMT
<1>6. Reflected(v, h) = [x EXCEPT !.confidence = k]
  BY <1>1, <1>3 DEF Reflected
<1>7. QED  BY <1>5, <1>6

LEMMA VerdictOK ==
  ASSUME NEW b \in BOOLEAN, NEW h \in BOOLEAN, NEW c \in GivenScores
  PROVE  Reflected(ModelAnswered(NoVerdict, b, c), h)
           \in [approved: BOOLEAN, confidence: GivenScores, review: BOOLEAN]
<1>1. PICK A : A = BOOLEAN
  OBVIOUS
<1>2. PICK C : C = GivenScores
  OBVIOUS
<1>3. NoVerdict \in [approved: A, confidence: C, review: A]
  BY <1>1, <1>2, SMT DEF NoVerdict, GivenScores
<1>4. b \in A
  BY <1>1
<1>5. h \in A
  BY <1>1
<1>6. c \in C
  BY <1>2
<1>7. PICK n : n = NoVerdict
  OBVIOUS
<1>8. n \in [approved: A, confidence: C, review: A]
  BY <1>3, <1>7
<1>9. PICK w : w = ModelAnswered(n, b, c)
  OBVIOUS
<1>10. ModelAnswered(n, b, c) \in [approved: A, confidence: C, review: A]
  BY <1>8, <1>4, <1>6, JudgedOK
<1>11. w \in [approved: A, confidence: C, review: A]
  BY <1>9, <1>10
<1>12. Reflected(w, h) \in [approved: A, confidence: C, review: A]
  BY <1>2, <1>5, <1>11, Reviewed
<1>13. Reflected(ModelAnswered(NoVerdict, b, c), h) \in [approved: A, confidence: C, review: A]
  BY <1>7, <1>9, <1>12
<1>14. QED  BY <1>1, <1>2, <1>13

LEMMA SignalInvHolds == SignalSpec => []SignalInv
<1>1. SignalInit => SignalInv
  <2>1. NoSignal \in Signals /\ NoSignal.action = "HOLD" /\ NoSignal.confidence \in LowScores
    BY NoSignalLow, SMT DEF NoSignal, Hold, Proposal, Signals
  <2>2. NoVerdict \in [approved: BOOLEAN, confidence: {0, 3000, 7500, 9000}, review: BOOLEAN]
    BY SMT DEF NoVerdict
  <2>3. QED  BY <2>1, <2>2 DEF SignalInit, SignalInv
<1>2. SignalInv /\ [SignalNext]_signalVars => SignalInv'
  <2> SUFFICES ASSUME SignalInv, [SignalNext]_signalVars PROVE SignalInv'
    OBVIOUS
  <2>1. ASSUME NEW a \in Idling \union Ranging \union Rising, NEW p \in Quotes, Analyse(a, p)
        PROVE  SignalInv'
    <3>1. p \in Nat /\ a.near \in Int
      BY MarketsNear, SignalAssumption
    <3>2. QED  BY <2>1, <3>1, AnalyseStep DEF Analyse
  <2>2. CASE AnalyseStub
    <3>1. StubPrice \in Nat /\ Stub.near \in Int
      BY MarketsNear, SMT DEF StubPrice, Cent
    <3>2. Analyse(Stub, StubPrice)
      BY <2>2 DEF AnalyseStub
    <3>3. QED  BY <3>1, <3>2, AnalyseStep DEF Analyse
  <2>3. ASSUME NEW raw \in Opinions, Assess(raw)
        PROVE  SignalInv'
    <3>1. /\ stage' = "assessed" /\ signal.action # "HOLD" /\ verdict' = verdict
          /\ signal' = [signal EXCEPT !.confidence = Cap((signal.confidence + raw) \div 2)]
      BY <2>3 DEF Assess
    <3>2. PICK x \in Confidences : x = Cap((signal.confidence + raw) \div 2)
      <4>1. signal.confidence \in Int /\ raw \in Int
        <5>1. signal.confidence \in Confidences
          BY DEF SignalInv, Signals
        <5>2. QED  BY <5>1, SignalAssumption, ScoresOK
      <4>2. PICK y \in Int : y = (signal.confidence + raw) \div 2
        BY <4>1
      <4>3. Cap(y) \in Confidences
        BY CapRange
      <4>4. QED  BY <4>2, <4>3
    <3>3. signal' \in Signals /\ signal'.action = signal.action /\ signal'.stop = signal.stop
          /\ signal'.entry = signal.entry
      BY <3>1, <3>2 DEF SignalInv, Signals
    <3>4. Stopped(signal')
      BY <3>1, <3>3 DEF SignalInv, Stopped, StopOk
    <3>5. (verdict \in [approved: BOOLEAN, confidence: {0, 3000, 7500, 9000}, review: BOOLEAN])'
      BY <3>1, SMT DEF SignalInv
    <3>6. stage' \in {"idle", "signalled", "assessed", "judged"}
      BY <3>1
    <3>7. QED  BY <3>1, <3>3, <3>4, <3>5, <3>6 DEF SignalInv, Stopped, StopOk
  <2>4. CASE KeepConfidence
    BY <2>4, SMT DEF KeepConfidence, SignalInv, Stopped, StopOk
  <2>5. CASE SkipLowConfidence \/ Finish
    BY <2>5, NextTickOK DEF SkipLowConfidence, Finish
  <2>6. ASSUME NEW affordable \in BOOLEAN, NEW hidden \in BOOLEAN, Validate(affordable, hidden)
        PROVE  SignalInv'
    <3>1. signal.confidence >= 6000 /\ stage' = "judged" /\ signal' = signal
      BY <2>6, SMT DEF Validate
    <3>2. verdict' = Judgement(GuardrailsPass(signal) /\ affordable, hidden)
      BY <2>6 DEF Validate, Judgement
    <3>3. PICK b \in BOOLEAN : b = (GuardrailsPass(signal) /\ affordable)
      BY DEF GuardrailsPass
    <3>4. verdict' = Judgement(b, hidden)
      BY <3>2, <3>3
    <3>5. Judgement(b, hidden) \in [approved: BOOLEAN, confidence: GivenScores, review: BOOLEAN]
      <4>1. PICK c \in GivenScores : c = IF b THEN 9000 ELSE 3000
        BY SMT DEF GivenScores
      <4>2. Reflected(ModelAnswered(NoVerdict, b, c), hidden)
              \in [approved: BOOLEAN, confidence: GivenScores, review: BOOLEAN]
        BY VerdictOK
      <4>3. Judgement(b, hidden) = Reflected(ModelAnswered(NoVerdict, b, c), hidden)
        BY <4>1, SMT DEF Judgement, ModelAnswered
      <4>4. QED  BY <4>2, <4>3
    <3>6. verdict' \in [approved: BOOLEAN, confidence: GivenScores, review: BOOLEAN]
      BY <3>4, <3>5
    <3>7. signal.action # "HOLD"
      <4>1. ~(signal.confidence \in LowScores)
        BY <3>1, ScoresOK, SMT
      <4>2. signal.action = "HOLD" => signal.confidence \in LowScores
        BY DEF SignalInv
      <4>3. QED  BY <4>1, <4>2
    <3>8. stage' \in {"idle", "signalled", "assessed", "judged"} /\ signal' \in Signals /\ Stopped(signal')
      BY <3>1, <3>7, SMT DEF SignalInv
    <3>9. QED  BY <3>1, <3>6, <3>7, <3>8, SMT DEF SignalInv, Stopped, StopOk, GivenScores
  <2>7. CASE UNCHANGED signalVars
    BY <2>7, SMT DEF signalVars, SignalInv, Stopped, StopOk
  <2>8. QED
    BY <2>1, <2>2, <2>3, <2>4, <2>5, <2>6, <2>7 DEF SignalNext
<1>3. QED  BY <1>1, <1>2, PTL DEF SignalSpec

\* The types of the signal's fields, in every market and whatever a model answers.
THEOREM SignalTypes == SignalSpec => []SignalTypeOK
<1>1. SignalInv => SignalTypeOK
  BY DEF SignalInv, SignalTypeOK, Signals
<1>2. QED  BY <1>1, SignalInvHolds, PTL

\* Only a trade with a stop goes on to the risk agent, in every market, at every price and
\* whatever a language model answers; from 25 cents on the stop is on the losing side, though
\* levels and averages are rounded to cents, and from six tenths of a cent on it is not 0.0
\* (agents/strategy_agent.py, strategies/, agents/risk_agent.py:115).
THEOREM SignalTradesAreStopped == SignalSpec => []TradesAreStopped
<1>1. SignalInv => TradesAreStopped
  <2> SUFFICES ASSUME SignalInv, stage = "judged" \/ (stage = "assessed" /\ signal.confidence >= 6000)
               PROVE  signal.action \in {"BUY", "SELL"} /\ Stopped(signal)
    BY SMT DEF TradesAreStopped
  <2>1. signal.action # "HOLD"
    <3>1. CASE stage = "judged"
      BY <3>1, SMT DEF SignalInv
    <3>2. CASE signal.confidence >= 6000
      <4>1. ~(signal.confidence \in LowScores)
        BY <3>2, ScoresOK, SMT
      <4>2. signal.action = "HOLD" => signal.confidence \in LowScores
        BY SMT DEF SignalInv
      <4>3. QED  BY <4>1, <4>2, SMT
    <3>3. QED  BY <3>1, <3>2, SMT
  <2>2. signal.action \in {"BUY", "SELL", "HOLD"}
    BY SMT DEF SignalInv, Signals
  <2>3. Stopped(signal)
    BY <2>1, SMT DEF SignalInv
  <2>4. QED  BY <2>1, <2>2, <2>3, SMT
<1>2. QED  BY <1>1, SignalInvHolds, PTL

-----------------------------------------------------------------------------
(* Channels, rules and settings (notifications/store.py).                  *)

HeldSecrets  == Secrets \union Masks \union {Missing}
Views == [text: Masks \union {Missing}, rev: 0..MaxChanges]
Settings5 == [hours: BOOLEAN, window: {5, 10}]
RuleRows == [st: {"none", "on", "off", "deleted"}, to: SUBSET Channels]
ChannelEdits == [kind: {"channel"}, c: Channels, sent: HeldSecrets, merged: HeldSecrets]
RuleEdits    == [kind: {"rule"}, x: Rules]
QuietEdits   == [kind: {"settings"}, whole: Settings5]
Edits == {NoEdit} \union ChannelEdits \union RuleEdits \union QuietEdits

\* What a row decrypts to with the key k.
Kept(r, k) == IF r.key = k THEN r.secret ELSE Missing

\* A view of the row as it is shows the mask of what the row decrypts to.
Told(v, r, k) ==
  /\ r.st = "none" => v.rev = 0
  /\ r.st = "present" => v.rev <= r.rev /\ (v.rev = r.rev => v.text = Masked(Kept(r, k)))

\* An edit that echoes a view of the row as it is writes back what the row decrypts to.
Based(q, v, r, k) ==
  /\ r.st # "none"
  /\ (r.st = "present" /\ q.sent = v.text /\ v.rev = r.rev) => q.merged = Kept(r, k)

ChannelTyped ==
  /\ channel \in [Channels -> Row] /\ rule \in [Rules -> RuleRows]
  /\ quiet \in Settings5 /\ key \in 0..MaxChanges
  /\ shown \in [Editors -> [Channels -> Views]] /\ request \in [Editors -> Edits]

ChannelInv ==
  /\ ChannelTyped
  /\ \A c \in Channels : channel[c].rev \in 1..MaxChanges
  /\ \A e \in Editors, c \in Channels : Told(shown[e][c], channel[c], key)
  /\ \A e \in Editors : request[e].kind = "channel" =>
       Based(request[e], shown[e][request[e].c], channel[request[e].c], key)

LEMMA KeptHeld == ASSUME NEW r \in Row, NEW k PROVE Kept(r, k) \in HeldSecrets
  BY SMT DEF Row, Kept, HeldSecrets

LEMMA MaskedShown == ASSUME NEW v \in HeldSecrets PROVE Masked(v) \in Masks \union {Missing}
  BY ChannelAssumption DEF Masked, HeldSecrets, Masks

LEMMA EditKinds ==
  ASSUME NEW q \in Edits
  PROVE  /\ q.kind = "channel" => q \in ChannelEdits
         /\ q.kind = "rule" => q \in RuleEdits
         /\ q.kind = "settings" => q \in QuietEdits
         /\ q.kind = "none" => q = NoEdit
<1>1. NoEdit.kind = "none"
  BY DEF NoEdit
<1>2. \A p \in ChannelEdits : p.kind = "channel"
  BY DEF ChannelEdits
<1>3. \A p \in RuleEdits : p.kind = "rule"
  BY DEF RuleEdits
<1>4. \A p \in QuietEdits : p.kind = "settings"
  BY DEF QuietEdits
<1>5. q \in {NoEdit} \/ q \in ChannelEdits \/ q \in RuleEdits \/ q \in QuietEdits
  BY DEF Edits
<1>6. CASE q \in {NoEdit}
  BY <1>1, <1>6
<1>7. CASE q \in ChannelEdits
  BY <1>2, <1>7
<1>8. CASE q \in RuleEdits
  BY <1>3, <1>8
<1>9. CASE q \in QuietEdits
  BY <1>4, <1>9
<1>10. QED  BY <1>5, <1>6, <1>7, <1>8, <1>9

\* A step that rewrites one row, and ends or leaves the requests.
LEMMA RowStep ==
  ASSUME ChannelInv, NEW c \in Channels, NEW n \in Row, n.rev \in 1..MaxChanges,
         channel' = [channel EXCEPT ![c] = n], UNCHANGED <<rule, quiet, key, shown>>,
         request' \in [Editors -> Edits],
         \A e \in Editors : request'[e] = request[e] \/ request'[e].kind # "channel",
         \A e \in Editors : Told(shown[e][c], n, key),
         \A e \in Editors : (request[e].kind = "channel" /\ request[e].c = c)
                              => Based(request[e], shown[e][c], n, key)
  PROVE  ChannelInv'
<1>1. ChannelTyped'
  BY DEF ChannelInv, ChannelTyped
<1>2. \A d \in Channels : channel'[d] = IF d = c THEN n ELSE channel[d]
  BY DEF ChannelInv, ChannelTyped
<1>3. ASSUME NEW d \in Channels PROVE channel'[d].rev \in 1..MaxChanges
  BY <1>2 DEF ChannelInv
<1>4. ASSUME NEW e \in Editors, NEW d \in Channels PROVE Told(shown[e][d], channel'[d], key)
  BY <1>2 DEF ChannelInv
<1>5. ASSUME NEW e \in Editors, request'[e].kind = "channel"
      PROVE  Based(request'[e], shown[e][request'[e].c], channel'[request'[e].c], key)
  <2>1. request'[e] = request[e] /\ request[e].kind = "channel"
    BY <1>5
  <2>2. request[e].c \in Channels
    <3>1. request[e] \in ChannelEdits
      BY <2>1, EditKinds DEF ChannelInv, ChannelTyped
    <3>2. QED  BY <3>1 DEF ChannelEdits
  <2>3. PICK d \in Channels : d = request[e].c
    BY <2>2
  <2>4. Based(request[e], shown[e][d], channel[d], key)
    BY <2>1, <2>3 DEF ChannelInv
  <2>5. CASE d = c
    BY <1>2, <2>1, <2>3, <2>5
  <2>6. CASE d # c
    BY <1>2, <2>1, <2>3, <2>4, <2>6
  <2>7. QED  BY <2>5, <2>6
<1>6. shown' = shown /\ key' = key
  OBVIOUS
<1>7. QED  BY <1>1, <1>3, <1>4, <1>5, <1>6 DEF ChannelInv

\* The request of one editor, ended or taken up.
LEMMA RequestSet ==
  ASSUME ChannelInv, NEW e \in Editors, NEW q \in Edits, request' = [request EXCEPT ![e] = q]
  PROVE  /\ request' \in [Editors -> Edits]
         /\ request'[e] = q
         /\ \A d \in Editors : d # e => request'[d] = request[d]
  BY DEF ChannelInv, ChannelTyped

LEMMA DoneOK ==
  ASSUME ChannelInv, NEW e \in Editors, Done(e)
  PROVE  /\ request' \in [Editors -> Edits]
         /\ \A d \in Editors : request'[d] = request[d] \/ request'[d].kind # "channel"
<1>1. NoEdit \in Edits /\ NoEdit.kind # "channel"
  BY DEF Edits, NoEdit
<1>2. request' = [request EXCEPT ![e] = NoEdit]
  BY DEF Done
<1>3. QED  BY <1>1, <1>2, RequestSet

LEMMA NoRowOK == NoRow \in Row /\ NoRow.rev = 1
<1>1. PICK t : t = "never"
  OBVIOUS
<1>2. PICK s : s = "none"
  OBVIOUS
<1>3. t \in {"never", "ok", "failed"} /\ s \in {"none", "present", "deleted"}
  BY <1>1, <1>2
<1>4. [st |-> s, secret |-> Missing, key |-> 0, rev |-> 1, on |-> TRUE, test |-> t] \in Row
  BY <1>3 DEF Row
<1>5. QED  BY <1>1, <1>2, <1>4 DEF NoRow

LEMMA CreateStep ==
  ASSUME ChannelInv, NEW e \in Editors, NEW c \in Channels, NEW s \in Secrets, CreateChannel(e, c, s)
  PROVE  ChannelInv'
<1>1. PICK n : n = [NoRow EXCEPT !.st = "present", !.secret = s, !.key = key]
  OBVIOUS
<1>2. key \in Nat /\ s \in Secrets \union Masks \union {Missing}
  BY DEF ChannelInv, ChannelTyped
<1>3. n.st = "present" /\ n.rev = 1
  BY <1>1, SMT DEF NoRow
<1>4. n \in Row
  <2>1. PICK r \in Row : r = NoRow
    BY NoRowOK
  <2>2. PICK x : x = [r EXCEPT !.st = "present"]
    OBVIOUS
  <2>3. x \in Row
    BY <2>2, SMT DEF Row
  <2>4. PICK y : y = [x EXCEPT !.secret = s]
    OBVIOUS
  <2>5. y \in Row
    BY <1>2, <2>3, <2>4, SMT DEF Row
  <2>6. [y EXCEPT !.key = key] \in Row
    BY <1>2, <2>5, SMT DEF Row
  <2>7. QED  BY <1>1, <2>1, <2>2, <2>4, <2>6
<1>5. n.rev \in 1..MaxChanges
  BY <1>3, ChannelAssumption
<1>6. channel[c].st = "none" /\ request' = request /\ channel' = [channel EXCEPT ![c] = n]
  BY <1>1 DEF CreateChannel
<1>7. UNCHANGED <<rule, quiet, key, shown>>
  BY DEF CreateChannel
<1>8. request' \in [Editors -> Edits]
  BY <1>6 DEF ChannelInv, ChannelTyped
<1>9. ASSUME NEW d \in Editors PROVE Told(shown[d][c], n, key)
  <2>1. Told(shown[d][c], channel[c], key)
    BY DEF ChannelInv
  <2>2. shown[d][c].rev = 0
    BY <2>1, <1>6 DEF Told
  <2>3. QED  BY <2>2, <1>3 DEF Told
<1>10. ASSUME NEW d \in Editors, request[d].kind = "channel", request[d].c = c
       PROVE  Based(request[d], shown[d][c], n, key)
  BY <1>6, <1>10 DEF ChannelInv, Based
<1>11. QED  BY <1>4, <1>5, <1>6, <1>7, <1>8, <1>9, <1>10, RowStep

LEMMA EnableStep ==
  ASSUME ChannelInv, NEW e \in Editors, NEW c \in Channels, NEW on \in BOOLEAN,
         EnableChannel(e, c, on) \/ TestChannel(e, c, on)
  PROVE  ChannelInv'
<1>1. channel[c] \in Row /\ channel[c].rev \in 1..MaxChanges
  BY DEF ChannelInv, ChannelTyped
<1>2. PICK n \in Row : /\ channel' = [channel EXCEPT ![c] = n]
                       /\ n.st = channel[c].st /\ n.secret = channel[c].secret
                       /\ n.key = channel[c].key /\ n.rev = channel[c].rev
  <2>1. PICK r \in Row : r = channel[c]
    BY <1>1
  <2>2. CASE EnableChannel(e, c, on)
    <3>1. PICK n : n = [r EXCEPT !.on = on]
      OBVIOUS
    <3>2. n \in Row /\ n.st = r.st /\ n.secret = r.secret /\ n.key = r.key /\ n.rev = r.rev
      BY <3>1, SMT DEF Row
    <3>3. channel' = [channel EXCEPT ![c] = n]
      BY <2>1, <2>2, <3>1 DEF EnableChannel
    <3>4. QED  BY <2>1, <3>2, <3>3
  <2>3. CASE TestChannel(e, c, on)
    <3>1. PICK t \in {"ok", "failed"} : channel' = [channel EXCEPT ![c].test = t]
      BY <2>3 DEF TestChannel
    <3>2. PICK n : n = [r EXCEPT !.test = t]
      OBVIOUS
    <3>3. n \in Row /\ n.st = r.st /\ n.secret = r.secret /\ n.key = r.key /\ n.rev = r.rev
      BY <3>1, <3>2, SMT DEF Row
    <3>4. channel' = [channel EXCEPT ![c] = n]
      BY <2>1, <3>1, <3>2
    <3>5. QED  BY <2>1, <3>3, <3>4
  <2>4. QED  BY <2>2, <2>3
<1>3. UNCHANGED <<rule, quiet, key, shown>> /\ request' = request
  BY DEF EnableChannel, TestChannel
<1>4. request' \in [Editors -> Edits]
  BY <1>3 DEF ChannelInv, ChannelTyped
<1>5. \A k : Kept(n, k) = Kept(channel[c], k)
  BY <1>2 DEF Kept
<1>6. ASSUME NEW d \in Editors PROVE Told(shown[d][c], n, key)
  <2>1. Told(shown[d][c], channel[c], key)
    BY DEF ChannelInv
  <2>2. QED  BY <1>2, <1>5, <2>1 DEF Told
<1>7. ASSUME NEW d \in Editors, request[d].kind = "channel", request[d].c = c
      PROVE  Based(request[d], shown[d][c], n, key)
  <2>1. Based(request[d], shown[d][c], channel[c], key)
    BY <1>7 DEF ChannelInv
  <2>2. QED  BY <1>2, <1>5, <2>1 DEF Based
<1>8. n.rev \in 1..MaxChanges
  BY <1>1, <1>2
<1>9. QED  BY <1>2, <1>3, <1>4, <1>6, <1>7, <1>8, RowStep

LEMMA DeleteStep ==
  ASSUME ChannelInv, NEW e \in Editors, NEW c \in Channels, DeleteChannel(e, c)
  PROVE  ChannelInv'
<1>1. PICK n : n = [NoRow EXCEPT !.st = "deleted"]
  OBVIOUS
<1>2. n \in Row /\ n.st = "deleted" /\ n.rev = 1
  <2>1. PICK r \in Row : r = NoRow
    BY NoRowOK
  <2>2. n = [r EXCEPT !.st = "deleted"] /\ r.rev = 1
    BY <1>1, <2>1, NoRowOK
  <2>3. QED  BY <2>2, SMT DEF Row
<1>3. n.rev \in 1..MaxChanges
  BY <1>2, ChannelAssumption
<1>4. UNCHANGED <<rule, quiet, key, shown>> /\ request' = request /\ channel' = [channel EXCEPT ![c] = n]
  BY <1>1 DEF DeleteChannel
<1>5. request' \in [Editors -> Edits]
  BY <1>4 DEF ChannelInv, ChannelTyped
<1>6. \A d \in Editors : Told(shown[d][c], n, key) /\ Based(request[d], shown[d][c], n, key)
  BY <1>2 DEF Told, Based
<1>7. QED  BY <1>2, <1>3, <1>4, <1>5, <1>6, RowStep

\* The row that an edit writes.
LEMMA Rewritten ==
  ASSUME NEW r \in Row, r.st = "present", r.rev \in 1..MaxChanges, r.rev < MaxChanges, NEW m \in HeldSecrets,
         NEW k \in Nat
  PROVE  \E n \in Row :
           /\ n = [r EXCEPT !.secret = m, !.key = k, !.rev = IF Kept(r, k) = m THEN @ ELSE @ + 1]
           /\ n.st = "present" /\ Kept(n, k) = m /\ n.rev \in 1..MaxChanges
           /\ r.rev <= n.rev /\ (n.rev = r.rev => Kept(r, k) = m)
<1>1. PICK a : a = [r EXCEPT !.secret = m]
  OBVIOUS
<1>2. a \in Row /\ a.st = r.st /\ a.secret = m /\ a.rev = r.rev
  BY <1>1, SMT DEF Row, HeldSecrets
<1>3. PICK b : b = [a EXCEPT !.key = k]
  OBVIOUS
<1>4. b \in Row /\ b.st = r.st /\ b.secret = m /\ b.rev = r.rev /\ b.key = k
  BY <1>2, <1>3, SMT DEF Row
<1>5. PICK w \in Nat : w = IF Kept(r, k) = m THEN r.rev ELSE r.rev + 1
  BY DEF Row
<1>6. PICK n : n = [b EXCEPT !.rev = w]
  OBVIOUS
<1>7. n \in Row /\ n.st = r.st /\ n.secret = m /\ n.rev = w /\ n.key = k
  BY <1>4, <1>5, <1>6, SMT DEF Row
<1>8. Kept(n, k) = m
  BY <1>7 DEF Kept
<1>9. w \in 1..MaxChanges /\ r.rev <= w /\ (w = r.rev => Kept(r, k) = m)
  BY <1>5, ChannelAssumption
<1>10. n = [r EXCEPT !.secret = m, !.key = k, !.rev = IF Kept(r, k) = m THEN @ ELSE @ + 1]
  BY <1>1, <1>3, <1>5, <1>6
<1>11. QED  BY <1>7, <1>8, <1>9, <1>10

LEMMA WriteStep ==
  ASSUME ChannelInv, NEW e \in Editors, WriteChannel(e)
  PROVE  ChannelInv'
<1> DEFINE q == request[e]
<1>1. /\ q.kind = "channel" /\ channel[q.c].rev < MaxChanges /\ Done(e)
      /\ UNCHANGED <<rule, quiet, key, shown>>
  BY DEF WriteChannel
<1>2. q \in ChannelEdits
  BY <1>1, EditKinds DEF ChannelInv, ChannelTyped
<1>3. PICK c \in Channels : c = q.c
  BY <1>2 DEF ChannelEdits
<1>4. PICK m \in HeldSecrets : m = q.merged
  BY <1>2 DEF ChannelEdits
<1>5. PICK r \in Row : r = channel[c]
  BY DEF ChannelInv, ChannelTyped
<1>6. request' \in [Editors -> Edits] /\ \A d \in Editors : request'[d] = request[d] \/ request'[d].kind # "channel"
  BY <1>1, DoneOK
<1>7. \A d \in Editors : Told(shown[d][c], r, key)
  BY <1>5 DEF ChannelInv
<1>8. \A d \in Editors : (request[d].kind = "channel" /\ request[d].c = c) => Based(request[d], shown[d][c], r, key)
  BY <1>5 DEF ChannelInv
<1>9. r.rev \in 1..MaxChanges
  BY <1>5 DEF ChannelInv
<1>10. CASE r.st # "present"
  <2>1. channel' = channel
    BY <1>3, <1>5, <1>10 DEF WriteChannel, Present
  <2>2. channel' = [channel EXCEPT ![c] = r]
    BY <2>1, <1>5 DEF ChannelInv, ChannelTyped
  <2>3. QED  BY <1>1, <2>2, <1>6, <1>7, <1>8, <1>9, RowStep
<1>11. CASE r.st = "present"
  <2>1. key \in Nat /\ r.rev < MaxChanges
    BY <1>1, <1>3, <1>5 DEF ChannelInv, ChannelTyped
  <2>2. PICK n \in Row :
           /\ n = [r EXCEPT !.secret = m, !.key = key, !.rev = IF Kept(r, key) = m THEN @ ELSE @ + 1]
           /\ n.st = "present" /\ Kept(n, key) = m /\ n.rev \in 1..MaxChanges
           /\ r.rev <= n.rev /\ (n.rev = r.rev => Kept(r, key) = m)
    BY <1>9, <1>11, <2>1, Rewritten
  <2>3. channel' = [channel EXCEPT ![c].secret = m, ![c].key = key,
                      ![c].rev = IF Stored(c) = m THEN @ ELSE @ + 1]
    BY <1>3, <1>4, <1>5, <1>11 DEF WriteChannel, Present
  <2>4. Stored(c) = Kept(r, key)
    BY <1>5 DEF Stored, Kept
  <2>5. channel' = [channel EXCEPT ![c] = n]
    <3>1. PICK x : x = (IF Kept(r, key) = m THEN r.rev ELSE r.rev + 1)
      OBVIOUS
    <3>2. n = [r EXCEPT !.secret = m, !.key = key, !.rev = x]
      BY <2>2, <3>1
    <3>3. channel' = [channel EXCEPT ![c].secret = m, ![c].key = key, ![c].rev = x]
      BY <2>3, <2>4, <3>1, <1>5 DEF ChannelInv, ChannelTyped
    <3>4. QED  BY <3>2, <3>3, <1>5 DEF ChannelInv, ChannelTyped
  <2>6. ASSUME NEW d \in Editors PROVE Told(shown[d][c], n, key)
    <3>1. shown[d][c].rev \in Nat /\ r.rev \in Nat /\ n.rev \in Nat
      BY DEF ChannelInv, ChannelTyped, Views, Row
    <3>2. Told(shown[d][c], r, key)
      BY <1>7
    <3>3. QED  BY <3>1, <3>2, <2>2, <1>11 DEF Told
  <2>7. ASSUME NEW d \in Editors, request[d].kind = "channel", request[d].c = c
        PROVE  Based(request[d], shown[d][c], n, key)
    <3>1. shown[d][c].rev \in Nat /\ r.rev \in Nat /\ n.rev \in Nat
      BY DEF ChannelInv, ChannelTyped, Views, Row
    <3>2. Told(shown[d][c], r, key) /\ Based(request[d], shown[d][c], r, key)
      BY <1>7, <1>8, <2>7
    <3>3. QED  BY <3>1, <3>2, <2>2, <1>11 DEF Told, Based
  <2>8. QED  BY <1>1, <1>6, <2>2, <2>5, <2>6, <2>7, RowStep
<1>12. QED  BY <1>10, <1>11

LEMMA ListStep ==
  ASSUME ChannelInv, NEW e \in Editors, ListChannels(e)
  PROVE  ChannelInv'
<1> DEFINE Seen(c) == IF Present(c) THEN [text |-> Masked(Stored(c)), rev |-> channel[c].rev] ELSE NoView
<1>1. shown' = [shown EXCEPT ![e] = [c \in Channels |-> Seen(c)]] /\ request[e] = NoEdit
      /\ UNCHANGED <<channel, rule, quiet, key, request>>
  BY DEF ListChannels, Idle
<1>2. ASSUME NEW c \in Channels
      PROVE  Seen(c) \in Views /\ Told(Seen(c), channel[c], key)
  <2>1. channel[c] \in Row /\ channel[c].rev \in 1..MaxChanges
    BY DEF ChannelInv, ChannelTyped
  <2>2. Stored(c) = Kept(channel[c], key) /\ Stored(c) \in HeldSecrets
    BY <2>1, KeptHeld DEF Stored, Kept
  <2>3. Masked(Stored(c)) \in Masks \union {Missing}
    BY <2>2, MaskedShown
  <2>4. CASE Present(c)
    <3>1. Seen(c) = [text |-> Masked(Stored(c)), rev |-> channel[c].rev]
      BY <2>4
    <3>2. Seen(c) \in Views
      BY <2>1, <2>3, <3>1 DEF Views
    <3>3. Seen(c).rev = channel[c].rev /\ Seen(c).text = Masked(Kept(channel[c], key))
      BY <3>1, <2>2
    <3>4. channel[c].st = "present" /\ channel[c].rev \in Nat
      BY <2>1, <2>4 DEF Present
    <3>5. QED  BY <3>2, <3>3, <3>4 DEF Told
  <2>5. CASE ~Present(c)
    <3>1. Seen(c) = NoView
      BY <2>5
    <3>2. 0 \in 0..MaxChanges
      BY ChannelAssumption
    <3>3. Seen(c) \in Views /\ Seen(c).rev = 0
      BY <3>1, <3>2 DEF NoView, Views
    <3>4. QED  BY <2>5, <3>3 DEF Told, Present
  <2>6. QED  BY <2>4, <2>5
<1> HIDE DEF Seen
<1>3. [c \in Channels |-> Seen(c)] \in [Channels -> Views]
  BY <1>2
<1>4. shown' \in [Editors -> [Channels -> Views]]
  BY <1>1, <1>3 DEF ChannelInv, ChannelTyped
<1>5. ChannelTyped'
  BY <1>1, <1>4 DEF ChannelInv, ChannelTyped
<1>6. \A d \in Editors, c \in Channels : shown'[d][c] = IF d = e THEN Seen(c) ELSE shown[d][c]
  BY <1>1 DEF ChannelInv, ChannelTyped
<1>7. \A d \in Editors, c \in Channels : Told(shown'[d][c], channel'[c], key')
  BY <1>1, <1>2, <1>6 DEF ChannelInv
<1>8. ASSUME NEW d \in Editors, request[d].kind = "channel"
      PROVE  Based(request[d], shown'[d][request[d].c], channel[request[d].c], key)
  <2>1. d # e
    BY <1>1, <1>8 DEF NoEdit
  <2>2. shown'[d] = shown[d]
    BY <1>1, <2>1 DEF ChannelInv, ChannelTyped
  <2>3. QED  BY <1>8, <2>2 DEF ChannelInv
<1>9. channel' = channel /\ request' = request /\ key' = key
  BY <1>1
<1>10. \A c \in Channels : channel'[c].rev \in 1..MaxChanges
  BY <1>9 DEF ChannelInv
<1>11. QED  BY <1>5, <1>7, <1>8, <1>9, <1>10 DEF ChannelInv

LEMMA ReadStep ==
  ASSUME ChannelInv, NEW e \in Editors, NEW c \in Channels,
         NEW sent \in Secrets \union {shown[e][c].text}, ReadChannel(e, c, sent)
  PROVE  ChannelInv'
<1>1. PICK q : q = [kind |-> "channel", c |-> c, sent |-> sent, merged |-> Merged(Stored(c), sent)]
  OBVIOUS
<1>2. /\ channel[c].st = "present" /\ request' = [request EXCEPT ![e] = q]
      /\ UNCHANGED <<channel, rule, quiet, key, shown>>
  BY <1>1 DEF ReadChannel, Present
<1>3. channel[c] \in Row /\ shown[e][c] \in Views
  BY DEF ChannelInv, ChannelTyped
<1>4. Stored(c) = Kept(channel[c], key) /\ Stored(c) \in HeldSecrets
  BY <1>3, KeptHeld DEF Stored, Kept
<1>5. sent \in HeldSecrets
  BY <1>3 DEF Views, HeldSecrets
<1>6. Merged(Stored(c), sent) \in HeldSecrets
  BY <1>4, <1>5 DEF Merged
<1>7. q \in ChannelEdits
  BY <1>1, <1>5, <1>6 DEF ChannelEdits
<1>8. q \in Edits
  BY <1>7 DEF Edits
<1>9. /\ request' \in [Editors -> Edits] /\ request'[e] = q
      /\ \A d \in Editors : d # e => request'[d] = request[d]
  BY <1>2, <1>8, RequestSet
<1>10. Based(q, shown[e][c], channel[c], key)
  <2>1. q.sent = sent /\ q.merged = Merged(Stored(c), sent)
    BY <1>1
  <2>2. Told(shown[e][c], channel[c], key)
    BY DEF ChannelInv
  <2>3. ASSUME sent = shown[e][c].text, shown[e][c].rev = channel[c].rev
        PROVE  Merged(Stored(c), sent) = Stored(c)
    <3>1. sent = Masked(Stored(c))
      BY <1>2, <1>4, <2>2, <2>3 DEF Told
    <3>2. CASE Stored(c) # Missing
      BY <3>1, <3>2 DEF Merged
    <3>3. CASE Stored(c) = Missing
      <4>1. Masked(Missing) = Missing
        BY ChannelAssumption DEF Masked
      <4>2. QED  BY <3>1, <3>3, <4>1 DEF Merged
    <3>4. QED  BY <3>2, <3>3
  <2>4. QED  BY <1>2, <1>4, <2>1, <2>3 DEF Based
<1>11. q.c = c
  BY <1>1
<1>12. \A d \in Editors : request'[d].kind = "channel" =>
         Based(request'[d], shown[d][request'[d].c], channel[request'[d].c], key)
  BY <1>9, <1>10, <1>11 DEF ChannelInv
<1>13. channel' = channel /\ rule' = rule /\ quiet' = quiet /\ key' = key /\ shown' = shown
  BY <1>2
<1>14. ChannelTyped'
  BY <1>9, <1>13 DEF ChannelInv, ChannelTyped
<1>15. QED  BY <1>12, <1>13, <1>14 DEF ChannelInv

LEMMA KeyStep ==
  ASSUME ChannelInv, ChangeKey
  PROVE  ChannelInv'
<1> DEFINE Touched(c) == [channel[c] EXCEPT !.rev = @ + 1]
<1>1. /\ key < MaxChanges /\ \A c \in Channels : channel[c].rev < MaxChanges
      /\ key' = key + 1 /\ request' = [e \in Editors |-> NoEdit]
      /\ channel' = [c \in Channels |-> Touched(c)] /\ UNCHANGED <<rule, quiet, shown>>
  BY DEF ChangeKey
<1>2. ASSUME NEW c \in Channels
      PROVE  /\ Touched(c) \in Row /\ Touched(c).rev = channel[c].rev + 1
             /\ Touched(c).st = channel[c].st /\ Touched(c).rev \in 1..MaxChanges
  <2>1. PICK r \in Row : r = channel[c]
    BY DEF ChannelInv, ChannelTyped
  <2>2. r.rev \in 1..MaxChanges /\ r.rev < MaxChanges
    BY <1>1, <2>1 DEF ChannelInv
  <2>3. PICK w \in Nat : w = r.rev + 1
    BY <2>2
  <2>4. [r EXCEPT !.rev = w] \in Row /\ [r EXCEPT !.rev = w].rev = w /\ [r EXCEPT !.rev = w].st = r.st
    BY SMT DEF Row
  <2>5. w \in 1..MaxChanges
    BY <2>2, <2>3, ChannelAssumption
  <2>6. QED  BY <2>1, <2>3, <2>4, <2>5
<1> HIDE DEF Touched
<1>3. channel' \in [Channels -> Row] /\ \A c \in Channels : channel'[c] = Touched(c)
  BY <1>1, <1>2
<1>4. key' \in 0..MaxChanges
  BY <1>1, ChannelAssumption DEF ChannelInv, ChannelTyped
<1>5. NoEdit \in Edits /\ NoEdit.kind # "channel"
  BY DEF Edits, NoEdit
<1>6. request' \in [Editors -> Edits] /\ \A e \in Editors : request'[e].kind # "channel"
  BY <1>1, <1>5
<1>7. ChannelTyped'
  BY <1>1, <1>3, <1>4, <1>6 DEF ChannelInv, ChannelTyped
<1>8. ASSUME NEW e \in Editors, NEW c \in Channels
      PROVE  Told(shown[e][c], Touched(c), key')
  <2>1. Told(shown[e][c], channel[c], key)
    BY DEF ChannelInv
  <2>2. shown[e][c].rev \in Nat /\ channel[c].rev \in Nat
    BY DEF ChannelInv, ChannelTyped, Views, Row
  <2>3. QED  BY <1>2, <2>1, <2>2 DEF Told
<1>9. shown' = shown
  BY <1>1
<1>10. QED  BY <1>2, <1>3, <1>6, <1>7, <1>8, <1>9 DEF ChannelInv

\* A step of a rule, of the quiet hours, or the end of a request.
LEMMA OtherStep ==
  ASSUME ChannelInv, channel' = channel, key' = key, shown' = shown,
         rule' \in [Rules -> RuleRows], quiet' \in Settings5, request' \in [Editors -> Edits],
         \A e \in Editors : request'[e] = request[e] \/ request'[e].kind # "channel"
  PROVE  ChannelInv'
<1>1. ChannelTyped'
  BY DEF ChannelInv, ChannelTyped
<1>2. \A e \in Editors : request'[e].kind = "channel" =>
         Based(request'[e], shown[e][request'[e].c], channel[request'[e].c], key)
  BY DEF ChannelInv
<1>3. QED  BY <1>1, <1>2 DEF ChannelInv

LEMMA RuleStep ==
  ASSUME ChannelInv, RuleNext
  PROVE  ChannelInv'
<1>1. rule \in [Rules -> RuleRows] /\ quiet \in Settings5 /\ request \in [Editors -> Edits]
  BY DEF ChannelInv, ChannelTyped
<1>2. NoEdit \in Edits /\ NoEdit.kind # "channel"
  BY DEF Edits, NoEdit
<1>3. ASSUME NEW e \in Editors, NEW x \in Rules, NEW to \in SUBSET Channels, NEW on \in BOOLEAN,
             CreateRule(e, x, to, on) \/ PatchRule(e, x, to, on)
      PROVE  ChannelInv'
  <2>1. \A st \in {"on", "off"} : [st |-> st, to |-> to] \in RuleRows
    BY DEF RuleRows
  <2>2. PICK st \in {"on", "off"} : rule' = [rule EXCEPT ![x] = [st |-> st, to |-> to]]
    BY <1>3 DEF CreateRule, PatchRule
  <2>3. rule' \in [Rules -> RuleRows]
    BY <1>1, <2>1, <2>2
  <2>4. PICK q : q = [kind |-> "rule", x |-> x]
    OBVIOUS
  <2>5. q \in Edits /\ q.kind # "channel"
    BY <2>4 DEF Edits, RuleEdits
  <2>6. \/ request' = request \/ request' = [request EXCEPT ![e] = NoEdit]
        \/ request' = [request EXCEPT ![e] = q]
    BY <1>3, <2>4 DEF CreateRule, PatchRule
  <2>7. /\ request' \in [Editors -> Edits]
        /\ \A d \in Editors : request'[d] = request[d] \/ request'[d].kind # "channel"
    BY <1>1, <1>2, <2>5, <2>6, RequestSet
  <2>8. UNCHANGED <<channel, quiet, key, shown>>
    BY <1>3 DEF CreateRule, PatchRule
  <2>9. QED  BY <1>1, <2>3, <2>7, <2>8, OtherStep
<1>4. ASSUME NEW e \in Editors, NEW x \in Rules, DeleteRule(e, x)
      PROVE  ChannelInv'
  <2>1. [st |-> "deleted", to |-> {}] \in RuleRows
    BY DEF RuleRows
  <2>2. rule' \in [Rules -> RuleRows]
    BY <1>1, <1>4, <2>1 DEF DeleteRule
  <2>3. UNCHANGED <<channel, quiet, key, shown, request>>
    BY <1>4 DEF DeleteRule
  <2>4. QED  BY <1>1, <2>2, <2>3, OtherStep
<1>5. ASSUME NEW e \in Editors, TurnRuleOff(e)
      PROVE  ChannelInv'
  <2>1. request[e] \in RuleEdits
    BY <1>1, <1>5, EditKinds DEF TurnRuleOff
  <2>2. PICK x \in Rules : x = request[e].x
    BY <2>1 DEF RuleEdits
  <2>3. PICK r \in RuleRows : r = rule[x]
    BY <1>1
  <2>4. PICK st \in {"none", "on", "off", "deleted"} : st = IF r.st = "deleted" THEN r.st ELSE "off"
    BY DEF RuleRows
  <2>5. [r EXCEPT !.st = st] \in RuleRows
    BY SMT DEF RuleRows
  <2>6. rule' = [rule EXCEPT ![x] = [r EXCEPT !.st = st]]
    BY <1>1, <1>5, <2>2, <2>3, <2>4 DEF TurnRuleOff
  <2>7. rule' \in [Rules -> RuleRows]
    BY <1>1, <2>5, <2>6
  <2>8. UNCHANGED <<channel, quiet, key, shown>> /\ Done(e)
    BY <1>5 DEF TurnRuleOff
  <2>9. QED  BY <1>1, <2>7, <2>8, DoneOK, OtherStep
<1>6. ASSUME NEW e \in Editors, NEW merged \in Settings5, ReadSettings(e, merged)
      PROVE  ChannelInv'
  <2>1. PICK q : q = [kind |-> "settings", whole |-> merged]
    OBVIOUS
  <2>2. q \in Edits /\ q.kind # "channel"
    BY <2>1 DEF Edits, QuietEdits
  <2>3. request' = [request EXCEPT ![e] = q] /\ UNCHANGED <<channel, rule, quiet, key, shown>>
    BY <1>6, <2>1 DEF ReadSettings
  <2>4. /\ request' \in [Editors -> Edits]
        /\ \A d \in Editors : request'[d] = request[d] \/ request'[d].kind # "channel"
    BY <2>2, <2>3, RequestSet
  <2>5. QED  BY <1>1, <2>3, <2>4, OtherStep
<1>7. ASSUME NEW hours \in BOOLEAN PROVE [quiet EXCEPT !.hours = hours] \in Settings5
  BY <1>1, SMT DEF Settings5
<1>8. ASSUME NEW window \in {5, 10} PROVE [quiet EXCEPT !.window = window] \in Settings5
  BY <1>1, SMT DEF Settings5
<1>9. ASSUME NEW e \in Editors, WriteSettings(e)
      PROVE  ChannelInv'
  <2>1. request[e] \in QuietEdits
    BY <1>1, <1>9, EditKinds DEF WriteSettings
  <2>2. quiet' \in Settings5
    BY <1>9, <2>1 DEF WriteSettings, QuietEdits
  <2>3. UNCHANGED <<channel, rule, key, shown>> /\ Done(e)
    BY <1>9 DEF WriteSettings
  <2>4. QED  BY <1>1, <2>2, <2>3, DoneOK, OtherStep
<1>10. ASSUME NEW e \in Editors, WorkerDies(e)
       PROVE  ChannelInv'
  BY <1>1, <1>10, DoneOK, OtherStep DEF WorkerDies
<1>11. QED
  BY <1>3, <1>4, <1>5, <1>6, <1>7, <1>8, <1>9, <1>10 DEF RuleNext

LEMMA ChannelStart == ASSUME ChannelInit PROVE ChannelInv
<1>1. NoRow \in Row /\ NoRow.rev \in 1..MaxChanges /\ NoRow.st = "none"
  BY NoRowOK, ChannelAssumption DEF NoRow
<1>2. NoEdit \in Edits /\ NoEdit.kind # "channel"
  BY DEF Edits, NoEdit
<1>3. NoView \in Views /\ NoView.rev = 0
  BY ChannelAssumption DEF NoView, Views
<1>4. [st |-> "none", to |-> {}] \in RuleRows
  BY DEF RuleRows
<1>5. [hours |-> FALSE, window |-> 5] \in Settings5
  BY DEF Settings5
<1>6. key \in 0..MaxChanges
  BY ChannelAssumption DEF ChannelInit
<1>7. ChannelTyped
  BY <1>1, <1>2, <1>3, <1>4, <1>5, <1>6 DEF ChannelInit, ChannelTyped
<1>8. \A e \in Editors, c \in Channels : shown[e][c] = NoView /\ channel[c] = NoRow /\ request[e] = NoEdit
  BY DEF ChannelInit
<1>9. Told(NoView, NoRow, key)
  BY <1>1, <1>3 DEF Told
<1>10. QED  BY <1>1, <1>2, <1>7, <1>8, <1>9 DEF ChannelInv, ChannelInit

LEMMA ChannelStep == ASSUME ChannelInv, [ChannelNext \/ RuleNext]_channelVars PROVE ChannelInv'
<1>1. ASSUME NEW e \in Editors, NEW c \in Channels, NEW s \in Secrets, CreateChannel(e, c, s)
      PROVE  ChannelInv'
  BY <1>1, CreateStep
<1>2. ASSUME NEW e \in Editors, NEW c \in Channels, NEW sent \in Secrets \union {shown[e][c].text},
             ReadChannel(e, c, sent)
      PROVE  ChannelInv'
  BY <1>2, ReadStep
<1>3. ASSUME NEW e \in Editors, NEW c \in Channels, NEW on \in BOOLEAN,
             EnableChannel(e, c, on) \/ TestChannel(e, c, on)
      PROVE  ChannelInv'
  BY <1>3, EnableStep
<1>4. ASSUME NEW e \in Editors, NEW c \in Channels, DeleteChannel(e, c)
      PROVE  ChannelInv'
  BY <1>4, DeleteStep
<1>5. ASSUME NEW e \in Editors, ListChannels(e) \/ WriteChannel(e) \/ WorkerDies(e)
      PROVE  ChannelInv'
  <2>1. CASE ListChannels(e) \/ WriteChannel(e)
    BY <2>1, ListStep, WriteStep
  <2>2. CASE WorkerDies(e)
    <3>1. rule \in [Rules -> RuleRows] /\ quiet \in Settings5
      BY DEF ChannelInv, ChannelTyped
    <3>2. QED  BY <2>2, <3>1, DoneOK, OtherStep DEF WorkerDies
  <2>3. QED  BY <1>5, <2>1, <2>2
<1>6. CASE ChangeKey
  BY <1>6, KeyStep
<1>7. CASE RuleNext
  BY <1>7, RuleStep
<1>8. CASE UNCHANGED channelVars
  <2>1. /\ channel' = channel /\ rule' = rule /\ quiet' = quiet /\ key' = key
        /\ shown' = shown /\ request' = request
    BY <1>8 DEF channelVars
  <2>2. QED  BY <2>1 DEF ChannelInv, ChannelTyped
<1>9. QED  BY <1>1, <1>2, <1>3, <1>4, <1>5, <1>6, <1>7, <1>8 DEF ChannelNext

LEMMA ChannelInvHolds == ChannelSpec => []ChannelInv
  BY ChannelStart, ChannelStep, PTL DEF ChannelSpec

LEMMA ChannelInvTypes == ASSUME ChannelInv PROVE ChannelTypeOK
<1>1. ASSUME NEW e \in Editors
      PROVE  \/ request[e] = NoEdit
             \/ request[e].kind = "channel" /\ request[e].merged \in Secrets \union Masks \union {Missing}
             \/ request[e].kind = "rule" /\ request[e].x \in Rules
             \/ request[e].kind = "settings" /\ request[e].whole \in [hours: BOOLEAN, window: {5, 10}]
  <2>1. request[e] \in {NoEdit} \/ request[e] \in ChannelEdits \/ request[e] \in RuleEdits \/ request[e] \in QuietEdits
    BY DEF ChannelInv, ChannelTyped, Edits
  <2>2. CASE request[e] \in ChannelEdits
    BY <2>2 DEF ChannelEdits, HeldSecrets
  <2>3. CASE request[e] \in RuleEdits
    BY <2>3 DEF RuleEdits
  <2>4. CASE request[e] \in QuietEdits
    BY <2>4 DEF QuietEdits, Settings5
  <2>5. QED  BY <2>1, <2>2, <2>3, <2>4
<1>2. QED  BY <1>1 DEF ChannelInv, ChannelTyped, ChannelTypeOK, RuleRows, Settings5, Views

\* What EchoKeepsSecret says of one step.
EchoStep ==
  \A c \in Channels :
    (Present(c) /\ channel'[c].st = "present" /\ key' = key /\ Stored(c)' # Stored(c))
      => \E e \in Editors :
           /\ request[e].kind = "channel" /\ request[e].c = c
           /\ request[e].sent = shown[e][c].text => shown[e][c].rev # channel[c].rev

LEMMA EchoSame == ASSUME \A c \in Channels : channel'[c].secret = channel[c].secret /\ channel'[c].key = channel[c].key
                  PROVE  EchoStep
  BY DEF EchoStep, Stored

LEMMA EchoHolds == ASSUME ChannelInv, [ChannelNext \/ RuleNext]_channelVars PROVE EchoStep
<1>1. channel \in [Channels -> Row]
  BY DEF ChannelInv, ChannelTyped
<1>2. CASE channel' = channel
  BY <1>2 DEF EchoStep, Stored
<1>3. ASSUME NEW e \in Editors, NEW c \in Channels, NEW s \in Secrets, CreateChannel(e, c, s)
      PROVE  EchoStep
  <2>1. ~Present(c) /\ \A d \in Channels : d # c => channel'[d] = channel[d]
    BY <1>1, <1>3 DEF CreateChannel, Present
  <2>2. QED  BY <2>1 DEF EchoStep, Stored
<1>4. ASSUME NEW e \in Editors, NEW c \in Channels, NEW on \in BOOLEAN,
             EnableChannel(e, c, on) \/ TestChannel(e, c, on)
      PROVE  EchoStep
  <2>1. \A d \in Channels : channel'[d].secret = channel[d].secret /\ channel'[d].key = channel[d].key
    BY <1>1, <1>4 DEF EnableChannel, TestChannel, Row
  <2>2. QED  BY <2>1, EchoSame
<1>5. ASSUME NEW e \in Editors, NEW c \in Channels, DeleteChannel(e, c)
      PROVE  EchoStep
  <2>1. channel'[c].st # "present" /\ \A d \in Channels : d # c => channel'[d] = channel[d]
    BY <1>1, <1>5 DEF DeleteChannel, NoRow
  <2>2. QED  BY <2>1 DEF EchoStep, Stored
<1>6. ASSUME NEW e \in Editors, WriteChannel(e)
      PROVE  EchoStep
  <2> SUFFICES ASSUME NEW c \in Channels, Present(c), key' = key, Stored(c)' # Stored(c)
               PROVE  /\ request[e].kind = "channel" /\ request[e].c = c
                      /\ request[e].sent = shown[e][c].text => shown[e][c].rev # channel[c].rev
    BY DEF EchoStep
  <2>1. request[e].kind = "channel"
    BY <1>6 DEF WriteChannel
  <2>2. PICK d : d = request[e].c
    OBVIOUS
  <2>3. \/ channel' = channel
        \/ channel' = [channel EXCEPT ![d].secret = request[e].merged, ![d].key = key,
                         ![d].rev = IF Stored(d) = request[e].merged THEN @ ELSE @ + 1]
    BY <1>6, <2>2 DEF WriteChannel
  <2>4. d = c
    <3>1. d # c => channel'[c] = channel[c]
      BY <1>1, <2>3
    <3>2. channel'[c] = channel[c] => Stored(c)' = Stored(c)
      BY DEF Stored
    <3>3. QED  BY <3>1, <3>2
  <2>5. Stored(c)' = request[e].merged
    <3>1. channel' # channel
      BY DEF Stored
    <3>2. channel'[c].secret = request[e].merged /\ channel'[c].key = key
      BY <1>1, <2>3, <2>4, <3>1 DEF Row
    <3>3. QED  BY <3>2 DEF Stored
  <2>6. Based(request[e], shown[e][c], channel[c], key)
    BY <2>1, <2>2, <2>4 DEF ChannelInv
  <2>7. Kept(channel[c], key) = Stored(c) /\ channel[c].st = "present"
    BY DEF Kept, Stored, Present
  <2>8. QED  BY <2>1, <2>2, <2>4, <2>5, <2>6, <2>7 DEF Based
<1>7. CASE ChangeKey
  <2>1. key' # key
    BY <1>7 DEF ChangeKey, ChannelInv, ChannelTyped
  <2>2. QED  BY <2>1 DEF EchoStep
<1>8. ASSUME NEW e \in Editors, NEW c \in Channels, NEW sent, ReadChannel(e, c, sent)
      PROVE  channel' = channel
  BY <1>8 DEF ReadChannel
<1>9. ASSUME NEW e \in Editors, ListChannels(e) \/ WorkerDies(e)
      PROVE  channel' = channel
  BY <1>9 DEF ListChannels, WorkerDies
<1>10. CASE RuleNext
  <2>1. channel' = channel
    BY <1>10 DEF RuleNext, CreateRule, PatchRule, DeleteRule, TurnRuleOff, ReadSettings, WriteSettings, WorkerDies
  <2>2. QED  BY <1>2, <2>1
<1>11. CASE UNCHANGED channelVars
  BY <1>2, <1>11 DEF channelVars
<1>12. QED
  BY <1>2, <1>3, <1>4, <1>5, <1>6, <1>7, <1>8, <1>9, <1>10, <1>11 DEF ChannelNext

\* The types of channels, rules, settings and of the edits under way.
THEOREM ChannelTypes == ChannelSpec => []ChannelTypeOK
  BY ChannelInvHolds, ChannelInvTypes, PTL

\* An edit that sends back the mask it was shown leaves the secret as it is, for any secrets,
\* masks and number of edits at once (notifications/store.py).
THEOREM ChannelEchoKeepsSecret == ChannelSpec => EchoKeepsSecret
<1>1. ChannelInv /\ [ChannelNext \/ RuleNext]_channelVars => [EchoStep]_channelVars
  BY EchoHolds
<1>2. EchoKeepsSecret <=> [][EchoStep]_channelVars
  BY DEF EchoKeepsSecret, EchoStep
<1>3. QED  BY <1>1, <1>2, ChannelInvHolds, PTL DEF ChannelSpec

-----------------------------------------------------------------------------
(* The guide (onboarding/status.py).                                       *)

GuideRows == [skipped : SUBSET STEP_IDS, manual : SUBSET STEP_IDS, dismissed : BOOLEAN, stamped : BOOLEAN]
Guides == [answer : {"none", "forbidden", "invalid", "open", "completed"}, completed : {0, 1}]

\* What the API answered and wrote of a completed guide rests on the stamp.
GuideInv ==
  /\ world \in Worlds /\ row \in GuideRows /\ row.skipped \cap row.manual = {} /\ guide \in Guides
  /\ guide.answer = "completed" => row.stamped
  /\ guide.completed = 1 => row.stamped

\* What GuideStaysClosed says of one step.
GuideStep ==
  /\ guide'.answer = "completed" => row'.stamped
  /\ row.stamped => row'.stamped /\ (guide' # guide => guide'.answer # "open")
  /\ guide'.completed # guide.completed => AllSettled(row') /\ ~row.stamped

\* Settled or not: the stamp and the dismissal make no difference.
LEMMA SettledStamped ==
  ASSUME NEW r, NEW q, q.skipped = r.skipped, q.manual = r.manual
  PROVE  AllSettled(q) = AllSettled(r)
  BY DEF AllSettled, StatusOf

LEMMA AnsweredOK ==
  ASSUME GuideInv, NEW a \in {"none", "forbidden", "invalid", "open", "completed"},
         guide' = [guide EXCEPT !.answer = a]
  PROVE  guide' \in Guides /\ guide'.answer = a /\ guide'.completed = guide.completed
<1>1. PICK g \in Guides : g = guide
  BY DEF GuideInv
<1>2. [g EXCEPT !.answer = a] \in Guides /\ [g EXCEPT !.answer = a].answer = a
  BY SMT DEF Guides
<1>3. [g EXCEPT !.answer = a].completed = g.completed
  BY SMT DEF Guides
<1>4. QED  BY <1>1, <1>2, <1>3

\* The computation of the answer, from a row that is stamped as the present one is.
LEMMA ComputeStep ==
  ASSUME GuideInv, NEW r \in GuideRows, r.skipped \cap r.manual = {}, r.stamped = row.stamped,
         ComputeStatus(r), world' = world
  PROVE  GuideInv' /\ GuideStep
<1>1. CASE AllSettled(r) /\ ~r.stamped
  <2>1. row' = [r EXCEPT !.stamped = TRUE]
    BY <1>1 DEF ComputeStatus
  <2>2. /\ row' \in GuideRows /\ row'.skipped = r.skipped /\ row'.manual = r.manual
    BY <2>1 DEF GuideRows
  <2>3. row'.stamped
    BY <2>1 DEF GuideRows
  <2>4. AllSettled(row')
    BY <2>2, <1>1, SettledStamped
  <2>5. ~row.stamped /\ guide.completed \in {0, 1} /\ guide.completed # 1
    BY <1>1 DEF GuideInv, Guides
  <2>6. guide' \in Guides
    <3>1. guide.completed + 1 \in {0, 1}
      BY <2>5
    <3>2. [answer |-> "completed", completed |-> guide.completed + 1] \in Guides
      BY <3>1 DEF Guides
    <3>3. QED  BY <1>1, <3>2 DEF ComputeStatus, GuideInv
  <2>7. GuideInv'
    BY <2>2, <2>3, <2>6 DEF GuideInv
  <2>8. GuideStep
    BY <2>3, <2>4, <2>5 DEF GuideStep
  <2>9. QED  BY <2>7, <2>8
<1>2. CASE ~(AllSettled(r) /\ ~r.stamped)
  <2>1. row' = r /\ guide' = [guide EXCEPT !.answer = Answered(r)]
    BY <1>2 DEF ComputeStatus
  <2>2. Answered(r) \in {"open", "completed"}
    BY DEF Answered
  <2>3. PICK a \in {"none", "forbidden", "invalid", "open", "completed"} : a = Answered(r)
    BY <2>2
  <2>4. guide' \in Guides /\ guide'.answer = a /\ guide'.completed = guide.completed
    BY <2>1, <2>3, AnsweredOK
  <2>5. a = "completed" => r.stamped
    BY <1>2, <2>3 DEF Answered
  <2>6. r.stamped => a # "open"
    BY <2>3 DEF Answered
  <2>7. GuideInv'
    BY <2>1, <2>4, <2>5 DEF GuideInv
  <2>8. GuideStep
    BY <2>1, <2>4, <2>5, <2>6 DEF GuideStep
  <2>9. QED  BY <2>7, <2>8
<1>3. QED  BY <1>1, <1>2

\* A request that is refused, and what happens beside the guide.
LEMMA RefusedStep ==
  ASSUME GuideInv, NEW a \in {"forbidden", "invalid"}, guide' = [guide EXCEPT !.answer = a],
         row' = row, world' = world
  PROVE  GuideInv' /\ GuideStep
<1>1. guide' \in Guides /\ guide'.answer = a /\ guide'.completed = guide.completed
  BY AnsweredOK
<1>2. a # "completed" /\ a # "open"
  OBVIOUS
<1>3. QED  BY <1>1, <1>2 DEF GuideInv, GuideStep

LEMMA BesideStep ==
  ASSUME GuideInv, world' \in Worlds, row' = row, guide' = guide
  PROVE  GuideInv' /\ GuideStep
  BY DEF GuideInv, GuideStep

LEMMA MarkedOK ==
  ASSUME NEW r \in GuideRows, r.skipped \cap r.manual = {}, NEW step \in STEP_IDS, NEW action
  PROVE  /\ Marked(r, step, action) \in GuideRows
         /\ Marked(r, step, action).skipped \cap Marked(r, step, action).manual = {}
         /\ Marked(r, step, action).stamped = r.stamped
<1>1. CASE action = "skip"
  <2>1. PICK m : m = [r EXCEPT !.skipped = @ \cup {step}, !.manual = @ \ {step}]
    OBVIOUS
  <2>2. /\ m \in GuideRows /\ m.skipped = r.skipped \cup {step} /\ m.manual = r.manual \ {step}
    BY <2>1 DEF GuideRows
  <2>3. m.stamped = r.stamped
    BY <2>1 DEF GuideRows
  <2>4. m.skipped \cap m.manual = {}
    BY <2>2
  <2>5. QED  BY <1>1, <2>1, <2>2, <2>3, <2>4 DEF Marked
<1>2. CASE action # "skip"
  <2>1. PICK m : m = [r EXCEPT !.manual = @ \cup {step}, !.skipped = @ \ {step}]
    OBVIOUS
  <2>2. /\ m \in GuideRows /\ m.manual = r.manual \cup {step} /\ m.skipped = r.skipped \ {step}
    BY <2>1 DEF GuideRows
  <2>3. m.stamped = r.stamped
    BY <2>1 DEF GuideRows
  <2>4. m.skipped \cap m.manual = {}
    BY <2>2
  <2>5. QED  BY <1>2, <2>1, <2>2, <2>3, <2>4 DEF Marked
<1>3. QED  BY <1>1, <1>2

LEMMA PatchStep ==
  ASSUME GuideInv, NEW p, NEW step \in STEP_IDS \cup {"none"}, NEW action, NEW dismiss \in {"yes", "no", "none"},
         PatchStatus(p, step, action, dismiss)
  PROVE  GuideInv' /\ GuideStep
<1>1. PICK m : m = IF step = "none" THEN row ELSE Marked(row, step, action)
  OBVIOUS
<1>2. m \in GuideRows /\ m.skipped \cap m.manual = {} /\ m.stamped = row.stamped
  BY <1>1, MarkedOK DEF GuideInv
<1>3. PICK d \in BOOLEAN : d = IF dismiss = "none" THEN m.dismissed ELSE dismiss = "yes"
  BY <1>2 DEF GuideRows
<1>4. PICK r : r = [m EXCEPT !.dismissed = d]
  OBVIOUS
<1>5. r \in GuideRows /\ r.skipped = m.skipped /\ r.manual = m.manual
  BY <1>2, <1>4 DEF GuideRows
<1>6. r.stamped = m.stamped
  BY <1>2, <1>4 DEF GuideRows
<1>7. ComputeStatus(r) /\ world' = world
  BY <1>1, <1>3, <1>4 DEF PatchStatus
<1>8. QED  BY <1>2, <1>5, <1>6, <1>7, ComputeStep

LEMMA GuideNextOK == ASSUME GuideInv, [OnboardingNext]_guideVars PROVE GuideInv' /\ GuideStep
<1>1. ASSUME NEW c \in {"none", "untested", "tested"}, ChangeConnection(c)
      PROVE  GuideInv' /\ GuideStep
  <2>1. world' \in Worlds
    BY <1>1 DEF ChangeConnection, Worlds, GuideInv
  <2>2. QED  BY <1>1, <2>1, BesideStep DEF ChangeConnection
<1>2. ASSUME NEW step \in STEP_IDS, LogActivity(step)
      PROVE  GuideInv' /\ GuideStep
  <2>1. world' \in Worlds
    BY <1>2 DEF LogActivity, Worlds, GuideInv
  <2>2. QED  BY <1>2, <2>1, BesideStep DEF LogActivity
<1>3. ASSUME NEW p \in GuidePeople, Forbid(p) \/ RefusePatch(p)
      PROVE  GuideInv' /\ GuideStep
  <2>1. PICK a \in {"forbidden", "invalid"} : guide' = [guide EXCEPT !.answer = a]
    BY <1>3 DEF Forbid, RefusePatch
  <2>2. QED  BY <1>3, <2>1, RefusedStep DEF Forbid, RefusePatch
<1>4. ASSUME NEW p \in GuidePeople, GetStatus(p)
      PROVE  GuideInv' /\ GuideStep
  <2>1. row \in GuideRows /\ row.skipped \cap row.manual = {} /\ ComputeStatus(row) /\ world' = world
    BY <1>4 DEF GetStatus, GuideInv
  <2>2. QED  BY <2>1, ComputeStep
<1>5. ASSUME NEW p \in GuidePeople, NEW step \in STEP_IDS \cup {"none"}, NEW action,
             NEW dismiss \in {"yes", "no", "none"}, PatchStatus(p, step, action, dismiss)
      PROVE  GuideInv' /\ GuideStep
  BY <1>5, PatchStep
<1>6. CASE UNCHANGED guideVars
  BY <1>6, BesideStep DEF guideVars, GuideInv
<1>7. QED
  <2> USE <1>1, <1>2, <1>3, <1>4, <1>5, <1>6
  <2>1. CASE \E c \in {"none", "untested", "tested"} : ChangeConnection(c)
    BY <2>1
  <2>2. CASE \E step \in STEP_IDS \ {"connect_exchange", "review"} : LogActivity(step)
    BY <2>2
  <2>3. CASE \E p \in GuidePeople : Forbid(p) \/ GetStatus(p) \/ RefusePatch(p)
    BY <2>3
  <2>4. CASE \E p \in GuidePeople, dismiss \in {"yes", "no", "none"} : PatchStatus(p, "none", "none", dismiss)
    BY <2>4
  <2>5. CASE \E p \in GuidePeople, step \in STEP_IDS, action \in {"skip", "complete"},
                dismiss \in {"yes", "no", "none"} : PatchStatus(p, step, action, dismiss)
    BY <2>5
  <2>6. QED  BY <2>1, <2>2, <2>3, <2>4, <2>5 DEF OnboardingNext

LEMMA GuideStart == ASSUME OnboardingInit PROVE GuideInv
<1>1. world \in Worlds /\ row \in GuideRows /\ guide \in Guides
  BY DEF OnboardingInit, Worlds, GuideRows, Guides
<1>2. row.skipped \cap row.manual = {} /\ guide.answer # "completed" /\ guide.completed # 1
  BY DEF OnboardingInit
<1>3. QED  BY <1>1, <1>2 DEF GuideInv

LEMMA GuideInvHolds == OnboardingSpec => []GuideInv
  BY GuideStart, GuideNextOK, PTL DEF OnboardingSpec

\* The types of the guide's row and of its answer.
THEOREM GuideTypes == OnboardingSpec => []OnboardingTypeOK
<1>1. GuideInv => OnboardingTypeOK
  BY DEF GuideInv, OnboardingTypeOK, GuideRows, Guides
<1>2. QED  BY <1>1, GuideInvHolds, PTL

\* A guide that was told to be completed is told so at every later visit (onboarding/status.py).
THEOREM GuideStays == OnboardingSpec => GuideStaysClosed
<1>1. GuideInv /\ [OnboardingNext]_guideVars => [GuideStep]_guideVars
  BY GuideNextOK
<1>2. GuideStaysClosed <=> [][GuideStep]_guideVars
  BY DEF GuideStaysClosed, GuideStep
<1>3. QED  BY <1>1, <1>2, GuideInvHolds, PTL DEF OnboardingSpec

-----------------------------------------------------------------------------
(* The configuration (api/routes/config.py, risk.py).                      *)

GivenValues  == Values \cup {"absent"}
States == [file : [FileKeys -> GivenValues], over : [EnvKeys -> GivenValues], memory : [ParamKeys -> Values]]
Mishaps == [restarts : 0..MaxRestarts, unlogged : SUBSET ConfigKeys]

LEMMA PatchOK ==
  ASSUME NEW K, NEW V, Values \subseteq V, NEW f \in [K -> V], NEW p \in Patches(K)
  PROVE  Set(f, p) \in [K -> V]
<1>1. PICK S \in SUBSET K : p \in [S -> Values]
  BY DEF Patches
<1>2. \A k \in K : (IF k \in S THEN p[k] ELSE f[k]) \in V
  BY <1>1
<1>3. Set(f, p) = [k \in K |-> IF k \in S THEN p[k] ELSE f[k]]
  BY <1>1 DEF Set
<1>4. QED  BY <1>2, <1>3

\* What the API shows of each key.
LEMMA Shown ==
  ASSUME NEW c \in States, NEW k \in ConfigKeys
  PROVE  /\ k \in FileKeys => Effective(c)[k] = Value(k, c.file[k])
         /\ k \in EnvKeys => Effective(c)[k] = Value(k, c.over[k])
         /\ k \in ParamKeys => Effective(c)[k] = c.memory[k]
         /\ Effective(c)[k] \in Values
<1>1. Effective(c)[k] = CASE k \in FileKeys -> Value(k, c.file[k])
                          [] k \in EnvKeys -> Value(k, c.over[k])
                          [] OTHER -> c.memory[k]
  BY Zenon DEF Effective
<1>2. c.file \in [FileKeys -> GivenValues] /\ c.over \in [EnvKeys -> GivenValues] /\ c.memory \in [ParamKeys -> Values]
  BY DEF States
<1>3. \A x \in GivenValues : Value(k, x) \in Values
  BY ConfigAssumption DEF GivenValues, Value
<1>4. CASE k \in FileKeys
  <2>1. k \notin EnvKeys /\ k \notin ParamKeys
    BY <1>4, ConfigAssumption
  <2>2. Effective(c)[k] = Value(k, c.file[k])
    BY <1>1, <1>4, <2>1, SMT
  <2>3. QED  BY <1>2, <1>3, <1>4, <2>1, <2>2
<1>5. CASE k \in EnvKeys
  <2>1. k \notin FileKeys /\ k \notin ParamKeys
    BY <1>5, ConfigAssumption
  <2>2. Effective(c)[k] = Value(k, c.over[k])
    BY <1>1, <1>5, <2>1, SMT
  <2>3. QED  BY <1>2, <1>3, <1>5, <2>1, <2>2
<1>6. CASE k \in ParamKeys
  <2>1. k \notin FileKeys /\ k \notin EnvKeys
    BY <1>6, ConfigAssumption
  <2>2. Effective(c)[k] = c.memory[k]
    BY <1>1, <1>6, <2>1, SMT
  <2>3. QED  BY <1>2, <1>6, <2>1, <2>2
<1>7. QED  BY <1>4, <1>5, <1>6 DEF ConfigKeys

ConfigInv == ConfigTypeOK /\ DiffsExplainConfig

\* A change is in force, whatever part of the configuration it changes, and logged or not.
LEMMA InForceStep ==
  ASSUME ConfigInv, NEW after \in States, InForce(config, after)
  PROVE  ConfigInv'
<1> DEFINE keys == Changed(config, after)
<1>1. config \in States /\ diffs \in [ConfigKeys -> GivenValues] /\ mishaps \in Mishaps
  BY DEF ConfigInv, ConfigTypeOK, States, GivenValues, Mishaps
<1>2. \A k \in ConfigKeys : Effective(config)[k] \in Values /\ Effective(after)[k] \in Values
  BY <1>1, Shown
<1>3. keys \subseteq ConfigKeys /\ \A k \in ConfigKeys : k \notin keys => Effective(after)[k] = Effective(config)[k]
  BY DEF Changed
<1>4. /\ config' = after
      /\ \/ /\ diffs' = [k \in ConfigKeys |-> IF k \in keys THEN Effective(after)[k] ELSE diffs[k]]
            /\ mishaps' = [mishaps EXCEPT !.unlogged = mishaps.unlogged \ keys]
         \/ /\ mishaps' = [mishaps EXCEPT !.unlogged = mishaps.unlogged \cup keys]
            /\ diffs' = diffs
  BY DEF InForce
<1> HIDE DEF keys
<1>5. \A k \in ConfigKeys \ mishaps.unlogged : Effective(config)[k] = Value(k, diffs[k])
  BY DEF ConfigInv, DiffsExplainConfig
<1>6. CASE /\ diffs' = [k \in ConfigKeys |-> IF k \in keys THEN Effective(after)[k] ELSE diffs[k]]
           /\ mishaps' = [mishaps EXCEPT !.unlogged = mishaps.unlogged \ keys]
  <2>1. mishaps' \in Mishaps /\ mishaps'.unlogged = mishaps.unlogged \ keys
    BY <1>1, <1>3, <1>6 DEF Mishaps
  <2>2. diffs' \in [ConfigKeys -> GivenValues]
    <3>1. \A k \in ConfigKeys : (IF k \in keys THEN Effective(after)[k] ELSE diffs[k]) \in GivenValues
      BY <1>1, <1>2 DEF GivenValues
    <3>2. QED  BY <1>6, <3>1
  <2>3. ASSUME NEW k \in ConfigKeys \ mishaps'.unlogged
        PROVE  Effective(config')[k] = Value(k, diffs'[k])
    <3>1. CASE k \in keys
      <4>1. diffs'[k] = Effective(after)[k] /\ Effective(after)[k] \in Values
        BY <1>2, <1>6, <3>1
      <4>2. \A v \in Values : Value(k, v) = v
        BY ConfigAssumption DEF Value
      <4>3. QED  BY <1>4, <4>1, <4>2
    <3>2. CASE k \notin keys
      BY <1>3, <1>4, <1>5, <1>6, <2>1, <3>2
    <3>3. QED  BY <3>1, <3>2
  <2>4. ConfigTypeOK'
    BY <1>4, <2>1, <2>2 DEF ConfigTypeOK, States, GivenValues, Mishaps
  <2>5. QED  BY <2>3, <2>4 DEF ConfigInv, DiffsExplainConfig
<1>7. CASE /\ mishaps' = [mishaps EXCEPT !.unlogged = mishaps.unlogged \cup keys]
           /\ diffs' = diffs
  <2>1. mishaps' \in Mishaps /\ mishaps'.unlogged = mishaps.unlogged \cup keys
    BY <1>1, <1>3, <1>7 DEF Mishaps
  <2>2. \A k \in ConfigKeys \ mishaps'.unlogged : Effective(config')[k] = Value(k, diffs'[k])
    BY <1>3, <1>4, <1>5, <1>7, <2>1
  <2>3. ConfigTypeOK'
    BY <1>1, <1>4, <1>7, <2>1 DEF ConfigTypeOK, States, GivenValues, Mishaps
  <2>4. QED  BY <2>2, <2>3 DEF ConfigInv, DiffsExplainConfig
<1>8. QED  BY <1>4, <1>6, <1>7

LEMMA SameConfig ==
  ASSUME ConfigInv, UNCHANGED configVars
  PROVE  ConfigInv'
  BY DEF configVars, ConfigInv, ConfigTypeOK, DiffsExplainConfig

LEMMA ConfigStep == ASSUME ConfigInv, [ConfigNext]_configVars PROVE ConfigInv'
<1>1. config \in States /\ diffs \in [ConfigKeys -> GivenValues] /\ mishaps \in Mishaps
  BY DEF ConfigInv, ConfigTypeOK, States, GivenValues, Mishaps
<1>2. /\ config.file \in [FileKeys -> GivenValues] /\ config.over \in [EnvKeys -> GivenValues]
      /\ config.memory \in [ParamKeys -> Values]
  BY <1>1 DEF States
<1>3. Values \subseteq GivenValues
  BY DEF GivenValues
<1>4. ASSUME NEW p \in Patches(FileKeys), NEW confirm \in BOOLEAN, PatchRisk(p, confirm)
      PROVE  ConfigInv'
  <2>1. CASE confirm
    <3>1. PICK f \in [FileKeys -> GivenValues] : f = Set(config.file, p)
      BY <1>2, <1>3, PatchOK
    <3>2. PICK c \in States : c = [config EXCEPT !.file = f]
      BY <1>1 DEF States
    <3>3. InForce(config, c)
      BY <1>4, <2>1, <3>1, <3>2 DEF PatchRisk
    <3>4. QED  BY <3>3, InForceStep
  <2>2. CASE ~confirm
    BY <1>4, <2>2, SameConfig DEF PatchRisk
  <2>3. QED  BY <2>1, <2>2
<1>5. ASSUME NEW rest \in [FileKeys -> GivenValues], CutRiskFile(rest)
      PROVE  ConfigInv'
  <2>1. PICK c \in States : c = [config EXCEPT !.file = rest]
    BY <1>1 DEF States
  <2>2. PICK keys : keys = Changed(config, c)
    OBVIOUS
  <2>3. config' = c /\ diffs' = diffs /\ mishaps' = [mishaps EXCEPT !.unlogged = mishaps.unlogged \cup keys]
    BY <1>5, <2>1, <2>2 DEF CutRiskFile
  <2>4. keys \subseteq ConfigKeys /\ \A k \in ConfigKeys : k \notin keys => Effective(c)[k] = Effective(config)[k]
    BY <2>2 DEF Changed
  <2>5. mishaps' \in Mishaps /\ mishaps'.unlogged = mishaps.unlogged \cup keys
    BY <1>1, <2>3, <2>4 DEF Mishaps
  <2>6. \A k \in ConfigKeys \ mishaps.unlogged : Effective(config)[k] = Value(k, diffs[k])
    BY DEF ConfigInv, DiffsExplainConfig
  <2>7. \A k \in ConfigKeys \ mishaps'.unlogged : Effective(config')[k] = Value(k, diffs'[k])
    BY <2>3, <2>4, <2>5, <2>6
  <2>8. ConfigTypeOK'
    BY <1>1, <2>3, <2>5 DEF ConfigTypeOK, States, GivenValues, Mishaps
  <2>9. QED  BY <2>7, <2>8 DEF ConfigInv, DiffsExplainConfig
<1>6. ASSUME NEW p \in Patches(EnvKeys), PatchConfig(p)
      PROVE  ConfigInv'
  <2>1. PICK f \in [EnvKeys -> GivenValues] : f = Set(config.over, p)
    BY <1>2, <1>3, PatchOK
  <2>2. PICK c \in States : c = [config EXCEPT !.over = f]
    BY <1>1 DEF States
  <2>3. InForce(config, c)
    BY <1>6, <2>1, <2>2 DEF PatchConfig
  <2>4. QED  BY <2>3, InForceStep
<1>7. ASSUME NEW p \in Patches(ParamKeys), PatchParams(p)
      PROVE  ConfigInv'
  <2>1. PICK f \in [ParamKeys -> Values] : f = Set(config.memory, p)
    BY <1>2, PatchOK
  <2>2. PICK c \in States : c = [config EXCEPT !.memory = f]
    BY <1>1 DEF States
  <2>3. InForce(config, c)
    BY <1>7, <2>1, <2>2 DEF PatchParams
  <2>4. QED  BY <2>3, InForceStep
<1>8. CASE RestartApi
  <2>1. /\ config' = [config EXCEPT !.over = Unsaid(EnvKeys), !.memory = [k \in ParamKeys |-> Initial]]
        /\ diffs' = [k \in ConfigKeys |-> IF k \in FileKeys THEN diffs[k] ELSE "absent"]
        /\ mishaps.restarts < MaxRestarts
        /\ mishaps' = [restarts |-> mishaps.restarts + 1, unlogged |-> mishaps.unlogged \cap FileKeys]
    BY <1>8 DEF RestartApi
  <2>2. PICK o \in [EnvKeys -> GivenValues] : o = Unsaid(EnvKeys)
    BY DEF Unsaid, GivenValues
  <2>3. PICK m \in [ParamKeys -> Values] : m = [k \in ParamKeys |-> Initial]
    BY ConfigAssumption
  <2>4. config' = [config EXCEPT !.over = o, !.memory = m]
    BY <2>1, <2>2, <2>3
  <2>5. config' \in States /\ config'.file = config.file /\ config'.over = o /\ config'.memory = m
    BY <1>1, <2>4 DEF States
  <2>6. mishaps' \in Mishaps /\ mishaps'.unlogged = mishaps.unlogged \cap FileKeys
    BY <1>1, <2>1, ConfigAssumption DEF Mishaps, ConfigKeys
  <2>7. "absent" \in GivenValues
    BY DEF GivenValues
  <2>8. diffs' \in [ConfigKeys -> GivenValues]
    BY <1>1, <2>1, <2>7
  <2>9. ConfigTypeOK'
    BY <2>5, <2>6, <2>8 DEF ConfigTypeOK, States, GivenValues, Mishaps
  <2>10. ASSUME NEW k \in ConfigKeys \ mishaps'.unlogged
         PROVE  Effective(config')[k] = Value(k, diffs'[k])
    <3>1. CASE k \in FileKeys
      <4>1. diffs'[k] = diffs[k] /\ Effective(config)[k] = Value(k, diffs[k])
        BY <2>1, <2>6, <2>10, <3>1 DEF ConfigInv, DiffsExplainConfig
      <4>2. Effective(config')[k] = Value(k, config.file[k]) /\ Effective(config)[k] = Value(k, config.file[k])
        BY <1>1, <2>5, <3>1, Shown
      <4>3. QED  BY <4>1, <4>2
    <3>2. CASE k \notin FileKeys
      <4>1. diffs'[k] = "absent"
        BY <2>1, <3>2
      <4>2. Value(k, "absent") = Initial
        BY DEF Value
      <4>3. CASE k \in EnvKeys
        <5>1. o[k] = "absent"
          BY <2>2, <4>3 DEF Unsaid
        <5>2. Effective(config')[k] = Value(k, o[k])
          BY <2>5, <4>3, Shown
        <5>3. QED  BY <4>1, <5>1, <5>2
      <4>4. CASE k \in ParamKeys
        <5>1. m[k] = Initial
          BY <2>3, <4>4
        <5>2. Effective(config')[k] = m[k]
          BY <2>5, <4>4, Shown
        <5>3. QED  BY <4>1, <4>2, <5>1, <5>2
      <4>5. QED  BY <3>2, <4>3, <4>4 DEF ConfigKeys
    <3>3. QED  BY <3>1, <3>2
  <2>11. QED  BY <2>9, <2>10 DEF ConfigInv, DiffsExplainConfig
<1>9. CASE UNCHANGED configVars
  BY <1>9, SameConfig
<1>10. QED  BY <1>4, <1>5, <1>6, <1>7, <1>8, <1>9 DEF ConfigNext, GivenValues

LEMMA ConfigStart == ASSUME ConfigInit PROVE ConfigInv
<1>1. Unsaid(FileKeys) \in [FileKeys -> GivenValues] /\ Unsaid(EnvKeys) \in [EnvKeys -> GivenValues]
  BY DEF Unsaid, GivenValues
<1>2. Unsaid(ConfigKeys) \in [ConfigKeys -> GivenValues]
  BY DEF Unsaid, GivenValues
<1>3. [k \in ParamKeys |-> Initial] \in [ParamKeys -> Values]
  BY ConfigAssumption
<1>4. /\ config.file = Unsaid(FileKeys) /\ config.over = Unsaid(EnvKeys)
      /\ config.memory = [k \in ParamKeys |-> Initial]
  BY DEF ConfigInit
<1>5. config \in States
  BY <1>1, <1>3 DEF ConfigInit, States
<1>6. mishaps \in Mishaps
  BY ConfigAssumption DEF ConfigInit, Mishaps
<1>7. ConfigTypeOK
  BY <1>2, <1>5, <1>6 DEF ConfigInit, ConfigTypeOK, States, GivenValues, Mishaps
<1>8. ASSUME NEW k \in ConfigKeys PROVE Effective(config)[k] = Value(k, diffs[k])
  <2>1. diffs[k] = "absent" /\ Value(k, "absent") = Initial
    BY DEF ConfigInit, Unsaid, Value
  <2>2. CASE k \in FileKeys
    <3>1. config.file[k] = "absent"
      BY <1>4, <2>2 DEF Unsaid
    <3>2. QED  BY <1>5, <2>1, <2>2, <3>1, Shown
  <2>3. CASE k \in EnvKeys
    <3>1. config.over[k] = "absent"
      BY <1>4, <2>3 DEF Unsaid
    <3>2. QED  BY <1>5, <2>1, <2>3, <3>1, Shown
  <2>4. CASE k \in ParamKeys
    <3>1. config.memory[k] = Initial
      BY <1>4, <2>4
    <3>2. QED  BY <1>5, <2>1, <2>4, <3>1, Shown
  <2>5. QED  BY <2>2, <2>3, <2>4 DEF ConfigKeys
<1>9. QED  BY <1>7, <1>8 DEF ConfigInv, DiffsExplainConfig

\* The types of the file, the overrides and the memory.
THEOREM ConfigTypes == ConfigSpec => []ConfigTypeOK
<1>1. ConfigInv => ConfigTypeOK
  BY DEF ConfigInv
<1>2. QED  BY <1>1, ConfigStart, ConfigStep, PTL DEF ConfigSpec

\* The diffs in the ledger explain the configuration in force, after any number of changes and
\* restarts and for any keys and values, up to the keys of which the last change found a ledger
\* that failed, or a file that was cut (api/routes/config.py, risk.py).
THEOREM ConfigDiffsExplain == ConfigSpec => []DiffsExplainConfig
<1>1. ConfigInv => DiffsExplainConfig
  BY DEF ConfigInv
<1>2. QED  BY <1>1, ConfigStart, ConfigStep, PTL DEF ConfigSpec

=============================================================================
