-------------------------- MODULE SquadOrchestrator --------------------------
(***************************************************************************)
(* The paper position book and the circuit breaker of the trading loop     *)
(* (src/orchestration/squad_orchestrator.py, position_store.py).           *)
(*                                                                         *)
(* A cycle for one symbol asks the breaker, closes the lots whose stop or  *)
(* target the price reached, passes the gates, and may execute one order,  *)
(* whose fill is netted against opposite lots, oldest first, before the    *)
(* residue opens a lot.  The book and the breaker live in memory and are   *)
(* mirrored in SQLite: a restart reloads what the mirror holds.  Every     *)
(* mirror write is its own transaction and swallows its errors; the close  *)
(* is logged to the ledger in between.                                     *)
(*                                                                         *)
(* Prices are left out: which lots a price reaches and what a close earns  *)
(* are chosen freely.  A lot is known by the number of the fill that       *)
(* opened it, so that a smaller number is an earlier opened_at.            *)
(***************************************************************************)
EXTENDS Integers, Sequences, FiniteSets

CONSTANTS
    Symbols,          \* the operated pairs
    MaxFills,         \* bound: executed orders in a behaviour
    MaxQty,           \* bound: quantity of an order
    MaxConcurrent,    \* MAX_CONCURRENT_POSITIONS
    Pnl,              \* percentages a close may earn
    DailyLossLimit,   \* DAILY_LOSS_LIMIT_PCT
    LossLimit,        \* CONSECUTIVE_LOSS_LIMIT
    MaxFailures       \* bound: restarts and failing writes in a behaviour

ASSUME DeskAssumption ==
    /\ MaxFills \in Nat /\ MaxQty \in Nat \ {0} /\ MaxConcurrent \in Nat \ {0}
    /\ Pnl \subseteq Int
    /\ DailyLossLimit \in Nat \ {0} /\ LossLimit \in Nat \ {0}
    /\ MaxFailures \in Nat

Fill   == 1 .. MaxFills
Side   == {"buy", "sell"}
Trade  == [symbol : Symbols, side : Side, qty : 1 .. MaxQty]
Trip   == {"no", "hot", "cold"}   \* cold: the 24 hours of the cooldown are over
Breaker == [trip : Trip, losses : Nat, daily : Int]

VARIABLES
    fills,    \* order_fill events of the ledger, in order
    book,     \* _open_positions: quantity of the lot each fill opened, 0 if none
    disk,     \* the table open_positions
    closed,   \* quantity of each lot in position_closed events
    breaker,  \* CircuitBreaker, in memory
    saved,    \* the table circuit_breaker_state
    pc,       \* where the cycle is
    step,     \* where _record_close is, within it
    symbol,   \* the symbol of the cycle
    hit,      \* lots whose exit the cycle has still to book (or left, when blocked)
    rem,      \* quantity of the cycle's fill that is not netted yet
    lot, amt, pnl,  \* the close being booked
    crashes,        \* restarts of the loop
    diskErrors,     \* mirror writes that failed and were swallowed
    ledgerErrors,   \* ledger writes that raised
    loadErrors,     \* restarts that could not read the mirror
    streak,         \* history: losses at the end of the ledger since the last reset
    openedTripped   \* history: lots opened since the breaker tripped

cycleVars == <<pc, step, symbol, hit, rem, lot, amt, pnl>>
nonDiskVars == <<crashes, ledgerErrors, loadErrors>>
failVars  == <<diskErrors, nonDiskVars>>
histVars  == <<streak, openedTripped>>
vars == <<fills, book, disk, closed, breaker, saved, cycleVars, failVars, histVars>>

Opposite(side) == IF side = "sell" THEN "buy" ELSE "sell"
OpenLots(b) == {f \in Fill : b[f] > 0}
LotsOf(s, side) ==
    {f \in OpenLots(book) : fills[f].symbol = s /\ fills[f].side = side}
Minimum(a, b) == IF a < b THEN a ELSE b

NoBreach == [trip |-> "no", losses |-> 0, daily |-> 0]

Init ==
    /\ fills = <<>>
    /\ book = [f \in Fill |-> 0] /\ disk = book /\ closed = book
    /\ breaker = NoBreach /\ saved = NoBreach
    /\ pc = "idle" /\ step = "pick"
    /\ symbol \in Symbols /\ hit = {} /\ rem = 0
    /\ lot = 0 /\ amt = 0 /\ pnl = 0
    /\ crashes = 0 /\ diskErrors = 0 /\ ledgerErrors = 0 /\ loadErrors = 0
    /\ streak = 0 /\ openedTripped = 0

-----------------------------------------------------------------------------
Failures == crashes + diskErrors + ledgerErrors + loadErrors
MayFail == Failures < MaxFailures

\* A write of the mirror; an error is swallowed and leaves the old value.
WriteDisk(f, q) ==
    \/ disk' = [disk EXCEPT ![f] = q] /\ UNCHANGED diskErrors
    \/ /\ MayFail
       /\ UNCHANGED disk /\ diskErrors' = diskErrors + 1

SaveBreaker(b) ==
    \/ saved' = b /\ UNCHANGED diskErrors
    \/ /\ MayFail
       /\ UNCHANGED saved /\ diskErrors' = diskErrors + 1

EndCycle == /\ pc' = "idle" /\ step' = "pick" /\ hit' = {} /\ rem' = 0
            /\ lot' = 0 /\ amt' = 0 /\ pnl' = 0 /\ UNCHANGED symbol

-----------------------------------------------------------------------------
(***************************************************************************)
(* The cycle.  H is the set of lots whose stop or target the price of this *)
(* cycle reaches; it is empty when the gate on stub data ends the cycle.   *)
(***************************************************************************)

\* is_open is True: analyze_and_trade returns before anything else.
CycleBlocked(s, H) ==
    /\ pc = "idle" /\ breaker.trip = "hot"
    /\ symbol' = s /\ hit' = H
    /\ UNCHANGED <<fills, book, disk, closed, breaker, saved, pc, step, rem, lot, amt, pnl,
                   failVars, histVars>>

\* is_open is False; a cooldown that has expired resets the breaker first.
CycleStart(s, H) ==
    /\ pc = "idle" /\ breaker.trip # "hot"
    /\ pc' = "exits" /\ symbol' = s /\ hit' = H
    /\ IF breaker.trip = "no"
         THEN UNCHANGED <<breaker, saved, diskErrors, histVars>>
         ELSE /\ breaker' = [breaker EXCEPT !.trip = "no", !.losses = 0]
              /\ SaveBreaker(breaker')
              /\ streak' = 0 /\ openedTripped' = 0
    /\ UNCHANGED <<fills, book, disk, closed, step, rem, lot, amt, pnl, nonDiskVars>>

\* _record_close of a whole lot: popped from the book, deleted from the mirror.
CloseWhole(f) ==
    /\ book' = [book EXCEPT ![f] = 0]
    /\ WriteDisk(f, 0)
    /\ lot' = f /\ amt' = book[f]

\* _check_open_positions: one lot after the other.
ExitLot ==
    /\ pc = "exits" /\ step = "pick"
    /\ \E f \in hit : CloseWhole(f) /\ hit' = hit \ {f}
    /\ step' = "log"
    /\ UNCHANGED <<fills, closed, breaker, saved, pc, symbol, rem, pnl, nonDiskVars,
                   histVars>>

ExitsDone ==
    /\ pc = "exits" /\ step = "pick" /\ hit = {}
    /\ pc' = "gates"
    /\ UNCHANGED <<fills, book, disk, closed, breaker, saved, step, symbol, hit, rem,
                   lot, amt, pnl, failVars, histVars>>

LogClose_IgnoresClosedQty ==
    /\ step = "log"
    /\ \E p \in Pnl : pnl' = p /\ streak' = IF p < 0 THEN streak + 1 ELSE 0
    /\ closed' = [closed EXCEPT ![lot] = @ + (IF book[lot] > 0 THEN book[lot] ELSE amt)]
    /\ step' = "feed"
    /\ UNCHANGED <<fills, book, disk, breaker, saved, pc, symbol, hit, rem, lot, amt,
                   failVars, openedTripped>>

\* log_position_closed ...
LogClose ==
    /\ step = "log"
    /\ \E p \in Pnl : pnl' = p /\ streak' = IF p < 0 THEN streak + 1 ELSE 0
    /\ closed' = [closed EXCEPT ![lot] = @ + amt]
    /\ step' = "feed"
    /\ UNCHANGED <<fills, book, disk, breaker, saved, pc, symbol, hit, rem, lot, amt,
                   failVars, openedTripped>>

\* ... or raises.  The check of the open positions is wrapped: its other lots are
\* left for a later cycle and the pipeline goes on.  Netting is not: the cycle ends.
LogCloseError ==
    /\ step = "log" /\ MayFail
    /\ ledgerErrors' = ledgerErrors + 1
    /\ IF pc = "exits"
         THEN /\ pc' = "gates" /\ step' = "pick" /\ hit' = {}
              /\ UNCHANGED <<symbol, rem, lot, amt, pnl>>
         ELSE EndCycle
    /\ UNCHANGED <<fills, book, disk, closed, breaker, saved, crashes, diskErrors, loadErrors,
                   histVars>>

\* record_trade_result: count, trip if a limit is reached and it is not tripped.
Fed(b, p) ==
    LET daily  == b.daily + p
        losses == IF p < 0 THEN b.losses + 1 ELSE 0
        breach == daily <= -DailyLossLimit \/ losses >= LossLimit
    IN  [trip |-> IF breach /\ b.trip = "no" THEN "hot" ELSE b.trip,
         losses |-> losses, daily |-> daily]

\* ... then the breaker is fed and persists itself.  A lot closed in part is
\* still in the book and is shrunk next.
FeedBreaker ==
    /\ step = "feed"
    /\ breaker' = Fed(breaker, pnl)
    /\ SaveBreaker(breaker')
    /\ step' = IF book[lot] > 0 THEN "shrink" ELSE "pick"
    /\ pnl' = 0
    /\ UNCHANGED <<fills, book, disk, closed, pc, symbol, hit, rem, lot, amt, nonDiskVars, histVars>>

ShrinkLot_NoUpsert ==
    /\ step = "shrink"
    /\ book' = [book EXCEPT ![lot] = @ - amt]
    /\ step' = "pick"
    /\ UNCHANGED <<fills, disk, closed, breaker, saved, pc, symbol, hit, rem, lot, amt, pnl,
                   failVars, histVars>>

\* _match_or_open after a partial close: the lot shrinks in place and is saved.
ShrinkLot ==
    /\ step = "shrink"
    /\ book' = [book EXCEPT ![lot] = @ - amt]
    /\ WriteDisk(lot, book'[lot])
    /\ step' = "pick"
    /\ UNCHANGED <<fills, closed, breaker, saved, pc, symbol, hit, rem, lot, amt, pnl,
                   nonDiskVars, histVars>>

\* The gates: the pair is paused, the confidence low, risk rejects, there is no
\* inventory or no slot, nobody approves, or the execution fails.
CycleEnd ==
    /\ pc = "gates"
    /\ EndCycle
    /\ UNCHANGED <<fills, book, disk, closed, breaker, saved, failVars, histVars>>

ExecuteOrder_AnyLotOfThePair(side, q) ==
    LET closing == LotsOf(symbol, "buy") \cup LotsOf(symbol, "sell") # {} IN
    /\ pc = "gates" /\ Len(fills) < MaxFills
    /\ side = "sell" => closing
    /\ closing \/ Cardinality(OpenLots(book)) < MaxConcurrent
    /\ fills' = Append(fills, [symbol |-> symbol, side |-> side, qty |-> q])
    /\ rem' = q /\ pc' = "net"
    /\ UNCHANGED <<book, disk, closed, breaker, saved, step, symbol, hit, lot, amt, pnl,
                   failVars, histVars>>

\* An order passes the inventory gate and the slot cap, is approved and executed:
\* _log_fill books the fill, _match_or_open starts netting.
ExecuteOrder(side, q) ==
    LET closing == LotsOf(symbol, Opposite(side)) # {} IN
    /\ pc = "gates" /\ Len(fills) < MaxFills
    /\ side = "sell" => closing
    /\ closing \/ Cardinality(OpenLots(book)) < MaxConcurrent
    /\ fills' = Append(fills, [symbol |-> symbol, side |-> side, qty |-> q])
    /\ rem' = q /\ pc' = "net"
    /\ UNCHANGED <<book, disk, closed, breaker, saved, step, symbol, hit, lot, amt, pnl,
                   failVars, histVars>>

Current == fills[Len(fills)]
Candidates == LotsOf(symbol, Opposite(Current.side))

\* The fill closes q of lot f: all of it, or a part that stays to be shrunk.
CloseOf(f, q) ==
    /\ rem' = rem - q
    /\ IF q = book[f]
         THEN CloseWhole(f)
         ELSE lot' = f /\ amt' = q /\ UNCHANGED <<book, disk, diskErrors>>

NetOldest_WholeLots ==
    /\ pc = "net" /\ step = "pick" /\ rem > 0
    /\ \E f \in Candidates :
          /\ \A g \in Candidates : f <= g
          /\ rem' = rem - book[f]
          /\ CloseWhole(f)
    /\ step' = "log"
    /\ UNCHANGED <<fills, closed, breaker, saved, pc, symbol, hit, pnl, nonDiskVars,
                   histVars>>

NetOldest_NewestFirst ==
    /\ pc = "net" /\ step = "pick" /\ rem > 0
    /\ \E f \in Candidates :
          /\ \A g \in Candidates : f >= g
          /\ CloseOf(f, Minimum(rem, book[f]))
    /\ step' = "log"
    /\ UNCHANGED <<fills, closed, breaker, saved, pc, symbol, hit, pnl, nonDiskVars,
                   histVars>>

\* The oldest opposite lot is closed, wholly or as far as the fill goes.
NetOldest ==
    /\ pc = "net" /\ step = "pick" /\ rem > 0
    /\ \E f \in Candidates :
          /\ \A g \in Candidates : f <= g
          /\ CloseOf(f, Minimum(rem, book[f]))
    /\ step' = "log"
    /\ UNCHANGED <<fills, closed, breaker, saved, pc, symbol, hit, pnl, nonDiskVars,
                   histVars>>

OpenResidue_OfASell ==
    /\ pc = "net" /\ step = "pick" /\ (rem = 0 \/ Candidates = {})
    /\ IF rem > 0
         THEN /\ book' = [book EXCEPT ![Len(fills)] = rem]
              /\ WriteDisk(Len(fills), rem)
         ELSE UNCHANGED <<book, disk, diskErrors>>
    /\ EndCycle
    /\ UNCHANGED <<fills, closed, breaker, saved, nonDiskVars, histVars>>

\* What is left of a buy opens a lot; what is left of a sell is dropped.
OpenResidue ==
    /\ pc = "net" /\ step = "pick" /\ (rem = 0 \/ Candidates = {})
    /\ IF rem > 0 /\ Current.side = "buy"
         THEN /\ book' = [book EXCEPT ![Len(fills)] = rem]
              /\ WriteDisk(Len(fills), rem)
              /\ openedTripped' = IF breaker.trip = "hot" THEN openedTripped + 1
                                                          ELSE openedTripped
         ELSE UNCHANGED <<book, disk, diskErrors, openedTripped>>
    /\ EndCycle
    /\ UNCHANGED <<fills, closed, breaker, saved, nonDiskVars, streak>>

-----------------------------------------------------------------------------
Crash_BookNotReloaded ==
    /\ MayFail
    /\ crashes' = crashes + 1
    /\ book' = [f \in Fill |-> 0] /\ breaker' = saved
    /\ EndCycle
    /\ UNCHANGED <<fills, disk, closed, saved, diskErrors, ledgerErrors, loadErrors, histVars>>

Crash_BreakerNotReloaded ==
    /\ MayFail
    /\ crashes' = crashes + 1
    /\ book' = disk /\ breaker' = NoBreach
    /\ EndCycle
    /\ UNCHANGED <<fills, disk, closed, saved, diskErrors, ledgerErrors, loadErrors, histVars>>

\* The loop dies and is restarted: reload_open_positions.
Crash ==
    /\ MayFail
    /\ crashes' = crashes + 1
    /\ book' = disk /\ breaker' = saved
    /\ EndCycle
    /\ UNCHANGED <<fills, disk, closed, saved, diskErrors, ledgerErrors, loadErrors, histVars>>

\* The same, but a table cannot be read: the error is swallowed, and the loop
\* starts without lots, or with a breaker that remembers nothing.
CrashUnreadable ==
    /\ Failures + 2 <= MaxFailures
    /\ crashes' = crashes + 1 /\ loadErrors' = loadErrors + 1
    /\ book' \in {disk, [f \in Fill |-> 0]} /\ breaker' \in {saved, NoBreach}
    /\ EndCycle
    /\ UNCHANGED <<fills, disk, closed, saved, diskErrors, ledgerErrors, histVars>>

\* 24 hours pass since the breaker tripped.
Cooled(b) == IF b.trip = "hot" THEN [b EXCEPT !.trip = "cold"] ELSE b

Cooldown ==
    /\ pc = "idle" /\ breaker.trip = "hot"
    /\ breaker' = Cooled(breaker) /\ saved' = Cooled(saved)
    /\ UNCHANGED <<fills, book, disk, closed, cycleVars, failVars, histVars>>

CycleStep ==
    \/ ExitLot \/ ExitsDone \/ LogClose \/ FeedBreaker \/ ShrinkLot
    \/ LogCloseError
    \/ CycleEnd
    \/ \E side \in Side, q \in 1 .. MaxQty : ExecuteOrder(side, q)
    \/ NetOldest \/ OpenResidue

LotsOfPair(s) == LotsOf(s, "buy") \cup LotsOf(s, "sell")

Next ==
    \/ \E s \in Symbols : \E H \in SUBSET LotsOfPair(s) : CycleBlocked(s, H)
    \/ \E s \in Symbols : \E H \in SUBSET LotsOfPair(s) : CycleStart(s, H)
    \/ CycleStep
    \/ Crash \/ CrashUnreadable \/ Cooldown

Spec == Init /\ [][Next]_vars

-----------------------------------------------------------------------------
(***************************************************************************)
(* Properties.                                                             *)
(***************************************************************************)

BookType ==
    /\ fills \in Seq(Trade) /\ Len(fills) <= MaxFills
    /\ book \in [Fill -> 0 .. MaxQty] /\ disk \in [Fill -> 0 .. MaxQty]
    /\ closed \in [Fill -> Nat]

CycleType ==
    /\ pc \in {"idle", "exits", "gates", "net"}
    /\ step \in {"pick", "log", "feed", "shrink"}
    /\ symbol \in Symbols /\ hit \subseteq Fill /\ rem \in 0 .. MaxQty
    /\ lot \in Fill \cup {0} /\ amt \in 0 .. MaxQty /\ pnl \in Int

BreakerType == breaker \in Breaker /\ saved \in Breaker

CountType ==
    /\ crashes \in Nat /\ diskErrors \in Nat /\ ledgerErrors \in Nat /\ loadErrors \in Nat
    /\ streak \in Nat /\ openedTripped \in Nat

\* Every variable has its type.
TypeOK == BookType /\ CycleType /\ BreakerType /\ CountType

\* A sell never opens a lot, whatever is left of it after netting.
NoNakedShort == \A f \in OpenLots(book) \cup OpenLots(disk) : fills[f].side = "buy"

\* N pairs compete for MaxConcurrent slots: the book never holds more lots, but
\* for those a restart brings back because their deletion had failed.
SlotCap ==
    loadErrors = 0 => Cardinality(OpenLots(book)) <= MaxConcurrent + diskErrors

\* Where the lot of fill f stands: what is open and what the ledger says was
\* closed add up to what the fill bought.
Balanced(f) == fills[f].side = "buy" => book[f] + closed[f] = fills[f].qty
Bought == {f \in 1 .. Len(fills) : fills[f].side = "buy"}
Resting == pc \in {"idle", "exits", "gates"} /\ step = "pick"

\* A failing mirror write never breaks the accounts of the running loop: without
\* a restart and without a ledger error, no quantity is lost or closed twice.
BookBalanced ==
    crashes = 0 /\ ledgerErrors = 0 /\ Resting => \A f \in Bought : Balanced(f)

\* A restart that can read the mirror, a failing mirror write and a failing ledger
\* write each spoil the account of one lot at most, at whatever point of a close
\* or of an open they happen.
FailureSpoilsOneLot ==
    loadErrors = 0 /\ Resting => Cardinality({f \in Bought : ~Balanced(f)}) <= Failures

\* Between cycles a restart would change nothing: while no access to the mirror
\* has failed, what is in memory is what is on disk.
MirrorExact ==
    diskErrors + loadErrors = 0 /\ pc = "idle" => book = disk /\ breaker = saved

\* The breaker does not forget a loss streak: it counts every loss at the end of
\* the ledger, but for one per failure of a write and per restart.
StreakRemembered ==
    loadErrors = 0 /\ Resting => streak <= breaker.losses + Failures

\* The breaker holds: it does not forget a streak, and one that trips in the middle of
\* a cycle stops trading at its end: until the cooldown is over only the one order of
\* that cycle opens a lot, and one more for each time the trip, or the reload of it,
\* missed the mirror.
BreakerHolds == StreakRemembered /\ openedTripped <= 1 + diskErrors + loadErrors

\* Inventory leaves the book first in, first out: a fill closes a lot only when
\* no older lot of its symbol and side is left.
FifoNetting ==
    [][pc = "net" => \A f \in Fill :
          book'[f] < book[f] /\ crashes' = crashes
              => \A g \in Fill : g < f /\ fills[g].symbol = fills[f].symbol => book[g] = 0]_book

-----------------------------------------------------------------------------
(***************************************************************************)
(* What the repository says and the code does not keep.                    *)
(***************************************************************************)

\* "Check open paper positions against current price on every cycle": no cycle
\* leaves a lot open whose stop or target its price has reached.
StopsManaged == pc = "idle" => hit = {}

\* The daily loss is that of a day, and the cooldown lasts a day: a trade that
\* earned something never trips the breaker.
GainNeverTrips ==
    [][step = "feed" /\ pnl >= 0 /\ breaker'.trip = "hot" => breaker.trip = "hot"]_vars

=============================================================================
