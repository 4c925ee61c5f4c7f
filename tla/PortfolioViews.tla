--------------------------- MODULE PortfolioViews ---------------------------
(***************************************************************************)
(* What the API tells of the portfolio (core/metrics.py; metrics.py,       *)
(* risk.py, trades.py and desk.py of api/routes), computed from the ledger *)
(* and the table of open positions while the loop, in a process of its     *)
(* own, opens and closes lots: a lot is taken out of the table before its  *)
(* close is written, and a view reads the ledger before the table.  The    *)
(* table only mirrors the loop's memory: every write to it and every read  *)
(* of it may fail, which is logged and forgotten (position_store.py).      *)
(*                                                                         *)
(* Amounts are whole cents, in which the answers are rounded; a lot of     *)
(* Size cents was bought at price 1.                                       *)
(***************************************************************************)
EXTENDS Integers, Sequences, SequencesExt, FiniteSets, FiniteSetsExt, Sums

CONSTANTS Symbols, Listed,     \* traded, and those still operated
          Capital, Size,
          Results,             \* P&L a close may have
          MaxLots, MaxCloses,  \* bounds
          MaxMisses,           \* bound: failing reads and writes of the table
          LastDay,             \* bound: days
          LossLimit,           \* consecutive losses that trigger the breaker's view
          TriggerPct,          \* and the loss of a day that does, in percent of the capital
          MinTrades,           \* _MIN_KELLY_TRADES
          MaxLossPct           \* loss limit of a protection, in percent of the capital

ASSUME PortfolioAssumption ==
  /\ IsFiniteSet(Symbols) /\ Listed \subseteq Symbols /\ Results \subseteq Int
  /\ Capital \in Nat \ {0} /\ Size \in Nat \ {0}
  /\ {MaxLots, MaxCloses, MaxMisses, LastDay} \subseteq Nat
  /\ {LossLimit, TriggerPct, MinTrades, MaxLossPct} \subseteq Nat \ {0}

VARIABLES closes,    \* position_closed, in the order written
          memory,      \* the loop's memory: lot -> symbol and quantity
          lots,      \* open_positions, its mirror
          undeleted, \* the lots whose row could not be deleted when they were closed
          misses,
          closing,   \* the close that is under way
          today,
          view       \* what a request has read

portfolioVars == <<closes, memory, lots, undeleted, misses, closing, today, view>>

NoFigures == [phase |-> "none", closes |-> <<>>, lots |-> <<>>]

-----------------------------------------------------------------------------
(* The views.                                                              *)

\* The closes of a symbol, of a period, won and lost, by their place; what some of them made.
Only(s, symbol) == {n \in 1..Len(s) : s[n].symbol = symbol}
Recent(s, days) == {n \in 1..Len(s) : s[n].day >= today - days}
Won(s) == {n \in 1..Len(s) : s[n].pnl > 0}
Lost(s) == {n \in 1..Len(s) : s[n].pnl < 0}
ProfitOf(s, S) == SumTo([n \in 1..Len(s) |-> IF n \in S THEN s[n].pnl ELSE 0], Len(s))
Profit(s) == ProfitOf(s, 1..Len(s))
PortfolioValue(s) == Capital + Profit(s)

\* get_equity: one point per close, or a single one at the start.
EquityAt(s, n) == Capital + ProfitOf(s, 1..n)
EquityCurve(s) == IF s = <<>> THEN <<Capital>> ELSE [n \in 1..Len(s) |-> EquityAt(s, n)]

\* list_closed_trades: the newest first, page by page.
ClosedTrades(s, limit, offset) ==
  SubSeq(Reverse(s), offset + 1, IF offset + limit < Len(s) THEN offset + limit ELSE Len(s))

\* pnl_period_pct of a loss: in millionths of the capital, rounded to the nearest.
Millionths(loss) == (2000000 * loss + Capital) \div (2 * Capital)

\* _prot: the loss of a period against its limit in percent.
Protection(s, days, limit) ==
  LET loss == Millionths(Higher(0, -ProfitOf(s, Recent(s, days))))
  IN IF loss >= 10000 * limit THEN "paused"
     ELSE IF 10 * loss >= 80000 * limit THEN "warn" ELSE "ok"

ConsecutiveLosses(s) ==
  Cardinality({n \in 1..Len(s) : \A k \in n..Len(s) : s[k].pnl < 0})

\* _daily_loss_pct asks for a data.timestamp of today: log_position_closed writes none.
Stamped(s) == {}
DailyPnl(s) == ProfitOf(s, {n \in Stamped(s) : s[n].day = today})

\* get_circuit_breaker, with circuit_breaker.enabled of the file.
BreakerView(s, enabled) ==
  IF ~enabled THEN "disabled"
  ELSE IF \/ 100 * Higher(DailyPnl(s), -DailyPnl(s)) >= TriggerPct * Capital
          \/ ConsecutiveLosses(s) >= LossLimit THEN "triggered" ELSE "armed"

\* full_kelly_fraction: p - q/b is positive.  Without a win or a loss, the average is 1 %.
KellyPositive(s) ==
  LET wins == Cardinality(Won(s))  losses == Cardinality(Lost(s))
  IN /\ Len(s) >= MinTrades /\ wins > 0
     /\ IF losses > 0 THEN ProfitOf(s, Won(s)) * losses > (Len(s) - wins) * (-ProfitOf(s, Lost(s)))
        ELSE 100 * ProfitOf(s, Won(s)) > (Len(s) - wins) * Capital

\* _open_lots; the desk counts the lots of all pairs, and the capital of those it shows.
Slots(book) == Cardinality(DOMAIN book)
Notional(book, symbols) ==
  SumTo([l \in 1..MaxLots |-> IF l \in DOMAIN book /\ book[l].symbol \in symbols THEN book[l].quantity ELSE 0],
        MaxLots)
CapitalFree(book, symbols) == Higher(0, Capital - Notional(book, symbols))

-----------------------------------------------------------------------------
(* The loop.                                                               *)

PortfolioInit ==
  /\ closes = <<>> /\ memory = <<>> /\ lots = <<>> /\ undeleted = {} /\ misses = 0 /\ closing = <<>>
  /\ today = 0 /\ view = NoFigures

\* An answer is looked at when it is given, and forgotten at the next step of the loop.
ViewLeft == IF view.phase = "answered" THEN NoFigures ELSE view

LoopUnchanged == UNCHANGED <<closes, memory, lots, undeleted, closing>>
NextLot == 1 + Max({0} \cup DOMAIN memory \cup DOMAIN lots \cup {closes[n].lot : n \in DOMAIN closes}
                   \cup {closing[n].lot : n \in DOMAIN closing})

\* PositionStore: upsert, delete and load_all, which swallow what goes wrong.
WithRow(book, l, row) == [k \in {l} \cup DOMAIN book |-> IF k = l THEN row ELSE book[k]]
Without(book, l) == [k \in DOMAIN book \ {l} |-> book[k]]
Misses == misses < MaxMisses /\ misses' = misses + 1
Mirrored(table) == (lots' = table /\ UNCHANGED misses) \/ (UNCHANGED lots /\ Misses)
Loaded(table) == (table = lots /\ UNCHANGED misses) \/ (table = <<>> /\ Misses)

OpenLot(s) ==
  /\ closing = <<>> /\ NextLot <= MaxLots
  /\ LET row == [symbol |-> s, quantity |-> Size]
     IN memory' = WithRow(memory, NextLot, row) /\ Mirrored(WithRow(lots, NextLot, row))
  /\ UNCHANGED <<closes, undeleted, closing, today>> /\ view' = ViewLeft

CloseOf(l, pnl, whole) ==
  [lot |-> l, symbol |-> memory[l].symbol, pnl |-> pnl, whole |-> whole, day |-> today]

\* _record_close of a whole lot: the row goes first, if it can, then the close is written.
DeleteRow(l, pnl) ==
  /\ closing = <<>> /\ Len(closes) < MaxCloses /\ l \in DOMAIN memory
  /\ closing' = <<CloseOf(l, pnl, TRUE)>> /\ memory' = Without(memory, l)
  /\ Mirrored(Without(lots, l))
  /\ undeleted' = IF misses' = misses THEN undeleted ELSE undeleted \cup {l}
  /\ UNCHANGED <<closes, today>> /\ view' = ViewLeft

\* Of a part: the close is written, then the row shrinks.
LogPart(l, pnl) ==
  /\ closing = <<>> /\ Len(closes) < MaxCloses /\ l \in DOMAIN memory /\ memory[l].quantity > 1
  /\ closing' = <<CloseOf(l, pnl, FALSE)>> /\ closes' = Append(closes, closing'[1])
  /\ UNCHANGED <<memory, lots, undeleted, misses, today>> /\ view' = ViewLeft

\* log_position_closed, stamped with the time of the writing; it may fail.
LogClose ==
  /\ closing # <<>> /\ closing[1].whole /\ closing' = <<>>
  /\ closes' \in {Append(closes, [closing[1] EXCEPT !.day = today]), closes}
  /\ UNCHANGED <<memory, lots, undeleted, misses, today>> /\ view' = ViewLeft

ShrinkRow ==
  /\ closing # <<>> /\ ~closing[1].whole /\ closing' = <<>>
  /\ LET l == closing[1].lot
         row == [symbol |-> memory[l].symbol, quantity |-> memory[l].quantity - 1]
     IN memory' = WithRow(memory, l, row) /\ Mirrored(WithRow(lots, l, row))
  /\ UNCHANGED <<closes, undeleted, today>> /\ view' = ViewLeft

\* The loop dies wherever it is; the next one loads the table (reload_open_positions).
LoopRestarts ==
  /\ closing' = <<>> /\ \E table \in {lots, <<>>} : Loaded(table) /\ memory' = table
  /\ UNCHANGED <<closes, lots, undeleted, today>> /\ view' = ViewLeft

NextDay ==
  /\ today < LastDay /\ today' = today + 1 /\ LoopUnchanged /\ UNCHANGED misses /\ view' = ViewLeft

(* A request, in the API process: compute reads the ledger, then the table.  *)
ReadLedger ==
  /\ view.phase # "ledger"
  /\ view' = [NoFigures EXCEPT !.phase = "ledger", !.closes = closes]
  /\ LoopUnchanged /\ UNCHANGED <<misses, today>>

ReadPositions ==
  /\ view.phase = "ledger"
  /\ \E seen \in {lots, <<>>} :
       Loaded(seen) /\ view' = [view EXCEPT !.phase = "answered", !.lots = seen]
  /\ LoopUnchanged /\ UNCHANGED today

PortfolioNext ==
  \/ \E s \in Symbols : OpenLot(s)
  \/ \E l \in 1..MaxLots, pnl \in Results : DeleteRow(l, pnl) \/ LogPart(l, pnl)
  \/ LogClose \/ ShrinkRow \/ LoopRestarts \/ NextDay
  \/ ReadLedger \/ ReadPositions

PortfolioSpec == PortfolioInit /\ [][PortfolioNext]_portfolioVars

-----------------------------------------------------------------------------
(* Types.                                                                  *)
Closes == [lot: 1..MaxLots, symbol: Symbols, pnl: Results, whole: BOOLEAN, day: 0..LastDay]
PortfolioTypeOK ==
  /\ today \in 0..LastDay /\ misses \in 0..MaxMisses /\ Len(closing) <= 1 /\ Len(closes) <= MaxCloses
  /\ Range(closes) \cup Range(closing) \cup Range(view.closes) \subseteq Closes
  /\ undeleted \subseteq 1..MaxLots /\ \A book \in {memory, lots, view.lots} :
       DOMAIN book \subseteq 1..MaxLots /\ Range(book) \subseteq [symbol: Symbols, quantity: 1..Size]
  /\ view.phase \in {"none", "ledger", "answered"}

(* What one answer puts together was read at two moments, and is still consistent: a lot     *)
(* that the answer counts as closed for good is not counted among the open ones as well, so    *)
(* that no result is both realised and exposed, unless its row could not be deleted; a part     *)
(* whose row has not shrunk yet can be both.                                                    *)
NoLotTwice ==
  view.phase = "answered" =>
    \A c \in Range(view.closes) : c.whole => c.lot \notin DOMAIN view.lots \ undeleted

(* The figures of different end points, each computed by code of its own from the closes,     *)
(* agree: the pages list every trade that is counted; the pairs' results add up; the breaker    *)
(* is triggered exactly if it is enabled and the curve's last steps go down, so never by what    *)
(* a day lost; the protection of a period pauses when the value has fallen by the limit since    *)
(* the period began, and not on half a millionth less; Kelly bets only if money was made.        *)
PagesListAll(s) ==
  \A limit, n \in 1..Len(s) :
    LET page == (n - 1) \div limit
    IN ClosedTrades(s, limit, page * limit)[n - page * limit] = s[Len(s) + 1 - n]
PairsAddUp(s) ==
  \A order \in Bijection(1..Cardinality(Symbols), Symbols) :
    SumTo([k \in 1..Cardinality(Symbols) |-> ProfitOf(s, Only(s, order[k]))], Cardinality(Symbols)) = Profit(s)
Level(s, n) == IF n = 0 THEN Capital ELSE EquityCurve(s)[n]
BreakerFollowsCurve(s) ==
  \A enabled \in BOOLEAN : BreakerView(s, enabled) = "triggered" <=>
    enabled /\ \A n \in Len(s) - LossLimit + 1..Len(s) : n > 0 /\ Level(s, n) < Level(s, n - 1)
FallSince(s, first) == Level(s, Cardinality({n \in 1..Len(s) : s[n].day < first})) - PortfolioValue(s)
ProtectionFollowsCurve(s) ==
  \A days \in {0, LastDay} :
    /\ 100 * FallSince(s, today - days) >= MaxLossPct * Capital => Protection(s, days, MaxLossPct) = "paused"
    /\ Protection(s, days, MaxLossPct) = "paused" =>
         2000000 * FallSince(s, today - days) >= (20000 * MaxLossPct - 1) * Capital
FiguresAgree(s) ==
  /\ PagesListAll(s) /\ PairsAddUp(s) /\ BreakerFollowsCurve(s) /\ ProtectionFollowsCurve(s)
  /\ KellyPositive(s) => PortfolioValue(s) > Capital
ViewsAgree ==
  /\ NoLotTwice
  /\ view.phase = "answered" =>
       /\ FiguresAgree(view.closes)
       /\ CapitalFree(view.lots, Symbols) <= CapitalFree(view.lots, Listed)
       /\ Slots(view.lots) * Size >= Notional(view.lots, Symbols)

=============================================================================
