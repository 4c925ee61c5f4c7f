----------------------------- MODULE Backtests -----------------------------
(***************************************************************************)
(* Backtests: the jobs of /v1/backtest, each a task of the API process with *)
(* a row in the database (api/routes/backtest.py), and the engine that      *)
(* replays candles through a strategy (backtest/engine.py).                 *)
(*                                                                         *)
(* The engine does not yield to other requests once the candles are there, *)
(* so a job is two steps: it is asked for, and it ends.  The replay is      *)
(* stepped through on its own, for any strategy: prices are small integers, *)
(* the warm-up, costs and position size are left out, and the equity is in  *)
(* price units.                                                             *)
(***************************************************************************)
EXTENDS Sums, Sequences, FiniteSets

CONSTANTS Jobs,        \* job ids
          Prices,      \* price levels, positive
          Brackets,    \* pairs of a stop and a target, 0 for none
          MaxCandles,  \* bound: candles after the warm-up
          MaxFaults    \* bound: deaths of the process and failing writes

ASSUME BacktestsAssumption ==
  /\ Prices \subseteq Nat \ {0} /\ Brackets \subseteq (Prices \union {0}) \X (Prices \union {0})
  /\ MaxCandles \in Nat /\ MaxFaults \in Nat

VARIABLES jobRow,   \* table backtest_jobs
          task,     \* jobs with a task in the process
          faults,   \* deaths and failing writes so far
          lost,     \* jobs neither of whose last writes succeeded (history)
          replay    \* the engine

jobVars == <<jobRow, task, faults, lost>>
btVars == <<jobRow, task, faults, lost, replay>>

Trade == [in: Nat, out: Nat, side: {1, -1}, entry: Prices, exit: Prices,
          why: {"stop_loss", "take_profit", "end_of_data"}]
Position == [in: Nat, side: {1, -1}, entry: Prices, stop: Prices \union {0},
             target: Prices \union {0}]
Fresh == [i |-> 0, last |-> 0, open |-> {}, capital |-> 0, trades |-> <<>>, curve |-> <<>>,
          over |-> FALSE]

BacktestsInit ==
  /\ jobRow = [j \in Jobs |-> "none"] /\ task = {} /\ faults = 0 /\ lost = {}
  /\ replay = Fresh

-----------------------------------------------------------------------------
(* Jobs.                                                                   *)

\* POST /run: the row is inserted, then the task is made. The process may die between.
RunBacktest(j) ==
  /\ jobRow[j] = "none"
  /\ jobRow' = [jobRow EXCEPT ![j] = "running"]
  /\ task' = task \union {j}
  /\ UNCHANGED <<faults, lost, replay>>

\* _run_job: done, or the error that the exchange or a write raised.
EndJob(j, st) ==
  /\ j \in task
  /\ jobRow' = [jobRow EXCEPT ![j] = st]
  /\ task' = task \ {j}
  /\ UNCHANGED <<faults, lost, replay>>

\* The database refuses the result and the error: the task ends, the row stays.
LoseJob(j) ==
  /\ j \in task /\ faults < MaxFaults
  /\ faults' = faults + 1
  /\ task' = task \ {j} /\ lost' = lost \union {j}
  /\ UNCHANGED <<jobRow, replay>>

\* Mutant: the rows are left as they were.
Reconciled_Not(table) == table

Reconciled(table) == [j \in Jobs |-> IF table[j] = "running" THEN "error" ELSE table[j]]

\* The process dies, perhaps between the insert and the task; the next start reconciles.
RestartJobs ==
  /\ faults < MaxFaults
  /\ faults' = faults + 1
  /\ \E asked \in SUBSET {j \in Jobs : jobRow[j] = "none"} :
       /\ Cardinality(asked) <= 1
       /\ jobRow' = Reconciled([j \in Jobs |-> IF j \in asked THEN "running" ELSE jobRow[j]])
  /\ task' = {} /\ lost' = {}
  /\ UNCHANGED replay

-----------------------------------------------------------------------------
(* The engine.                                                             *)

Reaches(side, level, low, high) == IF side = 1 THEN high >= level ELSE low <= level

\* _check_exits: the stop comes before the target, at its own price.
Exit(p, low, high) ==
  IF p.stop # 0 /\ Reaches(-p.side, p.stop, low, high) THEN <<p.stop, "stop_loss">>
  ELSE IF p.target # 0 /\ Reaches(p.side, p.target, low, high) THEN <<p.target, "take_profit">>
  ELSE <<0, "">>

Gain(t) == t.side * (t.exit - t.entry)
TradeOf(p, i, x) == [in |-> p.in, out |-> i, side |-> p.side, entry |-> p.entry,
                     exit |-> x[1], why |-> x[2]]

\* _close_trade, and what run does with it.
Close(run, t, onCurve) ==
  [run EXCEPT !.open = {}, !.capital = @ + Gain(t), !.trades = Append(@, t),
              !.curve = IF onCurve THEN Append(@, run.capital + Gain(t)) ELSE @]

Exited(run, i, low, high) ==
  LET hit == {p \in run.open : Exit(p, low, high)[1] # 0}
  IN IF hit = {} THEN run
     ELSE LET p == CHOOSE p \in hit : TRUE IN Close(run, TradeOf(p, i, Exit(p, low, high)), TRUE)

\* The answer of the strategy; it holds, or raises, when there is none.
Advice == {{}} \union {{[side |-> s, stop |-> b[1], target |-> b[2]]} : s \in {1, -1}, b \in Brackets}

\* One candle: exits first, then a signal if flat, filled at the close.
ReplayCandle(low, close, high, answer) ==
  LET i == replay.i + 1
      run == Exited(replay, i, low, high)
      entry == {[in |-> i, side |-> a.side, entry |-> close, stop |-> a.stop, target |-> a.target]
                  : a \in answer}
  IN /\ ~replay.over /\ replay.i < MaxCandles
     /\ low <= close /\ close <= high
     /\ run.open # {} => answer = {}
     /\ replay' = [run EXCEPT !.i = i, !.last = close,
                              !.open = IF run.open = {} THEN entry ELSE @]
     /\ UNCHANGED jobVars

\* What is open is closed at the last close, and left out of the curve.
EndReplay ==
  /\ ~replay.over /\ replay.i > 0
  /\ replay' =
       IF replay.open = {} THEN [replay EXCEPT !.over = TRUE]
       ELSE LET p == CHOOSE p \in replay.open : TRUE
            IN [Close(replay, TradeOf(p, replay.i, <<replay.last, "end_of_data">>), FALSE)
                  EXCEPT !.over = TRUE]
  /\ UNCHANGED jobVars

ReplayAgain == replay.over /\ replay' = Fresh /\ UNCHANGED jobVars

JobsNext ==
  \/ \E j \in Jobs : RunBacktest(j) \/ EndJob(j, "done") \/ EndJob(j, "error") \/ LoseJob(j)
  \/ RestartJobs

ReplayNext ==
  \/ \E low, close, high \in Prices, answer \in Advice : ReplayCandle(low, close, high, answer)
  \/ EndReplay \/ ReplayAgain

BacktestsNext == JobsNext \/ ReplayNext

BacktestsSpec == BacktestsInit /\ [][BacktestsNext]_btVars

-----------------------------------------------------------------------------
(* Types.                                                                  *)
BacktestsTypeOK ==
  /\ jobRow \in [Jobs -> {"none", "running", "done", "error"}]
  /\ task \subseteq Jobs /\ lost \subseteq Jobs /\ faults \in 0..MaxFaults
  /\ replay.i \in 0..MaxCandles /\ replay.last \in Prices \union {0}
  /\ replay.open \subseteq Position /\ Cardinality(replay.open) <= 1
  /\ replay.trades \in Seq(Trade) /\ replay.curve \in Seq(Int)

(* Whoever polls a job waits for something: a row that says running has a task, unless *)
(* both of the task's last writes failed since the start (backtest.py:76, :173).        *)
RunningIsAlive == \A j \in Jobs : jobRow[j] = "running" => j \in task \union lost

(* The replay holds one position at a time and never exits on the candle it entered at, *)
(* and its curve is the running sum of the gains of its trades, in order, the one that   *)
(* the end of the data closed left out (engine.py:108).                                  *)
Gains(ts) == [k \in DOMAIN ts |-> Gain(ts[k])]
RunIsSound ==
  LET ts == replay.trades
      Market(k) == ts[k].why # "end_of_data"
  IN /\ replay.capital = SumTo(Gains(ts), Len(ts))
     /\ \A k \in DOMAIN ts :
          /\ Market(k) => ts[k].in < ts[k].out /\ replay.curve[k] = SumTo(Gains(ts), k)
          /\ k + 1 \in DOMAIN ts => Market(k) /\ ts[k].out <= ts[k + 1].in
     /\ \A p \in replay.open : \A k \in DOMAIN ts : ts[k].out <= p.in

=============================================================================
