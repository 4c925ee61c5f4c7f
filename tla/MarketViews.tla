------------------------------ MODULE MarketViews ------------------------------
(***************************************************************************)
(* The market views of the API (api/routes/market.py): what /signal,       *)
(* /regime, /confluence and /volume-profile answer for a pair, from the    *)
(* candles the exchange gives.  A request keeps nothing: `seen' is the     *)
(* last one, its indicators and its answer.  Prices are in thousandths,    *)
(* scores in tenths, shares of the price in thousandths.                   *)
(***************************************************************************)
EXTENDS Integers, Sequences, FiniteSets, FiniteSetsExt, Sums

CONSTANTS AskedPairs, MarketPairs,  \* pairs that are asked for; the allowlist
          Prices1000, Ranges1000,   \* prices, and average true ranges (0: none)
          Bars,                     \* candles the history walks over
          HistoryCap,               \* how far back it walks (200 in the code)
          Bins, MaxVolume           \* bins of the profile, volume of a bin

ASSUME MarketAssumption ==
  /\ Prices1000 \cup Ranges1000 \subseteq Nat
  /\ {Bars, HistoryCap, Bins} \subseteq Nat \ {0} /\ MaxVolume \in Nat

VARIABLE seen

Regimes == {"strong_uptrend", "strong_downtrend", "sideways", "chaotic", "unknown"}
Trends == {"bullish", "bearish", "unknown"}

\* A bar as detect_regime tells it: ema_fast - ema_slow, and the range, over the price.
Unread == [known |-> FALSE, spread |-> 0, volatility |-> 0]
Readings == {Unread} \cup [known : {TRUE}, spread : {-30, -15, 0, 5, 30}, volatility : {10, 30, 60}]
Spread(x) == IF x < 0 THEN -x ELSE x
DetectRegime(b) ==
  IF ~b.known THEN "unknown"
  ELSE IF b.volatility > 50 THEN "chaotic"
  ELSE IF Spread(b.spread) < 10 /\ b.volatility < 20 THEN "sideways"
  ELSE IF b.spread > 0 THEN "strong_uptrend" ELSE "strong_downtrend"

Unasked == [kind |-> "none"]
MarketInit == seen = Unasked

\* _decode_pair, then _fetch_candles: a pair that is not allowed asks the exchange
\* nothing; the exchange may fail, or give fewer candles than the indicators need.
RefusePair(pair) ==
  /\ seen = Unasked
  /\ \E why \in IF pair \in MarketPairs THEN {"market_data_unavailable", "insufficient_data"} ELSE {"invalid_pair"} :
       seen' = [kind |-> "refused", why |-> why]

Tell(answer) == seen = Unasked /\ seen' = answer

--------------------------------------------------------------------------------
(* get_signal: the score of each side, and the factors shown beside it.      *)
Indicators == [rsi : {"oversold", "neutral", "overbought"}, macd : {"bullish", "none", "bearish"},
               regime : Regimes, price : Prices1000, atr : Ranges1000]

Factors == {"rsi", "macd", "regime"}
Weight == [rsi |-> 4, macd |-> 3, regime |-> 3]
Direction(i) ==
  [rsi |-> CASE i.rsi = "oversold" -> 1 [] i.rsi = "overbought" -> -1 [] OTHER -> 0,
   macd |-> CASE i.macd = "bullish" -> 1 [] i.macd = "bearish" -> -1 [] OTHER -> 0,
   regime |-> CASE i.regime = "strong_uptrend" -> 1 [] i.regime = "strong_downtrend" -> -1 [] OTHER -> 0]

Balance(w) == w["rsi"] + w["macd"] + w["regime"]
Score(i, side) ==
  IF i.regime = "chaotic" THEN 0 ELSE Balance([f \in Factors |-> IF Direction(i)[f] = side THEN Weight[f] ELSE 0])

Action(i) ==
  IF Score(i, 1) >= 4 /\ Score(i, 1) > Score(i, -1) THEN 1
  ELSE IF Score(i, -1) >= 4 /\ Score(i, -1) > Score(i, 1) THEN -1 ELSE 0

\* Mutant: the factors are shown as if every action were a buy.
Contribution_OfABuy(i, action, f) == IF action = 0 THEN 0 ELSE Direction(i)[f] * Weight[f]
Contribution(i, action, f) == IF action = 0 THEN 0 ELSE action * Direction(i)[f] * Weight[f]

\* round(x, 2) of a positive number of thousandths; a tie falls either way.
Rounded(x) ==
  LET below == (x \div 10) * 10
  IN  CASE x - below < 5 -> {below} [] x - below > 5 -> {below + 10} [] OTHER -> {below, below + 10}

\* 1.5 and 3 ranges away; a range that is missing or 0 is 2% of the price.
Offset(i, halves) == ((IF i.atr = 0 THEN i.price \div 50 ELSE i.atr) * halves) \div 2
ServeSignal ==
  \E i \in Indicators :
    LET action == Action(i)
        confidence == IF action = 0 THEN 30 ELSE Min({95, 10 * Score(i, action)})
        shown == [f \in Factors |-> Contribution(i, action, f)]
    IN  \E stop \in Rounded(i.price - action * Offset(i, 3)), target \in Rounded(i.price + action * Offset(i, 6)) :
          Tell([kind |-> "signal", given |-> i, action |-> action, confidence |-> confidence, shown |-> shown,
                levels |-> IF action = 0 THEN <<>> ELSE <<stop, target>>])

--------------------------------------------------------------------------------
(* _regime_history: back from the latest bar to the first of another regime. *)
HistoryOf(s, current) ==
  LET oldest == Max({1, Len(s) - HistoryCap + 1})
      others == {n \in oldest..Len(s) : s[n] # current}
  IN  IF others = {} THEN [bars |-> Len(s) - oldest + 1, from |-> "none"]
      ELSE [bars |-> Len(s) - Max(others), from |-> s[Max(others)]]

ServeRegime ==
  \E before \in [1..Bars - 1 -> Regimes], last \in Readings :
    LET now == DetectRegime(last)  s == Append(before, now)
    IN  Tell([kind |-> "regime", given |-> s, regime |-> now, told |-> HistoryOf(s, now)])

\* get_confluence: a frame that fails to load, or has no averages, is unknown.
ServeConfluence ==
  \E t \in [{"1h", "4h", "1d"} -> Trends] :
    LET known == {t[f] : f \in DOMAIN t} \ {"unknown"}
        aligned == Cardinality(known) = 1 /\ \A f \in DOMAIN t : t[f] # "unknown"
    IN  Tell([kind |-> "confluence", given |-> t, aligned |-> aligned,
              direction |-> IF aligned THEN t["1h"] ELSE "none"])

--------------------------------------------------------------------------------
(* VolumeProfile.analyze, on the volume of each bin; the candles span some    *)
(* range of prices, and the bins are few enough for the list of low volume.  *)
VolumeOf(v, lo, hi) == SumTo(v, hi) - SumTo(v, lo - 1)
Poc(v) == Min({n \in 1..Bins : \A m \in 1..Bins : v[m] <= v[n]})
Reached(v, a) == 10 * VolumeOf(v, a.lo, a.hi) >= 7 * VolumeOf(v, 1, Bins)
Beside(v, n) == IF n \in 1..Bins THEN v[n] ELSE -1

\* One bin more, the heavier of the two beside the area; the upper one of equals.
Widened(v, a) ==
  IF Reached(v, a) THEN a
  ELSE IF Beside(v, a.hi + 1) >= Beside(v, a.lo - 1) THEN [a EXCEPT !.hi = @ + 1] ELSE [a EXCEPT !.lo = @ - 1]

ValueArea(v) ==
  LET area[n \in 0..Bins] == IF n = 0 THEN [lo |-> Poc(v), hi |-> Poc(v)] ELSE Widened(v, area[n - 1])
  IN area[Bins]
\* Below 0.3 of the mean; the first five of them are told.
ThinBins(v) == {n \in 1..Bins : 10 * Bins * v[n] < 3 * VolumeOf(v, 1, Bins)}
LowVolume(v) == {n \in ThinBins(v) : Cardinality({m \in ThinBins(v) : m < n}) < 5}

ServeProfile ==
  \E v \in [1..Bins -> 0..MaxVolume] :
    Tell([kind |-> "profile", given |-> v, poc |-> Poc(v), area |-> ValueArea(v), lvn |-> LowVolume(v)])

Served == seen # Unasked /\ seen' = Unasked

MarketNext ==
  \/ \E pair \in AskedPairs : RefusePair(pair)
  \/ ServeSignal \/ ServeRegime \/ ServeConfluence \/ ServeProfile
  \/ Served

MarketSpec == MarketInit /\ [][MarketNext]_seen

--------------------------------------------------------------------------------
\* The kinds of answers.
MarketTypeOK == seen.kind \in {"none", "refused", "signal", "regime", "confluence", "profile"}

\* The factors account for the confidence: a trade is recommended when those in its
\* favour reach 0.4 and outweigh the others, its confidence is their sum, a hold has none
\* and no levels; the stop is on the losing side of the price whenever it is half a cent away.
SignalExplained ==
  seen.kind = "signal" =>
    LET for == Balance([f \in Factors |-> IF seen.shown[f] > 0 THEN seen.shown[f] ELSE 0])
        away == Offset(seen.given, 3)
    IN  IF seen.action = 0 THEN seen.levels = <<>> /\ seen.confidence = 30 /\ \A f \in Factors : seen.shown[f] = 0
        ELSE /\ for >= 4 /\ Balance(seen.shown) > 0 /\ seen.confidence = Min({95, 10 * for})
             /\ seen.given.regime # "chaotic"
             /\ away > 5 => /\ seen.action * (seen.given.price - seen.levels[1]) > 0
                            /\ seen.action * (seen.levels[2] - seen.given.price) > 0

\* The bars said to be of the regime are all of it, and the bar before them is the
\* one the transition names, unless the walk has reached its end.
HistoryExact ==
  seen.kind = "regime" =>
    LET n == seen.told.bars IN
    /\ n \in 1..Min({Bars, HistoryCap})
    /\ \A k \in Bars - n + 1..Bars : seen.given[k] = seen.regime
    /\ IF seen.told.from = "none" THEN n = Min({Bars, HistoryCap})
       ELSE seen.told.from = seen.given[Bars - n] /\ seen.told.from # seen.regime

\* The value area is one stretch of bins about the heaviest, holds 70% of the volume,
\* and without one of its ends would not; a bin of low volume is never the heaviest.
AreaTight ==
  seen.kind = "profile" =>
    LET v == seen.given  a == seen.area IN
    /\ 1 <= a.lo /\ a.lo <= seen.poc /\ seen.poc <= a.hi /\ a.hi <= Bins
    /\ Reached(v, a)
    /\ a.lo < a.hi => \/ a.lo < seen.poc /\ ~Reached(v, [a EXCEPT !.lo = @ + 1])
                      \/ a.hi > seen.poc /\ ~Reached(v, [a EXCEPT !.hi = @ - 1])
    /\ VolumeOf(v, 1, Bins) > 0 => seen.poc \notin seen.lvn

\* Timeframes are called aligned only when all three are known and point the same way.
AlignedMeansAll ==
  seen.kind = "confluence" =>
    (seen.aligned <=> \A f, g \in DOMAIN seen.given : seen.given[f] = seen.given[g] /\ seen.given[f] # "unknown")

\* What the four views show is what they were computed from (market.py:53, :434, :566,
\* volume_profile.py:42): two computations of one figure agree in every case.
ViewsExplain == SignalExplained /\ HistoryExact /\ AreaTight /\ AlignedMeansAll
================================================================================
