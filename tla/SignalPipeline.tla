--------------------------- MODULE SignalPipeline ---------------------------
(***************************************************************************)
(* From candles to an approved order: the strategy agent, its strategies    *)
(* and regimes, the optional opinion of a language model, the confidence    *)
(* threshold, the risk agent and the guardrails (agents/strategy_agent.py,   *)
(* strategies/, analysis/regime_detector.py, agents/risk_agent.py,           *)
(* safety/guardrails.py; squad_orchestrator.py:316-392).                     *)
(*                                                                         *)
(* Prices are in tenths of a cent, and what the strategies compute from     *)
(* them is rounded to whole cents as they do; confidences are in            *)
(* ten-thousandths, rounded down.  An indicator is the class of values that *)
(* the code tells apart.                                                    *)
(***************************************************************************)
EXTENDS Integers, FiniteSets

CONSTANTS Opinions,      \* numbers a language model may answer with, {} if there is none
          MaxSizePct,    \* MAX_POSITION_SIZE_PCT, in tenths of a percent
          AllowStub,     \* ALLOW_STUB_DATA
          Quotes         \* current prices

ASSUME SignalAssumption ==
  /\ Opinions \subseteq Int /\ MaxSizePct \in Nat
  /\ AllowStub \in BOOLEAN /\ Quotes \subseteq Nat \ {0}

VARIABLES stage,     \* idle, signalled, assessed, judged
          signal,    \* the strategy agent's
          verdict    \* the risk agent's

signalVars == <<stage, signal, verdict>>

Cent == 10
StubPrice == 50000 * 100 * Cent
\* round(x, 2) of num / den cents; what lies midway goes either way in floating point.
Nearest(num, den) == {(2 * num + den - 1) \div (2 * den), (2 * num + den) \div (2 * den)}

MaxConfidence == 9500
Confidences == 0..MaxConfidence
Cap(x) == IF x < 1000 THEN 1000 ELSE IF x > MaxConfidence THEN MaxConfidence ELSE x   \* 0.10 .. 0.95

-----------------------------------------------------------------------------
(* The market as the analysis classifies it.                               *)

\* volume_ratio: below 0.3, 0.7, 0.8, at 0.8, to 1.2, to 1.5, beyond; or none is known,
\* and the strategy looks at the last candle's volume (busy) alone.
Volumes == {"thin", "low", "meagre", "edge", "fair", "brisk", "strong", "busy", "none"}
Rsis == {"oversold", "low", "mid", "high", "none"}
BandPlaces == {"floor", "low", "mid", "high"}
Calms == {"still", "quiet", "rough", "wild"}
Nears == {-1, 0, 2000}         \* no levels are known; at the support, at the resistance
Divergences == {-1000, -500, 0, 500, 1000}
Market ==   \* what a strategy does not look at, or not tell apart, is fixed
  [regime |-> "chaotic", trend |-> "bullish", rsi |-> "none", macd |-> 0, band |-> "mid",
   volume |-> "fair", near |-> -1, diverges |-> 0, averages |-> "up", belowPoc |-> TRUE,
   calm |-> "rough"]

\* detect_regime reads the averages and the volatility, the trend the same averages.
Inactive(g, v) == [Market EXCEPT !.regime = g, !.volume = v]
Sideways(t, r, m, b, v, n, d, p, c) ==
  [Market EXCEPT !.regime = "sideways", !.trend = t, !.rsi = r, !.macd = m, !.band = b,
                 !.volume = v, !.near = n, !.diverges = d, !.belowPoc = p, !.calm = c]
Upward(g, r, m, b, v, n, d, f, c) ==
  [Market EXCEPT !.regime = g, !.trend = IF g = "unknown" THEN "none" ELSE "bullish", !.rsi = r,
                 !.macd = m, !.band = b, !.volume = v, !.near = n, !.diverges = d,
                 !.averages = f, !.calm = c]

Idling  == {Inactive(g, v) : g \in {"chaotic", "strong_downtrend"}, v \in Volumes}
Ranging == {Sideways(t, r, m, b, v, n, d, p, c) :
              t \in {"bullish", "bearish"}, r \in Rsis \ {"oversold"}, m \in -1..1, b \in BandPlaces \ {"floor"},
              v \in Volumes \ {"edge", "busy"}, n \in Nears, d \in Divergences, p \in BOOLEAN,
              c \in Calms}
Rising  == {Upward(g, r, m, b, v, n, d, f, c) :
              g \in {"strong_uptrend", "unknown"}, r \in Rsis \ {"mid"}, m \in -1..1, b \in BandPlaces \ {"high"},
              v \in Volumes \ {"meagre", "brisk"}, n \in Nears, d \in Divergences \intersect Nat,
              f \in {"down", "flat", "up"}, c \in {"rough", "wild"}}

\* _stub_analysis: what stands for candles that could not be fetched.
Stub == [Market EXCEPT !.regime = "sideways", !.rsi = "mid", !.macd = 1, !.band = "low",
                       !.calm = "still", !.averages = "flat"]

\* strategies_for_regime: only the first one is asked.
FirstStrategy(regime) ==
  CASE regime \in {"strong_uptrend", "unknown"} -> "dca"
    [] regime = "sideways" -> "grid"
    [] OTHER -> "none"

-----------------------------------------------------------------------------
(* The strategies: their answers as a signal at the current price.          *)

NoStop == -1   \* None, which is not 0.0
Proposal(action, entry, stop, target, size, trust) ==
  [action |-> action, entry |-> entry, stop |-> stop, target |-> target, size |-> size,
   trust |-> trust, thin |-> FALSE, wild |-> FALSE, confidence |-> 0]
Hold(p) == Proposal("HOLD", p, NoStop, 0, 0, 0)
NoSignal == Hold(0)

\* GridTradingStrategy: the stop lies beyond ten levels, exits are level by level.
GridTrust(a) == 5000 + (CASE a.calm = "still" -> 2000 [] a.calm = "quiet" -> 1000 [] OTHER -> 0)
                + (IF a.volume \in {"meagre", "edge", "fair", "brisk"} THEN 1500 ELSE 0)
\* The tenth level and two spacings more, each rounded to the cent.
GridLevels(p, buys) == Nearest((IF buys THEN 9 ELSE 11) * p, 10 * Cent)
GridStops(p, buys) ==
  UNION {Nearest((IF buys THEN 98 ELSE 102) * level, 100) : level \in GridLevels(p, buys)}
Grid(a, p) ==
  {Proposal(IF a.belowPoc THEN "BUY" ELSE "SELL", p, Cent * stop, 0, 5, GridTrust(a)) :
     stop \in GridStops(p, a.belowPoc)}

\* DCAOptimizedStrategy: stop and target are set about the average of the three planned
\* entries, each rounded to the cent; the order is at the price.
DcaHits(a) == Cardinality({h \in 1..3 : \/ h = 1 /\ a.rsi = "oversold"
                                        \/ h = 2 /\ a.macd = 1
                                        \/ h = 3 /\ a.band = "floor"})
DcaEnters(a) == /\ a.averages # "up" /\ DcaHits(a) >= 2
                /\ a.volume \in {"edge", "fair", "brisk", "strong", "busy"}
DcaSums(p) == {x + y + z : x \in Nearest(p, Cent), y \in Nearest(99 * p, 100 * Cent),
                           z \in Nearest(98 * p, 100 * Cent)}
DcaTrust(a) == 6000 + (IF a.averages = "down" THEN 1500 ELSE 1000) + ((DcaHits(a) * 2500) \div 3)
DcaOrders(a, p, sum) ==
  {Proposal("BUY", p, Cent * stop, Cent * target, 20, DcaTrust(a)) :
     stop \in Nearest(97 * sum, 300), target \in Nearest(109 * sum, 300)}
Dca(a, p) ==
  IF DcaEnters(a) THEN UNION {DcaOrders(a, p, sum) : sum \in DcaSums(p)}
  ELSE {Proposal("HOLD", p, NoStop, 0, 20, 0)}

\* _generate_signal; the market goes along for the guardrails.
Proposals(a, p) ==
  CASE FirstStrategy(a.regime) = "grid" -> Grid(a, p)
    [] FirstStrategy(a.regime) = "dca" -> Dca(a, p)
    [] OTHER -> {Hold(p)}
InMarket(s, a) == [s EXCEPT !.thin = a.volume = "thin", !.wild = a.calm = "wild"]

-----------------------------------------------------------------------------
(* Confidence.                                                             *)

\* _calculate_confidence.
Hits(a, buys) ==
  Cardinality({h \in 1..3 :
    \/ h = 1 /\ a.rsi \in (IF buys THEN {"oversold", "low", "mid"} ELSE {"mid", "high"})
    \/ h = 2 /\ a.macd = (IF buys THEN 1 ELSE -1)
    \/ h = 3 /\ a.band \in (IF buys THEN {"floor", "low"} ELSE {"high"})})
VolumeScore(a) == CASE a.volume \in {"brisk", "strong"} -> 1500
                    [] a.volume = "fair" -> 700
                    [] OTHER -> 0
NearScore(a, buys) == IF a.near = -1 THEN 0 ELSE IF buys THEN a.near ELSE 2000 - a.near
Divergence(a, buys) ==
  IF (a.diverges > 0) = buys /\ a.diverges # 0
  THEN IF a.diverges \in {-500, 500} THEN 500 ELSE 1000 ELSE 0
AgentScore(a, action) ==
  LET buys == action = "BUY"
  IN IF action = "HOLD" THEN Cap(1000 + VolumeScore(a))
     ELSE Cap((IF a.trend = (IF buys THEN "bullish" ELSE "bearish") THEN 2500 ELSE 0)
              + 1000 * Hits(a, buys) + NearScore(a, buys) + VolumeScore(a) + Divergence(a, buys))

\* execute: six tenths of the strategy's own estimate, four of the agent's.
Blend(s, a) ==
  IF s.action = "HOLD" THEN AgentScore(a, "HOLD")
  ELSE Cap((6 * s.trust + 4 * AgentScore(a, s.action)) \div 10)

Analysed(s, a) == [InMarket(s, a) EXCEPT !.confidence = Blend(s, a), !.trust = 0]

-----------------------------------------------------------------------------
(* The guardrails; the entry is the current price.                         *)

Away(x, y) == IF x < y THEN y - x ELSE x - y
SizeOk(s) == s.size <= MaxSizePct
StopOk(s) == /\ s.stop # NoStop
             /\ s.action = "BUY" => s.stop < s.entry
             /\ s.action = "SELL" => s.stop > s.entry
RewardOk(s) == (s.stop > 0 /\ s.target > 0 /\ s.stop # s.entry)
                 => 2 * Away(s.target, s.entry) >= 5 * Away(s.stop, s.entry)
MarketOk(s) == ~s.wild /\ ~s.thin
GuardrailsPass(s) == SizeOk(s) /\ StopOk(s) /\ RewardOk(s) /\ MarketOk(s)

-----------------------------------------------------------------------------
NoVerdict == [approved |-> FALSE, confidence |-> 0, review |-> FALSE]
NextTick == stage' = "idle" /\ signal' = NoSignal /\ verdict' = NoVerdict

SignalInit == stage = "idle" /\ signal = NoSignal /\ verdict = NoVerdict

\* StrategyAgent.execute up to the language model.
Analyse(a, p) ==
  /\ stage' = "signalled" /\ UNCHANGED verdict
  /\ \E s \in Proposals(a, p) : signal' = Analysed(s, a)

\* No candles: the stub stands for them, and the orchestrator goes on only if allowed to.
AnalyseStub ==
  /\ stage = "idle" /\ AllowStub
  /\ Analyse(Stub, StubPrice)

\* Mutant: the model is asked about a HOLD, too.
Assess_Anything(raw) ==
  /\ stage = "signalled"
  /\ stage' = "assessed"
  /\ signal' = [signal EXCEPT !.confidence = Cap((@ + raw) \div 2)]
  /\ UNCHANGED verdict

\* _llm_assess: half of the confidence is the model's, whatever number that is.
Assess(raw) ==
  /\ stage = "signalled" /\ signal.action # "HOLD"
  /\ stage' = "assessed"
  /\ signal' = [signal EXCEPT !.confidence = Cap((@ + raw) \div 2)]
  /\ UNCHANGED verdict

\* No model, no answer, or an answer that is no number.
KeepConfidence ==
  /\ stage = "signalled"
  /\ stage' = "assessed" /\ UNCHANGED <<signal, verdict>>

SkipLowConfidence == stage = "assessed" /\ signal.confidence < 6000 /\ NextTick

\* _reflect_on_validation: a hidden risk caps the confidence and asks for a review, no more.
Reflected(v, hidden) ==
  [v EXCEPT !.review = hidden,
            !.confidence = IF hidden /\ v.confidence > 7500 THEN 7500 ELSE v.confidence]

\* RiskAgent: the rules decide. It subtracts the stop from the entry without asking whether
\* there is a stop.
Validate(affordable, hidden) ==
  LET passed == GuardrailsPass(signal) /\ affordable
  IN /\ stage = "assessed" /\ signal.confidence >= 6000
     /\ hidden => Opinions # {}
     /\ stage' = "judged" /\ UNCHANGED signal
     /\ verdict' = Reflected([NoVerdict EXCEPT !.approved = passed,
                                               !.confidence = IF passed THEN 9000 ELSE 3000],
                              hidden)

Finish == stage = "judged" /\ NextTick

SignalNext ==
  \/ stage = "idle" /\ \E a \in Idling, p \in Quotes : Analyse(a, p)
  \/ stage = "idle" /\ \E a \in Ranging, p \in Quotes : Analyse(a, p)
  \/ stage = "idle" /\ \E a \in Rising, p \in Quotes : Analyse(a, p)
  \/ AnalyseStub
  \/ \E raw \in Opinions : Assess(raw)
  \/ KeepConfidence \/ SkipLowConfidence
  \/ \E affordable, hidden \in BOOLEAN : Validate(affordable, hidden)
  \/ Finish

SignalSpec == SignalInit /\ [][SignalNext]_signalVars

-----------------------------------------------------------------------------
(* Types.                                                                  *)
SignalTypeOK ==
  /\ stage \in {"idle", "signalled", "assessed", "judged"}
  /\ signal \in [action: {"BUY", "SELL", "HOLD"}, entry: Nat, stop: Nat \union {NoStop},
                 target: Nat, size: 0..100, trust: {0}, thin: BOOLEAN, wild: BOOLEAN, confidence: Confidences]
  /\ verdict \in [approved: BOOLEAN, confidence: {0, 3000, 7500, 9000}, review: BOOLEAN]

(* A stop is on the side of the loss once a coin costs 25 cents; the rounding to cents     *)
(* brings that of some for 16 cents or less to the price or past it, and that of one for    *)
(* less than six tenths of a cent to 0.0, which is no stop at all.                           *)
Cheap == 25 * Cent
Tiny == 6
Stopped(s) ==
  /\ s.stop # NoStop
  /\ s.stop = 0 => s.entry < Tiny
  /\ s.entry >= Cheap => StopOk(s)

(* Only a trade with a stop reaches the risk agent, which computes with the stop before it *)
(* knows there is one (risk_agent.py:115), and of every coin but a cheap one on the side    *)
(* of the loss, whatever is rounded on the way to it: a HOLD has none, and what keeps it     *)
(* away is the confidence it scores, below the threshold in every market, and that the       *)
(* language model, whose answer could lift any score, is not asked.                          *)
TradesAreStopped ==
  (stage = "judged" \/ (stage = "assessed" /\ signal.confidence >= 6000))
    => signal.action \in {"BUY", "SELL"} /\ Stopped(signal)

=============================================================================
