---------------------------- MODULE TechnicalSignals ----------------------------
(***************************************************************************)
(* The descriptive states of one bar and the signal classified from them:  *)
(* technical/states.py and technical/signals.py.  Prices are integers;     *)
(* averages, levels and ratios are integers in units of 1 / Scale, which   *)
(* stand for the code's floats (both engines divide in the same places).   *)
(***************************************************************************)
EXTENDS Integers, Sequences, FiniteSetsExt

CONSTANTS
    Scale,
    Config,   \* TechnicalConfig; percentages and ATR multiples in hundredths
    None

ConfigAssumption ==
    /\ Scale \in Nat \ {0} /\ Len(Config.ema) = 4
    /\ \A i \in 1..3 : Config.ema[i] <= Config.ema[i + 1]
    /\ Config.oversold < Config.weak /\ Config.weak <= Config.strong /\ Config.strong < Config.overbought
    /\ {Config.ema[i] : i \in 1..4} \cup {Config.rsi, Config.atr, Config.volume, Config.window, Config.touches,
        Config.lookback, Config.history} \subseteq Nat \ {0}

Fast == Config.ema[1]
Mid == Config.ema[2]
Slow == Config.ema[3]

Cross(a, b, beforeA, beforeB) ==
    IF None \in {a, b, beforeA, beforeB} THEN None
    ELSE IF a > b /\ beforeA <= beforeB THEN "bullish"
    ELSE IF a < b /\ beforeA >= beforeB THEN "bearish" ELSE None

\* ema_state: `previous` is None on the first bar.
EmaState(current, previous, close) ==
    LET before(p) == IF previous = None THEN None ELSE previous[p]
        f == current[Fast]  m == current[Mid]  s == current[Slow]
    IN [alignment |-> IF None \in {f, m, s} THEN None
                      ELSE IF f > m /\ m > s THEN "bullish" ELSE IF f < m /\ m < s THEN "bearish" ELSE "mixed",
        side |-> IF m = None THEN None ELSE IF close > m THEN "above" ELSE "below",
        crosses |-> <<Cross(f, m, before(Fast), before(Mid)), Cross(m, s, before(Mid), before(Slow))>>]

\* vwap_state: previousVwap is None unless the previous bar is in the same regular session.
VwapState(value, close, previousVwap, previousClose) ==
    IF value = None THEN [position |-> None, distance |-> None]
    ELSE [distance |-> close - value,
          position |-> IF previousVwap # None /\ close > value /\ previousClose <= previousVwap THEN "crossing_above"
                       ELSE IF previousVwap # None /\ close <= value /\ previousClose > previousVwap THEN "crossing_below"
                       ELSE IF close > value THEN "above" ELSE "below"]

Momentum(rsi) ==
    IF rsi = None THEN None
    ELSE IF rsi >= Config.overbought * Scale THEN "overbought" ELSE IF rsi >= Config.strong * Scale THEN "strong"
    ELSE IF rsi <= Config.oversold * Scale THEN "oversold" ELSE IF rsi <= Config.weak * Scale THEN "weak" ELSE "neutral"

\* classify_gap: the percentage is compared in hundredths.
ClassifyGap(open, previousClose) ==
    IF previousClose = None THEN None
    ELSE LET change == open - previousClose  threshold == previousClose * Config.gap
         IN [kind |-> IF change * 10000 >= threshold THEN "up" ELSE IF change * 10000 <= -threshold THEN "down" ELSE "none",
             change |-> change]

\* evidence_items: the direction of each kind of evidence, None where the item is absent.
Toward(value, bullish, bearish) == IF value \in bullish THEN 1 ELSE IF value \in bearish THEN -1 ELSE None
EvidenceItems(s) ==
    [structure |-> Toward(s.trend, {"bullish"}, {"bearish"}),
     alignment |-> Toward(s.emaState.alignment, {"bullish"}, {"bearish"}),
     side      |-> Toward(s.emaState.side, {"above"}, {"below"}),
     vwap      |-> Toward(s.vwapState.position, {"above", "crossing_above"}, {"below", "crossing_below"}),
     momentum  |-> Toward(s.momentum, {"strong", "overbought"}, {"weak", "oversold"}),
     gap       |-> IF s.gap = None THEN None ELSE Toward(s.gap.kind, {"up"}, {"down"})]

Direction(state) ==
    IF state \in {"bullish_setup", "bullish_momentum", "breakout_watch"} THEN 1
    ELSE IF state \in {"bearish_setup", "bearish_momentum", "breakdown_watch"} THEN -1 ELSE 0

Confidence(state, items, s) ==
    LET d == Direction(state)
        count(sign) == Cardinality({n \in DOMAIN items : items[n] = sign})
        elevated == s.relative # None /\ s.relative * 100 >= Config.elevated * Scale
        agreeing == count(d) + IF elevated THEN 1 ELSE 0
    IN IF d = 0 THEN <<"LOW", 0, 0>>
       ELSE <<IF agreeing >= 5 /\ count(-d) = 0 THEN "HIGH"
              ELSE IF agreeing >= 3 /\ count(-d) <= 1 THEN "MEDIUM" ELSE "LOW", agreeing, count(-d)>>

\* classify: the states in the order of the documentation's table, first match wins.
StateOf(s, i, price) ==
    LET setup(d) == i.structure = d /\ i.alignment = d /\ price = d
        moving(d) == /\ i.structure # -d /\ i.alignment = d /\ i.side = d
                     /\ i.momentum = d /\ i.vwap # -d
    IN IF s.breakout = "breakout" THEN "breakout_watch"
       ELSE IF s.breakout = "breakdown" THEN "breakdown_watch"
       ELSE IF setup(1) THEN "bullish_setup" ELSE IF setup(-1) THEN "bearish_setup"
       ELSE IF s.trend = "range" THEN "range"
       ELSE IF moving(1) THEN "bullish_momentum" ELSE IF moving(-1) THEN "bearish_momentum" ELSE "mixed"
ClassifiedBy(s, i, state) == [state |-> state, confidence |-> Confidence(state, i, s)]
Judged(s, i) == ClassifiedBy(s, i, StateOf(s, i, IF i.vwap # None THEN i.vwap ELSE i.side))
Classified(s) ==
    IF None \in {s.ema[Mid], s.rsi, s.atr} THEN [state |-> "insufficient_data", confidence |-> <<"LOW", 0, 0>>]
    ELSE Judged(s, EvidenceItems(s))
=============================================================================
