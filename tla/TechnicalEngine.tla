----------------------------- MODULE TechnicalEngine -----------------------------
(***************************************************************************)
(* The two technical engines.  TechnicalEngine.replay recomputes a whole   *)
(* series; IncrementalTechnicalEngine.update keeps a bounded state per     *)
(* interval and takes one completed bar at a time, in whatever order the   *)
(* bars reach it.  The specification runs the incremental engine and keeps *)
(* what it accepted and emitted, so that the replay can be compared.       *)
(***************************************************************************)
EXTENDS MarketCalendar, TLC

CONSTANTS
    Scale, Config,
    Intervals     \* lengths of the timeframes; DayLength is the daily one

S == INSTANCE TechnicalSignals

VARIABLES
    arriving,  \* the world: what can still be delivered is any bar of it
    series,    \* IncrementalTechnicalEngine._series
    fed,       \* per interval, the bars update() accepted
    emitted    \* per interval, the snapshots it returned
engineVars == <<arriving, series, fed, emitted>>

Mean(values) == (FoldSeq(LAMBDA x, n : x + n, 0, values) * Scale) \div Len(values)
Larger(a, b) == IF a > b THEN a ELSE b
Magnitude(x) == IF x < 0 THEN -x ELSE x
Gain(change) == Larger(change, 0)
Loss(change) == Larger(-change, 0)
Intraday(b) == b.len # DayLength
Regular(b) == Classify(b.at) = "regular"
Typical(b) == b.high + b.low + b.close  \* three times typical_price
TrueRange(b, previousClose) ==
    IF previousClose = None THEN b.high - b.low
    ELSE Max({b.high - b.low, Magnitude(b.high - previousClose), Magnitude(b.low - previousClose)})
RsiValue(gain, loss) == IF loss = 0 THEN (IF gain = 0 THEN 50 ELSE 100) * Scale
                        ELSE (100 * Scale * gain) \div (gain + loss)
EmaNext(previous, x, n) == ((x * Scale - previous) * 2) \div (n + 1) + previous
WilderNext(previous, x, n) == (previous * (n - 1) + x * Scale) \div n

-----------------------------------------------------------------------------
\* structure.py and levels.py, used by both engines.
Relation(price, previous) ==
    IF Magnitude(price - previous) * 10000 <= previous * Config.equal THEN "E" ELSE IF price > previous THEN "H" ELSE "L"
Label(price, previous) == IF previous = None THEN None ELSE Relation(price, previous.price)

StructureFrom(high, low) ==
    LET h == IF high = None THEN None ELSE high.label  l == IF low = None THEN None ELSE low.label
    IN IF None \in {h, l} THEN "insufficient_data"
       ELSE IF h = "H" /\ l = "H" THEN "bullish" ELSE IF h = "L" /\ l = "L" THEN "bearish"
       ELSE IF h = "E" \/ l = "E" \/ (h = "L" /\ l = "H") THEN "range" ELSE "mixed"

Tolerance(price, atr, pct, multiple) ==
    Larger((price * pct) \div 10000, ((IF atr = None THEN 0 ELSE atr) * multiple) \div 100)

\* cluster_levels: greedy over the prices in order; a pivot joins while it is near the running mean.
Prices(cluster) == [i \in DOMAIN cluster |-> cluster[i].price]
Clusters(pivots, atr) ==
    LET ordered == SortSeq(pivots, LAMBDA p, q : p.price < q.price \/ (p.price = q.price /\ p.index < q.index))
        joins(p, c) == p.price * Scale - Mean(Prices(c)) <= Tolerance(Mean(Prices(c)), atr, Config.clusterPct, Config.clusterAtr)
    IN FoldLeft(LAMBDA cs, p : IF cs # <<>> /\ joins(p, Last(cs)) THEN Append(Front(cs), Append(Last(cs), p))
                               ELSE Append(cs, <<p>>), <<>>, ordered)
LevelOf(c) ==
    LET of(kind) == Cardinality({i \in DOMAIN c : c[i].kind = kind})
    IN [price |-> Mean(Prices(c)), touches |-> Len(c), highs |-> of("high"), lows |-> of("low"),
        first |-> Min({c[i].at : i \in DOMAIN c}), last |-> Max({c[i].at : i \in DOMAIN c})]
ClusterLevels(pivots, atr) ==
    LET kept == SelectSeq(Clusters(pivots, atr), LAMBDA c : Len(c) >= Config.touches)
    IN [k \in DOMAIN kept |-> LevelOf(kept[k])]

\* split_levels: nearest first; a level exactly at the price is neither.
Supports(levels, price) == Reverse(SelectSeq(levels, LAMBDA l : l.price < price))
Resistances(levels, price) == SelectSeq(levels, LAMBDA l : l.price > price)

\* breakout_state: failures of a recent break first, the newest first; then the lowest broken level up, the highest down.
BreakoutState(close, priorCloses, levels, atr, recent) ==
    LET pad == Tolerance(close, atr, Config.bufferPct, Config.bufferAtr)
        failed == {i \in DOMAIN recent : \/ recent[i].kind = "breakout" /\ close < recent[i].level
                                         \/ recent[i].kind = "breakdown" /\ close > recent[i].level}
        previous == Last(priorCloses) * Scale
        some(test(_)) == \E i \in DOMAIN priorCloses : test(priorCloses[i] * Scale)
        up == {levels[i].price : i \in {j \in DOMAIN levels : LET at == levels[j].price IN
                  close > at + pad /\ previous <= at + pad /\ some(LAMBDA c : c <= at)}}
        down == {levels[i].price : i \in {j \in DOMAIN levels : LET at == levels[j].price IN
                  close < at - pad /\ previous >= at - pad /\ some(LAMBDA c : c >= at)}}
        found(state, level) == [state |-> state, level |-> level, pad |-> pad]
    IN IF failed # {} THEN found("failed_" \o recent[Max(failed)].kind, recent[Max(failed)].level)
       ELSE IF priorCloses = <<>> THEN found("none", None)
       ELSE IF up # {} THEN found("breakout", Min(up))
       ELSE IF down # {} THEN found("breakdown", Max(down)) ELSE found("none", None)
IsBreak(b) == b.state \in {"breakout", "breakdown"}

\* The snapshot of bar b: v holds what each engine computed in its own way.
Snapshot(b, index, v) ==
    LET s == [at |-> b.at, index |-> index, price |-> b.close, volume |-> b.volume,
              ema |-> v.ema, vwap |-> v.vwap, rsi |-> v.rsi, atr |-> v.atr, average |-> v.average,
              relative |-> IF v.average = None \/ v.average = 0 THEN None ELSE (b.volume * Scale * Scale) \div v.average,
              trend |-> StructureFrom(v.high, v.low), high |-> v.high, low |-> v.low, counts |-> v.counts,
              supports |-> Supports(v.levels, b.close * Scale), resistances |-> Resistances(v.levels, b.close * Scale),
              gap |-> v.gap, breakout |-> v.break.state, level |-> v.break.level, pad |-> v.break.pad,
              emaState |-> S!EmaState(v.ema, v.previousEma, b.close * Scale),
              vwapState |-> S!VwapState(v.vwap, b.close * Scale, v.previousVwap, v.previousClose),
              momentum |-> S!Momentum(v.rsi)]
    IN s @@ [signal |-> S!Classified(s)]

-----------------------------------------------------------------------------
\* TechnicalEngine.replay: every value from the whole series, cut at the bar's own index.
FindPivots(bars) ==
    LET w == Config.window
        around(i) == ((i - w)..(i + w)) \ {i}
        high(i) == \A j \in around(i) : IF j < i THEN bars[i].high > bars[j].high ELSE bars[i].high >= bars[j].high
        low(i) == \A j \in around(i) : IF j < i THEN bars[i].low < bars[j].low ELSE bars[i].low <= bars[j].low
        pivot(kind, i, price) == [kind |-> kind, index |-> i, confirmed |-> i + w, price |-> price, at |-> bars[i].at]
        at(i) == IF i <= w \/ i > Len(bars) - w THEN <<>>
                 ELSE (IF high(i) THEN <<pivot("high", i, bars[i].high)>> ELSE <<>>)
                      \o (IF low(i) THEN <<pivot("low", i, bars[i].low)>> ELSE <<>>)
    IN FoldLeft(LAMBDA found, i : found \o at(i), <<>>, [i \in DOMAIN bars |-> i])
LastOfKind(pivots, kind) ==
    LET at == {i \in DOMAIN pivots : pivots[i].kind = kind} IN IF at = {} THEN None ELSE pivots[Max(at)]
LabelPivots(pivots) ==
    FoldLeft(LAMBDA done, p : Append(done, p @@ [label |-> Label(p.price, LastOfKind(done, p.kind))]), <<>>, pivots)

Ema(closes, n) ==
    LET e[i \in DOMAIN closes] == IF i < n THEN None ELSE IF i = n THEN Mean(SubSeq(closes, 1, n))
                                  ELSE EmaNext(e[i - 1], closes[i], n)
    IN e
Wilder(values, n) ==
    LET e[i \in DOMAIN values] == IF i < n THEN None ELSE IF i = n THEN Mean(SubSeq(values, 1, n))
                                  ELSE WilderNext(e[i - 1], values[i], n)
    IN e
Rsi(closes, i) ==
    LET changes == [j \in 1..(i - 1) |-> closes[j + 1] - closes[j]]
        of(part(_)) == Wilder([j \in DOMAIN changes |-> part(changes[j])], Config.rsi)[i - 1]
    IN IF i <= Config.rsi THEN None ELSE RsiValue(of(Gain), of(Loss))
Ranges(bars) == [i \in DOMAIN bars |-> TrueRange(bars[i], IF i = 1 THEN None ELSE bars[i - 1].close)]

\* The session's traded value over its volume, from the regular bars of the bar's own day.
Vwap(bars, i) ==
    LET day == SelectSeq(SubSeq(bars, 1, i), LAMBDA b : Regular(b) /\ DayOf(b.at) = DayOf(bars[i].at))
        volume == FoldSeq(LAMBDA b, n : b.volume + n, 0, day)
    IN IF ~Intraday(bars[i]) \/ ~Regular(bars[i]) \/ volume = 0 THEN None
       ELSE (FoldSeq(LAMBDA b, n : Typical(b) * b.volume + n, 0, day) * Scale) \div (3 * volume)
AverageVolume(bars, i) == IF i <= Config.volume THEN None
                          ELSE Mean([j \in 1..Config.volume |-> bars[i - Config.volume + j - 1].volume])

\* _gaps: a session's first regular open against the previous trading session's last regular close.
Gap(bars, i) ==
    LET b == bars[i]
        regular == SelectSeq(SubSeq(bars, 1, i), Regular)
        earlier == SelectSeq(regular, LAMBDA x : DayOf(x.at) < DayOf(b.at))
        first == SelectSeq(regular, LAMBDA x : DayOf(x.at) = DayOf(b.at))[1]
        follows(d) == d = PreviousTradingDay(DayOf(b.at))
    IN IF ~Intraday(b) THEN S!ClassifyGap(b.open, IF i > 1 /\ follows(DayOf(bars[i - 1].at)) THEN bars[i - 1].close ELSE None)
       ELSE IF ~Regular(b) THEN None
       ELSE S!ClassifyGap(first.open, IF earlier # <<>> /\ follows(DayOf(Last(earlier).at)) THEN Last(earlier).close ELSE None)

Replay(bars) ==
    LET closes == [i \in DOMAIN bars |-> bars[i].close]
        pivots == LabelPivots(FindPivots(bars))
        known(i) == SelectSeq(pivots, LAMBDA p : p.confirmed <= i)
        atr == Wilder(Ranges(bars), Config.atr)
        latest(ps) == SubSeq(ps, Larger(1, Len(ps) - Config.history + 1), Len(ps))
        levels == [i \in 0..Len(bars) |-> IF i = 0 THEN <<>> ELSE ClusterLevels(latest(known(i)), atr[i])]
        emas == [p \in {Config.ema[k] : k \in 1..4} |-> Ema(closes, p)]
        at(i, f(_)) == IF i = 0 THEN None ELSE f(i)
        ema(i) == [p \in DOMAIN emas |-> emas[p][i]]
        step(walk, i) ==
            LET recent == SelectSeq(walk.events, LAMBDA e : i - e.index <= Config.lookback)
                break == BreakoutState(closes[i] * Scale, SubSeq(closes, Larger(1, i - Config.lookback), i - 1), levels[i - 1], atr[i], recent)
                sameDay == i > 1 /\ DayOf(bars[i - 1].at) = DayOf(bars[i].at)
                count(kind) == Cardinality({k \in DOMAIN known(i) : known(i)[k].kind = kind})
            IN [events |-> IF IsBreak(break) THEN Append(walk.events, [index |-> i, kind |-> break.state, level |-> break.level])
                           ELSE walk.events,
                out |-> Append(walk.out, Snapshot(bars[i], i,
                   [ema |-> ema(i), previousEma |-> at(i - 1, ema), vwap |-> Vwap(bars, i),
                    previousVwap |-> IF sameDay THEN Vwap(bars, i - 1) ELSE None,
                    previousClose |-> IF i = 1 THEN None ELSE closes[i - 1] * Scale,
                    rsi |-> Rsi(closes, i), atr |-> atr[i], average |-> AverageVolume(bars, i), gap |-> Gap(bars, i),
                    high |-> LastOfKind(known(i), "high"), low |-> LastOfKind(known(i), "low"),
                    counts |-> <<count("high"), count("low")>>, levels |-> levels[i], break |-> break]))]
    IN FoldLeft(step, [events |-> <<>>, out |-> <<>>], [i \in DOMAIN bars |-> i]).out

-----------------------------------------------------------------------------
\* IncrementalTechnicalEngine: what _Series retains, one bar at a time.
Average0 == [seed |-> <<>>, value |-> None]
Fed(average, x, n, Next(_, _, _)) ==
    IF average.value # None THEN [average EXCEPT !.value = Next(average.value, x, n)]
    ELSE IF Len(average.seed) + 1 = n THEN [seed |-> <<>>, value |-> Mean(Append(average.seed, x))]
    ELSE [average EXCEPT !.seed = Append(@, x)]
Kept(values, x, n) == LET all == Append(values, x) IN SubSeq(all, Larger(1, Len(all) - n + 1), Len(all))

Series0 == [count |-> 0, last |-> None, previousClose |-> None,
            emas |-> [p \in {Config.ema[k] : k \in 1..4} |-> Average0], previousEma |-> None,
            gain |-> Average0, loss |-> Average0, atr |-> Average0,
            vwapDay |-> None, traded |-> 0, shares |-> 0, previousVwap |-> None,
            volumes |-> <<>>, window |-> <<>>, pivots |-> <<>>, high |-> None, low |-> None, counts |-> <<0, 0>>,
            closes |-> <<>>, events |-> <<>>, levels |-> <<>>,
            gapDay |-> None, gapClose |-> None, gapDate |-> None, gap |-> None, snapshot |-> None]

\* The pivots the candidate in the middle of the window turns out to be, now that its right side exists.
\* Mutant: equal highs or lows on either side hide a pivot.
Candidates_Strict(window, i) ==
    LET w == Config.window
        c == window[w + 1]
        others == {window[j] : j \in DOMAIN window \ {w + 1}}
        pivot(kind, price) == [kind |-> kind, index |-> c.index, confirmed |-> i, price |-> price, at |-> c.at]
    IN IF Len(window) < 2 * w + 1 THEN <<None, None>>
       ELSE <<IF \A x \in others : c.high > x.high THEN pivot("high", c.high) ELSE None,
              IF \A x \in others : c.low < x.low THEN pivot("low", c.low) ELSE None>>
Candidates(window, i) ==
    LET w == Config.window
        c == window[w + 1]
        high == \A j \in DOMAIN window \ {w + 1} : IF j <= w THEN c.high > window[j].high ELSE c.high >= window[j].high
        low == \A j \in DOMAIN window \ {w + 1} : IF j <= w THEN c.low < window[j].low ELSE c.low <= window[j].low
        pivot(kind, price) == [kind |-> kind, index |-> c.index, confirmed |-> i, price |-> price, at |-> c.at]
    IN IF Len(window) < 2 * w + 1 THEN <<None, None>>
       ELSE <<IF high THEN pivot("high", c.high) ELSE None, IF low THEN pivot("low", c.low) ELSE None>>
Confirmed(pivot, previous) == IF pivot = None THEN previous ELSE pivot @@ [label |-> Label(pivot.price, previous)]

\* _gap: the session's gap is fixed at its first regular bar; last close and date advance with every regular bar.
GapState(s, b) ==
    LET day == DayOf(b.at)
        follows == s.gapDate = PreviousTradingDay(day)
        daily == IF s.previousClose # None /\ DayOf(s.last) = PreviousTradingDay(day) THEN s.previousClose ELSE None
        opening == S!ClassifyGap(b.open, IF follows THEN s.gapClose ELSE None)
    IN IF ~Intraday(b) THEN [now |-> S!ClassifyGap(b.open, daily), state |-> s]
       ELSE IF ~Regular(b) THEN [now |-> None, state |-> s]
       ELSE LET gap == IF day = s.gapDay THEN s.gap ELSE opening
            IN [now |-> gap, state |-> [s EXCEPT !.gapDay = day, !.gap = gap, !.gapClose = b.close, !.gapDate = day]]

\* _step
Step(s, b) ==
    LET i == s.count + 1
        emas == [p \in DOMAIN s.emas |-> Fed(s.emas[p], b.close, p, EmaNext)]
        ema == [p \in DOMAIN emas |-> emas[p].value]
        change == b.close - s.previousClose
        first == s.previousClose = None
        gain == IF first THEN s.gain ELSE Fed(s.gain, Gain(change), Config.rsi, WilderNext)
        loss == IF first THEN s.loss ELSE Fed(s.loss, Loss(change), Config.rsi, WilderNext)
        atr == Fed(s.atr, TrueRange(b, s.previousClose), Config.atr, WilderNext)
        counted == Intraday(b) /\ Regular(b)
        newDay == DayOf(b.at) # s.vwapDay
        traded == IF ~counted THEN s.traded ELSE (IF newDay THEN 0 ELSE s.traded) + Typical(b) * b.volume
        shares == IF ~counted THEN s.shares ELSE (IF newDay THEN 0 ELSE s.shares) + b.volume
        vwap == IF counted /\ shares > 0 THEN (traded * Scale) \div (3 * shares) ELSE None
        window == Kept(s.window, [index |-> i, high |-> b.high, low |-> b.low, at |-> b.at], 2 * Config.window + 1)
        found == Candidates(window, i)
        high == Confirmed(found[1], s.high)
        low == Confirmed(found[2], s.low)
        withHigh == IF found[1] = None THEN s.pivots ELSE Kept(s.pivots, high, Config.history)
        pivots == IF found[2] = None THEN withHigh ELSE Kept(withHigh, low, Config.history)
        counts == <<s.counts[1] + (IF found[1] = None THEN 0 ELSE 1), s.counts[2] + (IF found[2] = None THEN 0 ELSE 1)>>
        levels == ClusterLevels(pivots, atr.value)
        recent == SelectSeq(s.events, LAMBDA e : i - e.index <= Config.lookback)
        break == BreakoutState(b.close * Scale, s.closes, s.levels, atr.value, recent)
        gap == GapState(s, b)
        sameDay == s.last # None /\ DayOf(s.last) = DayOf(b.at)
        snapshot == Snapshot(b, i,
            [ema |-> ema, previousEma |-> s.previousEma, vwap |-> vwap, previousVwap |-> IF sameDay THEN s.previousVwap ELSE None,
             previousClose |-> IF first THEN None ELSE s.previousClose * Scale,
             rsi |-> IF gain.value = None THEN None ELSE RsiValue(gain.value, loss.value), atr |-> atr.value,
             average |-> IF Len(s.volumes) = Config.volume THEN Mean(s.volumes) ELSE None, gap |-> gap.now,
             high |-> high, low |-> low, counts |-> counts, levels |-> levels, break |-> break])
    IN [gap.state EXCEPT !.count = i, !.last = b.at, !.previousClose = b.close, !.emas = emas, !.previousEma = ema,
            !.gain = gain, !.loss = loss, !.atr = atr, !.vwapDay = IF counted THEN DayOf(b.at) ELSE @, !.traded = traded,
            !.shares = shares, !.previousVwap = vwap, !.volumes = Kept(@, b.volume, Config.volume), !.window = window,
            !.pivots = pivots, !.high = high, !.low = low, !.counts = counts, !.closes = Kept(@, b.close, Config.lookback),
            !.events = IF IsBreak(break) THEN Append(recent, [index |-> i, kind |-> break.state, level |-> break.level]) ELSE recent,
            !.levels = levels, !.snapshot = snapshot]

\* validate_calendar_series([bar]): a daily bar is stamped at midnight of a trading day.
OnCalendar(b) == IF Intraday(b) THEN ValidCalendarSeries(<<b>>) ELSE DayOf(b.at) \in Trading /\ TimeOfDay(b.at) = 0

\* worlds: the bars that may arrive, [interval -> sequence of bars].
EngineInit(worlds) ==
              /\ arriving \in worlds
              /\ series = [k \in {} |-> Series0]
              /\ fed = [k \in Intervals |-> <<>>] /\ emitted = [k \in Intervals |-> <<>>]

\* update(bar): a duplicate, an older bar or one off the calendar is refused before any state is made or changed.
Update(k) ==
    \E i \in DOMAIN arriving[k] :
      LET b == arriving[k][i]
          s == IF k \in DOMAIN series THEN series[k] ELSE Series0
          next == Step(s, b)
      IN /\ s.last # None => b.at > s.last
         /\ OnCalendar(b)
         /\ series' = (k :> next) @@ series
         /\ fed' = [fed EXCEPT ![k] = Append(@, b)]
         /\ emitted' = [emitted EXCEPT ![k] = Append(@, next.snapshot)]
         /\ UNCHANGED arriving

\* reset(symbol, interval) followed by warmup(bars) of the history: a restart.
Warmup(bars) == FoldLeft(Step, Series0, bars)
EngineNext == \E k \in Intervals : Update(k)

\* from_engine: the timeframes side by side, a missing one named, no combined state.
MultiTimeframe ==
    LET held == DOMAIN series
    IN [timeframes |-> [k \in Intervals |-> IF k \in held THEN series[k].snapshot ELSE None],
        missing |-> Intervals \ held,
        at |-> IF held = {} THEN None ELSE Max({series[k].last : k \in held})]

-----------------------------------------------------------------------------
(* The live engine, with its bounded windows, says bar by bar exactly what a replay of the whole series says: no snapshot
   it emitted is revised by bars that came later (no look-ahead), whatever was skipped, duplicated or out of order. *)
LiveIsReplay ==
    \A k \in Intervals : /\ emitted[k] = Replay(fed[k])
                         /\ MultiTimeframe.timeframes[k] = IF fed[k] = <<>> THEN None ELSE Last(emitted[k])

(* A restart is a warm-up: a fresh engine fed the same history holds the same state, so its next snapshot is the same. *)
RestartIsWarmup == \A k \in DOMAIN series : series[k] = Warmup(fed[k])

(* A failed break is of a break within the last failure_lookback bars, at that very level; and the level a bar breaks
   is one the previous bar already had, so the breakout bar never helps to form the level it breaks. *)
BreaksAreReal ==
    \A k \in Intervals : \A i \in DOMAIN emitted[k] :
      LET s == emitted[k][i]
          recent == {emitted[k][j] : j \in {j \in 1..(i - 1) : i - j <= Config.lookback}}
          before == emitted[k][i - 1]
          known == {l.price : l \in Range(before.supports \o before.resistances)} \cup {before.price * Scale}
      IN /\ s.breakout \in {"failed_breakout", "failed_breakdown"} =>
              \E e \in recent : "failed_" \o e.breakout = s.breakout /\ e.level = s.level
         /\ s.breakout \in {"breakout", "breakdown"} => s.level \in known

EngineSound == LiveIsReplay /\ RestartIsWarmup /\ BreaksAreReal
=============================================================================
