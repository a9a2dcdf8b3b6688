----------------------------- MODULE MarketContext -----------------------------
(***************************************************************************)
(* The market context engine: completed 5m bars in, facts out.  One series *)
(* gives a SeriesContext with its freshness; two give a comparison at a    *)
(* common cutoff.  The engine reads no clock: now and asOf are arguments.  *)
(***************************************************************************)
EXTENDS MarketCalendar, Decimals

CONSTANT Quantum  \* a return of 1 (100 %) in quanta; the code's is 10^10
ASSUME QuantumAssumption == Quantum \in Nat \ {0}

\* Both are quantized with ROUND_HALF_EVEN.
Fraction(n, d) == HalfEven(n * Quantum, d)
RatioMinusOne(n, d) == HalfEven((n - d) * Quantum, d)

\* grid_ends: regular-session bar ends of a day, the last one cut at the close.
GridEnds(d) ==
    IF d \notin Trading THEN {}
    ELSE LET s == Segment(d, "regular")
         IN {Min({s.start + k * Fine, s.end}) : k \in 1..((s.end - s.start + Fine - 1) \div Fine)}

\* expected_latest_bar_end: the last grid end at or before as_of, looking back over trading days.
ExpectedEnd(asOf) ==
    LET day == DayOf(asOf)
        today == {e \in GridEnds(day) : e <= asOf}
    IN IF today # {} THEN Max(today)
       ELSE IF PreviousTradingDay(day) = None THEN None ELSE Max(GridEnds(PreviousTradingDay(day)))

\* count_lag: grid ends in (latest, expected], day by day until the expected end's day.
CountLag(latest, expected) ==
    LET count[d \in Trading] ==
            Cardinality({e \in GridEnds(d) : latest < e /\ e <= expected})
            + IF d >= DayOf(expected) THEN 0 ELSE count[NextTradingDay(d)]
    IN count[DayOf(latest)]

Lag(latest, expected) ==
    IF /\ None \notin {latest, expected}
       /\ latest \in GridEnds(DayOf(latest)) /\ latest <= expected
    THEN CountLag(latest, expected) ELSE None
Status(latest, lag, now) == CASE latest = None -> "no_data"
                              [] latest # None /\ lag = None -> "unknown"
                              [] latest # None /\ lag # None /\ lag > 0 -> "lagging"
                              [] OTHER -> IF Classify(now) = "regular" THEN "current" ELSE "market_closed"
FreshnessAt(latest, expected, lag, now) ==
    [status |-> Status(latest, lag, now), latest |-> latest, expected |-> expected, lag |-> lag]
Freshness(latest, now, asOf) == FreshnessAt(latest, ExpectedEnd(asOf), Lag(latest, ExpectedEnd(asOf)), now)

\* _prepared: the regular bars of each session; it refuses a series with a forming bar.
Prepared(bars, asOf) == ValidSeries(bars) /\ Completed(bars, asOf) = bars
SessionBars(bars, d) == SelectSeq(bars, LAMBDA b : DayOf(b.at) = d /\ Classify(b.at) = "regular")
SessionDays(bars) == {DayOf(bars[i].at) : i \in {j \in DOMAIN bars : Classify(bars[j].at) = "regular"}}
PreviousClose(bars, d) ==
    IF PreviousTradingDay(d) \in SessionDays(bars) THEN Last(SessionBars(bars, PreviousTradingDay(d))).close ELSE None
SincePrevious(close, previous) == IF previous = None THEN None ELSE RatioMinusOne(close, previous)

\* technical.indicators.vwap at the latest bar: the session's traded value over its volume, reset each session.
Vwap(bars) ==
    LET volume == FoldSeq(LAMBDA b, n : b.volume + n, 0, bars)
        value == FoldSeq(LAMBDA b, n : (b.high + b.low + b.close) * b.volume + n, 0, bars)
    IN IF volume = 0 THEN None ELSE [num |-> value, den |-> 3 * volume]

\* build_series_context: of the latest session with a regular bar.
SessionFacts(day, today, daily, previous, vwap, freshness, asOf) ==
    LET range == daily.high - daily.low
    IN [session |-> day, completed |-> Len(today),
        expected |-> Cardinality({e \in GridEnds(day) : e <= asOf}),
        daily |-> daily, latest |-> freshness.latest, previous |-> previous,
        sincePrevious |-> SincePrevious(daily.close, previous),
        sinceOpen |-> RatioMinusOne(daily.close, daily.open),
        position |-> IF range > 0 THEN Fraction(daily.close - daily.low, range) ELSE None,
        fromHigh |-> Fraction(daily.high - daily.close, daily.close),
        fromLow |-> Fraction(daily.close - daily.low, daily.close),
        vwap |-> vwap, freshness |-> freshness,
        unavailable |-> (IF previous = None THEN {"no_previous_session"} ELSE {})
                        \cup (IF range = 0 THEN {"zero_range"} ELSE {})
                        \cup (IF vwap = None THEN {"no_vwap"} ELSE {})]
SessionContext(bars, day, today, now, asOf) ==
    SessionFacts(day, today, Merge(today, day * DayLength, DayLength), PreviousClose(bars, day), Vwap(today),
                 Freshness(BarEnd(Last(today)), now, asOf), asOf)
SeriesContext(bars, now, asOf) ==
    LET day == Max(SessionDays(bars))
    IN IF SessionDays(bars) = {}
       THEN [session |-> None, latest |-> None, freshness |-> Freshness(None, now, asOf), unavailable |-> {"no_data"}]
       ELSE SessionContext(bars, day, SessionBars(bars, day), now, asOf)

\* _evaluated: the last session bar ending at or before the cutoff; with none the code indexes an empty list.
Upto(bars, day, cutoff) == SelectSeq(SessionBars(bars, day), LAMBDA b : BarEnd(b) <= cutoff)
EvaluatedAt(bar, previous, open) ==
    [end |-> BarEnd(bar), prev_close |-> SincePrevious(bar.close, previous), open |-> RatioMinusOne(bar.close, open)]
Evaluated(bars, day, cutoff) ==
    EvaluatedAt(Last(Upto(bars, day, cutoff)), PreviousClose(bars, day), SessionBars(bars, day)[1].open)

Bases == {"prev_close", "open"}
Unavailable(reasons) == [b \in Bases |-> [relative |-> None, aligned |-> None, unavailable |-> reasons]]

\* The uncaught IndexError of _evaluated: one of the series has no bar yet at the common cutoff.
CompareRaises(sBars, s, bBars, b) ==
    /\ s.session # None /\ s.session = b.session
    /\ <<>> \in {Upto(bars, s.session, Min({s.latest, b.latest})) : bars \in {sBars, bBars}}

\* compare: both bases of one benchmark.
Compared(se, be, cutoff) ==
    LET aligned == se.end = cutoff /\ be.end = cutoff
        reasons(basis) == (IF aligned THEN {} ELSE {"misaligned"})
                          \cup (IF None \in {se[basis], be[basis]} THEN {"no_previous_session"} ELSE {})
    IN [basis \in Bases |->
           [relative |-> IF reasons(basis) = {} THEN se[basis] - be[basis] ELSE None,
            aligned |-> aligned, cutoff |-> cutoff, gap |-> cutoff - Min({se.end, be.end}),
            unavailable |-> reasons(basis)]]
Compare(sBars, s, bBars, b, same) ==
    LET missing == (IF s.session = None THEN {"no_symbol_data"} ELSE {})
                   \cup (IF b.session = None THEN {"no_benchmark_data"} ELSE {})
        cutoff == Min({s.latest, b.latest})
    IN CASE same -> Unavailable({"self"})
         [] ~same /\ missing # {} -> Unavailable(missing)
         [] ~same /\ missing = {} /\ s.session # b.session -> Unavailable({"session_mismatch"})
         [] OTHER -> Compared(Evaluated(sBars, s.session, cutoff), Evaluated(bBars, b.session, cutoff), cutoff)
=============================================================================
