---------------------------- MODULE MarketCalendar ----------------------------
(***************************************************************************)
(* The exchange calendar and the rules every bar series obeys: sessions of *)
(* a trading day, the end of a bar, validation of a series, completed bars *)
(* and aggregation inside one session segment.                             *)
(*                                                                         *)
(* Time is an integer; day d is the instants d * DayLength + 0 .. +        *)
(* (DayLength - 1).  Prices and volumes are integers (units of the         *)
(* quantum), so sums and comparisons are exact as they are with Decimal.   *)
(***************************************************************************)
EXTENDS Absence, Integers, Sequences, SequencesExt, FiniteSetsExt

CONSTANTS
    DayLength,   \* instants in a day
    Hours,       \* [trading day -> [open, close: instants of that day]]
    PreOpen,     \* 04:00
    PostLength,  \* the four hours of the post segment
    LastOffer,   \* 20:00: a bar that starts here or later is an overnight bar
    Fine         \* length of the source interval (5m)

ASSUME HoursAssumption ==
    /\ DayLength \in Nat \ {0} /\ Fine \in Nat \ {0} /\ {PreOpen, PostLength} \subseteq Nat
    /\ \A d \in DOMAIN Hours : /\ {d, Hours[d].open, Hours[d].close} \subseteq Nat
                               /\ PreOpen <= Hours[d].open /\ Hours[d].open < Hours[d].close
                               /\ Hours[d].close + PostLength < DayLength

Trading == DOMAIN Hours
DayOf(t) == t \div DayLength
TimeOfDay(t) == t % DayLength

\* ExchangeCalendar.session_times and SessionTimes.segment: [start, end) of a segment.
Segment(d, s) ==
    LET open == d * DayLength + Hours[d].open
        close == d * DayLength + Hours[d].close
    IN CASE s = "pre" -> [start |-> d * DayLength + PreOpen, end |-> open]
         [] s = "regular" -> [start |-> open, end |-> close]
         [] s = "post" -> [start |-> close, end |-> close + PostLength]

Classify(t) ==
    LET in == {s \in {"pre", "regular", "post"} : /\ DayOf(t) \in Trading
                                                  /\ Segment(DayOf(t), s).start <= t
                                                  /\ t < Segment(DayOf(t), s).end}
    IN IF in = {} THEN "closed" ELSE CHOOSE s \in in : TRUE

PreviousTradingDay(d) == LET before == {e \in Trading : e < d} IN IF before = {} THEN None ELSE Max(before)
NextTradingDay(d) == LET after == {e \in Trading : e > d} IN IF after = {} THEN None ELSE Min(after)

\* A bar starts at `at` and lasts `len`; an intraday bar is cut at the end of its segment.
BarEnd(b) == Min({b.at + b.len, Segment(DayOf(b.at), Classify(b.at)).end})

\* MarketBar.__post_init__: the OHLC shape every bar has.
WellFormed(b) == /\ b.low > 0 /\ b.volume >= 0
                 /\ {b.open, b.close} \subseteq b.low..b.high

\* validate_series and validate_calendar_series: nothing is repaired, a defect refuses the series.
ValidSeries(bars) ==
    \A i \in DOMAIN bars : /\ bars[i].symbol = bars[1].symbol /\ bars[i].len = bars[1].len
                           /\ i > 1 => bars[i - 1].at < bars[i].at
ValidCalendarSeries(bars) ==
    /\ ValidSeries(bars)
    /\ \A i \in DOMAIN bars : LET s == Classify(bars[i].at) IN
          /\ s # "closed"
          /\ (bars[i].at - Segment(DayOf(bars[i].at), s).start) % bars[i].len = 0

\* exclude_unsupported_sessions: overnight bars of a 24-hour venue are dropped before the calendar check.
ExcludeOvernight(bars) ==
    SelectSeq(bars, LAMBDA b : TimeOfDay(b.at) >= PreOpen /\ TimeOfDay(b.at) < LastOffer)

\* completed_bars: a bar counts once its end is at or before the cut-off; the rest are forming.
Completed(bars, asOf) == SelectSeq(bars, LAMBDA b : BarEnd(b) <= asOf)

\* aggregate for a set of bars that share one bucket.
Merge(bars, at, len) ==
    [symbol |-> bars[1].symbol, at |-> at, len |-> len, open |-> bars[1].open,
     high |-> Max({bars[i].high : i \in DOMAIN bars}), low |-> Min({bars[i].low : i \in DOMAIN bars}),
     close |-> Last(bars).close, volume |-> FoldSeq(LAMBDA b, n : b.volume + n, 0, bars)]

\* The members of a set of integers, smallest first.
Ascending(S) == [i \in 1..Cardinality(S) |-> CHOOSE x \in S : Cardinality({y \in S : y < x}) = i - 1]

\* aggregate to a longer intraday interval: buckets start at the segment's start and stay inside it.
Bucket(b, len) == LET start == Segment(DayOf(b.at), Classify(b.at)).start
                  IN start + ((b.at - start) \div len) * len
Aggregate(bars, len) ==
    LET starts == Ascending({Bucket(bars[i], len) : i \in DOMAIN bars})
    IN [k \in DOMAIN starts |-> Merge(SelectSeq(bars, LAMBDA b : Bucket(b, len) = starts[k]), starts[k], len)]

\* derive_completed: a bucket is complete when both as_of and the source's coverage have passed its end.
DeriveCompleted(bars, len, asOf) ==
    LET source == Completed(bars, asOf)
        coverage == Min({asOf, Max({BarEnd(source[i]) : i \in DOMAIN source})})
    IN IF source = <<>> THEN <<>>
       ELSE SelectSeq(Aggregate(source, len), LAMBDA b : BarEnd(b) <= coverage)
=============================================================================
