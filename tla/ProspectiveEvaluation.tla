-------------------------- MODULE ProspectiveEvaluation --------------------------
(***************************************************************************)
(* The frozen evaluation of the prospective evidence: the gate, which      *)
(* sessions count, what H1' and H2' observe of them, their verdicts and    *)
(* those of the earlier phase, and the sequence metrics and shift null     *)
(* they are read against.                                                  *)
(*                                                                         *)
(* A session's bars stand for their content hash; returns are counted in   *)
(* 1/Scale; the draws of the seeded generators are arguments.              *)
(***************************************************************************)
EXTENDS Decimals, SequencesExt

CONSTANTS
    Horizon,         \* H1_HORIZON
    MinComplete,     \* PROTOCOL.min_complete_sessions
    MinState, MinPooled, MinSymbols, MinExcess,   \* H1_MIN_SYMBOL, _POOLED, _SYMBOLS, _BPS
    MinSample, MinCells,                          \* MIN_SAMPLE and MIN_CELLS, the same for H2'
    Identities,      \* the frozen <<symbol, interval>>
    Scale, None

-----------------------------------------------------------------------------
\* coverage and gate.  Rows: [day, of, status, frozen, bars]; frozen: of this registry and engine.
AcceptedRows(rows) == {r \in rows : r.status = "collected" /\ r.frozen}
\* Mutant: a session of another outcome is complete too.
CompleteSessions_Attempted(rows, sessions) ==
    {d \in sessions : \A x \in Identities : /\ \E r \in rows : r.day = d /\ r.of = x
                                            /\ ~\E r \in rows : r.day = d /\ r.of = x /\ r.status = "conflict"}
CompleteSessions(rows, sessions) ==
    {d \in sessions : \A x \in Identities : /\ \E r \in AcceptedRows(rows) : r.day = d /\ r.of = x
                                            /\ ~\E r \in rows : r.day = d /\ r.of = x /\ r.status = "conflict"}
GateOpen(earliest, complete, today) == today >= earliest /\ complete >= MinComplete

\* main: what is refused in which order; sessions: those from the pinned start through the last completed one.
Validate(v) ==
    LET open == GateOpen(v.earliest, Cardinality(CompleteSessions(v.rows, v.sessions)), v.today)
        stop(code) == [code |-> code, fetched |-> FALSE, label |-> None]
    IN IF v.refused # None THEN stop(IF v.refused = "database" THEN 1 ELSE 2)
       ELSE IF ~open /\ ~v.override THEN stop(3)
       ELSE IF v.provider = "unconfigured" THEN stop(2)
       ELSE IF v.provider = "failing" THEN [stop(1) EXCEPT !.fetched = TRUE]
       ELSE [code |-> 0, fetched |-> TRUE, label |-> IF open THEN "PREREGISTERED_PROSPECTIVE" ELSE "NON_PREREGISTERED_EARLY_LOOK"]

\* Bars: <<[day, close], ...>> of the regular session.
BarsOf(bars, d) == SelectSeq(bars, LAMBDA b : b.day = d)
Eligible(bars, rows, complete, x) ==
    {d \in complete : \E r \in AcceptedRows(rows) : r.day = d /\ r.of = x /\ BarsOf(bars, d) # <<>> /\ BarsOf(bars, d) = r.bars}

-----------------------------------------------------------------------------
\* H1': the state and the forward return of every bar whose whole window is eligible.
Move(from, to) == HalfEven(Scale * (to - from), from)
\* Mutant: only the session of the bar itself has to be eligible.
Observed_Entry(bars, t, eligible) == bars[t].day \in eligible
Observed(bars, t, eligible) == \A k \in t..t + Horizon : bars[k].day \in eligible
Observations(bars, states, eligible) ==
    LET seen == SelectSeq([t \in 1..Len(bars) |-> t], LAMBDA t : t + Horizon <= Len(bars) /\ Observed(bars, t, eligible))
    IN [i \in DOMAIN seen |-> [state |-> states[seen[i]], ret |-> Move(bars[seen[i]].close, bars[seen[i] + Horizon].close)]]

MinShift == 2 * (Horizon + 1)
Shifts(n) == MinShift..n - MinShift
Shifted(states, k) == [t \in DOMAIN states |-> states[((t - 1 - k) % Len(states)) + 1]]

\* The mean return of the bearish bars less the mean of all, rounded; the null rotates the states against the returns.
SumOver(f, S) == FoldSet(LAMBDA t, sum : sum + f[t], 0, S)
\* Mutant: the mean return of the bearish bars alone.
Excess_OfNothing(states, returns) ==
    LET in == {t \in DOMAIN states : states[t] = "bearish_setup"}
    IN HalfEven(Scale * SumOver(returns, in), Cardinality(in))
Excess(states, returns) ==
    LET in == {t \in DOMAIN states : states[t] = "bearish_setup"}
    IN HalfEven(Scale * (SumOver(returns, in) * Len(returns) - SumOver(returns, DOMAIN returns) * Cardinality(in)),
                Cardinality(in) * Len(returns))
StatesOf(obs) == [i \in DOMAIN obs |-> obs[i].state]
ReturnsOf(obs) == [i \in DOMAIN obs |-> obs[i].ret]
\* np.percentile(.., 97.5), linear between two order statistics, times 40.
Percentile97(values) ==
    LET s == SortSeq(values, <)  p == 39 * (Len(s) - 1)  k == p \div 40 + 1
    IN IF k = Len(s) THEN 40 * s[k] ELSE 40 * s[k] + (p % 40) * (s[k + 1] - s[k])
\* perSymbol: [symbol -> observations]; drawn: [symbol -> offsets], as many for each.
EvaluateH1(perSymbol, drawn) ==
    LET bearish(s) == Cardinality({i \in DOMAIN perSymbol[s] : perSymbol[s][i].state = "bearish_setup"})
        used == {s \in DOMAIN perSymbol : bearish(s) >= MinState /\ Shifts(Len(perSymbol[s])) # {}}
        excess == [s \in used |-> Excess(StatesOf(perSymbol[s]), ReturnsOf(perSymbol[s]))]
        nullAt(i) == [s \in used |-> Excess(Shifted(StatesOf(perSymbol[s]), drawn[s][i]), ReturnsOf(perSymbol[s]))]
        pooled == SumOver(excess, used)   \* times the number of symbols used
        null == [i \in DOMAIN drawn[CHOOSE s \in used : TRUE] |-> SumOver(nullAt(i), used)]
    IN IF Cardinality(used) < MinSymbols \/ SumOver([s \in used |-> bearish(s)], used) < MinPooled THEN "INSUFFICIENT"
       ELSE IF pooled <= 0 \/ pooled < MinExcess * Cardinality(used) \/ 40 * pooled <= Percentile97(null) THEN "UNSUPPORTED"
       ELSE IF 3 * Cardinality({s \in used : excess[s] > 0}) >= 2 * Cardinality(used) THEN "SUPPORTED" ELSE "MIXED"

-----------------------------------------------------------------------------
\* setup_events: the first bar of each setup run, with the more recently confirmed significant pivot.
Setups == {"bullish_setup", "bearish_setup"}
CompletingPivot(s) ==
    LET pivots == {s.high, s.low} \ {None}
    IN IF pivots = {} THEN None
       ELSE CHOOSE p \in pivots : \A q \in pivots : p.confirmed > q.confirmed \/ (p.confirmed = q.confirmed /\ p.index >= q.index)
SetupEvents(snapshots) ==
    LET first == SelectSeq([i \in DOMAIN snapshots |-> i],
                           LAMBDA i : /\ snapshots[i].state \in Setups
                                      /\ i = 1 \/ snapshots[i - 1].state # snapshots[i].state
                                      /\ CompletingPivot(snapshots[i]) # None)
    IN [j \in DOMAIN first |-> [at |-> first[j], state |-> snapshots[first[j]].state, pivot |-> CompletingPivot(snapshots[first[j]])]]
\* h2_cells: the moves before confirmation of the events every bar of which is eligible.
Moves(bars, snapshots, eligible, state, kind) ==
    LET counted == SelectSeq(SetupEvents(snapshots), LAMBDA e : /\ e.state = state /\ e.pivot.kind = kind
                                 /\ \A i \in {e.at, e.pivot.index, e.pivot.confirmed} : bars[i].day \in eligible)
    IN [j \in DOMAIN counted |-> Move(counted[j].pivot.price, bars[counted[j].pivot.confirmed].close)]

Abs(n) == IF n < 0 THEN 0 - n ELSE n
\* The median two-bar move (times two, TwiceMedian) of the bars both ends of which are eligible.
Reference(bars, eligible) ==
    LET ends == {t \in 1..Len(bars) - 2 : bars[t].day \in eligible /\ bars[t + 2].day \in eligible}
    IN IF ends = {} THEN None ELSE TwiceMedian([t \in ends |-> Abs(Move(bars[t].close, bars[t + 2].close))])
-----------------------------------------------------------------------------
\* Verdicts by the share of consistent cells.  Cells of H2': [state, kind, count, ci, large]; ci of the mean move.
Share(consistent, evaluable) == IF evaluable < MinCells THEN "INSUFFICIENT"
                                ELSE IF 4 * consistent >= 3 * evaluable THEN "SUPPORTED"
                                ELSE IF 4 * consistent < evaluable THEN "UNSUPPORTED" ELSE "MIXED"
Aligned(c) == c.kind = (IF c.state = "bullish_setup" THEN "low" ELSE "high")
Above(c) == c.ci[1] > 0
\* Mutant: an interval that reaches above zero counts as below it.
Below_LowerEnd(c) == c.ci[1] < 0
Below(c) == c.ci[2] < 0
Capped(verdict, opposite) == IF verdict = "SUPPORTED" /\ opposite # {} THEN "MIXED" ELSE verdict
EvaluateH2(cells) ==
    LET evaluable == {i \in DOMAIN cells : cells[i].count >= MinSample /\ Aligned(cells[i])}
        expected(c) == IF c.kind = "low" THEN Above(c) ELSE Below(c)
        opposite(c) == IF c.kind = "low" THEN Below(c) ELSE Above(c)
    IN Capped(Share(Cardinality({i \in evaluable : expected(cells[i]) /\ cells[i].large}), Cardinality(evaluable)),
              {i \in evaluable : opposite(cells[i])})
ClassifyH2(cells) ==
    LET evaluable == {i \in DOMAIN cells : cells[i].count >= MinSample}
        bullish(c) == c.state = "bullish_setup"
    IN Capped(Share(Cardinality({i \in evaluable : IF bullish(cells[i]) THEN Above(cells[i]) ELSE Below(cells[i])}), Cardinality(evaluable)),
              {i \in evaluable : IF bullish(cells[i]) THEN Below(cells[i]) ELSE Above(cells[i])})

\* Phase 5 cells of a symbol: [count, excess, low, high] with the null's 2.5 % and 97.5 % points.
ClassifySymbol(c) == IF c = None THEN "INSUFFICIENT"
                     ELSE IF c.count < MinSample THEN "INSUFFICIENT"
                     ELSE IF c.excess <= 0 \/ c.excess < MinExcess \/ (c.low <= c.excess /\ c.excess <= c.high) THEN "UNSUPPORTED"
                     ELSE "CONSISTENT"
Classes(cells) == {ClassifySymbol(cells[s]) : s \in DOMAIN cells}
\* Mutant: the confirmation is not looked at.
ClassifyH1_PrimaryOnly(primary, holdout) ==
    IF "INSUFFICIENT" \in Classes(primary) THEN "INSUFFICIENT"
    ELSE IF Classes(primary) = {"UNSUPPORTED"} THEN "UNSUPPORTED"
    ELSE IF Classes(primary) # {"CONSISTENT"} THEN "MIXED" ELSE "SUPPORTED"
ClassifyH1(primary, holdout) ==
    IF "INSUFFICIENT" \in Classes(primary) THEN "INSUFFICIENT"
    ELSE IF Classes(primary) = {"UNSUPPORTED"} THEN "UNSUPPORTED"
    ELSE IF Classes(primary) # {"CONSISTENT"} THEN "MIXED"
    ELSE IF Classes(holdout) = {"CONSISTENT"} THEN "SUPPORTED"
    ELSE IF "INSUFFICIENT" \in Classes(holdout) THEN "INSUFFICIENT" ELSE "MIXED"
ClassifyH1X(cells) == LET evaluable == {s \in DOMAIN cells : ClassifySymbol(cells[s]) # "INSUFFICIENT"}
                      IN Share(Cardinality({s \in evaluable : ClassifySymbol(cells[s]) = "CONSISTENT"}), Cardinality(evaluable))
\* Cells: <<[count, move], ...>> by pivot window; with a wider window there are fewer pivots and larger moves.
\* Mutant: only the first and the last window are compared.
Monotone_Ends(c) == c[1].count >= c[Len(c)].count /\ c[1].move <= c[Len(c)].move
Monotone(c) == \A w \in {v \in DOMAIN c : v + 1 \in DOMAIN c} : c[w].count >= c[w + 1].count /\ c[w].move <= c[w + 1].move
ClassifyH3(cells) ==
    LET evaluable == {i \in DOMAIN cells : \A w \in DOMAIN cells[i] : cells[i][w].count >= MinSample /\ cells[i][w].move # None}
    IN Share(Cardinality({i \in evaluable : Monotone(cells[i])}), Cardinality(evaluable))
-----------------------------------------------------------------------------
\* metrics and nulls over a sequence of states.
StateRuns(states) ==
    LET starts == {i \in DOMAIN states : i = 1 \/ states[i - 1] # states[i]}
        end(i) == CHOOSE j \in i..Len(states) : (\A k \in i..j : states[k] = states[i]) /\ (j = Len(states) \/ states[j + 1] # states[i])
    IN {[state |-> states[i], start |-> i, length |-> end(i) - i + 1] : i \in starts}
Frequency(states, s) == Cardinality({i \in DOMAIN states : states[i] = s})
\* Mutant: a bar that stays in its state is a transition.
Transitions_Stays(states, a, b) == Cardinality({i \in 1..Len(states) - 1 : states[i] = a /\ states[i + 1] = b})
Transitions(states, a, b) == Cardinality({i \in 1..Len(states) - 1 : states[i] = a /\ states[i + 1] = b /\ a # b})
Exits(states, a) == SumOver([b \in Range(states) |-> Transitions(states, a, b)], Range(states))

\* circular_runs: how many runs of each length, the sequence read as a circle.
CircularRuns(states) ==
    LET n == Len(states)
        before(i) == IF i = 1 THEN n ELSE i - 1
        starts == {i \in 1..n : states[i] # states[before(i)]}
        length(i) == CHOOSE m \in 1..n : /\ ((i + m - 1) % n) + 1 \in starts
                                         /\ \A j \in 1..m - 1 : ((i + j - 1) % n) + 1 \notin starts
    IN [m \in 1..n |-> IF starts = {} THEN (IF m = n THEN 1 ELSE 0) ELSE Cardinality({i \in starts : length(i) = m})]

\* clustering: bars of s in runs of several bars.
Clustered(states, s) == LET long == {r \in StateRuns(states) : r.state = s /\ r.length > 1}
                        IN FoldSet(LAMBDA r, sum : sum + r.length, 0, long)
\* overlap: labelled bars of s next to another closer than the horizon; the code compares neighbours only.
Labelled(states, h) == 1..Len(states) - h
Overlapping(states, s, h) ==
    LET at == SelectSeq([t \in Labelled(states, h) |-> t], LAMBDA t : states[t] = s)
    IN {at[j] : j \in {i \in DOMAIN at : \/ i > 1 /\ at[i] - at[i - 1] < h
                                         \/ i < Len(at) /\ at[i + 1] - at[i] < h}}

-----------------------------------------------------------------------------
Statuses(rows, d, x) == {<<r.status, r.frozen>> : r \in {q \in rows : q.day = d /\ q.of = x}}
(* No peek: bars are fetched only behind the gate or on override; a result called preregistered rests on MinComplete sessions
   in which every identity has an accepted row and none a conflict, whatever other rows there are; and time and further
   evidence keep the gate open unless they bring a conflict. *)
NoPeek(v) ==
    LET open(w) == GateOpen(w.earliest, Cardinality(CompleteSessions(w.rows, w.sessions)), w.today)
        rests(w) == w.today >= w.earliest /\ \E S \in kSubset(MinComplete, w.sessions) : \A d \in S, x \in Identities :
                       LET found == Statuses(w.rows, d, x)
                       IN <<"collected", TRUE>> \in found /\ \A f \in found : f[1] # "conflict"
        permitted(w) == LET result == Validate(w)
                        IN /\ result.fetched => w.override \/ rests(w)
                           /\ result.label = "PREREGISTERED_PROSPECTIVE" => rests(w)
    IN /\ permitted(v)
       /\ \A r \in v.later : LET w == [v EXCEPT !.rows = @ \cup {r}, !.today = @ + 1]
                             IN permitted(w) /\ (open(v) /\ r.status # "conflict" => open(w))

Restated(bars, d, c) == [i \in DOMAIN bars |-> IF bars[i].day = d THEN [bars[i] EXCEPT !.close = c] ELSE bars[i]]
StatesIn(replay) == [i \in DOMAIN replay |-> replay[i].state]
(* Every move that is measured was collected.  The engine is replayed over every re-fetched bar, so when the bars of a session
   that is not eligible come back otherwise the replay may be another one (`replays`), and with it the states; but which bars
   are observed, their returns, the reference move and the move of any setup event stay as they were. *)
OnlyCollected(bars, replays, rows, complete, x, closes) ==
    LET eligible == Eligible(bars, rows, complete, x)
    IN \A d \in {bars[i].day : i \in DOMAIN bars} \ eligible, c \in closes :
          LET other == Restated(bars, d, c)
          IN Eligible(other, rows, complete, x) = eligible =>
                /\ \A before, after \in replays : ReturnsOf(Observations(other, StatesIn(after), eligible)) =
                                                  ReturnsOf(Observations(bars, StatesIn(before), eligible))
                /\ Reference(other, eligible) = Reference(bars, eligible)
                /\ \A r \in replays, s \in Setups, k \in {"low", "high"} : Moves(other, r, eligible, s, k) = Moves(bars, r, eligible, s, k)

(* H1' measures no drift: a constant added to every return of a symbol changes neither the verdict nor the null. *)
DriftNeutral(perSymbol, drawn, drift) ==
    EvaluateH1(perSymbol, drawn) =
        EvaluateH1([s \in DOMAIN perSymbol |-> [i \in DOMAIN perSymbol[s] |-> [perSymbol[s][i] EXCEPT !.ret = @ + drift]]], drawn)
\* The same market upside down.
Flip(c) == [c EXCEPT !.state = IF @ = "bullish_setup" THEN "bearish_setup" ELSE "bullish_setup",
                     !.kind = IF @ = "low" THEN "high" ELSE "low", !.ci = <<0 - @[2], 0 - @[1]>>]
(* H2' treats bullish and bearish alike, reads aligned cells only, is H2 with a magnitude rule, and never gains from a cell
   that turns significant on the wrong side. *)
Rank == [INSUFFICIENT |-> 0, UNSUPPORTED |-> 1, MIXED |-> 2, SUPPORTED |-> 3]
VerdictsSound(cells) ==
    LET aligned == SelectSeq(cells, Aligned)
        loose == [i \in DOMAIN aligned |-> [aligned[i] EXCEPT !.large = TRUE]]
    IN /\ EvaluateH2([i \in DOMAIN cells |-> Flip(cells[i])]) = EvaluateH2(cells)
       /\ EvaluateH2(aligned) = EvaluateH2(cells)
       /\ EvaluateH2(loose) = ClassifyH2(aligned)
       /\ \A i \in DOMAIN cells : LET wrong == [cells EXCEPT ![i].ci = IF cells[i].kind = "low" THEN <<-2, -1>> ELSE <<1, 2>>]
                                  IN Rank[EvaluateH2(wrong)] <= Rank[EvaluateH2(cells)]
(* H1 is never supported without a confirmation that would itself have been a primary result; losing the excess of a symbol
   raises neither H1, where it said anything, nor H1X. *)
HoldoutNeeded(primary, holdout) ==
    /\ ClassifyH1(primary, holdout) = "SUPPORTED" <=> ClassifyH1(holdout, primary) = "SUPPORTED"
    /\ \A s \in {x \in DOMAIN primary : primary[x] # None} :
         LET less == [primary EXCEPT ![s].excess = 0]
         IN /\ ClassifyH1(primary, holdout) # "INSUFFICIENT" => Rank[ClassifyH1(less, holdout)] <= Rank[ClassifyH1(primary, holdout)]
            /\ Rank[ClassifyH1X(less)] <= Rank[ClassifyH1X(primary)]

(* H3 looked at over fewer windows is never less supported. *)
FewerWindows(cells) ==
    LET front == [i \in DOMAIN cells |-> Front(cells[i])]
        evaluated(c) == \A w \in DOMAIN c : c[w].count >= MinSample /\ c[w].move # None
    IN (\A i \in DOMAIN cells : evaluated(cells[i]) \/ ~evaluated(front[i])) => Rank[ClassifyH3(cells)] <= Rank[ClassifyH3(front)]

(* The metrics tell one story: runs partition the bars, an exit ends every run but the last, a shift keeps the circular runs
   and splits or joins at most one, and comparing neighbours finds every overlap. *)
SequencesAgree(states, h) ==
    /\ \A s \in Range(states) :
         LET mine == {r \in StateRuns(states) : r.state = s}
         IN /\ FoldSet(LAMBDA r, sum : sum + r.length, 0, mine) = Frequency(states, s)
            /\ Exits(states, s) = Cardinality(mine) - (IF Last(states) = s THEN 1 ELSE 0)
            /\ Clustered(states, s) = Cardinality({t \in DOMAIN states : states[t] = s /\ \E u \in {t - 1, t + 1} \cap DOMAIN states : states[u] = s})
            /\ Overlapping(states, s, h) = {t \in Labelled(states, h) : states[t] = s /\
                   \E u \in Labelled(states, h) \ {t} : states[u] = s /\ Abs(t - u) < h}
    /\ \A k \in 0..Len(states) : /\ CircularRuns(Shifted(states, k)) = CircularRuns(states)
                                 /\ Abs(Cardinality(StateRuns(Shifted(states, k))) - Cardinality(StateRuns(states))) <= 1
===============================================================================
