------------------------------ MODULE MCDerivations ------------------------------
(***************************************************************************)
(* The pipeline from market data to an evaluated setup, a part at a time:  *)
(* `part` says which component runs.  The retrievals, the loader and the   *)
(* file writers are state machines; a pure derivation is one step that     *)
(* takes one of the enumerated inputs (`input`).                           *)
(***************************************************************************)
EXTENDS MarketFeed, EvidenceLedger, OutputFiles, FailOpenCollectors, GeopoliticalIdentity, PacketLoader, ReplayMatrix

CONSTANT Bad

VARIABLES
    part, input,
    pages, fetched, requested, tries, chain, items,
    arriving, series, fed, emitted

MCHours == [d \in {0, 1, 2, 4} |-> [open |-> 8, close |-> IF d = 2 THEN 12 ELSE 14]]
FeedBar(s, t) == LET c == 10 + (t % 5) IN
   [symbol |-> s, at |-> t, len |-> 2, open |-> 10, high |-> IF t % 5 = 0 THEN 10 ELSE c + 1, low |-> IF t % 5 = 0 THEN 10 ELSE 9,
    close |-> c, volume |-> IF t % 3 = 0 THEN 0 ELSE 4]
Grid == {32, 34, 36, 56, 58, 104, 106, 108}
Extra == {30, 69}
\* One bar more than MaxPages pages hold, once it has closed.
Full == Grid \cup Extra
SeriesOf(s, slots) == LET times == Ascending(slots) IN [i \in DOMAIN times |-> FeedBar(s, times[i])]
FeedWorlds == {[s \in Series |-> SeriesOf(s, IF s = Primary THEN x ELSE y)] :
                  x \in {Full, Full \ {56, 58}, Extra, Full \cup {62}}, y \in {Full, Full \ {108}, Full \ {104, 106}}}

PacketDay(t) == t \div 2
PacketEvent == <<[family |-> "news", symbols |-> {"X"}, published |-> <<1, 4>>, traceable |-> <<TRUE, TRUE>>],
                 [family |-> "sec", symbols |-> {"X"}, published |-> <<0, None>>, traceable |-> <<TRUE, FALSE>>]>>
PacketSnapshots == {[created |-> 0, row |-> [symbol |-> "X", interval |-> i, end |-> 0, complete |-> TRUE, sealed |-> TRUE, valid |-> TRUE]] :
                       i \in {"1d", "1h"}}
Intel == INSTANCE MarketIntelligence
PacketRow(i, e, state) == [symbol |-> "X", interval |-> i, end |-> e, complete |-> TRUE, sealed |-> TRUE, valid |-> TRUE, state |-> state]
\* Collections of up to three inputs around a cutoff at 3 (day 1).
Input(f, k, p, o, c) == [family |-> f, outcome |-> "processed", valid |-> TRUE, symbols |-> {"X"}, published |-> p, observed |-> o, key |-> k, content |-> c]
Inputs == {Input("news", 1, p, o, c) : p \in {1, 4}, o \in {2, 3}, c \in {1, 2}}
          \cup {Input("news", 1, 1, 4, 1), Input("sec", 1, None, 2, 1), Input("sec", 1, 0, 2, 1), Input("sec", 1, 1, 2, 1)} \cup {Input("news", 2, 1, 2, 1), Input("youtube", 1, 1, 1, 1)}
          \cup {[Input("news", 3, 1, 2, 1) EXCEPT !.symbols = {}], [Input("news", 3, 1, 2, 1) EXCEPT !.outcome = "near_duplicate_suppressed"],
                [Input("news", 3, 1, 2, 1) EXCEPT !.valid = FALSE]}
Collections == {[succeeded |-> TRUE, inputs |-> q] : q \in UNION {[1..n -> Inputs] : n \in 0..2} \cup {<<Input("news", 1, 1, 2, 1), a, b>> : a \in Inputs, b \in Inputs}}
FrameStates == {"none", "insufficient_data", "bullish_setup", "breakdown_watch", "range"}
Frames3 == [Intervals -> FrameStates]
Uneven(a, b, c) == [i \in Intervals |-> IF i = "1d" THEN a ELSE IF i = "1h" THEN b ELSE c]
EarlierFrames == {Uneven(a, a, a) : a \in {"none", "bullish_setup", "breakdown_watch"}}
                 \cup {Uneven("bullish_setup", "breakdown_watch", "bullish_setup"), Uneven("none", "bullish_setup", "breakdown_watch")}
MarketOf(fresh, session, prev, open, rel) ==
    [symbol |-> "X", asOf |-> 2, session |-> session, freshness |-> fresh, returns |-> [prev_close |-> prev, open |-> open],
     comparisons |-> {[benchmark |-> "SPY", basis |-> "open", relative |-> rel, aligned |-> IF rel = None THEN FALSE ELSE TRUE,
                       unavailable |-> IF rel = None THEN {"misaligned"} ELSE {}]}]
Contexts == {None, MarketOf("current", 0, 1, -1, 1), MarketOf("lagging", 1, None, 0, None), MarketOf("current", 1, -1, -1, -1),
             [MarketOf("current", 1, 1, 1, 1) EXCEPT !.asOf = 9]}
News == {None, [succeeded |-> FALSE, inputs |-> <<>>], [succeeded |-> TRUE, inputs |-> <<Input("sec", 1, 0, 2, 1)>>],
         [succeeded |-> TRUE, inputs |-> <<Input("news", 1, 1, 2, 1), Input("news", 2, 1, 1, 1)>>]}
RowsOf(states) == [i \in {j \in Intervals : states[j] # "none"} |-> PacketRow(i, IF i = "5m" THEN 3 ELSE 1, states[i])]
PacketOf(states, context, news) == Assemble("X", 3, context, RowsOf(states), news)
EarlierRows(states) == [i \in {j \in Intervals : states[j] # "none"} |-> PacketRow(i, 1, states[i])]
EarlierPacket(states, context, news) == Assemble("X", 2, context, EarlierRows(states), news)
\* The synthesis of a case, and the pair of a case: [states, context, news] at instant 3, [before, was] at instant 2.
SynthesisOf(c) == Intel!Synthesize(PacketOf(c.states, c.context, c.news))
EarlierOf(c) == Intel!Synthesize(EarlierPacket(c.before, c.was, None))
\* Bound: every context without news, and every collection without a context or with one.
SynthesisCases == [states : Frames3, context : Contexts, news : {None}]
    \cup [states : Frames3, context : {None, MarketOf("current", 0, 1, -1, 1)}, news : News]
PairCases == [states : Frames3, context : {None, MarketOf("current", 1, -1, 1, 1)}, news : {None, [succeeded |-> TRUE, inputs |-> <<Input("news", 1, 1, 2, 1)>>]},
              before : EarlierFrames, was : {None, MarketOf("current", 0, 1, 1, -1)}]

OptionDay(t) == t \div 4
DayBefore(d) == d - 1
StateOf(t) == IF t % 4 \in {1, 2} THEN "regular" ELSE "post"
FourDays == [i \in 1..4 |-> [date |-> i - 1, open |-> 4 * i - 3, close |-> 4 * i - 1]]
Options == INSTANCE MCOptions WITH
    DayOfInstant <- OptionDay, PreviousSession <- DayBefore, SessionState <- StateOf, Calendar <- FourDays,
    Window <- 1, Horizons <- {1, 2}, ProspectiveStart <- 4, Underlying <- "X", AsOf <- 10, Types <- {"call", "put"},
    From <- 1, Through <- 6, MaxPages <- 2, MaxRequests <- 3, MaxRetries <- 1, Places <- 100, attempt <- tries, received <- items, requests <- requested

TwoFiles == [a |-> <<"p", "q">>, b |-> <<"q", "p">>, c |-> <<"p", "q">>]

Settings == [ema |-> <<1, 2, 3, 4>>, rsi |-> 2, atr |-> 2, volume |-> 2, window |-> 1, touches |-> 2, lookback |-> 2, history |-> 3,
             equal |-> 0, clusterPct |-> 100, clusterAtr |-> 10, bufferPct |-> 10, bufferAtr |-> 10, gap |-> 50,
             overbought |-> 70, strong |-> 55, weak |-> 45, oversold |-> 30, elevated |-> 150]
Technical == INSTANCE TechnicalEngine WITH Scale <- 100, Config <- Settings, Intervals <- {2, DayLength}
EngineSlots == <<30, 32, 34, 36, 56, 58, 60, 104>>
EngineBar(t, len, p, o) == [symbol |-> "X", at |-> t, len |-> len, open |-> o, close |-> p, high |-> Technical!Larger(p, o) + 1,
                            low |-> (IF p < o THEN p ELSE o) - 1, volume |-> t % 3]
Zigzags == {<<20, 24, 20, 24, 21>>, <<24, 20, 24, 20, 23>>, <<20, 22, 24, 22, 20>>}
PricePaths == {z \o <<a, b, IF b = 17 THEN 29 ELSE 16>> : z \in Zigzags, a \in {17, 22, 28}, b \in {17, 22, 28}}
EngineWorld(p) == [k \in {2, DayLength} |->
    IF k = DayLength THEN [i \in 1..3 |-> EngineBar(24 * <<0, 1, 4>>[i], 24, p[i + 5], 20)]
                     ELSE [i \in 1..8 |-> EngineBar(EngineSlots[i], 2, p[i], p[i])]]
EngineWorlds == {EngineWorld(p) : p \in PricePaths}
\* Bound: at most one bar of an interval is skipped.
Skipped(k) == {i \in DOMAIN arriving[k] : /\ fed[k] # <<>> /\ arriving[k][i].at < fed[k][Len(fed[k])].at
                                          /\ arriving[k][i] \notin {fed[k][j] : j \in DOMAIN fed[k]}}
BoundedEngine == Technical!EngineNext /\ (\A k \in {2, DayLength} : Cardinality(Skipped(k)) <= 1)'

Frozen == <<2, DayLength>>
TwoRuns == [a |-> <<"X", "Y">>, b |-> <<"Y", "X">>]
Warm == [k \in {2, DayLength} |-> IF k = 2 THEN 2 ELSE 3]
Restated == {<<"X", 2, 2>>}

\* One item a worker, the same or a like one; an item of each family.
FeedItem(f, id, like, d, pts, pub) ==
    [family |-> f, id |-> id, like |-> like, direct |-> d, related |-> 1 - d, points |-> pts, quality |-> 0, published |-> pub]
N1 == FeedItem("news", "n1", "h", 1, 40, 0)
Unrelated == [N1 EXCEPT !.id = "n3", !.direct = 0]
Like == FeedItem("news", "n2", "h", 1, 50, 0)
F1 == FeedItem("fed", "f1", "h", 0, 85, 0)
FeedsOf(x, y) == [w \in {"a", "b"} |-> IF w = "a" THEN x ELSE y]
CollectorWorlds == {FeedsOf(<<x>>, <<x>>) : x \in {N1, F1, FeedItem("sec", "s1", "h", 1, 55, 0)}}
    \cup {FeedsOf(<<Unrelated, N1>>, <<>>), FeedsOf(<<N1>>, <<Like>>), FeedsOf(<<N1, Like>>, <<>>), 
            FeedsOf(<<N1, F1>>, <<>>), FeedsOf(<<FeedItem("fed", "f2", "h", 0, 85, None)>>, <<>>)}

\* Bound: a failure after the first is one of a delivery tried again, which with MaxSends attempts is then given up, and
\* the other worker is between cycles.  Of two workers with one feed it is "a" that fails first: they are alike;
\* two that meet over like headlines do not fail, one that takes both may.
BoundedCollectors ==
    /\ CollectorsNext
    /\ \/ faults' = faults
       \/ faults = 0 /\ worker'["b"] = worker["b"] /\ feeds["b"] \in {feeds["a"], <<>>}
       \/ \E w \in Workers : worker[w].attempt > 0 /\ Attempt(w) /\ \A v \in Workers \ {w} : At(v, "idle")
\* Bound: one snapshot at most is added to the stored ones, by a transaction begun while no observation is queued; a
\* headline is suppressed in its first wording.
BoundedLoader == /\ LoaderNext /\ (\A o \in captured' : o.outcome = "processed" \/ o.content = 1)
                 /\ (Cardinality(technicals) <= Cardinality(PacketSnapshots) + 1)'
                 /\ tx = None /\ tx' # None => tx'.snapshots = {} \/ captured = {}

\* Small sets of documents: companions of one action, a rewritten document, a bridge between two actions, two stages.
Doc(id, found, stage, published, action, text) ==
    [id |-> id, anchors |-> found, stage |-> stage, published |-> published, precision |-> "second", kind |-> "k", action |-> action, text |-> text]
Companions == {Doc("p", {1, 2}, "final", 1, "a", "x"), Doc("q", {2}, "final", 2, "a", "y")}
Rewritten == {Doc("p", {1}, "final", 1, "a", "x"), Doc("p", {1}, "final", 2, "a", "y"), Doc("q", {1}, "final", 0, "a", "z")}
Bridge == {Doc("p", {1}, "final", 1, "a", "x"), Doc("q", {2}, "final", 1, "b", "x"), Doc("r", {1, 2}, "final", 1, "a", "x")}
Staged == {Doc("p", {1, 3}, "proposed", 1, "a", "x"), Doc("q", {3}, "proposed", 1, "a", "x"), Doc("r", {3}, "final", 2, "a", "x")}
\* Two stored documents that share only an instrument the registry cannot read.
Hidden == {Doc("p", {1, 3}, "final", 1, "a", "x"), Doc("q", {2, 3}, "final", 1, "a", "x")}
New(docs) == [documents |-> docs, earlier |-> {}, current |-> [r \in {} |-> None], live |-> TRUE]
\* A late copy of a disclosure is stored but not current; a still earlier one is yet to come.
Record(d, wish) == [doc |-> d, root |-> <<1, "final">>, published |-> d.published, provenance |-> {d.id}, make_current |-> wish]
Since(documents0, d, others, redis0) ==
    [documents |-> documents0, earlier |-> {Record(d, TRUE)} \cup others, current |-> <<1, "final">> :> Version(Record(d, TRUE)), live |-> redis0]
Bridging == Since(Bridge, Doc("p", {1}, "final", 1, "a", "x"), {}, TRUE)
Continued == Since({Doc("r", {1}, "final", 0, "a", "x")}, Doc("p", {1}, "final", 2, "a", "x"),
                   {Record(Doc("q", {1}, "final", 1, "a", "x"), FALSE)}, FALSE)
IdentityWorlds == {New(Companions), New(Rewritten), Bridging, New(Staged), Continued, New(Hidden)}

\* Attempts at the same matrix, under the same labels with other dates, or with another seed.
Again(r, s, d) == [resume |-> r, seed |-> s, dates |-> d]
TwoHalves == <<"A1", "A2">>
FourWays == {Again(TRUE, 1, 1), Again(TRUE, 2, 1), Again(TRUE, 1, 2), Again(FALSE, 1, 1)}
\* Prospective: four sessions of one bar whose collected and re-fetched closes may differ, sequences of states, cells on
\* both sides of every threshold.
Prospective == INSTANCE ProspectiveEvaluation WITH
    Horizon <- 1, MinComplete <- 2, MinState <- 2, MinPooled <- 5, MinSymbols <- 2, MinExcess <- 1, MinSample <- 2, MinCells <- 2,
    Identities <- {"x"}, Scale <- 100
FourSessions == 1..4
DayBar(d, c) == [day |-> d, close |-> c]
Evidenced(d, status, b) == [day |-> d, of |-> "x", status |-> status, frozen |-> TRUE, bars |-> b]
CollectedAt(closes) == {Evidenced(d, "collected", <<DayBar(d, closes[d])>>) : d \in {e \in FourSessions : closes[e] # None}}
Pivot(kind, i, confirmed) == [kind |-> kind, index |-> i, confirmed |-> confirmed, price |-> 4]
SnapshotsOf(states) == [i \in FourSessions |-> [state |-> states[i], high |-> IF i > 2 THEN Pivot("high", 1, 3) ELSE None,
                                        low |-> IF i > 1 THEN Pivot("low", 1, 2) ELSE None]]
Replays == {SnapshotsOf(s) : s \in {<<"range", "bullish_setup", "range", "bearish_setup">>, <<"range", "range", "bearish_setup", "bullish_setup">>}}
SessionCases == {[kind |-> "sessions", bars |-> [d \in FourSessions |-> DayBar(d, f[d])], rows |-> CollectedAt(c)] :
    f \in [FourSessions -> {4, 5}], c \in [FourSessions -> {None, 4, 5}]}
StateCases == {[kind |-> "states", states |-> s, h |-> h] : s \in UNION {[1..n -> {"a", "b", "c"}] : n \in 1..5}, h \in {1, 2}}
CellSet == {[state |-> s, kind |-> "low", count |-> 2, ci |-> c, large |-> l] :
                s \in Prospective!Setups, c \in {<<1, 2>>, <<-2, -1>>, <<-1, 1>>}, l \in BOOLEAN}
      \cup {[state |-> "bearish_setup", kind |-> "high", count |-> n, ci |-> c, large |-> TRUE] : n \in {1, 2}, c \in {<<1, 2>>, <<-2, -1>>}}
CellCases == {[kind |-> "cells", cells |-> c] : c \in [1..3 -> CellSet]}
Excesses == {None} \cup {[count |-> n, excess |-> e, low |-> -2, high |-> 1] : n \in {1, 2}, e \in {0, 1, 2}}
ClassCases == {[kind |-> "classes", primary |-> p, holdout |-> h] : p, h \in [{"m", "n"} -> Excesses]}
MovedBy(n, m) == [count |-> n, move |-> m]
Windows == [1..3 -> {MovedBy(2, 0), MovedBy(2, 1), MovedBy(3, 1)}]
WindowCases == {[kind |-> "windows", cells |-> <<c, d, d>>] : c \in Windows, d \in Windows \cup {<<MovedBy(2, 0), MovedBy(1, 0), MovedBy(2, 1)>>, <<MovedBy(2, None), MovedBy(2, 0), MovedBy(2, 0)>>}}
\* Two symbols of nine observations, the fewest a shift leaves room for.
Observed9(bearish, returns) == [i \in 1..9 |-> [state |-> IF bearish[i] THEN "bearish_setup" ELSE "range", ret |-> returns[i]]]
Third == [i \in 1..9 |-> i \in {1, 3, 7}]
PoolCases == {[kind |-> "pool", obs |-> [s \in {"m", "n"} |-> IF s = "m" THEN Observed9(b, r) ELSE Observed9(Third, <<3, 0, 3, 0, 0, 0, 3, 1, 0>>)]] :
    b \in [1..9 -> BOOLEAN], r \in {<<0, 1, 0, 0, 3, 0, 1, 0, 2>>, <<-1, 2, -1, 2, -1, 2, -1, 2, 0>>}}
Drawn == [s \in {"m", "n"} |-> <<4, 5>>]
LaterRows == {Evidenced(3, "conflict", <<>>), Evidenced(3, "failed", <<>>), Evidenced(2, "collected", <<DayBar(2, 5)>>),
              [Evidenced(3, "collected", <<DayBar(3, 4)>>) EXCEPT !.frozen = FALSE]}
GateCases == {[kind |-> "gate", earliest |-> 3, sessions |-> {1, 2, 3}, rows |-> CollectedAt(c), today |-> t, refused |-> r, override |-> o,
               provider |-> p, later |-> LaterRows] : c \in [FourSessions -> {None, 4}], t \in 2..3,
    r \in {None, "usage", "pin", "configuration", "database"}, o \in BOOLEAN, p \in {"ok", "unconfigured", "failing"}}
ProspectiveCases == UNION {SessionCases, StateCases, CellCases, ClassCases, WindowCases, PoolCases, GateCases}

\* The settings of the instances are ones their components accept.
ASSUME SettingsAssumption == /\ MatrixAssumption /\ PacketAssumption /\ Technical!S!ConfigAssumption
                             /\ OutputsAssumption /\ LedgerAssumption /\ CalendarGoesOn
                             /\ CollectorsAssumption /\ EntriesAssumption(CollectorWorlds) /\ WorldsAssumption(IdentityWorlds)

optionVars == <<pages, fetched, requested, tries, chain, items>>
technicalVars == <<arriving, series, fed, emitted>>
allVars == <<part, input, feedVars, loaderVars, optionVars, outputVars, technicalVars, ledgerVars, collectorVars, identityVars, matrixVars>>

Derivations == {"news", "synthesis", "transitions", "setup", "evaluation", "prospective"}
Machines == {"feed", "loader", "chain", "output", "technical", "ledger", "collectors", "identity", "matrix"}

Init == /\ part \in Machines \cup Derivations /\ input = None
        /\ FeedInit(IF part = "feed" THEN FeedWorlds ELSE {[s \in Series |-> <<>>]}, IF part = "feed" THEN {107, 112} ELSE {107})
        /\ LoaderInit /\ OutputInit /\ MatrixInit
        /\ Options!OptionsInit(IF part = "chain" THEN Options!Vendors ELSE {<<>>})
        /\ Technical!EngineInit(IF part = "technical" THEN EngineWorlds ELSE {[k \in {2, DayLength} |-> <<>>]})
        /\ LedgerInit
        /\ IdentityInit(IF part = "identity" THEN IdentityWorlds ELSE {New({})})
        /\ CollectorsInit(IF part = "collectors" THEN CollectorWorlds ELSE {[w \in {"a", "b"} |-> <<>>]})
\* Only the variables of the part that runs may change.
Still(p, vars) == IF part = p THEN TRUE ELSE UNCHANGED vars
Derive == /\ input = None
          /\ \/ part = "news" /\ input' \in Collections
             \/ part = "synthesis" /\ input' \in SynthesisCases
             \/ part = "transitions" /\ input' \in PairCases
             \/ part = "setup" /\ input' \in Options!SetupCases
             \/ part = "evaluation" /\ input' \in Options!EvaluationCases
             \/ part = "prospective" /\ input' \in ProspectiveCases
Run == \/ part = "feed" /\ FeedNext
       \/ part = "loader" /\ BoundedLoader
       \/ part = "chain" /\ Options!OptionsNext
       \/ part = "output" /\ OutputNext
       \/ part = "technical" /\ BoundedEngine
       \/ part = "ledger" /\ LedgerNext
       \/ part = "collectors" /\ BoundedCollectors
       \/ part = "identity" /\ IdentityNext
       \/ part = "matrix" /\ MatrixNext
Next == /\ UNCHANGED part
        /\ Derive \/ (Run /\ UNCHANGED input)
        /\ Still("feed", feedVars) /\ Still("loader", loaderVars) /\ Still("chain", optionVars) /\ Still("output", outputVars)
        /\ Still("technical", technicalVars) /\ Still("ledger", ledgerVars) /\ Still("collectors", collectorVars)
        /\ Still("identity", identityVars) /\ Still("matrix", matrixVars)
Spec == Init /\ [][Next]_allVars

-----------------------------------------------------------------------------
Given(p) == part = p /\ input # None
Evaluating(kind) == Given("prospective") /\ input.kind = kind

(* Market data: however long a run waits, retries and pages, its series and contexts are those of one instant, and a
   relative return compares two returns of one instant of one session. *)
FeedSound == part = "feed" => OneInstant /\ LikeWithLike
(* Options data and options intelligence: a finished retrieval is complete or marked, its snapshot valid whatever the
   vendor sent, and the numbers derived from it add up and verify. *)
OptionsSound == part = "chain" => Options!ChainSound /\ Options!DerivationSound
(* Packet assembly: every news input is kept or counted once, in any order, a conflict keeping neither record, and none is of
   later than the cutoff. *)
NewsSound == Given("news") => NewsAccounted("X", 3, input)
(* Evidence synthesis: what is assembled is accepted, and bullish and bearish are treated alike. *)
SynthesesSound == Given("synthesis") => Intel!SynthesisSound(PacketOf(input.states, input.context, input.news))
(* Market intelligence: every synthesis is accepted, and no fact that follows from its others can be edited. *)
IntelligenceHolds == Given("synthesis") => Intel!IntelligenceSound(SynthesisOf(input))
(* Intelligence transitions: they are exactly the difference of two syntheses, and are undone from the other side. *)
TransitionsHold == Given("transitions") => Intel!TransitionsSound(EarlierOf(input), SynthesisOf(input))
(* Trade setup: every assessment verifies, a stricter policy adds no candidate, and only newer evidence decides. *)
AssessmentsSound == Given("setup") => Options!SetupHolds(input)
(* Alert content: an alert says what its sealed sources say, and an invalidation never comes without its setup and its
   change. *)
AlertTextsSound == Given("setup") => Options!AlertsHold(input)
(* Setup evaluation: every evaluation verifies, nothing is seen ahead of its window, and no invalidation is taken back. *)
EvaluationsSound == Given("evaluation") => Options!EvaluationHolds(input)
(* Prospective evaluation, the gate: nothing is fetched or called preregistered before enough sessions are complete, and only
   a conflict closes the gate again. *)
GateSound == Evaluating("gate") => Prospective!NoPeek(input)
(* What the evaluation measures: the moves of collected bars only, whatever a replay makes of the others. *)
ObservationsSound ==
    Evaluating("sessions") => Prospective!OnlyCollected(input.bars, Replays, input.rows,
                                                        Prospective!CompleteSessions(input.rows, FourSessions), "x", {4, 5, 6})
(* H2' treats bullish and bearish alike, reads aligned cells only, and never gains from a cell significant on the wrong side. *)
H2Sound == Evaluating("cells") => Prospective!VerdictsSound(input.cells)
(* H1 is never supported without its confirmation, and neither H1 nor H1X gains from a lost excess. *)
H1Sound == Evaluating("classes") => Prospective!HoldoutNeeded(input.primary, input.holdout)
(* H3 looked at over fewer pivot windows is never less supported. *)
H3Sound == Evaluating("windows") => Prospective!FewerWindows(input.cells)
(* H1' and the null it is read against measure no drift. *)
NullSound == Evaluating("pool") => Prospective!DriftNeutral(input.obs, Drawn, 7)
(* The sequence metrics of one series tell one story, and a circular shift keeps its runs. *)
MetricsSound == Evaluating("states") => Prospective!SequencesAgree(input.states, input.h)
(* From the sources to what is told of them: records are kept or counted, derived alike for bullish and bearish, and refused
   once edited; a transition is a difference. *)
EvidenceSound == NewsSound /\ SynthesesSound /\ IntelligenceHolds /\ TransitionsHold
(* Setups, the alerts about them and what became of them: each verifies, and rests on its own instant. *)
SetupsSound == AssessmentsSound /\ AlertTextsSound /\ EvaluationsSound
(* The protocol of the prospective evaluation: when it may look, and at what. *)
ProtocolSound == GateSound /\ ObservationsSound
(* Its statistics: no verdict gains from evidence against it. *)
StatisticsSound == H2Sound /\ H1Sound /\ H3Sound /\ NullSound /\ MetricsSound
(* Technical engine: the live engine is a replay, a restart a warm-up, and breaks are of levels known before them. *)
EngineSound == part = "technical" => Technical!EngineSound
===============================================================================
