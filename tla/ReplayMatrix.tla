------------------------------- MODULE ReplayMatrix -------------------------------
(***************************************************************************)
(* The evaluation matrix: one report per symbol, period and run, written   *)
(* over a directory that earlier attempts, killed or failed, have left     *)
(* behind.  Reports are rewritten in place, so a kill leaves a torn file,  *)
(* and --resume has to tell which of them it may keep.                     *)
(***************************************************************************)
EXTENDS Absence, Integers, FiniteSets

CONSTANTS
    MatrixSymbols, PeriodLabels,  \* --symbols and the labels of --periods
    MatrixIntervals,         \* --intervals
    PivotWindows,            \* --pivot-windows
    Split,                   \* the period --pseudo-split halves, or None
    HalfLabel,               \* <<label of its first half, of its second>>
    MaxMatrixRequests,       \* --max-requests
    Arguments,               \* what may differ between attempts: [resume, seed, dates]; dates: the spans given to the labels
    MaxAttempts,             \* bound
    Torn                     \* a file cut short; None: no file

VARIABLES
    disk,        \* file name -> report, Torn or None
    summary,     \* summary.json: the reports it aggregates
    args, step,
    pairs, pair, \* the symbols and periods still to come, and the one at work
    todo,        \* the items of the pair still to be evaluated
    sources,     \* the sources fetched for the pair
    reports, failures, done, requests,
    attempts, intact, \* the items valid when the attempt started
    spans             \* the dates earlier attempts gave to the labels
matrixVars == <<disk, summary, args, step, pairs, pair, todo, sources, reports, failures, done, requests, attempts, intact, spans>>

-----------------------------------------------------------------------------
\* The periods differ (parse_periods); a symbol or window named twice is left out.  They are taken in a fixed order: which
\* one plays no part.
RunsFor ==
    LET run(i, source, profile, session, pivot) ==
            [interval |-> i, source |-> source, profile |-> profile, session |-> session, pivot |-> pivot]
    IN {r \in {run("5m", "5m", "sb", "bound", 2), run("1d", "30m", "d", "across", 2)}
              \cup UNION {{run("1h", "30m", "sb", "bound", w), run("1h", "30m", "xs", "across", w)} : w \in PivotWindows} :
           r.interval \in MatrixIntervals}

\* The runs of a symbol and period, and the two halves of the split period.
MatrixItem(p, run, label, half) == [symbol |-> p[1], period |-> p[2], run |-> run, label |-> label, half |-> half]
Items(p) == {MatrixItem(p, run, p[2], 0) : run \in RunsFor}
            \cup {MatrixItem(p, run, HalfLabel[h], h) : h \in {k \in {1, 2} : p[2] = Split}, run \in {r \in RunsFor : r.interval = "1d"}}
Pairs == MatrixSymbols \X PeriodLabels
AllItems == UNION {Items(p) : p \in Pairs}
Total == Cardinality(AllItems)

RunName(x) == <<x.symbol, x.run.interval, x.label, x.run.profile, x.run.pivot>>
\* What evaluate reports of an item, its metadata, and the bars it read.
Report(x, a) == [symbol |-> x.symbol, interval |-> x.run.interval, label |-> x.label, pivot |-> x.run.pivot,
                 session |-> x.run.session, seed |-> a.seed, span |-> <<a.dates, x.half>>]

\* The halves are named after the period; a period named like a half would share its file.  No report is a missing file.
MatrixAssumption ==
    /\ IsFiniteSet(MatrixSymbols) /\ IsFiniteSet(PeriodLabels) /\ IsFiniteSet(PivotWindows)
    /\ HalfLabel[1] # HalfLabel[2] /\ {HalfLabel[1], HalfLabel[2]} \cap PeriodLabels = {}
    /\ \A a \in Arguments : a.resume \in BOOLEAN /\ \A x \in AllItems : Report(x, a) \notin {None, Torn}
    /\ MaxMatrixRequests \in Nat
    /\ None \notin Arguments \cup Pairs

\* valid_report looks at the label of the period and not at its dates.
\* Mutant: a report of another seed is kept.
ValidReport_AnySeed(file, x, a) == /\ file \notin {None, Torn}
                                   /\ file.symbol = x.symbol /\ file.interval = x.run.interval /\ file.label = x.label
                                   /\ file.pivot = x.run.pivot /\ file.session = x.run.session
ValidReport(file, x, a) == /\ file \notin {None, Torn}
                           /\ file.symbol = x.symbol /\ file.interval = x.run.interval /\ file.label = x.label
                           /\ file.pivot = x.run.pivot /\ file.session = x.run.session /\ file.seed = a.seed
ValidItems(a) == {x \in AllItems : ValidReport(disk[RunName(x)], x, a)}

\* estimate, with one page per fetch: every source of every pair.
Estimate == Cardinality(Pairs) * Cardinality({r.source : r \in RunsFor})

-----------------------------------------------------------------------------
MatrixInit ==
    /\ disk = [n \in {RunName(x) : x \in AllItems} |-> None] /\ summary = None
    /\ args = None /\ step = "idle" /\ pairs = {} /\ pair = None /\ todo = {} /\ sources = {}
    /\ reports = {} /\ failures = {} /\ done = 0 /\ requests = 0 /\ attempts = 0 /\ intact = {} /\ spans = {}

StartAttempt ==
    /\ step \in {"idle", "finished"} /\ attempts < MaxAttempts /\ Estimate <= MaxMatrixRequests
    /\ \E a \in Arguments : args' = a /\ intact' = ValidItems(a)
    /\ spans' = IF args = None THEN {} ELSE spans \cup {args.dates}
    /\ step' = "choose" /\ pairs' = Pairs /\ pair' = None /\ todo' = {} /\ sources' = {}
    /\ reports' = {} /\ failures' = {} /\ done' = 0 /\ requests' = 0 /\ attempts' = attempts + 1
    /\ UNCHANGED <<disk, summary>>

attemptUnchanged == UNCHANGED <<args, attempts, intact, spans>>
NextPair == pair' = None /\ step' = "choose" /\ todo' = {} /\ sources' = {}

\* The valid reports of the pair are taken over, with --resume; the rest is to be done.
Choose ==
    /\ step = "choose" /\ pairs # {}
    /\ LET p == CHOOSE p \in pairs : TRUE
           taken == {x \in Items(p) : args.resume /\ ValidReport(disk[RunName(x)], x, args)}
           left == Items(p) \ taken
       IN /\ pairs' = pairs \ {p}
          /\ reports' = reports \cup {disk[RunName(x)] : x \in taken}
          /\ done' = done + Cardinality(taken)
          /\ IF left = {} THEN NextPair ELSE step' = "fetch" /\ pair' = p /\ todo' = left /\ sources' = {}
    /\ UNCHANGED <<disk, summary, failures, requests>> /\ attemptUnchanged

\* One get_bars per source; a provider failure, or the client's budget, fails everything the pair has left.
Needed == {x.run.source : x \in todo}
FetchSource ==
    /\ step = "fetch" /\ requests < MaxMatrixRequests /\ requests' = requests + 1
    /\ LET s == IF "30m" \in Needed \ sources THEN "30m" ELSE "5m"
       IN /\ sources' = sources \cup {s}
          /\ step' = IF sources' = Needed THEN "write" ELSE "fetch"
    /\ UNCHANGED <<disk, summary, pairs, pair, todo, reports, failures, done>> /\ attemptUnchanged
FetchFails ==
    /\ step = "fetch" /\ requests' \in requests..MaxMatrixRequests
    /\ failures' = failures \cup todo /\ done' = done + Cardinality(todo) /\ NextPair
    /\ UNCHANGED <<disk, summary, pairs, reports>> /\ attemptUnchanged

\* open(..., "w") empties the file, then the report is dumped.
Upcoming == CHOOSE x \in todo : TRUE
Truncate == /\ step = "write" /\ todo # {}
            /\ disk' = [disk EXCEPT ![RunName(Upcoming)] = Torn] /\ step' = "dump" /\ done' = done + 1
            /\ UNCHANGED <<summary, pairs, pair, todo, sources, reports, failures, requests>> /\ attemptUnchanged
Dump == /\ step = "dump"
        /\ LET report == Report(Upcoming, args)
           IN disk' = [disk EXCEPT ![RunName(Upcoming)] = report] /\ reports' = reports \cup {report}
        /\ todo' = todo \ {Upcoming} /\ step' = "write"
        /\ UNCHANGED <<summary, pairs, pair, sources, failures, done, requests>> /\ attemptUnchanged
Empty == /\ step = "write" /\ todo # {}   \* no completed bar in the period
         /\ failures' = failures \cup {Upcoming} /\ done' = done + 1 /\ todo' = todo \ {Upcoming}
         /\ UNCHANGED <<disk, summary, step, pairs, pair, sources, reports, requests>> /\ attemptUnchanged
PairDone == /\ step = "write" /\ todo = {} /\ NextPair
            /\ UNCHANGED <<disk, summary, pairs, reports, failures, done, requests>> /\ attemptUnchanged

Summarize == /\ \/ step = "choose" /\ pairs = {} /\ summary' = Torn /\ step' = "summary"
                \/ step = "summary" /\ summary' = reports /\ step' = "finished"
             /\ UNCHANGED <<disk, pairs, pair, todo, sources, reports, failures, done, requests>> /\ attemptUnchanged
Kill == /\ step \notin {"idle", "finished"} /\ step' = "idle"
        /\ UNCHANGED <<disk, summary, pairs, pair, todo, sources, reports, failures, done, requests>> /\ attemptUnchanged

MatrixNext == StartAttempt \/ Choose \/ FetchSource \/ FetchFails \/ Truncate \/ Dump \/ Empty \/ PairDone \/ Summarize \/ Kill
MatrixSpec == MatrixInit /\ [][MatrixNext]_matrixVars

-----------------------------------------------------------------------------
Finished == step = "finished"
FetchFor(x) == <<x.symbol, x.period, x.run.source>>

(* Whatever the attempts before it did, an attempt without failures leaves every planned report as a fresh run of its
   arguments would write it, except that --resume may keep one of other dates under the same label. *)
LikeFresh == Finished /\ failures = {} =>
    \A x \in AllItems : LET file == disk[RunName(x)]
                        IN file = Report(x, args) \/ (args.resume /\ file.span[1] \in spans \ {args.dates} /\ file.seed = args.seed)
(* The summary aggregates the reports of the attempt, which are on disk; with --resume it is every valid one there. *)
SummaryTrue == Finished => /\ summary = reports /\ reports \subseteq {disk[n] : n \in DOMAIN disk}
                           /\ args.resume => reports = {disk[RunName(x)] : x \in ValidItems(args)}
                           /\ done = Total /\ Cardinality(reports) + Cardinality(failures) = Total
(* A resumed attempt, killed or not, loses no valid report, and fetches only what some missing report needs. *)
NothingLost == args # None /\ args.resume =>
    /\ intact \subseteq ValidItems(args)
    /\ failures = {} => requests <= Cardinality({FetchFor(x) : x \in AllItems \ intact})
(* Evaluation matrix: an attempt without failures leaves what a fresh run would, its summary counts what is on disk, and
   nothing valid is lost to a kill or fetched again. *)
MatrixSound == LikeFresh /\ SummaryTrue /\ NothingLost
===============================================================================
