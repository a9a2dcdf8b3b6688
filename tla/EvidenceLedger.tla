----------------------------- MODULE EvidenceLedger -----------------------------
(***************************************************************************)
(* Daily prospective evidence: technical runs that may overlap fetch their *)
(* series, hand their latest snapshots to the shadow writer and, at the    *)
(* end, write one row per closed session, symbol and interval into the     *)
(* append-only ledger, in one READ COMMITTED transaction per run.  Two     *)
(* partial unique indexes are what arbitrates between runs.                *)
(*                                                                         *)
(* The bars of a session are abstracted to a version number: 0 misses a    *)
(* bar, any other is a complete session, and two versions have two hashes. *)
(***************************************************************************)
EXTENDS MarketCalendar

CONSTANTS
    Runs,
    Symbols,          \* [run -> its --symbols, in order]
    Labels,           \* the frozen intervals, in order (lengths; DayLength is 1d)
    WarmupSessions,   \* [interval -> WARMUP_SESSIONS]
    FreezeTime,       \* committer timestamp of the freeze commit
    StartTimes,       \* instants at which a run may start
    Restatable        \* bound: the sessions the offered restates while the runs go on

\* The instances' settings; the calendar goes on before and after every start.
LedgerAssumption ==
    /\ \A r \in Runs : Symbols[r] \in Seq(Range(Symbols[r]))
    /\ Labels \in Seq(Nat \ {0})
    /\ StartTimes # {} /\ StartTimes \subseteq Nat
    /\ None # "transport"

VARIABLES
    runTime,     \* the clock
    offered,     \* [<<symbol, interval, day>> -> version of the bars]
    phase,       \* per run: "idle", "fetched", "writing", "comparing" or "done"
    startedAt,   \* provider.as_of() of the run
    planned,     \* EvidenceRun.items and .failures as rows to be
    rows, next,  \* what build_rows made of them, and the row record_* is at
    inserted,    \* the rows of the run's open transaction
    counts, ok,  \* of write_rows; what finish() returned
    unsaved,     \* the snapshots the shadow writer lost or saw in conflict, as it logs
    ledger,      \* technical_evidence_ledger, committed
    snapshots,   \* technical_snapshots: [<<symbol, interval, day>> -> content hash]
    readAt       \* the committed ledger when the run read the accepted keys (for the properties)

runVars == <<phase, startedAt, planned, rows, next, inserted, counts, ok, unsaved, readAt>>
ledgerVars == <<runTime, offered, runVars, ledger, snapshots>>

-----------------------------------------------------------------------------
\* evidence/pin.py: the first session whose open is strictly after the freeze.
FirstSessionOpenAfter(t) == Min({d \in Trading : Segment(d, "regular").start > t})
Start == FirstSessionOpenAfter(FreezeTime)

\* expected_bar_count: the last bar of a session is cut at the close.
ExpectedBars(d, k) == IF k = DayLength THEN 1 ELSE (Hours[d].close - Hours[d].open + k - 1) \div k
BarCount(d, k, version) == ExpectedBars(d, k) - IF version = 0 THEN 1 ELSE 0

LastClosedSession(t) ==
    IF DayOf(t) \in Trading /\ t >= Segment(DayOf(t), "regular").end THEN DayOf(t) ELSE PreviousTradingDay(DayOf(t))

CalendarGoesOn == \A t \in StartTimes : /\ \E d \in Trading : d < DayOf(t)
                                        /\ \E d \in Trading : d > LastClosedSession(t)

\* reference_day and warmup_start of technical/runner.py.
ReferenceDay(t, k) ==
    LET d == DayOf(t)
        s == Segment(d, "regular")
        firstEnd == IF k = DayLength THEN s.end ELSE Min({s.start + k, s.end})
    IN IF d \in Trading /\ t >= firstEnd THEN d ELSE PreviousTradingDay(d)
WarmupDays(t, k) ==
    LET r == ReferenceDay(t, k) IN {d \in Trading : d <= r /\ Cardinality({e \in Trading : d < e /\ e <= r}) < WarmupSessions[k]}

EligibleSessions(t, k) == {d \in WarmupDays(t, k) : Start <= d /\ d <= LastClosedSession(t)}

\* The latest snapshot of a series: its day, and a hash of everything it was computed from.
SeriesDays(s, k, t) == {d \in WarmupDays(t, k) : BarCount(d, k, offered[<<s, k, d>>]) > 0}
LatestSnapshot(s, k, t) ==
    IF SeriesDays(s, k, t) = {} THEN None
    ELSE [key |-> <<s, k, Max(SeriesDays(s, k, t))>>,
          hash |-> <<Min(WarmupDays(t, k)), [d \in SeriesDays(s, k, t) |-> offered[<<s, k, d>>]]>>]

\* session_items: the snapshot is referenced by the latest eligible session only, and only when it falls in it.
Item(s, k, d, t) ==
    LET latest == LatestSnapshot(s, k, t)
        reference == IF latest # None /\ d = Max(EligibleSessions(t, k)) /\ latest.key[3] = d THEN latest ELSE None
        version == offered[<<s, k, d>>]
    IN [key |-> <<s, k, d>>, failed |-> None, complete |-> BarCount(d, k, version) = ExpectedBars(d, k),
        content |-> [bars |-> version, snapshot |-> reference]]
\* missing_items: a symbol whose fetch failed; the targets of the failed attempt.
Missing(s, k, d, kind) == [key |-> <<s, k, d>>, failed |-> kind, complete |-> FALSE, content |-> None]
PlanOf(s, t, failure) ==
    FlattenSeq([i \in DOMAIN Labels |->
        LET days == Ascending(EligibleSessions(t, Labels[i]))
        IN [j \in DOMAIN days |-> IF failure = None THEN Item(s, Labels[i], days[j], t) ELSE Missing(s, Labels[i], days[j], failure)]])

-----------------------------------------------------------------------------
LedgerInit ==
    /\ runTime = Min(StartTimes)
    /\ offered \in [UNION {{<<s, k, d>> : s \in Range(Symbols[r]), k \in Range(Labels), d \in Trading} : r \in Runs} -> {1}]
    /\ phase = [r \in Runs |-> "idle"] /\ startedAt = [r \in Runs |-> None]
    /\ planned = [r \in Runs |-> <<>>] /\ rows = [r \in Runs |-> <<>>] /\ next = [r \in Runs |-> 1]
    /\ inserted = [r \in Runs |-> {}] /\ ok = [r \in Runs |-> None] /\ unsaved = [r \in Runs |-> {}]
    /\ counts = [r \in Runs |-> [inserted |-> 0, duplicate |-> 0, conflict |-> 0, failed |-> 0]]
    /\ ledger = {} /\ snapshots = [x \in {} |-> 0] /\ readAt = [r \in Runs |-> {}]

\* Time passes between starts; the vendor restates a session, or loses a bar of it.
Tick == /\ \E t \in StartTimes : t > runTime /\ runTime' = t
        /\ UNCHANGED <<offered, runVars, ledger, snapshots>>
Restate == /\ \E x \in Restatable, v \in {0, 2} : offered[x] = 1 /\ offered' = [offered EXCEPT ![x] = v]
           /\ UNCHANGED <<runTime, runVars, ledger, snapshots>>

\* main(): run_symbol of every symbol, some fetches failing terminally; the snapshots are submitted and drained.
RunSymbols(r, failing, lost) ==
    LET plan(s) == PlanOf(s, runTime, IF s \in failing THEN "transport" ELSE None)
        fetched == Range(Symbols[r]) \ failing
        latest == {LatestSnapshot(s, k, runTime) : s \in fetched, k \in Range(Labels)} \ {None}
        stored == {x \in latest : x.key[1] \notin lost /\ x.key \notin DOMAIN snapshots}
    IN /\ planned' = [planned EXCEPT ![r] = FlattenSeq([i \in DOMAIN Symbols[r] |-> plan(Symbols[r][i])])]
       /\ snapshots' = [x \in DOMAIN snapshots \cup {y.key : y \in stored} |->
                           IF x \in DOMAIN snapshots THEN snapshots[x] ELSE (CHOOSE y \in stored : y.key = x).hash]
       /\ unsaved' = [unsaved EXCEPT ![r] = {x \in latest \ stored : x.key \notin DOMAIN snapshots \/ snapshots[x.key] # x.hash}]
Fetch(r) ==
    /\ phase[r] = "idle"
    /\ \E failing \in {{}, {Last(Symbols[r])}}, lost \in {{}, Range(Symbols[r])} : RunSymbols(r, failing, lost)
    /\ startedAt' = [startedAt EXCEPT ![r] = runTime]
    /\ phase' = [phase EXCEPT ![r] = "fetched"]
    /\ UNCHANGED <<runTime, offered, rows, next, inserted, counts, ok, ledger, readAt>>

\* finish(): the transaction begins, reads the accepted keys and skips them; build_rows.
Accepted(table, key) == {x \in table : x.status = "collected" /\ x.key = key}
Row(r, item) ==
    [run |-> r, key |-> item.key, content |-> IF item.complete THEN item.content ELSE None, with |-> None,
     status |-> IF item.complete THEN "collected" ELSE "failed",
     kind |-> IF item.complete THEN None ELSE IF item.failed = None THEN "incomplete_session" ELSE item.failed,
     backfilled |-> DayOf(startedAt[r]) > NextTradingDay(item.key[3])]
BeginFinish(r) ==
    /\ phase[r] = "fetched"
    /\ LET isNew(i) == Accepted(ledger, i.key) = {}
           build(failed) == FlattenSeq([j \in DOMAIN planned[r] |->
               LET i == planned[r][j] IN IF isNew(i) /\ (i.failed # None) = failed THEN <<Row(r, i)>> ELSE <<>>])
       IN rows' = [rows EXCEPT ![r] = build(FALSE) \o build(TRUE)]
    /\ phase' = [phase EXCEPT ![r] = "writing"]
    /\ readAt' = [readAt EXCEPT ![r] = ledger]
    /\ UNCHANGED <<runTime, offered, startedAt, planned, next, inserted, counts, ok, unsaved, ledger, snapshots>>

Visible(r) == ledger \cup inserted[r]
Others(r) == UNION {inserted[q] : q \in Runs \ {r}}
Current(r) == rows[r][next[r]]
Pending(r) == next[r] <= Len(rows[r])
Done(r, outcome) == /\ counts' = [counts EXCEPT ![r][outcome] = @ + 1]
                    /\ next' = [next EXCEPT ![r] = @ + 1]
                    /\ phase' = [phase EXCEPT ![r] = "writing"]
Insert(r, row) == inserted' = [inserted EXCEPT ![r] = @ \cup {row}]
writeUnchanged == <<runTime, offered, startedAt, planned, rows, ok, unsaved, ledger, snapshots, readAt>>

RecordFailure(r) == /\ phase[r] = "writing" /\ Pending(r) /\ Current(r).status = "failed"
                    /\ Insert(r, Current(r)) /\ Done(r, "failed")
                    /\ UNCHANGED writeUnchanged

\* record_collected, the savepoint: the unique index makes it wait for another run's open insert of the same identity.
InsertCollected(r) ==
    /\ phase[r] = "writing" /\ Pending(r) /\ Current(r).status = "collected"
    /\ Accepted(Others(r), Current(r).key) = {}
    /\ IF Accepted(Visible(r), Current(r).key) = {}
       THEN Insert(r, Current(r)) /\ Done(r, "inserted")
       ELSE phase' = [phase EXCEPT ![r] = "comparing"] /\ UNCHANGED <<inserted, counts, next>>
    /\ UNCHANGED writeUnchanged

\* Mutant: an IntegrityError is taken for a duplicate.
CompareContents_AllDuplicates(r) ==
    /\ phase[r] = "comparing"
    /\ Done(r, "duplicate")
    /\ UNCHANGED inserted /\ UNCHANGED writeUnchanged

\* record_collected after an IntegrityError: the same evidence is a duplicate, another one conflict row per distinct hash.
CompareContents(r) ==
    /\ phase[r] = "comparing"
    /\ \E accepted \in Accepted(Visible(r), Current(r).key) :
         LET conflict == [Current(r) EXCEPT !.status = "conflict", !.with = accepted]
             same(x) == x.status = "conflict" /\ x.with = accepted /\ x.content = Current(r).content
         IN IF accepted.content = Current(r).content THEN Done(r, "duplicate") /\ UNCHANGED inserted
            ELSE /\ ~\E x \in Others(r) : same(x)
                 /\ IF \E x \in Visible(r) : same(x) THEN UNCHANGED inserted ELSE Insert(r, conflict)
                 /\ Done(r, "conflict")
    /\ UNCHANGED writeUnchanged

EndRun(r, reported) ==
    /\ phase[r] = "writing" /\ ~Pending(r)
    /\ ledger' = ledger \cup inserted[r]
    /\ inserted' = [inserted EXCEPT ![r] = {}]
    /\ ok' = [ok EXCEPT ![r] = reported]
    /\ phase' = [phase EXCEPT ![r] = "done"]
    /\ UNCHANGED <<runTime, offered, startedAt, planned, rows, next, counts, unsaved, snapshots, readAt>>
CommitFinish(r) == EndRun(r, counts[r].conflict = 0 /\ counts[r].failed = 0)
\* The connection is lost, or the process dies, when the COMMIT has taken effect and its answer has not arrived.
CommitUnanswered(r) == EndRun(r, FALSE)

\* A lock or statement timeout, a connection lost before the COMMIT took effect, a LedgerError, or the process dying: the
\* transaction is rolled back.
RollBack(r) == /\ phase[r] \in {"fetched", "writing", "comparing"}
               /\ inserted' = [inserted EXCEPT ![r] = {}]
               /\ ok' = [ok EXCEPT ![r] = FALSE]
               /\ phase' = [phase EXCEPT ![r] = "done"]
               /\ UNCHANGED <<runTime, offered, startedAt, planned, rows, next, counts, unsaved, ledger, snapshots, readAt>>

LedgerNext == Tick \/ Restate \/ \E r \in Runs : \/ Fetch(r) \/ BeginFinish(r) \/ RecordFailure(r)
                                                  \/ InsertCollected(r) \/ CompareContents(r)
                                                  \/ CommitFinish(r) \/ CommitUnanswered(r) \/ RollBack(r)

\* main(): 1 for a failed symbol or a ledger step that did not succeed.
EvidenceExit(r) == IF ok[r] /\ ~\E i \in DOMAIN planned[r] : planned[r][i].failed # None THEN 0 ELSE 1

-----------------------------------------------------------------------------
\* technical_evidence_tools: coverage and audit_rows.
Expected(d, symbols) == {<<s, k, d>> : s \in symbols, k \in Range(Labels)}
Complete(d, symbols) == \A x \in Expected(d, symbols) :
                          Accepted(ledger, x) # {} /\ ~\E c \in ledger : c.status = "conflict" /\ c.key = x
AuditProblem(row) ==
    LET reference == row.content.snapshot
    IN IF row.status # "collected" \/ reference = None THEN None
       ELSE IF reference.key \notin DOMAIN snapshots THEN "snapshot_missing"
       ELSE IF snapshots[reference.key] # reference.hash THEN "snapshot_hash_mismatch" ELSE None

(* Whatever runs overlap, time out or die: one accepted row per identity; a writer that lost the race always finds the row
   it lost to (the LedgerError of record_collected is unreachable); and each rejected content is recorded once. *)
OneAccepted ==
    /\ \A x, y \in ledger : x.key = y.key /\ x.status = "collected" /\ y.status = "collected" => x = y
    /\ \A r \in Runs : phase[r] = "comparing" => Accepted(Visible(r), Current(r).key) # {}
    /\ \A x, y \in ledger : x.status = "conflict" /\ y.status = "conflict" /\ x.with = y.with /\ x.content = y.content => x = y
    /\ \A x \in ledger : x.status = "conflict" => x.with \in ledger /\ x.with.content # x.content

Filed(row, table) ==
    IF row.status = "failed" THEN row \in table
    ELSE \E x \in Accepted(table, row.key) :
            x.content = row.content \/ \E c \in table : c.status = "conflict" /\ c.with = x /\ c.content = row.content

(* A run whose exit code is 0 has evidence for everything it planned, its own content wherever the identity was still open
   when it read the ledger, and the coverage report calls each session it planned complete unless another run has recorded a
   conflict.  A run that reports a failure may have committed, its COMMIT unanswered: of any run that is over, whatever it
   reports, the ledger holds no row, or answers every row the run built: a failure is recorded, and collected evidence is
   the accepted one, or its content is on record as in conflict with it. *)
ReportsTrue ==
    \A r \in Runs : phase[r] = "done" =>
      /\ EvidenceExit(r) = 0 => \A i \in DOMAIN planned[r] : LET item == planned[r][i] IN
            \E x \in Accepted(ledger, item.key) : x \in readAt[r] \/ x.content = item.content
      /\ EvidenceExit(r) = 0 => \A d \in Trading :
            LET keys == Expected(d, Range(Symbols[r]))
            IN keys \subseteq {planned[r][i].key : i \in DOMAIN planned[r]} =>
                 Complete(d, Range(Symbols[r])) \/ \E c \in ledger : c.status = "conflict" /\ c.key \in keys /\ c.run # r
      /\ (\A x \in ledger : x.run # r) \/ \A i \in DOMAIN rows[r] : Filed(rows[r][i], ledger)

(* A conflict only arises between runs that overlapped: a later run skips what was accepted before it read, so a changed
   snapshot reference or a restated bar never turns into one. *)
ConflictNeedsOverlap == \A x \in ledger : x.status = "conflict" => x.with \notin readAt[x.run]

(* A session counts as complete only after its close, with evidence that names no snapshot another audit would miss,
   unless the shadow writer's own log of that run says the snapshot was lost or in conflict. *)
AuditNamesTheLost ==
    /\ \A x \in ledger : x.status = "collected" => (AuditProblem(x) # None => \E u \in unsaved[x.run] : u = x.content.snapshot)
    /\ \A x \in ledger : /\ x.key[3] \in Trading /\ Start <= x.key[3] /\ Segment(x.key[3], "regular").end <= startedAt[x.run]
                         /\ x.status = "collected" => x.content.bars # 0
                         /\ x.backfilled => \E d \in Trading : x.key[3] < d /\ d < DayOf(startedAt[x.run])
LedgerSound == OneAccepted /\ ReportsTrue /\ ConflictNeedsOverlap /\ AuditNamesTheLost
=============================================================================
