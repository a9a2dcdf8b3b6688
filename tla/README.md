# MIAS in TLA+

MIAS collects market news and official events, derives immutable research
artifacts from market data, turns pairs of artifacts into alerts and delivers
them, and serves the artifacts through a read-only API.  This directory holds
TLA+ modules of its stateful parts and of the derivations between them, TLC
configurations that check them on small instances, and TLAPS proofs of the
properties that matter most for all values of the constants.

    tlc -workers 2 -config MCAlertDelivery.cfg AlertDelivery
    tlapm AlertStateStore_proofs.tla

`PROJECT.json` maps every definition to the lines it models, and lists the
runs, the hazards of the code, and for every checked property a plausible bug
(an operator `<Name>_<Bug>` next to the definition it mutates) that the
property detects.

## 1. The system

Nothing in MIAS shares memory across components.  The collectors are short
processes that the scheduler starts; the alert runner and the artifact tools
are started by hand or by the operational cycle; they meet in Redis,
PostgreSQL, the artifact directory, the receipt directory and the state
directory of the cycle.

| Component | State it keeps | Operations | Interacts with | What is hard |
|---|---|---|---|---|
| Alert state (`alert_engine/state.py`, `state_store.py`) | Redis: seen markers, subject states; sealed history on disk | `decide`, `replay`, `record`, `restore` | several `run-once` processes on one Redis; restore-state | two reads before a compare-and-set; a lost or resent commit; Redis back from an old snapshot; a restore that fails halfway |
| Alert delivery (`delivery/*`, `receipts.py`, `runner.py`) | Redis lease and delivered marker; numbered receipt files | `run-once`, `deliver`, `restore-delivery` | Telegram, Redis, the file system | a lease that expires under the send; a message without confirmation; a receipt or marker that fails after the message is out |
| Scheduler (`orchestrator/*`) | due times and running children of one thread | `step`, `run`, `run_once`, `shutdown`, `ChildRun.poll` | child process groups, signals, monotonic clock | children that hang or ignore SIGTERM; a stop at any point; cadence of a late loop |
| Official-event collectors (`collector/macro_*`, `treasury_*`, `geopolitical_*`, `bls_source.py`) | Redis keys with TTLs: processed cache, two leases, delivered marker, BLS cool-down | one cycle over the feeds | overlapping cycles, BLS API, analyzer, Telegram | leases shorter than the work they guard; Redis errors whose command ran |
| News, SEC, Fed collectors (`rss_reader.py`, `sec_collector.py`, `fed_collector.py`, `deduplicator.py`) | one NX marker per event, headline entries; for Fed also cache and delivered marker | one cycle over the feeds | Redis, Telegram, shadow writer | fail open: the marker comes before the work, and nothing is held between Fed's read of the marker and the send |
| Analyzer (`analyzer/*`) | none | scores, relevance, enrichment | an external model | which of a failed enrichment's effects remain |
| Shadow writer (`persistence/macro_shadow.py`, `shadow_lifecycle.py`) | a bounded queue and one thread per collector process | `submit`, worker loop, `shutdown` | event store | a full queue, shutdown while a transaction runs, a commit without answer |
| Event store (`persistence/repository.py`, `adapters/*`, `models.py`, `migrations/`) | PostgreSQL: events, versions, outcomes, current pointer | record a version, add outcomes, promote | other processes' transactions | out-of-order versions, equal content, rollback |
| Geopolitical identity (`collector/geopolitical_identity.py`, `persistence/geopolitical_*`) | Redis aliases that expire, durable anchor registry | resolve, register, backfill, audit and correct the pointers, compare audits | racing documents about one policy, shadow writers, operators | a key lost between look-up and script; conflicting roots must be recorded, never merged |
| Technical snapshots, evidence ledger (`persistence/technical_*`, `evidence/*`) | insert-only rows under partial unique indexes | a collection run, completeness audit | overlapping runs, the vendor's restatements | the loser of a race must answer duplicate or conflict |
| Artifact store (`artifact_store/*`) | immutable files; an index swapped in memory | `publish`, `refresh`, `latest`, `prior`, `history` | publishers, API threads | crash of the host between link and sync; a refresh that overtakes another; paging while the index changes |
| Operational cycle (`scripts/mias_*`, `deploy/systemd`) | `cycle.lock`, `HALTED.json`, `publisher-owner.json`, run directories | cycle, publish batch, `cleanup_owned_publisher` | `oc`, the cluster, the store, the API, systemd's ExecStopPost | commands that fail after they took effect; dead processes; manual and scheduled cycles |
| Market data and context (`market_data`, `market_context`) | none; one retrieval | fetch with pacing, retries and pages; calendar, aggregation; freshness, returns, comparison | a vendor whose data grow meanwhile | one instant for all series; calendar edges; two series that end apart |
| Evidence packet, synthesis, market intelligence | none | load at an information cutoff, assemble, derive, compare two syntheses | tables that go on changing | a read without the cut; builder and validator must agree |
| Technical engine (`technical`) | bounded windows per interval | `update`, `warmup`, `reset`; `replay` | - | incremental against whole-series; look-ahead; gaps |
| Options data and intelligence, trade setup, setup evaluation | none; one retrieval, output files | retrieve, derive, screen, check invalidation, evaluate, write | vendor, file system | partial chains; precedence of reasons; session counting; two files or none |
| Alert content (`alert_engine/builder.py`, `rules.py`, `validation.py`, `rendering.py`) | none | build, validate, verify, render | sealed artifacts | a statement no source makes |
| Evaluation (`evaluation`, `evaluation/prospective_validate.py`) | report files of a matrix | replay matrix with `--resume`; gate, hypotheses, nulls | kills, other attempts' files | what may be kept; peeking; symmetry of verdicts |
| API and UI (`api`, `ui`) | the swapped index | GET only | artifact store | - |

What makes each correct, in a sentence: the alert history never accepts an
alert twice nor anything about a setup after its invalidation; a second
message has a documented excuse and every marker a proof; no collector
overlaps itself and shutdown ends; an event is announced again only when its
message could not be marked, and always with the same analysis; every
submitted snapshot is accounted for and the store never shows half a
transaction; the publisher is up only under a claim and a recorded run is a
published one; a published file is whole and lasting, and a reader's index
never goes back; an artifact says what its inputs say at its instant, whenever and
in whatever order they were read, and every input is kept or counted; a ledger
has one accepted row per identity; and evidence is looked at only behind the gate.

## 2. Modules

| Module | Models | Extends / uses |
|---|---|---|
| `AlertState` | `state.py`: subject states, `Decide`, `NextState`, `Replay` (a fold) | SequencesExt |
| `AlertLog` | abstract specification: the growing history of accepted alerts | - |
| `AlertStateStore` | `state_store.py`: record and restore command by command | AlertState; `Log == INSTANCE AlertLog WITH ...` |
| `AlertDelivery` | guard, Telegram adapter, receipts, the three runner commands | - |
| `AlertContent` | rules, builder, validators, rendering | TradeSetup |
| `Scheduler` | scheduler thread and its children | - |
| `EventState` | the Redis protocol of one official event | - |
| `GeopoliticalIdentity` | identity resolution, anchor registry, pointer correction, audits | - |
| `FailOpenCollectors` | news, SEC and Fed cycles, scores and thresholds | - |
| `EventRepository` | the write transaction and the promotion policy, as operators | - |
| `ShadowWriter` | queue, thread and shutdown around that transaction | EventRepository |
| `EvidenceLedger` | a technical run, its snapshots, the ledger's transaction, the audit | MarketCalendar |
| `MarketCalendar` | sessions, segments, bar ends, validation, completion, aggregation | Absence |
| `MarketContext` | freshness, session facts, comparison | MarketCalendar, Decimals |
| `MarketFeed` | one retrieval against a live vendor | MarketContext |
| `EvidencePacket`, `PacketLoader` | assembly; the loader against changing tables | Absence ; EvidencePacket |
| `EvidenceSynthesis`, `MarketIntelligence` | builders and re-deriving validators; transitions | - ; EvidenceSynthesis |
| `TechnicalSignals`, `TechnicalEngine` | states and signals; replay and incremental engine | - ; INSTANCE TechnicalSignals |
| `Decimals`, `OptionsSnapshot`, `OptionsIntelligence` | rounding; a chain's retrieval and its snapshot; what is derived from it | - ; - ; OptionsSnapshot, Decimals |
| `TradeSetup`, `SetupEvaluation` | assessment, invalidation check; what became of the candidates | OptionsIntelligence ; TradeSetup |
| `OutputFiles` | putting several sealed files in place | - |
| `ReplayMatrix`, `ProspectiveEvaluation` | resumable matrix; gate, hypotheses, metrics, nulls | Absence ; Decimals |
| `Absence` | nothing but the constant `None`, one for the components that `Components_proofs` brings together | - |
| `PublishCycle` | cycles, publisher claim, clean-up, halt and receipt | - |
| `ArtifactStore` | publish, index build and swap, paging, host crash | SequencesExt |
| `AlertStateStore_proofs`, `AlertDelivery_proofs`, `EventState_proofs`, `Scheduler_proofs`, `ShadowWriter_proofs`, `PublishCycle_proofs`, `ArtifactStore_proofs` | the theorems | the module, TLAPS |
| `Components_proofs` | theorems about six components of `derivations` | EvidenceLedger, OutputFiles, FailOpenCollectors, GeopoliticalIdentity, PacketLoader, ReplayMatrix; TLAPS |

The `MC*` modules only give constants their values, enumerate inputs and
define symmetry sets.  `MCDerivations` puts every module that has no run of its own
into one specification, whose variable `part` says which component runs;
`MCOptions` holds part of its inputs.  `AlertDelivery`,
`EventState` and `PublishCycle` are checked as they are.

### Alert state

`seen`, `subjects` are the Redis keys; `log`, `sealed` the sealed history (its
sequence, and the state it leaves, computed with the same pure functions).
`record()` is `Record`, `ReadSeen`, `ReadSubject`, `Commit`: the two reads are
separate commands and another runner may commit between them.  A commit's
reply may be lost with the commit done (`CommitReplyLost`), and the client
library may send it again (`CommitResent`).  Recovery is `Restart` (from the last
`Snapshot`), `Flush` (an operator deletes a cache that restore refuses),
`RestoreBegin`, `RestoreCheck`, `RestoreSubject`, `RestoreMark`.  The runbook
runs the restore with no live runner, and so does the model.
Constants name alerts, their subject, code and pattern; the check of the
alert's own form (`validation.py`) is `AlertContent`'s.

### Alert delivery

A process is one invocation of the runner.  Every Redis command, provider
call, directory listing and link is a step; `Crash` ends a process anywhere,
`Expire` takes a lease at any time (its TTL is not related to the length of
the send).  History variables: `excused` (the send of the alert went
unrecorded), `overrun` (senders whose lease ran out), `history` (alerts ever
accepted, which Redis may forget).

### Scheduler

`loop` is where the thread is, `todo` what its current loop has yet to visit.
Durations are kept as remainders, so time passes without end and liveness is
checked over real cycles.  A child is a leader and perhaps another member of its
group; `strays` and `left` record processes the scheduler has lost
sight of.  Dry runs, disabled collectors and the run history are left out:
they start nothing.

### Official-event collectors

One action is one round trip with the local code up to the next one.
`kind` chooses the protocol: macro and treasury and geopolitical differ in
when freshness is asked and whether delivery follows from the cache; BLS
adds a query with a cool-down.  Redis loses no key before its expiry here (its
loss is `AlertDelivery`'s subject); alerts are switched on; the shadow copy is
`ShadowWriter`.  Ghosts: `accepted` and `told` (what Telegram has), `excused`,
`overran`, `failedAt`.

### Shadow writer and event store

A step is one critical section of the writer's condition variable or one
statement of the transaction.  The event row is locked by the identity insert
and `SELECT FOR UPDATE`, so at READ COMMITTED one transaction at a time writes
one event; `AfterFailure` says what a failing statement leaves: nothing, or,
when the commit's answer is lost, perhaps everything.

### Operational cycle

A step is one `oc` command or file operation.  A failing command may have
taken effect.  `Start` to `Record` are the wrapper and the batch publisher,
`Look` to `Unlink` are `cleanup_owned_publisher`, run by the publisher's
`finally` and by the service's ExecStopPost.  Ghosts: `seen` (the claim a
clean-up has read), `disturbed` (runs whose publisher somebody else took),
`reviewed` (runs the operator has looked at before clearing a halt).  Batch
generation is one step; an interactive interrupt is left out.

### Market data and market context

`MarketCalendar` counts instants in equal units, `DayLength` of them a day;
`Hours` gives the opening hours of each trading day, so that weekends, holidays
and early closes are data.  `MarketContext` translates freshness, the session
facts and the comparison; the engine reads no clock, `now` and `asOf` are arguments.
`MarketFeed` runs one `runner.run`: an answered request (`Answered`), a failure that
is retried (`Transient`) and one that is not (`Refused`) are the actions; each
lets the time of its wait pass, and the vendor offers what has been traded by
then, a forming bar included.  `FeedSound`: the run's contexts are those of
the instant it read first, and the two returns of a comparison are taken at one
instant of one session.

### Evidence packet, synthesis, market intelligence

`EvidencePacket` assembles a packet; every input of a collection becomes an
item or is counted under one reason.  `PacketLoader` reads it from tables that
collectors (`Observe`), the shadow writer (`Write`, `CommitRows`, `RollBackRows`) and the
technical writer (`WriteSnapshot`) go on changing; a row is stamped when
its statement runs and visible when its transaction commits.  The ghost
`built` holds what the first build gave once no row stamped by the cutoff was
still on its way.  An exit code is 2 for a malformed or later market file, 4 for an
altered one, for a snapshot that fails its verification or an event whose identity its
provenance does not reproduce, 5 for a database that is not configured or cannot be
read, 3 for what is missing without `--allow-partial`; a near-duplicate headline is
stored unscored.  `EvidenceSynthesis` and `MarketIntelligence` are operators:
builders, and validators that derive everything again.  A content hash is a
flag `sealed` that an edit clears and a reseal sets.

### Technical engine

`TechnicalEngine` has the two engines side by side: `Replay` computes a snapshot
from a whole series, `Update` is `IncrementalTechnicalEngine.update` with its
bounded windows.  Any bar of the world may arrive at any time; one that is
old, a duplicate or off the calendar is refused.  Floats are integers in units
of 1/`Scale`; both engines divide in the same places, as the code does, so
equality is the code's.  States and signals are `TechnicalSignals`.

### Options data to setup evaluation

`OptionsSnapshot` retrieves a chain: `PageRead` takes a page and goes on, ends
(complete, or truncated at the page limit) or stops at a malformed payload, an item out of
scope or a foreign link; `PageRetried`, `PageRefused` and `BudgetSpent` are the failures.  Normalization gives each record its first
reason for exclusion or a contract; two records that disagree about one contract keep
neither.  `OptionsIntelligence`, `TradeSetup` and `SetupEvaluation` are builders and
validators over such snapshots.  `AlertContent` builds, validates, verifies and
renders the three kinds of alert from assessments, checks and pairs of market
intelligence.  `OutputFiles` is how the four commands write their files:
one action is one system call, `Crash` anywhere.

### Evidence ledger

A run fetches (`Fetch`: some fetches fail), submits its snapshots, and writes the
ledger in one transaction: `BeginFinish` reads the accepted keys, `InsertCollected` is
the savepoint's insert, which waits for another run's open insert of the same
identity, `CompareContents` the read of the accepted row after an IntegrityError, `CommitFinish` the commit,
`CommitUnanswered` a commit whose answer is lost (the rows are there, the run reports failure),
`RollBack` a time-out or death that leaves nothing.  Between runs time passes (`Tick`) and the vendor restates a
series (`Restate`).

### News, SEC and Fed collectors

A step is one Redis round trip, one model call, or one Telegram attempt, each of which
may fail with its effect done or not; `Crash` and expiry at any point.  A SET NX whose answer
is lost is sent again by the client (`Dedupe`): the worker then meets its own marker.
`trouble` records per event what went wrong; the properties say that every duplicate and every
silence has its entry there.

### Geopolitical identity

`Take`, `Check`, `Lookup`, `Resolve`, `Process` are a collector's steps around one
document; `Persist` and `Drop` a shadow writer's; `Backfill`, `AuditPointers`, `Correct`,
`Revert` and `SaveSnapshot` the operator's commands, each a process of its own.
Redis loses one key or all of them (`Lose`).

### Replay matrix and prospective evaluation

`ReplayMatrix` steps through the symbols and periods of an attempt: `StartAttempt` with some arguments,
`Choose` the next pair and take over what `--resume` keeps, `FetchSource` or `FetchFails`, then for each
item `Truncate` and `Dump` its report (it is written in place) or find it `Empty`, `PairDone`,
`Summarize`; `Kill` anywhere.  Pairs and items are sets: the code's fixed order plays no part
in what is claimed, so they are taken in any one order (`CHOOSE`).  `intact` and `spans` are
ghosts: what was valid when the attempt started, and the dates earlier ones gave to the labels.
`ProspectiveEvaluation` holds the gate,
which sessions count, H1', H2' and the earlier hypotheses, the sequence
metrics and the shift null; the draws of seeded generators are arguments.

### Artifact store

An artifact stands for its id, instant and bytes.  A publisher's step is one
system call; a file is `partial`, `cached` (written, not synced), `whole` or, after a
crash of the host, `torn`.  The file system is assumed to keep a synced file, and a
directory entry once the directory was synced or the system wrote it by
itself; the code ignores a failing directory sync, and the property about
durability excepts exactly that call (`unsynced`).  Ghosts: `told`,
`unsynced`, `floor` (what a build must contain), `first` (what the first page's
index held).  A page is given by the ranks of the artifacts that remain (`Rank`,
`FirstOf`, `Left`), which is what the code's sort and slice leave.

## 3. Runs

| Run | Instance | Shows |
|---|---|---|
| `alert_state` | 2 runners, 2 attempts, one setup with an available alert and two competing invalidations, one symbol with two patterns, 1 Redis loss; runners and invalidations symmetric | `DecisionsJustified`, `CacheIsReplay` (with `RefusalWritesNothing`), `ContentionNeedsProgress`, and that the store implements `AlertLog` |
| `alert_state_suppressed` | the same | a finding: `terminal_suppressed` where the documented precedence says `duplicate` |
| `alert_delivery` | 3 processes on one alert, 1 provider attempt, 2 receipt races, 1 Redis loss | `DuplicateNeedsExcuse`, `LeaseProtects`, `MarkerProven`, `ReportsTrue` (receipts, exit codes), `RestoreComplete` |
| `alert_delivery_live` | 2 processes, 2 provider attempts | `Terminates` |
| `scheduler` | 2 collectors (one forks), interval 2, timeout 1, grace 1, loop up to 2 ticks late | `RunsAccounted` (no collector overlaps itself, every status is true), `NoDrift`, `NoChildOutlives`, `EverythingEnds` (shutdown and every run) |
| `scheduler_orphans` | the same | a finding: a group member outlives the shutdown |
| `event_state` | 2 workers, 4 collectors, time to 5 with freshness 2 and leases 1, 2 faults, 2 Telegram attempts | `OneAnalysis` (`WorkersApart`, `SameContent`), `DuplicateNeedsExcuse`, `CleanCycleDelivers`, `QueriesSpaced` |
| `shadow_writer` | 2 processes, queue of 1, 3 submissions among 5 snapshots of 4 versions | `Accounted`, `StoreWhole` (what is persisted is stored, whole), `HistoryForward` (duplicates truthful, the pointer never back) |
| `publish_cycle` | scheduled and manual cycles, batch of 2, 2 run directories, 2 faults | `UpOnlyOwned`, `RecordsTrue` (recorded runs are published, unrecorded ones halt) |
| `publish_cycle_overlap` | 1 run directory, no faults | a finding: the clean-up of a skipped cycle takes the running cycle's publisher |
| `artifact_store` | 3 artifacts (2 of one instant), 2 publishers, 2 refreshers, pages of 1, 1 fault, 1 host crash | `PublicationSound` (`Durable`, `PublishedOnce`), `PagesJoin`, `IndexGrows` |
| `derivations` | the components between market data and evaluated setups, and the fail-open collectors, the identity and the ledger, one at a time | the properties below |

### The derivations run

`MCDerivations` runs one component at a time: `part` is chosen in the initial state,
a state machine's actions change only its own variables, and a pure derivation is one step
that takes one of its enumerated inputs.  They share a run because they share
configuration and inputs (the calendar, the records, the snapshot builder), not because
they interact; each of its properties speaks of one component or one question about it
(`OutputsSound`, `LedgerSound`, `CollectorsSound`, `IdentitySound`, `LoaderSound` and `MatrixSound` are those of
`OutputFiles`, `EvidenceLedger`, `FailOpenCollectors`, `GeopoliticalIdentity`, `PacketLoader` and `ReplayMatrix`, which it extends).

| Property | Instance | Shows |
|---|---|---|
| `FeedSound` | symbol and benchmark; five trading or closed days, one of them short; 12 pairs of series, with gaps or a bar too many for the page limit; 1 retry, 2 pages; runs started in a session and after its close | `OneInstant`, `LikeWithLike` |
| `LoaderSound` | cutoff 2, 2 events, one of them not traceable in one wording, 2 observations, processed or suppressed, 3 transactions; every context file, database and `--allow-partial` | `Reproducible`, `StrictIsComplete` |
| `OptionsSound` | 2 pages, 3 requests, 1 retry; records that agree, conflict, are malformed, out of scope or late | `PartialIsMarked`, `SealedChain`, `SnapshotSound`, `ActivityAddsUp`, `DerivedFromSnapshot` |
| `EvidenceSound` | | the next four |
| `NewsSound` | all collections of up to 2 inputs and some of 3: published or observed late, undated, irrelevant, suppressed, identical, conflicting | `NewsAccounted` |
| `SynthesesSound` | 1375 packets: 5 states in 3 timeframes or none, with each of 5 market contexts, and with each of 4 news collections without a context or with one | `SynthesisSound` |
| `IntelligenceHolds` | the same, and every edit of one derived fact | `IntelligenceSound` |
| `TransitionsHold` | pairs with 5 earlier frame sets, with and without context and news | `TransitionsSound` |
| `SetupsSound` | | the next three |
| `AssessmentsSound` | 7 record sets, 16 policies that differ in one rule each, every pattern and coverage of the market, later markets before, at and after | `SetupSound`, `CheckSound` |
| `AlertTextsSound` | the same setups with seven later markets | `AlertsSound` |
| `EvaluationsSound` | setups taken before, at and after an open, snapshots before, in and after the window, schedules that start late or skip a session | `EvaluationSound` |
| `ProtocolSound` | | the next two |
| `GateSound` | 3 sessions with and without rows, and a later row of each kind | `NoPeek` |
| `ObservationsSound` | 4 sessions whose collected and re-fetched closes may differ, 2 replays | `OnlyCollected` |
| `StatisticsSound` | | the next five |
| `H2Sound`, `H1Sound`, `H3Sound` | cells around every threshold, of 3, 2 and 3 windows | `VerdictsSound`; `HoldoutNeeded`; `FewerWindows` |
| `NullSound` | 2 symbols of 9 observations, every placement of the bearish ones in one | `DriftNeutral` |
| `MetricsSound` | sequences of up to 5 states | `SequencesAgree` |
| `OutputsSound` | 3 commands on 2 paths in both orders, one with `--overwrite` | all outputs or none, and they stay whole |
| `EngineSound` | 5m and daily worlds of 8 and 3 bars over 27 price paths; at most one bar skipped | `LiveIsReplay`, `RestartIsWarmup`, `BreaksAreReal` |
| `LedgerSound` | 2 overlapping runs over 2 symbols in both orders, 2 intervals, one restatable series | `OneAccepted`, `ReportsTrue`, `ConflictNeedsOverlap`, `AuditNamesTheLost` |
| `CollectorsSound` | 2 workers, 2 cycles, 1 fault and a second one of a repeated delivery, 2 attempts, time to 2, entries of each family, alike and identical | `TwiceNeedsExcuse`, `SilenceNeedsExcuse`, `CachedIsDelivered` |
| `IdentitySound` | 2 workers, 5 sets of documents (companions, rewritten, bridging two live actions, staged, continued from a record whose keys are gone), 2 takes each, 1 loss, 1 fault | `OneRoot`, `ConflictsRecorded`, `EarliestWins`, `CorrectionsGuarded`, `AcceptanceTrue` |
| `MatrixSound` | 2 labels and the halves of one, 3 requests, 2 attempts with 4 argument sets | `LikeFresh`, `SummaryTrue`, `NothingLost` |

A property of several named claims is broken in `PROJECT.json` by one mutant.  The modules keep one for each further claim
too, defined before what it replaces; each claim by itself is violated by its own:
`RestoreCheck_FirstOnly` (`RefusalWritesNothing`), `Released_Anyones` (`WorkersApart`), `Sync_Skipped` (`Durable`),
`TimeReason_AsPublished` (`NewsSound`), `Sign_ZeroIsUp` (`SynthesesSound`), `PatternTransitions_EnteredAgain` (`TransitionsHold`),
`SetupInvalidated_UnlessItHolds` (`AlertTextsSound`), `Forward_FromAnchor` (`EvaluationsSound`),
`CompleteSessions_Attempted` (`GateSound`), `ClassifyH1_PrimaryOnly` (`H1Sound`), `Monotone_Ends` (`H3Sound`),
`Excess_OfNothing` (`NullSound`) and `Transitions_Stays` (`MetricsSound`).

Why the bounds are enough.  Two runners are enough for every interleaving of
two reads and a compare-and-set, since a third only repeats what the second
does to the first; three alerts on one subject make a loser of a
race meet both an ordinary and a terminal winner.  A guard needs three
processes: the one whose lease ran out, its successor, and one that comes
after both.  Two collectors suffice because the scheduler's only shared
resource is its thread.  In `event_state` the clock passes every expiry
(freshness 2, lease 1, marker 3), so each key is seen live, expired and set
again.  A queue of one is full and empty; three submissions make a snapshot
queue behind one in flight and a third be dropped.  Two faults are a failure
and another during its recovery.  Three artifacts with pages of one give a
first, a middle and a last page and a tie between instants.  For the
theorems of section 5 there are no bounds.

In `derivations`: two series are all a comparison relates; they end together or apart,
and one of them may exceed the page limit.  Two
observations of two events give a version that replaces, one that is older, and one that arrives
after the cutoff.  Three commands are a rollback that meets both a fresh and an
overwriting neighbour.  Eight bars fill and shift every window of the small
configuration (pivots of 1, look-back of 2, averages of up to 4) and confirm, break and fail
a level.  Two ledger runs are the two sides of a unique index; a third would meet a
committed row, as the second does when it starts late (only the same conflict found twice would need it).  For the collectors, one fault before,
in or after each step is what "fail open" is about, and a second one, in the
repeated delivery, is what exhausts its attempts; two cycles see a key set and expired.  The
loader's tables gain at most one snapshot beyond the stored ones, the newer one that must not be read, by a transaction that
begins while no observation is queued; a headline is suppressed in its first wording.  Of two collectors with one feed, the
one that fails is called "a", and two that meet over like headlines do not fail (one that takes both may).  The
inputs of the pure derivations hold, for each rule, a case on either side of it.

Bounds that only cut the state space: `MaxLosses`, `MaxFaults`,
`MaxCrashes`, `MaxCycles`, `MaxSubmits`, `MaxTime`, `MaxLate`, `MaxObserved`,
`MaxWrites`, `MaxTakes`, `MaxMishaps`, `LastSecond` (of the collectors), `Skipped` (of `MCDerivations`), and the input
sets of the `MC*` modules.  The others
(`MaxAttempts`, `MaxRaces`, `Capacity`, `Limit`, `Batch`, leases, TTLs) are
parameters of the code with small values.

Deadlock is checked except where the system stops: the processes of a
delivery end, and the scheduler ends after a shutdown.

## 4. Fairness

Only two modules state fairness.  `AlertDelivery!FairSpec`: a started process
is run by the operating system until it ends, so its steps are weakly fair;
kills, expiries and Redis restarts are not.  `Scheduler!Spec`: time passes, the
thread is scheduled, and SIGKILL is delivered, all weakly fair; nothing is
assumed about the children, which is why `RunsEnd` and `ShutdownCompletes`
say something.  Everything else is safety: the retrievals and commands of
`derivations` end by their own bounds, and no component there waits for another.

## 5. Proofs

TLAPS checks, for every value of the constants that meets the assumptions their
modules name, thirty-three theorems.  The assumptions ask of the code's parameters what it
asks (there is at least one attempt, a page and a queue hold at least one, intervals
and time-outs are positive, the clock's period is a multiple of every interval), of the
bounds that they are numbers, of processes of the delivery that they are finitely many, and of the markers `None`, `Failed` and the like that they are no other value;
artifacts are a finite set of integers with an integer instant each, and indexed
kinds are listed; a command has at least one target; the exchange calendar has a session before each start
of a ledger run and one after the last that has closed by then, as the code takes for granted; a feed's entries are
consistent and were published (`EntriesAssumption`), the recorded history of policy actions is one the resolution can have left (`WorldsAssumption`);
instants and days are integers and the events of a packet are finitely many (`PacketAssumption`); the two halves of a
split period are named unlike each other and unlike every period (`MatrixAssumption`: the code names them after the period, and nothing
refuses a period that is named like a half and would share its files).  Each module proves that its `IInv` holds initially and is kept by
every action (one lemma per action, or per group that disturbs the same conjuncts), and
draws the run's properties from it.

| Module | Theorems | The inductive invariant adds |
|---|---|---|
| `AlertStateStore_proofs` | `TypeCorrect`, `DecisionsCorrect`, `CacheCorrect`, `CacheIsTheReplay`, `ContentionIsProgress`, `Implementation` (refinement of `AlertLog`) | `HistoryInv` (the sealed state tells which alerts were accepted and which setups are closed), `CacheInv` (what Redis holds in each phase of a recovery), `RunnerInv` (what each local says about the history), `RestoreInv` (what a restore has still to check, write and mark) |
| `AlertDelivery_proofs` | `TypeCorrect`, `LeaseExcludes`, `MarkersAreProven`, `ReportsAreTrue`, `DuplicatesAreExcused`, `RestoresAreComplete` | how far a process has come (`ProcessOK`, `LoopOK`), what a receipt says of its writer (`ReceiptsInv`: files are numbered without a gap, one per process), how far a restore has come (`RestoreInv`), and who may still send for an alert that nothing has disturbed |
| `EventState_proofs` | `WorkersKeptApart`, `AnalysisIsOne`, `DuplicatesAreExcused`, `CleanCyclesDeliver`, `QueriesAreSpaced` | who holds which key (`HoldInv`), how long a key outlives the event's freshness (`TimeInv`), which analysis is cached, on its way and sent (`TextInv`, `CacheInv`, `WordingInv`), what was told and excused (`OnceInv`, `DeliveredInv`), the BLS cool-down (`CoolInv`) |
| `Scheduler_proofs` | `RunsAreAccounted`, `DueTimesDoNotDrift`, `ChildrenAreReaped` | that a collector's record, running child and status agree (`NoSelfOverlap`, `HonestInv`), where the thread may be once it was told to stop (`LoopInv`), how far a due time may be from now (`DueInv`, `PhaseInv`) |
| `ShadowWriter_proofs` | `StoreIsWhole`, `SnapshotsAreAccounted`, `HistoryMovesForward` | `WritesInv`: what a transaction has gathered is what it would gather from the store of this moment; what a row, a task and the counters say (`RowInv`, `TaskInv`, `CountersInv`) |
| `PublishCycle_proofs` | `TypeCorrect`, `PublisherIsClaimed`, `RecordsAreTrue` | `Placed`, `Bounded`, `Fresh`, `Claimed`, `Quiet` for the first; `Known`, `Staged`, `Ended`, `UnrecordedHalts` for the records |
| `ArtifactStore_proofs` | `PublicationsAreSound`, `SnapshotsGrow`, `PagesJoinUp` | `FilesInv` (each publisher's temporary file and place against the names), `IndexInv` (what a build has found and has still to read), `WalkInv` (what a reader's pages hold and lack) |
| `Components_proofs` | `LedgerIsSound`, `FilesAreAllOrNone`, `CollectorsAreSound`, `IdentityIsSound`, `PacketsAreSound`, `MatrixIsSound` | ledger: `TableInv` (rows of the ledger and of all open transactions together are unique and say of their runs what is so), `PlanInv`, `BuiltInv`, `ProgressInv`, `DoneInv` (what a plan, the rows made of it, and those already written amount to); files: `Staged` (how far a command has come), `OwnInv`, `ApartInv`, `PutInv` (whose text a path holds); collectors: `WorkerOK` (what a worker knows of its entry), `KeyInv`, `SilentInv`, `OnceInv` (what an event's keys say of its sends, and who may still send); identity: `LiveInv`, `HomeInv`, `OneInv`, `BackedInv` (what ties a document to a root), `RowsInv`, `ChosenInv`, `CandidateInv` (what the registry holds of it, and a collector about to resolve), `CorrectionInv`; loader: `NamesEnd` (some version has the last name), and that what was built is what the tables still give; matrix: `DiskInv` (whose report a file holds), `WorkInv` (how far an attempt has come), `KeptInv` (what was valid stays so, what is redone was not), `ReportsInv` and `FetchInv` (what the reports, counters and requests amount to) |

Why the invariants are needed:

- *Alert state.*  A granted commit finds Redis equal to what the runner read; with
  `CacheInv` and `RunnerInv` that makes the alert new and its setup open.  Without
  `RestoreInv` the cache could not be shown to be whole when runners are let in again.
  `CacheIsTheReplay` speaks of a fold over the whole log.  The prover has no induction over
  sequences, but the log grows by one alert per commit, so the behaviour itself is the
  induction: `ReplayInv` says that the recursive function behind the fold exists, is
  unique, and gives the sealed state; `ReplayAppend` extends it by one alert.
  `ContentionIsProgress` counts: `CountInv` says how many accepted alerts a runner's failed commits
  are owed to (`Paid`), and that one more is there when its reads are out of date.
  `Implementation` is the refinement: every step of a runner, a restore or a failure
  maps to one append to `AlertLog` or to a stutter.
- *Alert delivery.*  A duplicate needs two senders.  For an alert that nothing has
  disturbed (`Undisturbed`: no lease ran out under its sender, no send went unrecorded) `OnceInv`
  says that whoever is about to send finds no marker and is the first, and that one message, once out, is
  remembered by the marker, by a receipt that a restore will read, or by the process that carries it.
- *Event state.*  Keys expire, so that "sent once" cannot rest on a key alone.  `TimeInv`
  shows that the cache and the delivered marker outlive the event's freshness (`Ttl` is
  longer than `MaxAge`, and nothing is written before the publication): a worker that misses them finds a stale
  event.  `CacheInv` and `WordingInv` tie the cached analysis to those on their way and sent;
  without them two workers could announce different texts.
- *Scheduler.*  `NoDrift` asks that due times keep the phase of their offset however late
  the loop is: `DueInv` bounds how far a due time may be from now, and `ModShift`, `ClockTick` and
  their like are the arithmetic of `%` it takes.
  `NoChildOutlives` needs `LoopInv`: the thread is stopped only when nothing runs.
- *Shadow writer.*  `WritesInv` holds because the row lock keeps every other transaction
  from committing in between; whole snapshots, counted duplicates and the pointer
  that only moves forward follow from it.
- *Operational cycle.*  `UpOnlyOwned` is not inductive: unlinking the claim is safe
  only if the publisher is down by then.  `Claimed` says that a process inside its publication
  holds the claim unless it was disturbed, `Quiet` that a clean-up which still holds the claim
  it read has no user of that claim beside it, `Fresh` that a run about to claim is new.
- *Artifact store.*  `IndexInv`: at most one build is under way, and whatever of its floor it
  has not found lies in a kind still to be read.  A page is defined by ranks: the number of
  entries at or before an artifact among the remaining ones.  `PagesJoin` is then proved without
  reasoning about a sort: ranks tell artifacts apart, the next page holds those of the first
  `Limit` ranks, and whatever of the first index the pages lack lies after the cursor.
- *Evidence ledger.*  One accepted row per identity is not inductive for the ledger alone: `TableInv`
  says it of the ledger and every open transaction at once, which is what the unique index, seen
  from a waiting insert, guarantees.  A report is true because a run settles each
  planned row (`ProgressInv`): its own content is there, or a failure or a conflict was counted.  `ItemOK` carries what the fetch
  knew into the row: the session was over (`ClosedSession`, arithmetic of the calendar), and a
  snapshot it names is stored as named or in the shadow writer's log.  That a plan consists of planned
  items is about `FlattenSeq` and a sort (`Flattened`, `Sorted`); the first is an induction over a sequence, done by its least
  counterexample.
- *Output files.*  A command that may not overwrite finds none of its own files after a rollback
  because it put each at most once (`OwnInv`), and two of them never hold one path (`ApartInv`).
- *Fail-open collectors.*  The two families differ.  A news or SEC event has a marker set with NX, so that
  an undisturbed one has one worker at most on its way through a cycle (`MarkedOnce`); a Fed event has no lease, so that it
  takes `PendingOnce`: who has read the delivered marker and not sent yet.  The cached result outlives the age
  limit because `FedTtl` is longer than `FedMaxAge`; with a release dated ahead that argument fails
  (section 6), and `EntriesAssumption` excludes it.  `SilentInv` carries the reason for a silence
  from the moment a worker leaves the entry until its marker expires.
- *Policy identity.*  `OneRoot` is about two stored events; what makes them agree is everything that
  can tie a document to a root: a stored version, an event on its way, an alias, a cached
  analysis (`Known`).  `LiveInv` covers the time before a key is lost, when aliases alone decide.  Afterwards, while
  nothing disturbs the registry, `BackedInv` says that whatever Redis still knows is backed by an event saved or
  on its way, `RowsInv` that the registry has its anchors, and `ChosenInv` that a
  collector between the lookup and the script has the root the registry gave; `OneInv` follows for each step.  `HomeInv` is what keeps
  two actions from taking one root: a root is named after a document of its action.
  That a backfill or an audit finds an eldest event or an earliest version needs that
  the history is finite (`FirstOf`, by a least counterexample over a bijection).
- *Packet loader.*  `Settled` is stable: a step that would add a row stamped by the cutoff has no such
  row on its way (`SettledStays`), and a build depends on the tables only through the rows
  stamped by then (`SameReads`).  That an item's version is the one the code's order picks needs that the
  order of versions has a last one (`NamesEnd`), and that its five keys, compared one after the other, order the candidates
  (`AheadOrders`, `PlacesTaken`).
- *Evaluation matrix.*  A file is valid for one item only, since its name and its metadata tell items
  apart (`ItemsApart`); `KeptInv` then says that a resumed attempt overwrites nothing valid, and what it finds
  valid at its turn was so at its start.  `FetchInv` counts: an attempt without failures has made
  one request per symbol, period and source of what was missing so far, and no more.

Model-checked only:

- `Terminates` and `EverythingEnds`: liveness is outside the prover's reach, as is
  ENABLED.
- The properties of `derivations` that no theorem names: `FeedSound`, `OptionsSound`, `EngineSound` `EvidenceSound`, `SetupsSound`, `ProtocolSound` and `StatisticsSound`.  They compare folds and recursive functions over
  enumerated data, where a proof would be an induction over the data.  No module uses a RECURSIVE operator.

The six theorems of `Components_proofs` speak of a component by itself (its initial
states and its actions); in `derivations` the same actions run as one `part`, and its `SettingsAssumption` shows
that the instances meet the components' assumptions.

## 6. Where code and documents disagree

1. `state.py:6-8` gives `duplicate` precedence; a runner that reads the seen
   marker before, and the subject after, another's commit of the same
   invalidation is told `terminal_suppressed`.  Nothing is sent wrongly.
2. `docs/phase3-scheduler-orchestration.md:180` promises no orphans,
   grandchildren included; a group whose leader exits by itself is never signalled.
3. `docs/operational-market-cycle.md:23` says the lock prevents overlapping
   cycles; the ExecStopPost clean-up of a skipped cycle takes down the
   publisher of the cycle that holds the lock.

What the models say of the code where its comments say more, without a run of their
own:

- `market_context/engine.py:164`: when the common cutoff lies before the other
  series' latest session, `_evaluated` indexes an empty list and the run ends with an
  IndexError.  `MarketContext!CompareRaises` is exactly that case; `LikeWithLike`
  speaks of the others.
- `options_data/massive.py`: an item that states neither type nor expiration is
  in scope for `_in_scope`; it is only excluded as a malformed contract later.
- `setup_evaluation`: the closing window includes the target close, the calendar calls
  that instant "post", so a snapshot taken exactly at the close is refused.  The validator
  checks that outcomes are unique, not that they are in canonical order.  The runner's docstring
  still says that no production protocol exists, `rules.py` pins one.
- `trade_setup/runner.py`: a rollback unlinks by name, so it can take away a file
  that a concurrent `--overwrite` run has put there since; and a kill between two links leaves the first
  file alone.  `OutputsSound` states both.
- `evidence/collector.py` rules out spurious conflicts; that holds between runs that do
  not overlap (`ConflictNeedsOverlap`).
- `collector/geopolitical_identity.py`: between the look at the aliases and the script a key may expire
  or a registration may still be queued; `OneRoot` lists when two roots result.  One case came from the attempt to
  prove it: take documents with the anchors {1,3}, {2,3} and {1,2} of which the registry reads 1 and 2, and let the
  aliases of the first expire; the second, which shares only 3 with it, gets a root of its own, the third follows the second's
  aliases, and 1 then has two roots although nothing failed (the mishap `unknown`).
- `collector/fed_collector.py:123-124` refuses a release that is too old and no release that is dated
  ahead.  One dated far enough ahead would still be fresh when the delivered marker has expired, and
  be announced again; the models and the theorem take the sources' dates as not later than
  the observation.
  `persistence/adapters/geopolitical.py:167` ("every observation order converges on the same
  current version") holds when all versions can be compared and none was stored as stale (`EarliestWins`); `substantively_equal` is not transitive.
- `alert_engine/rules.py`: an invalidation alert exists only for an assessment that
  also gives an availability alert, and the pair of markets behind it also gives a change of pattern.
- `evaluation/matrix.py`: a resumed attempt looks at the label of a period and not at its
  dates; an attempt that fails without `--resume` leaves older reports on disk that its summary
  does not mention; a failed fetch of one source drops everything the symbol and
  period have left.
- `evaluation/hypotheses.py`: a positive excess below the null's 2.5 % point counts as
  CONSISTENT in H1 (H1' asks otherwise); without a holdout the answer is INSUFFICIENT.
- `evaluation/prospective_validate.py`: the gate counts sessions complete in the ledger, which may be more than
  those still eligible after the bars were fetched again.  The engine is replayed over every
  re-fetched bar (line 84), warm-up and ineligible sessions included, and no hash covers those: they may change the
  states the evaluation reads.  `OnlyCollected` therefore speaks of the moves and
  of which bars are observed, for any replay, and not of the states.
- `market_intelligence/validation.py`: the validator has the synthesis and not its packet.  It refuses every edit of a fact that follows from the others,
  and accepts one of what was counted or copied: item counts moved between two families (an invented `sec` count raises
  `sec_filing_present`), an older oldest item, other exclusion counts.  `Edited` and `Copied` are the two sides.
- `technical/runner.py:311`: a run whose commit was answered with an error reports failure, although its rows may be
  there; the rows are those of the whole run or none (`ReportsTrue`).
- `analyzer/deduplicator.py:69` says that processing goes on instead of dropping the event.  When only the answer of SET NX is
  lost, the client's retry finds the marker the first attempt has set, the event counts as a duplicate,
  and nothing is logged; the alert is dropped.  `SilenceNeedsExcuse` lists this as the reason `resent`,
  and for a Fed release the historical copy is dropped with it.

## 7. Not modelled, and what comes next

Not modelled, and why:

- Source adapters and normalizers, vendors' field names, HTML and RSS parsing: text in,
  an event out; the models start from the event.
- Configuration, registry and command lines: read once, no state; their values
  are constants.
- Database schema, engine settings: the uniqueness they declare is part of the
  transactions that meet it.  Reconciliation and the news, SEC and macro audits are read-only reports.
- Batch generation: one step of `PublishCycle`.
- API and UI: views of the index that `ArtifactStore` models; artifact kinds and the options
  activity summary are tables over stored files.
- Bootstrap and random draws, the phase-5 report, lag tables, live validation and the
  vendors' live checks: statistics and reports over what is modelled.
- Canonical JSON, digests, decimal formatting, wording: an equal content is an equal
  value.  `Decimals` has the rounding where a property depends on it.
- A runner started while a restore is under way, which the runbook forbids.
- `persistence/adapters/macro.py:110-112`: `ShadowWriter!Verdict` leaves out that a differing precision makes a comparison
  ambiguous.  Two copies of one document are compared by `GeopoliticalIdentity`
  in their action and text, which stand for all the content the code compares.
- `artifact_store/store.py:92-100`: the directory of a kind is created once and its entry never synced; `ArtifactStore` starts
  with the directories in place.

What remains of the plan is proofs about the two state machines that `derivations` runs before pure
derivations: `OptionsSnapshot` (`PartialIsMarked`) and `MarketFeed` (`OneInstant`).
