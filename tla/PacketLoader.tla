------------------------------ MODULE PacketLoader ------------------------------
(***************************************************************************)
(* Building a packet from the database at an information cutoff while the  *)
(* writers are at work: the shadow writer persists what a collector        *)
(* observed some time ago, re-scores it, and the technical writer adds     *)
(* snapshots.  A row is stamped when its statement runs and can be read    *)
(* when its transaction commits, so a packet may be read in between.       *)
(***************************************************************************)
EXTENDS EvidencePacket

CONSTANTS
    Event,        \* the events: [family, symbols, published: wording -> publication, traceable: wording -> its stored
                  \* facts give back its durable identity]
    Symbol,       \* --symbol
    AsOf,         \* --as-of
    Lookback,     \* --news-lookback-hours
    Horizon,      \* bound: the last instant
    MaxObserved, MaxWrites,  \* bounds: observations and transactions
    Snapshots0    \* the technical rows stored before

Wording == {1, 2}
StoredRow == [symbol : STRING, interval : Intervals, end : Int, complete : BOOLEAN, sealed : BOOLEAN, valid : BOOLEAN]
\* Instants, days and keys are numbers, and None is none of the values it stands beside.
PacketAssumption ==
    /\ {AsOf, DayOfInstant(AsOf)} \subseteq Int /\ Symbol \in STRING
    /\ IsFiniteSet(DOMAIN Event) /\ DOMAIN Event \subseteq Int
    /\ \A e \in DOMAIN Event, c \in Wording :
          LET day == Event[e].published[c] IN day # None => {day, DayOfInstant(day)} \subseteq Int
    /\ \A s \in Snapshots0 : s.created \in Int /\ s.row \in StoredRow
    /\ None \notin Int \cup {[symbol |-> Symbol, asOf |-> AsOf]} /\ (\A S \in SUBSET Intervals : None \notin [S -> StoredRow])

VARIABLES
    clock,
    captured,    \* observations the collectors have queued: [event, content, observed, outcome]
    tx,          \* the open transaction's rows, None without one
    versions,    \* event_versions: [id, event, content, observed, recorded]
    history,     \* event_history: [version, kind, value, outcome, recorded]
    provenance,  \* event_provenance: [version, retrieved]
    technicals,  \* technical_snapshots: [row, created]
    observed, writes,  \* bounds: observations and transactions so far
    built        \* ghost: what the first build after everything settled gave, for every argument

tables == <<versions, history, provenance, technicals>>
loaderVars == <<clock, captured, tx, tables, observed, writes, built>>

Published(v) == Event[v.event].published[v.content]
EmptyTx == [versions |-> {}, history |-> {}, provenance |-> {}, snapshots |-> {}]

LoaderInit ==
    /\ clock = 0 /\ captured = {} /\ tx = None /\ observed = 0 /\ writes = 0 /\ built = None
    /\ versions = {} /\ history = {} /\ provenance = {} /\ technicals = Snapshots0

TimePasses == clock < Horizon /\ clock' = clock + 1 /\ UNCHANGED <<captured, tx, tables, observed, writes, built>>

\* A collector handles a (possibly changed) event, or drops a headline like an earlier one unscored, and queues it for
\* the shadow writer.
Outcomes(e) == IF Event[e].family = "news" THEN {"processed", "near_duplicate_suppressed"} ELSE {"processed"}
Observe ==
    /\ observed < MaxObserved /\ observed' = observed + 1
    /\ \E e \in DOMAIN Event, c \in Wording : \E outcome \in Outcomes(e) :
         LET o == [event |-> e, content |-> c, observed |-> clock, outcome |-> outcome]
         IN /\ \A p \in captured : p.event # e
            /\ captured' = captured \cup {o}
    /\ UNCHANGED <<clock, tx, tables, writes, built>>

\* The shadow writer's transaction: the version unless its content is known, its provenance, its decision, and the score
\* of a processed event.
Write ==
    /\ tx = None /\ writes < MaxWrites /\ writes' = writes + 1
    /\ \E o \in captured :
         LET known == {v \in versions : v.event = o.event /\ v.content = o.content}
             id == IF known = {} THEN Cardinality(versions) + 1 ELSE (CHOOSE v \in known : TRUE).id
         IN /\ captured' = captured \ {o}
            /\ tx' = [EmptyTx EXCEPT
                 !.versions = IF known # {} THEN {} ELSE {[event |-> o.event, content |-> o.content,
                                  observed |-> o.observed, id |-> id, recorded |-> clock]},
                 !.provenance = {[version |-> id, retrieved |-> o.observed]},
                 !.history = {[version |-> id, kind |-> k, value |-> o.observed, outcome |-> o.outcome, recorded |-> clock] :
                                 k \in {"decision"} \cup IF o.outcome = "processed" THEN {"score"} ELSE {}}]
    /\ UNCHANGED <<clock, tables, observed, built>>

\* The technical writer's transaction: the snapshot of a bar that has ended.
WriteSnapshot ==
    /\ tx = None /\ writes < MaxWrites /\ writes' = writes + 1
    /\ \E sealed \in BOOLEAN :
         tx' = [EmptyTx EXCEPT !.snapshots = {[created |-> clock, row |->
                  [symbol |-> Symbol, interval |-> "5m", end |-> clock, complete |-> TRUE,
                   sealed |-> sealed, valid |-> TRUE]]}]
    /\ UNCHANGED <<clock, captured, tables, observed, built>>

CommitRows == /\ tx # None /\ tx' = None
              /\ versions' = versions \cup tx.versions /\ history' = history \cup tx.history
              /\ provenance' = provenance \cup tx.provenance /\ technicals' = technicals \cup tx.snapshots
              /\ UNCHANGED <<clock, captured, observed, writes, built>>
RollBackRows == tx # None /\ tx' = None /\ UNCHANGED <<clock, captured, tables, observed, writes, built>>

-----------------------------------------------------------------------------
WindowStart == AsOf - Lookback

\* Publication places a version in the window; only an unknown one is placed by when it was observed.
InWindow(v) == CASE Published(v) = None -> v.observed > WindowStart
                 [] Published(v) # None /\ Event[v.event].family = "news" -> Published(v) > WindowStart
                 [] OTHER -> Published(v) >= DayOfInstant(WindowStart)

\* load_events: the latest version observed by as_of of every event with some such version in the window.
Available(e) == {v \in versions : v.event = e /\ v.observed <= AsOf}
Candidates == {e \in DOMAIN Event : \E v \in Available(e) : InWindow(v)}
LatestObserved(rows) == CHOOSE v \in rows : \A w \in rows :
                            \/ w.observed < v.observed
                            \/ w.observed = v.observed /\ w.recorded < v.recorded
                            \/ w.observed = v.observed /\ w.recorded = v.recorded /\ w.id <= v.id
Chosen(e) == LatestObserved(Available(e))
Provenance(v) == {p \in provenance : p.version = v.id /\ p.retrieved <= AsOf}
Scored(v, kind) == {h \in history : h.version = v.id /\ h.kind = kind /\ h.recorded <= AsOf}
Latest(rows) == CHOOSE h \in rows : \A g \in rows : g.recorded <= h.recorded
LatestValue(rows) == IF rows = {} THEN None ELSE Latest(rows).value
\* Mutant: a later re-scoring is read.
LatestOf_Uncut(v, kind) == LatestValue({h \in history : h.version = v.id /\ h.kind = kind})
LatestOf(v, kind) == LatestValue(Scored(v, kind))
CollectorOutcome(v) == LET decisions == Scored(v, "decision")
                       IN IF decisions = {} THEN "processed" ELSE Latest(decisions).outcome
Loaded(e) == e \in Candidates /\ InWindow(Chosen(e)) /\ Provenance(Chosen(e)) # {}
NewsInput(e) ==
    LET v == Chosen(e)
    IN [family |-> Event[e].family, outcome |-> CollectorOutcome(v), valid |-> TRUE, symbols |-> Event[e].symbols,
        published |-> Published(v), observed |-> v.observed, key |-> e, content |-> v.content,
        score |-> LatestOf(v, "score"), decision |-> LatestOf(v, "decision")]

\* load_technical: rows created by as_of; one that fails verification fails the load, the latest bar is chosen.
Created(i) == {s \in technicals : s.row.interval = i /\ s.created <= AsOf}
Corrupt == \E i \in Intervals : \E s \in Created(i) : RowReason(s.row, Symbol, i) # "ok"
Eligible(i) == {s \in Created(i) : s.row.end <= AsOf}
Found == {i \in Intervals : Eligible(i) # {}}
LatestBar(rows) == CHOOSE s \in rows : \A t \in rows : t.row.end <= s.row.end
Rows == [i \in Found |-> LatestBar(Eligible(i)).row]

\* load_market_context: a file that is missing is a source problem, one whose context does not read back as it was written
\* an integrity failure, any other defect an input error.
Files == {"absent", "good", "later", "malformed", "altered"}
Context(file) == IF file = "good" THEN [symbol |-> Symbol, asOf |-> AsOf] ELSE None

LoadedEvents == {e \in DOMAIN Event : Loaded(e)}
Untraceable == \E e \in LoadedEvents : ~Event[e].traceable[Chosen(e).content]

\* build and main: the file is looked at first, then the database, configured and readable or not; what is missing counts
\* only when all that is there is sound.
ExitCode(file, partial, database) ==
    CASE file \in {"later", "malformed"} -> 2
      [] file = "altered" -> 4
      [] file \in {"absent", "good"} /\ database = "fails" -> 5
      [] file \in {"absent", "good"} /\ database = "answers" /\ (Corrupt \/ Untraceable) -> 4
      [] OTHER -> IF ~partial /\ (file = "absent" \/ Found # Intervals) THEN 3 ELSE 0
Listed(news) == LET keys == SetToSeq(DOMAIN news) IN [i \in DOMAIN keys |-> news[keys[i]]]
Packet(file) == Assemble(Symbol, AsOf, Context(file), Rows,
                         [succeeded |-> TRUE, inputs |-> Listed([e \in LoadedEvents |-> NewsInput(e)])])

\* Nothing stamped by as_of is still on its way to the tables.
Settled == /\ clock > AsOf
           /\ \A o \in captured : o.observed > AsOf
           /\ tx # None => /\ \A v \in tx.versions : v.observed > AsOf
                           /\ \A p \in tx.provenance : p.retrieved > AsOf
                           /\ \A h \in tx.history : h.recorded > AsOf
                           /\ \A s \in tx.snapshots : s.created > AsOf

Databases == {"answers", "fails"}
Result(file, partial, database) ==
    LET code == ExitCode(file, partial, database) IN [exit |-> code, packet |-> IF code = 0 THEN Packet(file) ELSE None]
Results == [line \in Files \X BOOLEAN \X Databases |-> Result(line[1], line[2], line[3])]

\* The runner: it reads in one transaction and changes nothing.
Build == Settled /\ built = None /\ built' = Results /\ UNCHANGED <<clock, captured, tx, tables, observed, writes>>

LoaderNext == TimePasses \/ Observe \/ Write \/ WriteSnapshot \/ CommitRows \/ RollBackRows \/ Build
LoaderSpec == LoaderInit /\ [][LoaderNext]_loaderVars

-----------------------------------------------------------------------------
(* A packet is the one of its as_of: once every row stamped by as_of has been committed, no later observation,
   re-scoring, rollback or snapshot changes what a build with the same arguments gives. *)
Reproducible == built # None => built = Results

HoldsOnlyKnown(p) ==
    /\ \A f \in Intervals : p.technical.frames[f].missing \in {None, "not_supplied"}
    /\ \A n \in ToSet(p.news.items) :
          /\ n.observed <= AsOf /\ n.score \in {None} \cup 0..AsOf
          /\ IF n.family = "news" THEN n.published <= AsOf ELSE n.published < DayOfInstant(AsOf)
CompleteUnless(p, partial) == partial \/ (p.market.status = "available" /\ p.technical.status = "available")
(* Strict means complete: without --allow-partial, exit 0 comes only with an available context and all three
   timeframes, so the loader's idea of an eligible row and the assembler's never differ; and nothing the
   packet holds was published, observed, scored or ended after as_of. *)
StrictIsComplete ==
    \A file \in Files, partial \in BOOLEAN, database \in Databases : ExitCode(file, partial, database) = 0 =>
        CompleteUnless(Packet(file), partial) /\ HoldsOnlyKnown(Packet(file))
(* Packet loader: for any command line, a build is reproducible for its as_of whatever is observed, re-scored, rolled back or
   stored after it, and --strict means complete and nothing later than as_of. *)
LoaderSound == Reproducible /\ StrictIsComplete
=============================================================================
