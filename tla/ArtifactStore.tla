--------------------------- MODULE ArtifactStore ---------------------------
(***************************************************************************)
(* The immutable artifact store: the no-clobber publish into a shared      *)
(* directory, the index that ArtifactStore.refresh() builds and swaps in,  *)
(* and a client that pages through history() while both go on.             *)
(*                                                                         *)
(* An artifact stands for its id, kind, as_of and canonical bytes: the id  *)
(* is a digest of the content.  A step of a publisher is one system call.  *)
(* The directory survives a host crash only as far as it was synced.       *)
(***************************************************************************)
EXTENDS Integers, SequencesExt

CONSTANTS
    Artifact,   \* ids: numbers, for their order
    Kind,       \* [Artifact -> its kind]
    AsOf,       \* [Artifact -> its instant]
    KindNames,  \* the closed sequence of kinds
    Query,      \* the artifacts a query's kind, symbol and window select
    Limit,      \* its page size
    Publisher,  \* processes that publish
    Refresher,  \* threads that refresh
    MaxFaults,  \* bound: failing system calls, killed publishers and misplaced files
    MaxCrashes, \* bound: crashes of the host
    None

ASSUME ArtifactAssumption == Artifact \subseteq Int /\ IsFiniteSet(Artifact) /\ AsOf \in [Artifact -> Int]
ASSUME QueryAssumption == Query \subseteq Artifact /\ Limit \in Nat \ {0}
ASSUME KindAssumption == /\ KindNames \in Seq(Range(KindNames))
                         /\ Kind \in [Artifact -> Range(KindNames)]
ASSUME BoundsAssumption == MaxFaults \in Nat /\ MaxCrashes \in Nat

\* An index build: the kinds still to read, what it has found, and (ghost) what was stored
\* when it began.
Build == [left : Seq(Range(KindNames)), found : SUBSET Artifact, floor : SUBSET Artifact]
NoBuild == [left |-> <<>>, found |-> {}, floor |-> {}]

FileState == {"partial", "cached", "whole", "torn"}
ASSUME NoneAssumption == None \notin Artifact /\ None \notin FileState /\ None \notin Seq(Artifact)

VARIABLES
    names,      \* the kind directories: [Artifact -> None or the state of its file]
    lasting,    \* names whose directory entry is on disk
    foreign,    \* kinds whose directory holds a file that is no artifact
    pc,         \* [Publisher -> the next system call]
    item,       \* [Publisher -> what it publishes]
    temp,       \* [Publisher -> None or the state of its temporary file]
    index,      \* the snapshot: the indexed artifacts, or None
    healthy,    \* the last refresh succeeded
    building,   \* refreshers inside the lock
    build,      \* [Refresher -> its build]
    walk,       \* the client's pages one after the other, None before the first
    cursor,     \* where the next page starts, None when there is none
    faults,     \* bound: faults so far
    crashes,    \* bound: crashes so far
    told,       \* ghost: what a publisher was told is published
    unsynced,   \* ghost: names whose directory sync failed
    first       \* ghost: the snapshot of the client's first page

directory == <<names, lasting, foreign>>
publishing == <<pc, item, temp, told, unsynced>>
snapshot == <<index, healthy, building, build>>
client == <<walk, cursor, first>>
bounds == <<faults, crashes>>
vars == <<directory, publishing, snapshot, client, bounds>>

Init == /\ names = [a \in Artifact |-> None] /\ lasting = {} /\ foreign = {}
        /\ pc = [p \in Publisher |-> "idle"]
        /\ item = [p \in Publisher |-> None]
        /\ temp = [p \in Publisher |-> None]
        /\ index = None /\ healthy = FALSE
        /\ building = {} /\ build = [r \in Refresher |-> NoBuild]
        /\ walk = None /\ cursor = None
        /\ faults = 0 /\ crashes = 0
        /\ told = {} /\ unsynced = {} /\ first = {}

Fault == faults < MaxFaults /\ faults' = faults + 1 /\ UNCHANGED crashes
-----------------------------------------------------------------------------
(* publish()                                                               *)

\* At the end of a call nothing is left of it.
Goto(p, step) == /\ pc' = [pc EXCEPT ![p] = step]
                 /\ item' = IF step = "idle" THEN [item EXCEPT ![p] = None] ELSE item
Temp(p, state) == temp' = [temp EXCEPT ![p] = state]
Calls(p, step) == pc[p] = step /\ UNCHANGED <<snapshot, client, foreign>>

Publish(p) == /\ Calls(p, "idle")
              /\ \E a \in Artifact : item' = [item EXCEPT ![p] = a]
              /\ pc' = [pc EXCEPT ![p] = "existing"]
              /\ UNCHANGED <<names, lasting, temp, told, unsynced, bounds>>

\* ALREADY_PRESENT ends the call.
Existing(p) == /\ Calls(p, "existing")
               /\ Goto(p, IF names[item[p]] = None THEN "create" ELSE "idle")
               /\ UNCHANGED <<names, lasting, temp, told, unsynced, bounds>>

\* An exclusive create of a name of its own, then the writes.
Create(p) == /\ Calls(p, "create")
             /\ \/ Temp(p, "partial") /\ Goto(p, "write") /\ UNCHANGED bounds
                \/ Goto(p, "idle") /\ UNCHANGED temp /\ Fault
             /\ UNCHANGED <<names, lasting, told, unsynced>>
Write(p) == /\ Calls(p, "write")
            /\ \/ Temp(p, "cached") /\ Goto(p, "sync") /\ UNCHANGED bounds
               \/ Goto(p, "unlink") /\ UNCHANGED temp /\ Fault
            /\ UNCHANGED <<names, lasting, told, unsynced>>

\* Bug: the data is left to the page cache.
Sync_Skipped(p) == /\ Calls(p, "sync")
                   /\ Goto(p, "link")
                   /\ UNCHANGED <<names, lasting, temp, told, unsynced, bounds>>
Sync(p) == /\ Calls(p, "sync")
           /\ \/ Temp(p, "whole") /\ Goto(p, "link") /\ UNCHANGED bounds
              \/ Goto(p, "unlink") /\ UNCHANGED temp /\ Fault
           /\ UNCHANGED <<names, lasting, told, unsynced>>

\* Bug: a rename, which replaces what a concurrent publisher has linked.
Link_Replaces(p) ==
    /\ Calls(p, "link")
    /\ names' = [names EXCEPT ![item[p]] = temp[p]] /\ Goto(p, "unlink_published")
    /\ UNCHANGED <<lasting, temp, told, unsynced, bounds>>
\* link() fails when the name exists: a concurrent publisher won.
Link(p) == /\ Calls(p, "link")
           /\ \/ /\ names[item[p]] = None
                 /\ names' = [names EXCEPT ![item[p]] = temp[p]]
                 /\ Goto(p, "unlink_published") /\ UNCHANGED bounds
              \/ names[item[p]] # None /\ Goto(p, "unlink") /\ UNCHANGED <<names, bounds>>
              \/ Goto(p, "unlink") /\ UNCHANGED names /\ Fault
           /\ UNCHANGED <<lasting, temp, told, unsynced>>

\* The temporary name goes, whatever happened; a failure to remove it is ignored.
Unlink(p) == /\ pc[p] \in {"unlink", "unlink_published"} /\ Calls(p, pc[p])
             /\ Temp(p, None)
             /\ Goto(p, IF pc[p] = "unlink" THEN "idle" ELSE "sync_directory")
             /\ UNCHANGED <<names, lasting, told, unsynced, bounds>>

\* PUBLISHED; a failing directory sync is ignored.
SyncDirectory(p) ==
    /\ Calls(p, "sync_directory")
    /\ \/ /\ lasting' = lasting \cup {a \in Artifact : Kind[a] = Kind[item[p]] /\ names[a] # None}
          /\ UNCHANGED <<unsynced, bounds>>
       \/ unsynced' = unsynced \cup {item[p]} /\ UNCHANGED lasting /\ Fault
    /\ told' = told \cup {item[p]}
    /\ Goto(p, "idle")
    /\ UNCHANGED <<names, temp>>

\* The publisher is killed; its temporary file stays, which nobody reads.
Killed(p) == /\ pc[p] # "idle" /\ Calls(p, pc[p])
             /\ Goto(p, "idle") /\ Temp(p, None) /\ Fault
             /\ UNCHANGED <<names, lasting, told, unsynced>>
-----------------------------------------------------------------------------
(* refresh() and build_index()                                             *)

\* Bug: refreshes run side by side.
Serialized_Not(r) == r \notin building
Serialized(r) == building = {}

Stored == {a \in Artifact : names[a] # None}
Begin(r) == /\ Serialized(r)
            /\ building' = building \cup {r}
            /\ build' = [build EXCEPT ![r] = [left |-> KindNames, found |-> {}, floor |-> Stored]]
            /\ UNCHANGED <<directory, publishing, client, index, healthy, bounds>>

End(r) == building' = building \ {r} /\ build' = [build EXCEPT ![r] = NoBuild]

\* One kind: its listing is read and validated; temporary files are passed over, anything
\* else that is not a whole artifact fails the build.
Valid(k) == k \notin foreign /\ \A a \in Stored : Kind[a] = k => names[a] \in {"whole", "cached"}
Scan(r) ==
    /\ r \in building /\ build[r].left # <<>>
    /\ LET k == Head(build[r].left) IN
       IF Valid(k)
       THEN /\ build' = [build EXCEPT ![r].left = Tail(@),
                                      ![r].found = @ \cup {a \in Stored : Kind[a] = k}]
            /\ UNCHANGED <<building, healthy>>
       ELSE End(r) /\ healthy' = FALSE
    /\ UNCHANGED <<directory, publishing, client, index, bounds>>

Swap(r) == /\ r \in building /\ build[r].left = <<>>
           /\ index' = build[r].found /\ healthy' = TRUE
           /\ End(r)
           /\ UNCHANGED <<directory, publishing, client, bounds>>
-----------------------------------------------------------------------------
(* history()                                                               *)

\* Entry.order: as_of descending, then id ascending.
Before(a, b) == AsOf[a] > AsOf[b] \/ (AsOf[a] = AsOf[b] /\ a < b)

\* Bug: the position is compared by as_of alone.
After_AsOf(S, position) == {a \in S : position = None \/ AsOf[a] < AsOf[position]}
\* The entries a cursor has not passed.
After(S, position) == {a \in S : position = None \/ Before(position, a)}

\* The first entries of what is left, in order: the i-th has i - 1 others before it.
Rank(S, a) == Cardinality({b \in S : Before(b, a)})
FirstOf(S, n) == [i \in 1..n |-> CHOOSE a \in S : Rank(S, a) = i - 1]
Left == After(index \cap Query, cursor)
More == Cardinality(Left) > Limit
Page == FirstOf(Left, IF More THEN Limit ELSE Cardinality(Left))

Fetch == /\ index # None
         /\ walk = None \/ cursor # None
         /\ walk' = (IF walk = None THEN <<>> ELSE walk) \o Page
         /\ cursor' = IF More THEN Last(Page) ELSE None
         /\ first' = IF walk = None THEN index \cap Query ELSE first
         /\ UNCHANGED <<directory, publishing, snapshot, bounds>>
-----------------------------------------------------------------------------
\* Somebody puts a file where it does not belong, or takes it away again.
Misplaced == /\ \/ \E k \in Range(KindNames) : foreign' = foreign \cup {k} /\ Fault
                \/ foreign # {} /\ foreign' = {} /\ UNCHANGED bounds
             /\ UNCHANGED <<names, lasting, publishing, snapshot, client>>

\* The host goes down with what it has not synced; everything is started again.
Survivors(S) == [a \in Artifact |-> IF a \in S
                                    THEN IF names[a] = "cached" THEN "torn" ELSE names[a]
                                    ELSE None]
Crash == /\ \E lost \in SUBSET (Stored \ lasting) :
             /\ names' = Survivors(Stored \ lost)
             /\ lasting' = Stored \ lost
             /\ told' = told \ (unsynced \cap lost)
         /\ unsynced' = {}
         /\ pc' = [p \in Publisher |-> "idle"] /\ item' = [p \in Publisher |-> None]
         /\ temp' = [p \in Publisher |-> None]
         /\ index' = None /\ healthy' = FALSE
         /\ building' = {} /\ build' = [r \in Refresher |-> NoBuild]
         /\ walk' = None /\ cursor' = None /\ first' = {}
         /\ crashes < MaxCrashes /\ crashes' = crashes + 1
         /\ UNCHANGED <<foreign, faults>>

Next == \/ \E p \in Publisher :
            \/ Publish(p) \/ Existing(p) \/ Create(p) \/ Write(p) \/ Sync(p) \/ Link(p)
            \/ Unlink(p) \/ SyncDirectory(p) \/ Killed(p)
        \/ \E r \in Refresher : Begin(r) \/ Scan(r) \/ Swap(r)
        \/ Fetch \/ Misplaced \/ Crash

Spec == Init /\ [][Next]_vars
-----------------------------------------------------------------------------
Step == {"idle", "existing", "create", "write", "sync", "link", "unlink", "unlink_published", "sync_directory"}
\* Every variable keeps to its type.
TypeOK ==
    /\ names \in [Artifact -> {None} \cup FileState]
    /\ lasting \subseteq Artifact /\ foreign \subseteq Range(KindNames)
    /\ pc \in [Publisher -> Step] /\ item \in [Publisher -> Artifact \cup {None}]
    /\ temp \in [Publisher -> {None, "partial", "cached", "whole"}]
    /\ index \in {None} \cup SUBSET Artifact /\ healthy \in BOOLEAN
    /\ building \subseteq Refresher /\ build \in [Refresher -> Build]
    /\ faults \in 0..MaxFaults /\ crashes \in 0..MaxCrashes
    /\ told \subseteq Artifact /\ unsynced \subseteq Artifact

\* "Readers never see a partial file", not even after a crash of the host; what was reported
\* as published and synced is still there.
Durable == /\ \A a \in Artifact : names[a] \notin {"partial", "torn"}
           /\ \A a \in told : names[a] = "whole"

\* However publishers race, are killed or fail: of the calls for one artifact, one alone comes
\* to report that it published it, and none after that one has reported.
Wins(p) == pc[p] \in {"unlink_published", "sync_directory"}
PublishedOnce == \A p \in Publisher : Wins(p) =>
    item[p] \notin told /\ \A q \in Publisher \ {p} : Wins(q) => item[q] # item[p]

\* What is published is whole, lasts, and was published by one.
PublicationSound == Durable /\ PublishedOnce

\* A refresh that succeeds gives up nothing that was indexed and has everything that was
\* published before it began.
IndexGrows == [][index' # index /\ index' # None =>
                    /\ index # None => index \subseteq index'
                    /\ \E r \in building \ building' : build[r].floor \subseteq index']_vars

\* Pages taken across refreshes join into one list: in order, nothing twice, nothing left out
\* that was there when the first page was taken.
PagesJoin == walk # None =>
    /\ \A i \in 1..Len(walk) - 1 : Before(walk[i], walk[i + 1])
    /\ cursor = None => first \subseteq Range(walk)
=============================================================================
