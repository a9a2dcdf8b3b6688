------------------------ MODULE ArtifactStore_proofs ------------------------
(***************************************************************************)
(* What the store promises its publishers and readers, for any number of   *)
(* artifacts, kinds, publishers, refreshing threads, faults and crashes.   *)
(*                                                                         *)
(* FilesInv relates a publisher's place to the files: only synced data is  *)
(* ever linked, and what was reported is on disk unless its directory sync *)
(* failed.  IndexInv follows a build: what was stored when it began is     *)
(* found already or is of a kind that is still to be read.  WalkInv says   *)
(* that a reader's pages so far are in strict order and that whatever of   *)
(* the first page's snapshot they lack lies after the cursor; the ranks of *)
(* the remaining artifacts (Rank) name the ones the next page takes.       *)
(***************************************************************************)
EXTENDS ArtifactStore, FiniteSetTheorems, TLAPS

FilesInv ==
    /\ \A a \in Artifact : names[a] \in {None, "whole"}
    /\ \A p \in Publisher :
         /\ pc[p] # "idle" => item[p] \in Artifact
         /\ pc[p] = "link" => temp[p] = "whole"
         /\ Wins(p) => names[item[p]] = "whole"
    /\ \A a \in told : names[a] = "whole" /\ (a \in lasting \/ a \in unsynced)

IndexInv ==
    /\ \A r, q \in building : r = q
    /\ index # None => index \subseteq Stored
    /\ \A r \in building :
         /\ build[r].floor \subseteq Stored /\ build[r].found \subseteq Stored
         /\ index # None => index \subseteq build[r].floor
         /\ \A a \in build[r].floor :
              a \in build[r].found \/ \E i \in 1..Len(build[r].left) : build[r].left[i] = Kind[a]

IInv == TypeOK /\ FilesInv /\ PublishedOnce /\ IndexInv

USE KindAssumption, BoundsAssumption, NoneAssumption
    DEF Goto, Temp, Calls, directory, publishing, snapshot, client, bounds
-----------------------------------------------------------------------------
(* Whatever publishers do to the store while an index is built, they only   *)
(* add to it.                                                               *)
LEMMA IndexKept == ASSUME IndexInv, Stored \subseteq Stored', UNCHANGED snapshot PROVE IndexInv'
BY DEF IndexInv

(* Every kind is read in a build, and what is to be read is the first kind or stays to be read. *)
LEMMA KindsListed == \A a \in Artifact : \E i \in 1..Len(KindNames) : KindNames[i] = Kind[a]
BY DEF Range

LEMMA TailKeeps ==
    ASSUME NEW S, NEW s \in Seq(S), s # <<>>
    PROVE  /\ Tail(s) \in Seq(S)
           /\ \A i \in 1..Len(s) : s[i] = Head(s) \/ \E j \in 1..Len(Tail(s)) : Tail(s)[j] = s[i]
<1>1. Tail(s) \in Seq(S) /\ Len(Tail(s)) = Len(s) - 1 /\ Len(s) \in Nat /\ Head(s) = s[1] OBVIOUS
<1>2. \A j \in 1..Len(Tail(s)) : Tail(s)[j] = s[j + 1] OBVIOUS
<1>3. ASSUME NEW i \in 1..Len(s), i # 1 PROVE i - 1 \in 1..Len(Tail(s)) /\ Tail(s)[i - 1] = s[i]
  BY <1>1, <1>2, <1>3
<1> QED BY <1>1, <1>3

LEMMA NoBuildType == NoBuild \in Build
<1>1. <<>> \in Seq(Range(KindNames)) OBVIOUS
<1> QED BY <1>1 DEF NoBuild, Build

LEMMA IInvInit == Init => IInv
<1> SUFFICES ASSUME Init PROVE IInv OBVIOUS
<1>1. TypeOK
  <2>1. pc \in [Publisher -> Step] BY DEF Init, Step
  <2>2. build \in [Refresher -> Build] BY NoBuildType DEF Init
  <2>3. healthy \in BOOLEAN BY DEF Init
  <2>4. faults \in 0..MaxFaults /\ crashes \in 0..MaxCrashes BY DEF Init
  <2> QED BY <2>1, <2>2, <2>3, <2>4 DEF Init, TypeOK
<1>2. FilesInv /\ PublishedOnce /\ IndexInv BY DEF Init, FilesInv, PublishedOnce, Wins, IndexInv
<1> QED BY <1>1, <1>2 DEF IInv

(* Every system call, every step of a refresh and every failure keeps the invariant. *)
LEMMA IInvStep == IInv /\ [Next]_vars => IInv'
<1> SUFFICES ASSUME IInv, [Next]_vars PROVE IInv'
  OBVIOUS
<1>1. ASSUME NEW p \in Publisher, Publish(p) PROVE IInv'
  <2>1. TypeOK' BY <1>1 DEF IInv, Publish, Fault, TypeOK, FilesInv, Step, FileState, Wins
  <2>2. FilesInv' BY <1>1 DEF IInv, Publish, Fault, TypeOK, FilesInv, Step, FileState, Wins
  <2>3. PublishedOnce'
    BY <1>1 DEF IInv, Publish, Fault, TypeOK, FilesInv, Step, FileState, PublishedOnce, Wins
  <2>4. Stored \subseteq Stored' /\ UNCHANGED snapshot
    BY <1>1 DEF IInv, Publish, Fault, TypeOK, FilesInv, FileState, Stored
  <2> QED BY <2>1, <2>2, <2>3, <2>4, IndexKept DEF IInv
<1>2. ASSUME NEW p \in Publisher, Existing(p) PROVE IInv'
  <2>1. TypeOK' BY <1>2 DEF IInv, Existing, Fault, TypeOK, FilesInv, Step, FileState, Wins
  <2>2. FilesInv' BY <1>2 DEF IInv, Existing, Fault, TypeOK, FilesInv, Step, FileState, Wins
  <2>3. PublishedOnce'
    BY <1>2 DEF IInv, Existing, Fault, TypeOK, FilesInv, Step, FileState, PublishedOnce, Wins
  <2>4. Stored \subseteq Stored' /\ UNCHANGED snapshot
    BY <1>2 DEF IInv, Existing, Fault, TypeOK, FilesInv, FileState, Stored
  <2> QED BY <2>1, <2>2, <2>3, <2>4, IndexKept DEF IInv
<1>3. ASSUME NEW p \in Publisher, Create(p) PROVE IInv'
  <2>1. TypeOK' BY <1>3 DEF IInv, Create, Fault, TypeOK, FilesInv, Step, FileState, Wins
  <2>2. FilesInv' BY <1>3 DEF IInv, Create, Fault, TypeOK, FilesInv, Step, FileState, Wins
  <2>3. PublishedOnce'
    BY <1>3 DEF IInv, Create, Fault, TypeOK, FilesInv, Step, FileState, PublishedOnce, Wins
  <2>4. Stored \subseteq Stored' /\ UNCHANGED snapshot
    BY <1>3 DEF IInv, Create, Fault, TypeOK, FilesInv, FileState, Stored
  <2> QED BY <2>1, <2>2, <2>3, <2>4, IndexKept DEF IInv
<1>4. ASSUME NEW p \in Publisher, Write(p) PROVE IInv'
  <2>1. TypeOK' BY <1>4 DEF IInv, Write, Fault, TypeOK, FilesInv, Step, FileState, Wins
  <2>2. FilesInv' BY <1>4 DEF IInv, Write, Fault, TypeOK, FilesInv, Step, FileState, Wins
  <2>3. PublishedOnce'
    BY <1>4 DEF IInv, Write, Fault, TypeOK, FilesInv, Step, FileState, PublishedOnce, Wins
  <2>4. Stored \subseteq Stored' /\ UNCHANGED snapshot
    BY <1>4 DEF IInv, Write, Fault, TypeOK, FilesInv, FileState, Stored
  <2> QED BY <2>1, <2>2, <2>3, <2>4, IndexKept DEF IInv
<1>5. ASSUME NEW p \in Publisher, Sync(p) PROVE IInv'
  <2>1. TypeOK' BY <1>5 DEF IInv, Sync, Fault, TypeOK, FilesInv, Step, FileState, Wins
  <2>2. FilesInv' BY <1>5 DEF IInv, Sync, Fault, TypeOK, FilesInv, Step, FileState, Wins
  <2>3. PublishedOnce'
    BY <1>5 DEF IInv, Sync, Fault, TypeOK, FilesInv, Step, FileState, PublishedOnce, Wins
  <2>4. Stored \subseteq Stored' /\ UNCHANGED snapshot
    BY <1>5 DEF IInv, Sync, Fault, TypeOK, FilesInv, FileState, Stored
  <2> QED BY <2>1, <2>2, <2>3, <2>4, IndexKept DEF IInv
<1>6. ASSUME NEW p \in Publisher, Link(p) PROVE IInv'
  <2>1. TypeOK' BY <1>6 DEF IInv, Link, Fault, TypeOK, FilesInv, Step, FileState, Wins
  <2>2. FilesInv' BY <1>6 DEF IInv, Link, Fault, TypeOK, FilesInv, Step, FileState, Wins
  <2>3. PublishedOnce'
    BY <1>6 DEF IInv, Link, Fault, TypeOK, FilesInv, Step, FileState, PublishedOnce, Wins
  <2>4. Stored \subseteq Stored' /\ UNCHANGED snapshot
    BY <1>6 DEF IInv, Link, Fault, TypeOK, FilesInv, FileState, Stored
  <2> QED BY <2>1, <2>2, <2>3, <2>4, IndexKept DEF IInv
<1>7. ASSUME NEW p \in Publisher, Unlink(p) PROVE IInv'
  <2>1. TypeOK' BY <1>7 DEF IInv, Unlink, Fault, TypeOK, FilesInv, Step, FileState, Wins
  <2>2. FilesInv' BY <1>7 DEF IInv, Unlink, Fault, TypeOK, FilesInv, Step, FileState, Wins
  <2>3. PublishedOnce'
    BY <1>7 DEF IInv, Unlink, Fault, TypeOK, FilesInv, Step, FileState, PublishedOnce, Wins
  <2>4. Stored \subseteq Stored' /\ UNCHANGED snapshot
    BY <1>7 DEF IInv, Unlink, Fault, TypeOK, FilesInv, FileState, Stored
  <2> QED BY <2>1, <2>2, <2>3, <2>4, IndexKept DEF IInv
<1>8. ASSUME NEW p \in Publisher, SyncDirectory(p) PROVE IInv'
  <2>1. TypeOK' BY <1>8 DEF IInv, SyncDirectory, Fault, TypeOK, FilesInv, Step, FileState, Wins
  <2>2. FilesInv' BY <1>8 DEF IInv, SyncDirectory, Fault, TypeOK, FilesInv, Step, FileState, Wins
  <2>3. PublishedOnce'
    BY <1>8 DEF IInv, SyncDirectory, Fault, TypeOK, FilesInv, Step, FileState, PublishedOnce, Wins
  <2>4. Stored \subseteq Stored' /\ UNCHANGED snapshot
    BY <1>8 DEF IInv, SyncDirectory, Fault, TypeOK, FilesInv, FileState, Stored
  <2> QED BY <2>1, <2>2, <2>3, <2>4, IndexKept DEF IInv
<1>9. ASSUME NEW p \in Publisher, Killed(p) PROVE IInv'
  <2>1. TypeOK' BY <1>9 DEF IInv, Killed, Fault, TypeOK, FilesInv, Step, FileState, Wins
  <2>2. FilesInv' BY <1>9 DEF IInv, Killed, Fault, TypeOK, FilesInv, Step, FileState, Wins
  <2>3. PublishedOnce'
    BY <1>9 DEF IInv, Killed, Fault, TypeOK, FilesInv, Step, FileState, PublishedOnce, Wins
  <2>4. Stored \subseteq Stored' /\ UNCHANGED snapshot
    BY <1>9 DEF IInv, Killed, Fault, TypeOK, FilesInv, FileState, Stored
  <2> QED BY <2>1, <2>2, <2>3, <2>4, IndexKept DEF IInv
<1>10. ASSUME NEW r \in Refresher, Begin(r) PROVE IInv'
  <2>1. [left |-> KindNames, found |-> {}, floor |-> Stored] \in Build BY DEF Build, Stored
  <2>2. TypeOK' BY <1>10, <2>1 DEF IInv, Begin, TypeOK
  <2>3. IndexInv'
    BY <1>10, KindsListed DEF IInv, Begin, Serialized, Stored, TypeOK, IndexInv
  <2>4. FilesInv' /\ PublishedOnce' BY <1>10 DEF IInv, Begin, FilesInv, PublishedOnce, Wins
  <2> QED BY <2>2, <2>3, <2>4 DEF IInv
<1>11. ASSUME NEW r \in Refresher, Scan(r) PROVE IInv'
  <2>1. FilesInv' /\ PublishedOnce' BY <1>11 DEF IInv, Scan, FilesInv, PublishedOnce, Wins
  <2>2. CASE End(r) /\ healthy' = FALSE
    <3>1. TypeOK' BY <1>11, <2>2, NoBuildType DEF IInv, Scan, End, TypeOK
    <3>2. IndexInv' BY <1>11, <2>2 DEF IInv, Scan, End, TypeOK, IndexInv, Stored
    <3> QED BY <2>1, <3>1, <3>2 DEF IInv
  <2>3. CASE ~(End(r) /\ healthy' = FALSE)
    <3> DEFINE k == Head(build[r].left)
               next == [build[r] EXCEPT !.left = Tail(@),
                                        !.found = @ \cup {a \in Stored : Kind[a] = k}]
    <3>1. build' = [build EXCEPT ![r] = next] /\ UNCHANGED <<building, healthy>>
      BY <1>11, <2>3 DEF IInv, Scan, TypeOK, Build
    <3>2. next.left = Tail(build[r].left) /\ next.floor = build[r].floor
          /\ next.found = build[r].found \cup {a \in Stored : Kind[a] = k}
      BY <1>11 DEF IInv, TypeOK, Build
    <3>3. next \in Build
      <4>1. build[r] \in Build /\ build[r].left # <<>> BY <1>11 DEF IInv, TypeOK, Scan
      <4>2. Tail(build[r].left) \in Seq(Range(KindNames)) BY <4>1, TailKeeps DEF Build
      <4>3. build[r].found \cup {a \in Stored : Kind[a] = k} \in SUBSET Artifact
        BY <4>1 DEF Build, Stored
      <4> QED BY <4>1, <4>2, <4>3 DEF Build
    <3>4. TypeOK' BY <1>11, <3>1, <3>3 DEF IInv, Scan, TypeOK
    <3>5. \A a \in next.floor :
            a \in next.found \/ \E i \in 1..Len(next.left) : next.left[i] = Kind[a]
      <4>1. SUFFICES ASSUME NEW a \in build[r].floor, a \notin build[r].found, Kind[a] # k
                     PROVE  \E i \in 1..Len(next.left) : next.left[i] = Kind[a]
        BY <1>11, <3>2 DEF IInv, IndexInv, Scan
      <4>2. build[r].left \in Seq(Range(KindNames)) BY <1>11 DEF IInv, TypeOK, Build
      <4>3. PICK i \in 1..Len(build[r].left) : build[r].left[i] = Kind[a]
        BY <1>11, <4>1 DEF IInv, IndexInv, Scan
      <4> QED BY <1>11, <3>2, <4>1, <4>2, <4>3, TailKeeps DEF Scan
    <3> HIDE DEF next, k
    <3>6. next.found \subseteq Stored BY <1>11, <3>2 DEF IInv, IndexInv, Scan
    <3>7. UNCHANGED <<index, Stored>> BY <1>11 DEF Scan, Stored
    <3>8. build'[r] = next /\ \A q \in building' : q = r
      BY <1>11, <3>1 DEF IInv, TypeOK, IndexInv, Scan
    <3>9. IndexInv'
      <4>1. \A q, s \in building' : q = s BY <3>8
      <4>2. index' # None => index' \subseteq Stored' BY <3>7 DEF IInv, IndexInv
      <4>3. /\ next.floor \subseteq Stored'
            /\ index' # None => index' \subseteq next.floor
        BY <1>11, <3>2, <3>7 DEF IInv, IndexInv, Scan
      <4> QED BY <3>5, <3>6, <3>7, <3>8, <4>1, <4>2, <4>3 DEF IndexInv
    <3> QED BY <2>1, <3>4, <3>9 DEF IInv
  <2> QED BY <2>2, <2>3
<1>12. ASSUME NEW r \in Refresher, Swap(r) PROVE IInv'
  <2>1. TypeOK' BY <1>12, NoBuildType DEF IInv, Swap, End, TypeOK, Build
  <2>2. IndexInv' BY <1>12 DEF IInv, Swap, End, TypeOK, IndexInv, Stored
  <2>3. FilesInv' /\ PublishedOnce' BY <1>12 DEF IInv, Swap, FilesInv, PublishedOnce, Wins
  <2> QED BY <2>1, <2>2, <2>3 DEF IInv
<1>13. ASSUME Fetch \/ Misplaced PROVE IInv'
  <2>1. UNCHANGED <<names, lasting, publishing, snapshot>> BY <1>13 DEF Fetch, Misplaced
  <2>2. foreign' \subseteq Range(KindNames) /\ UNCHANGED crashes /\ faults' \in 0..MaxFaults
    BY <1>13 DEF IInv, Fetch, Misplaced, Fault, TypeOK
  <2>3. TypeOK' BY <2>1, <2>2 DEF IInv, TypeOK
  <2>4. FilesInv' /\ PublishedOnce' BY <2>1 DEF IInv, FilesInv, PublishedOnce, Wins
  <2>5. IndexInv' BY <2>1, IndexKept DEF IInv, Stored
  <2> QED BY <2>3, <2>4, <2>5 DEF IInv
<1>14. ASSUME Crash PROVE IInv'
  <2>1. PICK lost \in SUBSET (Stored \ lasting) :
          /\ names' = Survivors(Stored \ lost)
          /\ lasting' = Stored \ lost
          /\ told' = told \ (unsynced \cap lost)
    BY <1>14 DEF Crash
  <2>2. \A a \in Artifact : names'[a] = IF a \in Stored \ lost THEN "whole" ELSE None
    BY <2>1 DEF IInv, FilesInv, Survivors, Stored
  <2>3. TypeOK'
    <3>1. names' \in [Artifact -> {None} \cup FileState]
      BY <2>1, <2>2 DEF Survivors, FileState
    <3>2. pc' \in [Publisher -> Step] /\ item' \in [Publisher -> Artifact \cup {None}]
          /\ temp' \in [Publisher -> {None, "partial", "cached", "whole"}]
      BY <1>14 DEF Crash, Step
    <3>3. lasting' \subseteq Artifact /\ told' \subseteq Artifact /\ unsynced' \subseteq Artifact
      BY <1>14, <2>1 DEF IInv, Crash, TypeOK, Stored
    <3>4. build' \in [Refresher -> Build] /\ building' \subseteq Refresher
      BY <1>14, NoBuildType DEF Crash
    <3>5. crashes' \in 0..MaxCrashes BY <1>14 DEF IInv, Crash, TypeOK
    <3> QED BY <1>14, <3>1, <3>2, <3>3, <3>4, <3>5 DEF IInv, Crash, TypeOK
  <2>4. FilesInv'
    <3>1. \A a \in told' : a \in Stored \ lost BY <2>1 DEF IInv, TypeOK, FilesInv, Stored, FileState
    <3> QED BY <1>14, <2>1, <2>2, <3>1 DEF IInv, Crash, TypeOK, FilesInv, Stored, Wins
  <2>5. PublishedOnce' BY <1>14 DEF Crash, PublishedOnce, Wins
  <2>6. IndexInv' BY <1>14 DEF Crash, IndexInv
  <2> QED BY <2>3, <2>4, <2>5, <2>6 DEF IInv
<1>15. CASE UNCHANGED vars
  <2>1. TypeOK' BY <1>15 DEF IInv, vars, TypeOK, bounds
  <2>2. FilesInv' /\ PublishedOnce' /\ IndexInv'
    BY <1>15 DEF IInv, vars, FilesInv, PublishedOnce, Wins, IndexInv, Stored
  <2> QED BY <2>1, <2>2 DEF IInv
<1> QED
  BY <1>1, <1>2, <1>3, <1>4, <1>5, <1>6, <1>7, <1>8, <1>9, <1>10, <1>11, <1>12, <1>13, <1>14,
     <1>15 DEF Next

(* The invariant is inductive. *)
THEOREM Invariance == Spec => []IInv
BY IInvInit, IInvStep, PTL DEF Spec

(* No name ever stands for partial bytes, not even after a crash, and a synced publication lasts;
   however publishers race, one call at most publishes an artifact. *)
THEOREM PublicationsAreSound == Spec => []PublicationSound
<1>1. IInv => Durable BY DEF IInv, TypeOK, FilesInv, FileState, Durable
<1>2. IInv => PublicationSound BY <1>1 DEF IInv, PublicationSound
<1>3. QED BY <1>2, Invariance, PTL

(* A new snapshot has all of the previous one and all that was published before its build. *)
THEOREM SnapshotsGrow == Spec => IndexGrows
<1>1. IInv /\ [Next]_vars => [index' # index /\ index' # None =>
                    /\ index # None => index \subseteq index'
                    /\ \E r \in building \ building' : build[r].floor \subseteq index']_vars
  <2> SUFFICES ASSUME IInv, Next, index' # index, index' # None
               PROVE  /\ index # None => index \subseteq index'
                      /\ \E r \in building \ building' : build[r].floor \subseteq index'
    BY DEF vars
  <2>1. PICK r \in Refresher : Swap(r)
    BY DEF Next, Publish, Existing, Create, Write, Sync, Link, Unlink, SyncDirectory, Killed,
       Begin, Scan, Fetch, Misplaced, Crash
  <2>2. build[r].floor \subseteq build[r].found
    BY <2>1 DEF Swap, IInv, IndexInv, TypeOK
  <2>3. QED BY <2>1, <2>2 DEF Swap, End, IInv, IndexInv
<1>2. QED BY <1>1, Invariance, PTL DEF Spec, IndexGrows

-----------------------------------------------------------------------------
(* The pages of a client.  Ranks put a set of entries in order.            *)

LEMMA Order ==
    ASSUME NEW a \in Artifact, NEW b \in Artifact, NEW c \in Artifact
    PROVE  /\ ~Before(a, a)
           /\ Before(a, b) /\ Before(b, c) => Before(a, c)
           /\ a = b \/ Before(a, b) \/ Before(b, a)
<1>1. {a, b, c} \subseteq Int /\ AsOf[a] \in Int /\ AsOf[b] \in Int /\ AsOf[c] \in Int
  BY ArtifactAssumption
<1> QED BY <1>1 DEF Before

LEMMA StrictSubset ==
    ASSUME NEW T, IsFiniteSet(T), NEW S \in SUBSET T, S # T
    PROVE  IsFiniteSet(S) /\ Cardinality(S) \in Nat /\ Cardinality(T) \in Nat /\ Cardinality(S) < Cardinality(T)
<1>1. IsFiniteSet(S) /\ Cardinality(S) <= Cardinality(T) /\ Cardinality(S) # Cardinality(T)
  BY FS_Subset
<1>2. Cardinality(S) \in Nat /\ Cardinality(T) \in Nat
  BY <1>1, FS_CardinalityType
<1> QED BY <1>1, <1>2

(* What comes before an entry has a lower rank, and every rank is taken. *)
LEMMA Ranks ==
    ASSUME NEW S \in SUBSET Artifact
    PROVE  /\ IsFiniteSet(S) /\ Cardinality(S) \in Nat
           /\ \A a \in S : Rank(S, a) \in 0..Cardinality(S) - 1
           /\ \A a, b \in S : Before(a, b) <=> Rank(S, a) < Rank(S, b)
           /\ \A i \in 1..Cardinality(S) : \E a \in S : Rank(S, a) = i - 1
<1> DEFINE Pred(a) == {b \in S : Before(b, a)}
           n == Cardinality(S)
<1>1. IsFiniteSet(S) /\ n \in Nat
  BY ArtifactAssumption, FS_Subset, FS_CardinalityType
<1> HIDE DEF n
<1>2. ASSUME NEW a \in S
      PROVE  IsFiniteSet(Pred(a)) /\ Rank(S, a) \in Nat /\ Rank(S, a) < n
  <2>1. Pred(a) \in SUBSET S /\ Pred(a) # S
    BY Order
  <2>2. Rank(S, a) = Cardinality(Pred(a))
    BY DEF Rank
  <2> HIDE DEF Pred
  <2> QED BY <1>1, <2>1, <2>2, StrictSubset DEF n
<1>3. \A a \in S : Rank(S, a) \in 0..n - 1
  <2>1. ASSUME NEW a \in S PROVE Rank(S, a) \in 0..n - 1
    <3>1. Rank(S, a) \in Nat /\ Rank(S, a) < n
      BY <1>2
    <3> QED BY <1>1, <3>1
  <2> QED BY <2>1
<1>4. ASSUME NEW a \in S, NEW b \in S, Before(a, b)
      PROVE  Rank(S, a) < Rank(S, b)
  <2>1. Pred(a) \in SUBSET Pred(b) /\ Pred(a) # Pred(b)
    <3>1. ASSUME NEW x \in Pred(a) PROVE x \in Pred(b)
      <4>1. x \in Artifact /\ a \in Artifact /\ b \in Artifact /\ x \in S /\ Before(x, a)
        OBVIOUS
      <4>2. Before(x, b)
        BY <1>4, <4>1, Order
      <4> QED BY <4>1, <4>2
    <3>2. a \in Pred(b) /\ a \notin Pred(a)
      BY <1>4, Order
    <3> QED BY <3>1, <3>2
  <2>2. Rank(S, a) = Cardinality(Pred(a)) /\ Rank(S, b) = Cardinality(Pred(b)) /\ IsFiniteSet(Pred(b))
    BY <1>2 DEF Rank
  <2> HIDE DEF Pred
  <2> QED BY <2>1, <2>2, StrictSubset
<1>5. ASSUME NEW a \in S, NEW b \in S, Rank(S, a) < Rank(S, b)
      PROVE  Before(a, b)
  <2>1. Rank(S, a) \in Nat /\ Rank(S, b) \in Nat
    BY <1>2
  <2>2. ~(Rank(S, b) < Rank(S, a)) /\ a # b
    BY <1>5, <2>1
  <2> QED BY <1>4, <2>2, Order
<1>6. \A i \in 1..n : \E a \in S : Rank(S, a) = i - 1
  <2> DEFINE f == [a \in S |-> Rank(S, a)]
             T == 0..n - 1
  <2>1. f \in [S -> T]
    <3>1. \A a \in S : Rank(S, a) \in T
      BY <1>3
    <3> QED BY <3>1
  <2>2. \A a, b \in S : f[a] = f[b] => a = b
    <3>1. ASSUME NEW a \in S, NEW b \in S, Rank(S, a) = Rank(S, b), a # b PROVE FALSE
      <4>1. Before(a, b) \/ Before(b, a)
        BY <3>1, Order
      <4>2. Rank(S, a) \in Nat /\ Rank(S, b) \in Nat
        BY <1>2
      <4> QED BY <1>4, <3>1, <4>1, <4>2
    <3> QED BY <3>1
  <2>3. f \in Injection(S, T)
    BY <2>1, <2>2 DEF Injection, IsInjective
  <2>4. IsFiniteSet(T) /\ Cardinality(T) = n
    <3>1. IsFiniteSet(T) /\ Cardinality(T) = IF 0 > n - 1 THEN 0 ELSE (n - 1) - 0 + 1
      BY <1>1, FS_Interval
    <3> HIDE DEF T
    <3> QED BY <1>1, <3>1
  <2>5. f \in Surjection(S, T)
    <3> HIDE DEF f, T
    <3> QED BY <2>3, <2>4, FS_Injection DEF n
  <2>6. \A t \in T : \E a \in S : f[a] = t
    BY <2>5 DEF Surjection
  <2>7. \A i \in 1..n : i - 1 \in T
    BY <1>1
  <2> QED BY <2>6, <2>7
<1>7. \A a, b \in S : Before(a, b) <=> Rank(S, a) < Rank(S, b)
  BY <1>4, <1>5
<1> QED BY <1>1, <1>6, <1>3, <1>7 DEF n

(* The first entries are in order, and every other one comes after them. *)
LEMMA FirstEntries ==
    ASSUME NEW S \in SUBSET Artifact, NEW n \in 0..Cardinality(S), NEW page, page = FirstOf(S, n)
    PROVE  /\ page \in Seq(Artifact) /\ Len(page) = n
           /\ \A i \in 1..n : page[i] \in S
           /\ \A i \in 1..n - 1 : Before(page[i], page[i + 1])
           /\ \A a \in S : (\E i \in 1..n : page[i] = a) \/ (n < Cardinality(S) /\ (n > 0 => Before(page[n], a)))
<1>0. Cardinality(S) \in Nat /\ n \in Nat /\ n <= Cardinality(S)
  BY Ranks
<1>1. ASSUME NEW i \in 1..n
      PROVE  page[i] \in S /\ Rank(S, page[i]) = i - 1
  <2>1. \E a \in S : Rank(S, a) = i - 1
    <3>1. i \in 1..Cardinality(S)
      BY <1>0
    <3> QED BY <3>1, Ranks
  <2>2. page[i] = CHOOSE a \in S : Rank(S, a) = i - 1
    BY DEF FirstOf
  <2> QED BY <2>1, <2>2
<1>2. page \in Seq(Artifact) /\ Len(page) = n
  <2>1. page = [i \in 1..n |-> page[i]]
    BY DEF FirstOf
  <2>2. page \in [1..n -> Artifact]
    BY <1>1, <2>1
  <2> QED BY <1>0, <2>2
<1>3. ASSUME NEW i \in 1..n - 1
      PROVE  Before(page[i], page[i + 1])
  <2>1. i \in 1..n /\ i + 1 \in 1..n /\ i - 1 < (i + 1) - 1
    BY <1>0
  <2>2. /\ page[i] \in S /\ page[i + 1] \in S
        /\ Rank(S, page[i]) = i - 1 /\ Rank(S, page[i + 1]) = (i + 1) - 1
    BY <1>1, <2>1
  <2> QED BY <2>1, <2>2, Ranks
<1>4. ASSUME NEW a \in S, \A i \in 1..n : page[i] # a
      PROVE  n < Cardinality(S) /\ (n > 0 => Before(page[n], a))
  <2>1. Rank(S, a) \in 0..Cardinality(S) - 1
    BY Ranks
  <2>2. \A b \in S : Rank(S, b) = Rank(S, a) => b = a
    BY Order, Ranks
  <2>3. Rank(S, a) >= n
    <3>1. ASSUME Rank(S, a) < n PROVE FALSE
      <4>1. Rank(S, a) + 1 \in 1..n /\ (Rank(S, a) + 1) - 1 = Rank(S, a)
        BY <1>0, <2>1, <3>1
      <4>2. page[Rank(S, a) + 1] \in S /\ Rank(S, page[Rank(S, a) + 1]) = Rank(S, a)
        BY <1>1, <4>1
      <4> QED BY <1>4, <2>2, <4>1, <4>2
    <3> QED BY <1>0, <2>1, <3>1
  <2>4. ASSUME n > 0 PROVE Before(page[n], a)
    <3>1. page[n] \in S /\ Rank(S, page[n]) = n - 1
      BY <1>0, <1>1, <2>4
    <3>2. Rank(S, page[n]) < Rank(S, a)
      BY <1>0, <2>1, <2>3, <3>1
    <3> QED BY <3>1, <3>2, Ranks
  <2> QED BY <1>0, <2>1, <2>3, <2>4
<1> QED BY <1>1, <1>2, <1>3, <1>4

(* A walk is in order up to its cursor, and what the first page's snapshot had is in it or still
   after the cursor; no later snapshot has lost it. *)
Joined(w, c, S) ==
    /\ w \in Seq(Artifact)
    /\ \A i \in 1..Len(w) - 1 : Before(w[i], w[i + 1])
    /\ c # None => Len(w) > 0 /\ c = w[Len(w)]
    /\ \A a \in S : (\E i \in 1..Len(w) : w[i] = a) \/ (c # None /\ Before(c, a))
WalkInv ==
    /\ walk = None => cursor = None
    /\ walk # None =>
         /\ Joined(walk, cursor, first)
         /\ first \subseteq Query /\ first \subseteq Stored
         /\ index # None => first \subseteq index
         /\ \A r \in building : first \subseteq build[r].floor

LEMMA Concatenated ==
    ASSUME NEW U, NEW s \in Seq(U), NEW t \in Seq(U)
    PROVE  s \o t \in Seq(U) /\ Len(s \o t) = Len(s) + Len(t)
OBVIOUS

(* What one page adds to a walk. *)
LEMMA Joins ==
    ASSUME NEW w, NEW c, NEW S, NEW R \in SUBSET Artifact, NEW n \in 0..Cardinality(R), NEW page,
           Joined(w, c, {}), page = FirstOf(R, n), n < Cardinality(R) => n > 0,
           \A a \in R : c = None => w = <<>>,
           \A a \in R : c # None => Before(c, a),
           \A a \in S : (\E i \in 1..Len(w) : w[i] = a) \/ a \in R
    PROVE  Joined(w \o page, IF n < Cardinality(R) THEN Last(page) ELSE None, S)
<1> DEFINE m == Len(w)
           new == w \o page
           d == IF n < Cardinality(R) THEN Last(page) ELSE None
<1>1. /\ page \in Seq(Artifact) /\ Len(page) = n
      /\ \A i \in 1..n : page[i] \in R
      /\ \A i \in 1..n - 1 : Before(page[i], page[i + 1])
      /\ \A a \in R : (\E i \in 1..n : page[i] = a) \/ (n < Cardinality(R) /\ (n > 0 => Before(page[n], a)))
  BY FirstEntries
<1>2. w \in Seq(Artifact) /\ m \in Nat /\ n \in Nat
  BY Ranks DEF Joined
<1>3. /\ new \in Seq(Artifact) /\ Len(new) = m + n
      /\ \A i \in 1..m : new[i] = w[i]
      /\ \A i \in 1..n : new[m + i] = page[i]
  <2>1. new \in Seq(Artifact) /\ Len(new) = m + n
    <3>1. page \in Seq(Artifact) /\ Len(page) = n
      BY <1>1
    <3>2. w \o page \in Seq(Artifact) /\ Len(w \o page) = Len(w) + Len(page)
      BY <1>2, <3>1, Concatenated
    <3> QED BY <3>1, <3>2
  <2>2. \A i \in 1..m : new[i] = w[i]
    BY <1>1, <1>2
  <2>3. ASSUME NEW i \in 1..n
        PROVE  new[m + i] = page[i]
    <3>1. m + i \in 1..m + n /\ ~(m + i <= m) /\ (m + i) - m = i
      BY <1>2
    <3> QED BY <1>1, <1>2, <3>1
  <2> QED BY <2>1, <2>2, <2>3
<1>4. ASSUME n < Cardinality(R)
      PROVE  d = page[n] /\ n \in 1..n /\ m + n > 0 /\ d = new[m + n]
  BY <1>1, <1>2, <1>3, <1>4 DEF Last
<1> HIDE DEF m, new
<1>5. ASSUME NEW i \in 1..(m + n) - 1
      PROVE  Before(new[i], new[i + 1])
  <2>1. CASE i + 1 <= m
    <3>1. i \in 1..m /\ i + 1 \in 1..m /\ i \in 1..m - 1
      BY <1>2, <2>1
    <3> QED BY <1>3, <3>1 DEF Joined, m
  <2>2. CASE i = m
    <3>1. 1 \in 1..n /\ i \in 1..m /\ m > 0
      BY <1>2, <1>5, <2>2
    <3>2. new[i] = w[m] /\ new[i + 1] = page[1] /\ page[1] \in R
      BY <1>1, <1>3, <2>2, <3>1
    <3>3. w # <<>>
      BY <1>2, <3>1 DEF m
    <3>4. c # None /\ c = w[m]
      BY <3>2, <3>3 DEF Joined, m
    <3> QED BY <3>2, <3>4
  <2>3. CASE i > m
    <3>1. i - m \in 1..n /\ (i - m) + 1 \in 1..n /\ i - m \in 1..n - 1 /\ m + (i - m) = i /\ m + ((i - m) + 1) = i + 1
      BY <1>2, <1>5, <2>3
    <3>2. new[i] = page[i - m] /\ new[i + 1] = page[(i - m) + 1]
      BY <1>3, <3>1
    <3> QED BY <1>1, <3>1, <3>2
  <2> QED BY <1>2, <1>5, <2>1, <2>2, <2>3
<1>6. ASSUME NEW a \in S
      PROVE  (\E i \in 1..m + n : new[i] = a) \/ (d # None /\ Before(d, a))
  <2>1. CASE \E i \in 1..m : w[i] = a
    <3>1. PICK i \in 1..m : w[i] = a
      BY <2>1
    <3>2. i \in 1..m + n /\ new[i] = a
      BY <1>2, <1>3, <3>1
    <3> QED BY <3>2
  <2>2. CASE a \in R
    <3>1. CASE \E i \in 1..n : page[i] = a
      <4>1. PICK i \in 1..n : page[i] = a
        BY <3>1
      <4>2. m + i \in 1..m + n /\ new[m + i] = a
        BY <1>2, <1>3, <4>1
      <4> QED BY <4>2
    <3>2. CASE ~\E i \in 1..n : page[i] = a
      <4>1. n < Cardinality(R) /\ (n > 0 => Before(page[n], a))
        BY <1>1, <2>2, <3>2
      <4>2. d = page[n] /\ n > 0 /\ page[n] \in Artifact
        BY <1>1, <1>2, <1>4, <4>1
      <4> QED BY <4>1, <4>2
    <3> QED BY <3>1, <3>2
  <2> QED BY <2>1, <2>2 DEF m
<1>7. d # None => Len(new) > 0 /\ d = new[Len(new)]
  BY <1>3, <1>4
<1> HIDE DEF d
<1> QED BY <1>3, <1>5, <1>6, <1>7 DEF Joined, new, d

LEMMA FetchKeepsWalk == ASSUME IInv, WalkInv, Fetch PROVE WalkInv'
<1> DEFINE w == IF walk = None THEN <<>> ELSE walk
           R == Left
           n == IF More THEN Limit ELSE Cardinality(R)
<1>1. /\ index # None /\ (walk = None \/ cursor # None)
      /\ walk' = w \o Page
      /\ cursor' = IF More THEN Last(Page) ELSE None
      /\ first' = IF walk = None THEN index \cap Query ELSE first
      /\ UNCHANGED <<names, index, building, build>>
  BY DEF Fetch
<1>2. index \subseteq Artifact /\ index \subseteq Stored /\ \A r \in building : index \subseteq build[r].floor
  BY <1>1 DEF IInv, TypeOK, IndexInv
<1>3. /\ R \in SUBSET Artifact
      /\ R = {a \in index \cap Query : cursor = None \/ Before(cursor, a)}
  BY <1>2 DEF Left, After
<1> HIDE DEF R
<1>4. Cardinality(R) \in Nat
  BY <1>3, Ranks
<1>5. /\ n \in 0..Cardinality(R) /\ (n < Cardinality(R) => n > 0) /\ (More <=> n < Cardinality(R))
      /\ Page = FirstOf(R, n)
  BY <1>4, QueryAssumption DEF More, Page, R
<1> HIDE DEF n
<1>6. Joined(w, cursor, {})
  <2>1. CASE walk = None
    BY <2>1 DEF Joined, WalkInv
  <2>2. CASE walk # None
    BY <2>2 DEF Joined, WalkInv
  <2> QED BY <2>1, <2>2
<1>7. \A a \in R : cursor = None => w = <<>>
  BY <1>1
<1>8. \A a \in R : cursor # None => Before(cursor, a)
  BY <1>3
<1>9. \A a \in first' : (\E i \in 1..Len(w) : w[i] = a) \/ a \in R
  <2>1. CASE walk = None
    BY <1>1, <1>3, <2>1 DEF WalkInv
  <2>2. CASE walk # None
    BY <1>1, <1>3, <2>2 DEF WalkInv, Joined
  <2> QED BY <2>1, <2>2
<1>10. Joined(w \o Page, IF n < Cardinality(R) THEN Last(Page) ELSE None, first')
  BY <1>3, <1>5, <1>6, <1>7, <1>8, <1>9, Joins
<1>11. Joined(walk', cursor', first')
  BY <1>1, <1>5, <1>10
<1>12. /\ first' \subseteq Query /\ first' \subseteq Stored' /\ first' \subseteq index'
       /\ \A r \in building' : first' \subseteq build'[r].floor
  BY <1>1, <1>2 DEF WalkInv, Stored
<1> QED BY <1>11, <1>12 DEF WalkInv, Joined

(* No refresh, publication or failure takes from a walk what its first page promised. *)
LEMMA WalkStep == IInv /\ IInv' /\ WalkInv /\ [Next]_vars => WalkInv'
<1> SUFFICES ASSUME IInv, IInv', WalkInv, [Next]_vars PROVE WalkInv'
  OBVIOUS
<1>1. ASSUME Stored \subseteq Stored', UNCHANGED <<client, index, building, build>>
      PROVE  WalkInv'
  BY <1>1 DEF WalkInv
<1>2. ASSUME NEW p \in Publisher,
             \/ Publish(p) \/ Existing(p) \/ Create(p) \/ Write(p) \/ Sync(p) \/ Link(p)
             \/ Unlink(p) \/ SyncDirectory(p) \/ Killed(p)
      PROVE  WalkInv'
  <2>1. UNCHANGED <<client, index, building, build>>
    BY <1>2 DEF Publish, Existing, Create, Write, Sync, Link, Unlink, SyncDirectory, Killed
  <2>2. Stored \subseteq Stored'
    <3>1. CASE names' = names
      BY <3>1 DEF Stored
    <3>2. CASE Link(p)
      BY <3>2 DEF IInv, TypeOK, FilesInv, Link, Stored
    <3> QED BY <1>2, <3>1, <3>2 DEF Publish, Existing, Create, Write, Sync, Unlink, SyncDirectory, Killed
  <2> QED BY <1>1, <2>1, <2>2
<1>3. ASSUME NEW r \in Refresher, Begin(r) PROVE WalkInv'
  <2>1. /\ building' = {r} /\ build'[r].floor = Stored
        /\ UNCHANGED <<client, index, names>>
    BY <1>3 DEF IInv, TypeOK, Begin, Serialized
  <2> QED BY <2>1 DEF WalkInv, Stored
<1>4. ASSUME NEW r \in Refresher, Scan(r) PROVE WalkInv'
  <2>1. UNCHANGED <<client, index, names>>
    BY <1>4 DEF Scan
  <2>2. \A q \in building' : q \in building /\ build'[q].floor = build[q].floor
    BY <1>4 DEF IInv, TypeOK, Build, Scan, End
  <2> QED BY <2>1, <2>2 DEF WalkInv, Stored
<1>5. ASSUME NEW r \in Refresher, Swap(r) PROVE WalkInv'
  <2>1. /\ r \in building /\ index' = build[r].found /\ building' = building \ {r}
        /\ \A q \in building \ {r} : build'[q] = build[q]
        /\ UNCHANGED <<client, names>>
    BY <1>5 DEF IInv, TypeOK, Swap, End
  <2>2. build[r].floor \subseteq build[r].found
    BY <1>5 DEF Swap, IInv, IndexInv, TypeOK
  <2> QED BY <2>1, <2>2 DEF WalkInv, Stored
<1>6. CASE Fetch
  BY <1>6, FetchKeepsWalk
<1>7. CASE Misplaced
  BY <1>1, <1>7 DEF Misplaced, Stored
<1>8. CASE Crash
  BY <1>8 DEF Crash, WalkInv
<1>9. CASE UNCHANGED vars
  BY <1>1, <1>9 DEF vars, Stored
<1> QED BY <1>2, <1>3, <1>4, <1>5, <1>6, <1>7, <1>8, <1>9 DEF Next

(* Pages taken across refreshes join into one list: in order, nothing twice, and nothing left out
   that was there when the first page was taken. *)
THEOREM PagesJoinUp == Spec => []PagesJoin
<1>1. Init => WalkInv
  BY DEF Init, WalkInv
<1>2. WalkInv => PagesJoin
  <2> SUFFICES ASSUME WalkInv, walk # None
               PROVE  /\ \A i \in 1..Len(walk) - 1 : Before(walk[i], walk[i + 1])
                      /\ cursor = None => first \subseteq Range(walk)
    BY DEF PagesJoin
  <2>1. Joined(walk, cursor, first)
    BY DEF WalkInv
  <2>2. DOMAIN walk = 1..Len(walk)
    BY <2>1 DEF Joined
  <2> QED BY <2>1, <2>2 DEF Joined, Range
<1>3. Spec => []WalkInv
  BY Invariance, IInvInit, IInvStep, WalkStep, <1>1, PTL DEF Spec
<1> QED BY <1>2, <1>3, PTL
=============================================================================
