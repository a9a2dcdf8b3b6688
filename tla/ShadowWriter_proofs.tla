-------------------------- MODULE ShadowWriter_proofs --------------------------
(***************************************************************************)
(* Safety of shadow persistence for any number of processes, any versions, *)
(* any promotion verdicts, any capacity of the queue, and failures and     *)
(* restarts at any step.                                                   *)
(*                                                                         *)
(* The heart of IInv is WritesInv: what a transaction has gathered is what *)
(* it would gather from the store of this moment.  It holds because the    *)
(* row lock keeps every other transaction from committing in between, and  *)
(* from it follow the whole snapshots, the duplicates that are counted and *)
(* the pointer that only moves forward.                                    *)
(***************************************************************************)
EXTENDS ShadowWriter, SequenceTheorems, TLAPS

Holding == {"locked", "recorded", "written"}

(* A transaction past its first statement holds the row, and nobody else.  *)
RowInv == \A w \in Writer : thread[w] \in Holding <=> rowlock = w

(* A claimed snapshot is one that was submitted; a thread ends only when   *)
(* its writer is stopping.                                                 *)
TaskInv == \A w \in Writer :
    /\ InFlight(w) => task[w] \in Submitted
    /\ thread[w] = "stopped" => stopping[w]

(* What a transaction has gathered is what it would gather now.            *)
WritesInv == \A w \in Writer :
    /\ thread[w] = "recorded" => writes[w] = [Writes(store, task[w]) EXCEPT !.outcomes = {}]
    /\ thread[w] = "written" => writes[w] = Writes(store, task[w])

(* No counter exceeds what was submitted.                                  *)
CountersInv == \A w \in Writer :
    /\ stats[w].queued <= submits /\ stats[w].dropped_queue_full <= submits
    /\ stats[w].rejected_shutdown <= submits
    /\ stats[w].duplicate <= stats[w].persisted

IInv ==
    /\ TypeOK
    /\ RowInv
    /\ TaskInv
    /\ WritesInv
    /\ CountersInv
    /\ Accounted
    /\ WholeSnapshots
    /\ PersistedIsStored
-----------------------------------------------------------------------------
(* The event store.                                                        *)

WholeStore(st) ==
    /\ (st.current = None) = (st.versions = {})
    /\ st.current \in st.versions \cup {None}
    /\ st.versions = {row[1] : row \in st.outcomes}

LEMMA WritesAre ==
  ASSUME NEW st \in Store, NEW s \in Snapshot
  PROVE  LET w == Writes(st, s) IN
         /\ w \in Store
         /\ w.versions = IF s.version \notin st.versions THEN {s.version} ELSE {}
         /\ w.outcomes = {<<s.version, s.outcome>>} \ st.outcomes
         /\ w.current = IF s.version \notin st.versions /\ Promotes(st.current, s) THEN s.version ELSE None
BY DEF Writes, Store, Snapshot

\* What committing a transaction does to a whole store.
LEMMA CommitKeepsWhole ==
  ASSUME NEW st \in Store, WholeStore(st), NEW s \in Snapshot,
         NEW w, w = Writes(st, s), NEW new, new = Committed(st, w)
  PROVE  /\ new \in Store /\ WholeStore(new)
         /\ st.versions \subseteq new.versions /\ st.outcomes \subseteq new.outcomes
         /\ s.version \in new.versions /\ <<s.version, s.outcome>> \in new.outcomes
         /\ Inserted(w) <=> new # st
         /\ st.current # None /\ new.current # st.current => Verdict(st.current, new.current) = "newer_material"
<1> DEFINE v == s.version
           row == <<s.version, s.outcome>>
<1>1. /\ w.versions = IF v \notin st.versions THEN {v} ELSE {}
      /\ w.outcomes = {row} \ st.outcomes
      /\ w.current = IF v \notin st.versions /\ Promotes(st.current, s) THEN v ELSE None
  BY WritesAre
<1>2. /\ new = [versions |-> st.versions \cup w.versions,
                outcomes |-> st.outcomes \cup w.outcomes,
                current |-> IF w.current = None THEN st.current ELSE w.current]
      /\ new.versions = st.versions \cup {v} /\ new.outcomes = st.outcomes \cup {row}
      /\ new.current = IF w.current = None THEN st.current ELSE w.current
  BY <1>1 DEF Committed
<1>3. v \in Version /\ v # None /\ row \in Version \X Outcome /\ row[1] = v
  BY VersionAssumption DEF Snapshot
<1>4. /\ st.versions \subseteq Version /\ st.outcomes \subseteq Version \X Outcome
      /\ st.current \in Version \cup {None}
      /\ st = [versions |-> st.versions, outcomes |-> st.outcomes, current |-> st.current]
  BY DEF Store
<1> HIDE DEF v, row
<1>5. new \in Store
  BY <1>1, <1>2, <1>3, <1>4 DEF Store
<1>6. WholeStore(new)
  <2>1. new.versions # {}
    BY <1>2
  <2>2. st.current = None => v \notin st.versions /\ w.current = v
    BY <1>1 DEF WholeStore, Promotes
  <2>3. new.current # None /\ new.current \in new.versions
    BY <1>1, <1>2, <1>3, <2>2 DEF WholeStore
  <2>4. new.versions = {r[1] : r \in new.outcomes}
    BY <1>2, <1>3 DEF WholeStore
  <2> QED
    BY <2>1, <2>3, <2>4 DEF WholeStore
<1>7. Inserted(w) <=> new # st
  <2>1. CASE v \notin st.versions
    BY <1>1, <1>2, <2>1 DEF Inserted
  <2>2. CASE row \notin st.outcomes
    BY <1>1, <1>2, <2>2 DEF Inserted
  <2>3. CASE v \in st.versions /\ row \in st.outcomes
    <3>1. w.versions = {} /\ w.outcomes = {} /\ w.current = None
      BY <1>1, <2>3
    <3>2. new = st
      BY <1>2, <1>4, <3>1
    <3> QED
      BY <3>1, <3>2 DEF Inserted
  <2> QED
    BY <2>1, <2>2, <2>3
<1>8. st.current # None /\ new.current # st.current => Verdict(st.current, new.current) = "newer_material"
  BY <1>1, <1>2, <1>3 DEF Promotes, v
<1> QED
  BY <1>2, <1>5, <1>6, <1>7, <1>8 DEF v, row

LEMMA SnapshotsSubmitted == Submitted \subseteq Snapshot
BY SubmittedAssumption

LEMMA Bounds == Capacity \in Nat /\ MaxSubmits \in Nat /\ MaxSubmits >= 1
BY CapacityAssumption

\* The actions, with the writer named.
WriterNext(w) ==
    \/ \E s \in Submitted : Submit(w, s)
    \/ Claim(w) \/ Stop(w) \/ Lock(w) \/ Record(w) \/ AddOutcomes(w) \/ Commit(w) \/ Fail(w)
    \/ \E drain \in BOOLEAN : Shutdown(w, drain)
    \/ Return(w) \/ Restart(w)

LEMMA Steps ==
  ASSUME [Next]_vars
  PROVE  (\E w \in Writer : WriterNext(w)) \/ UNCHANGED vars
BY DEF Next, Work, WriterNext

-----------------------------------------------------------------------------
(* What a step does to the transactions.                                   *)

Parts == {"waiting", "claimed", "locked", "recorded", "written", "stopped"}

\* It moves the worker of one writer only.
Alone(w) ==
    /\ thread' \in [Writer -> Parts] /\ task' \in [Writer -> Submitted \cup {None}]
    /\ writes' \in [Writer -> Store] /\ stopping' \in [Writer -> BOOLEAN]
    /\ \A v \in Writer \ {w} : /\ thread'[v] = thread[v] /\ task'[v] = task[v]
                               /\ writes'[v] = writes[v] /\ stopping'[v] = stopping[v]

\* The worker goes on to its next statement, or ends the transaction.
Advances(w) ==
    \/ /\ thread'[w] = thread[w] /\ task'[w] = task[w] /\ writes'[w] = writes[w]
       /\ stopping[w] => stopping'[w]
       /\ UNCHANGED shared
    \/ /\ thread[w] = "waiting" /\ thread'[w] = "claimed" /\ task'[w] \in Submitted
       /\ UNCHANGED <<shared, stopping>>
    \/ /\ thread[w] = "waiting" /\ thread'[w] = "stopped" /\ stopping[w]
       /\ UNCHANGED <<shared, stopping>>
    \/ /\ thread[w] = "claimed" /\ thread'[w] = "locked" /\ task'[w] = task[w]
       /\ rowlock = None /\ rowlock' = w
       /\ UNCHANGED <<store, stopping>>
    \/ /\ thread[w] = "locked" /\ thread'[w] = "recorded" /\ task'[w] = task[w]
       /\ writes'[w] = [Writes(store, task[w]) EXCEPT !.outcomes = {}]
       /\ UNCHANGED <<shared, stopping>>
    \/ /\ thread[w] = "recorded" /\ thread'[w] = "written" /\ task'[w] = task[w]
       /\ writes'[w] = Writes(store, task[w])
       /\ UNCHANGED <<shared, stopping>>
    \/ /\ thread'[w] = "waiting" /\ rowlock' = Free(w)
       /\ store' = store \/ (thread[w] = "written" /\ store' = Committed(store, writes[w]))

LEMMA Ending ==
  ASSUME TypeOK, NEW w \in Writer, EndTask(w)
  PROVE  /\ thread' \in [Writer -> Parts] /\ task' \in [Writer -> Submitted \cup {None}]
         /\ writes' \in [Writer -> Store]
         /\ \A v \in Writer \ {w} : thread'[v] = thread[v] /\ task'[v] = task[v] /\ writes'[v] = writes[v]
         /\ thread'[w] = "waiting" /\ rowlock' = Free(w)
<1>1. NoWrites \in Store
  BY DEF NoWrites, Store
<1> QED
  BY <1>1 DEF EndTask, TypeOK, Parts

LEMMA TransactionSteps ==
  ASSUME TypeOK, TaskInv, WritesInv, NEW w \in Writer, WriterNext(w)
  PROVE  Alone(w) /\ Advances(w)
<1>0. /\ thread \in [Writer -> Parts] /\ task \in [Writer -> Submitted \cup {None}]
      /\ writes \in [Writer -> Store] /\ stopping \in [Writer -> BOOLEAN]
      /\ queue[w] \in Seq(Submitted)
  BY DEF TypeOK, Parts
<1>1. ASSUME UNCHANGED <<shared, thread, task, writes, stopping>>
      PROVE  Alone(w) /\ Advances(w)
  BY <1>0, <1>1 DEF Alone, Advances
<1>2. ASSUME NEW s \in Submitted, Submit(w, s)
      PROVE  Alone(w) /\ Advances(w)
  BY <1>1, <1>2 DEF Submit
<1>3. CASE Claim(w)
  <2>1. Head(queue[w]) \in Submitted
    BY <1>0, <1>3 DEF Claim
  <2> QED
    BY <1>0, <1>3, <2>1 DEF Claim, Alone, Advances, Parts
<1>4. CASE Stop(w)
  BY <1>0, <1>4 DEF Stop, Alone, Advances, Parts
<1>5. CASE Lock(w)
  BY <1>0, <1>5 DEF Lock, LockRow, Alone, Advances, Parts
<1>6. ASSUME thread[w] \in {"locked", "recorded"}
      PROVE  /\ Writes(store, task[w]) \in Store
             /\ [Writes(store, task[w]) EXCEPT !.outcomes = {}] \in Store
             /\ [writes[w] EXCEPT !.outcomes = Writes(store, task[w]).outcomes]
                  = IF thread[w] = "recorded" THEN Writes(store, task[w])
                    ELSE [writes[w] EXCEPT !.outcomes = Writes(store, task[w]).outcomes]
  <2> DEFINE x == Writes(store, task[w])
  <2>1. task[w] \in Snapshot
    BY <1>6, SnapshotsSubmitted DEF TaskInv, InFlight
  <2>2. x \in Store
    BY <2>1, WritesAre DEF TypeOK
  <2>3. thread[w] = "recorded" => writes[w] = [x EXCEPT !.outcomes = {}]
    BY DEF WritesInv
  <2> HIDE DEF x
  <2>4. [x EXCEPT !.outcomes = {}] \in Store /\ [[x EXCEPT !.outcomes = {}] EXCEPT !.outcomes = x.outcomes] = x
    BY <2>2 DEF Store
  <2> QED
    BY <2>2, <2>3, <2>4 DEF x
<1>7. CASE Record(w)
  <2>1. thread[w] = "locked" /\ UNCHANGED <<shared, stopping, task>>
    BY <1>7 DEF Record
  <2>2. /\ writes' = [writes EXCEPT ![w] = [Writes(store, task[w]) EXCEPT !.outcomes = {}]]
        /\ thread' = [thread EXCEPT ![w] = "recorded"]
    BY <1>7 DEF Record
  <2> QED
    BY <1>0, <1>6, <2>1, <2>2 DEF Alone, Advances, Parts
<1>8. CASE AddOutcomes(w)
  <2>1. thread[w] = "recorded" /\ UNCHANGED <<shared, stopping, task>>
    BY <1>8 DEF AddOutcomes
  <2>2. /\ writes' = [writes EXCEPT ![w] = [writes[w] EXCEPT !.outcomes = Writes(store, task[w]).outcomes]]
        /\ thread' = [thread EXCEPT ![w] = "written"]
    BY <1>0, <1>8 DEF AddOutcomes
  <2>3. writes' = [writes EXCEPT ![w] = Writes(store, task[w])]
    BY <1>6, <2>1, <2>2
  <2>4. Writes(store, task[w]) \in Store
    BY <1>6, <2>1
  <2> QED
    BY <1>0, <2>1, <2>2, <2>3, <2>4 DEF Alone, Advances, Parts
<1>9. CASE Commit(w)
  BY <1>0, <1>9, Ending DEF Commit, Alone, Advances
<1>10. CASE Fail(w)
  BY <1>0, <1>10, Ending DEF Fail, AfterFailure, Alone, Advances
<1>11. ASSUME NEW drain \in BOOLEAN, Shutdown(w, drain)
       PROVE  Alone(w) /\ Advances(w)
  <2>1. UNCHANGED <<shared, thread, task, writes>> /\ stopping' = [stopping EXCEPT ![w] = TRUE]
    BY <1>11 DEF Shutdown
  <2> QED
    BY <1>0, <2>1 DEF Alone, Advances
<1>12. CASE Return(w)
  BY <1>1, <1>12 DEF Return
<1>13. CASE Restart(w)
  BY <1>0, <1>13, Ending DEF Restart, AfterFailure, Alone, Advances
<1> QED
  BY <1>2, <1>3, <1>4, <1>5, <1>7, <1>8, <1>9, <1>10, <1>11, <1>12, <1>13 DEF WriterNext

LEMMA RowStep ==
  ASSUME TypeOK, RowInv, TaskInv, WritesInv, [Next]_vars
  PROVE  RowInv'
<1>1. ASSUME NEW w \in Writer, WriterNext(w)
      PROVE  RowInv'
  <2>1. Alone(w) /\ Advances(w)
    BY <1>1, TransactionSteps
  <2>2. ASSUME NEW v \in Writer
        PROVE  thread'[v] \in Holding <=> rowlock' = v
    BY <2>1, WriterAssumption DEF RowInv, Alone, Advances, Free, Holding, shared
  <2> QED
    BY <2>2 DEF RowInv
<1>2. CASE UNCHANGED vars
  BY <1>2 DEF vars, shared, RowInv
<1> QED
  BY <1>1, <1>2, Steps

LEMMA TaskStep ==
  ASSUME TypeOK, TaskInv, WritesInv, [Next]_vars
  PROVE  TaskInv'
<1>1. ASSUME NEW w \in Writer, WriterNext(w)
      PROVE  TaskInv'
  <2>1. Alone(w) /\ Advances(w)
    BY <1>1, TransactionSteps
  <2>2. \A v \in Writer : InFlight(v) => task[v] \in Submitted
    BY DEF TaskInv
  <2> QED
    BY <2>1, <2>2 DEF TaskInv, InFlight, Alone, Advances
<1>2. CASE UNCHANGED vars
  BY <1>2 DEF vars, TaskInv, InFlight
<1> QED
  BY <1>1, <1>2, Steps

LEMMA WritesStep ==
  ASSUME TypeOK, RowInv, TaskInv, WritesInv, [Next]_vars
  PROVE  WritesInv'
<1>1. ASSUME NEW w \in Writer, WriterNext(w)
      PROVE  WritesInv'
  <2>1. Alone(w) /\ Advances(w)
    BY <1>1, TransactionSteps
  <2>2. ASSUME NEW v \in Writer, thread'[v] \in {"recorded", "written"}
        PROVE  /\ store' = store /\ task'[v] = task[v]
               /\ thread'[v] = "recorded" => writes'[v] = [Writes(store, task[v]) EXCEPT !.outcomes = {}]
               /\ thread'[v] = "written" => writes'[v] = Writes(store, task[v])
    <3>1. CASE v = w
      BY <2>1, <2>2, <3>1 DEF WritesInv, Advances, shared
    <3>2. CASE v # w
      <4>1. thread'[v] = thread[v] /\ task'[v] = task[v] /\ writes'[v] = writes[v]
        BY <2>1, <3>2 DEF Alone
      <4>2. thread[w] # "written"
        BY <2>2, <3>2, <4>1 DEF RowInv, Holding
      <4>3. store' = store
        BY <2>1, <4>2 DEF Advances, shared
      <4> QED
        BY <2>2, <4>1, <4>3 DEF WritesInv
    <3> QED
      BY <3>1, <3>2
  <2> QED
    BY <2>2 DEF WritesInv
<1>2. CASE UNCHANGED vars
  BY <1>2 DEF vars, shared, WritesInv
<1> QED
  BY <1>1, <1>2, Steps

-----------------------------------------------------------------------------
(* The store.                                                              *)

\* A transaction whose commit is about to be applied has the effect of CommitKeepsWhole.
LEMMA CommitNow ==
  ASSUME TypeOK, TaskInv, WritesInv, WholeSnapshots, NEW w \in Writer,
         thread[w] = "written", store' = Committed(store, writes[w])
  PROVE  /\ task[w] \in Submitted
         /\ store' \in Store /\ WholeSnapshots'
         /\ store.versions \subseteq store'.versions /\ store.outcomes \subseteq store'.outcomes
         /\ task[w].version \in store'.versions
         /\ <<task[w].version, task[w].outcome>> \in store'.outcomes
         /\ Inserted(writes[w]) <=> store' # store
         /\ store.current # None /\ store'.current # store.current =>
                Verdict(store.current, store'.current) = "newer_material"
<1>1. task[w] \in Submitted /\ task[w] \in Snapshot /\ writes[w] = Writes(store, task[w]) /\ store \in Store
  BY SnapshotsSubmitted DEF TaskInv, WritesInv, InFlight, TypeOK
<1>2. WholeStore(store)
  BY DEF WholeStore, WholeSnapshots
<1>3. /\ store' \in Store /\ WholeStore(store')
      /\ store.versions \subseteq store'.versions /\ store.outcomes \subseteq store'.outcomes
      /\ task[w].version \in store'.versions
      /\ <<task[w].version, task[w].outcome>> \in store'.outcomes
      /\ Inserted(writes[w]) <=> store' # store
      /\ store.current # None /\ store'.current # store.current =>
             Verdict(store.current, store'.current) = "newer_material"
  BY <1>1, <1>2, CommitKeepsWhole
<1>4. WholeSnapshots'
  BY <1>3 DEF WholeStore, WholeSnapshots
<1> QED
  BY <1>1, <1>3, <1>4

\* What a step does to the store and to what was counted as persisted.
LEMMA StoreSteps ==
  ASSUME TypeOK, TaskInv, WritesInv, WholeSnapshots, NEW w \in Writer, WriterNext(w)
  PROVE  /\ store' \in Store /\ WholeSnapshots'
         /\ store.versions \subseteq store'.versions /\ store.outcomes \subseteq store'.outcomes
         /\ store.current # None /\ store'.current # store.current =>
                Verdict(store.current, store'.current) = "newer_material"
         /\ \/ acked' = acked
            \/ /\ task[w] \in Submitted /\ acked' = acked \cup {task[w]}
               /\ task[w].version \in store'.versions
               /\ <<task[w].version, task[w].outcome>> \in store'.outcomes
<1>1. store' = store \/ (thread[w] = "written" /\ store' = Committed(store, writes[w]))
  BY TransactionSteps DEF Advances, shared
<1>2. ASSUME store' = store
      PROVE  store' \in Store /\ WholeSnapshots'
  BY <1>2 DEF TypeOK, WholeSnapshots
<1>3. acked' = acked \/ (thread[w] = "written" /\ store' = Committed(store, writes[w]) /\ acked' = acked \cup {task[w]})
  BY DEF WriterNext, Submit, Claim, Stop, Lock, Record, AddOutcomes, Commit, Fail, Shutdown, Return, Restart
<1>4. /\ store' \in Store /\ WholeSnapshots'
      /\ store.versions \subseteq store'.versions /\ store.outcomes \subseteq store'.outcomes
      /\ store.current # None /\ store'.current # store.current =>
             Verdict(store.current, store'.current) = "newer_material"
  BY <1>1, <1>2, CommitNow DEF TypeOK
<1> QED
  BY <1>3, <1>4, CommitNow

LEMMA StoreStep ==
  ASSUME TypeOK, TaskInv, WritesInv, WholeSnapshots, PersistedIsStored, [Next]_vars
  PROVE  store' \in Store /\ acked' \subseteq Submitted /\ WholeSnapshots' /\ PersistedIsStored'
<1>1. acked \subseteq Submitted
  BY DEF TypeOK
<1>2. ASSUME NEW w \in Writer, WriterNext(w)
      PROVE  store' \in Store /\ acked' \subseteq Submitted /\ WholeSnapshots' /\ PersistedIsStored'
  <2>1. store' \in Store /\ WholeSnapshots' /\ acked' \subseteq Submitted
    BY <1>1, <1>2, StoreSteps
  <2>2. ASSUME NEW s \in acked'
        PROVE  s.version \in store'.versions /\ <<s.version, s.outcome>> \in store'.outcomes
    BY <1>2, <2>2, StoreSteps DEF PersistedIsStored
  <2> QED
    BY <2>1, <2>2 DEF PersistedIsStored
<1>3. CASE UNCHANGED vars
  BY <1>1, <1>3 DEF vars, shared, TypeOK, WholeSnapshots, PersistedIsStored
<1> QED
  BY <1>2, <1>3, Steps

-----------------------------------------------------------------------------
(* The accounts.                                                           *)

\* Accounts are kept in naturals, in every writer's own queue and counters.
Books ==
    /\ queue \in [Writer -> Seq(Submitted)] /\ stats \in [Writer -> [Counters -> Nat]]
    /\ submits \in Nat

LEMMA EmptyQueue == <<>> \in Seq(Submitted) /\ Len(<<>>) = 0
OBVIOUS

\* Discard empties the queue into one counter.
LEMMA Discarding ==
  ASSUME Books, NEW w \in Writer, NEW drops \in BOOLEAN, Discard(w, drops)
  PROVE  /\ queue' \in [Writer -> Seq(Submitted)] /\ stats' \in [Writer -> [Counters -> Nat]]
         /\ \A v \in Writer \ {w} : queue'[v] = queue[v] /\ stats'[v] = stats[v]
         /\ queue'[w] = <<>>
         /\ stats'[w].dropped_shutdown = stats[w].dropped_shutdown + Len(queue[w])
         /\ stats'[w].drain_timeouts = IF drops THEN 1 ELSE stats[w].drain_timeouts
         /\ \A c \in Counters \ {"dropped_shutdown", "drain_timeouts"} : stats'[w][c] = stats[w][c]
<1>1. queue[w] \in Seq(Submitted) /\ Len(queue[w]) \in Nat /\ stats[w] \in [Counters -> Nat]
  BY DEF Books
<1> DEFINE n == Len(queue[w])
           t == [stats[w] EXCEPT !.dropped_shutdown = @ + n,
                                 !.drain_timeouts = IF drops THEN 1 ELSE @]
<1>2. /\ t \in [Counters -> Nat] /\ t.dropped_shutdown = stats[w].dropped_shutdown + n
      /\ t.drain_timeouts = IF drops THEN 1 ELSE stats[w].drain_timeouts
      /\ \A c \in Counters \ {"dropped_shutdown", "drain_timeouts"} : t[c] = stats[w][c]
  <2> DEFINE s == stats[w]
             t1 == [s EXCEPT !.dropped_shutdown = @ + n]
  <2>1. n \in Nat /\ s \in [Counters -> Nat]
    BY <1>1
  <2> HIDE DEF n, s
  <2>2. "dropped_shutdown" \in Counters /\ "drain_timeouts" \in Counters
    BY DEF Counters
  <2>3. /\ t1 \in [Counters -> Nat] /\ t1.dropped_shutdown = s.dropped_shutdown + n
        /\ \A c \in Counters \ {"dropped_shutdown"} : t1[c] = s[c]
    BY <2>1, <2>2
  <2>4. t = [t1 EXCEPT !.drain_timeouts = IF drops THEN 1 ELSE @]
    BY <2>1, <2>2 DEF s, n
  <2> HIDE DEF t1, t
  <2>5. /\ t \in [Counters -> Nat] /\ t.drain_timeouts = IF drops THEN 1 ELSE t1.drain_timeouts
        /\ \A c \in Counters \ {"drain_timeouts"} : t[c] = t1[c]
    BY <2>2, <2>3, <2>4
  <2> QED
    BY <2>2, <2>3, <2>5 DEF s
<1>3. stats' = [stats EXCEPT ![w] = t] /\ queue' = [queue EXCEPT ![w] = <<>>]
  BY DEF Discard, Books
<1> HIDE DEF t
<1>4. /\ stats' \in [Writer -> [Counters -> Nat]] /\ stats'[w] = t
      /\ \A v \in Writer \ {w} : stats'[v] = stats[v]
  BY <1>2, <1>3 DEF Books
<1>5. /\ queue' \in [Writer -> Seq(Submitted)] /\ queue'[w] = <<>>
      /\ \A v \in Writer \ {w} : queue'[v] = queue[v]
  BY <1>3, EmptyQueue DEF Books
<1> QED
  BY <1>2, <1>4, <1>5

\* Count adds one to a counter.
LEMMA Counting ==
  ASSUME Books, NEW w \in Writer, NEW c \in Counters, Count(w, c)
  PROVE  /\ stats' \in [Writer -> [Counters -> Nat]]
         /\ \A v \in Writer \ {w} : stats'[v] = stats[v]
         /\ stats'[w][c] = stats[w][c] + 1
         /\ \A d \in Counters \ {c} : stats'[w][d] = stats[w][d]
<1>1. stats[w] \in [Counters -> Nat]
  BY DEF Books
<1>2. stats' = [stats EXCEPT ![w] = [stats[w] EXCEPT ![c] = stats[w][c] + 1]]
  BY DEF Count
<1>3. [stats[w] EXCEPT ![c] = stats[w][c] + 1] \in [Counters -> Nat]
  BY <1>1
<1> QED
  BY <1>1, <1>2, <1>3 DEF Books

\* A commit counts the snapshot, and the duplicate when no row was new.
LEMMA Committing ==
  ASSUME Books, NEW w \in Writer, Commit(w)
  PROVE  /\ stats' \in [Writer -> [Counters -> Nat]]
         /\ \A v \in Writer \ {w} : stats'[v] = stats[v]
         /\ stats'[w].persisted = stats[w].persisted + 1
         /\ stats'[w].duplicate = IF Inserted(writes[w]) THEN stats[w].duplicate ELSE stats[w].duplicate + 1
         /\ \A d \in Counters \ {"persisted", "duplicate"} : stats'[w][d] = stats[w][d]
<1> DEFINE s == stats[w]
           more == IF Inserted(writes[w]) THEN s.duplicate ELSE s.duplicate + 1
           t1 == [s EXCEPT !.persisted = @ + 1]
           t == [t1 EXCEPT !.duplicate = IF Inserted(writes[w]) THEN @ ELSE @ + 1]
<1>1. s \in [Counters -> Nat] /\ stats' = [stats EXCEPT ![w] = t]
  BY DEF Commit, Books
<1> HIDE DEF s
<1>2. "persisted" \in Counters /\ "duplicate" \in Counters
  BY DEF Counters
<1>3. /\ t1 \in [Counters -> Nat] /\ t1.persisted = s.persisted + 1
      /\ \A c \in Counters \ {"persisted"} : t1[c] = s[c]
  BY <1>1, <1>2
<1> HIDE DEF t1
<1>4. /\ t \in [Counters -> Nat] /\ t.duplicate = more
      /\ \A c \in Counters \ {"duplicate"} : t[c] = t1[c]
  BY <1>2, <1>3
<1> HIDE DEF t
<1>5. /\ stats' \in [Writer -> [Counters -> Nat]] /\ stats'[w] = t
      /\ \A v \in Writer \ {w} : stats'[v] = stats[v]
  BY <1>1, <1>4 DEF Books
<1> QED
  BY <1>2, <1>3, <1>4, <1>5 DEF s

\* The part of the invariants that speaks of one writer's counters: with n snapshots pending
\* and f in flight, what was accepted is what came of it.
Sheet(s, n, f, subs) ==
    /\ s.queued <= subs /\ s.dropped_queue_full <= subs /\ s.rejected_shutdown <= subs
    /\ s.duplicate <= s.persisted /\ s.drain_timeouts <= 1
    /\ s.queued = s.persisted + s.failed + s.dropped_shutdown + n + f

Same(s, t, Changed) == \A c \in Counters \ Changed : t[c] = s[c]

\* What the operations do to a sheet.
LEMMA Sheets ==
  ASSUME NEW s \in [Counters -> Nat], NEW t \in [Counters -> Nat], NEW n \in Nat, NEW f \in {0, 1},
         NEW subs \in Nat, Sheet(s, n, f, subs)
  PROVE  /\ t.queued = s.queued + 1 /\ Same(s, t, {"queued"}) => Sheet(t, n + 1, f, subs + 1)
         /\ t.rejected_shutdown = s.rejected_shutdown + 1 /\ Same(s, t, {"rejected_shutdown"})
                => Sheet(t, n, f, subs + 1)
         /\ t.dropped_queue_full = s.dropped_queue_full + 1 /\ Same(s, t, {"dropped_queue_full"})
                => Sheet(t, n, f, subs + 1)
         /\ n >= 1 /\ f = 0 => Sheet(s, n - 1, 1, subs)
         /\ f = 1 /\ t.persisted = s.persisted + 1 /\ t.duplicate \in {s.duplicate, s.duplicate + 1}
              /\ Same(s, t, {"persisted", "duplicate"}) => Sheet(t, n, 0, subs)
         /\ f = 1 /\ t.failed = s.failed + 1 /\ Same(s, t, {"failed"}) => Sheet(t, n, 0, subs)
         /\ t.dropped_shutdown = s.dropped_shutdown + n /\ t.drain_timeouts \in {1, s.drain_timeouts}
              /\ Same(s, t, {"dropped_shutdown", "drain_timeouts"}) => Sheet(t, 0, f, subs)
<1>0. Counters = {"queued", "persisted", "duplicate", "failed", "dropped_queue_full",
                  "dropped_shutdown", "rejected_shutdown", "drain_timeouts"}
  BY DEF Counters
<1>1. /\ s.queued \in Nat /\ s.persisted \in Nat /\ s.duplicate \in Nat /\ s.failed \in Nat
      /\ s.dropped_queue_full \in Nat /\ s.dropped_shutdown \in Nat /\ s.rejected_shutdown \in Nat /\ s.drain_timeouts \in Nat
  BY <1>0
<1>2. /\ t.queued \in Nat /\ t.persisted \in Nat /\ t.duplicate \in Nat /\ t.failed \in Nat
      /\ t.dropped_queue_full \in Nat /\ t.dropped_shutdown \in Nat /\ t.rejected_shutdown \in Nat /\ t.drain_timeouts \in Nat
  BY <1>0
<1>3. ASSUME t.queued = s.queued + 1, Same(s, t, {"queued"})
      PROVE  Sheet(t, n + 1, f, subs + 1)
  <2>1. /\ t.persisted = s.persisted /\ t.duplicate = s.duplicate /\ t.failed = s.failed
        /\ t.dropped_queue_full = s.dropped_queue_full /\ t.dropped_shutdown = s.dropped_shutdown /\ t.rejected_shutdown = s.rejected_shutdown
        /\ t.drain_timeouts = s.drain_timeouts
    BY <1>0, <1>3 DEF Same
  <2> QED
    BY <1>1, <1>2, <1>3, <2>1 DEF Sheet
<1>4. ASSUME t.rejected_shutdown = s.rejected_shutdown + 1, Same(s, t, {"rejected_shutdown"})
      PROVE  Sheet(t, n, f, subs + 1)
  <2>1. /\ t.queued = s.queued /\ t.persisted = s.persisted /\ t.duplicate = s.duplicate
        /\ t.failed = s.failed /\ t.dropped_queue_full = s.dropped_queue_full /\ t.dropped_shutdown = s.dropped_shutdown
        /\ t.drain_timeouts = s.drain_timeouts
    BY <1>0, <1>4 DEF Same
  <2> QED
    BY <1>1, <1>2, <1>4, <2>1 DEF Sheet
<1>5. ASSUME t.dropped_queue_full = s.dropped_queue_full + 1, Same(s, t, {"dropped_queue_full"})
      PROVE  Sheet(t, n, f, subs + 1)
  <2>1. /\ t.queued = s.queued /\ t.persisted = s.persisted /\ t.duplicate = s.duplicate
        /\ t.failed = s.failed /\ t.dropped_shutdown = s.dropped_shutdown /\ t.rejected_shutdown = s.rejected_shutdown
        /\ t.drain_timeouts = s.drain_timeouts
    BY <1>0, <1>5 DEF Same
  <2> QED
    BY <1>1, <1>2, <1>5, <2>1 DEF Sheet
<1>6. ASSUME f = 1, t.persisted = s.persisted + 1, t.duplicate \in {s.duplicate, s.duplicate + 1},
             Same(s, t, {"persisted", "duplicate"})
      PROVE  Sheet(t, n, 0, subs)
  <2>1. /\ t.queued = s.queued /\ t.failed = s.failed /\ t.dropped_queue_full = s.dropped_queue_full
        /\ t.dropped_shutdown = s.dropped_shutdown /\ t.rejected_shutdown = s.rejected_shutdown /\ t.drain_timeouts = s.drain_timeouts
    BY <1>0, <1>6 DEF Same
  <2> QED
    BY <1>1, <1>2, <1>6, <2>1 DEF Sheet
<1>7. ASSUME f = 1, t.failed = s.failed + 1, Same(s, t, {"failed"})
      PROVE  Sheet(t, n, 0, subs)
  <2>1. /\ t.queued = s.queued /\ t.persisted = s.persisted /\ t.duplicate = s.duplicate
        /\ t.dropped_queue_full = s.dropped_queue_full /\ t.dropped_shutdown = s.dropped_shutdown /\ t.rejected_shutdown = s.rejected_shutdown
        /\ t.drain_timeouts = s.drain_timeouts
    BY <1>0, <1>7 DEF Same
  <2> QED
    BY <1>1, <1>2, <1>7, <2>1 DEF Sheet
<1>8. ASSUME t.dropped_shutdown = s.dropped_shutdown + n, t.drain_timeouts \in {1, s.drain_timeouts},
             Same(s, t, {"dropped_shutdown", "drain_timeouts"})
      PROVE  Sheet(t, 0, f, subs)
  <2>1. /\ t.queued = s.queued /\ t.persisted = s.persisted /\ t.duplicate = s.duplicate
        /\ t.failed = s.failed /\ t.dropped_queue_full = s.dropped_queue_full /\ t.rejected_shutdown = s.rejected_shutdown
    BY <1>0, <1>8 DEF Same
  <2> QED
    BY <1>1, <1>2, <1>8, <2>1 DEF Sheet
<1>9. n >= 1 /\ f = 0 => Sheet(s, n - 1, 1, subs)
  BY <1>1 DEF Sheet
<1> QED
  BY <1>3, <1>4, <1>5, <1>6, <1>7, <1>8, <1>9

\* What is in flight with a writer, and its whole account.
Flying(w) == IF InFlight(w) THEN 1 ELSE 0
Account(w) ==
    /\ Len(queue[w]) <= Capacity
    /\ thread[w] = "stopped" => queue[w] = <<>>
    /\ Sheet(stats[w], Len(queue[w]), Flying(w), submits)

LEMMA Accounts ==
  TypeOK /\ CountersInv /\ Accounted => Books /\ \A w \in Writer : Account(w)
<1> SUFFICES ASSUME TypeOK, CountersInv, Accounted
             PROVE  Books /\ \A w \in Writer : Account(w)
  OBVIOUS
<1>1. \A x \in 0..MaxSubmits : x \in Nat
  BY Bounds
<1>2. \A f \in [Counters -> 0..MaxSubmits] : f \in [Counters -> Nat]
  BY <1>1
<1>3. Books
  BY <1>1, <1>2 DEF TypeOK, Books
<1> QED
  BY <1>3 DEF TypeOK, CountersInv, Accounted, Account, Sheet, Flying

\* What a step leaves of the other writers' books.
Others(w) == \A v \in Writer \ {w} : queue'[v] = queue[v] /\ stats'[v] = stats[v]
Kept(w) == Books' /\ Others(w) /\ Account(w)' /\ submits <= submits' /\ submits' <= MaxSubmits

LEMMA AccountSteps ==
  ASSUME Books, TypeOK, TaskInv, NEW w \in Writer, Account(w), WriterNext(w)
  PROVE  Kept(w)
<1> DEFINE s == stats[w]
           t == stats'[w]
           n == Len(queue[w])
<1>0. /\ thread \in [Writer -> Parts] /\ submits \in Nat /\ submits <= MaxSubmits
      /\ queue[w] \in Seq(Submitted) /\ n \in Nat /\ Flying(w) \in {0, 1}
      /\ s \in [Counters -> Nat] /\ Sheet(s, n, Flying(w), submits) /\ n <= Capacity
      /\ thread[w] = "stopped" => queue[w] = <<>>
  BY Bounds DEF TypeOK, Parts, Books, Account, Flying
<1>1. {"queued", "persisted", "duplicate", "failed", "dropped_queue_full",
       "dropped_shutdown", "rejected_shutdown", "drain_timeouts"} = Counters
  BY DEF Counters
<1>2. ASSUME UNCHANGED <<queue, stats, submits>>, thread'[w] = "stopped" => queue[w] = <<>>,
             Flying(w)' = Flying(w)
      PROVE  Kept(w)
  BY <1>0, <1>2 DEF Books, Others, Account, Kept
<1>3. ASSUME NEW x \in Submitted, Submit(w, x)
      PROVE  Kept(w)
  <2>1. submits' = submits + 1 /\ submits + 1 <= MaxSubmits /\ thread' = thread /\ submits + 1 \in Nat
    BY <1>0, <1>3, Bounds DEF Submit
  <2>2. Flying(w)' = Flying(w)
    BY <2>1 DEF Flying, InFlight
  <2>3. ASSUME NEW c \in {"rejected_shutdown", "dropped_queue_full"}, Count(w, c), queue' = queue
        PROVE  Kept(w)
    <3>1. /\ stats' \in [Writer -> [Counters -> Nat]]
          /\ \A v \in Writer \ {w} : stats'[v] = stats[v]
          /\ t[c] = s[c] + 1 /\ Same(s, t, {c})
      BY <1>1, <2>3, Counting DEF Same
    <3>2. Sheet(t, n, Flying(w), submits + 1)
      BY <1>0, <2>3, <3>1, Sheets
    <3>3. Books' /\ Others(w)
      BY <2>1, <2>3, <3>1 DEF Books, Others
    <3> QED
      BY <1>0, <2>1, <2>2, <2>3, <3>2, <3>3 DEF Account, Kept
  <2>4. ASSUME ~stopping[w], n < Capacity, queue' = [queue EXCEPT ![w] = Append(@, x)], Count(w, "queued")
        PROVE  Kept(w)
    <3>1. /\ stats' \in [Writer -> [Counters -> Nat]]
          /\ \A v \in Writer \ {w} : stats'[v] = stats[v]
          /\ t.queued = s.queued + 1 /\ Same(s, t, {"queued"})
      BY <1>1, <2>4, Counting DEF Same
    <3>2. Append(queue[w], x) \in Seq(Submitted) /\ Len(Append(queue[w], x)) = n + 1
      BY <1>0
    <3>3. /\ queue' \in [Writer -> Seq(Submitted)] /\ queue'[w] = Append(queue[w], x)
          /\ \A v \in Writer \ {w} : queue'[v] = queue[v]
      BY <2>4, <3>2 DEF Books
    <3>4. thread[w] # "stopped"
      BY <2>4 DEF TaskInv
    <3>5. Books' /\ Others(w)
      BY <2>1, <3>1, <3>3 DEF Books, Others
    <3>6. Len(queue'[w]) = n + 1 /\ n + 1 <= Capacity
      BY <1>0, <2>4, <3>2, <3>3, Bounds
    <3>7. Sheet(t, n + 1, Flying(w), submits + 1)
      BY <1>0, <3>1, Sheets
    <3> QED
      BY <1>0, <2>1, <2>2, <3>4, <3>5, <3>6, <3>7 DEF Account, Kept
  <2> QED
    BY <1>0, <1>3, <2>1, <2>3, <2>4 DEF Submit, Admits
<1>4. CASE Claim(w)
  <2>1. /\ thread'[w] = "claimed" /\ thread[w] = "waiting" /\ UNCHANGED <<stats, submits>>
        /\ queue' = [queue EXCEPT ![w] = Tail(@)] /\ queue[w] # <<>>
    BY <1>0, <1>4 DEF Claim
  <2>2. Tail(queue[w]) \in Seq(Submitted) /\ Len(Tail(queue[w])) = n - 1 /\ n >= 1
    BY <1>0, <2>1
  <2>3. queue' \in [Writer -> Seq(Submitted)] /\ Len(queue'[w]) = n - 1
    BY <2>1, <2>2 DEF Books
  <2>4. Books' /\ Others(w)
    BY <2>1, <2>3 DEF Books, Others
  <2>5. Flying(w)' = 1 /\ Flying(w) = 0
    BY <2>1 DEF Flying, InFlight
  <2>6. Sheet(s, n - 1, 1, submits)
    BY <1>0, <2>2, <2>5, Sheets
  <2>7. n - 1 <= Capacity
    BY <1>0, Bounds
  <2> QED
    BY <1>0, <2>1, <2>3, <2>4, <2>5, <2>6, <2>7 DEF Account, Kept
<1>5. CASE Stop(w)
  BY <1>0, <1>2, <1>5 DEF Stop, InFlight, Flying
<1>6. CASE Lock(w)
  BY <1>0, <1>2, <1>6 DEF Lock, InFlight, Flying
<1>7. CASE Record(w)
  <2>1. thread' = [thread EXCEPT ![w] = "recorded"] /\ thread[w] = "locked" /\ UNCHANGED <<queue, stats, submits>>
    BY <1>7 DEF Record
  <2> QED
    BY <1>0, <1>2, <2>1 DEF InFlight, Flying
<1>8. CASE AddOutcomes(w)
  <2>1. thread' = [thread EXCEPT ![w] = "written"] /\ thread[w] = "recorded" /\ UNCHANGED <<queue, stats, submits>>
    BY <1>8 DEF AddOutcomes
  <2> QED
    BY <1>0, <1>2, <2>1 DEF InFlight, Flying
<1>9. ASSUME thread'[w] = "waiting", UNCHANGED <<queue, submits>>, stats' \in [Writer -> [Counters -> Nat]],
             \A v \in Writer \ {w} : stats'[v] = stats[v], Sheet(t, n, 0, submits)
      PROVE  Kept(w)
  <2>1. Flying(w)' = 0
    BY <1>9 DEF Flying, InFlight
  <2>2. Books' /\ Others(w)
    BY <1>0, <1>9 DEF Books, Others
  <2> QED
    BY <1>0, <1>9, <2>1, <2>2 DEF Account, Kept
<1>10. CASE Commit(w)
  <2>1. Flying(w) = 1 /\ thread'[w] = "waiting" /\ UNCHANGED <<queue, submits>>
    BY <1>0, <1>10 DEF Commit, EndTask, InFlight, Flying
  <2>2. /\ stats' \in [Writer -> [Counters -> Nat]]
        /\ \A v \in Writer \ {w} : stats'[v] = stats[v]
        /\ t.persisted = s.persisted + 1 /\ t.duplicate \in {s.duplicate, s.duplicate + 1}
        /\ Same(s, t, {"persisted", "duplicate"})
    BY <1>10, Committing DEF Same
  <2>3. Sheet(t, n, 0, submits)
    BY <1>0, <2>1, <2>2, Sheets
  <2> QED
    BY <1>9, <2>1, <2>2, <2>3
<1>11. CASE Fail(w)
  <2>1. Flying(w) = 1 /\ thread'[w] = "waiting" /\ UNCHANGED <<queue, submits>> /\ Count(w, "failed")
    BY <1>0, <1>11 DEF Fail, EndTask, Flying
  <2>2. /\ stats' \in [Writer -> [Counters -> Nat]]
        /\ \A v \in Writer \ {w} : stats'[v] = stats[v]
        /\ t.failed = s.failed + 1 /\ Same(s, t, {"failed"})
    BY <1>1, <2>1, Counting DEF Same
  <2>3. Sheet(t, n, 0, submits)
    BY <1>0, <2>1, <2>2, Sheets
  <2> QED
    BY <1>9, <2>1, <2>2, <2>3
<1>12. ASSUME NEW drops \in BOOLEAN, Discard(w, drops), UNCHANGED <<thread, submits>>
       PROVE  Kept(w)
  <2>1. /\ queue' \in [Writer -> Seq(Submitted)] /\ stats' \in [Writer -> [Counters -> Nat]]
        /\ \A v \in Writer \ {w} : queue'[v] = queue[v] /\ stats'[v] = stats[v]
        /\ queue'[w] = <<>>
        /\ t.dropped_shutdown = s.dropped_shutdown + n
        /\ t.drain_timeouts \in {1, s.drain_timeouts}
        /\ Same(s, t, {"dropped_shutdown", "drain_timeouts"})
    BY <1>12, Discarding DEF Same
  <2>2. Flying(w)' = Flying(w)
    BY <1>12 DEF Flying, InFlight
  <2>3. Len(queue'[w]) = 0
    BY <2>1, EmptyQueue
  <2>4. Books' /\ Others(w)
    BY <1>0, <1>12, <2>1 DEF Books, Others
  <2>5. Sheet(t, 0, Flying(w), submits)
    BY <1>0, <2>1, Sheets
  <2> QED
    BY <1>0, <1>12, <2>1, <2>2, <2>3, <2>4, <2>5, Bounds DEF Account, Kept
<1>13. ASSUME NEW drain \in BOOLEAN, Shutdown(w, drain)
       PROVE  Kept(w)
  <2>1. UNCHANGED <<thread, submits>> /\ (UNCHANGED <<queue, stats>> \/ Discard(w, FALSE))
    BY <1>13 DEF Shutdown
  <2> QED
    BY <1>0, <1>2, <1>12, <2>1 DEF InFlight, Flying
<1>14. CASE Return(w)
  <2>1. UNCHANGED <<thread, submits>> /\ (UNCHANGED <<queue, stats>> \/ Discard(w, TRUE))
    BY <1>14 DEF Return, Returned
  <2> QED
    BY <1>0, <1>2, <1>12, <2>1 DEF InFlight, Flying
<1>15. CASE Restart(w)
  <2>1. /\ thread'[w] = "waiting" /\ submits' = submits
        /\ queue' = [queue EXCEPT ![w] = <<>>] /\ stats' = [stats EXCEPT ![w] = Zero]
    BY <1>0, <1>15 DEF Restart, EndTask
  <2>2. Zero \in [Counters -> Nat] /\ Sheet(Zero, 0, 0, submits)
    BY <1>0 DEF Zero, Sheet, Counters
  <2>3. /\ queue' \in [Writer -> Seq(Submitted)] /\ stats' \in [Writer -> [Counters -> Nat]]
        /\ queue'[w] = <<>> /\ stats'[w] = Zero /\ Others(w)
    BY <2>1, <2>2, EmptyQueue DEF Books, Others
  <2>4. Books'
    BY <1>0, <2>1, <2>3 DEF Books
  <2>5. Flying(w)' = 0 /\ Len(queue'[w]) = 0
    BY <2>1, <2>3, EmptyQueue DEF InFlight, Flying
  <2> QED
    BY <1>0, <2>1, <2>2, <2>3, <2>4, <2>5, Bounds DEF Account, Kept
<1> QED
  BY <1>3, <1>4, <1>5, <1>6, <1>7, <1>8, <1>10, <1>11, <1>13, <1>14, <1>15 DEF WriterNext

LEMMA AccountStep ==
  ASSUME TypeOK, TaskInv, WritesInv, CountersInv, Accounted, [Next]_vars
  PROVE  Books' /\ (\A w \in Writer : Account(w)') /\ submits' <= MaxSubmits
<1>1. Books /\ \A w \in Writer : Account(w)
  BY Accounts
<1>2. submits \in Nat /\ submits <= MaxSubmits
  BY Bounds DEF TypeOK
<1>3. ASSUME NEW w \in Writer, WriterNext(w)
      PROVE  Books' /\ (\A v \in Writer : Account(v)') /\ submits' <= MaxSubmits
  <2>1. Kept(w)
    BY <1>1, <1>3, AccountSteps
  <2>2. Alone(w)
    BY <1>3, TransactionSteps
  <2>3. ASSUME NEW v \in Writer, v # w
        PROVE  Account(v)'
    <3>1. /\ queue'[v] = queue[v] /\ stats'[v] = stats[v] /\ thread'[v] = thread[v]
          /\ submits <= submits' /\ submits' \in Nat
      BY <2>1, <2>2, <2>3 DEF Kept, Others, Alone, Books
    <3>2. Flying(v)' = Flying(v)
      BY <3>1 DEF Flying, InFlight
    <3>3. Account(v) /\ stats[v] \in [Counters -> Nat]
      BY <1>1 DEF Books
    <3>4. stats[v].queued \in Nat /\ stats[v].dropped_queue_full \in Nat /\ stats[v].rejected_shutdown \in Nat
      BY <3>3 DEF Counters
    <3>5. Sheet(stats[v], Len(queue[v]), Flying(v), submits')
      BY <1>2, <3>1, <3>3, <3>4 DEF Account, Sheet
    <3> QED
      BY <3>1, <3>2, <3>3, <3>5 DEF Account
  <2> QED
    BY <2>1, <2>3 DEF Kept
<1>4. CASE UNCHANGED vars
  BY <1>1, <1>2, <1>4 DEF vars, Books, Account, Flying, InFlight
<1> QED
  BY <1>3, <1>4, Steps

\* No counter exceeds what was submitted altogether.
LEMMA CountersBounded ==
  ASSUME NEW s \in [Counters -> Nat], NEW n \in Nat, NEW f \in {0, 1}, NEW subs \in Nat,
         Sheet(s, n, f, subs), subs <= MaxSubmits
  PROVE  s \in [Counters -> 0..MaxSubmits]
<1>1. /\ s.queued \in Nat /\ s.persisted \in Nat /\ s.duplicate \in Nat /\ s.failed \in Nat
      /\ s.dropped_queue_full \in Nat /\ s.dropped_shutdown \in Nat /\ s.rejected_shutdown \in Nat
      /\ s.drain_timeouts \in Nat
  BY DEF Counters
<1>2. /\ s.queued <= MaxSubmits /\ s.persisted <= MaxSubmits /\ s.failed <= MaxSubmits
      /\ s.dropped_shutdown <= MaxSubmits /\ s.drain_timeouts <= MaxSubmits
      /\ s.dropped_queue_full <= MaxSubmits /\ s.rejected_shutdown <= MaxSubmits
  BY <1>1, Bounds DEF Sheet
<1>3. s.duplicate <= MaxSubmits
  BY <1>1, <1>2, Bounds DEF Sheet
<1>4. \A c \in Counters : s[c] \in 0..MaxSubmits
  BY <1>1, <1>2, <1>3, Bounds DEF Counters
<1> QED
  BY <1>4

LEMMA Balanced ==
  ASSUME Books', \A w \in Writer : Account(w)', submits' <= MaxSubmits
  PROVE  /\ CountersInv' /\ Accounted'
         /\ stats' \in [Writer -> [Counters -> 0..MaxSubmits]]
         /\ \A w \in Writer : Len(queue'[w]) <= Capacity /\ stats'[w].drain_timeouts <= 1
<1>1. ASSUME NEW w \in Writer
      PROVE  stats'[w] \in [Counters -> 0..MaxSubmits]
  <2>1. stats'[w] \in [Counters -> Nat] /\ Len(queue'[w]) \in Nat /\ submits' \in Nat
    BY DEF Books
  <2>2. Sheet(stats'[w], Len(queue'[w]), Flying(w)', submits') /\ Flying(w)' \in {0, 1}
    BY DEF Account, Flying
  <2> QED
    BY <2>1, <2>2, CountersBounded
<1>2. stats' \in [Writer -> [Counters -> 0..MaxSubmits]]
  BY <1>1 DEF Books
<1>3. CountersInv' /\ Accounted'
  BY DEF CountersInv, Accounted, Account, Sheet, Flying
<1> QED
  BY <1>2, <1>3 DEF Account, Sheet

LEMMA CallerStep ==
  ASSUME TypeOK, [Next]_vars
  PROVE  caller' \in [Writer -> {"out", "drain", "discard"}]
<1>1. caller \in [Writer -> {"out", "drain", "discard"}]
  BY DEF TypeOK
<1>2. ASSUME NEW w \in Writer, WriterNext(w)
      PROVE  caller' = caller \/ \E c \in {"out", "drain", "discard"} : caller' = [caller EXCEPT ![w] = c]
  BY <1>2 DEF WriterNext, Submit, Claim, Stop, Lock, Record, AddOutcomes, Commit, Fail, Shutdown, Return, Restart
<1>3. CASE UNCHANGED vars
  BY <1>1, <1>3 DEF vars
<1> QED
  BY <1>1, <1>2, <1>3, Steps

LEMMA WorkerTypeStep ==
  ASSUME TypeOK, TaskInv, WritesInv, [Next]_vars
  PROVE  /\ rowlock' \in Writer \cup {None}
         /\ thread' \in [Writer -> Parts] /\ task' \in [Writer -> Submitted \cup {None}]
         /\ writes' \in [Writer -> Store] /\ stopping' \in [Writer -> BOOLEAN]
<1>1. /\ rowlock \in Writer \cup {None}
      /\ thread \in [Writer -> Parts] /\ task \in [Writer -> Submitted \cup {None}]
      /\ writes \in [Writer -> Store] /\ stopping \in [Writer -> BOOLEAN]
  BY DEF TypeOK, Parts
<1>2. ASSUME NEW w \in Writer, WriterNext(w)
      PROVE  Alone(w) /\ rowlock' \in {rowlock, w, None}
  BY <1>2, TransactionSteps DEF Advances, Free, shared
<1>3. CASE UNCHANGED vars
  BY <1>1, <1>3 DEF vars, shared
<1> QED
  BY <1>1, <1>2, <1>3, Steps DEF Alone

LEMMA IInvInit == Init => IInv
<1> SUFFICES ASSUME Init
             PROVE  IInv
  OBVIOUS
<1>1. EmptyStore \in Store /\ NoWrites \in Store /\ EmptyStore = [versions |-> {}, outcomes |-> {}, current |-> None]
  BY DEF EmptyStore, NoWrites, Store
<1>2. Zero \in [Counters -> 0..MaxSubmits] /\ \A c \in Counters : Zero[c] = 0
  BY Bounds DEF Zero
<1>3. /\ Zero.queued = 0 /\ Zero.persisted = 0 /\ Zero.duplicate = 0 /\ Zero.failed = 0
      /\ Zero.dropped_queue_full = 0 /\ Zero.dropped_shutdown = 0 /\ Zero.rejected_shutdown = 0
      /\ Zero.drain_timeouts = 0
  BY <1>2 DEF Counters
<1>4. TypeOK
  <2>1. \A w \in Writer : Len(queue[w]) = 0 /\ stats[w] = Zero
    BY DEF Init
  <2>2. queue \in [Writer -> Seq(Submitted)] /\ stats \in [Writer -> [Counters -> 0..MaxSubmits]]
    BY <1>2, EmptyQueue DEF Init
  <2> QED
    BY <1>1, <1>3, <2>1, <2>2, Bounds DEF Init, TypeOK
<1>5. RowInv /\ TaskInv /\ WritesInv
  BY WriterAssumption DEF Init, RowInv, TaskInv, WritesInv, InFlight, Holding
<1>6. CountersInv /\ Accounted
  <2>1. \A w \in Writer : stats[w] = Zero /\ Len(queue[w]) = 0 /\ ~InFlight(w) /\ queue[w] = <<>> /\ submits = 0
    BY EmptyQueue DEF Init, InFlight
  <2> QED
    BY <1>3, <2>1 DEF CountersInv, Accounted
<1>7. WholeSnapshots /\ PersistedIsStored
  BY <1>1 DEF Init, WholeSnapshots, PersistedIsStored
<1> QED
  BY <1>4, <1>5, <1>6, <1>7 DEF IInv

LEMMA IInvStep == IInv /\ [Next]_vars => IInv'
<1> SUFFICES ASSUME IInv, [Next]_vars
             PROVE  IInv'
  OBVIOUS
<1> USE DEF IInv
<1>1. RowInv' /\ TaskInv' /\ WritesInv'
  BY RowStep, TaskStep, WritesStep
<1>2. store' \in Store /\ acked' \subseteq Submitted /\ WholeSnapshots' /\ PersistedIsStored'
  BY StoreStep
<1>3. Books' /\ (\A w \in Writer : Account(w)') /\ submits' <= MaxSubmits
  BY AccountStep
<1>4. /\ CountersInv' /\ Accounted'
      /\ stats' \in [Writer -> [Counters -> 0..MaxSubmits]]
      /\ \A w \in Writer : Len(queue'[w]) <= Capacity /\ stats'[w].drain_timeouts <= 1
  BY <1>3, Balanced
<1>5. caller' \in [Writer -> {"out", "drain", "discard"}]
  BY CallerStep
<1>6. /\ rowlock' \in Writer \cup {None}
      /\ thread' \in [Writer -> Parts] /\ task' \in [Writer -> Submitted \cup {None}]
      /\ writes' \in [Writer -> Store] /\ stopping' \in [Writer -> BOOLEAN]
  BY WorkerTypeStep
<1>7. queue' \in [Writer -> Seq(Submitted)] /\ submits' \in 0..MaxSubmits
  BY <1>3, Bounds DEF Books
<1>8. TypeOK'
  BY <1>2, <1>4, <1>5, <1>6, <1>7 DEF TypeOK, Parts
<1> QED
  BY <1>1, <1>2, <1>4, <1>8

(* The inductive invariant: what every transaction has gathered and what   *)
(* every counter stands for.                                               *)
THEOREM Invariance == Spec => []IInv
<1>1. IInv /\ UNCHANGED vars => IInv'
  BY IInvStep
<1> QED
  BY IInvInit, IInvStep, <1>1, PTL DEF Spec

-----------------------------------------------------------------------------
(* Whatever the interleaving of writers' transactions, their failures and  *)
(* restarts, committed snapshots are whole and a snapshot counted as       *)
(* persisted stays in the store: only the holder of the event row commits, *)
(* and everything its transaction gathered.                                *)
THEOREM StoreIsWhole == Spec => []StoreWhole
<1>1. IInv => StoreWhole
  BY DEF IInv, StoreWhole
<1> QED
  BY Invariance, <1>1, PTL

(* Every accepted snapshot is in exactly one place, at any moment of a     *)
(* shutdown, and none is left with a writer whose thread has ended.        *)
THEOREM SnapshotsAreAccounted == Spec => []Accounted
<1>1. IInv => Accounted
  BY DEF IInv
<1> QED
  BY Invariance, <1>1, PTL

\* Only a commit counts a snapshot as persisted, and it counts a duplicate when nothing changed.
LEMMA DuplicatesCounted ==
  ASSUME IInv, NEW w \in Writer, WriterNext(w), NEW v \in Writer, stats'[v].persisted > stats[v].persisted
  PROVE  stats'[v].duplicate > stats[v].duplicate <=> store' = store
<1> USE DEF IInv
<1>1. Books /\ \A u \in Writer : Account(u)
  BY Accounts
<1>2. stats[v].persisted \in Nat /\ stats[v].duplicate \in Nat
  BY <1>1 DEF Books, Counters
<1>3. Kept(w)
  BY <1>1, AccountSteps
<1>4. v = w
  BY <1>2, <1>3 DEF Kept, Others
<1>5. CASE Commit(w)
  <2>1. stats'[w].duplicate = IF Inserted(writes[w]) THEN stats[w].duplicate ELSE stats[w].duplicate + 1
    BY <1>1, <1>5, Committing
  <2>2. thread[w] = "written" /\ store' = Committed(store, writes[w])
    BY <1>5 DEF Commit
  <2>3. Inserted(writes[w]) <=> store' # store
    BY <2>2, CommitNow
  <2> QED
    BY <1>2, <1>4, <2>1, <2>3
<1>6. ASSUME NEW c \in Counters \ {"persisted"}, Count(w, c)
      PROVE  FALSE
  <2>1. "persisted" \in Counters
    BY DEF Counters
  <2>2. stats'[w].persisted = stats[w].persisted
    BY <1>1, <1>6, <2>1, Counting
  <2> QED
    BY <1>2, <1>4, <2>2
<1>7. ASSUME NEW drops \in BOOLEAN, Discard(w, drops)
      PROVE  FALSE
  <2>1. "persisted" \in Counters \ {"dropped_shutdown", "drain_timeouts"}
    BY DEF Counters
  <2>2. stats'[w].persisted = stats[w].persisted
    BY <1>1, <1>7, <2>1, Discarding
  <2> QED
    BY <1>2, <1>4, <2>2
<1>8. CASE Restart(w)
  <2>1. stats'[w].persisted = 0
    BY <1>1, <1>8 DEF Restart, Books, Zero, Counters
  <2> QED
    BY <1>2, <1>4, <2>1
<1>9. CASE stats' = stats
  BY <1>2, <1>9
<1>10. /\ "queued" \in Counters \ {"persisted"} /\ "failed" \in Counters \ {"persisted"}
       /\ "rejected_shutdown" \in Counters \ {"persisted"} /\ "dropped_queue_full" \in Counters \ {"persisted"}
  BY DEF Counters
<1>11. \/ Commit(w) \/ Restart(w) \/ stats' = stats
       \/ \E c \in Counters \ {"persisted"} : Count(w, c)
       \/ \E drops \in BOOLEAN : Discard(w, drops)
  BY <1>10 DEF WriterNext, Submit, Claim, Stop, Lock, Record, AddOutcomes, Fail, Shutdown, Return, Returned
<1> QED
  BY <1>5, <1>6, <1>7, <1>8, <1>9, <1>11

(* The history of an event only grows and its pointer moves only to a      *)
(* materially different, later published version, and a snapshot is        *)
(* counted as a duplicate exactly when its transaction added no row.       *)
THEOREM HistoryMovesForward == Spec => HistoryForward
<1>1. IInv /\ [Next]_vars =>
          [\A w \in Writer : stats'[w].persisted > stats[w].persisted =>
               (stats'[w].duplicate > stats[w].duplicate <=> store' = store)]_vars
  <2> SUFFICES ASSUME IInv, [Next]_vars, ~UNCHANGED vars
               PROVE  \A w \in Writer : stats'[w].persisted > stats[w].persisted =>
                          (stats'[w].duplicate > stats[w].duplicate <=> store' = store)
    OBVIOUS
  <2> QED
    BY DuplicatesCounted, Steps
<1>2. IInv /\ [Next]_vars =>
          [store.current # None /\ store'.current # store.current =>
               Verdict(store.current, store'.current) = "newer_material"]_vars
  <2> SUFFICES ASSUME IInv, [Next]_vars, ~UNCHANGED vars
               PROVE  store.current # None /\ store'.current # store.current =>
                          Verdict(store.current, store'.current) = "newer_material"
    OBVIOUS
  <2> QED
    BY StoreSteps, Steps DEF IInv
<1> QED
  BY Invariance, <1>1, <1>2, PTL DEF HistoryForward, DuplicateTruthful, PointerForward, Spec
=============================================================================
