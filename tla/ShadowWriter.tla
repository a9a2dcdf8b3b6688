---------------------------- MODULE ShadowWriter ----------------------------
(***************************************************************************)
(* Best-effort shadow persistence: in every collector process a bounded    *)
(* queue and one worker thread that writes snapshots to the event store,   *)
(* one transaction each.  A step is one critical section of the writer's   *)
(* condition, or one database statement of the worker.  Several processes  *)
(* write the same event; the row lock is taken by the identity insert and  *)
(* SELECT FOR UPDATE and held to the end of the transaction.               *)
(***************************************************************************)
EXTENDS EventRepository, Sequences

CONSTANTS
    Writer,      \* collector processes, each with one ShadowWriter
    Submitted,   \* the snapshots explored
    Capacity,    \* the queue's capacity
    MaxSubmits   \* bound: submissions altogether

ASSUME CapacityAssumption == Capacity \in Nat \ {0} /\ MaxSubmits \in Nat \ {0}
ASSUME SubmittedAssumption == Submitted \subseteq Snapshot
ASSUME WriterAssumption == None \notin Writer

VARIABLES
    store,     \* committed rows
    rowlock,   \* the writer whose transaction holds the event row
    queue,     \* [Writer -> pending snapshots]
    thread,    \* [Writer -> where the worker thread is]
    task,      \* [Writer -> the claimed snapshot]
    writes,    \* [Writer -> uncommitted rows of its transaction]
    stopping,  \* [Writer -> shutdown has begun]
    caller,    \* [Writer -> "out", or "drain" / "discard" while shutdown() waits for the thread]
    stats,     \* [Writer -> counters]
    acked,     \* ghost: snapshots some writer counted as persisted
    submits    \* bound: submissions so far

shared == <<store, rowlock>>
vars == <<store, rowlock, queue, thread, task, writes, stopping, caller, stats, acked, submits>>

Counters == {"queued", "persisted", "duplicate", "failed", "dropped_queue_full",
             "dropped_shutdown", "rejected_shutdown", "drain_timeouts"}
Zero == [c \in Counters |-> 0]
Count(w, c) == stats' = [stats EXCEPT ![w][c] = @ + 1]
InFlight(w) == thread[w] \in {"claimed", "locked", "recorded", "written"}
Free(w) == IF rowlock = w THEN None ELSE rowlock

Init == /\ store = EmptyStore /\ rowlock = None
        /\ queue = [w \in Writer |-> <<>>]
        /\ thread = [w \in Writer |-> "waiting"]
        /\ task = [w \in Writer |-> None]
        /\ writes = [w \in Writer |-> NoWrites]
        /\ stopping = [w \in Writer |-> FALSE]
        /\ caller = [w \in Writer |-> "out"]
        /\ stats = [w \in Writer |-> Zero]
        /\ acked = {} /\ submits = 0
-----------------------------------------------------------------------------
\* Bug: the stop flag is looked at before the lock is taken.
Admits_Stopping(w) == TRUE
Admits(w) == ~stopping[w]
Submit(w, s) ==
    /\ submits < MaxSubmits /\ submits' = submits + 1
    /\ \/ /\ ~Admits(w)
          /\ Count(w, "rejected_shutdown")
          /\ UNCHANGED queue
       \/ /\ Admits(w) /\ Len(queue[w]) >= Capacity
          /\ Count(w, "dropped_queue_full")
          /\ UNCHANGED queue
       \/ /\ Admits(w) /\ Len(queue[w]) < Capacity
          /\ queue' = [queue EXCEPT ![w] = Append(@, s)]
          /\ Count(w, "queued")
    /\ UNCHANGED <<shared, thread, task, writes, stopping, caller, acked>>

\* The worker takes the oldest snapshot; it goes on taking them while it is stopping.
Claim(w) ==
    /\ thread[w] = "waiting" /\ queue[w] # <<>>
    /\ task' = [task EXCEPT ![w] = Head(queue[w])]
    /\ queue' = [queue EXCEPT ![w] = Tail(@)]
    /\ thread' = [thread EXCEPT ![w] = "claimed"]
    /\ UNCHANGED <<shared, writes, stopping, caller, stats, acked, submits>>

Stop(w) ==
    /\ thread[w] = "waiting" /\ queue[w] = <<>> /\ stopping[w]
    /\ thread' = [thread EXCEPT ![w] = "stopped"]
    /\ UNCHANGED <<shared, queue, task, writes, stopping, caller, stats, acked, submits>>

\* Bug: the event row is read without FOR UPDATE.
LockRow_NoWait(w) == UNCHANGED rowlock
\* The identity insert and SELECT FOR UPDATE wait for the transaction that holds the row.
LockRow(w) == rowlock = None /\ rowlock' = w
Lock(w) ==
    /\ thread[w] = "claimed"
    /\ LockRow(w)
    /\ thread' = [thread EXCEPT ![w] = "locked"]
    /\ UNCHANGED <<store, queue, task, writes, stopping, caller, stats, acked, submits>>

\* record(): the version and the pointer, from what is committed now.
Record(w) ==
    /\ thread[w] = "locked"
    /\ writes' = [writes EXCEPT ![w] = [Writes(store, task[w]) EXCEPT !.outcomes = {}]]
    /\ thread' = [thread EXCEPT ![w] = "recorded"]
    /\ UNCHANGED <<shared, queue, task, stopping, caller, stats, acked, submits>>

\* add_provenance() and append_history(): inserted unless they are there already.
AddOutcomes(w) ==
    /\ thread[w] = "recorded"
    /\ writes' = [writes EXCEPT ![w].outcomes = Writes(store, task[w]).outcomes]
    /\ thread' = [thread EXCEPT ![w] = "written"]
    /\ UNCHANGED <<shared, queue, task, stopping, caller, stats, acked, submits>>

EndTask(w) == /\ thread' = [thread EXCEPT ![w] = "waiting"]
              /\ task' = [task EXCEPT ![w] = None]
              /\ writes' = [writes EXCEPT ![w] = NoWrites]
              /\ rowlock' = Free(w)

Commit(w) ==
    /\ thread[w] = "written" /\ Committable(store, writes[w])
    /\ store' = Committed(store, writes[w])
    /\ EndTask(w)
    /\ acked' = acked \cup {task[w]}
    /\ stats' = [stats EXCEPT ![w].persisted = @ + 1,
                              ![w].duplicate = IF Inserted(writes[w]) THEN @ ELSE @ + 1]
    /\ UNCHANGED <<queue, stopping, caller, submits>>

\* Bug: what was flushed before the failure stays.
AfterFailure_Flushed(w) == {store, Committed(store, writes[w])}
\* A failed transaction leaves nothing, unless only the answer to its commit was lost.
AfterFailure(w) == {store} \cup (IF thread[w] = "written" THEN {Committed(store, writes[w])} ELSE {})
Fail(w) ==
    /\ InFlight(w)
    /\ store' \in AfterFailure(w)
    /\ EndTask(w)
    /\ Count(w, "failed")
    /\ UNCHANGED <<queue, stopping, caller, acked, submits>>

\* Pending snapshots are dropped and counted; a claimed one is not among them.
Discard(w, drops) ==
    /\ queue' = [queue EXCEPT ![w] = <<>>]
    /\ stats' = [stats EXCEPT ![w].dropped_shutdown = @ + Len(queue[w]),
                              ![w].drain_timeouts = IF drops THEN 1 ELSE @]

Shutdown(w, drain) ==
    /\ caller[w] = "out"
    /\ caller' = [caller EXCEPT ![w] = IF drain THEN "drain" ELSE "discard"]
    /\ stopping' = [stopping EXCEPT ![w] = TRUE]
    /\ IF drain THEN UNCHANGED <<queue, stats>> ELSE Discard(w, FALSE)
    /\ UNCHANGED <<shared, thread, task, writes, acked, submits>>

\* join() ends with the thread, or at the deadline; then a draining caller drops what is left.
Returned(w) == IF thread[w] # "stopped" /\ caller[w] = "drain" THEN Discard(w, TRUE) ELSE UNCHANGED <<queue, stats>>
Return(w) ==
    /\ caller[w] # "out"
    /\ Returned(w)
    /\ caller' = [caller EXCEPT ![w] = "out"]
    /\ UNCHANGED <<shared, thread, task, writes, stopping, acked, submits>>

\* The process dies and a new one starts: its queue and its counters are gone.
Restart(w) ==
    /\ store' \in AfterFailure(w)
    /\ EndTask(w)
    /\ queue' = [queue EXCEPT ![w] = <<>>]
    /\ stopping' = [stopping EXCEPT ![w] = FALSE]
    /\ caller' = [caller EXCEPT ![w] = "out"]
    /\ stats' = [stats EXCEPT ![w] = Zero]
    /\ UNCHANGED <<acked, submits>>

Work(w) == Claim(w) \/ Stop(w) \/ Lock(w) \/ Record(w) \/ AddOutcomes(w) \/ Commit(w) \/ Fail(w)

Next == \E w \in Writer :
            \/ \E s \in Submitted : Submit(w, s)
            \/ Work(w)
            \/ \E drain \in BOOLEAN : Shutdown(w, drain)
            \/ Return(w)
            \/ Restart(w)

Spec == Init /\ [][Next]_vars
-----------------------------------------------------------------------------
\* Every variable keeps to its type; a writer reports its drain deadline once.
TypeOK ==
    /\ store \in Store
    /\ rowlock \in Writer \cup {None}
    /\ queue \in [Writer -> Seq(Submitted)] /\ \A w \in Writer : Len(queue[w]) <= Capacity
    /\ thread \in [Writer -> {"waiting", "claimed", "locked", "recorded", "written", "stopped"}]
    /\ task \in [Writer -> Submitted \cup {None}]
    /\ writes \in [Writer -> Store]
    /\ stopping \in [Writer -> BOOLEAN]
    /\ caller \in [Writer -> {"out", "drain", "discard"}]
    /\ stats \in [Writer -> [Counters -> 0..MaxSubmits]] /\ \A w \in Writer : stats[w].drain_timeouts <= 1
    /\ acked \subseteq Submitted /\ submits \in 0..MaxSubmits

\* At any moment, also in the middle of a shutdown, every snapshot a writer accepted is in
\* exactly one place: persisted, failed, dropped, pending or in flight; and none is left
\* with a writer whose thread has ended.
Accounted == \A w \in Writer :
    /\ thread[w] = "stopped" => queue[w] = <<>>
    /\ stats[w].queued = stats[w].persisted + stats[w].failed + stats[w].dropped_shutdown
                           + Len(queue[w]) + (IF InFlight(w) THEN 1 ELSE 0)

\* What a writer counted as persisted is in the store with its outcomes and stays there,
\* whatever other writers do and however their transactions fail.
PersistedIsStored == \A s \in acked : s.version \in store.versions /\ <<s.version, s.outcome>> \in store.outcomes

\* A transaction is visible whole: an event with versions has a current one among them, and
\* no version is there without an outcome or an outcome without its version.
WholeSnapshots ==
    /\ (store.current = None) = (store.versions = {})
    /\ store.current \in store.versions \cup {None}
    /\ store.versions = {row[1] : row \in store.outcomes}

\* No interleaving of writers, failed transaction or restart leaves half a snapshot or loses one
\* that was counted as persisted.
StoreWhole == TypeOK /\ WholeSnapshots /\ PersistedIsStored

\* A snapshot is counted as a duplicate exactly when its transaction added no row, however
\* many writers bring the same content.
DuplicateTruthful == [][\A w \in Writer : stats'[w].persisted > stats[w].persisted =>
                            (stats'[w].duplicate > stats[w].duplicate <=> store' = store)]_vars

\* The current version is replaced only by a materially different one of the same release
\* that was published later, also when writers race with versions out of order.
PointerForward == [][store.current # None /\ store'.current # store.current =>
                        Verdict(store.current, store'.current) = "newer_material"]_vars

\* The history of an event grows and moves forward only, and the counters say when.
HistoryForward == DuplicateTruthful /\ PointerForward
=============================================================================
