------------------------------- MODULE Scheduler -------------------------------
(***************************************************************************)
(* The collector scheduler (orchestrator/scheduler.py) and its child runs  *)
(* (orchestrator/job_runner.py): one thread that reaps children, fires due *)
(* collectors and shuts down, while the children, the clock and the stop   *)
(* signal go their own way between any two of its steps.                   *)
(*                                                                         *)
(* Time is kept as what is left of each duration, so that it can pass      *)
(* without end: next_due, timeout_at and kill_at are relative to now.      *)
(* Only the phase of the clock is kept, modulo Period.                     *)
(*                                                                         *)
(* A run is a process group: its leader, which the scheduler reaps, and    *)
(* perhaps another member.                                                 *)
(***************************************************************************)
EXTENDS Integers, FiniteSets

CONSTANTS
    Collector,      \* the enabled collectors
    Forking,        \* those whose leader may start another process in its group
    Interval, Timeout, Offset,   \* [Collector -> ticks]
    KillGrace, ShutdownGrace,    \* ticks
    Period,         \* a common multiple of the intervals
    MaxLate,        \* bound: how far the loop may fall behind a due time
    None

ASSUME DurationsAssumption ==
    /\ Interval \in [Collector -> Nat \ {0}] /\ Timeout \in [Collector -> Nat \ {0}]
    /\ Forking \subseteq Collector
    /\ Offset \in [Collector -> Nat]
    /\ KillGrace \in Nat \ {0} /\ ShutdownGrace \in Nat /\ MaxLate \in Nat \ {0}
    /\ Period \in Nat \ {0} /\ \A c \in Collector : Period % Interval[c] = 0

VARIABLES
    clock,                     \* the monotonic clock modulo Period
    loop, todo, since,         \* the thread: where it is, what it still has to visit,
                               \* ticks since step() read the clock
    once, stopping, grace,     \* run_once or run; the flag; what is left of the grace
    next_due,                  \* per collector
    run,                       \* running[c], or None
    leader, member,            \* per collector: the current run's processes
    strays,                    \* leaders the scheduler has lost track of
    left                       \* a member of an earlier run's group is still alive

thread    == <<loop, todo, since, once, stopping, grace>>
processes == <<leader, member, strays, left>>
vars      == <<clock, thread, next_due, run, processes>>

Infinity == -1       \* kill_at = inf: SIGKILL has been sent

Run == [timeout_at : Nat, kill_at : Nat \cup {None, Infinity},
        timed_out : BOOLEAN, cancelled : BOOLEAN]

ASSUME NoneIsFresh == None \notin Int \cup Run

Running == {c \in Collector : run[c] # None}

Init ==
    /\ clock = 0
    /\ since = 0
    /\ once \in BOOLEAN /\ loop = IF once THEN "fire" ELSE "idle"
    /\ todo = IF once THEN Collector ELSE {}
    /\ stopping = FALSE /\ grace = ShutdownGrace
    /\ next_due = IF once THEN [c \in Collector |-> 0] ELSE Offset
    /\ run = [c \in Collector |-> None]
    /\ leader = [c \in Collector |-> "none"]
    /\ member = [c \in Collector |-> FALSE]
    /\ strays = [c \in Collector |-> 0] /\ left = [c \in Collector |-> FALSE]

-------------------------------------------------------------------------------
(* The environment: time, the stop signal and the children                 *)

Lower(n) == IF n > 0 THEN n - 1 ELSE n

Later(r) ==
    IF r = None THEN None
    ELSE [r EXCEPT !.timeout_at = Lower(@),
                   !.kill_at = IF @ \in Nat THEN Lower(@) ELSE @]

(* Due times matter only while run() schedules, to the end of the pass in  *)
(* which it is stopped; the loop is never more than MaxLate behind.        *)
Scheduling == ~once /\ (~stopping \/ loop = "fire")

Tick ==
    /\ Scheduling => \A c \in Collector : next_due[c] > -MaxLate
    /\ loop = "fire" => since < MaxLate
    /\ clock' = (clock + 1) % Period
    /\ next_due' = IF Scheduling THEN [c \in Collector |-> next_due[c] - 1] ELSE next_due
    /\ since' = IF loop = "fire" THEN since + 1 ELSE since
    /\ run' = [c \in Collector |-> Later(run[c])]
    /\ grace' = IF loop = "grace" THEN Lower(grace) ELSE grace
    /\ UNCHANGED <<loop, todo, once, stopping, processes>>

(* request_stop, in a signal handler, or the max_seconds of run().         *)
RequestStop ==
    /\ ~stopping
    /\ stopping' = TRUE
    /\ UNCHANGED <<clock, loop, todo, since, once, grace, next_due, run, processes>>

(* A child exits by itself or because of SIGTERM, which it may also ignore *)
(* for ever; it is a zombie until it is reaped.                            *)
LeaderExits(c) ==
    /\ leader[c] = "alive"
    /\ leader' = [leader EXCEPT ![c] = "exited"]
    /\ UNCHANGED <<clock, thread, next_due, run, member, strays, left>>

MemberStarts(c) ==
    /\ c \in Forking
    /\ leader[c] = "alive" /\ ~member[c]
    /\ member' = [member EXCEPT ![c] = TRUE]
    /\ UNCHANGED <<clock, thread, next_due, run, leader, strays, left>>

MemberExits(c) ==
    /\ \/ member[c] /\ member' = [member EXCEPT ![c] = FALSE] /\ UNCHANGED left
       \/ left[c] /\ left' = [left EXCEPT ![c] = FALSE] /\ UNCHANGED member
    /\ UNCHANGED <<clock, thread, next_due, run, leader, strays>>

(* SIGKILL ends every process of the group.                                *)
KillLands(c) ==
    /\ run[c] # None /\ run[c].kill_at = Infinity
    /\ leader[c] = "alive" \/ member[c]
    /\ leader' = [leader EXCEPT ![c] = "exited"]
    /\ member' = [member EXCEPT ![c] = FALSE]
    /\ UNCHANGED <<clock, thread, next_due, run, strays, left>>

-------------------------------------------------------------------------------
(* ChildRun                                                                *)

(* Mutant: terminate always restarts the kill grace and claims the run.    *)
Terminated_Again(c, cancelled) ==
    [run[c] EXCEPT !.cancelled = @ \/ cancelled, !.kill_at = KillGrace]

(* terminate: SIGTERM to the group, once.                                  *)
Terminated(c, cancelled) ==
    IF run[c].kill_at = None
      THEN [run[c] EXCEPT !.cancelled = @ \/ cancelled, !.kill_at = KillGrace]
      ELSE run[c]

(* Mutant: the first due deadline is the only one that poll looks at.      *)
Advanced_NoKill(c) ==
    IF ~run[c].timed_out /\ ~run[c].cancelled /\ run[c].timeout_at = 0
      THEN [Terminated(c, FALSE) EXCEPT !.timed_out = TRUE]
    ELSE run[c]

(* poll of a living child: timeout, then kill escalation.                  *)
Advanced(c) ==
    IF ~run[c].timed_out /\ ~run[c].cancelled /\ run[c].timeout_at = 0
      THEN [Terminated(c, FALSE) EXCEPT !.timed_out = TRUE]
    ELSE IF run[c].kill_at = 0 THEN [run[c] EXCEPT !.kill_at = Infinity]
    ELSE run[c]

(* The status that a reaped run is recorded with in the history.           *)
FinalStatus(c) ==
    IF run[c].cancelled THEN "cancelled"
    ELSE IF run[c].timed_out THEN "timed_out"
    ELSE "success or failed, by the exit code"

(* poll; a child that has exited is reaped and forgotten.                  *)
Poll(c) ==
    IF leader[c] = "alive"
      THEN /\ run' = [run EXCEPT ![c] = Advanced(c)]
           /\ UNCHANGED <<leader, member, left>>
      ELSE /\ run' = [run EXCEPT ![c] = None]
           /\ leader' = [leader EXCEPT ![c] = "none"]
           /\ left' = [left EXCEPT ![c] = @ \/ member[c]]
           /\ member' = [member EXCEPT ![c] = FALSE]

-------------------------------------------------------------------------------
(* The thread                                                              *)

(* The head of run()'s loop; when stopping, the head of shutdown().        *)
BeginStep ==
    /\ loop = "idle"
    /\ loop' = IF stopping THEN "grace" ELSE "reap"
    /\ todo' = IF stopping /\ grace = 0 THEN {} ELSE Running
    /\ UNCHANGED <<clock, since, once, stopping, grace, next_due, run, processes>>

(* _reap visits every running child.                                       *)
Reap(c) ==
    /\ loop \in {"reap", "once", "grace", "drain"} /\ c \in todo
    /\ Poll(c)
    /\ todo' = todo \ {c}
    /\ UNCHANGED <<clock, loop, since, once, stopping, grace, next_due, strays>>

(* The end of _reap, and the loop around it.                               *)
ReapEnds ==
    /\ loop \in {"reap", "once", "grace", "drain"} /\ todo = {}
    /\ \/ /\ loop = "reap"
          /\ loop' = (IF stopping THEN "idle" ELSE "fire")
          /\ todo' = (IF stopping THEN {} ELSE Collector)
       \/ /\ loop = "once"
          /\ loop' = (IF Running = {} \/ stopping THEN "grace" ELSE "once")
          /\ todo' = (IF stopping /\ grace = 0 THEN {} ELSE Running)
       \/ /\ loop = "grace"
          /\ loop' = (IF Running = {} \/ grace = 0 THEN "terminate" ELSE "grace")
          /\ todo' = Running
       \/ /\ loop = "drain"
          /\ loop' = (IF Running = {} THEN "stopped" ELSE "drain")
          /\ todo' = Running
    /\ since' = 0
    /\ stopping' = (stopping \/ (loop = "once" /\ Running = {}))
    /\ UNCHANGED <<clock, once, grace, next_due, run, processes>>

(* Mutant: the next due time is counted from now.                          *)
NextDue_FromNow(c) == Interval[c]

(* _advance: previous due + interval, collapsing missed slots; relative to *)
(* the time that step() read, since ticks ago.                             *)
NextDue(c) ==
    LET due == next_due[c] + Interval[c]
        late == -(due + since)
    IN IF due + since <= 0
         THEN due + ((late \div Interval[c]) + 1) * Interval[c]
         ELSE due

IsDue(c) == once \/ next_due[c] + since <= 0

(* Popen succeeds: a new group; a run already there would be forgotten.    *)
Start(c) ==
    /\ run' = [run EXCEPT ![c] = [timeout_at |-> Timeout[c], kill_at |-> None,
                                  timed_out |-> FALSE, cancelled |-> FALSE]]
    /\ leader' = [leader EXCEPT ![c] = "alive"]
    /\ strays' = [strays EXCEPT ![c] = IF leader[c] = "alive" THEN 1 ELSE @]
    /\ UNCHANGED <<member, left>>

(* A skipped slot or a failed start is recorded in the history only.       *)
OnlyRecorded == UNCHANGED <<run, processes>>

(* _fire: skip if still running; start; or fail to start (OSError).        *)
FireDue(c) ==
    IF c \in Running THEN OnlyRecorded
                     ELSE Start(c) \/ OnlyRecorded

(* One collector of step()'s loop, or of run_once's.                       *)
Fire(c) ==
    /\ loop = "fire" /\ c \in todo
    /\ \/ /\ IsDue(c)
          /\ FireDue(c)
          /\ next_due' = IF once THEN next_due ELSE [next_due EXCEPT ![c] = NextDue(c)]
       \/ /\ ~IsDue(c)
          /\ UNCHANGED <<run, processes, next_due>>
    /\ todo' = todo \ {c}
    /\ UNCHANGED <<clock, loop, since, once, stopping, grace>>

FireEnds ==
    /\ loop = "fire" /\ todo = {}
    /\ loop' = IF once THEN "once" ELSE "idle"
    /\ todo' = IF once THEN Running ELSE {}
    /\ since' = 0
    /\ UNCHANGED <<clock, once, stopping, grace, next_due, run, processes>>

(* The end of the grace: SIGTERM to what still runs.                       *)
Terminate(c) ==
    /\ loop = "terminate" /\ c \in todo
    /\ run' = [run EXCEPT ![c] = Terminated(c, TRUE)]
    /\ todo' = todo \ {c}
    /\ UNCHANGED <<clock, loop, since, once, stopping, grace, next_due, processes>>

(* Mutant: nothing is waited for after SIGTERM.                            *)
TerminateEnds_NoDrain ==
    /\ loop = "terminate" /\ todo = {}
    /\ loop' = "stopped" /\ todo' = {}
    /\ UNCHANGED <<clock, since, once, stopping, grace, next_due, run, processes>>

TerminateEnds ==
    /\ loop = "terminate" /\ todo = {}
    /\ loop' = "drain" /\ todo' = Running
    /\ UNCHANGED <<clock, since, once, stopping, grace, next_due, run, processes>>

ThreadStep ==
    \/ BeginStep \/ ReapEnds \/ FireEnds \/ TerminateEnds
    \/ \E c \in Collector : Reap(c) \/ Fire(c) \/ Terminate(c)

Next ==
    \/ ThreadStep \/ Tick \/ RequestStop
    \/ \E c \in Collector : LeaderExits(c) \/ MemberStarts(c) \/ MemberExits(c) \/ KillLands(c)

(* Time passes, the thread is scheduled and SIGKILL is delivered; nothing  *)
(* is assumed of the children.                                             *)
Spec ==
    /\ Init /\ [][Next]_vars
    /\ WF_vars(Tick) /\ WF_vars(ThreadStep)
    /\ \A c \in Collector : WF_vars(KillLands(c))
-------------------------------------------------------------------------------
(* Properties                                                              *)

(* Every variable has its type, and the loops over the running children    *)
(* visit no other.                                                         *)
TypeOK ==
    /\ clock \in 0 .. Period - 1
    /\ loop \in {"idle", "reap", "fire", "once", "grace", "terminate", "drain", "stopped"}
    /\ todo \subseteq (IF loop = "fire" THEN Collector ELSE Running) /\ since \in 0 .. MaxLate
    /\ once \in BOOLEAN /\ stopping \in BOOLEAN /\ grace \in 0 .. ShutdownGrace
    /\ next_due \in [Collector -> Int]
    /\ run \in [Collector -> Run \cup {None}]
    /\ leader \in [Collector -> {"none", "alive", "exited"}]
    /\ member \in [Collector -> BOOLEAN] /\ left \in [Collector -> BOOLEAN]
    /\ strays \in [Collector -> 0 .. 1]

(* A collector never overlaps with itself: every living leader is the one  *)
(* the scheduler is polling.                                               *)
NoSelfOverlap ==
    \A c \in Collector : strays[c] = 0 /\ (leader[c] # "none" <=> c \in Running)

(* No drift: every due time keeps the phase of the first one, whatever the *)
(* loop and the jobs cost, and after a visit it lies in the next interval. *)
NoDrift ==
    ~once => \A c \in Collector :
      /\ ~stopping => (clock + next_due[c]) % Interval[c] = Offset[c] % Interval[c]
      /\ loop = "fire" /\ c \notin todo =>
           next_due[c] + since \in 1 .. Interval[c] + Offset[c]

(* A status says what happened: a run is signalled exactly when it is      *)
(* flagged, as timed out or as cancelled but never both, and cancelled only*)
(* by a shutdown; so success and failed are never the scheduler's doing.   *)
StatusTrue ==
    \A c \in Running :
      /\ run[c].kill_at # None <=> FinalStatus(c) \in {"timed_out", "cancelled"}
      /\ run[c].timed_out => FinalStatus(c) = "timed_out"
      /\ FinalStatus(c) = "cancelled" => stopping

(* The scheduler's records of its runs are the operating system's: no      *)
(* second run of a collector, and no status for what did not happen.       *)
RunsAccounted == TypeOK /\ NoSelfOverlap /\ StatusTrue

(* No child outlives the scheduler.                                        *)
NoChildOutlives ==
    loop = "stopped" => \A c \in Collector : leader[c] = "none" /\ strays[c] = 0

(* Shutdown is bounded: it ends though children ignore SIGTERM.            *)
ShutdownCompletes == stopping ~> loop = "stopped"

(* A run does not last for ever: a child that hangs is timed out, killed   *)
(* and reaped, so that its collector can run again.                        *)
RunsEnd == \A c \in Collector : c \in Running ~> c \notin Running

(* Nothing hangs with a hanging child, neither its collector nor a shutdown.*)
EverythingEnds == ShutdownCompletes /\ RunsEnd

(* docs/phase3-scheduler-orchestration.md: "no orphans, including          *)
(* grandchildren, after graceful or forced shutdown".                      *)
NoOrphans ==
    loop = "stopped" => \A c \in Collector : ~left[c] /\ ~member[c]
===============================================================================
