-------------------------- MODULE Scheduler_proofs --------------------------
(***************************************************************************)
(* Safety of the collector scheduler for any set of collectors, any        *)
(* intervals, offsets, timeouts and grace periods, and any behaviour of    *)
(* the children.                                                           *)
(*                                                                         *)
(* IInv adds where the thread may be once it was told to stop (LoopInv),   *)
(* and how far a due time may be from now (DueInv); the phase of a due     *)
(* time rests on three facts about the remainder.                          *)
(***************************************************************************)
EXTENDS Scheduler, TLAPS

(* A run is signalled exactly when it is flagged, once, as one of two.     *)
Honest(r) == /\ r.kill_at # None <=> r.timed_out \/ r.cancelled
             /\ ~(r.timed_out /\ r.cancelled)
             /\ r.cancelled => stopping
HonestInv == \A c \in Collector : run[c] # None => Honest(run[c])

(* The thread shuts down only when it was told to stop, and stops when     *)
(* nothing runs.                                                           *)
LoopInv ==
    /\ loop \in {"grace", "terminate", "drain", "stopped"} => stopping
    /\ loop = "stopped" => Running = {}

(* The age of the reading of the clock matters only while collectors fire; *)
(* no due time is further ahead than an interval and the first offset, and *)
(* one that was visited lies ahead.                                        *)
DueInv == ~once =>
    /\ loop # "fire" => since = 0
    /\ \A c \in Collector :
         /\ next_due[c] + since <= Interval[c] + Offset[c]
         /\ loop = "fire" /\ c \notin todo => next_due[c] + since >= 1

(* Until the stop, due times keep their phase.                             *)
PhaseInv == ~once /\ ~stopping => \A c \in Collector :
    (clock + next_due[c]) % Interval[c] = Offset[c] % Interval[c]

IInv == TypeOK /\ NoSelfOverlap /\ HonestInv /\ LoopInv /\ DueInv /\ PhaseInv
-----------------------------------------------------------------------------
(* Division.                                                               *)

LEMMA DivMod ==
  ASSUME NEW a \in Int, NEW n \in Nat \ {0}
  PROVE  a \div n \in Int /\ a % n \in 0 .. n - 1 /\ a = (a \div n) * n + (a % n)
OBVIOUS

LEMMA SmallMultiple ==
  ASSUME NEW k \in Int, NEW n \in Nat \ {0}, k * n < n, k * n > -n
  PROVE  k = 0
<1>1. CASE k >= 1
  <2>1. (k - 1) * n >= 0 /\ (k - 1) * n = k * n - n
    BY <1>1
  <2> QED
    BY <2>1
<1>2. CASE k <= -1
  <2>1. (-1 - k) * n >= 0 /\ (-1 - k) * n = -(k * n) - n
    BY <1>2
  <2> QED
    BY <2>1
<1> QED
  BY <1>1, <1>2

LEMMA ModShift ==
  ASSUME NEW a \in Int, NEW k \in Int, NEW n \in Nat \ {0}
  PROVE  (a + k * n) % n = a % n
<1> DEFINE b == a + k * n
           d == (b \div n) - (a \div n) - k
<1>1. b \in Int /\ k * n \in Int
  OBVIOUS
<1>2. /\ a \div n \in Int /\ a % n \in 0 .. n - 1 /\ a = (a \div n) * n + (a % n)
      /\ b \div n \in Int /\ b % n \in 0 .. n - 1 /\ b = (b \div n) * n + (b % n)
  BY <1>1, DivMod
<1>3. d \in Int /\ d * n = (b \div n) * n - (a \div n) * n - k * n
  BY <1>2
<1>4. d * n = (a % n) - (b % n)
  BY <1>1, <1>2, <1>3
<1>5. d = 0
  <2>1. d * n < n /\ d * n > -n
    BY <1>2, <1>4
  <2> HIDE DEF d
  <2> QED
    BY <1>3, <2>1, SmallMultiple
<1> QED
  BY <1>2, <1>4, <1>5

\* The phase of a due time does not notice that the clock starts over.
LEMMA ClockTick ==
  ASSUME NEW t \in 0 .. Period - 1, NEW due \in Int, NEW c \in Collector
  PROVE  (((t + 1) % Period) + (due - 1)) % Interval[c] = (t + due) % Interval[c]
<1> DEFINE n == Interval[c]
<1>1. n \in Nat \ {0} /\ Period \in Nat \ {0} /\ Period % n = 0
  BY DurationsAssumption
<1> HIDE DEF n
<1>2. CASE t + 1 < Period
  <2>1. (t + 1) % Period = t + 1
    BY <1>1, <1>2
  <2>2. t + 1 + (due - 1) = t + due
    OBVIOUS
  <2> QED
    BY <2>1, <2>2
<1>3. CASE t + 1 = Period
  <2>1. (t + 1) % Period = 0
    BY <1>1, <1>3
  <2>2. PICK m \in Int : Period = m * n
    <3>1. Period \div n \in Int /\ Period = (Period \div n) * n
      BY <1>1, DivMod
    <3> QED
      BY <3>1
  <2>3. t + due = (due - 1) + m * n
    BY <1>3, <2>2
  <2>4. due - 1 \in Int
    OBVIOUS
  <2>5. (t + due) % n = (due - 1) % n
    <3>1. ((due - 1) + m * n) % n = (due - 1) % n
      BY <1>1, <2>4, ModShift
    <3> QED
      BY <2>3, <3>1
  <2> QED
    BY <2>1, <2>5 DEF n
<1> QED
  BY <1>1, <1>2, <1>3

-----------------------------------------------------------------------------
(* What the steps do to a run.                                             *)

LEMMA Durations ==
  /\ \A c \in Collector : /\ Interval[c] \in Nat \ {0} /\ Timeout[c] \in Nat \ {0}
                          /\ Offset[c] \in Nat
  /\ KillGrace \in Nat /\ ShutdownGrace \in Nat /\ MaxLate \in Nat /\ Period \in Nat \ {0}
BY DurationsAssumption

LEMMA NoRun == None \notin Int /\ None \notin Run
BY NoneIsFresh

LEMMA LaterRun ==
  ASSUME NEW r \in Run
  PROVE  /\ Later(r) \in Run
         /\ Later(r).timed_out = r.timed_out /\ Later(r).cancelled = r.cancelled
         /\ Later(r).kill_at = None <=> r.kill_at = None
<1>1. r # None
  BY NoRun
<1>2. Later(r) = [timeout_at |-> Lower(r.timeout_at),
                  kill_at |-> IF r.kill_at \in Nat THEN Lower(r.kill_at) ELSE r.kill_at,
                  timed_out |-> r.timed_out, cancelled |-> r.cancelled]
  BY <1>1 DEF Later, Run
<1>3. \A n \in Nat : Lower(n) \in Nat
  BY DEF Lower
<1> QED
  BY <1>2, <1>3, NoRun DEF Run

LEMMA TerminatedRun ==
  ASSUME NEW c \in Collector, run[c] \in Run, NEW cancelled \in BOOLEAN, Honest(run[c]),
         cancelled => stopping
  PROVE  /\ Terminated(c, cancelled) \in Run
         /\ cancelled => Honest(Terminated(c, cancelled))
         /\ ~cancelled /\ ~run[c].timed_out /\ ~run[c].cancelled =>
              /\ Terminated(c, cancelled).kill_at # None
              /\ ~Terminated(c, cancelled).cancelled
<1>1. CASE run[c].kill_at = None
  <2>1. ~run[c].timed_out /\ ~run[c].cancelled
    BY <1>1 DEF Honest
  <2>2. Terminated(c, cancelled) = [timeout_at |-> run[c].timeout_at, kill_at |-> KillGrace,
                                    timed_out |-> FALSE, cancelled |-> cancelled]
    BY <1>1, <2>1 DEF Terminated, Run
  <2> QED
    BY <2>2, Durations, NoRun DEF Honest, Run
<1>2. CASE run[c].kill_at # None
  BY <1>2 DEF Terminated, Honest
<1> QED
  BY <1>1, <1>2

LEMMA AdvancedRun ==
  ASSUME NEW c \in Collector, run[c] \in Run, Honest(run[c])
  PROVE  Advanced(c) \in Run /\ Honest(Advanced(c))
<1>1. CASE ~run[c].timed_out /\ ~run[c].cancelled /\ run[c].timeout_at = 0
  <2> DEFINE t == Terminated(c, FALSE)
  <2>1. t \in Run /\ t.kill_at # None /\ ~t.cancelled
    BY <1>1, TerminatedRun
  <2>2. Advanced(c) = [t EXCEPT !.timed_out = TRUE]
    BY <1>1 DEF Advanced
  <2> HIDE DEF t
  <2>3. Advanced(c) = [timeout_at |-> t.timeout_at, kill_at |-> t.kill_at,
                       timed_out |-> TRUE, cancelled |-> t.cancelled]
    BY <2>1, <2>2 DEF Run
  <2> QED
    BY <2>1, <2>3 DEF Honest, Run
<1>2. CASE Advanced(c) = [run[c] EXCEPT !.kill_at = Infinity] /\ run[c].kill_at = 0
  <2>1. Advanced(c) = [timeout_at |-> run[c].timeout_at, kill_at |-> Infinity,
                       timed_out |-> run[c].timed_out, cancelled |-> run[c].cancelled]
    BY <1>2 DEF Run
  <2> QED
    BY <1>2, <2>1, NoRun DEF Honest, Run, Infinity
<1>3. CASE Advanced(c) = run[c]
  BY <1>3
<1> QED
  BY <1>1, <1>2, <1>3 DEF Advanced
-----------------------------------------------------------------------------
(* The steps of the environment.                                           *)

Environment(c) == LeaderExits(c) \/ MemberStarts(c) \/ MemberExits(c) \/ KillLands(c)

Processes ==
    /\ leader \in [Collector -> {"none", "alive", "exited"}]
    /\ member \in [Collector -> BOOLEAN] /\ left \in [Collector -> BOOLEAN]
    /\ strays \in [Collector -> 0 .. 1]

LEMMA EnvironmentStep ==
  ASSUME TypeOK, NoSelfOverlap, NEW c \in Collector, Environment(c)
  PROVE  /\ UNCHANGED <<clock, thread, next_due, run, strays>>
         /\ Processes'
         /\ \A d \in Collector : leader'[d] = "none" <=> leader[d] = "none"
<1>1. CASE LeaderExits(c)
  BY <1>1 DEF LeaderExits, TypeOK, Processes
<1>2. CASE MemberStarts(c)
  BY <1>2 DEF MemberStarts, TypeOK, Processes
<1>3. CASE MemberExits(c)
  BY <1>3 DEF MemberExits, TypeOK, Processes
<1>4. CASE KillLands(c)
  <2>1. leader[c] # "none"
    BY <1>4 DEF KillLands, NoSelfOverlap, Running
  <2> QED
    BY <1>4, <2>1 DEF KillLands, TypeOK, Processes
<1> QED
  BY <1>1, <1>2, <1>3, <1>4 DEF Environment

-----------------------------------------------------------------------------
(* The steps of the thread, as far as one collector's run is concerned.    *)

\* The run is polled.
LEMMA ReapStep ==
  ASSUME TypeOK, NoSelfOverlap, HonestInv, NEW c \in Collector, Reap(c)
  PROVE  /\ UNCHANGED <<clock, loop, since, once, stopping, grace, next_due, strays>>
         /\ loop # "fire" /\ todo' = todo \ {c} /\ Processes'
         /\ run' \in [Collector -> Run \cup {None}]
         /\ \A d \in Collector \ {c} : run'[d] = run[d] /\ leader'[d] = leader[d]
         /\ run[c] # None
         /\ leader'[c] # "none" <=> run'[c] # None
         /\ run'[c] # None => Honest(run'[c])
<1>1. /\ loop \in {"reap", "once", "grace", "drain"} /\ c \in todo /\ Poll(c) /\ todo' = todo \ {c}
      /\ UNCHANGED <<clock, loop, since, once, stopping, grace, next_due, strays>>
  BY DEF Reap
<1>2. run[c] \in Run /\ run[c] # None /\ leader[c] # "none" /\ Honest(run[c])
  BY <1>1 DEF TypeOK, Running, NoSelfOverlap, HonestInv
<1>3. CASE leader[c] = "alive"
  <2>1. run' = [run EXCEPT ![c] = Advanced(c)] /\ UNCHANGED <<leader, member, left>>
    BY <1>1, <1>3 DEF Poll
  <2>2. Advanced(c) \in Run /\ Honest(Advanced(c)) /\ Advanced(c) # None
    BY <1>2, AdvancedRun, NoRun
  <2> QED
    BY <1>1, <1>2, <2>1, <2>2 DEF TypeOK, Processes
<1>4. CASE leader[c] # "alive"
  <2>1. /\ run' = [run EXCEPT ![c] = None]
        /\ leader' = [leader EXCEPT ![c] = "none"]
        /\ left' = [left EXCEPT ![c] = @ \/ member[c]]
        /\ member' = [member EXCEPT ![c] = FALSE]
    BY <1>1, <1>4 DEF Poll
  <2>2. left' \in [Collector -> BOOLEAN] /\ member' \in [Collector -> BOOLEAN]
    BY <2>1 DEF TypeOK
  <2> QED
    BY <1>1, <1>2, <2>1, <2>2 DEF TypeOK, Processes
<1> QED
  BY <1>3, <1>4

\* A collector is visited: its due time may advance, and a run may start.
LEMMA FireStep ==
  ASSUME TypeOK, NoSelfOverlap, NEW c \in Collector, Fire(c)
  PROVE  /\ UNCHANGED <<clock, loop, since, once, stopping, grace, strays>>
         /\ loop = "fire" /\ todo' = todo \ {c} /\ Processes'
         /\ run' \in [Collector -> Run \cup {None}]
         /\ \A d \in Collector \ {c} : run'[d] = run[d] /\ leader'[d] = leader[d]
         /\ leader'[c] # "none" <=> run'[c] # None
         /\ run'[c] # None => run'[c] = run[c] \/ Honest(run'[c])
<1>1. /\ loop = "fire" /\ todo' = todo \ {c}
      /\ UNCHANGED <<clock, loop, since, once, stopping, grace>>
      /\ FireDue(c) \/ UNCHANGED <<run, processes>>
  BY DEF Fire
<1>2. CASE UNCHANGED <<run, processes>>
  BY <1>1, <1>2 DEF processes, TypeOK, Processes, NoSelfOverlap, Running
<1>3. CASE c \notin Running /\ Start(c)
  <2> DEFINE new == [timeout_at |-> Timeout[c], kill_at |-> None, timed_out |-> FALSE, cancelled |-> FALSE]
  <2>1. leader[c] = "none"
    BY <1>3 DEF NoSelfOverlap
  <2>2. /\ run' = [run EXCEPT ![c] = new]
        /\ leader' = [leader EXCEPT ![c] = "alive"]
        /\ strays' = [strays EXCEPT ![c] = IF leader[c] = "alive" THEN 1 ELSE @]
        /\ UNCHANGED <<member, left>>
    BY <1>3 DEF Start
  <2>3. strays' = strays
    BY <2>1, <2>2 DEF TypeOK
  <2>4. new \in Run /\ new # None /\ new.kill_at = None /\ ~new.timed_out /\ ~new.cancelled
    <3>1. Timeout[c] \in Nat
      BY Durations
    <3>2. new \in Run
      BY <3>1 DEF Run
    <3> QED
      BY <3>2, NoRun
  <2>5. Honest(new)
    BY <2>4 DEF Honest
  <2> HIDE DEF new
  <2> QED
    BY <1>1, <2>2, <2>3, <2>4, <2>5 DEF TypeOK, Processes
<1> QED
  BY <1>1, <1>2, <1>3 DEF FireDue, OnlyRecorded

\* The run is signalled.
LEMMA TerminateStep ==
  ASSUME TypeOK, NoSelfOverlap, HonestInv, LoopInv, NEW c \in Collector, Terminate(c)
  PROVE  /\ UNCHANGED <<clock, loop, since, once, stopping, grace, next_due, processes>>
         /\ loop = "terminate" /\ todo' = todo \ {c}
         /\ run' \in [Collector -> Run \cup {None}]
         /\ \A d \in Collector \ {c} : run'[d] = run[d]
         /\ run[c] # None /\ run'[c] # None /\ Honest(run'[c])
<1>1. /\ loop = "terminate" /\ c \in todo
      /\ run' = [run EXCEPT ![c] = Terminated(c, TRUE)]
      /\ todo' = todo \ {c}
      /\ UNCHANGED <<clock, loop, since, once, stopping, grace, next_due, processes>>
  BY DEF Terminate
<1>2. run[c] \in Run /\ run[c] # None /\ Honest(run[c]) /\ stopping
  BY <1>1 DEF TypeOK, Running, HonestInv, LoopInv
<1>3. Terminated(c, TRUE) \in Run /\ Honest(Terminated(c, TRUE)) /\ Terminated(c, TRUE) # None
  BY <1>2, TerminatedRun, NoRun
<1> QED
  BY <1>1, <1>2, <1>3 DEF TypeOK

\* Time passes.
LEMMA TickStep ==
  ASSUME TypeOK, Tick
  PROVE  /\ UNCHANGED <<loop, todo, once, stopping, processes>>
         /\ clock' = (clock + 1) % Period /\ clock' \in 0 .. Period - 1
         /\ next_due' = IF Scheduling THEN [c \in Collector |-> next_due[c] - 1] ELSE next_due
         /\ since' = IF loop = "fire" THEN since + 1 ELSE since
         /\ next_due' \in [Collector -> Int] /\ since' \in 0 .. MaxLate /\ grace' \in 0 .. ShutdownGrace
         /\ run' \in [Collector -> Run \cup {None}]
         /\ \A c \in Collector : run'[c] = Later(run[c]) /\ (run'[c] = None <=> run[c] = None)
<1>1. /\ loop = "fire" => since < MaxLate
      /\ clock' = (clock + 1) % Period
      /\ next_due' = IF Scheduling THEN [c \in Collector |-> next_due[c] - 1] ELSE next_due
      /\ since' = IF loop = "fire" THEN since + 1 ELSE since
      /\ run' = [c \in Collector |-> Later(run[c])]
      /\ grace' = IF loop = "grace" THEN Lower(grace) ELSE grace
      /\ UNCHANGED <<loop, todo, once, stopping, processes>>
  BY DEF Tick
<1>2. clock' \in 0 .. Period - 1
  BY <1>1, Durations DEF TypeOK
<1>3. since' \in 0 .. MaxLate /\ grace' \in 0 .. ShutdownGrace
  BY <1>1, Durations DEF TypeOK, Lower
<1>4. next_due' \in [Collector -> Int]
  BY <1>1 DEF TypeOK
<1>5. \A c \in Collector : Later(run[c]) \in Run \cup {None} /\ (Later(run[c]) = None <=> run[c] = None)
  <2> TAKE c \in Collector
  <2>1. CASE run[c] = None
    BY <2>1 DEF Later
  <2>2. CASE run[c] # None
    BY <2>2, LaterRun, NoRun DEF TypeOK
  <2> QED
    BY <2>1, <2>2
<1> QED
  BY <1>1, <1>2, <1>3, <1>4, <1>5

\* The thread goes from one loop to the next, or is told to stop.
Control == BeginStep \/ ReapEnds \/ FireEnds \/ TerminateEnds \/ RequestStop

LEMMA ControlStep ==
  ASSUME TypeOK, LoopInv, Control
  PROVE  /\ UNCHANGED <<clock, once, grace, next_due, run, processes>>
         /\ stopping' \in BOOLEAN /\ (stopping => stopping') /\ since' \in {since, 0}
         /\ loop' \in {"idle", "reap", "fire", "once", "grace", "terminate", "drain", "stopped"}
         /\ todo' \subseteq (IF loop' = "fire" THEN Collector ELSE Running)
         /\ loop' = "fire" => \/ loop = "fire" /\ todo' = todo /\ since' = since
                              \/ loop # "fire" /\ todo' = Collector /\ since' = 0
         /\ loop = "fire" /\ loop' # "fire" => since' = 0
         /\ LoopInv'
<1> USE DEF TypeOK
<1>1. UNCHANGED <<clock, once, grace, next_due, run, processes>>
  BY DEF Control, BeginStep, ReapEnds, FireEnds, TerminateEnds, RequestStop
<1>2. Running' = Running
  BY <1>1 DEF Running
<1>3. Running \subseteq Collector
  BY DEF Running
<1>4. CASE BeginStep
  BY <1>1, <1>2, <1>4 DEF BeginStep, LoopInv
<1>5. CASE ReapEnds
  <2>1. since' = 0 /\ loop # "fire" /\ todo = {} /\ stopping' \in BOOLEAN /\ (stopping => stopping')
    BY <1>5 DEF ReapEnds
  <2>2. \/ loop' = "idle" /\ todo' = {}
        \/ loop' = "fire" /\ todo' = Collector
        \/ loop' = "once" /\ todo' \subseteq Running
        \/ loop' = "grace" /\ todo' \subseteq Running /\ stopping'
        \/ loop' \in {"terminate", "drain"} /\ todo' \subseteq Running /\ stopping'
        \/ loop' = "stopped" /\ todo' = Running /\ Running = {} /\ stopping'
    BY <1>5 DEF ReapEnds, LoopInv
  <2> QED
    BY <1>1, <1>2, <2>1, <2>2 DEF LoopInv
<1>6. CASE FireEnds
  BY <1>1, <1>2, <1>6 DEF FireEnds, LoopInv
<1>7. CASE TerminateEnds
  BY <1>1, <1>2, <1>7 DEF TerminateEnds, LoopInv
<1>8. CASE RequestStop
  BY <1>1, <1>2, <1>8 DEF RequestStop, LoopInv
<1> QED
  BY <1>4, <1>5, <1>6, <1>7, <1>8 DEF Control

LEMMA Steps ==
  ASSUME [Next]_vars
  PROVE  \/ Control \/ Tick \/ UNCHANGED vars
         \/ \E c \in Collector : Reap(c) \/ Fire(c) \/ Terminate(c) \/ Environment(c)
BY DEF Next, ThreadStep, Control, Environment

-----------------------------------------------------------------------------
(* Types.                                                                  *)

LEMMA NextDueStep ==
  ASSUME TypeOK, NEW c \in Collector, next_due[c] + since <= 0
  PROVE  /\ NextDue(c) \in Int
         /\ \E k \in Int : NextDue(c) = next_due[c] + k * Interval[c]
         /\ NextDue(c) + since \in 1 .. Interval[c]
<1> DEFINE n == Interval[c]
           due == next_due[c] + n
           late == -(due + since)
<1>1. n \in Nat \ {0} /\ next_due[c] \in Int /\ since \in Nat
  BY Durations DEF TypeOK
<1>2. NextDue(c) = IF due + since <= 0 THEN due + ((late \div n) + 1) * n ELSE due
  BY DEF NextDue
<1> HIDE DEF n
<1>3. CASE due + since <= 0
  <2> DEFINE q == late \div n
  <2>1. late \in Nat /\ q \in Int /\ late % n \in 0 .. n - 1 /\ late = q * n + (late % n)
    <3>1. late \in Nat
      BY <1>1, <1>3
    <3> HIDE DEF late
    <3> QED
      BY <1>1, <3>1, DivMod
  <2>2. NextDue(c) = due + (q + 1) * n
    BY <1>2, <1>3
  <2> HIDE DEF q
  <2>3. (q + 1) * n = q * n + n /\ q * n \in Int
    BY <1>1, <2>1
  <2>4. NextDue(c) + since = n - (late % n)
    BY <1>1, <2>1, <2>2, <2>3
  <2>5. NextDue(c) = next_due[c] + (q + 2) * n
    BY <1>1, <2>1, <2>2, <2>3
  <2>6. q + 2 \in Int /\ NextDue(c) \in Int
    BY <1>1, <2>1, <2>2, <2>3
  <2> QED
    BY <1>1, <2>1, <2>4, <2>5, <2>6 DEF n
<1>4. CASE ~(due + since <= 0)
  <2>1. NextDue(c) = next_due[c] + 1 * n
    BY <1>1, <1>2, <1>4
  <2>2. NextDue(c) + since \in 1 .. n
    BY <1>1, <1>2, <1>4
  <2> QED
    BY <1>1, <2>1, <2>2 DEF n
<1> QED
  BY <1>3, <1>4

\* The due time that a visit leaves.
LEMMA FireDueTime ==
  ASSUME TypeOK, NEW c \in Collector, Fire(c)
  PROVE  /\ next_due' \in [Collector -> Int]
         /\ \A d \in Collector \ {c} : next_due'[d] = next_due[d]
         /\ once => next_due' = next_due
         /\ ~once => \/ next_due'[c] = next_due[c] /\ next_due[c] + since > 0
                     \/ next_due'[c] = NextDue(c) /\ next_due[c] + since <= 0
<1>1. next_due[c] + since \in Int
  BY Durations DEF TypeOK
<1>2. CASE IsDue(c) /\ next_due' = IF once THEN next_due ELSE [next_due EXCEPT ![c] = NextDue(c)]
  <2>1. ~once => next_due[c] + since <= 0 /\ NextDue(c) \in Int
    BY <1>2, NextDueStep DEF IsDue
  <2> QED
    BY <1>2, <2>1 DEF TypeOK
<1>3. CASE ~IsDue(c) /\ next_due' = next_due
  BY <1>1, <1>3 DEF TypeOK, IsDue
<1> QED
  BY <1>2, <1>3 DEF Fire

LEMMA TypeInit == Init => TypeOK
<1> SUFFICES ASSUME Init PROVE TypeOK
  OBVIOUS
<1>1. 0 \in 0 .. Period - 1 /\ 0 \in 0 .. MaxLate /\ grace \in 0 .. ShutdownGrace
  BY Durations DEF Init
<1>2. next_due \in [Collector -> Int]
  BY DurationsAssumption DEF Init
<1>3. todo \subseteq (IF loop = "fire" THEN Collector ELSE Running)
  BY DEF Init
<1>4. /\ run \in [Collector -> Run \cup {None}]
      /\ leader \in [Collector -> {"none", "alive", "exited"}]
      /\ member \in [Collector -> BOOLEAN] /\ left \in [Collector -> BOOLEAN]
      /\ strays \in [Collector -> 0 .. 1]
  BY DEF Init
<1> QED
  BY <1>1, <1>2, <1>3, <1>4 DEF Init, TypeOK

LEMMA TypeStep ==
  ASSUME TypeOK, NoSelfOverlap, HonestInv, LoopInv, [Next]_vars
  PROVE  TypeOK'
<1>1. CASE Control
  <2>1. since' \in 0 .. MaxLate
    BY <1>1, ControlStep, Durations DEF TypeOK
  <2>2. Running' = Running
    BY <1>1, ControlStep DEF Running
  <2> QED
    BY <1>1, <2>1, <2>2, ControlStep DEF TypeOK, processes
<1>2. CASE Tick
  <2>1. Running' = Running
    BY <1>2, TickStep DEF Running
  <2> QED
    BY <1>2, <2>1, TickStep DEF TypeOK, processes
<1>3. CASE UNCHANGED vars
  BY <1>3 DEF vars, thread, processes, TypeOK, Running
<1>4. ASSUME NEW c \in Collector, Reap(c)
      PROVE  TypeOK'
  <2>1. Running \ {c} \subseteq Running'
    BY <1>4, ReapStep DEF Running
  <2>2. todo' \subseteq Running'
    BY <1>4, <2>1, ReapStep DEF TypeOK
  <2> QED
    BY <1>4, <2>2, ReapStep DEF TypeOK, Processes
<1>5. ASSUME NEW c \in Collector, Fire(c)
      PROVE  TypeOK'
  <2>1. todo' \subseteq Collector /\ loop' = "fire"
    BY <1>5, FireStep DEF TypeOK
  <2> QED
    BY <1>5, <2>1, FireStep, FireDueTime DEF TypeOK, Processes
<1>6. ASSUME NEW c \in Collector, Terminate(c)
      PROVE  TypeOK'
  <2>1. Running' = Running
    BY <1>6, TerminateStep DEF Running
  <2> QED
    BY <1>6, <2>1, TerminateStep DEF TypeOK, processes
<1>7. ASSUME NEW c \in Collector, Environment(c)
      PROVE  TypeOK'
  BY <1>7, EnvironmentStep DEF TypeOK, Processes, thread, Running
<1> QED
  BY <1>1, <1>2, <1>3, <1>4, <1>5, <1>6, <1>7, Steps

-----------------------------------------------------------------------------
(* Runs.                                                                   *)

LEMMA OverlapStep ==
  ASSUME TypeOK, NoSelfOverlap, HonestInv, LoopInv, [Next]_vars
  PROVE  NoSelfOverlap'
<1>1. CASE Control
  BY <1>1, ControlStep DEF NoSelfOverlap, Running, processes
<1>2. CASE Tick
  BY <1>2, TickStep DEF NoSelfOverlap, Running, processes
<1>3. CASE UNCHANGED vars
  BY <1>3 DEF vars, thread, processes, NoSelfOverlap, Running
<1>4. ASSUME NEW c \in Collector, Reap(c)
      PROVE  NoSelfOverlap'
  BY <1>4, ReapStep DEF NoSelfOverlap, Running
<1>5. ASSUME NEW c \in Collector, Fire(c)
      PROVE  NoSelfOverlap'
  BY <1>5, FireStep DEF NoSelfOverlap, Running
<1>6. ASSUME NEW c \in Collector, Terminate(c)
      PROVE  NoSelfOverlap'
  BY <1>6, TerminateStep DEF NoSelfOverlap, Running, processes
<1>7. ASSUME NEW c \in Collector, Environment(c)
      PROVE  NoSelfOverlap'
  BY <1>7, EnvironmentStep DEF NoSelfOverlap, Running
<1> QED
  BY <1>1, <1>2, <1>3, <1>4, <1>5, <1>6, <1>7, Steps

LEMMA HonestStep ==
  ASSUME TypeOK, NoSelfOverlap, HonestInv, LoopInv, [Next]_vars
  PROVE  HonestInv'
<1>1. CASE Control
  BY <1>1, ControlStep DEF HonestInv, Honest
<1>2. CASE Tick
  <2>1. ASSUME NEW c \in Collector, run'[c] # None
        PROVE  Honest(run[c]) /\ run'[c] = Later(run[c]) /\ run[c] \in Run
    BY <1>2, <2>1, TickStep DEF HonestInv, TypeOK
  <2> QED
    BY <1>2, <2>1, LaterRun, TickStep DEF HonestInv, Honest
<1>3. CASE UNCHANGED vars
  BY <1>3 DEF vars, thread, HonestInv, Honest
<1>4. ASSUME NEW c \in Collector, Reap(c)
      PROVE  HonestInv'
  BY <1>4, ReapStep DEF HonestInv, Honest
<1>5. ASSUME NEW c \in Collector, Fire(c)
      PROVE  HonestInv'
  BY <1>5, FireStep DEF HonestInv, Honest
<1>6. ASSUME NEW c \in Collector, Terminate(c)
      PROVE  HonestInv'
  BY <1>6, TerminateStep DEF HonestInv, Honest
<1>7. ASSUME NEW c \in Collector, Environment(c)
      PROVE  HonestInv'
  BY <1>7, EnvironmentStep DEF HonestInv, Honest, thread
<1> QED
  BY <1>1, <1>2, <1>3, <1>4, <1>5, <1>6, <1>7, Steps

LEMMA LoopStep ==
  ASSUME TypeOK, NoSelfOverlap, HonestInv, LoopInv, [Next]_vars
  PROVE  LoopInv'
<1>1. CASE Control
  BY <1>1, ControlStep
<1>2. CASE Tick
  BY <1>2, TickStep DEF LoopInv, Running
<1>3. CASE UNCHANGED vars
  BY <1>3 DEF vars, thread, LoopInv, Running
<1>4. ASSUME NEW c \in Collector, Reap(c)
      PROVE  LoopInv'
  <2>1. loop # "stopped"
    BY <1>4 DEF Reap
  <2> QED
    BY <1>4, <2>1, ReapStep DEF LoopInv
<1>5. ASSUME NEW c \in Collector, Fire(c)
      PROVE  LoopInv'
  BY <1>5, FireStep DEF LoopInv
<1>6. ASSUME NEW c \in Collector, Terminate(c)
      PROVE  LoopInv'
  BY <1>6, TerminateStep DEF LoopInv
<1>7. ASSUME NEW c \in Collector, Environment(c)
      PROVE  LoopInv'
  BY <1>7, EnvironmentStep DEF LoopInv, Running, thread
<1> QED
  BY <1>1, <1>2, <1>3, <1>4, <1>5, <1>6, <1>7, Steps

-----------------------------------------------------------------------------
(* Due times.                                                              *)

LEMMA DueStep ==
  ASSUME TypeOK, NoSelfOverlap, HonestInv, LoopInv, DueInv, [Next]_vars
  PROVE  DueInv'
<1>0. /\ \A c \in Collector : next_due[c] \in Int /\ Interval[c] \in Nat /\ Offset[c] \in Nat
      /\ since \in Nat
  BY Durations DEF TypeOK
<1>1. CASE Control
  <2>1. SUFFICES ASSUME ~once' PROVE DueInv'
    BY DEF DueInv
  <2>2. /\ ~once /\ next_due' = next_due /\ since' \in {since, 0}
        /\ loop' = "fire" => \/ loop = "fire" /\ todo' = todo /\ since' = since
                             \/ loop # "fire" /\ todo' = Collector /\ since' = 0
        /\ loop = "fire" /\ loop' # "fire" => since' = 0
    BY <1>1, <2>1, ControlStep
  <2> QED
    BY <1>0, <2>1, <2>2 DEF DueInv
<1>2. CASE Tick
  <2>1. SUFFICES ASSUME ~once' PROVE DueInv'
    BY DEF DueInv
  <2>2. /\ ~once /\ loop' = loop /\ todo' = todo
        /\ next_due' = IF Scheduling THEN [c \in Collector |-> next_due[c] - 1] ELSE next_due
        /\ since' = IF loop = "fire" THEN since + 1 ELSE since
    BY <1>2, <2>1, TickStep
  <2>3. CASE loop = "fire"
    <3>1. \A c \in Collector : next_due'[c] = next_due[c] - 1
      BY <2>2, <2>3 DEF Scheduling
    <3> QED
      BY <1>0, <2>2, <2>3, <3>1 DEF DueInv
  <2>4. CASE loop # "fire"
    <3>1. \A c \in Collector : next_due'[c] \in {next_due[c], next_due[c] - 1}
      BY <2>2 DEF TypeOK
    <3> QED
      BY <1>0, <2>2, <2>4, <3>1 DEF DueInv
  <2> QED
    BY <2>3, <2>4
<1>3. CASE UNCHANGED vars
  BY <1>3 DEF vars, thread, DueInv
<1>4. ASSUME NEW c \in Collector, Reap(c)
      PROVE  DueInv'
  BY <1>4, ReapStep DEF DueInv
<1>5. ASSUME NEW c \in Collector, Fire(c)
      PROVE  DueInv'
  <2>1. SUFFICES ASSUME ~once' PROVE DueInv'
    BY DEF DueInv
  <2>2. /\ ~once /\ loop' = loop /\ loop = "fire" /\ todo' = todo \ {c} /\ since' = since
        /\ \A d \in Collector \ {c} : next_due'[d] = next_due[d]
    BY <1>5, <2>1, FireStep, FireDueTime
  <2>3. next_due'[c] + since \in 1 .. Interval[c] + Offset[c]
    <3>1. CASE next_due'[c] = next_due[c] /\ next_due[c] + since > 0
      BY <1>0, <2>2, <3>1 DEF DueInv
    <3>2. CASE next_due'[c] = NextDue(c) /\ next_due[c] + since <= 0
      <4>1. NextDue(c) + since \in 1 .. Interval[c]
        BY <3>2, NextDueStep
      <4> QED
        BY <1>0, <3>2, <4>1
    <3> QED
      BY <1>5, <2>2, <3>1, <3>2, FireDueTime
  <2> QED
    BY <1>0, <2>1, <2>2, <2>3 DEF DueInv
<1>6. ASSUME NEW c \in Collector, Terminate(c)
      PROVE  DueInv'
  BY <1>6, TerminateStep DEF DueInv
<1>7. ASSUME NEW c \in Collector, Environment(c)
      PROVE  DueInv'
  BY <1>7, EnvironmentStep DEF DueInv, thread
<1> QED
  BY <1>1, <1>2, <1>3, <1>4, <1>5, <1>6, <1>7, Steps

LEMMA PhaseStep ==
  ASSUME TypeOK, NoSelfOverlap, HonestInv, LoopInv, PhaseInv, [Next]_vars
  PROVE  PhaseInv'
<1>1. CASE Control
  BY <1>1, ControlStep DEF PhaseInv
<1>2. CASE Tick
  <2>1. SUFFICES ASSUME ~once', ~stopping', NEW c \in Collector
                 PROVE  (clock' + next_due'[c]) % Interval[c] = Offset[c] % Interval[c]
    BY DEF PhaseInv
  <2>2. Scheduling /\ ~once /\ ~stopping
    BY <1>2, <2>1, TickStep DEF Scheduling
  <2>3. clock' = (clock + 1) % Period /\ next_due'[c] = next_due[c] - 1
    BY <1>2, <2>2, TickStep
  <2>4. clock \in 0 .. Period - 1 /\ next_due[c] \in Int
    BY DEF TypeOK
  <2> QED
    BY <2>2, <2>3, <2>4, ClockTick DEF PhaseInv
<1>3. CASE UNCHANGED vars
  BY <1>3 DEF vars, thread, PhaseInv
<1>4. ASSUME NEW c \in Collector, Reap(c)
      PROVE  PhaseInv'
  BY <1>4, ReapStep DEF PhaseInv
<1>5. ASSUME NEW c \in Collector, Fire(c)
      PROVE  PhaseInv'
  <2>1. SUFFICES ASSUME ~once', ~stopping', NEW d \in Collector
                 PROVE  (clock' + next_due'[d]) % Interval[d] = Offset[d] % Interval[d]
    BY DEF PhaseInv
  <2>2. ~once /\ ~stopping /\ clock' = clock
    BY <1>5, <2>1, FireStep
  <2>3. (clock + next_due[d]) % Interval[d] = Offset[d] % Interval[d]
    BY <2>2 DEF PhaseInv
  <2>4. PICK k \in Int : next_due'[d] = next_due[d] + k * Interval[d]
    <3>1. next_due[d] = next_due[d] + 0 * Interval[d]
      BY Durations DEF TypeOK
    <3>2. CASE next_due'[d] = next_due[d]
      BY <3>1, <3>2
    <3>3. CASE d = c /\ next_due'[c] = NextDue(c) /\ next_due[c] + since <= 0
      BY <3>3, NextDueStep
    <3> QED
      BY <1>5, <2>2, <3>2, <3>3, FireDueTime
  <2>5. (clock + next_due'[d]) % Interval[d] = (clock + next_due[d]) % Interval[d]
    <3> DEFINE n == Interval[d]
               a == clock + next_due[d]
    <3>1. n \in Nat \ {0} /\ a \in Int /\ k * n \in Int /\ clock \in Int /\ next_due[d] \in Int
      BY Durations DEF TypeOK
    <3>2. clock + next_due'[d] = a + k * n
      BY <2>4, <3>1
    <3> HIDE DEF n, a
    <3>3. (a + k * n) % n = a % n
      BY <3>1, ModShift
    <3> QED
      BY <3>2, <3>3 DEF n, a
  <2> QED
    BY <2>2, <2>3, <2>5
<1>6. ASSUME NEW c \in Collector, Terminate(c)
      PROVE  PhaseInv'
  BY <1>6, TerminateStep DEF PhaseInv
<1>7. ASSUME NEW c \in Collector, Environment(c)
      PROVE  PhaseInv'
  BY <1>7, EnvironmentStep DEF PhaseInv, thread
<1> QED
  BY <1>1, <1>2, <1>3, <1>4, <1>5, <1>6, <1>7, Steps

-----------------------------------------------------------------------------
(* The theorems.                                                           *)

LEMMA IInvInit == Init => IInv
<1> SUFFICES ASSUME Init PROVE IInv
  OBVIOUS
<1>1. \A c \in Collector : run[c] = None /\ leader[c] = "none" /\ strays[c] = 0
  BY DEF Init
<1>2. NoSelfOverlap /\ HonestInv
  BY <1>1 DEF NoSelfOverlap, Running, HonestInv
<1>3. LoopInv
  BY DEF Init, LoopInv
<1>4. ~once => next_due = Offset /\ loop = "idle" /\ since = 0 /\ clock = 0
  BY DEF Init
<1>5. DueInv
  BY <1>4, Durations DEF DueInv
<1>6. PhaseInv
  <2> SUFFICES ASSUME ~once, NEW c \in Collector
               PROVE  (clock + next_due[c]) % Interval[c] = Offset[c] % Interval[c]
    BY DEF PhaseInv
  <2>1. clock + next_due[c] = Offset[c]
    BY <1>4, Durations
  <2> QED
    BY <2>1
<1> QED
  BY <1>2, <1>3, <1>5, <1>6, TypeInit DEF IInv

LEMMA IInvStep == IInv /\ [Next]_vars => IInv'
BY TypeStep, OverlapStep, HonestStep, LoopStep, DueStep, PhaseStep DEF IInv

THEOREM Invariance == Spec => []IInv
BY IInvInit, IInvStep, PTL DEF Spec

(* The scheduler's records of its runs are the operating system's: a       *)
(* collector has one run at a time, and a run is signalled exactly when it *)
(* is flagged as timed out or, by a shutdown, as cancelled.                *)
THEOREM RunsAreAccounted == Spec => []RunsAccounted
<1>1. IInv => RunsAccounted
  <2> SUFFICES ASSUME IInv PROVE StatusTrue
    BY DEF IInv, RunsAccounted
  <2>1. ASSUME NEW c \in Running
        PROVE  Honest(run[c]) /\ run[c] \in Run
    BY <2>1 DEF IInv, HonestInv, Running, TypeOK
  <2> QED
    BY <2>1 DEF StatusTrue, FinalStatus, Honest, Run
<1> QED
  BY <1>1, Invariance, PTL

(* No drift: due times keep the phase of the first one, and a visit leaves *)
(* the next one ahead, by no more than an interval and the first offset.   *)
THEOREM DueTimesDoNotDrift == Spec => []NoDrift
<1>1. IInv => NoDrift
  <2> SUFFICES ASSUME IInv, ~once, NEW c \in Collector, loop = "fire", c \notin todo
               PROVE  next_due[c] + since \in 1 .. Interval[c] + Offset[c]
    BY DEF IInv, NoDrift, PhaseInv
  <2>1. next_due[c] + since \in Int /\ Interval[c] + Offset[c] \in Int
    BY Durations DEF IInv, TypeOK
  <2> QED
    BY <2>1 DEF IInv, DueInv
<1> QED
  BY <1>1, Invariance, PTL

(* When the scheduler has stopped, it has reaped every child it started.   *)
THEOREM ChildrenAreReaped == Spec => []NoChildOutlives
<1>1. IInv => NoChildOutlives
  BY DEF IInv, NoChildOutlives, NoSelfOverlap, LoopInv
<1> QED
  BY <1>1, Invariance, PTL
=============================================================================
