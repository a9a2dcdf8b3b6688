---------------------------- MODULE PublishCycle ----------------------------
(***************************************************************************)
(* The operational cycle: the wrapper that systemd starts every half hour  *)
(* and that an operator may start by hand, the batch publisher it calls,   *)
(* and the ExecStopPost clean-up of the service.  They share a file lock,  *)
(* HALTED.json, publisher-owner.json and, in the cluster, the publisher    *)
(* deployment, the artifact store and the API that serves it.              *)
(*                                                                         *)
(* A step is one oc command or one file operation.  A command that fails   *)
(* (a timeout, a lost connection) may have taken effect.                   *)
(***************************************************************************)
EXTENDS Naturals, FiniteSets

CONSTANTS
    Service,    \* the service: its cycles run one at a time, each followed by ExecStopPost
    Manual,     \* a cycle started by the operator
    Batch,      \* how many artifacts a batch has
    MaxCycles,  \* bound: cycles that get as far as a run directory
    MaxFaults,  \* bound: failing commands and killed processes
    None

Process == {Service, Manual}
Run == 1..MaxCycles

ASSUME BatchAssumption == Batch \in Nat \ {0}
ASSUME BoundsAssumption == MaxCycles \in Nat /\ MaxFaults \in Nat
ASSUME NamesAssumption == Service # Manual /\ None \notin Run \cup Process

VARIABLES
    lock,       \* the process that holds cycle.lock
    halted,     \* HALTED.json: the run or the process it blames
    owner,      \* publisher-owner.json: the run that claimed the publisher
    replicas,   \* of the publisher deployment
    artifacts,  \* what the store holds: [Run -> number of artifacts of its batch]
    receipts,   \* runs with a published-manifest.json
    pc,         \* [Process -> the next step]
    run,        \* [Process -> its run directory]
    failed,     \* [Process -> the cycle has failed]
    cleaner,    \* [Process -> "publish" or "post": who called cleanup_owned_publisher]
    started,    \* bound: run directories made
    faults,     \* bound: faults so far
    seen,       \* ghost: [Process -> the claim its clean-up found]
    disturbed,  \* ghost: runs whose publisher another process took down while they used it
    reviewed    \* ghost: runs whose end the operator has to know of without a halt

files == <<lock, halted, owner, receipts>>
cluster == <<replicas, artifacts>>
ghosts == <<seen, disturbed, reviewed>>
vars == <<files, cluster, pc, run, failed, cleaner, started, faults, ghosts>>

Publishing == {"scale_up", "pod", "publish", "look", "scale_down", "check", "unlink"}
Points == Publishing \cup {"idle", "lock", "halt_check", "generate", "claim", "own", "visibility", "record", "halt"}

\* A process that is in publish() under its own claim.
Uses(p, r) == run[p] = r /\ pc[p] \in Publishing /\ cleaner[p] = "publish"

At(p, step) == pc[p] = step
Goto(p, step) == pc' = [pc EXCEPT ![p] = step]
Fails(p) == failed' = [failed EXCEPT ![p] = TRUE]
Fault == faults < MaxFaults /\ faults' = faults + 1
Keep == UNCHANGED <<cleaner, started, ghosts>>

Init == /\ lock = None /\ halted = None /\ owner = None /\ receipts = {}
        /\ replicas = 0 /\ artifacts = [r \in Run |-> 0]
        /\ pc = [p \in Process |-> "idle"]
        /\ run = [p \in Process |-> None]
        /\ failed = [p \in Process |-> FALSE]
        /\ cleaner = [p \in Process |-> "publish"]
        /\ started = 0 /\ faults = 0
        /\ seen = [p \in Process |-> None] /\ disturbed = {} /\ reviewed = {}
-----------------------------------------------------------------------------
(* The wrapper.                                                            *)

\* The timer fires, or the operator starts a cycle.
Start(p) == /\ At(p, "idle")
            /\ Goto(p, "lock")
            /\ run' = [run EXCEPT ![p] = None]
            /\ failed' = [failed EXCEPT ![p] = FALSE]
            /\ cleaner' = [cleaner EXCEPT ![p] = "publish"]
            /\ UNCHANGED <<files, cluster, started, faults, ghosts>>

\* The wrapper's process ends; ExecStopPost follows the service's.
End(p) == /\ lock' = IF lock = p THEN None ELSE lock
          /\ IF p = Service THEN Goto(p, "look") /\ cleaner' = [cleaner EXCEPT ![p] = "post"]
                            ELSE Goto(p, "idle") /\ UNCHANGED cleaner

TakeLock(p) == /\ At(p, "lock")
               /\ IF lock = None THEN lock' = p /\ Goto(p, "halt_check") /\ UNCHANGED cleaner ELSE End(p)
               /\ UNCHANGED <<halted, owner, receipts, cluster, run, failed, started, faults, ghosts>>

\* A halt ends the cycle with exit code 1; a scheduled one may also be out of its window.
CheckHalt(p) ==
    /\ At(p, "halt_check")
    /\ \/ halted = None /\ Goto(p, "generate") /\ UNCHANGED <<lock, failed, cleaner>>
       \/ halted # None /\ End(p) /\ Fails(p)
       \/ halted = None /\ p = Service /\ End(p) /\ UNCHANGED failed
    /\ UNCHANGED <<halted, owner, receipts, cluster, run, started, faults, ghosts>>

\* Preflight, technical snapshots, freshness, batch generation and validation.
Generate(p) ==
    /\ At(p, "generate")
    /\ \/ /\ started < MaxCycles /\ started' = started + 1
          /\ run' = [run EXCEPT ![p] = started + 1]
          /\ Goto(p, "claim")
          /\ UNCHANGED failed
       \/ Goto(p, "halt") /\ Fails(p) /\ UNCHANGED <<started, run>>
    /\ UNCHANGED <<files, cluster, cleaner, faults, ghosts>>

\* write_halt: O_EXCL, the first failure stays.
Recorded(p) == IF halted = None THEN p ELSE halted
Halt(p) == /\ At(p, "halt")
           /\ halted' = Recorded(p)
           /\ End(p)
           /\ UNCHANGED <<owner, receipts, cluster, run, failed, started, faults, ghosts>>
-----------------------------------------------------------------------------
(* publish().                                                              *)

\* The deployment must be at zero; nothing has been claimed yet when it is not.
Claim(p) == /\ At(p, "claim")
            /\ IF replicas = 0 THEN Goto(p, "own") /\ UNCHANGED failed ELSE Goto(p, "halt") /\ Fails(p)
            /\ UNCHANGED <<files, cluster, run, faults>> /\ Keep

\* OWNER.open('x').
Own(p) == /\ At(p, "own")
          /\ IF owner = None THEN owner' = run[p] /\ Goto(p, "scale_up") /\ UNCHANGED failed
                             ELSE UNCHANGED owner /\ Goto(p, "halt") /\ Fails(p)
          /\ UNCHANGED <<lock, halted, receipts, cluster, run, faults>> /\ Keep

\* A failure inside the try block leads to the clean-up.
Abandon(p) == Goto(p, "look") /\ Fails(p)

ScaleUp(p) == /\ At(p, "scale_up")
              /\ \/ replicas' = 1 /\ Goto(p, "pod") /\ UNCHANGED <<failed, faults>>
                 \/ replicas' \in {replicas, 1} /\ Abandon(p) /\ Fault
              /\ UNCHANGED <<files, artifacts, run>> /\ Keep

\* The bounded wait for the pod, its readiness, and the first verification of the store.
Pod(p) == /\ At(p, "pod")
          /\ \/ replicas = 1 /\ Goto(p, "publish") /\ UNCHANGED <<failed, faults>>
             \/ replicas = 0 /\ Abandon(p) /\ UNCHANGED faults
             \/ Abandon(p) /\ Fault
          /\ UNCHANGED <<files, cluster, run>> /\ Keep

\* Copy and publish one artifact after the other in the pod, while there is one.
Stored(r) == artifacts' = [artifacts EXCEPT ![r] = @ + 1]
Publish(p) ==
    LET r == run[p] IN
    /\ At(p, "publish") /\ artifacts[r] < Batch
    /\ \/ replicas = 1 /\ Stored(r) /\ UNCHANGED <<pc, failed, faults>>
       \/ replicas = 0 /\ UNCHANGED artifacts /\ Abandon(p) /\ UNCHANGED faults
       \/ replicas = 1 /\ (Stored(r) \/ UNCHANGED artifacts) /\ Abandon(p) /\ Fault
    /\ UNCHANGED <<files, replicas, run>> /\ Keep

Verify(p) == /\ At(p, "publish") /\ artifacts[run[p]] = Batch
             /\ \/ replicas = 1 /\ Goto(p, "look") /\ UNCHANGED <<failed, faults>>
                \/ replicas = 0 /\ Abandon(p) /\ UNCHANGED faults
                \/ Abandon(p) /\ Fault
             /\ UNCHANGED <<files, cluster, run>> /\ Keep

\* Every artifact's canonical body is served.
Visible(r) == artifacts[r] = Batch
Visibility(p) == /\ At(p, "visibility")
                 /\ \/ Visible(run[p]) /\ Goto(p, "record") /\ UNCHANGED <<failed, faults>>
                    \/ Goto(p, "halt") /\ Fails(p) /\ Fault
                 /\ UNCHANGED <<files, cluster, run>> /\ Keep

Record(p) == /\ At(p, "record")
             /\ receipts' = receipts \cup {run[p]}
             /\ End(p)
             /\ UNCHANGED <<halted, owner, cluster, run, failed, started, faults, ghosts>>
-----------------------------------------------------------------------------
(* cleanup_owned_publisher(), in publish's finally clause and as           *)
(* ExecStopPost.  It asks whether there is an owner, not which.            *)

\* Bug: ExecStopPost halts only for its own failure, not for the service's.
Cleaned_OwnFailure(p, broken) ==
    LET bad == failed[p] \/ broken IN
    /\ failed' = [failed EXCEPT ![p] = bad]
    /\ IF cleaner[p] = "publish" THEN Goto(p, IF bad THEN "halt" ELSE "visibility") /\ UNCHANGED halted
       ELSE Goto(p, "idle") /\ halted' = IF broken THEN Recorded(p) ELSE halted
\* After the clean-up: on to the API or to the halt; ExecStopPost halts if anything failed.
Cleaned(p, broken) ==
    LET bad == failed[p] \/ broken IN
    /\ failed' = [failed EXCEPT ![p] = bad]
    /\ IF cleaner[p] = "publish" THEN Goto(p, IF bad THEN "halt" ELSE "visibility") /\ UNCHANGED halted
       ELSE Goto(p, "idle") /\ halted' = IF bad THEN Recorded(p) ELSE halted

\* The claim it acts on is one that another process uses, or a later one than it found.
Others(p) == {r \in Run : owner = r /\ ((\E q \in Process \ {p} : Uses(q, r)) \/ r # seen[p])}
Disturbs(p) == disturbed' = disturbed \cup Others(p)

Look(p) == /\ At(p, "look")
           /\ IF owner = None THEN Cleaned(p, FALSE) ELSE Goto(p, "scale_down") /\ UNCHANGED <<failed, halted>>
           /\ seen' = [seen EXCEPT ![p] = owner]
           /\ UNCHANGED <<lock, owner, receipts, cluster, run, faults, cleaner, started, disturbed, reviewed>>

\* Bug: the ownership is given up even when the scaling failed.
ScaleDown_BestEffort(p) ==
    /\ At(p, "scale_down")
    /\ \/ replicas' = 0 /\ Goto(p, "check") /\ UNCHANGED <<failed, halted, faults>>
       \/ replicas' \in {replicas, 0} /\ Goto(p, "unlink") /\ Fault /\ UNCHANGED <<failed, halted>>
    /\ Disturbs(p)
    /\ UNCHANGED <<lock, owner, receipts, artifacts, run, cleaner, started, seen, reviewed>>
ScaleDown(p) == /\ At(p, "scale_down")
                /\ \/ replicas' = 0 /\ Goto(p, "check") /\ UNCHANGED <<failed, halted, faults>>
                   \/ replicas' \in {replicas, 0} /\ Cleaned(p, TRUE) /\ Fault
                /\ Disturbs(p)
                /\ UNCHANGED <<lock, owner, receipts, artifacts, run, cleaner, started, seen, reviewed>>

Check(p) == /\ At(p, "check")
            /\ \/ replicas = 0 /\ Goto(p, "unlink") /\ UNCHANGED <<failed, halted, faults>>
               \/ replicas # 0 /\ Cleaned(p, TRUE) /\ UNCHANGED faults
               \/ Cleaned(p, TRUE) /\ Fault
            /\ UNCHANGED <<lock, owner, receipts, cluster, run>> /\ Keep

Unlink(p) == /\ At(p, "unlink")
             /\ Cleaned(p, owner = None)
             /\ owner' = None
             /\ Disturbs(p)
             /\ UNCHANGED <<lock, receipts, cluster, run, faults, cleaner, started, seen, reviewed>>
-----------------------------------------------------------------------------
(* Interruptions and the operator.                                         *)

\* systemd's timeout or a signal ends the service's cycle, which counts as a failed run.
Interrupted == /\ cleaner[Service] = "publish" /\ ~At(Service, "idle")
               /\ End(Service) /\ Fails(Service) /\ Fault
               /\ UNCHANGED <<halted, owner, receipts, cluster, run, started, ghosts>>

\* The operator's cycle is killed, or the host goes down: nothing is cleaned up.
Dies(S) == /\ \E p \in S : ~At(p, "idle")
           /\ pc' = [p \in Process |-> IF p \in S THEN "idle" ELSE pc[p]]
           /\ lock' = IF lock \in S THEN None ELSE lock
           /\ reviewed' = reviewed \cup {r \in Run : \E p \in S : run[p] = r /\ ~At(p, "idle")}
           /\ Fault
           /\ UNCHANGED <<halted, owner, receipts, cluster, run, failed, cleaner, started, seen, disturbed>>

\* The operator reconciles what has ended and clears the halt.
Active(r) == \E p \in Process : run[p] = r /\ ~At(p, "idle")
ClearHalt == /\ halted # None /\ halted' = None
             /\ reviewed' = reviewed \cup {r \in 1..started : ~Active(r)}
             /\ UNCHANGED <<lock, owner, receipts, cluster, pc, run, failed, cleaner, started, faults, seen, disturbed>>

Next == \/ \E p \in Process :
            \/ Start(p) \/ TakeLock(p) \/ CheckHalt(p) \/ Generate(p) \/ Halt(p)
            \/ Claim(p) \/ Own(p) \/ ScaleUp(p) \/ Pod(p) \/ Publish(p) \/ Verify(p)
            \/ Visibility(p) \/ Record(p)
            \/ Look(p) \/ ScaleDown(p) \/ Check(p) \/ Unlink(p)
        \/ Interrupted
        \/ Dies({Manual}) \/ Dies(Process)
        \/ ClearHalt

Spec == Init /\ [][Next]_vars
-----------------------------------------------------------------------------
\* Every variable keeps to its type; no run stores more artifacts than its batch has.
TypeOK ==
    /\ lock \in Process \cup {None} /\ halted \in Process \cup {None}
    /\ owner \in Run \cup {None} /\ receipts \subseteq Run
    /\ replicas \in 0..1 /\ artifacts \in [Run -> 0..Batch]
    /\ pc \in [Process -> Points]
    /\ run \in [Process -> Run \cup {None}]
    /\ failed \in [Process -> BOOLEAN] /\ cleaner \in [Process -> {"publish", "post"}]
    /\ started \in 0..MaxCycles /\ faults \in 0..MaxFaults
    /\ seen \in [Process -> Run \cup {None}] /\ disturbed \subseteq Run /\ reviewed \subseteq Run

\* The publisher is up only while a claim says so, through failing commands and dead
\* processes: whoever comes next can see that it has to be taken down.
UpOnlyOwned == replicas = 1 /\ disturbed = {} => owner # None

\* A run is recorded as published only when the store has its whole batch and its claim on the
\* publisher is given back, whatever else took the publisher down in the meantime.
RecordedArePublished == \A r \in receipts : artifacts[r] = Batch /\ owner # r

\* A batch that ended half published, or published and unrecorded, has left a halt: no later
\* scheduled cycle goes on before the operator has looked at it.
UnrecordedHalts == \A r \in Run :
    artifacts[r] > 0 /\ ~Active(r) /\ r \notin receipts \cup reviewed => halted # None

\* What the receipts and the halt say about a batch is what became of it.
RecordsTrue == RecordedArePublished /\ UnrecordedHalts

\* "A file lock prevents overlapping cycles": no cycle, its clean-up included, takes the
\* publisher from another one that is publishing.
CyclesDoNotOverlap == disturbed = {}
=============================================================================
