---------------------------- MODULE AlertStateStore ----------------------------
(***************************************************************************)
(* The Redis boundary of the alert state (alert_engine/state_store.py).    *)
(*                                                                         *)
(* Runners are separate processes (`alert_engine.runner run-once`) sharing *)
(* one Redis.  record() reads the seen marker and the subject state in two *)
(* commands, classifies with the pure Decide, and commits a new alert with *)
(* one Lua compare-and-set, at most MaxAttempts times.  Any command may    *)
(* fail; a commit whose reply is lost may have been applied, and the client*)
(* library may send such a commit again by itself.                         *)
(*                                                                         *)
(* Redis is a cache of the sealed history: it may restart from an older    *)
(* snapshot, and restore() rebuilds it from the pure replay of the sealed  *)
(* alerts, in acceptance order, while no runner is active.                 *)
(***************************************************************************)
EXTENDS AlertState, FiniteSets

CONSTANTS
    Runner,        \* processes calling record()
    MaxAttempts,   \* MAX_COMMIT_ATTEMPTS
    MaxLosses      \* bound: Redis restarts per behaviour

ASSUME BoundsAssumption == MaxAttempts \in Nat \ {0} /\ MaxLosses \in Nat

VARIABLES
    seen, subjects,              \* Redis: seen markers, subject states
    snapshot,                    \* what Redis comes back with after a restart
    log, sealed,                 \* sealed history: accepted alerts, their replay
    pc, alert, sawSeen, raw, failed, result,   \* locals of record(), per runner
    phase, toCheck, toWrite, toMark, losses    \* recovery

redis    == <<seen, subjects>>
history  == <<log, sealed>>
locals   == <<pc, alert, sawSeen, raw, failed, result>>
recovery == <<phase, toCheck, toWrite, toMark, losses>>
vars     == <<redis, snapshot, history, locals, recovery>>

Outcome == {"new", "duplicate", "terminal_suppressed", "unavailable", "contended"}

ASSUME NoneIsNoOutcome == None \notin Outcome

\* The promised log is the sealed history; the cache and the runners are hidden.
Log == INSTANCE AlertLog WITH Alert <- Alert, SubjectOf <- SubjectOf, CodeOf <- CodeOf, log <- log

Init ==
    /\ seen = Empty.seen /\ subjects = Empty.subjects
    /\ snapshot = Empty
    /\ log = <<>> /\ sealed = Empty
    /\ pc = [r \in Runner |-> "idle"]
    /\ alert = [r \in Runner |-> None]
    /\ sawSeen = [r \in Runner |-> FALSE]
    /\ raw = [r \in Runner |-> None]
    /\ failed = [r \in Runner |-> 0]
    /\ result = [r \in Runner |-> None]
    /\ phase = "live" /\ toCheck = {} /\ toWrite = {} /\ toMark = {} /\ losses = 0

-------------------------------------------------------------------------------
(* record(alert)                                                           *)

Key(r) == SubjectOf[alert[r]]

Record(r, a) ==
    /\ phase = "live" /\ pc[r] = "idle"
    /\ pc' = [pc EXCEPT ![r] = "exists"]
    /\ alert' = [alert EXCEPT ![r] = a]
    /\ UNCHANGED <<redis, snapshot, history, sawSeen, raw, failed, result, recovery>>

(* The call returns, or raises AlertStateUnavailable; its locals are gone. *)
Return(r, outcome) ==
    /\ pc' = [pc EXCEPT ![r] = "done"]
    /\ result' = [result EXCEPT ![r] = outcome]
    /\ sawSeen' = [sawSeen EXCEPT ![r] = FALSE]
    /\ raw' = [raw EXCEPT ![r] = None]
    /\ UNCHANGED alert

(* _read, first command: EXISTS seen.                                      *)
ReadSeen(r) ==
    /\ pc[r] = "exists"
    /\ pc' = [pc EXCEPT ![r] = "get"]
    /\ sawSeen' = [sawSeen EXCEPT ![r] = alert[r] \in seen]
    /\ UNCHANGED <<redis, snapshot, history, alert, raw, failed, result, recovery>>

(* _read, second command: GET subject; then decide.                        *)
ReadSubject(r) ==
    /\ pc[r] = "get"
    /\ LET state == subjects[Key(r)]
           class == Decide(alert[r], state, sawSeen[r])
       IN \/ /\ class # "new"
             /\ Return(r, class)
          \/ /\ class = "new"
             /\ pc' = [pc EXCEPT ![r] = "commit"]
             /\ raw' = [raw EXCEPT ![r] = state]
             /\ UNCHANGED <<alert, sawSeen, result>>
    /\ UNCHANGED <<redis, snapshot, history, failed, recovery>>

(* Mutant: the script compares the subject with nothing.                   *)
CommitReply_NoCompare(r) == IF alert[r] \in seen THEN 0 ELSE 1

(* The Lua script COMMIT: its reply, and what it writes.                   *)
CommitReply(r) ==
    IF alert[r] \in seen THEN 0
    ELSE IF subjects[Key(r)] # raw[r] THEN -1
    ELSE 1

(* Mutant: the script forgets the seen marker.                              *)
CommitEffect_NoMarker(r) ==
    IF CommitReply(r) = 1
      THEN /\ subjects' = [subjects EXCEPT ![Key(r)] = NextState(alert[r], raw[r])]
           /\ log' = Append(log, alert[r])
           /\ sealed' = ReplayStep(sealed, alert[r])
           /\ UNCHANGED seen
      ELSE UNCHANGED <<redis, history>>

(* Evaluating the script: the accepted alert joins the sealed history.     *)
CommitEffect(r) ==
    IF CommitReply(r) = 1
      THEN /\ seen' = seen \cup {alert[r]}
           /\ subjects' = [subjects EXCEPT ![Key(r)] = NextState(alert[r], raw[r])]
           /\ log' = Append(log, alert[r])
           /\ sealed' = ReplayStep(sealed, alert[r])
      ELSE UNCHANGED <<redis, history>>

(* Mutant: the loop commits again without reading again.                   *)
AfterFailedCommit_NoReread(r) ==
    /\ failed' = [failed EXCEPT ![r] = @ + 1]
    /\ IF failed[r] + 1 = MaxAttempts
         THEN Return(r, "contended")
         ELSE UNCHANGED <<pc, raw, alert, sawSeen, result>>

(* The loop: read again and decide again, at most MaxAttempts times.       *)
AfterFailedCommit(r) ==
    /\ failed' = [failed EXCEPT ![r] = @ + 1]
    /\ IF failed[r] + 1 = MaxAttempts
         THEN Return(r, "contended")
         ELSE /\ pc' = [pc EXCEPT ![r] = "exists"]
              /\ raw' = [raw EXCEPT ![r] = None]
              /\ sawSeen' = [sawSeen EXCEPT ![r] = FALSE]
              /\ UNCHANGED <<alert, result>>

(* Mutant: the reply of the script is not looked at.                       *)
Commit_IgnoresReply(r) ==
    /\ pc[r] = "commit"
    /\ CommitEffect(r)
    /\ Return(r, "new")
    /\ UNCHANGED <<failed, snapshot, recovery>>

Commit(r) ==
    /\ pc[r] = "commit"
    /\ CommitEffect(r)
    /\ IF CommitReply(r) = 1
         THEN Return(r, "new") /\ UNCHANGED failed
         ELSE AfterFailedCommit(r)
    /\ UNCHANGED <<snapshot, recovery>>

(* The commit is applied and its reply lost: record() raises.              *)
CommitReplyLost(r) ==
    /\ pc[r] = "commit"
    /\ CommitEffect(r)
    /\ Return(r, "unavailable")
    /\ UNCHANGED <<snapshot, failed, recovery>>

(* The commit is applied, its reply lost, and the client sends it again.   *)
CommitResent(r) ==
    /\ pc[r] = "commit" /\ CommitReply(r) = 1
    /\ CommitEffect(r)
    /\ UNCHANGED <<snapshot, locals, recovery>>

(* A RedisError on a command that was not applied: fail closed.            *)
RedisFails(r) ==
    /\ pc[r] \in {"exists", "get", "commit"}
    /\ Return(r, "unavailable")
    /\ UNCHANGED <<redis, snapshot, history, failed, recovery>>

(* The process exits after its summary, or is killed at any point.         *)
Exit(r) ==
    /\ pc[r] # "idle"
    /\ pc' = [pc EXCEPT ![r] = "idle"]
    /\ alert' = [alert EXCEPT ![r] = None]
    /\ sawSeen' = [sawSeen EXCEPT ![r] = FALSE]
    /\ raw' = [raw EXCEPT ![r] = None]
    /\ failed' = [failed EXCEPT ![r] = 0]
    /\ result' = [result EXCEPT ![r] = None]
    /\ UNCHANGED <<redis, snapshot, history, recovery>>

-------------------------------------------------------------------------------
(* Redis persistence (external) and restore(replay_state)                  *)

Snapshot ==
    /\ phase = "live"
    /\ snapshot' = [seen |-> seen, subjects |-> subjects]
    /\ UNCHANGED <<redis, history, locals, recovery>>

(* Redis restarts with its last snapshot.  Connections drop, so calls in   *)
(* flight end first (RedisFails); no runner is started before the cache is *)
(* restored (docs/phase12e-alert-runner.md, recovery after a Redis loss).  *)
Restart ==
    /\ losses < MaxLosses
    /\ \A r \in Runner : pc[r] \in {"idle", "done"}
    /\ losses' = losses + 1
    /\ seen' = snapshot.seen /\ subjects' = snapshot.subjects
    /\ phase' = "lost" /\ toCheck' = {} /\ toWrite' = {} /\ toMark' = {}
    /\ UNCHANGED <<snapshot, history, locals>>

(* The operator deletes a cache that restore refuses (external).           *)
Flush ==
    /\ phase = "refused"
    /\ seen' = {} /\ subjects' = Empty.subjects /\ snapshot' = Empty
    /\ phase' = "lost"
    /\ UNCHANGED <<history, locals, toCheck, toWrite, toMark, losses>>

Replayed == {s \in Subject : sealed.subjects[s] # None}

RestoreBegin ==
    /\ phase = "lost"
    /\ phase' = "checking"
    /\ toCheck' = Replayed /\ toWrite' = Replayed /\ toMark' = sealed.seen
    /\ UNCHANGED <<redis, snapshot, history, locals, losses>>

Abandon(p) == phase' = p /\ toCheck' = {} /\ toWrite' = {} /\ toMark' = {}

(* First loop: every cached subject is absent or equal to its replay.      *)
Disagrees(s) == subjects[s] # None /\ subjects[s] # sealed.subjects[s]

(* Mutant: writing starts after the first subject has been checked.        *)
RestoreCheck_FirstOnly(s) ==
    /\ phase = "checking" /\ s \in toCheck
    /\ IF Disagrees(s) THEN Abandon("refused")
                       ELSE phase' = "writing" /\ toCheck' = {} /\ UNCHANGED <<toWrite, toMark>>
    /\ UNCHANGED <<redis, snapshot, history, locals, losses>>

RestoreCheck(s) ==
    /\ phase = "checking" /\ s \in toCheck
    /\ \/ /\ Disagrees(s)
          /\ Abandon("refused")
       \/ /\ ~Disagrees(s)
          /\ toCheck' = toCheck \ {s}
          /\ phase' = IF toCheck = {s} THEN "writing" ELSE phase
          /\ UNCHANGED <<toWrite, toMark>>
    /\ UNCHANGED <<redis, snapshot, history, locals, losses>>

(* RESTORE_SUBJECT, then the SET NX markers.                               *)
RestoreSubject(s) ==
    /\ phase = "writing" /\ s \in toWrite
    /\ IF Disagrees(s)
         THEN Abandon("refused") /\ UNCHANGED subjects
         ELSE /\ subjects' = [subjects EXCEPT ![s] = sealed.subjects[s]]
              /\ toWrite' = toWrite \ {s}
              /\ phase' = IF toWrite = {s} THEN "marking" ELSE phase
              /\ UNCHANGED <<toCheck, toMark>>
    /\ UNCHANGED <<seen, snapshot, history, locals, losses>>

RestoreMark(a) ==
    /\ phase = "marking" /\ a \in toMark
    /\ seen' = seen \cup {a}
    /\ toMark' = toMark \ {a}
    /\ phase' = IF toMark = {a} THEN "live" ELSE phase
    /\ UNCHANGED <<subjects, snapshot, history, locals, toCheck, toWrite, losses>>

(* Nothing has been accepted yet: every loop of restore is empty.          *)
RestoreNothing ==
    /\ phase = "checking" /\ toCheck = {} /\ toMark = {}
    /\ phase' = "live"
    /\ UNCHANGED <<redis, snapshot, history, locals, toCheck, toWrite, toMark, losses>>

(* A RedisError, or the restore process dies: what is written stays.       *)
RestoreFails ==
    /\ phase \in {"checking", "writing", "marking"}
    /\ Abandon("lost")
    /\ UNCHANGED <<redis, snapshot, history, locals, losses>>

-------------------------------------------------------------------------------
RunnerStep(r) ==
    \/ ReadSeen(r) \/ ReadSubject(r) \/ Commit(r)
    \/ CommitReplyLost(r) \/ CommitResent(r) \/ RedisFails(r) \/ Exit(r)
    \/ \E a \in Alert : Record(r, a)

RestoreStep ==
    \/ RestoreBegin \/ RestoreNothing \/ RestoreFails
    \/ \E s \in Subject : RestoreCheck(s) \/ RestoreSubject(s)
    \/ \E a \in Alert : RestoreMark(a)

Next ==
    \/ \E r \in Runner : RunnerStep(r)
    \/ RestoreStep
    \/ Snapshot \/ Restart \/ Flush

Spec == Init /\ [][Next]_vars
-------------------------------------------------------------------------------
(* Properties                                                              *)

RedisState == [seen : SUBSET Alert, subjects : [Subject -> SubjectState \cup {None}]]

(* Every variable has its type, and no stored subject state is one that    *)
(* validated_subject_state would reject when it is read back.              *)
TypeOK ==
    /\ [seen |-> seen, subjects |-> subjects] \in RedisState
    /\ snapshot \in RedisState /\ sealed \in RedisState
    /\ log \in Seq(Alert)
    /\ pc \in [Runner -> {"idle", "exists", "get", "commit", "done"}]
    /\ alert \in [Runner -> Alert \cup {None}]
    /\ sawSeen \in [Runner -> BOOLEAN]
    /\ raw \in [Runner -> SubjectState \cup {None}]
    /\ failed \in [Runner -> 0 .. MaxAttempts]
    /\ result \in [Runner -> Outcome \cup {None}]
    /\ phase \in {"live", "lost", "checking", "writing", "marking", "refused"}
    /\ toCheck \subseteq Subject /\ toWrite \subseteq Subject /\ toMark \subseteq Alert
    /\ losses \in 0 .. MaxLosses
    /\ \A s \in Subject : subjects[s] # None => ValidSubjectState(s, subjects[s])

(* While runners are admitted, Redis holds exactly the state the sealed    *)
(* history leaves: no commit is half done and restore rebuilds all of it.  *)
CacheMatchesHistory ==
    phase = "live" => seen = sealed.seen /\ subjects = sealed.subjects

(* A restore that meets a disagreement has written nothing: once it starts *)
(* writing, no subject still to be written disagrees with the replay.      *)
RefusalWritesNothing ==
    phase = "writing" => \A s \in toWrite : ~Disagrees(s)

(* The same against the pure layer: the cache is the replay of the alerts  *)
(* in the order of their commits, whatever the runners interleaved; and a  *)
(* restore that finds a disagreement leaves the cache as it met it.        *)
CacheIsReplay ==
    /\ phase = "live" => [seen |-> seen, subjects |-> subjects] = Replay(log)
    /\ RefusalWritesNothing

(* What a runner is told is true of the history: "new" and "duplicate" only*)
(* of an accepted alert, "terminal_suppressed" only of a closed setup.     *)
Justified(r) ==
    /\ result[r] \in {"new", "duplicate"} => alert[r] \in Log!Accepted
    /\ result[r] = "terminal_suppressed" => Log!Closed(Key(r))

DecisionsJustified == \A r \in Runner : Justified(r)

(* Attempts are used up by progress of others only: k failed commits of a  *)
(* call need k alerts of its subject accepted (by anyone, or by its own    *)
(* unacknowledged commit).                                                 *)
ContentionNeedsProgress ==
    \A r \in Runner : pc[r] # "idle" =>
      failed[r] <= Cardinality({a \in Log!Accepted : SubjectOf[a] = Key(r)})

(* The store implements the acceptance history: no alert accepted twice,   *)
(* nothing about a setup after its first accepted invalidation, through    *)
(* every interleaving, lost reply, restart and restore.                    *)
ImplementsAlertLog == Log!Spec

(* state.py: "terminal_suppressed: ... a setup invalidated earlier by a    *)
(* different alert", and a duplicate takes precedence over it.             *)
SuppressedByAnother ==
    \A r \in Runner :
      result[r] = "terminal_suppressed" => alert[r] \notin Log!Accepted

===============================================================================
