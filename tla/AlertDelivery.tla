----------------------------- MODULE AlertDelivery -----------------------------
(***************************************************************************)
(* Delivery of accepted alerts to one channel: the Redis guard             *)
(* (alert_engine/delivery/guard.py) around the Telegram adapter            *)
(* (delivery/telegram.py), the append-only receipts (receipts.py) and the  *)
(* runner commands that use them (runner.py: run-once, deliver,            *)
(* restore-delivery).                                                      *)
(*                                                                         *)
(* Each invocation of the runner is a process of its own that handles one  *)
(* alert and exits; several may run at once.  A lease in Redis keeps a     *)
(* second sender out, but only until its TTL; the delivered marker stops   *)
(* later sends; a receipt is written between the send and the marker.      *)
(*                                                                         *)
(* A provider message id is the pair of the process and its attempt.       *)
(***************************************************************************)
EXTENDS Integers, FiniteSetsExt, TLC

CONSTANTS
    Process,       \* invocations of run-once and deliver; a lease token is its process
    Alert,
    None,
    Failed,        \* the outcome of a send that is not confirmed
    MaxAttempts,   \* provider calls of one send (DEFAULT_MAX_ATTEMPTS)
    MaxRaces,      \* MAX_WRITE_RACES
    MaxLosses      \* bound: Redis restarts per behaviour

ASSUME BoundsAssumption ==
    /\ MaxAttempts \in Nat \ {0} /\ MaxRaces \in Nat \ {0} /\ MaxLosses \in Nat
    /\ IsFiniteSet(Process)

VARIABLES
    accepted, history,        \* Redis seen markers; every alert ever accepted
    lease, delivered, saved,  \* Redis: holder, message id; delivered in the snapshot
    chat,                     \* messages Telegram has accepted, per alert
    files,                    \* receipt files, per alert: sequence -> receipt
    pc, alert, outcome, receipt_error, code,   \* per process
    attempts, sequence, races,                 \* per process, inside a send
    phase, toRestore, losses, \* Redis live, or lost and being restored
    excused, overrun          \* history: alerts whose send went unrecorded, and senders
                              \* whose lease ran out under them

store    == <<accepted, history, lease, delivered, saved>>
recovery == <<phase, toRestore, losses>>
send     == <<attempts, sequence, races>>
locals   == <<pc, alert, send, outcome, receipt_error, code>>
ghosts   == <<excused, overrun>>
vars     == <<store, chat, files, locals, recovery, ghosts>>

Message == Process \X (1 .. MaxAttempts)
Receipt == [by : Process, outcome : Message \cup {Failed}]

(* Exit codes of the runner (its STATE is a word of TLA+).                 *)
OK == 0
INVALID == 2
UNAVAILABLE == 3
DELIVERY == 4
STORAGE == 5

ASSUME NoneIsFresh ==
    /\ None \notin Process /\ None \notin Alert /\ None \notin Message
    /\ Failed \notin Message /\ None # Failed
    /\ None \notin {OK, INVALID, UNAVAILABLE, DELIVERY, STORAGE}

Init ==
    /\ accepted = {} /\ history = {}
    /\ lease = [a \in Alert |-> None]
    /\ delivered = [a \in Alert |-> None] /\ saved = [a \in Alert |-> None]
    /\ chat = [a \in Alert |-> {}]
    /\ files = [a \in Alert |-> <<>>]
    /\ pc = [p \in Process |-> "ready"]
    /\ alert = [p \in Process |-> None]
    /\ attempts = [p \in Process |-> 0] /\ outcome = [p \in Process |-> None]
    /\ sequence = [p \in Process |-> 0] /\ races = [p \in Process |-> 0]
    /\ receipt_error = [p \in Process |-> FALSE] /\ code = [p \in Process |-> None]
    /\ phase = "live" /\ toRestore = {} /\ losses = 0
    /\ excused = {} /\ overrun = {}

-------------------------------------------------------------------------------
(* The receipt directory                                                   *)

(* read_receipts fails closed on a gap in a sequence.                      *)
Readable == \A a \in Alert : DOMAIN files[a] = 1 .. Cardinality(DOMAIN files[a])

NextSequence(a) == 1 + Max({0} \cup DOMAIN files[a])

(* delivered_markers: the message ids the receipts prove.                  *)
Proven(a) == {files[a][n].outcome : n \in DOMAIN files[a]} \ {Failed}

-------------------------------------------------------------------------------
(* Commands up to the guard                                                *)

Goto(p, label) == pc' = [pc EXCEPT ![p] = label]

Exit(p, c) == Goto(p, "exited") /\ code' = [code EXCEPT ![p] = c]

(* The process has not touched anything but its own control state.         *)
OnlyControl ==
    UNCHANGED <<store, chat, files, alert, send, outcome, receipt_error, recovery, ghosts>>

(* _prepare_delivery checks everything before any state is touched.        *)
Start(p, c, a) ==
    /\ phase = "live" /\ pc[p] = "ready"
    /\ alert' = [alert EXCEPT ![p] = a]
    /\ IF Readable THEN Goto(p, c) /\ UNCHANGED code ELSE Exit(p, STORAGE)
    /\ UNCHANGED <<store, chat, files, send, outcome, receipt_error, recovery, ghosts>>

(* record() of the alert-state store, by its outcome (AlertStateStore):    *)
(* the alert is accepted and this caller told so; or accepted and the      *)
(* caller told otherwise (lost reply, resent commit); or not accepted now. *)
Accept(p) == accepted' = accepted \cup {alert[p]} /\ history' = history \cup {alert[p]}

Record(p) ==
    /\ pc[p] = "run-once"
    /\ \/ /\ alert[p] \notin accepted
          /\ Accept(p)
          /\ \/ Goto(p, "exists") /\ UNCHANGED code
             \/ \E c \in {OK, UNAVAILABLE} : Exit(p, c)
       \/ \E c \in {OK, UNAVAILABLE} : Exit(p, c) /\ UNCHANGED <<accepted, history>>
    /\ UNCHANGED <<lease, delivered, saved, chat, files, alert, send,
                   outcome, receipt_error, recovery, ghosts>>

(* deliver requires the seen marker.                                       *)
CheckAccepted(p) ==
    /\ pc[p] = "deliver"
    /\ IF alert[p] \in accepted THEN Goto(p, "exists") /\ UNCHANGED code ELSE Exit(p, INVALID)
    /\ OnlyControl

-------------------------------------------------------------------------------
(* RedisDeliveryGuard.deliver                                              *)

CheckDelivered(p) ==
    /\ pc[p] = "exists"
    /\ IF delivered[alert[p]] # None THEN Exit(p, OK) ELSE Goto(p, "claim") /\ UNCHANGED code
    /\ OnlyControl

(* Mutant: the lease is set without NX.                                    *)
Claim_Overwrites(p) ==
    /\ pc[p] = "claim"
    /\ lease' = [lease EXCEPT ![alert[p]] = p]
    /\ Goto(p, "recheck") /\ UNCHANGED code
    /\ UNCHANGED <<accepted, history, delivered, saved, chat, files, alert, send,
                   outcome, receipt_error, recovery, ghosts>>

(* SET lease token NX EX.                                                  *)
Claim(p) ==
    /\ pc[p] = "claim"
    /\ IF lease[alert[p]] = None
         THEN /\ lease' = [lease EXCEPT ![alert[p]] = p]
              /\ Goto(p, "recheck") /\ UNCHANGED code
         ELSE Exit(p, UNAVAILABLE) /\ UNCHANGED lease
    /\ UNCHANGED <<accepted, history, delivered, saved, chat, files, alert,
                   send,
                   outcome, receipt_error, recovery, ghosts>>

(* The lease is set but the reply is lost, or the client sends the command *)
(* again and meets its own lease: nothing is sent, the lease stays.        *)
ClaimUnanswered(p) ==
    /\ pc[p] = "claim" /\ lease[alert[p]] = None
    /\ lease' = [lease EXCEPT ![alert[p]] = p]
    /\ Exit(p, UNAVAILABLE)
    /\ UNCHANGED <<accepted, history, delivered, saved, chat, files, alert,
                   send,
                   outcome, receipt_error, recovery, ghosts>>

(* Leaving the try block: the finally clause releases, then the command    *)
(* exits with c.                                                           *)
Leave(p, c) == Goto(p, "release") /\ code' = [code EXCEPT ![p] = c]

(* Mutant: the marker is not looked at again under the lease.              *)
Recheck_Skipped(p) ==
    /\ pc[p] = "recheck"
    /\ Goto(p, "send") /\ UNCHANGED code
    /\ OnlyControl

Recheck(p) ==
    /\ pc[p] = "recheck"
    /\ IF delivered[alert[p]] # None THEN Leave(p, OK) ELSE Goto(p, "send") /\ UNCHANGED code
    /\ OnlyControl

(* A RedisError before the send: fail closed.                              *)
RedisFails(p) ==
    /\ \/ pc[p] \in {"deliver", "exists", "claim"} /\ Exit(p, UNAVAILABLE)
       \/ pc[p] = "recheck" /\ Leave(p, UNAVAILABLE)
    /\ OnlyControl

(* Mutant: attempts are not counted.                                       *)
Post_Uncounted(p, accepts, reply) ==
    /\ pc[p] = "send"
    /\ reply = "confirmed" => accepts
    /\ LET m == <<p, 1>> IN
       /\ chat' = IF accepts THEN [chat EXCEPT ![alert[p]] = @ \cup {m}] ELSE chat
       /\ excused' = IF accepts /\ reply # "confirmed" THEN excused \cup {alert[p]} ELSE excused
       /\ IF reply = "retryable"
            THEN Goto(p, "backoff") /\ UNCHANGED outcome
            ELSE /\ outcome' = [outcome EXCEPT ![p] = IF reply = "confirmed" THEN m ELSE Failed]
                 /\ Goto(p, "list")
    /\ UNCHANGED <<store, files, alert, attempts, sequence, races,
                   receipt_error, code, recovery, overrun>>

(* One provider call.  Telegram may accept the message and the adapter not *)
(* learn it: a timeout, transport error or 5xx is retried, any other       *)
(* answer that is no message id ends the send.                             *)
Post(p, accepts, reply) ==
    /\ pc[p] = "send"
    /\ reply = "confirmed" => accepts
    /\ LET k == attempts[p] + 1
           m == <<p, k>>
       IN /\ attempts' = [attempts EXCEPT ![p] = k]
          /\ chat' = IF accepts THEN [chat EXCEPT ![alert[p]] = @ \cup {m}] ELSE chat
          /\ excused' = IF accepts /\ reply # "confirmed" THEN excused \cup {alert[p]} ELSE excused
          /\ IF reply = "retryable" /\ k < MaxAttempts
               THEN Goto(p, "backoff") /\ UNCHANGED outcome
               ELSE /\ outcome' = [outcome EXCEPT ![p] = IF reply = "confirmed" THEN m ELSE Failed]
                    /\ Goto(p, "list")
    /\ UNCHANGED <<store, files, alert, sequence, races,
                   receipt_error, code, recovery, overrun>>

Backoff(p) ==
    /\ pc[p] = "backoff"
    /\ Goto(p, "send")
    /\ UNCHANGED <<store, chat, files, alert, send, outcome, receipt_error, code,
                   recovery, ghosts>>

-------------------------------------------------------------------------------
(* append_receipt, called by RecordingAdapter.send                         *)

(* The locals of send and append_receipt are gone.                         *)
SendReturns(p) ==
    /\ attempts' = [attempts EXCEPT ![p] = 0]
    /\ sequence' = [sequence EXCEPT ![p] = 0]
    /\ races' = [races EXCEPT ![p] = 0]

(* Mutant: a failed send is marked like a confirmed one.                   *)
AfterReceipt_MarksFailed(p, error) ==
    /\ receipt_error' = [receipt_error EXCEPT ![p] = error]
    /\ SendReturns(p)
    /\ Goto(p, "mark") /\ UNCHANGED code

(* Mutant: a receipt failure is raised out of the guard.                   *)
AfterReceipt_Raises(p, error) ==
    /\ receipt_error' = [receipt_error EXCEPT ![p] = error]
    /\ SendReturns(p)
    /\ IF outcome[p] \in Message /\ ~error
         THEN Goto(p, "mark") /\ UNCHANGED code
         ELSE Leave(p, IF error THEN STORAGE ELSE DELIVERY)

(* After the receipt, written or not: the guard records a confirmed send.  *)
AfterReceipt(p, error) ==
    /\ receipt_error' = [receipt_error EXCEPT ![p] = error]
    /\ SendReturns(p)
    /\ IF outcome[p] \in Message
         THEN Goto(p, "mark") /\ UNCHANGED code
         ELSE Leave(p, IF error THEN STORAGE ELSE DELIVERY)

ListReceipts(p) ==
    /\ pc[p] = "list"
    /\ sequence' = [sequence EXCEPT ![p] = NextSequence(alert[p])]
    /\ Goto(p, "link")
    /\ UNCHANGED <<store, chat, files, alert, attempts, outcome, races,
                   receipt_error, code, recovery, ghosts>>

Written(p) ==
    LET had == files[alert[p]]
        new == [by |-> p, outcome |-> outcome[p]]
    IN files' = [files EXCEPT ![alert[p]] =
                   [n \in DOMAIN had \cup {sequence[p]} |-> IF n \in DOMAIN had THEN had[n] ELSE new]]

(* os.link never replaces: the loser of a race takes the next sequence, at *)
(* most MaxRaces times.                                                    *)
LinkReceipt(p) ==
    /\ pc[p] = "link"
    /\ IF sequence[p] \notin DOMAIN files[alert[p]]
         THEN Written(p) /\ AfterReceipt(p, FALSE)
         ELSE /\ IF races[p] + 1 = MaxRaces
                   THEN AfterReceipt(p, TRUE)
                   ELSE /\ races' = [races EXCEPT ![p] = @ + 1]
                        /\ Goto(p, "list")
                        /\ UNCHANGED <<attempts, sequence, receipt_error, code>>
              /\ UNCHANGED files
    /\ UNCHANGED <<store, chat, alert, outcome, recovery, ghosts>>

(* An OSError: nothing linked, or linked and then reported as not written  *)
(* (the temporary file cannot be removed).                                 *)
ReceiptFails(p) ==
    /\ \/ pc[p] \in {"list", "link"} /\ UNCHANGED files
       \/ pc[p] = "link" /\ sequence[p] \notin DOMAIN files[alert[p]] /\ Written(p)
    /\ AfterReceipt(p, TRUE)
    /\ UNCHANGED <<store, chat, alert, outcome, recovery, ghosts>>

-------------------------------------------------------------------------------
(* The marker and the release                                              *)

Mark(p) ==
    /\ pc[p] = "mark"
    /\ delivered' = [delivered EXCEPT ![alert[p]] = outcome[p]]
    /\ Leave(p, IF receipt_error[p] THEN STORAGE ELSE OK)
    /\ UNCHANGED <<accepted, history, lease, saved, chat, files, alert, send,
                   outcome, receipt_error, recovery, ghosts>>

(* The SET fails, applied or not: the lease is kept until its TTL.         *)
MarkFails(p) ==
    /\ pc[p] = "mark"
    /\ \/ UNCHANGED delivered
       \/ delivered' = [delivered EXCEPT ![alert[p]] = outcome[p]]
    /\ Exit(p, UNAVAILABLE)
    /\ excused' = excused \cup {alert[p]}
    /\ UNCHANGED <<accepted, history, lease, saved, chat, files, alert, send,
                   outcome, receipt_error, recovery, overrun>>

(* Mutant: the lease is deleted without comparing the token.               *)
Release_AnyToken(p) ==
    /\ pc[p] = "release"
    /\ lease' = [lease EXCEPT ![alert[p]] = None]
    /\ Goto(p, "exited")
    /\ UNCHANGED <<accepted, history, delivered, saved, chat, files, alert, send,
                   outcome, receipt_error, code, recovery, ghosts>>

(* RELEASE deletes only our own token; its failure is ignored.             *)
Release(p) ==
    /\ pc[p] = "release"
    /\ \/ lease[alert[p]] = p /\ lease' = [lease EXCEPT ![alert[p]] = None]
       \/ UNCHANGED lease
    /\ Goto(p, "exited")
    /\ UNCHANGED <<accepted, history, delivered, saved, chat, files, alert, send,
                   outcome, receipt_error, code, recovery, ghosts>>

Running(p) == pc[p] \notin {"ready", "exited", "crashed"}

Sending(p) == pc[p] \in {"send", "backoff", "list", "link", "mark"}

(* The process is killed.  A message it has sent may go unrecorded.        *)
Crash(p) ==
    /\ Running(p)
    /\ Goto(p, "crashed") /\ SendReturns(p)
    /\ outcome' = [outcome EXCEPT ![p] = None]
    /\ code' = [code EXCEPT ![p] = None]
    /\ excused' = IF outcome[p] \in Message /\ Sending(p) THEN excused \cup {alert[p]} ELSE excused
    /\ UNCHANGED <<store, chat, files, alert, receipt_error, recovery, overrun>>

(* The lease's TTL runs out, perhaps under a sender slower than it.        *)
Expire(a) ==
    /\ lease[a] # None
    /\ lease' = [lease EXCEPT ![a] = None]
    /\ overrun' = IF Sending(lease[a]) \/ pc[lease[a]] = "recheck"
                    THEN overrun \cup {lease[a]} ELSE overrun
    /\ UNCHANGED <<accepted, history, delivered, saved, chat, files, locals, recovery, excused>>

-------------------------------------------------------------------------------
(* Loss of Redis and its recovery: single-writer steps, no sender active   *)

Quiet == \A p \in Process : ~Running(p)

Snapshot ==
    /\ phase = "live" /\ saved # delivered
    /\ saved' = delivered
    /\ UNCHANGED <<accepted, history, lease, delivered, chat, files, locals, recovery, ghosts>>

(* Redis restarts; what its snapshot lacks of the markers is lost.         *)
Restart ==
    /\ Quiet /\ losses < MaxLosses
    /\ losses' = losses + 1
    /\ accepted' = {} /\ lease' = [a \in Alert |-> None] /\ delivered' = saved
    /\ excused' = excused \cup {a \in Alert : saved[a] = None /\ Proven(a) = {}}
    /\ phase' = "lost" /\ toRestore' = {}
    /\ UNCHANGED <<history, saved, chat, files, locals, overrun>>

(* restore-state rebuilds the seen markers from the sealed history         *)
(* (AlertStateStore); cmd_restore_delivery then compares every marker with *)
(* the receipts before it writes one.                                      *)
Conflict(a) == delivered[a] # None /\ delivered[a] \notin Proven(a)

(* Mutant: markers are not compared first.                                 *)
RestoreBegin_Unchecked ==
    /\ phase = "lost"
    /\ accepted' = history
    /\ LET keys == {a \in Alert : Proven(a) # {}} IN
       phase' = (IF keys = {} THEN "live" ELSE "restoring") /\ toRestore' = keys
    /\ UNCHANGED <<history, lease, delivered, saved, chat, files, locals, losses, ghosts>>

RestoreBegin ==
    /\ phase = "lost"
    /\ accepted' = history
    /\ LET keys == {a \in Alert : Proven(a) # {}} IN
       IF ~Readable \/ \E a \in keys : Conflict(a)
         THEN phase' = "refused" /\ UNCHANGED toRestore
         ELSE phase' = (IF keys = {} THEN "live" ELSE "restoring") /\ toRestore' = keys
    /\ UNCHANGED <<history, lease, delivered, saved, chat, files, locals, losses, ghosts>>

(* The last delivered receipt of the alert, in sequence order.             *)
LastProven(a) ==
    files[a][CHOOSE n \in DOMAIN files[a] :
               /\ files[a][n].outcome # Failed
               /\ \A k \in DOMAIN files[a] : k > n => files[a][k].outcome = Failed].outcome

(* RESTORE_DELIVERED: written when absent.                                 *)
RestoreMarker(a) ==
    /\ phase = "restoring" /\ a \in toRestore
    /\ delivered' = [delivered EXCEPT ![a] = IF @ = None THEN LastProven(a) ELSE @]
    /\ toRestore' = toRestore \ {a}
    /\ phase' = IF toRestore = {a} THEN "live" ELSE phase
    /\ UNCHANGED <<accepted, history, lease, saved, chat, files, locals, losses, ghosts>>

(* A RedisError, or the restore is killed: it is started again.            *)
RestoreFails ==
    /\ phase = "restoring"
    /\ phase' = "lost" /\ toRestore' = {}
    /\ UNCHANGED <<store, chat, files, locals, losses, ghosts>>

-------------------------------------------------------------------------------
Reply == {"confirmed", "retryable", "final"}

Step(p) ==
    \/ Record(p) \/ CheckAccepted(p) \/ CheckDelivered(p)
    \/ Claim(p) \/ ClaimUnanswered(p) \/ Recheck(p) \/ RedisFails(p)
    \/ \E accepts \in BOOLEAN, reply \in Reply : Post(p, accepts, reply)
    \/ Backoff(p)
    \/ ListReceipts(p) \/ LinkReceipt(p) \/ ReceiptFails(p)
    \/ Mark(p) \/ MarkFails(p) \/ Release(p)

Next ==
    \/ \E p \in Process : Step(p) \/ Crash(p)
    \/ \E p \in Process, c \in {"run-once", "deliver"}, a \in Alert : Start(p, c, a)
    \/ \E a \in Alert : Expire(a) \/ RestoreMarker(a)
    \/ Snapshot \/ Restart \/ RestoreBegin \/ RestoreFails

Spec == Init /\ [][Next]_vars

(* Invocations are interchangeable (for the instances).                    *)
Symmetry == Permutations(Process)

(* A started process is run by the operating system until it ends.         *)
FairSpec == Spec /\ \A p \in Process : WF_vars(Step(p))
-------------------------------------------------------------------------------
(* Properties                                                              *)

(* Every variable has its type.                                            *)
TypeOK ==
    /\ accepted \subseteq history /\ history \subseteq Alert
    /\ lease \in [Alert -> Process \cup {None}]
    /\ delivered \in [Alert -> Message \cup {None}]
    /\ saved \in [Alert -> Message \cup {None}]
    /\ chat \in [Alert -> SUBSET Message]
    /\ \A a \in Alert : \A n \in DOMAIN files[a] : n \in Nat \ {0} /\ files[a][n] \in Receipt
    /\ pc \in [Process -> {"ready", "run-once", "deliver", "exists", "claim", "recheck", "send",
                           "backoff", "list", "link", "mark", "release", "exited", "crashed"}]
    /\ alert \in [Process -> Alert \cup {None}]
    /\ attempts \in [Process -> 0 .. MaxAttempts]
    /\ outcome \in [Process -> Message \cup {Failed, None}]
    /\ sequence \in [Process -> Nat]
    /\ races \in [Process -> 0 .. MaxRaces]
    /\ receipt_error \in [Process -> BOOLEAN]
    /\ code \in [Process -> {OK, INVALID, UNAVAILABLE, DELIVERY, STORAGE, None}]
    /\ phase \in {"live", "lost", "restoring", "refused"}
    /\ toRestore \subseteq Alert /\ losses \in 0 .. MaxLosses
    /\ excused \subseteq Alert /\ overrun \subseteq Process

(* At-least-once, and no more than the documented exceptions: Telegram has *)
(* two messages for an alert only if it accepted one without confirming it,*)
(* a confirmed send went unrecorded (crash, marker write failure, receipt  *)
(* and marker both lost with Redis), or a lease ran out under its sender.  *)
DuplicateNeedsExcuse ==
    \A a \in Alert : Cardinality(chat[a]) > 1 =>
      a \in excused \/ \E p \in overrun : alert[p] = a

(* The lease protects its holder from recheck to marker until its TTL, and *)
(* from everything the other processes do.                                 *)
LeaseProtects ==
    \A p \in Process :
      (Sending(p) \/ pc[p] = "recheck") /\ p \notin overrun => lease[alert[p]] = p

(* A marker, live or saved, names a message that Telegram has and that a   *)
(* receipt proves, unless its sender reported that the receipt failed.     *)
MarkerProven ==
    \A a \in Alert : \A m \in {delivered[a], saved[a]} \ {None} :
      m \in chat[a] /\ (m \in Proven(a) \/ receipt_error[m[1]])

(* Receipts stay readable through races and crashes: gap-free, at most one *)
(* per send, and that one there once the sender has it as written.         *)
ReceiptsFaithful ==
    /\ Readable
    /\ \A a \in Alert, i, j \in 1 .. Cardinality(Process) :
         {i, j} \subseteq DOMAIN files[a] /\ files[a][i].by = files[a][j].by => i = j
    /\ \A p \in Process :
         pc[p] \in {"mark", "release", "exited"} /\ outcome[p] # None /\ ~receipt_error[p] =>
           [by |-> p, outcome |-> outcome[p]] \in {files[alert[p]][n] : n \in DOMAIN files[alert[p]]}

(* The exit code table of docs/phase12e-alert-runner.md.  Exit 0 of a      *)
(* process that has sent stays true even after Redis is lost and restored. *)
ExitTrue(p) ==
    /\ outcome[p] \in Message /\ code[p] = OK =>
         outcome[p] \in Proven(alert[p]) /\ (phase = "live" => delivered[alert[p]] # None)
    /\ outcome[p] \in Message /\ code[p] = STORAGE =>
         delivered[alert[p]] # None \/ losses > 0
    /\ outcome[p] = Failed => code[p] \in {None, DELIVERY, STORAGE}
    /\ code[p] = DELIVERY => outcome[p] = Failed
    /\ code[p] = INVALID => outcome[p] = None

ExitCodesTrue == \A p \in Process : ExitTrue(p)

(* What an operator is told about a delivery is what happened to it, at    *)
(* every interleaving and kill: the receipt files and the exit codes, over *)
(* well-typed states.                                                      *)
ReportsTrue == TypeOK /\ ReceiptsFaithful /\ ExitCodesTrue

(* When senders are admitted again after a Redis loss, every alert that a  *)
(* receipt proves delivered has a marker, and one of the proven ids.       *)
RestoreComplete ==
    [][phase # "live" /\ phase' = "live" =>
         \A a \in Alert : Proven(a) # {} => delivered'[a] \in Proven(a)]_vars

(* Retries and write races are bounded: an invocation that is neither      *)
(* killed nor left unstarted exits.                                        *)
Terminates == \A p \in Process : Running(p) ~> ~Running(p)

===============================================================================
