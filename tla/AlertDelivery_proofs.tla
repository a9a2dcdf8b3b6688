-------------------------- MODULE AlertDelivery_proofs --------------------------
(***************************************************************************)
(* Safety of the delivery path for any set of alerts and invocations, any  *)
(* number of provider attempts and receipt races, and any number of Redis  *)
(* restarts.                                                               *)
(*                                                                         *)
(* None of the run's invariants is inductive.  IInv adds how far a process *)
(* has come (its outcome, receipt and exit code against its position), what *)
(* the receipt files say of their writers, how far a restore has come, and *)
(* who may still send for an alert that nothing has disturbed.             *)
(***************************************************************************)
EXTENDS AlertDelivery, FiniteSetTheorems, WellFoundedInduction, TLAPS

Unsent == {"ready", "run-once", "deliver", "exists", "claim", "recheck", "send", "backoff"}
Writing == {"list", "link"}
Over == {"mark", "release", "exited", "crashed"}

(* How far a process has come.                                             *)
ProcessOK(p) ==
    /\ pc[p] # "ready" => alert[p] \in Alert
    /\ p \in overrun => pc[p] # "ready"
    /\ pc[p] \in Unsent => outcome[p] = None
    /\ pc[p] \in Unsent \cup Writing => ~receipt_error[p]
    /\ pc[p] \in Writing \cup {"mark"} => outcome[p] # None
    /\ pc[p] = "mark" => outcome[p] \in Message
    /\ outcome[p] \in Message => outcome[p][1] = p /\ outcome[p] \in chat[alert[p]]
    /\ code[p] # None => pc[p] \in {"release", "exited"}

(* The bounded loops: provider attempts, receipt races.                    *)
LoopOK(p) ==
    /\ pc[p] \in Unsent => attempts[p] < MaxAttempts /\ races[p] = 0
    /\ pc[p] \in Writing => races[p] < MaxRaces
    /\ pc[p] = "link" => sequence[p] - 1 \in {0} \cup DOMAIN files[alert[p]]

ProcessInv == \A p \in Process : ProcessOK(p) /\ LoopOK(p)

(* The receipt files against the processes that wrote them.                *)
ReceiptsInv ==
    /\ DOMAIN files = Alert
    /\ \A a \in Alert : /\ IsFiniteSet(DOMAIN files[a])
                        /\ DOMAIN files[a] = 1 .. Cardinality(DOMAIN files[a])
    /\ \A a \in Alert : \A n \in DOMAIN files[a] :
         LET r == files[a][n] IN
         /\ r \in Receipt
         /\ alert[r.by] = a /\ pc[r.by] \in Over
         /\ r.outcome # Failed => r.outcome \in chat[a]
         /\ \A k \in DOMAIN files[a] : files[a][k].by = r.by => k = n
    /\ \A p \in Process :
         pc[p] \in {"mark", "release", "exited"} /\ outcome[p] # None /\ ~receipt_error[p] =>
           \E n \in DOMAIN files[alert[p]] : files[alert[p]][n] = [by |-> p, outcome |-> outcome[p]]

(* A restore has written the markers it no longer has on its list.         *)
RestoreInv ==
    /\ phase # "live" => Quiet
    /\ phase = "restoring" =>
         /\ \A a \in toRestore : Proven(a) # {}
         /\ \A a \in Alert : delivered[a] # None /\ Proven(a) # {} => delivered[a] \in Proven(a)
         /\ \A a \in Alert \ toRestore : Proven(a) # {} => delivered[a] # None

(* Nothing of what a duplicate may be excused by has happened to the alert.*)
Undisturbed(a) == a \notin excused /\ \A p \in overrun : alert[p] # a

(* Then its one message is remembered, and whoever is about to send is the *)
(* first to.                                                               *)
OnceInv ==
    \A a \in Alert : Undisturbed(a) =>
      /\ \A p \in Process : alert[p] = a /\ pc[p] \in {"send", "backoff"} => delivered[a] = None
      /\ chat[a] # {} => \E m \in Message :
           /\ chat[a] = {m}
           /\ \/ delivered[a] # None
              \/ phase # "live" /\ Proven(a) # {}
              \/ \E p \in Process : alert[p] = a /\ outcome[p] = m /\ pc[p] \in Writing \cup {"mark"}

IInv == /\ TypeOK /\ ProcessInv /\ ReceiptsInv /\ LeaseProtects /\ MarkerProven
        /\ ExitCodesTrue /\ RestoreInv /\ OnceInv

-------------------------------------------------------------------------------
(* Messages and the receipt directory                                      *)

LEMMA Messages ==
    /\ \A m \in Message : m # None /\ m # Failed /\ m[1] \in Process
    /\ \A p \in Process, k \in 1 .. MaxAttempts : <<p, k>> \in Message /\ <<p, k>>[1] = p
BY NoneIsFresh DEF Message

LEMMA ProvenMeans ==
    ASSUME NEW a \in Alert, NEW m
    PROVE  m \in Proven(a) <=> m # Failed /\ \E n \in DOMAIN files[a] : files[a][n].outcome = m
BY DEF Proven

(* The next sequence is one after the last: listing a gap-free directory   *)
(* counts its files.                                                       *)
LEMMA NextSequenceCounts ==
    ASSUME NEW a \in Alert, IsFiniteSet(DOMAIN files[a]),
           DOMAIN files[a] = 1 .. Cardinality(DOMAIN files[a])
    PROVE  /\ Cardinality(DOMAIN files[a]) \in Nat
           /\ NextSequence(a) = Cardinality(DOMAIN files[a]) + 1
<1> DEFINE n == Cardinality(DOMAIN files[a])
<1>1. n \in Nat
  BY FS_CardinalityType
<1>2. \A x : x \in {0} \cup DOMAIN files[a] <=> x \in 0 .. n
  BY <1>1
<1> HIDE DEF n
<1>3. Max({0} \cup DOMAIN files[a]) = n
  BY <1>1, <1>2 DEF Max
<1> QED
  BY <1>1, <1>3 DEF NextSequence, n

(* What linking a receipt does to the directory: it stays gap-free, and    *)
(* only the new file is new.                                               *)
Appended(p) ==
    LET a == alert[p] IN
    /\ pc[p] = "link"
    /\ DOMAIN files' = Alert
    /\ \A b \in Alert \ {a} : files'[b] = files[b]
    /\ IsFiniteSet(DOMAIN files'[a])
    /\ DOMAIN files'[a] = 1 .. Cardinality(DOMAIN files'[a])
    /\ sequence[p] \notin DOMAIN files[a]
    /\ DOMAIN files'[a] = DOMAIN files[a] \cup {sequence[p]}
    /\ \A n \in DOMAIN files[a] : files'[a][n] = files[a][n]
    /\ files'[a][sequence[p]] = [by |-> p, outcome |-> outcome[p]]

(* A sequence listed before other senders linked theirs is either taken or *)
(* still the next.                                                         *)
LEMMA LinkAppends ==
    ASSUME TypeOK, ProcessInv, ReceiptsInv, NEW p \in Process, pc[p] = "link",
           sequence[p] \notin DOMAIN files[alert[p]], Written(p)
    PROVE  Appended(p)
<1> DEFINE a == alert[p]
           n == Cardinality(DOMAIN files[a])
           r == [by |-> p, outcome |-> outcome[p]]
<1>1. /\ a \in Alert /\ n \in Nat /\ DOMAIN files[a] = 1 .. n /\ DOMAIN files = Alert
      /\ IsFiniteSet(DOMAIN files[a])
  BY FS_CardinalityType DEF ProcessInv, ProcessOK, ReceiptsInv
<1>2. sequence[p] = n + 1
  <2>1. sequence[p] \in Nat /\ sequence[p] - 1 \in {0} \cup (1 .. n) /\ sequence[p] \notin 1 .. n
    BY <1>1 DEF TypeOK, ProcessInv, LoopOK
  <2> QED
    BY <2>1, <1>1
<1>3. /\ DOMAIN files' = Alert /\ \A b \in Alert \ {a} : files'[b] = files[b]
      /\ files'[a] = [i \in DOMAIN files[a] \cup {sequence[p]} |->
                        IF i \in DOMAIN files[a] THEN files[a][i] ELSE r]
  BY <1>1 DEF Written
<1>4. /\ DOMAIN files'[a] = DOMAIN files[a] \cup {sequence[p]}
      /\ files'[a][sequence[p]] = r
      /\ \A i \in DOMAIN files[a] : files'[a][i] = files[a][i]
  BY <1>3
<1>6. DOMAIN files'[a] = 1 .. n + 1
  BY <1>1, <1>2, <1>4
<1>7. IsFiniteSet(1 .. n + 1) /\ Cardinality(1 .. n + 1) = n + 1
  <2>1. \A k \in Int : IsFiniteSet(1 .. k) /\ Cardinality(1 .. k) = IF 1 > k THEN 0 ELSE k - 1 + 1
    BY FS_Interval
  <2>2. n + 1 \in Int /\ n + 1 >= 1 /\ (n + 1) - 1 + 1 = n + 1
    BY <1>1
  <2> HIDE DEF n
  <2> QED
    BY <2>1, <2>2
<1> QED
  BY <1>1, <1>3, <1>4, <1>6, <1>7 DEF Appended

-------------------------------------------------------------------------------
(* What the steps before the send, and those that write a receipt, have in *)
(* common                                                                  *)

(* Nothing but a lease is taken, and no exit code claims a delivery by     *)
(* this process.                                                           *)
EarlyStep(p) ==
    /\ pc[p] \in Unsent \ {"send", "backoff"}
    /\ pc' \in [Process -> Unsent \cup Writing \cup Over]
    /\ code' \in [Process -> {OK, INVALID, UNAVAILABLE, DELIVERY, STORAGE, None}]
    /\ \A q \in Process \ {p} : pc'[q] = pc[q] /\ code'[q] = code[q] /\ alert'[q] = alert[q]
    /\ \/ pc'[p] \in Unsent \ {"ready", "backoff"} /\ code'[p] = None
       \/ pc'[p] \in {"release", "exited"} /\ code'[p] \in {OK, INVALID, UNAVAILABLE, STORAGE}
    /\ alert' \in [Process -> Alert \cup {None}]
    /\ alert'[p] \in Alert /\ (pc[p] # "ready" => alert'[p] = alert[p])
    /\ pc[p] = "ready" => phase = "live"
    /\ lease' \in [Alert -> Process \cup {None}]
    /\ \A a \in Alert : lease'[a] = lease[a] \/ (lease[a] = None /\ lease'[a] = p)
    /\ pc'[p] = "recheck" => lease'[alert[p]] = p /\ pc[p] # "ready"
    /\ pc'[p] = "send" => pc[p] = "recheck" /\ delivered[alert[p]] = None /\ lease' = lease
    /\ accepted' \subseteq history' /\ history' \subseteq Alert
    /\ UNCHANGED <<delivered, saved, chat, files, send, outcome, receipt_error, recovery, ghosts>>

LEMMA EarlySteps ==
    ASSUME TypeOK, ProcessInv, NEW p \in Process,
           \/ \E c \in {"run-once", "deliver"}, a \in Alert : Start(p, c, a)
           \/ Record(p) \/ CheckAccepted(p) \/ CheckDelivered(p) \/ Claim(p)
           \/ ClaimUnanswered(p) \/ Recheck(p) \/ RedisFails(p)
    PROVE  EarlyStep(p)
<1> USE DEF Goto, Exit, Leave, EarlyStep, Unsent, Writing, Over
<1>1. ProcessOK(p)
  BY DEF ProcessInv
<1>2. CASE \E c \in {"run-once", "deliver"}, a \in Alert : Start(p, c, a)
  BY <1>1, <1>2, SMTT(30) DEF Start, TypeOK, ProcessOK, store, send, recovery, ghosts
<1>3. CASE Record(p)
  BY <1>1, <1>3, SMTT(30) DEF Record, Accept, TypeOK, ProcessOK, store, send, recovery, ghosts
<1>4. CASE CheckAccepted(p)
  BY <1>1, <1>4, SMTT(30) DEF CheckAccepted, OnlyControl, TypeOK, ProcessOK, store, send, recovery, ghosts
<1>5. CASE CheckDelivered(p)
  BY <1>1, <1>5, SMTT(30) DEF CheckDelivered, OnlyControl, TypeOK, ProcessOK, store, send, recovery, ghosts
<1>6. CASE Claim(p)
  <2>1. CASE lease[alert[p]] = None
    <3>1. /\ pc[p] = "claim" /\ lease' = [lease EXCEPT ![alert[p]] = p]
          /\ Goto(p, "recheck") /\ UNCHANGED code
      BY <1>6, <2>1 DEF Claim
    <3>2. UNCHANGED <<accepted, history, delivered, saved, chat, files, alert, send,
                      outcome, receipt_error, recovery, ghosts>>
      BY <1>6 DEF Claim
    <3> QED
      BY <1>1, <2>1, <3>1, <3>2 DEF TypeOK, ProcessOK
  <2>2. CASE lease[alert[p]] # None
    <3>1. pc[p] = "claim" /\ Exit(p, UNAVAILABLE) /\ lease' = lease
      BY <1>6, <2>2 DEF Claim
    <3>2. UNCHANGED <<accepted, history, delivered, saved, chat, files, alert, send,
                      outcome, receipt_error, recovery, ghosts>>
      BY <1>6 DEF Claim
    <3> QED
      BY <1>1, <3>1, <3>2 DEF TypeOK, ProcessOK
  <2> QED
    BY <2>1, <2>2
<1>7. CASE ClaimUnanswered(p)
  BY <1>1, <1>7 DEF ClaimUnanswered, TypeOK, ProcessOK, store, send, recovery, ghosts
<1>8. CASE Recheck(p)
  <2>1. CASE delivered[alert[p]] = None
    BY <1>1, <1>8, <2>1 DEF Recheck, OnlyControl, TypeOK, ProcessOK, store, send, recovery, ghosts
  <2>2. CASE delivered[alert[p]] # None
    BY <1>1, <1>8, <2>2 DEF Recheck, OnlyControl, TypeOK, ProcessOK, store, send, recovery, ghosts
  <2> QED
    BY <2>1, <2>2
<1>9. CASE RedisFails(p)
  BY <1>1, <1>9 DEF RedisFails, OnlyControl, TypeOK, ProcessOK, store, send, recovery, ghosts
<1> QED
  BY <1>2, <1>3, <1>4, <1>5, <1>6, <1>7, <1>8, <1>9

(* append_receipt: the receipt is linked, and known to be or not; or it is *)
(* not, and the race is lost once more or for good.                        *)
ReceiptStep(p) ==
    /\ pc[p] \in Writing
    /\ Appended(p) \/ UNCHANGED files
    /\ \/ \E error \in BOOLEAN : AfterReceipt(p, error) /\ (error \/ Appended(p))
       \/ /\ pc[p] = "link" /\ races[p] + 1 # MaxRaces
          /\ races' = [races EXCEPT ![p] = @ + 1] /\ Goto(p, "list")
          /\ UNCHANGED <<files, attempts, sequence, receipt_error, code>>
    /\ UNCHANGED <<store, chat, alert, outcome, recovery, ghosts>>

LEMMA ReceiptSteps ==
    ASSUME TypeOK, ProcessInv, ReceiptsInv, NEW p \in Process, LinkReceipt(p) \/ ReceiptFails(p)
    PROVE  ReceiptStep(p)
<1>1. ASSUME Written(p), pc[p] = "link", sequence[p] \notin DOMAIN files[alert[p]]
      PROVE  Appended(p)
  BY <1>1, LinkAppends
<1>2. CASE LinkReceipt(p)
  BY <1>1, <1>2 DEF LinkReceipt, ReceiptStep, Writing
<1>3. CASE ReceiptFails(p)
  BY <1>1, <1>3 DEF ReceiptFails, ReceiptStep, Writing
<1> QED
  BY <1>2, <1>3

(* Receipts are only added: what they prove stays proven.                  *)
LEMMA ProvenGrows ==
    ASSUME ProcessInv, ReceiptsInv, NEW p \in Process, ReceiptStep(p)
    PROVE  /\ DOMAIN files' = Alert
           /\ \A a \in Alert : /\ DOMAIN files[a] \subseteq DOMAIN files'[a]
                               /\ \A n \in DOMAIN files[a] : files'[a][n] = files[a][n]
                               /\ Proven(a) \subseteq Proven(a)'
<1>1. alert[p] \in Alert
  BY DEF ReceiptStep, Writing, ProcessInv, ProcessOK
<1>2. /\ DOMAIN files' = Alert
      /\ \A a \in Alert : /\ DOMAIN files[a] \subseteq DOMAIN files'[a]
                          /\ \A n \in DOMAIN files[a] : files'[a][n] = files[a][n]
  BY <1>1 DEF ReceiptStep, Appended, ReceiptsInv
<1> QED
  BY <1>2 DEF Proven

(* Next, with its steps named as the proofs take them.                     *)
NextOf ==
    \/ \E p \in Process :
         \/ EarlyStep(p)
         \/ \E accepts \in BOOLEAN, reply \in Reply : Post(p, accepts, reply)
         \/ Backoff(p) \/ ListReceipts(p) \/ ReceiptStep(p)
         \/ Mark(p) \/ MarkFails(p) \/ Release(p) \/ Crash(p)
    \/ \E a \in Alert : Expire(a) \/ RestoreMarker(a)
    \/ Snapshot \/ Restart \/ RestoreBegin \/ RestoreFails
    \/ UNCHANGED vars

LEMMA Steps ==
    ASSUME TypeOK, ProcessInv, ReceiptsInv, [Next]_vars
    PROVE  NextOf
BY EarlySteps, ReceiptSteps DEF Next, Step, NextOf

-------------------------------------------------------------------------------
(* The last proven receipt exists                                          *)

LEMMA LargestExists ==
    ASSUME NEW n \in Nat, NEW S \in SUBSET (1 .. n), S # {}
    PROVE  \E x \in S : \A y \in S : y <= x
<1> DEFINE T == {n - x : x \in S}
<1>1. \A x \in S : n - x \in Nat
  OBVIOUS
<1>2. T \subseteq Nat /\ T # {}
  BY <1>1
<1>3. PICK t \in T : \A u \in T : <<u, t>> \notin OpToRel(<, Nat)
  BY <1>2, NatLessThanWellFounded, WFMin, Zenon
<1>4. \A u \in T : ~(u < t)
  BY <1>2, <1>3 DEF OpToRel
<1>5. PICK x \in S : t = n - x
  BY <1>3
<1>6. \A y \in S : n - y \in T
  OBVIOUS
<1> HIDE DEF T
<1> QED
  BY <1>4, <1>5, <1>6

LEMMA LastProvenIsProven ==
    ASSUME ReceiptsInv, NEW a \in Alert, Proven(a) # {}
    PROVE  LastProven(a) \in Proven(a)
<1> DEFINE n == Cardinality(DOMAIN files[a])
           S == {i \in DOMAIN files[a] : files[a][i].outcome # Failed}
           IsLast(i) == /\ files[a][i].outcome # Failed
                        /\ \A k \in DOMAIN files[a] : k > i => files[a][k].outcome = Failed
<1>1. n \in Nat /\ S \in SUBSET (1 .. n) /\ DOMAIN files[a] = 1 .. n
  BY FS_CardinalityType DEF ReceiptsInv
<1>2. S # {}
  BY ProvenMeans
<1>3. PICK x \in S : \A y \in S : y <= x
  BY <1>1, <1>2, LargestExists
<1>4. IsLast(x) /\ x \in DOMAIN files[a]
  BY <1>1, <1>3
<1>5. LET l == CHOOSE i \in DOMAIN files[a] : IsLast(i) IN l \in DOMAIN files[a] /\ IsLast(l)
  BY <1>4
<1> QED
  BY <1>5 DEF LastProven, Proven

-------------------------------------------------------------------------------
(* Types                                                                   *)

LEMMA TypeInit == Init => TypeOK
BY BoundsAssumption DEF Init, TypeOK

LEMMA TypeStep ==
    ASSUME TypeOK, ProcessInv, ReceiptsInv, RestoreInv, NextOf
    PROVE  TypeOK'
<1> USE DEF store, recovery, send, locals, ghosts, vars
<1>1. \A q \in Process : ProcessOK(q) /\ LoopOK(q)
  BY DEF ProcessInv
<1>2. ASSUME NEW p \in Process, EarlyStep(p)
      PROVE  TypeOK'
  BY <1>2 DEF EarlyStep, TypeOK, Unsent, Writing, Over
<1>3. ASSUME NEW p \in Process, NEW accepts \in BOOLEAN, NEW reply \in Reply, Post(p, accepts, reply)
      PROVE  TypeOK'
  <2> DEFINE k == attempts[p] + 1
  <2>1. k \in 1 .. MaxAttempts /\ <<p, k>> \in Message /\ alert[p] \in Alert
    BY <1>1, <1>3, BoundsAssumption DEF Post, ProcessOK, LoopOK, TypeOK, Message, Unsent
  <2>2. chat' \in [Alert -> SUBSET Message]
    BY <1>3, <2>1 DEF Post, TypeOK
  <2>3. outcome' \in [Process -> Message \cup {Failed, None}]
    BY <1>3, <2>1 DEF Post, TypeOK
  <2>4. excused' \subseteq Alert
    BY <1>3, <2>1 DEF Post, TypeOK
  <2>5. /\ attempts' \in [Process -> 0 .. MaxAttempts]
        /\ pc' \in [Process -> Unsent \cup Writing \cup Over]
    <3>1. attempts' = [attempts EXCEPT ![p] = k] /\ k \in 0 .. MaxAttempts
      BY <1>3, <2>1 DEF Post
    <3>2. \E l \in {"backoff", "list"} : pc' = [pc EXCEPT ![p] = l]
      BY <1>3 DEF Post, Goto
    <3> QED
      BY <3>1, <3>2 DEF TypeOK, Unsent, Writing, Over
  <2>6. UNCHANGED <<store, files, alert, sequence, races, receipt_error, code, recovery, overrun>>
    BY <1>3 DEF Post
  <2> QED
    BY <2>2, <2>3, <2>4, <2>5, <2>6 DEF TypeOK, Unsent, Writing, Over
<1>4. ASSUME NEW p \in Process, Backoff(p) \/ ListReceipts(p)
      PROVE  TypeOK'
  <2>1. CASE Backoff(p)
    BY <2>1 DEF Backoff, Goto, TypeOK
  <2>2. CASE ListReceipts(p)
    <3>1. alert[p] \in Alert
      BY <1>1, <2>2 DEF ListReceipts, ProcessOK
    <3>2. NextSequence(alert[p]) \in Nat
      BY <3>1, NextSequenceCounts DEF ReceiptsInv
    <3> QED
      BY <2>2, <3>2 DEF ListReceipts, Goto, TypeOK
  <2> QED
    BY <1>4, <2>1, <2>2
<1>5. ASSUME NEW p \in Process, ReceiptStep(p)
      PROVE  TypeOK'
  <2>1. alert[p] \in Alert /\ outcome[p] \in Message \cup {Failed}
    BY <1>1, <1>5 DEF ReceiptStep, Writing, ProcessOK, TypeOK
  <2>2. \A a \in Alert : \A n \in DOMAIN files'[a] : n \in Nat \ {0} /\ files'[a][n] \in Receipt
    <3>1. CASE UNCHANGED files
      BY <3>1 DEF TypeOK
    <3>2. CASE Appended(p)
      <4>1. [by |-> p, outcome |-> outcome[p]] \in Receipt
        BY <2>1 DEF Receipt
      <4>2. DOMAIN files'[alert[p]] \subseteq Nat \ {0}
        BY <2>1, <3>2, FS_CardinalityType DEF Appended
      <4> QED
        BY <2>1, <3>2, <4>1, <4>2 DEF Appended, TypeOK
    <3> QED
      BY <1>5, <3>1, <3>2 DEF ReceiptStep
  <2>3. /\ pc' \in [Process -> Unsent \cup Writing \cup Over]
        /\ receipt_error' \in [Process -> BOOLEAN]
        /\ code' \in [Process -> {OK, INVALID, UNAVAILABLE, DELIVERY, STORAGE, None}]
    <3>1. /\ \E l \in {"mark", "release", "list"} : pc' = [pc EXCEPT ![p] = l]
          /\ \/ UNCHANGED receipt_error
             \/ \E error \in BOOLEAN : receipt_error' = [receipt_error EXCEPT ![p] = error]
          /\ \/ UNCHANGED code
             \/ \E c \in {STORAGE, DELIVERY} : code' = [code EXCEPT ![p] = c]
      BY <1>5 DEF ReceiptStep, AfterReceipt, Leave, Goto
    <3> QED
      BY <3>1 DEF TypeOK, Unsent, Writing, Over
  <2>4. /\ attempts' \in [Process -> 0 .. MaxAttempts]
        /\ sequence' \in [Process -> Nat]
    <3>1. \/ UNCHANGED <<attempts, sequence>>
          \/ attempts' = [attempts EXCEPT ![p] = 0] /\ sequence' = [sequence EXCEPT ![p] = 0]
      BY <1>5 DEF ReceiptStep, AfterReceipt, SendReturns
    <3> QED
      BY <3>1, BoundsAssumption DEF TypeOK
  <2>5. races' \in [Process -> 0 .. MaxRaces]
    <3>1. races[p] \in 0 .. MaxRaces /\ races[p] < MaxRaces
      BY <1>1, <1>5 DEF ReceiptStep, LoopOK, TypeOK
    <3> QED
      BY <1>5, <3>1, BoundsAssumption DEF ReceiptStep, AfterReceipt, SendReturns, TypeOK
  <2> QED
    BY <1>5, <2>2, <2>3, <2>4, <2>5 DEF ReceiptStep, TypeOK, Unsent, Writing, Over
<1>6. ASSUME NEW p \in Process, Mark(p) \/ MarkFails(p) \/ Release(p)
      PROVE  TypeOK'
  <2>1. pc[p] = "mark" => outcome[p] \in Message /\ alert[p] \in Alert
    BY <1>1 DEF ProcessOK
  <2>2. CASE Mark(p)
    BY <2>1, <2>2 DEF Mark, Leave, Goto, TypeOK
  <2>3. CASE MarkFails(p)
    BY <2>1, <2>3 DEF MarkFails, Exit, Goto, TypeOK
  <2>4. CASE Release(p)
    BY <2>4 DEF Release, Goto, TypeOK
  <2> QED
    BY <1>6, <2>2, <2>3, <2>4
<1>7. ASSUME NEW p \in Process, Crash(p)
      PROVE  TypeOK'
  <2>1. alert[p] \in Alert
    BY <1>1, <1>7 DEF Crash, Running, ProcessOK
  <2> QED
    BY <1>7, <2>1, BoundsAssumption DEF Crash, SendReturns, Goto, TypeOK
<1>8. ASSUME NEW a \in Alert, Expire(a)
      PROVE  TypeOK'
  BY <1>8 DEF Expire, TypeOK
<1>9. ASSUME NEW a \in Alert, RestoreMarker(a)
      PROVE  TypeOK'
  <2>1. LastProven(a) \in Message
    <3>1. Proven(a) \subseteq Message
      BY DEF Proven, TypeOK, Receipt
    <3>2. Proven(a) # {}
      BY <1>9 DEF RestoreMarker, RestoreInv
    <3> QED
      BY <3>1, <3>2, LastProvenIsProven
  <2> QED
    BY <1>9, <2>1 DEF RestoreMarker, TypeOK
<1>10. CASE Snapshot \/ RestoreFails
  BY <1>10 DEF Snapshot, RestoreFails, TypeOK
<1>11. CASE Restart
  BY <1>11, BoundsAssumption DEF Restart, TypeOK
<1>12. CASE RestoreBegin
  BY <1>12 DEF RestoreBegin, TypeOK
<1>13. CASE UNCHANGED vars
  BY <1>13 DEF TypeOK
<1> QED
  BY <1>2, <1>3, <1>4, <1>5, <1>6, <1>7, <1>8, <1>9, <1>10, <1>11, <1>12, <1>13 DEF NextOf

-------------------------------------------------------------------------------
(* How far a process has come                                              *)

LEMMA ProcessInit == Init => ProcessInv
BY NoneIsFresh, BoundsAssumption
   DEF Init, ProcessInv, ProcessOK, LoopOK, Unsent, Writing, Over

(* What the others do to a process: messages and receipts are only added,  *)
(* and only a process that has started can lose its lease.                 *)
LEMMA Bystander ==
    ASSUME NEW q \in Process, ProcessOK(q), LoopOK(q),
           pc'[q] = pc[q], alert'[q] = alert[q], outcome'[q] = outcome[q], code'[q] = code[q],
           receipt_error'[q] = receipt_error[q], attempts'[q] = attempts[q],
           sequence'[q] = sequence[q], races'[q] = races[q],
           \A a \in Alert : chat[a] \subseteq chat'[a] /\ DOMAIN files[a] \subseteq DOMAIN files'[a],
           q \in overrun' => pc[q] # "ready"
    PROVE  ProcessOK(q)' /\ LoopOK(q)'
<1>1. outcome[q] \in Message => alert[q] \in Alert
  BY NoneIsFresh DEF ProcessOK, Unsent
<1>2. ProcessOK(q)'
  BY <1>1 DEF ProcessOK, Message
<1>3. pc[q] = "link" => alert[q] \in Alert
  BY DEF ProcessOK
<1>4. LoopOK(q)'
  BY <1>3 DEF LoopOK
<1> QED
  BY <1>2, <1>4

LEMMA ProcessStep ==
    ASSUME TypeOK, ProcessInv, ReceiptsInv, NextOf
    PROVE  ProcessInv'
<1> USE DEF store, recovery, send, locals, ghosts, vars
<1> SUFFICES ASSUME NEW q \in Process
             PROVE  ProcessOK(q)' /\ LoopOK(q)'
  BY DEF ProcessInv
<1>1. ProcessOK(q) /\ LoopOK(q)
  BY DEF ProcessInv
<1> DEFINE Idle == /\ pc'[q] = pc[q] /\ alert'[q] = alert[q] /\ outcome'[q] = outcome[q]
                   /\ code'[q] = code[q] /\ receipt_error'[q] = receipt_error[q]
                   /\ attempts'[q] = attempts[q] /\ sequence'[q] = sequence[q] /\ races'[q] = races[q]
           Grown == /\ \A a \in Alert : /\ chat[a] \subseteq chat'[a]
                                        /\ DOMAIN files[a] \subseteq DOMAIN files'[a]
                    /\ q \in overrun' => pc[q] # "ready"
<1>2. Idle /\ Grown => ProcessOK(q)' /\ LoopOK(q)'
  BY <1>1, Bystander
<1>3. ASSUME NEW p \in Process, EarlyStep(p)
      PROVE  ProcessOK(q)' /\ LoopOK(q)'
  <2>1. Grown
    BY <1>1, <1>3 DEF EarlyStep, ProcessOK
  <2>2. CASE q # p
    BY <1>2, <1>3, <2>1, <2>2 DEF EarlyStep
  <2>3. CASE q = p
    <3>1. ProcessOK(q)'
      BY <1>1, <1>3, <2>3, NoneIsFresh DEF EarlyStep, ProcessOK, Unsent, Writing
    <3>2. LoopOK(q)'
      BY <1>1, <1>3, <2>3 DEF EarlyStep, LoopOK, Unsent, Writing
    <3> QED
      BY <3>1, <3>2
  <2> QED
    BY <2>2, <2>3
<1>4. ASSUME NEW p \in Process, NEW accepts \in BOOLEAN, NEW reply \in Reply, Post(p, accepts, reply)
      PROVE  ProcessOK(q)' /\ LoopOK(q)'
  <2>1. alert[p] \in Alert /\ pc[p] = "send" /\ p \in Process
    BY <1>4 DEF Post, ProcessInv, ProcessOK
  <2>2. Grown
    BY <1>1, <1>4, <2>1 DEF Post, ProcessOK, TypeOK
  <2>3. CASE q # p
    BY <1>2, <1>4, <2>2, <2>3 DEF Post, Goto, TypeOK
  <2>4. CASE q = p
    <3>1. attempts[p] + 1 \in 1 .. MaxAttempts
      BY <1>1, <2>1, <2>4, BoundsAssumption DEF LoopOK, TypeOK, Unsent
    <3> DEFINE m == <<p, attempts[p] + 1>>
    <3>2. m \in Message /\ m[1] = p /\ m # None /\ Failed # None
      BY <3>1, Messages, NoneIsFresh
    <3>3. /\ alert'[p] = alert[p] /\ ~receipt_error'[p] /\ code'[p] = None
          /\ \/ pc'[p] = "backoff" /\ outcome'[p] = None
             \/ pc'[p] = "list" /\ outcome'[p] = Failed
             \/ pc'[p] = "list" /\ outcome'[p] = m /\ m \in chat'[alert[p]]
      BY <1>1, <1>4, <2>1, <2>4 DEF Post, Goto, ProcessOK, TypeOK, Unsent
    <3>4. ProcessOK(p)'
      BY <2>1, <3>2, <3>3, NoneIsFresh DEF ProcessOK, Unsent, Writing
    <3>5. /\ pc'[p] = "backoff" => attempts'[p] < MaxAttempts
          /\ pc'[p] \in {"backoff", "list"} /\ races'[p] = 0
      BY <1>1, <1>4, <2>1, <2>4 DEF Post, Goto, LoopOK, TypeOK, Unsent
    <3>6. LoopOK(p)'
      BY <3>5, BoundsAssumption DEF LoopOK, Unsent, Writing
    <3> QED
      BY <2>4, <3>4, <3>6
  <2> QED
    BY <2>3, <2>4
<1>5. ASSUME NEW p \in Process, Backoff(p)
      PROVE  ProcessOK(q)' /\ LoopOK(q)'
  BY <1>1, <1>5 DEF Backoff, Goto, ProcessOK, LoopOK, TypeOK, Unsent, Writing
<1>6. ASSUME NEW p \in Process, ListReceipts(p)
      PROVE  ProcessOK(q)' /\ LoopOK(q)'
  <2>1. CASE q # p
    BY <1>1, <1>2, <1>6, <2>1 DEF ListReceipts, Goto, ProcessOK, TypeOK
  <2>2. CASE q = p
    <3>1. ProcessOK(p)'
      BY <1>1, <1>6, <2>2 DEF ListReceipts, Goto, ProcessOK, TypeOK, Unsent, Writing
    <3>2. alert[p] \in Alert
      BY <1>1, <1>6, <2>2 DEF ListReceipts, ProcessOK
    <3> DEFINE n == Cardinality(DOMAIN files[alert[p]])
    <3>3. n \in Nat /\ NextSequence(alert[p]) = n + 1 /\ DOMAIN files[alert[p]] = 1 .. n
      BY <3>2, NextSequenceCounts DEF ReceiptsInv
    <3>4. sequence'[p] - 1 \in {0} \cup DOMAIN files[alert[p]]
      <4>1. sequence'[p] = n + 1
        BY <1>6, <3>3 DEF ListReceipts, TypeOK
      <4> HIDE DEF n
      <4> QED
        BY <3>3, <4>1
    <3>5. LoopOK(p)'
      BY <1>1, <1>6, <2>2, <3>4 DEF ListReceipts, Goto, LoopOK, TypeOK, Unsent, Writing
    <3> QED
      BY <2>2, <3>1, <3>5
  <2> QED
    BY <2>1, <2>2
<1>7. ASSUME NEW p \in Process, ReceiptStep(p)
      PROVE  ProcessOK(q)' /\ LoopOK(q)'
  <2>1. Grown
    BY <1>1, <1>7, ProvenGrows DEF ReceiptStep, ProcessOK
  <2>2. CASE q # p
    <3>1. Idle
      BY <1>7, <2>2 DEF ReceiptStep, AfterReceipt, SendReturns, Leave, Goto, TypeOK
    <3> QED
      BY <1>2, <2>1, <3>1
  <2>3. CASE q = p
    <3>1. /\ alert' = alert /\ outcome' = outcome /\ chat' = chat /\ overrun' = overrun
          /\ pc[p] \in Writing /\ races[p] \in Nat /\ races[p] < MaxRaces
      BY <1>1, <1>7, <2>3 DEF ReceiptStep, LoopOK, TypeOK
    <3>2. CASE \E error \in BOOLEAN : AfterReceipt(p, error)
      <4>1. pc'[p] \in {"mark", "release"}
        BY <3>2 DEF AfterReceipt, Leave, Goto, TypeOK
      <4>2. /\ pc'[p] = "mark" => outcome[p] \in Message /\ code' = code
            /\ code'[p] # None => pc'[p] = "release"
        BY <1>1, <2>3, <3>1, <3>2, <4>1 DEF AfterReceipt, Leave, Goto, TypeOK, ProcessOK, Writing
      <4> QED
        BY <1>1, <2>3, <3>1, <4>1, <4>2 DEF ProcessOK, LoopOK, Unsent, Writing
    <3>3. CASE ~ \E error \in BOOLEAN : AfterReceipt(p, error)
      <4>1. /\ races[p] + 1 # MaxRaces /\ races'[p] = races[p] + 1 /\ pc'[p] = "list"
            /\ UNCHANGED <<receipt_error, code>>
        BY <1>7, <3>3 DEF ReceiptStep, Goto, TypeOK
      <4> QED
        BY <1>1, <2>3, <3>1, <4>1, BoundsAssumption DEF ProcessOK, LoopOK, Unsent, Writing
    <3> QED
      BY <3>2, <3>3
  <2> QED
    BY <2>2, <2>3
<1>8. ASSUME NEW p \in Process, Mark(p) \/ MarkFails(p) \/ Release(p)
      PROVE  ProcessOK(q)' /\ LoopOK(q)'
  <2>1. /\ UNCHANGED <<chat, files, alert, attempts, sequence, races, outcome, receipt_error, overrun>>
        /\ pc[p] \in {"mark", "release"}
        /\ \E l \in {"release", "exited"} : pc' = [pc EXCEPT ![p] = l]
        /\ \A r \in Process : r # p => code'[r] = code[r]
    BY <1>8 DEF Mark, MarkFails, Release, Leave, Exit, Goto, TypeOK
  <2> QED
    BY <1>1, <2>1 DEF ProcessOK, LoopOK, TypeOK, Unsent, Writing
<1>9. ASSUME NEW p \in Process, Crash(p)
      PROVE  ProcessOK(q)' /\ LoopOK(q)'
  <2>1. CASE q # p
    BY <1>1, <1>2, <1>9, <2>1 DEF Crash, SendReturns, Goto, ProcessOK, TypeOK
  <2>2. CASE q = p
    BY <1>1, <1>9, <2>2, NoneIsFresh
       DEF Crash, Running, SendReturns, Goto, ProcessOK, LoopOK, TypeOK, Unsent, Writing
  <2> QED
    BY <2>1, <2>2
<1>10. ASSUME NEW a \in Alert, Expire(a)
       PROVE  ProcessOK(q)' /\ LoopOK(q)'
  <2>1. q \in overrun' => pc[q] # "ready"
    BY <1>1, <1>10 DEF Expire, Sending, ProcessOK
  <2> QED
    BY <1>2, <1>10, <2>1 DEF Expire
<1>11. ASSUME \/ \E a \in Alert : RestoreMarker(a)
              \/ Snapshot \/ Restart \/ RestoreBegin \/ RestoreFails \/ UNCHANGED vars
       PROVE  ProcessOK(q)' /\ LoopOK(q)'
  <2>1. Idle /\ UNCHANGED <<chat, files, overrun>>
    BY <1>11 DEF RestoreMarker, Snapshot, Restart, RestoreBegin, RestoreFails
  <2> QED
    BY <1>1, <1>2, <2>1 DEF ProcessOK
<1> QED
  BY <1>3, <1>4, <1>5, <1>6, <1>7, <1>8, <1>9, <1>10, <1>11 DEF NextOf

-------------------------------------------------------------------------------
(* The receipt files                                                       *)

LEMMA ReceiptsInit == Init => ReceiptsInv
<1> SUFFICES ASSUME Init PROVE ReceiptsInv
  OBVIOUS
<1>1. DOMAIN files = Alert /\ \A a \in Alert : DOMAIN files[a] = {}
  BY DEF Init
<1>2. IsFiniteSet({}) /\ Cardinality({}) = 0 /\ {} = 1 .. 0
  BY FS_EmptySet
<1>3. \A p \in Process : pc[p] = "ready"
  BY DEF Init
<1> QED
  BY <1>1, <1>2, <1>3 DEF ReceiptsInv

(* A sender whose send is over keeps what its receipt says; whoever claims *)
(* a receipt after a step that wrote none claimed it before.               *)
ReportsKept ==
    /\ \A w \in Process : pc[w] \in Over => alert'[w] = alert[w] /\ pc'[w] \in Over
    /\ \A a \in Alert : chat[a] \subseteq chat'[a]
    /\ \A w \in Process :
         pc'[w] \in {"mark", "release", "exited"} /\ outcome'[w] # None /\ ~receipt_error'[w] =>
           /\ pc[w] \in {"mark", "release", "exited"} /\ alert'[w] = alert[w]
           /\ outcome'[w] = outcome[w] /\ ~receipt_error[w]

LEMMA ReceiptsStep ==
    ASSUME TypeOK, ProcessInv, ReceiptsInv, NextOf
    PROVE  ReceiptsInv'
<1> USE DEF store, recovery, send, locals, ghosts, vars, Over
<1>1. \A q \in Process : ProcessOK(q)
  BY DEF ProcessInv
<1>2. ASSUME ReportsKept, files' = files
      PROVE  ReceiptsInv'
  <2>1. \A a \in Alert : \A n \in DOMAIN files[a] : files[a][n].by \in Process
    BY DEF ReceiptsInv, Receipt
  <2>2. \A a \in Alert : \A n \in DOMAIN files[a] :
          LET r == files[a][n] IN
          /\ alert'[r.by] = a /\ pc'[r.by] \in Over
          /\ r.outcome # Failed => r.outcome \in chat'[a]
    BY <1>2, <2>1 DEF ReceiptsInv, ReportsKept
  <2>3. \A p \in Process :
          pc'[p] \in {"mark", "release", "exited"} /\ outcome'[p] # None /\ ~receipt_error'[p] =>
            \E n \in DOMAIN files[alert'[p]] :
               files[alert'[p]][n] = [by |-> p, outcome |-> outcome'[p]]
    BY <1>2 DEF ReceiptsInv, ReportsKept
  <2> QED
    BY <1>2, <2>2, <2>3 DEF ReceiptsInv
<1>3. ASSUME NEW p \in Process, EarlyStep(p)
      PROVE  ReceiptsInv'
  BY <1>1, <1>2, <1>3 DEF EarlyStep, ReportsKept, ProcessOK, Unsent
<1>4. ASSUME NEW p \in Process, NEW accepts \in BOOLEAN, NEW reply \in Reply, Post(p, accepts, reply)
      PROVE  ReceiptsInv'
  <2>1. /\ pc[p] = "send" /\ alert[p] \in Alert /\ UNCHANGED <<files, alert, receipt_error>>
        /\ \E l \in {"backoff", "list"} : pc' = [pc EXCEPT ![p] = l]
        /\ \A w \in Process : w # p => outcome'[w] = outcome[w]
    BY <1>1, <1>4 DEF Post, Goto, ProcessOK, TypeOK
  <2>2. \A a \in Alert : chat[a] \subseteq chat'[a]
    BY <1>4, <2>1 DEF Post, TypeOK
  <2> QED
    BY <1>2, <2>1, <2>2 DEF ReportsKept, TypeOK
<1>5. ASSUME NEW p \in Process, Backoff(p) \/ ListReceipts(p)
      PROVE  ReceiptsInv'
  BY <1>2, <1>5 DEF Backoff, ListReceipts, Goto, ReportsKept, TypeOK
<1>6. ASSUME NEW p \in Process, ReceiptStep(p)
      PROVE  ReceiptsInv'
  <2> DEFINE a == alert[p]
             new == [by |-> p, outcome |-> outcome[p]]
  <2>1. /\ a \in Alert /\ pc[p] \in Writing /\ outcome[p] # None
        /\ UNCHANGED <<alert, outcome, chat>>
    BY <1>1, <1>6 DEF ReceiptStep, ProcessOK, Writing
  <2>2. outcome[p] # Failed => outcome[p] \in chat[a]
    BY <1>1, <2>1 DEF ProcessOK, TypeOK
  <2>3. /\ \A w \in Process \ {p} : pc'[w] = pc[w] /\ receipt_error'[w] = receipt_error[w]
        /\ \/ pc'[p] \in Writing
           \/ pc'[p] \in Over /\ (receipt_error'[p] \/ Appended(p))
    BY <1>6 DEF ReceiptStep, AfterReceipt, Leave, Goto, TypeOK, Writing
  <2>4. \A b \in Alert : \A n \in DOMAIN files[b] : files[b][n].by # p
    BY <2>1 DEF ReceiptsInv, Writing
  <2>5. CASE UNCHANGED files
    <3>1. ~ Appended(p)
      BY <2>1, <2>5 DEF Appended
    <3> QED
      BY <1>2, <2>1, <2>3, <2>5, <3>1 DEF ReportsKept, Writing
  <2>6. CASE Appended(p)
    <3>1. /\ pc[p] = "link" /\ DOMAIN files' = Alert
          /\ \A b \in Alert \ {a} : files'[b] = files[b]
          /\ DOMAIN files'[a] = DOMAIN files[a] \cup {sequence[p]}
          /\ \A n \in DOMAIN files[a] : files'[a][n] = files[a][n]
          /\ files'[a][sequence[p]] = new
      BY <2>6 DEF Appended
    <3>2. pc'[p] \in Over
      BY <1>6, <2>6 DEF ReceiptStep, Appended, AfterReceipt, Leave, Goto, TypeOK, ReceiptsInv
    <3>3. \A b \in Alert : /\ IsFiniteSet(DOMAIN files'[b])
                          /\ DOMAIN files'[b] = 1 .. Cardinality(DOMAIN files'[b])
      BY <2>6, <3>1 DEF Appended, ReceiptsInv
    <3>4. ASSUME NEW b \in Alert, NEW n \in DOMAIN files'[b]
          PROVE  LET r == files'[b][n] IN
                 /\ r \in Receipt
                 /\ alert'[r.by] = b /\ pc'[r.by] \in Over
                 /\ r.outcome # Failed => r.outcome \in chat'[b]
                 /\ \A k \in DOMAIN files'[b] : files'[b][k].by = r.by => k = n
      <4>1. CASE b = a /\ n = sequence[p]
        <5>1. new \in Receipt /\ new.by = p /\ new.outcome = outcome[p]
          BY <2>1 DEF Receipt, TypeOK
        <5>2. \A k \in DOMAIN files'[a] : files'[a][k].by = p => k = n
          BY <2>1, <2>4, <3>1, <4>1
        <5> QED
          BY <2>1, <2>2, <3>1, <3>2, <4>1, <5>1, <5>2
      <4>2. CASE ~(b = a /\ n = sequence[p])
        <5> DEFINE r == files[b][n]
        <5>1. n \in DOMAIN files[b] /\ files'[b][n] = r
          BY <3>1, <4>2
        <5>2. /\ r \in Receipt /\ r.by \in Process /\ r.by # p
              /\ alert[r.by] = b /\ pc[r.by] \in Over
              /\ r.outcome # Failed => r.outcome \in chat[b]
              /\ \A k \in DOMAIN files[b] : files[b][k].by = r.by => k = n
          BY <2>4, <5>1 DEF ReceiptsInv, Receipt
        <5>3. \A k \in DOMAIN files'[b] : files'[b][k].by = r.by => k = n
          BY <3>1, <5>2
        <5> QED
          BY <2>1, <2>3, <5>1, <5>2, <5>3
      <4> QED
        BY <4>1, <4>2
    <3>5. ASSUME NEW w \in Process, pc'[w] \in {"mark", "release", "exited"},
                 outcome'[w] # None, ~receipt_error'[w]
          PROVE  \E n \in DOMAIN files'[alert'[w]] :
                   files'[alert'[w]][n] = [by |-> w, outcome |-> outcome'[w]]
      <4>1. CASE w = p
        BY <2>1, <3>1, <4>1
      <4>2. CASE w # p
        <5>1. PICK n \in DOMAIN files[alert[w]] : files[alert[w]][n] = [by |-> w, outcome |-> outcome[w]]
          BY <2>1, <2>3, <3>5, <4>2 DEF ReceiptsInv
        <5>2. alert[w] \in Alert
          BY <1>1, <2>3, <3>5, <4>2 DEF ProcessOK
        <5> QED
          BY <2>1, <3>1, <5>1, <5>2
      <4> QED
        BY <4>1, <4>2
    <3> QED
      BY <3>1, <3>3, <3>4, <3>5 DEF ReceiptsInv
  <2> QED
    BY <1>6, <2>5, <2>6 DEF ReceiptStep
<1>7. ASSUME NEW p \in Process, Mark(p) \/ MarkFails(p) \/ Release(p)
      PROVE  ReceiptsInv'
  <2>1. /\ UNCHANGED <<chat, files, alert, outcome, receipt_error>>
        /\ pc[p] \in {"mark", "release"}
        /\ \E l \in {"release", "exited"} : pc' = [pc EXCEPT ![p] = l]
    BY <1>7 DEF Mark, MarkFails, Release, Leave, Exit, Goto
  <2> QED
    BY <1>2, <2>1 DEF ReportsKept, TypeOK
<1>8. ASSUME NEW p \in Process, Crash(p)
      PROVE  ReceiptsInv'
  BY <1>2, <1>8 DEF Crash, Goto, ReportsKept, TypeOK
<1>9. ASSUME \/ \E a \in Alert : Expire(a) \/ RestoreMarker(a)
             \/ Snapshot \/ Restart \/ RestoreBegin \/ RestoreFails \/ UNCHANGED vars
      PROVE  ReceiptsInv'
  <2>1. UNCHANGED <<chat, files, locals>>
    BY <1>9 DEF Expire, RestoreMarker, Snapshot, Restart, RestoreBegin, RestoreFails
  <2> QED
    BY <1>2, <2>1 DEF ReportsKept
<1> QED
  BY <1>3, <1>4, <1>5, <1>6, <1>7, <1>8, <1>9 DEF NextOf

-------------------------------------------------------------------------------
(* The lease                                                               *)

LEMMA LeaseStep ==
    ASSUME TypeOK, ProcessInv, RestoreInv, LeaseProtects, NextOf
    PROVE  LeaseProtects'
<1> USE DEF store, recovery, send, locals, ghosts, vars, Sending
<1> DEFINE Protected(q) == (Sending(q) \/ pc[q] = "recheck") /\ q \notin overrun
<1> SUFFICES ASSUME NEW q \in Process, Protected(q)'
             PROVE  lease'[alert'[q]] = q
  BY DEF LeaseProtects
<1>1. \A r \in Process : ProcessOK(r)
  BY DEF ProcessInv
<1>2. ASSUME Protected(q), alert'[q] = alert[q], lease'[alert[q]] = lease[alert[q]]
      PROVE  lease'[alert'[q]] = q
  BY <1>2 DEF LeaseProtects
<1>3. ASSUME NEW p \in Process, EarlyStep(p)
      PROVE  lease'[alert'[q]] = q
  <2>1. CASE q = p
    <3>1. pc'[p] \in {"recheck", "send"}
      BY <1>3, <2>1 DEF EarlyStep, Unsent
    <3>2. CASE pc'[p] = "recheck"
      BY <1>3, <2>1, <3>2 DEF EarlyStep
    <3>3. CASE pc'[p] = "send"
      <4>1. pc[p] = "recheck" /\ lease' = lease /\ alert'[p] = alert[p] /\ p \notin overrun
        BY <1>3, <2>1, <3>3 DEF EarlyStep
      <4> QED
        BY <1>2, <2>1, <4>1
    <3> QED
      BY <3>1, <3>2, <3>3
  <2>2. CASE q # p
    <3>1. Protected(q) /\ alert'[q] = alert[q] /\ alert[q] \in Alert
      BY <1>1, <1>3, <2>2 DEF EarlyStep, ProcessOK
    <3>2. lease[alert[q]] = q /\ q # None
      BY <3>1, NoneIsFresh DEF LeaseProtects
    <3> QED
      BY <1>3, <3>1, <3>2 DEF EarlyStep
  <2> QED
    BY <2>1, <2>2
<1>4. ASSUME NEW p \in Process,
             \/ \E accepts \in BOOLEAN, reply \in Reply : Post(p, accepts, reply)
             \/ Backoff(p) \/ ListReceipts(p) \/ ReceiptStep(p) \/ Mark(p) \/ MarkFails(p)
      PROVE  lease'[alert'[q]] = q
  <2>1. UNCHANGED <<lease, alert, overrun>> /\ Sending(p)
    BY <1>4 DEF Post, Backoff, ListReceipts, ReceiptStep, Mark, MarkFails, Writing
  <2>2. q # p => pc'[q] = pc[q]
    BY <1>4 DEF Post, Backoff, ListReceipts, ReceiptStep, AfterReceipt, Mark, MarkFails,
                Leave, Exit, Goto, TypeOK
  <2> QED
    BY <1>2, <2>1, <2>2
<1>5. ASSUME NEW p \in Process, Release(p) \/ Crash(p)
      PROVE  lease'[alert'[q]] = q
  <2>1. q # p /\ Protected(q) /\ alert'[q] = alert[q] /\ lease[alert[q]] = q
    BY <1>5 DEF Release, Crash, Goto, TypeOK, LeaseProtects
  <2>2. lease'[alert[q]] = lease[alert[q]]
    BY <1>1, <1>5, <2>1 DEF Release, Crash, TypeOK, ProcessOK
  <2> QED
    BY <1>2, <2>1, <2>2
<1>6. ASSUME NEW a \in Alert, Expire(a)
      PROVE  lease'[alert'[q]] = q
  <2>1. Protected(q) /\ alert'[q] = alert[q] /\ lease[alert[q]] = q /\ alert[q] \in Alert
    BY <1>1, <1>6 DEF Expire, LeaseProtects, ProcessOK
  <2>2. alert[q] # a
    BY <1>6, <2>1 DEF Expire
  <2> QED
    BY <1>2, <1>6, <2>1, <2>2 DEF Expire, TypeOK
<1>7. CASE Restart
  BY <1>7 DEF Restart, Quiet, Running
<1>8. ASSUME \/ \E a \in Alert : RestoreMarker(a)
             \/ Snapshot \/ RestoreBegin \/ RestoreFails \/ UNCHANGED vars
      PROVE  lease'[alert'[q]] = q
  BY <1>2, <1>8 DEF RestoreMarker, Snapshot, RestoreBegin, RestoreFails
<1> QED
  BY <1>3, <1>4, <1>5, <1>6, <1>7, <1>8 DEF NextOf

-------------------------------------------------------------------------------
(* The restore                                                             *)

(* Senders and a restore exclude each other.                               *)
LEMMA SendersAreLive ==
    ASSUME RestoreInv, NEW p \in Process,
           \/ EarlyStep(p)
           \/ \E accepts \in BOOLEAN, reply \in Reply : Post(p, accepts, reply)
           \/ Backoff(p) \/ ListReceipts(p) \/ ReceiptStep(p)
           \/ Mark(p) \/ MarkFails(p) \/ Release(p) \/ Crash(p)
    PROVE  phase = "live" /\ UNCHANGED recovery
<1>1. (pc[p] = "ready" /\ phase = "live") \/ Running(p)
  BY DEF EarlyStep, Post, Backoff, ListReceipts, ReceiptStep, Mark, MarkFails, Release, Crash,
         Running, Unsent, Writing
<1>2. UNCHANGED recovery
  BY DEF EarlyStep, Post, Backoff, ListReceipts, ReceiptStep, Mark, MarkFails, Release, Crash
<1> QED
  BY <1>1, <1>2 DEF RestoreInv, Quiet

LEMMA RestoreStep ==
    ASSUME TypeOK, ReceiptsInv, RestoreInv, NextOf
    PROVE  RestoreInv'
<1> USE DEF store, recovery, send, locals, ghosts, vars
<1>1. ASSUME NEW p \in Process,
             \/ EarlyStep(p)
             \/ \E accepts \in BOOLEAN, reply \in Reply : Post(p, accepts, reply)
             \/ Backoff(p) \/ ListReceipts(p) \/ ReceiptStep(p)
             \/ Mark(p) \/ MarkFails(p) \/ Release(p) \/ Crash(p)
      PROVE  RestoreInv'
  BY <1>1, SendersAreLive DEF RestoreInv
<1>2. CASE \/ \E a \in Alert : Expire(a)
           \/ UNCHANGED vars
  <2>1. UNCHANGED <<delivered, files, pc, phase, toRestore>>
    BY <1>2 DEF Expire
  <2>2. (Quiet => Quiet') /\ \A b \in Alert : Proven(b)' = Proven(b)
    BY <2>1 DEF Quiet, Running, Proven
  <2>3. CASE phase # "restoring"
    BY <2>1, <2>2, <2>3 DEF RestoreInv
  <2>4. CASE phase = "restoring"
    <3>1. toRestore \subseteq Alert
      BY DEF TypeOK
    <3> QED
      BY <2>1, <2>2, <2>4, <3>1 DEF RestoreInv
  <2> QED
    BY <2>3, <2>4
<1>3. ASSUME NEW a \in Alert, RestoreMarker(a)
      PROVE  RestoreInv'
  <2>1. Quiet' /\ \A b \in Alert : Proven(b)' = Proven(b)
    BY <1>3 DEF RestoreMarker, RestoreInv, Quiet, Running, Proven
  <2>2. LastProven(a) \in Proven(a) /\ Proven(a) # {}
    BY <1>3, LastProvenIsProven DEF RestoreMarker, RestoreInv
  <2>3. LastProven(a) # None
    BY <2>2, NoneIsFresh DEF Proven, TypeOK, Receipt
  <2>4. /\ \A b \in Alert \ {a} : delivered'[b] = delivered[b]
        /\ delivered'[a] = IF delivered[a] = None THEN LastProven(a) ELSE delivered[a]
    BY <1>3 DEF RestoreMarker, TypeOK
  <2>5. delivered'[a] \in Proven(a) /\ delivered'[a] # None
    BY <1>3, <2>2, <2>3, <2>4 DEF RestoreMarker, RestoreInv
  <2>6. /\ phase = "restoring" /\ toRestore' = toRestore \ {a} /\ toRestore \subseteq Alert
    BY <1>3 DEF RestoreMarker, TypeOK
  <2>7. /\ \A b \in toRestore' : Proven(b)' # {}
        /\ \A b \in Alert : delivered'[b] # None /\ Proven(b)' # {} => delivered'[b] \in Proven(b)'
        /\ \A b \in Alert \ toRestore' : Proven(b)' # {} => delivered'[b] # None
    BY <2>1, <2>4, <2>5, <2>6 DEF RestoreInv
  <2> QED
    BY <2>1, <2>7 DEF RestoreInv
<1>4. CASE Snapshot
  BY <1>4 DEF Snapshot, RestoreInv
<1>5. CASE Restart
  BY <1>5 DEF Restart, RestoreInv, Quiet, Running
<1>6. CASE RestoreBegin
  <2>1. Quiet' /\ \A b \in Alert : Proven(b)' = Proven(b)
    BY <1>6 DEF RestoreBegin, RestoreInv, Quiet, Running, Proven
  <2>2. ASSUME phase' = "restoring"
        PROVE  /\ toRestore' = {b \in Alert : Proven(b) # {}} /\ delivered' = delivered
               /\ \A b \in Alert : Proven(b) # {} => ~Conflict(b)
    BY <1>6, <2>2 DEF RestoreBegin
  <2> QED
    BY <2>1, <2>2 DEF RestoreInv, Conflict
<1>7. CASE RestoreFails
  BY <1>7 DEF RestoreFails, RestoreInv, Quiet, Running
<1> QED
  BY <1>1, <1>2, <1>3, <1>4, <1>5, <1>6, <1>7 DEF NextOf

-------------------------------------------------------------------------------
(* The markers                                                             *)

(* A step neither takes back a message or a receipt nor a reported receipt *)
(* failure; the markers it writes are of the process or of a receipt.      *)
LEMMA EvidenceKept ==
    ASSUME TypeOK, ProcessInv, ReceiptsInv, NextOf
    PROVE  /\ \A a \in Alert : chat[a] \subseteq chat'[a] /\ Proven(a) \subseteq Proven(a)'
           /\ \A p \in Process : receipt_error[p] => receipt_error'[p]
<1> USE DEF store, recovery, send, locals, ghosts, vars
<1>1. ASSUME NEW p \in Process, ReceiptStep(p)
      PROVE  /\ chat' = chat
             /\ \A a \in Alert : Proven(a) \subseteq Proven(a)'
             /\ \A q \in Process : receipt_error[q] => receipt_error'[q]
  <2>1. ~receipt_error[p]
    BY <1>1 DEF ReceiptStep, ProcessInv, ProcessOK
  <2>2. \A q \in Process : q # p => receipt_error'[q] = receipt_error[q]
    BY <1>1 DEF ReceiptStep, AfterReceipt, TypeOK
  <2> QED
    BY <1>1, <2>1, <2>2, ProvenGrows DEF ReceiptStep
<1>2. ASSUME NEW p \in Process, NEW accepts \in BOOLEAN, NEW reply \in Reply, Post(p, accepts, reply)
      PROVE  /\ \A a \in Alert : chat[a] \subseteq chat'[a]
             /\ UNCHANGED <<files, receipt_error>>
  <2>1. alert[p] \in Alert
    BY <1>2 DEF Post, ProcessInv, ProcessOK
  <2> QED
    BY <1>2, <2>1 DEF Post, TypeOK
<1>3. ASSUME \/ \E p \in Process :
                  \/ EarlyStep(p) \/ Backoff(p) \/ ListReceipts(p)
                  \/ Mark(p) \/ MarkFails(p) \/ Release(p) \/ Crash(p)
             \/ \E a \in Alert : Expire(a) \/ RestoreMarker(a)
             \/ Snapshot \/ Restart \/ RestoreBegin \/ RestoreFails
             \/ UNCHANGED vars
      PROVE  UNCHANGED <<chat, files, receipt_error>>
  BY <1>3 DEF EarlyStep, Backoff, ListReceipts, Mark, MarkFails, Release, Crash, Expire,
              RestoreMarker, Snapshot, Restart, RestoreBegin, RestoreFails
<1>4. files' = files => \A a \in Alert : Proven(a)' = Proven(a)
  BY DEF Proven
<1> QED
  BY <1>1, <1>2, <1>3, <1>4 DEF NextOf

(* Whoever is about to mark a send, and believes its receipt written, has  *)
(* one.                                                                    *)
LEMMA OutcomeProven ==
    ASSUME ReceiptsInv, NEW p \in Process, pc[p] = "mark",
           alert[p] \in Alert, outcome[p] \in Message, ~receipt_error[p]
    PROVE  outcome[p] \in Proven(alert[p])
<1>1. outcome[p] # None /\ outcome[p] # Failed
  BY Messages
<1>2. PICK n \in DOMAIN files[alert[p]] : files[alert[p]][n] = [by |-> p, outcome |-> outcome[p]]
  BY <1>1 DEF ReceiptsInv
<1>3. files[alert[p]][n].outcome = outcome[p]
  BY <1>2
<1> QED
  BY <1>1, <1>3, ProvenMeans

LEMMA MarkerStep ==
    ASSUME TypeOK, ProcessInv, ReceiptsInv, RestoreInv, MarkerProven, NextOf
    PROVE  MarkerProven'
<1> USE DEF store, recovery, send, locals, ghosts, vars
<1> DEFINE Backed(a, m) == m \in chat[a] /\ (m \in Proven(a) \/ receipt_error[m[1]])
<1> SUFFICES ASSUME NEW a \in Alert, NEW m \in {delivered'[a], saved'[a]} \ {None}
             PROVE  Backed(a, m)'
  BY DEF MarkerProven
<1>1. m \in Message /\ Backed(a, m) => Backed(a, m)'
  BY EvidenceKept, Messages
<1>2. m \in {delivered[a], saved[a]} \ {None} => m \in Message /\ Backed(a, m)
  BY DEF MarkerProven, TypeOK
<1>3. ASSUME NEW p \in Process, Mark(p) \/ MarkFails(p)
      PROVE  Backed(a, m)'
  <2>1. /\ ProcessOK(p) /\ pc[p] = "mark" /\ saved' = saved
        /\ \/ delivered' = delivered
           \/ delivered' = [delivered EXCEPT ![alert[p]] = outcome[p]]
    BY <1>3 DEF Mark, MarkFails, ProcessInv
  <2>2. alert[p] \in Alert /\ outcome[p] \in Message /\ outcome[p][1] = p /\ outcome[p] \in chat[alert[p]]
    BY <2>1 DEF ProcessOK
  <2>3. outcome[p] \in Proven(alert[p]) \/ receipt_error[p]
    BY <2>1, <2>2, OutcomeProven
  <2>4. m \in {delivered[a], saved[a]} \/ (a = alert[p] /\ m = outcome[p])
    BY <2>1, <2>2 DEF TypeOK
  <2> QED
    BY <1>1, <1>2, <2>2, <2>3, <2>4
<1>4. ASSUME NEW b \in Alert, RestoreMarker(b)
      PROVE  Backed(a, m)'
  <2>1. LastProven(b) \in Proven(b)
    BY <1>4, LastProvenIsProven DEF RestoreMarker, RestoreInv
  <2>2. LastProven(b) \in Message /\ LastProven(b) \in chat[b]
    BY <2>1 DEF ReceiptsInv, Proven, Receipt
  <2>3. m \in {delivered[a], saved[a]} \/ (a = b /\ m = LastProven(b))
    BY <1>4 DEF RestoreMarker, TypeOK
  <2> QED
    BY <1>1, <1>2, <2>1, <2>2, <2>3
<1>5. ASSUME Snapshot \/ Restart
      PROVE  Backed(a, m)'
  <2>1. m \in {delivered[a], saved[a]}
    BY <1>5 DEF Snapshot, Restart
  <2> QED
    BY <1>1, <1>2, <2>1
<1>6. ASSUME UNCHANGED <<delivered, saved>>
      PROVE  Backed(a, m)'
  BY <1>1, <1>2, <1>6
<1> QED
  BY <1>3, <1>4, <1>5, <1>6 DEF NextOf, EarlyStep, Post, Backoff, ListReceipts, ReceiptStep,
     Release, Crash, Expire, RestoreBegin, RestoreFails

-------------------------------------------------------------------------------
(* The exit codes                                                          *)

LEMMA ExitStep ==
    ASSUME TypeOK, ProcessInv, ReceiptsInv, RestoreInv, ExitCodesTrue, NextOf
    PROVE  ExitCodesTrue'
<1> USE DEF store, recovery, send, locals, ghosts, vars, OK, INVALID, UNAVAILABLE, DELIVERY, STORAGE
<1> SUFFICES ASSUME NEW q \in Process PROVE ExitTrue(q)'
  BY DEF ExitCodesTrue
<1>1. ProcessOK(q) /\ ExitTrue(q) /\ None \notin {OK, INVALID, UNAVAILABLE, DELIVERY, STORAGE}
  BY NoneIsFresh DEF ProcessInv, ExitCodesTrue
<1>2. /\ outcome[q] \in Message => alert[q] \in Alert
      /\ \A a \in Alert : Proven(a) \subseteq Proven(a)'
  BY <1>1, NoneIsFresh, EvidenceKept DEF ProcessOK, Unsent
<1> DEFINE Still == /\ alert'[q] = alert[q] /\ outcome'[q] = outcome[q] /\ code'[q] = code[q]
           Marked == \A a \in Alert : delivered[a] # None => delivered'[a] # None
<1>3. ASSUME Still, Marked, phase' = phase, losses' = losses
      PROVE  ExitTrue(q)'
  BY <1>1, <1>2, <1>3 DEF ExitTrue
(* A process whose code says nothing of a delivery by it.                  *)
<1>4. ASSUME outcome'[q] \notin Message,
             \/ code'[q] = None
             \/ outcome'[q] = None /\ code'[q] \in {OK, INVALID, UNAVAILABLE, STORAGE}
             \/ outcome'[q] = Failed /\ code'[q] \in {DELIVERY, STORAGE}
      PROVE  ExitTrue(q)'
  BY <1>1, <1>4, NoneIsFresh DEF ExitTrue
<1>5. ASSUME code'[q] = None
      PROVE  ExitTrue(q)'
  BY <1>1, <1>5, NoneIsFresh DEF ExitTrue
<1>6. ASSUME NEW p \in Process, EarlyStep(p)
      PROVE  ExitTrue(q)'
  <2>1. CASE q = p
    <3>1. /\ outcome'[p] = None
          /\ code'[p] \in {None, OK, INVALID, UNAVAILABLE, STORAGE}
      BY <1>1, <1>6, <2>1 DEF EarlyStep, ProcessOK, Unsent
    <3> QED
      BY <1>4, <2>1, <3>1, NoneIsFresh
  <2>2. CASE q # p
    BY <1>3, <1>6, <2>2 DEF EarlyStep
  <2> QED
    BY <2>1, <2>2
<1>7. ASSUME NEW p \in Process,
             \/ \E accepts \in BOOLEAN, reply \in Reply : Post(p, accepts, reply)
             \/ Backoff(p) \/ ListReceipts(p) \/ Crash(p)
      PROVE  ExitTrue(q)'
  <2>1. UNCHANGED <<delivered, phase, losses, alert>> /\ (q # p => Still)
    BY <1>7 DEF Post, Backoff, ListReceipts, Crash, TypeOK
  <2>2. q = p => code'[q] = None
    BY <1>1, <1>7 DEF Post, Backoff, ListReceipts, Crash, TypeOK, ProcessOK
  <2> QED
    BY <1>3, <1>5, <2>1, <2>2
<1>8. ASSUME NEW p \in Process, ReceiptStep(p)
      PROVE  ExitTrue(q)'
  <2>1. UNCHANGED <<delivered, phase, losses, alert, outcome>>
    BY <1>8 DEF ReceiptStep
  <2>2. CASE code'[q] = code[q]
    BY <1>3, <2>1, <2>2
  <2>3. CASE code'[q] # code[q]
    <3>1. q = p /\ outcome[p] \notin Message /\ code'[p] \in {DELIVERY, STORAGE}
      BY <1>8, <2>3 DEF ReceiptStep, AfterReceipt, Leave, Goto, TypeOK
    <3>2. outcome[p] = Failed
      BY <1>1, <1>8, <3>1 DEF ReceiptStep, ProcessOK, TypeOK
    <3> QED
      BY <1>4, <2>1, <3>1, <3>2
  <2> QED
    BY <2>2, <2>3
<1>9. ASSUME NEW p \in Process, Mark(p) \/ MarkFails(p)
      PROVE  ExitTrue(q)'
  <2>1. /\ ProcessOK(p) /\ pc[p] = "mark" /\ UNCHANGED <<alert, outcome, receipt_error, files, phase, losses>>
        /\ \A r \in Process : r # p => code'[r] = code[r]
        /\ \/ delivered' = delivered
           \/ delivered' = [delivered EXCEPT ![alert[p]] = outcome[p]]
    BY <1>9 DEF Mark, MarkFails, Leave, Exit, Goto, ProcessInv, TypeOK
  <2>2. alert[p] \in Alert /\ outcome[p] \in Message /\ outcome[p] # None
    BY <2>1, Messages DEF ProcessOK
  <2>3. Marked
    BY <2>1, <2>2 DEF TypeOK
  <2>4. CASE q # p
    BY <1>3, <2>1, <2>3, <2>4
  <2>5. CASE q = p /\ MarkFails(p)
    <3>1. code'[p] = UNAVAILABLE
      BY <2>5 DEF MarkFails, Exit, Goto, TypeOK
    <3> QED
      BY <2>1, <2>2, <2>5, <3>1, NoneIsFresh DEF ExitTrue
  <2>6. CASE q = p /\ Mark(p)
    <3>1. /\ code'[p] = (IF receipt_error[p] THEN STORAGE ELSE OK)
          /\ delivered'[alert[p]] = outcome[p]
      BY <2>2, <2>6 DEF Mark, Leave, Goto, TypeOK
    <3>2. ~receipt_error[p] => outcome[p] \in Proven(alert[p])'
      BY <2>1, <2>2, OutcomeProven DEF Proven
    <3> QED
      BY <2>1, <2>2, <2>6, <3>1, <3>2, NoneIsFresh DEF ExitTrue
  <2> QED
    BY <1>9, <2>4, <2>5, <2>6
<1>10. ASSUME \/ \E p \in Process : Release(p)
              \/ \E a \in Alert : Expire(a)
              \/ Snapshot \/ RestoreFails \/ UNCHANGED vars
       PROVE  ExitTrue(q)'
  <2>1. Still /\ Marked /\ losses' = losses /\ phase' \in {phase, "lost"}
    BY <1>10 DEF Release, Expire, Snapshot, RestoreFails
  <2> QED
    BY <1>1, <1>2, <2>1 DEF ExitTrue
<1>11. ASSUME NEW a \in Alert, RestoreMarker(a)
       PROVE  ExitTrue(q)'
  <2>1. Still /\ losses' = losses
    BY <1>11 DEF RestoreMarker
  <2>2. LastProven(a) \in Proven(a)
    BY <1>11, LastProvenIsProven DEF RestoreMarker, RestoreInv
  <2>3. LastProven(a) # None
    BY <2>2, NoneIsFresh DEF Proven, TypeOK, Receipt
  <2>4. Marked /\ delivered'[a] # None
    BY <1>11, <2>3 DEF RestoreMarker, TypeOK
  <2>5. phase' = "live" => \A b \in Alert : Proven(b) # {} => delivered'[b] # None
    BY <1>11, <2>4 DEF RestoreMarker, RestoreInv
  <2> QED
    BY <1>1, <1>2, <2>1, <2>4, <2>5 DEF ExitTrue
<1>12. CASE Restart
  <2>1. Still /\ phase' # "live" /\ losses' > 0
    BY <1>12 DEF Restart, TypeOK
  <2> QED
    BY <1>1, <1>2, <2>1 DEF ExitTrue
<1>13. CASE RestoreBegin
  <2>1. /\ Still /\ losses' = losses /\ delivered' = delivered
        /\ phase' = "live" => \A b \in Alert : Proven(b) = {}
    BY <1>13 DEF RestoreBegin
  <2> QED
    BY <1>1, <1>2, <2>1 DEF ExitTrue
<1> QED
  BY <1>6, <1>7, <1>8, <1>9, <1>10, <1>11, <1>12, <1>13 DEF NextOf

-------------------------------------------------------------------------------
(* At most one message                                                     *)

(* Two senders for one alert: one of them has lost its lease.              *)
LEMMA OneSender ==
    ASSUME LeaseProtects, NEW a \in Alert, Undisturbed(a),
           NEW p \in Process, NEW q \in Process,
           alert[p] = a, alert[q] = a, Sending(p), Sending(q)
    PROVE  p = q
BY DEF LeaseProtects, Undisturbed

LEMMA OnceStep ==
    ASSUME TypeOK, ProcessInv, ReceiptsInv, LeaseProtects, RestoreInv, OnceInv, NextOf
    PROVE  OnceInv'
<1> USE DEF store, recovery, send, locals, ghosts, vars
<1> DEFINE First(a) == \A p \in Process : alert[p] = a /\ pc[p] \in {"send", "backoff"} => delivered[a] = None
           Pending(a, m) == \E p \in Process : alert[p] = a /\ outcome[p] = m /\ pc[p] \in Writing \cup {"mark"}
           Known(a, m) == delivered[a] # None \/ (phase # "live" /\ Proven(a) # {}) \/ Pending(a, m)
           One(a) == chat[a] # {} => \E m \in Message : chat[a] = {m} /\ Known(a, m)
<1>1. OnceInv <=> \A a \in Alert : Undisturbed(a) => First(a) /\ One(a)
  BY DEF OnceInv
<1> SUFFICES ASSUME NEW a \in Alert, Undisturbed(a)' PROVE First(a)' /\ One(a)'
  BY DEF OnceInv
<1>2. \A p \in Process : ProcessOK(p)
  BY DEF ProcessInv
<1>3. Undisturbed(a)
  <2>1. excused \subseteq excused' /\ overrun \subseteq overrun'
    BY DEF NextOf, EarlyStep, Post, Backoff, ListReceipts, ReceiptStep, Mark, MarkFails, Release,
           Crash, Expire, RestoreMarker, Snapshot, Restart, RestoreBegin, RestoreFails
  <2>2. \A p \in Process : pc[p] # "ready" => alert'[p] = alert[p]
    BY DEF NextOf, EarlyStep, Post, Backoff, ListReceipts, ReceiptStep, Mark, MarkFails, Release,
           Crash, Expire, RestoreMarker, Snapshot, Restart, RestoreBegin, RestoreFails
  <2> QED
    BY <1>2, <2>1, <2>2 DEF Undisturbed, ProcessOK, TypeOK
<1>4. First(a) /\ One(a)
  BY <1>1, <1>3
<1> HIDE DEF First, One
<1>5. ASSUME NEW p \in Process, EarlyStep(p)
      PROVE  First(a)' /\ One(a)'
  <2>1. First(a)'
    BY <1>4, <1>5 DEF First, EarlyStep
  <2>2. UNCHANGED <<chat, delivered, phase, files>> /\ \A m \in Message : Pending(a, m) => Pending(a, m)'
    BY <1>5 DEF EarlyStep, Unsent, Writing
  <2> QED
    BY <1>4, <2>1, <2>2 DEF One, Proven
<1>6. ASSUME NEW p \in Process, NEW accepts \in BOOLEAN, NEW reply \in Reply, Post(p, accepts, reply)
      PROVE  First(a)' /\ One(a)'
  <2>1. pc[p] = "send" /\ alert[p] \in Alert /\ UNCHANGED <<alert, delivered, phase, files>>
    BY <1>2, <1>6 DEF Post, ProcessOK
  <2>2. First(a)'
    BY <1>4, <1>6, <2>1 DEF First, Post, Goto, TypeOK
  <2>3. \A m \in Message : Pending(a, m) => Pending(a, m)'
    BY <1>6, <2>1 DEF Post, Goto, TypeOK, Writing
  <2>4. CASE alert[p] # a
    <3>1. chat'[a] = chat[a]
      BY <1>6, <2>1, <2>4 DEF Post, TypeOK
    <3> QED
      BY <1>4, <2>1, <2>2, <2>3, <3>1 DEF One, Proven
  <2>5. CASE alert[p] = a
    <3>1. phase = "live" /\ delivered[a] = None
      BY <1>4, <1>6, <2>1, <2>5, SendersAreLive DEF First
    <3>2. ASSUME NEW m \in Message, Pending(a, m) PROVE FALSE
      <4>1. PICK q \in Process : alert[q] = a /\ pc[q] \in Writing \cup {"mark"}
        BY <3>2
      <4>2. Sending(p) /\ Sending(q) /\ p # q
        BY <2>1, <4>1 DEF Sending, Writing
      <4> QED
        BY <1>3, <2>5, <4>1, <4>2, OneSender
    <3>3. chat[a] = {}
      BY <1>4, <3>1, <3>2 DEF One
    <3>4. CASE ~accepts
      BY <1>6, <2>2, <3>3, <3>4 DEF Post, One
    <3>5. CASE accepts
      <4>1. reply = "confirmed"
        BY <1>6, <2>5, <3>5 DEF Post, Undisturbed
      <4>2. <<p, attempts[p] + 1>> \in Message
        BY <2>1, BoundsAssumption DEF ProcessInv, LoopOK, TypeOK, Message, Unsent
      <4>3. PICK m \in Message : m = <<p, attempts[p] + 1>>
        BY <4>2
      <4>4. chat'[a] = {m} /\ outcome'[p] = m /\ pc'[p] = "list" /\ alert'[p] = a
        BY <1>6, <2>5, <3>3, <3>5, <4>1, <4>3 DEF Post, Goto, TypeOK
      <4>5. Pending(a, m)'
        BY <4>4 DEF Writing
      <4> QED
        BY <2>2, <4>4, <4>5 DEF One
    <3> QED
      BY <3>4, <3>5
  <2> QED
    BY <2>4, <2>5
<1>7. ASSUME NEW p \in Process, Backoff(p) \/ ListReceipts(p) \/ ReceiptStep(p) \/ Release(p)
      PROVE  First(a)' /\ One(a)'
  <2>1. UNCHANGED <<chat, delivered, phase, alert, outcome>>
    BY <1>7 DEF Backoff, ListReceipts, ReceiptStep, Release
  <2>2. /\ \A q \in Process : q # p => pc'[q] = pc[q]
        /\ pc'[p] \in {"send", "backoff"} => pc[p] \in {"send", "backoff"}
        /\ pc[p] \in Writing \cup {"mark"} /\ outcome[p] \in Message => pc'[p] \in Writing \cup {"mark"}
    BY <1>7 DEF Backoff, ListReceipts, ReceiptStep, AfterReceipt, Release, Leave, Goto, TypeOK, Writing
  <2>3. First(a)'
    BY <1>4, <2>1, <2>2 DEF First
  <2>4. \A m \in Message : Pending(a, m) => Pending(a, m)'
    BY <2>1, <2>2
  <2>5. phase = "live"
    BY <1>7, SendersAreLive
  <2> QED
    BY <1>4, <2>1, <2>3, <2>4, <2>5 DEF One
<1>8. ASSUME NEW p \in Process, Mark(p) \/ MarkFails(p)
      PROVE  First(a)' /\ One(a)'
  <2>1. /\ ProcessOK(p) /\ pc[p] = "mark" /\ UNCHANGED <<alert, outcome, chat, phase>>
        /\ \A q \in Process : q # p => pc'[q] = pc[q]
        /\ pc'[p] \in {"release", "exited"} /\ phase = "live"
    BY <1>2, <1>8, SendersAreLive DEF Mark, MarkFails, Leave, Exit, Goto, TypeOK
  <2>2. alert[p] \in Alert /\ outcome[p] \in Message /\ outcome[p] # None
    BY <2>1, Messages DEF ProcessOK
  <2>3. CASE alert[p] # a
    <3>1. delivered'[a] = delivered[a]
      BY <1>8, <2>2, <2>3 DEF Mark, MarkFails, TypeOK
    <3>2. First(a)'
      BY <1>4, <2>1, <3>1 DEF First
    <3>3. \A m \in Message : Pending(a, m) => Pending(a, m)'
      BY <2>1, <2>3
    <3> QED
      BY <1>4, <2>1, <3>1, <3>2, <3>3 DEF One
  <2>4. CASE alert[p] = a
    <3>1. Mark(p)
      BY <1>8, <2>4 DEF MarkFails, Undisturbed
    <3>2. delivered'[a] # None
      BY <2>2, <2>4, <3>1 DEF Mark, TypeOK
    <3>3. ~ \E q \in Process : alert[q] = a /\ pc[q] \in {"send", "backoff"}
      BY <1>3, <2>1, <2>4, OneSender DEF Sending
    <3>4. First(a)'
      BY <2>1, <3>3 DEF First
    <3> QED
      BY <1>4, <2>1, <3>2, <3>4 DEF One
  <2> QED
    BY <2>3, <2>4
<1>9. ASSUME NEW p \in Process, Crash(p)
      PROVE  First(a)' /\ One(a)'
  <2>1. /\ UNCHANGED <<chat, delivered, phase, alert>> /\ phase = "live"
        /\ \A q \in Process : q # p => pc'[q] = pc[q] /\ outcome'[q] = outcome[q]
        /\ pc'[p] = "crashed"
    BY <1>9, SendersAreLive DEF Crash, Goto, TypeOK
  <2>2. First(a)'
    BY <1>4, <2>1 DEF First
  <2>3. alert[p] = a => ~(outcome[p] \in Message /\ Sending(p))
    BY <1>9 DEF Crash, Undisturbed
  <2>4. \A m \in Message : Pending(a, m) => Pending(a, m)'
    BY <2>1, <2>3 DEF Sending, Writing
  <2> QED
    BY <1>4, <2>1, <2>2, <2>4 DEF One
<1>10. ASSUME NEW b \in Alert, Expire(b)
       PROVE  First(a)' /\ One(a)'
  BY <1>4, <1>10 DEF Expire, First, One, Proven
<1>11. ASSUME NEW b \in Alert, RestoreMarker(b)
       PROVE  First(a)' /\ One(a)'
  <2>1. UNCHANGED <<chat, files, alert, outcome, pc>> /\ Quiet /\ phase # "live"
    BY <1>11 DEF RestoreMarker, RestoreInv
  <2>2. LastProven(b) \in Proven(b)
    BY <1>11, LastProvenIsProven DEF RestoreMarker, RestoreInv
  <2>3. LastProven(b) # None
    BY <2>2, NoneIsFresh DEF Proven, TypeOK, Receipt
  <2>4. /\ delivered[a] # None => delivered'[a] # None
        /\ phase' = "live" /\ Proven(a) # {} => delivered'[a] # None
    BY <1>11, <2>3 DEF RestoreMarker, TypeOK, RestoreInv
  <2>5. First(a)'
    BY <2>1 DEF First, Quiet, Running
  <2>6. Proven(a)' = Proven(a) /\ \A m \in Message : ~Pending(a, m)
    BY <2>1 DEF Proven, Quiet, Running, Writing
  <2> QED
    BY <1>4, <2>1, <2>4, <2>5, <2>6 DEF One
<1>12. CASE Restart
  <2>1. UNCHANGED <<chat, files, alert, outcome, pc>> /\ Quiet /\ phase' = "lost" /\ delivered' = saved
    BY <1>12 DEF Restart
  <2>2. First(a)'
    BY <2>1 DEF First, Quiet, Running
  <2>3. saved[a] # None \/ Proven(a) # {}
    BY <1>12 DEF Restart, Undisturbed
  <2>4. Proven(a)' = Proven(a)
    BY <2>1 DEF Proven
  <2> QED
    BY <1>4, <2>1, <2>2, <2>3, <2>4 DEF One
<1>13. ASSUME Snapshot \/ RestoreBegin \/ RestoreFails \/ UNCHANGED vars
       PROVE  First(a)' /\ One(a)'
  <2>1. /\ UNCHANGED <<chat, files, alert, outcome, pc, delivered>>
        /\ phase' = "live" => phase = "live" \/ \A b \in Alert : Proven(b) = {}
    BY <1>13 DEF Snapshot, RestoreBegin, RestoreFails
  <2>2. First(a)' /\ Proven(a)' = Proven(a)
    BY <1>4, <2>1 DEF First, Proven
  <2> QED
    BY <1>4, <2>1, <2>2 DEF One
<1> QED
  BY <1>5, <1>6, <1>7, <1>8, <1>9, <1>10, <1>11, <1>12, <1>13 DEF NextOf

-------------------------------------------------------------------------------
(* The theorems                                                            *)

LEMMA IInvInit == Init => IInv
<1> SUFFICES ASSUME Init PROVE IInv
  OBVIOUS
<1>1. TypeOK /\ ProcessInv /\ ReceiptsInv
  BY TypeInit, ProcessInit, ReceiptsInit
<1>2. LeaseProtects /\ MarkerProven
  BY DEF Init, LeaseProtects, MarkerProven, Sending
<1>3. ExitCodesTrue
  BY NoneIsFresh DEF Init, ExitCodesTrue, ExitTrue, OK, DELIVERY, INVALID, STORAGE, UNAVAILABLE
<1>4. RestoreInv /\ OnceInv
  BY DEF Init, RestoreInv, OnceInv
<1> QED
  BY <1>1, <1>2, <1>3, <1>4 DEF IInv

LEMMA IInvStep == IInv /\ [Next]_vars => IInv'
<1> SUFFICES ASSUME IInv, [Next]_vars PROVE IInv'
  OBVIOUS
<1>1. NextOf
  BY Steps DEF IInv
<1> QED
  BY <1>1, TypeStep, ProcessStep, ReceiptsStep, LeaseStep, MarkerStep, ExitStep, RestoreStep, OnceStep
     DEF IInv

THEOREM Invariance == Spec => []IInv
BY IInvInit, IInvStep, PTL DEF Spec

(* Every state of the delivery path has its type.                          *)
THEOREM TypeCorrect == Spec => []TypeOK
<1>1. IInv => TypeOK
  BY DEF IInv
<1> QED
  BY <1>1, Invariance, PTL

(* From recheck to marker the lease is its sender's, until its TTL: what   *)
(* guard.py's SET NX, compare-and-delete and in-lease recheck are for.     *)
THEOREM LeaseExcludes == Spec => []LeaseProtects
<1>1. IInv => LeaseProtects
  BY DEF IInv
<1> QED
  BY <1>1, Invariance, PTL

(* A marker is never ahead of the evidence: Telegram has the message, and  *)
(* a receipt proves it or its sender reported that the receipt failed.     *)
THEOREM MarkersAreProven == Spec => []MarkerProven
<1>1. IInv => MarkerProven
  BY DEF IInv
<1> QED
  BY <1>1, Invariance, PTL

(* The receipts are gap-free and one per send, and an exit code of the     *)
(* runner says what happened, whatever the interleaving.                   *)
THEOREM ReportsAreTrue == Spec => []ReportsTrue
<1>1. IInv => ReportsTrue
  <2> SUFFICES ASSUME IInv PROVE ReceiptsFaithful
    BY DEF IInv, ReportsTrue
  <2>1. Readable
    BY DEF IInv, ReceiptsInv, Readable
  <2>2. \A a \in Alert : \A i, j \in DOMAIN files[a] : files[a][i].by = files[a][j].by => i = j
    BY DEF IInv, ReceiptsInv
  <2>3. ASSUME NEW p \in Process, pc[p] \in {"mark", "release", "exited"},
               outcome[p] # None, ~receipt_error[p]
        PROVE  [by |-> p, outcome |-> outcome[p]]
                 \in {files[alert[p]][n] : n \in DOMAIN files[alert[p]]}
    BY <2>3 DEF IInv, ReceiptsInv
  <2> QED
    BY <2>1, <2>2, <2>3 DEF ReceiptsFaithful
<1> QED
  BY <1>1, Invariance, PTL

(* Two messages for one alert need an excuse: an unconfirmed acceptance, a *)
(* confirmed send that went unrecorded, or a lease that ran out.           *)
THEOREM DuplicatesAreExcused == Spec => []DuplicateNeedsExcuse
<1>1. IInv => DuplicateNeedsExcuse
  <2> SUFFICES ASSUME IInv, NEW a \in Alert, Cardinality(chat[a]) > 1, Undisturbed(a)
               PROVE  FALSE
    BY DEF DuplicateNeedsExcuse, Undisturbed
  <2>1. chat[a] = {} \/ \E m \in Message : chat[a] = {m}
    BY DEF IInv, OnceInv
  <2>2. Cardinality(chat[a]) \in {0, 1}
    BY <2>1, FS_EmptySet, FS_Singleton
  <2> QED
    BY <2>2
<1> QED
  BY <1>1, Invariance, PTL

(* Senders are admitted again only when every alert that a receipt proves  *)
(* delivered has a marker, and one of the proven ids.                      *)
THEOREM RestoresAreComplete == Spec => RestoreComplete
<1> DEFINE Complete == phase # "live" /\ phase' = "live" =>
                         \A a \in Alert : Proven(a) # {} => delivered'[a] \in Proven(a)
<1>1. IInv /\ [Next]_vars => [Complete]_vars
  <2> SUFFICES ASSUME IInv, [Next]_vars, phase # "live", phase' = "live"
               PROVE  \A a \in Alert : Proven(a) # {} => delivered'[a] \in Proven(a)
    OBVIOUS
  <2>1. RestoreInv /\ ReceiptsInv /\ TypeOK /\ NextOf
    BY Steps DEF IInv
  <2>2. CASE RestoreBegin
    BY <2>2 DEF RestoreBegin
  <2>3. ASSUME NEW b \in Alert, RestoreMarker(b)
        PROVE  \A a \in Alert : Proven(a) # {} => delivered'[a] \in Proven(a)
    <3>1. phase = "restoring" /\ toRestore = {b}
      BY <2>3 DEF RestoreMarker
    <3>2. LastProven(b) \in Proven(b) /\ Proven(b) # {}
      BY <2>1, <3>1, LastProvenIsProven DEF RestoreInv
    <3>3. /\ \A a \in Alert \ {b} : delivered'[a] = delivered[a]
          /\ delivered'[b] = IF delivered[b] = None THEN LastProven(b) ELSE delivered[b]
      BY <2>1, <2>3 DEF RestoreMarker, TypeOK
    <3> QED
      BY <2>1, <3>1, <3>2, <3>3 DEF RestoreInv
  <2>4. phase' = phase \/ RestoreBegin \/ (\E b \in Alert : RestoreMarker(b)) \/ phase' = "lost"
    <3>1. ASSUME NEW p \in Process,
             \/ EarlyStep(p)
             \/ \E accepts \in BOOLEAN, reply \in Reply : Post(p, accepts, reply)
             \/ Backoff(p) \/ ListReceipts(p) \/ ReceiptStep(p)
             \/ Mark(p) \/ MarkFails(p) \/ Release(p) \/ Crash(p)
          PROVE phase' = phase
      BY <2>1, <3>1, SendersAreLive DEF recovery
    <3> QED
      BY <2>1, <3>1 DEF NextOf, Expire, Snapshot, Restart, RestoreFails, vars, recovery
  <2> QED
    BY <2>2, <2>3, <2>4
<1> QED
  BY <1>1, Invariance, PTL DEF Spec, RestoreComplete
===============================================================================
