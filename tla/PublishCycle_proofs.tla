------------------------ MODULE PublishCycle_proofs ------------------------
(***************************************************************************)
(* The publisher is never up without a claim, and what receipts and halts  *)
(* say of a batch is true, for any size of a batch and any number of       *)
(* cycles and faults.                                                      *)
(*                                                                         *)
(* UpOnlyOwned depends on two races.  A cycle that scales up has to hold   *)
(* the claim still (Claimed), and a clean-up that is about to drop a claim *)
(* has to have seen the publisher down since nobody uses that claim any    *)
(* more (Quiet).  Fresh says why a later cycle cannot be taken for an      *)
(* earlier one: a run directory is new.                                    *)
(***************************************************************************)
EXTENDS PublishCycle, TLAPS

Cleaning == {"look", "scale_down", "check", "unlink"}
Owning == {"scale_up", "pod", "publish"}

(* What the place of a process says of its run and of who called the clean-up. *)
Placed == \A p \in Process :
    /\ pc[p] \notin Cleaning \cup {"idle"} => cleaner[p] = "publish"
    /\ pc[p] \in {"claim", "own", "visibility", "record"} \cup Owning => run[p] # None
    /\ pc[p] \in Cleaning /\ cleaner[p] = "publish" => run[p] # None

(* Every run that anything names has been started. *)
Bounded == /\ owner \in 1..started \cup {None}
           /\ \A p \in Process : seen[p] \in 1..started \cup {None} /\ run[p] \in 1..started \cup {None}

(* Nobody knows a run before it claims the publisher. *)
Fresh == \A p \in Process : pc[p] \in {"claim", "own"} =>
    /\ owner # run[p]
    /\ \A q \in Process : seen[q] # run[p] /\ (q # p => run[q] # run[p])

Claimed == disturbed = {} =>
    \A p \in Process : pc[p] \in Owning => owner = run[p]

Quiet == disturbed = {} =>
    \A p \in Process : pc[p] \in {"check", "unlink"} /\ owner = seen[p] /\ owner # None =>
        /\ \A q \in Process \ {p} : ~Uses(q, owner)
        /\ pc[p] = "unlink" => replicas = 0

IInv == TypeOK /\ Placed /\ Bounded /\ Fresh /\ Claimed /\ Quiet /\ UpOnlyOwned

(* A step that neither makes a run, nor claims, scales or cleans up.        *)
Bystanding ==
    /\ UNCHANGED <<owner, seen, disturbed, replicas, started>>
    /\ \A q \in Process :
         /\ run'[q] \in {run[q], None}
         /\ pc'[q] \in {"claim", "own"} => pc[q] \in {"claim", "own"} /\ run'[q] = run[q]
         /\ pc'[q] \in Owning => pc[q] \in Owning /\ run'[q] = run[q]
         /\ pc'[q] \in {"check", "unlink"} => pc'[q] = pc[q]
         /\ \A r \in Run : Uses(q, r)' => Uses(q, r)

USE BatchAssumption, BoundsAssumption, NamesAssumption DEF At, Goto, files, cluster, ghosts
-----------------------------------------------------------------------------
(* Such a step disturbs none of the parts that relate processes.            *)
LEMMA Bystander ==
    ASSUME IInv, TypeOK', Bystanding
    PROVE  Bounded' /\ Fresh' /\ Claimed' /\ Quiet' /\ UpOnlyOwned'
<1>1. Bounded' BY DEF IInv, Bystanding, Bounded
<1>2. Fresh' BY DEF IInv, TypeOK, Bystanding, Placed, Fresh, Bounded, Run
<1>3. Claimed' BY DEF IInv, Bystanding, Claimed
<1>4. Quiet' BY DEF IInv, TypeOK, Bystanding, Quiet
<1>5. UpOnlyOwned' BY DEF IInv, Bystanding, UpOnlyOwned
<1> QED BY <1>1, <1>2, <1>3, <1>4, <1>5

LEMMA IInvInit == Init => IInv
BY DEF Init, IInv, TypeOK, Placed, Bounded, Fresh, Claimed, Quiet, UpOnlyOwned, Process, Points,
   Publishing, Run, Cleaning, Owning, Uses

(* Every step of a cycle, of a clean-up, of the operator and of a failure keeps the invariant. *)
LEMMA IInvStep == IInv /\ [Next]_vars => IInv'
<1> SUFFICES ASSUME IInv, [Next]_vars PROVE IInv'
  OBVIOUS
<1>1. ASSUME NEW p \in Process, Start(p) PROVE IInv'
  <2>1. TypeOK' BY <1>1 DEF IInv, Start, TypeOK, Process, Points, Publishing, Run
  <2>2. Placed' BY <1>1 DEF IInv, Start, TypeOK, Placed, Process, Cleaning, Owning
  <2>3. Bystanding BY <1>1 DEF IInv, Start, TypeOK, Bystanding, Owning, Uses, Publishing, Process
  <2> QED BY <2>1, <2>2, <2>3, Bystander DEF IInv
<1>2. ASSUME NEW p \in Process, TakeLock(p) PROVE IInv'
  <2>1. TypeOK' BY <1>2 DEF IInv, TakeLock, End, TypeOK, Process, Points, Publishing
  <2>2. Placed' BY <1>2 DEF IInv, TakeLock, End, TypeOK, Placed, Process, Cleaning, Owning
  <2>3. Bystanding
    BY <1>2 DEF IInv, TakeLock, End, TypeOK, Bystanding, Owning, Uses, Publishing, Process
  <2> QED BY <2>1, <2>2, <2>3, Bystander DEF IInv
<1>3. ASSUME NEW p \in Process, CheckHalt(p) PROVE IInv'
  <2>1. TypeOK'
    <3>1. pc' \in [Process -> Points]
      BY <1>3 DEF IInv, CheckHalt, End, TypeOK, Process, Points, Publishing
    <3>2. failed' \in [Process -> BOOLEAN] BY <1>3 DEF IInv, CheckHalt, End, TypeOK, Fails
    <3> QED BY <1>3, <3>1, <3>2 DEF IInv, CheckHalt, End, TypeOK, Process
  <2>2. Placed' BY <1>3 DEF IInv, CheckHalt, End, Fails, TypeOK, Placed, Process, Cleaning, Owning
  <2>3. Bystanding
    BY <1>3 DEF IInv, CheckHalt, End, Fails, TypeOK, Bystanding, Owning, Uses, Publishing, Process
  <2> QED BY <2>1, <2>2, <2>3, Bystander DEF IInv
(* A new run directory: nobody knows it yet. *)
<1>4. ASSUME NEW p \in Process, Generate(p) PROVE IInv'
  <2>1. TypeOK'
    <3>1. pc' \in [Process -> Points]
      BY <1>4 DEF IInv, Generate, TypeOK, Process, Points, Publishing
    <3>2. failed' \in [Process -> BOOLEAN] BY <1>4 DEF IInv, Generate, TypeOK, Fails
    <3>3. started' \in 0..MaxCycles /\ run' \in [Process -> Run \cup {None}]
      BY <1>4 DEF IInv, Generate, TypeOK, Run
    <3> QED BY <1>4, <3>1, <3>2, <3>3 DEF IInv, Generate, TypeOK, Process
  <2>2. Placed' /\ Fresh'
    <3>1. CASE started < MaxCycles /\ started' = started + 1 /\ run' = [run EXCEPT ![p] = started + 1]
      <4>1. started + 1 \in Run /\ started + 1 # None /\ started + 1 \notin 1..started \cup {None}
        BY <3>1 DEF IInv, TypeOK, Run
      <4>2. Placed' BY <1>4, <3>1, <4>1 DEF IInv, Generate, TypeOK, Placed, Owning, Cleaning
      <4>3. Fresh' BY <1>4, <3>1, <4>1 DEF IInv, Generate, TypeOK, Fresh, Bounded
      <4> QED BY <4>2, <4>3
    <3>2. CASE started' = started /\ run' = run /\ pc' = [pc EXCEPT ![p] = "halt"]
      <4>1. Placed' BY <1>4, <3>2 DEF IInv, Generate, TypeOK, Placed, Owning, Cleaning
      <4>2. Fresh' BY <1>4, <3>2 DEF IInv, Generate, TypeOK, Fresh, Bounded
      <4> QED BY <4>1, <4>2
    <3> QED BY <1>4, <3>1, <3>2 DEF Generate
  <2>3. Bounded' BY <1>4 DEF IInv, Generate, Fails, TypeOK, Bounded, Run
  <2>4. Fresh' BY <2>2
  <2>5. Claimed'
    BY <1>4 DEF IInv, Generate, Fails, TypeOK, Placed, Claimed, Uses, Publishing, Owning, Run,
       Cleaning
  <2>6. Quiet'
    BY <1>4 DEF IInv, Generate, Fails, TypeOK, Placed, Bounded, Fresh, Claimed, Quiet, Uses,
       Publishing, Owning, Run, Cleaning
  <2>7. UpOnlyOwned'
    BY <1>4 DEF IInv, Generate, Fails, TypeOK, Placed, Claimed, Quiet, UpOnlyOwned, Uses,
       Publishing, Owning, Run, Cleaning
  <2> QED BY <2>1, <2>2, <2>3, <2>4, <2>5, <2>6, <2>7 DEF IInv
<1>5. ASSUME NEW p \in Process, Halt(p) PROVE IInv'
  <2>1. TypeOK' BY <1>5 DEF IInv, Halt, End, Recorded, TypeOK, Process, Points, Publishing
  <2>2. Placed' BY <1>5 DEF IInv, Halt, End, TypeOK, Placed, Process, Cleaning, Owning
  <2>3. Bystanding
    BY <1>5 DEF IInv, Halt, End, TypeOK, Bystanding, Owning, Uses, Publishing, Process
  <2> QED BY <2>1, <2>2, <2>3, Bystander DEF IInv
<1>6. ASSUME NEW p \in Process, Claim(p) PROVE IInv'
  <2>1. TypeOK'
    <3>1. pc' \in [Process -> Points] /\ failed' \in [Process -> BOOLEAN]
      BY <1>6 DEF IInv, Claim, Fails, TypeOK, Points
    <3> QED BY <1>6, <3>1 DEF IInv, Claim, Keep, TypeOK
  <2>2. Placed' BY <1>6 DEF IInv, Claim, Fails, Keep, TypeOK, Placed, Process, Cleaning, Owning
  <2>3. Bystanding
    BY <1>6 DEF IInv, Claim, Fails, Keep, TypeOK, Bystanding, Owning, Uses, Publishing, Process
  <2> QED BY <2>1, <2>2, <2>3, Bystander DEF IInv
(* A claim is only taken when there is none, and by a run that nobody has seen. *)
<1>7. ASSUME NEW p \in Process, Own(p) PROVE IInv'
  <2>1. TypeOK'
    <3>1. run[p] \in Run /\ p \in Process
      BY <1>7 DEF IInv, Own, TypeOK, Placed
    <3>2. owner' \in Run \cup {None} /\ failed' \in [Process -> BOOLEAN]
      BY <1>7, <3>1 DEF IInv, Own, Fails, TypeOK
    <3>3. pc' \in [Process -> Points]
      BY <1>7 DEF IInv, Own, TypeOK, Points, Publishing
    <3> QED BY <1>7, <3>2, <3>3 DEF IInv, Own, Keep, TypeOK
  <2>2. Placed' BY <1>7 DEF IInv, Own, Fails, Keep, TypeOK, Placed, Process, Cleaning, Owning
  <2>3. Bounded' BY <1>7 DEF IInv, Own, Fails, Keep, TypeOK, Bounded, Run
  <2>4. Fresh'
    BY <1>7 DEF IInv, Own, Fails, Keep, TypeOK, Placed, Bounded, Fresh, Run, Cleaning, Owning,
       Process
  <2>5. Claimed'
    BY <1>7 DEF IInv, Own, Fails, Keep, TypeOK, Placed, Claimed, Uses, Publishing, Owning, Run,
       Cleaning
  <2>6. Quiet'
    BY <1>7 DEF IInv, Own, Fails, Keep, TypeOK, Placed, Bounded, Fresh, Claimed, Quiet, Uses,
       Publishing, Owning, Run, Cleaning
  <2>7. UpOnlyOwned'
    BY <1>7 DEF IInv, Own, Fails, Keep, TypeOK, Placed, Claimed, Quiet, UpOnlyOwned, Uses,
       Publishing, Owning, Run, Cleaning
  <2> QED BY <2>1, <2>2, <2>3, <2>4, <2>5, <2>6, <2>7 DEF IInv
(* Its claim is still there (Claimed), so no clean-up that saw it is past its check (Quiet). *)
<1>8. ASSUME NEW p \in Process, ScaleUp(p) PROVE IInv'
  <2>1. TypeOK'
    <3>1. pc' \in [Process -> Points]
      BY <1>8 DEF IInv, ScaleUp, Abandon, TypeOK, Process, Points, Publishing
    <3>2. failed' \in [Process -> BOOLEAN] BY <1>8 DEF IInv, ScaleUp, Abandon, TypeOK, Fails
    <3>3. faults' \in 0..MaxFaults BY <1>8 DEF IInv, ScaleUp, Abandon, TypeOK, Fault
    <3> QED BY <1>8, <3>1, <3>2, <3>3 DEF IInv, ScaleUp, Abandon, Keep, TypeOK, Process
  <2>2. Placed'
    BY <1>8 DEF IInv, ScaleUp, Abandon, Fails, Keep, TypeOK, Placed, Process, Cleaning, Owning
  <2>3. Bounded' BY <1>8 DEF IInv, ScaleUp, Abandon, Fails, Keep, TypeOK, Bounded, Run
  <2>4. Fresh'
    BY <1>8 DEF IInv, ScaleUp, Abandon, Fails, Keep, TypeOK, Placed, Bounded, Fresh, Run,
       Cleaning, Owning, Process
  <2>5. Claimed'
    BY <1>8 DEF IInv, ScaleUp, Abandon, Fails, Keep, TypeOK, Placed, Claimed, Uses, Publishing,
       Owning, Run, Cleaning
  <2>6. Quiet'
    BY <1>8 DEF IInv, ScaleUp, Abandon, Fails, Keep, TypeOK, Placed, Bounded, Fresh, Claimed,
       Quiet, Uses, Publishing, Owning, Run, Cleaning
  <2>7. UpOnlyOwned'
    BY <1>8 DEF IInv, ScaleUp, Abandon, Fails, Keep, TypeOK, Placed, Claimed, Quiet, UpOnlyOwned,
       Uses, Publishing, Owning, Run, Cleaning
  <2> QED BY <2>1, <2>2, <2>3, <2>4, <2>5, <2>6, <2>7 DEF IInv
<1>9. ASSUME NEW p \in Process, Pod(p) PROVE IInv'
  <2>1. TypeOK'
    <3>1. pc' \in [Process -> Points]
      BY <1>9 DEF IInv, Pod, Abandon, TypeOK, Process, Points, Publishing
    <3>2. failed' \in [Process -> BOOLEAN] BY <1>9 DEF IInv, Pod, Abandon, TypeOK, Fails
    <3>3. faults' \in 0..MaxFaults BY <1>9 DEF IInv, Pod, Abandon, TypeOK, Fault
    <3> QED BY <1>9, <3>1, <3>2, <3>3 DEF IInv, Pod, Abandon, Keep, TypeOK, Process
  <2>2. Placed' BY <1>9 DEF IInv, Pod, Abandon, Keep, TypeOK, Placed, Process, Cleaning, Owning
  <2>3. Bystanding
    BY <1>9 DEF IInv, Pod, Abandon, Keep, TypeOK, Bystanding, Owning, Uses, Publishing, Process
  <2> QED BY <2>1, <2>2, <2>3, Bystander DEF IInv
<1>10. ASSUME NEW p \in Process, Publish(p) PROVE IInv'
  <2>1. TypeOK'
    <3>1. pc' \in [Process -> Points]
      BY <1>10 DEF IInv, Publish, Abandon, TypeOK, Process, Points, Publishing
    <3>2. failed' \in [Process -> BOOLEAN] BY <1>10 DEF IInv, Publish, Abandon, TypeOK, Fails
    <3>3. faults' \in 0..MaxFaults BY <1>10 DEF IInv, Publish, Abandon, TypeOK, Fault
    <3>4. artifacts' \in [Run -> 0..Batch]
      BY <1>10 DEF IInv, Publish, Abandon, TypeOK, Stored, Placed, Owning
    <3> QED BY <1>10, <3>1, <3>2, <3>3, <3>4 DEF IInv, Publish, Abandon, Keep, TypeOK, Process
  <2>2. Placed'
    BY <1>10 DEF IInv, Publish, Abandon, Keep, TypeOK, Placed, Process, Cleaning, Owning
  <2>3. Bystanding
    BY <1>10 DEF IInv, Publish, Abandon, Keep, TypeOK, Bystanding, Owning, Uses, Publishing,
       Process
  <2> QED BY <2>1, <2>2, <2>3, Bystander DEF IInv
<1>11. ASSUME NEW p \in Process, Verify(p) PROVE IInv'
  <2>1. TypeOK'
    <3>1. pc' \in [Process -> Points]
      BY <1>11 DEF IInv, Verify, Abandon, TypeOK, Process, Points, Publishing
    <3>2. failed' \in [Process -> BOOLEAN] BY <1>11 DEF IInv, Verify, Abandon, TypeOK, Fails
    <3>3. faults' \in 0..MaxFaults BY <1>11 DEF IInv, Verify, Abandon, TypeOK, Fault
    <3> QED BY <1>11, <3>1, <3>2, <3>3 DEF IInv, Verify, Abandon, Keep, TypeOK, Process
  <2>2. Placed'
    BY <1>11 DEF IInv, Verify, Abandon, Keep, TypeOK, Placed, Process, Cleaning, Owning
  <2>3. Bystanding
    BY <1>11 DEF IInv, Verify, Abandon, Keep, TypeOK, Bystanding, Owning, Uses, Publishing,
       Process
  <2> QED BY <2>1, <2>2, <2>3, Bystander DEF IInv
<1>12. ASSUME NEW p \in Process, Visibility(p) PROVE IInv'
  <2>1. TypeOK'
    <3>1. pc' \in [Process -> Points]
      BY <1>12 DEF IInv, Visibility, TypeOK, Process, Points, Publishing
    <3>2. failed' \in [Process -> BOOLEAN] BY <1>12 DEF IInv, Visibility, TypeOK, Fails
    <3>3. faults' \in 0..MaxFaults BY <1>12 DEF IInv, Visibility, TypeOK, Fault
    <3> QED BY <1>12, <3>1, <3>2, <3>3 DEF IInv, Visibility, Keep, TypeOK, Process
  <2>2. Placed' BY <1>12 DEF IInv, Visibility, Keep, TypeOK, Placed, Process, Cleaning, Owning
  <2>3. Bystanding
    BY <1>12 DEF IInv, Visibility, Keep, TypeOK, Bystanding, Owning, Uses, Publishing, Process
  <2> QED BY <2>1, <2>2, <2>3, Bystander DEF IInv
<1>13. ASSUME NEW p \in Process, Record(p) PROVE IInv'
  <2>1. TypeOK'
    <3>1. run[p] \in Run
      BY <1>13 DEF IInv, Record, TypeOK, Placed
    <3>2. lock' \in Process \cup {None} /\ receipts' \subseteq Run
      BY <1>13, <3>1 DEF IInv, Record, End, TypeOK
    <3>3. pc' \in [Process -> Points] /\ cleaner' \in [Process -> {"publish", "post"}]
      BY <1>13 DEF IInv, Record, End, TypeOK, Points, Publishing
    <3> QED BY <1>13, <3>2, <3>3 DEF IInv, Record, TypeOK
  <2>2. Placed' BY <1>13 DEF IInv, Record, End, TypeOK, Placed, Process, Cleaning, Owning
  <2>3. Bystanding
    BY <1>13 DEF IInv, Record, End, TypeOK, Bystanding, Owning, Uses, Publishing, Process
  <2> QED BY <2>1, <2>2, <2>3, Bystander DEF IInv
<1>14. ASSUME NEW p \in Process, Look(p) PROVE IInv'
  <2>1. TypeOK' BY <1>14 DEF IInv, Look, Cleaned, Recorded, TypeOK, Process, Points, Publishing
  <2>2. Placed' BY <1>14 DEF IInv, Look, Cleaned, TypeOK, Placed, Process, Cleaning, Owning
  <2>3. Bounded' BY <1>14 DEF IInv, Look, Cleaned, TypeOK, Bounded, Run
  <2>4. Fresh'
    BY <1>14 DEF IInv, Look, Cleaned, TypeOK, Placed, Bounded, Fresh, Run, Cleaning, Owning,
       Process
  <2>5. Claimed'
    BY <1>14 DEF IInv, Look, Cleaned, TypeOK, Placed, Claimed, Uses, Publishing, Owning, Run,
       Cleaning
  <2>6. Quiet'
    BY <1>14 DEF IInv, Look, Cleaned, TypeOK, Placed, Bounded, Fresh, Claimed, Quiet, Uses,
       Publishing, Owning, Run, Cleaning
  <2>7. UpOnlyOwned'
    BY <1>14 DEF IInv, Look, Cleaned, TypeOK, Placed, Claimed, Quiet, UpOnlyOwned, Uses,
       Publishing, Owning, Run, Cleaning
  <2> QED BY <2>1, <2>2, <2>3, <2>4, <2>5, <2>6, <2>7 DEF IInv
(* With nobody disturbed, the claim it acts on is the one it found, and out of use. *)
<1>15. ASSUME NEW p \in Process, ScaleDown(p) PROVE IInv'
  <2>1. TypeOK'
    <3>1. pc' \in [Process -> Points]
      BY <1>15 DEF IInv, ScaleDown, Cleaned, TypeOK, Process, Points, Publishing
    <3>2. failed' \in [Process -> BOOLEAN] BY <1>15 DEF IInv, ScaleDown, Cleaned, TypeOK, Fails
    <3>3. faults' \in 0..MaxFaults BY <1>15 DEF IInv, ScaleDown, Cleaned, TypeOK, Fault
    <3>4. halted' \in Process \cup {None} BY <1>15 DEF IInv, ScaleDown, Cleaned, TypeOK, Recorded
    <3>5. disturbed' \subseteq Run BY <1>15 DEF IInv, ScaleDown, Cleaned, TypeOK, Disturbs, Others
    <3>6. replicas' \in 0..1 BY <1>15 DEF IInv, ScaleDown, Cleaned, TypeOK, Run
    <3> QED BY <1>15, <3>1, <3>2, <3>3, <3>4, <3>5, <3>6 DEF IInv, ScaleDown, TypeOK, Process
  <2>2. Placed'
    BY <1>15 DEF IInv, ScaleDown, Cleaned, Disturbs, Others, Uses, Publishing, TypeOK, Placed,
       Process, Cleaning, Owning
  <2>3. Bounded'
    BY <1>15 DEF IInv, ScaleDown, Cleaned, Disturbs, Others, Uses, Publishing, TypeOK, Bounded,
       Run
  <2>4. Fresh'
    BY <1>15 DEF IInv, ScaleDown, Cleaned, Disturbs, Others, Uses, Publishing, TypeOK, Placed,
       Bounded, Fresh, Run, Cleaning, Owning, Process
  <2>5. Claimed'
    BY <1>15 DEF IInv, ScaleDown, Cleaned, Disturbs, Others, Uses, Publishing, TypeOK, Placed,
       Claimed, Owning, Run, Cleaning
  <2>6. Quiet'
    BY <1>15 DEF IInv, ScaleDown, Cleaned, Disturbs, Others, Uses, Publishing, TypeOK, Placed,
       Bounded, Fresh, Claimed, Quiet, Owning, Run, Cleaning
  <2>7. UpOnlyOwned'
    BY <1>15 DEF IInv, ScaleDown, Cleaned, Disturbs, Others, Uses, Publishing, TypeOK, Placed,
       Claimed, Quiet, UpOnlyOwned, Owning, Run, Cleaning
  <2> QED BY <2>1, <2>2, <2>3, <2>4, <2>5, <2>6, <2>7 DEF IInv
<1>16. ASSUME NEW p \in Process, Check(p) PROVE IInv'
  <2>1. TypeOK'
    <3>1. pc' \in [Process -> Points]
      BY <1>16 DEF IInv, Check, Cleaned, TypeOK, Process, Points, Publishing
    <3>2. failed' \in [Process -> BOOLEAN] BY <1>16 DEF IInv, Check, Cleaned, TypeOK, Fails
    <3>3. faults' \in 0..MaxFaults BY <1>16 DEF IInv, Check, Cleaned, TypeOK, Fault
    <3>4. halted' \in Process \cup {None} BY <1>16 DEF IInv, Check, Cleaned, TypeOK, Recorded
    <3> QED BY <1>16, <3>1, <3>2, <3>3, <3>4 DEF IInv, Check, Keep, TypeOK, Process
  <2>2. Placed' BY <1>16 DEF IInv, Check, Cleaned, Keep, TypeOK, Placed, Process, Cleaning, Owning
  <2>3. Bounded' BY <1>16 DEF IInv, Check, Cleaned, Keep, TypeOK, Bounded, Run
  <2>4. Fresh'
    BY <1>16 DEF IInv, Check, Cleaned, Keep, TypeOK, Placed, Bounded, Fresh, Run, Cleaning,
       Owning, Process
  <2>5. Claimed'
    BY <1>16 DEF IInv, Check, Cleaned, Keep, TypeOK, Placed, Claimed, Uses, Publishing, Owning,
       Run, Cleaning
  <2>6. Quiet'
    <3>1. \A q \in Process, r \in Run : Uses(q, r)' => Uses(q, r)
      BY <1>16 DEF IInv, Check, Cleaned, Keep, TypeOK, Uses, Publishing
    <3>2. \A q \in Process : pc'[q] \in {"check", "unlink"} =>
             pc'[q] = pc[q] \/ (q = p /\ pc[p] = "check" /\ replicas' = 0)
      BY <1>16 DEF IInv, Check, Cleaned, TypeOK, Process
    <3>3. UNCHANGED <<owner, seen, disturbed, replicas>> BY <1>16 DEF Check, Keep
    <3> QED BY <3>1, <3>2, <3>3 DEF IInv, TypeOK, Quiet
  <2>7. UpOnlyOwned'
    BY <1>16 DEF IInv, Check, Cleaned, Keep, TypeOK, Placed, Claimed, Quiet, UpOnlyOwned, Uses,
       Publishing, Owning, Run, Cleaning
  <2> QED BY <2>1, <2>2, <2>3, <2>4, <2>5, <2>6, <2>7 DEF IInv
(* With nobody disturbed, the claim is the one it read and the publisher has stayed down. *)
<1>17. ASSUME NEW p \in Process, Unlink(p) PROVE IInv'
  <2>0. /\ TypeOK /\ pc[p] = "unlink" /\ owner' = None /\ disturbed' = disturbed \cup Others(p)
        /\ UNCHANGED <<lock, receipts, replicas, artifacts, run, faults, cleaner, started, seen, reviewed>>
        /\ pc' = [pc EXCEPT ![p] = pc'[p]] /\ pc'[p] \in {"halt", "visibility", "idle"}
        /\ pc'[p] # "idle" => cleaner[p] = "publish"
    BY <1>17 DEF IInv, TypeOK, Unlink, Cleaned, Disturbs
  <2>1. TypeOK'
    <3>1. failed' \in [Process -> BOOLEAN] /\ halted' \in Process \cup {None}
      BY <1>17 DEF IInv, TypeOK, Unlink, Cleaned, Recorded
    <3>2. pc' \in [Process -> Points] /\ disturbed' \subseteq Run
      BY <2>0 DEF TypeOK, Points, Others
    <3> QED BY <2>0, <3>1, <3>2 DEF TypeOK
  <2>2. Placed'
    BY <2>0 DEF IInv, TypeOK, Placed, Cleaning, Owning
  <2>3. Bounded'
    BY <2>0 DEF IInv, Bounded
  <2>4. Fresh'
    <3>1. ASSUME NEW q \in Process, pc'[q] \in {"claim", "own"}
          PROVE  q # p /\ pc[q] = pc'[q] /\ run[q] \in Run
      BY <2>0, <3>1 DEF IInv, TypeOK, Placed
    <3> QED BY <2>0, <3>1 DEF IInv, Fresh, Run
  <2>5. Claimed'
    <3>1. ASSUME disturbed' = {}, NEW q \in Process, pc'[q] \in Owning
          PROVE  FALSE
      <4>1. q # p /\ pc[q] = pc'[q] /\ disturbed = {} /\ Others(p) = {}
        BY <2>0, <3>1 DEF TypeOK, Owning
      <4>2. owner = run[q] /\ run[q] \in Run
        BY <3>1, <4>1 DEF IInv, TypeOK, Placed, Claimed
      <4>3. Uses(q, owner)
        BY <3>1, <4>1, <4>2 DEF IInv, Placed, Uses, Publishing, Owning, Cleaning
      <4> QED BY <4>1, <4>2, <4>3 DEF Others
    <3> QED BY <3>1 DEF Claimed
  <2>6. Quiet'
    BY <2>0 DEF Quiet
  <2>7. UpOnlyOwned'
    <3>1. ASSUME replicas = 1, disturbed' = {} PROVE FALSE
      <4>1. owner \in Run /\ disturbed = {} /\ Others(p) = {}
        BY <2>0, <3>1 DEF IInv, TypeOK, UpOnlyOwned
      <4>2. owner = seen[p]
        BY <4>1 DEF Others
      <4> QED BY <2>0, <3>1, <4>1, <4>2 DEF IInv, Quiet, Run
    <3> QED BY <2>0, <3>1 DEF TypeOK, UpOnlyOwned
  <2> QED BY <2>1, <2>2, <2>3, <2>4, <2>5, <2>6, <2>7 DEF IInv
<1>18. ASSUME Interrupted PROVE IInv'
  <2>1. TypeOK'
    BY <1>18 DEF IInv, Interrupted, End, Fails, Fault, TypeOK, Process, Points, Publishing
  <2>2. Placed' BY <1>18 DEF IInv, Interrupted, End, TypeOK, Placed, Process, Cleaning, Owning
  <2>3. Bystanding
    BY <1>18 DEF IInv, Interrupted, End, TypeOK, Bystanding, Owning, Uses, Publishing, Process
  <2> QED BY <2>1, <2>2, <2>3, Bystander DEF IInv
<1>19. ASSUME NEW S \in {{Manual}, Process}, Dies(S) PROVE IInv'
  <2>1. TypeOK'
    <3>1. faults' \in 0..MaxFaults BY <1>19 DEF IInv, Dies, TypeOK, Fault
    <3> QED BY <1>19, <3>1 DEF IInv, Dies, Points, TypeOK, Process
  <2>2. Placed' BY <1>19 DEF IInv, Dies, TypeOK, Placed, Process, Cleaning, Owning
  <2>3. Bystanding BY <1>19 DEF IInv, Dies, TypeOK, Bystanding, Owning, Uses, Publishing, Process
  <2> QED BY <2>1, <2>2, <2>3, Bystander DEF IInv
<1>20. ASSUME ClearHalt PROVE IInv'
  <2>1. TypeOK'
    <3>1. 1..started \subseteq Run BY DEF IInv, TypeOK, Run
    <3> QED BY <1>20, <3>1 DEF IInv, ClearHalt, TypeOK, Process
  <2>2. Placed' BY <1>20 DEF IInv, ClearHalt, TypeOK, Placed, Process, Cleaning, Owning
  <2>3. Bystanding
    BY <1>20 DEF IInv, ClearHalt, TypeOK, Bystanding, Owning, Uses, Publishing, Process
  <2> QED BY <2>1, <2>2, <2>3, Bystander DEF IInv
<1>21. CASE UNCHANGED vars
  BY <1>21 DEF IInv, vars, TypeOK, Placed, Bounded, Fresh, Claimed, Quiet, UpOnlyOwned, Uses
<1> QED
  BY <1>1, <1>2, <1>3, <1>4, <1>5, <1>6, <1>7, <1>8, <1>9, <1>10, <1>11, <1>12, <1>13, <1>14,
     <1>15, <1>16, <1>17, <1>18, <1>19, <1>20, <1>21 DEF Next

(* The invariant is inductive. *)
THEOREM Invariance == Spec => []IInv
BY IInvInit, IInvStep, PTL DEF Spec

(* Every variable keeps to its type, for any batch and any bounds. *)
THEOREM TypeCorrect == Spec => []TypeOK
<1>1. IInv => TypeOK BY DEF IInv
<1>2. QED BY <1>1, Invariance, PTL

(* As long as no process has taken the publisher from another, the publisher is up only under a
   claim: the next clean-up always finds it. *)
THEOREM PublisherIsClaimed == Spec => []UpOnlyOwned
<1>1. IInv => UpOnlyOwned BY DEF IInv
<1>2. QED BY <1>1, Invariance, PTL

-----------------------------------------------------------------------------
(* RecordsTrue needs more than IInv: what a cycle's place says of its      *)
(* batch, its failure and the halt.                                        *)

(* Only a run that has been started has a batch or a receipt. *)
Known == /\ receipts \subseteq 1..started
         /\ \A r \in Run : artifacts[r] > 0 => r \in 1..started

(* A cycle has no run before it generates one, no receipt before it claims the publisher, and
   gives its claim back before it looks at the API and records the batch it saw there. *)
Staged == \A p \in Process :
    /\ pc[p] \in {"lock", "halt_check", "generate"} => run[p] = None
    /\ pc[p] \in {"claim", "own"} => run[p] \notin receipts
    /\ pc[p] \in {"visibility", "record"} => owner # run[p]
    /\ pc[p] = "record" => artifacts[run[p]] = Batch

(* A halt is only written after a failure, and the service's end without a failure leaves no
   batch unrecorded. *)
Ended == \A p \in Process :
    /\ pc[p] = "halt" => failed[p]
    /\ cleaner[p] = "post" /\ pc[p] # "idle" /\ ~failed[p] => run[p] \in receipts \cup {None}

RInv == Known /\ Staged /\ Ended /\ RecordedArePublished /\ UnrecordedHalts

\* A step of one cycle.
CycleNext(p) ==
    \/ Start(p) \/ TakeLock(p) \/ CheckHalt(p) \/ Generate(p) \/ Halt(p)
    \/ Claim(p) \/ Own(p) \/ ScaleUp(p) \/ Pod(p) \/ Publish(p) \/ Verify(p)
    \/ Visibility(p) \/ Record(p)
    \/ Look(p) \/ ScaleDown(p) \/ Check(p) \/ Unlink(p)
    \/ (p = Service /\ Interrupted)

\* Nobody else moves, no run is lost and only the operator clears a halt or reviews a run.
Apart(p) ==
    /\ \A q \in Process \ {p} : /\ pc'[q] = pc[q] /\ run'[q] = run[q]
                                /\ failed'[q] = failed[q] /\ cleaner'[q] = cleaner[q]
    /\ reviewed' = reviewed /\ started' \in {started, started + 1}
    /\ halted # None => halted' # None

\* The steps that make a run, claim the publisher, store an artifact or record a batch.
NewRun(p) == /\ pc'[p] = "claim" /\ run'[p] = started + 1 /\ started' = started + 1 /\ run[p] = None
             /\ pc[p] = "generate" /\ cleaner'[p] = "publish"
             /\ UNCHANGED <<artifacts, receipts, owner>>
Claims(p) == /\ pc[p] = "own" /\ pc'[p] = "scale_up" /\ owner' = run[p] /\ run'[p] = run[p]
             /\ cleaner'[p] = "publish"
             /\ UNCHANGED <<artifacts, receipts>>
Stores(p) == /\ pc[p] = "publish" /\ pc'[p] \in {"publish", "look"} /\ run'[p] = run[p] /\ Stored(run[p])
             /\ artifacts[run[p]] < Batch /\ cleaner'[p] = "publish"
             /\ UNCHANGED <<receipts, owner>>
Records(p) == /\ pc[p] = "record" /\ receipts' = receipts \cup {run[p]} /\ run'[p] = run[p]
              /\ pc'[p] \in {"idle", "look"} /\ UNCHANGED <<artifacts, owner>>

\* Every other step.
Passes(p) ==
    /\ UNCHANGED <<artifacts, receipts>> /\ owner' \in {owner, None}
    /\ run'[p] = run[p] \/ (pc[p] = "idle" /\ run'[p] = None)
    /\ pc'[p] \in {"lock", "halt_check", "generate"} => run'[p] = None
    /\ pc'[p] \in {"claim", "own"} => pc[p] \in {"claim", "own"} /\ run'[p] = run[p]
    /\ pc'[p] = "visibility" => owner' = None
    /\ pc'[p] = "record" => pc[p] = "visibility" /\ artifacts[run[p]] = Batch /\ run'[p] = run[p]
    /\ pc'[p] = "halt" => failed'[p]
    /\ cleaner'[p] = "post" /\ pc'[p] # "idle" /\ ~failed'[p] => run'[p] \in receipts \cup {None}
    /\ pc'[p] = "idle" => pc[p] = "idle" \/ run[p] \in receipts \cup {None} \/ halted' # None

Does(p) == NewRun(p) \/ Claims(p) \/ Stores(p) \/ Records(p) \/ Passes(p)

LEMMA CleanUpEnds ==
    ASSUME IInv, RInv, NEW p \in Process, NEW broken \in BOOLEAN, Cleaned(p, broken), pc[p] \in Cleaning,
           UNCHANGED <<run, cleaner>>
    PROVE  /\ pc'[p] \in {"halt", "visibility", "idle"}
           /\ pc'[p] = "visibility" => ~broken
           /\ pc'[p] = "halt" => failed'[p]
           /\ cleaner'[p] = "post" => pc'[p] = "idle"
           /\ pc'[p] = "idle" => run[p] \in receipts \cup {None} \/ halted' # None
           /\ halted # None => halted' # None
           /\ \A q \in Process \ {p} : pc'[q] = pc[q] /\ failed'[q] = failed[q]
<1>1. p # None BY DEF Process
<1> QED BY <1>1 DEF IInv, TypeOK, RInv, Ended, Cleaned, Recorded, Cleaning

LEMMA CycleSteps ==
    ASSUME IInv, RInv, NEW p \in Process, CycleNext(p)
    PROVE  Apart(p) /\ Does(p)
<1>0. TypeOK /\ Placed /\ Staged /\ Ended /\ p # None
  BY DEF IInv, RInv, Process
<1>1. CASE Start(p)
  BY <1>0, <1>1 DEF Start, TypeOK, Apart, Does, Passes
<1>2. CASE TakeLock(p)
  BY <1>0, <1>2 DEF TakeLock, End, TypeOK, Apart, Does, Passes, Staged
<1>3. CASE CheckHalt(p)
  BY <1>0, <1>3 DEF CheckHalt, End, Fails, TypeOK, Apart, Does, Passes, Staged
<1>4. CASE Generate(p)
  <2>1. CASE started' = started
    BY <1>0, <1>4, <2>1 DEF Generate, Fails, TypeOK, Apart, Does, Passes
  <2>2. CASE started' = started + 1
    BY <1>0, <1>4, <2>2 DEF Generate, Fails, TypeOK, Apart, Does, NewRun, Staged, Placed, Cleaning
  <2> QED BY <1>4, <2>1, <2>2 DEF Generate
<1>5. CASE Halt(p)
  BY <1>0, <1>5 DEF Halt, End, Recorded, TypeOK, Apart, Does, Passes, Ended
<1>6. CASE Claim(p)
  BY <1>0, <1>6 DEF Claim, Fails, Keep, TypeOK, Apart, Does, Passes, Placed, Cleaning
<1>7. CASE Own(p)
  BY <1>0, <1>7 DEF Own, Fails, Keep, TypeOK, Apart, Does, Passes, Claims, Placed, Cleaning
<1>8. CASE ScaleUp(p)
  BY <1>0, <1>8 DEF ScaleUp, Abandon, Fails, Keep, TypeOK, Apart, Does, Passes, Placed, Cleaning
<1>9. CASE Pod(p)
  BY <1>0, <1>9 DEF Pod, Abandon, Fails, Keep, TypeOK, Apart, Does, Passes, Placed, Cleaning
<1>10. CASE Publish(p)
  BY <1>0, <1>10 DEF Publish, Abandon, Fails, Keep, TypeOK, Apart, Does, Passes, Stores, Placed, Cleaning
<1>11. CASE Verify(p)
  BY <1>0, <1>11 DEF Verify, Abandon, Fails, Keep, TypeOK, Apart, Does, Passes, Placed, Cleaning
<1>12. CASE Visibility(p)
  BY <1>0, <1>12 DEF Visibility, Visible, Fails, Keep, TypeOK, Apart, Does, Passes, Placed, Cleaning
<1>13. CASE Record(p)
  BY <1>0, <1>13 DEF Record, End, TypeOK, Apart, Does, Records
<1>14. CASE Look(p)
  <2>1. CASE owner = None
    BY <1>0, <1>14, <2>1, CleanUpEnds DEF Look, Apart, Does, Passes, Cleaning
  <2>2. CASE owner # None
    BY <1>0, <1>14, <2>2 DEF Look, TypeOK, Apart, Does, Passes, Ended
  <2> QED BY <2>1, <2>2
<1>15. CASE ScaleDown(p)
  <2>1. CASE Cleaned(p, TRUE)
    BY <1>0, <1>15, <2>1, CleanUpEnds DEF ScaleDown, Apart, Does, Passes, Cleaning
  <2>2. CASE ~Cleaned(p, TRUE)
    BY <1>0, <1>15, <2>2 DEF ScaleDown, TypeOK, Apart, Does, Passes, Ended
  <2> QED BY <2>1, <2>2
<1>16. CASE Check(p)
  <2>1. CASE Cleaned(p, TRUE)
    BY <1>0, <1>16, <2>1, CleanUpEnds DEF Check, Keep, Apart, Does, Passes, Cleaning
  <2>2. CASE ~Cleaned(p, TRUE)
    BY <1>0, <1>16, <2>2 DEF Check, Keep, TypeOK, Apart, Does, Passes, Ended
  <2> QED BY <2>1, <2>2
<1>17. CASE Unlink(p)
  BY <1>0, <1>17, CleanUpEnds DEF Unlink, Apart, Does, Passes, Cleaning
<1>18. CASE p = Service /\ Interrupted
  BY <1>0, <1>18 DEF Interrupted, End, Fails, TypeOK, Apart, Does, Passes
<1> QED
  BY <1>1, <1>2, <1>3, <1>4, <1>5, <1>6, <1>7, <1>8, <1>9, <1>10, <1>11, <1>12, <1>13, <1>14, <1>15,
     <1>16, <1>17, <1>18 DEF CycleNext

LEMMA KnownStep ==
    ASSUME IInv, IInv', RInv, NEW p \in Process, Apart(p), Does(p)
    PROVE  Known'
<1>1. started \in Nat /\ started' \in Nat /\ started' \in {started, started + 1}
  BY DEF IInv, TypeOK, Apart
<1>2. \A r \in 1..started : r \in 1..started'
  BY <1>1
<1>3. run[p] # None => run[p] \in 1..started
  BY DEF IInv, Bounded
<1>4. receipts' \subseteq receipts \cup {run[p]} /\ (Records(p) => run[p] # None)
  BY DEF IInv, Placed, Does, NewRun, Claims, Stores, Records, Passes
<1>5. receipts' \subseteq 1..started'
  BY <1>2, <1>3, <1>4 DEF RInv, Known, Does, NewRun, Claims, Stores, Records, Passes
<1>6. ASSUME NEW r \in Run, artifacts'[r] > 0
      PROVE  r \in 1..started'
  <2>1. CASE artifacts' = artifacts
    BY <1>2, <1>6, <2>1 DEF RInv, Known
  <2>2. CASE Stores(p)
    <3>1. run[p] # None /\ (r # run[p] => artifacts'[r] = artifacts[r])
      BY <2>2 DEF IInv, TypeOK, Placed, Owning, Stores, Stored
    <3> QED BY <1>2, <1>3, <1>6, <3>1 DEF RInv, Known
  <2> QED BY <2>1, <2>2 DEF Does, NewRun, Claims, Records, Passes
<1> QED BY <1>5, <1>6 DEF Known

LEMMA StagedStep ==
    ASSUME IInv, IInv', RInv, NEW p \in Process, Apart(p), Does(p)
    PROVE  Staged'
<1>1. ASSUME NEW q \in Process \ {p}, pc[q] \in {"claim", "own", "visibility", "record"}
      PROVE  /\ run[q] \in Run /\ run'[q] = run[q]
             /\ pc[q] \in {"claim", "own"} => run[q] \notin receipts'
             /\ pc[q] \in {"visibility", "record"} => owner' # run[q]
             /\ pc[q] = "record" => artifacts'[run[q]] = Batch
  <2>1. run[q] \in Run /\ run[q] # None /\ run'[q] = run[q]
    BY <1>1 DEF IInv, TypeOK, Placed, Apart
  <2>2. pc[q] \in {"claim", "own"} => run[q] # run[p] /\ run[q] \notin receipts
    BY DEF IInv, RInv, Fresh, Staged
  <2>3. pc[q] \in {"claim", "own"} => run[q] \notin receipts'
    BY <2>2 DEF Does, NewRun, Claims, Stores, Records, Passes
  <2>4. pc[q] \in {"visibility", "record"} => owner # run[q]
    BY DEF RInv, Staged
  <2>5. pc[p] = "own" => run[q] # run[p]
    BY DEF IInv, Fresh
  <2>6. pc[q] \in {"visibility", "record"} => owner' # run[q]
    BY <2>1, <2>4, <2>5 DEF Does, NewRun, Claims, Stores, Records, Passes
  <2>7. pc[q] = "record" => artifacts[run[q]] = Batch
    BY DEF RInv, Staged
  <2>8. pc[q] = "record" => artifacts'[run[q]] = Batch
    BY <2>1, <2>7 DEF IInv, TypeOK, Does, NewRun, Claims, Stores, Stored, Records, Passes
  <2> QED BY <2>1, <2>3, <2>6, <2>8
<1>2. ASSUME NEW q \in Process \ {p}
      PROVE  /\ pc'[q] \in {"lock", "halt_check", "generate"} => run'[q] = None
             /\ pc'[q] \in {"claim", "own"} => run'[q] \notin receipts'
             /\ pc'[q] \in {"visibility", "record"} => owner' # run'[q]
             /\ pc'[q] = "record" => artifacts'[run'[q]] = Batch
  BY <1>1 DEF RInv, Staged, Apart
<1>3. /\ pc'[p] \in {"lock", "halt_check", "generate"} => run'[p] = None
      /\ pc'[p] \in {"claim", "own"} => run'[p] \notin receipts'
      /\ pc'[p] \in {"visibility", "record"} => owner' # run'[p]
      /\ pc'[p] = "record" => artifacts'[run'[p]] = Batch
  <2>1. CASE NewRun(p)
    <3>1. started + 1 \notin 1..started
      BY DEF IInv, TypeOK
    <3> QED BY <2>1, <3>1 DEF RInv, Known, NewRun
  <2>2. CASE Claims(p) \/ Stores(p) \/ Records(p)
    BY <2>2 DEF Claims, Stores, Records
  <2>3. CASE Passes(p)
    <3>1. pc'[p] \in {"visibility", "record"} => run'[p] # None
      BY DEF IInv, Placed
    <3> QED BY <2>3, <3>1 DEF RInv, Staged, Passes
  <2> QED BY <2>1, <2>2, <2>3 DEF Does
<1> QED BY <1>2, <1>3 DEF Staged

LEMMA EndedStep ==
    ASSUME IInv, RInv, NEW p \in Process, Apart(p), Does(p)
    PROVE  Ended'
<1>1. \A q \in Process \ {p} : /\ pc'[q] = "halt" => failed'[q]
                               /\ cleaner'[q] = "post" /\ pc'[q] # "idle" /\ ~failed'[q] => run'[q] \in receipts' \cup {None}
  BY DEF RInv, Ended, Apart, Does, NewRun, Claims, Stores, Records, Passes
<1>2. /\ pc'[p] = "halt" => failed'[p]
      /\ cleaner'[p] = "post" /\ pc'[p] # "idle" /\ ~failed'[p] => run'[p] \in receipts' \cup {None}
  BY DEF Does, NewRun, Claims, Stores, Records, Passes
<1> QED BY <1>1, <1>2 DEF Ended

LEMMA RecordedStep ==
    ASSUME IInv, RInv, NEW p \in Process, Apart(p), Does(p)
    PROVE  RecordedArePublished'
<1>1. receipts \subseteq Run /\ artifacts \in [Run -> 0..Batch] /\ (pc[p] \in {"own", "record", "publish"} => run[p] \in Run)
  BY DEF IInv, TypeOK, Placed, Owning
<1>2. ASSUME NEW r \in receipts
      PROVE  artifacts'[r] = Batch /\ owner' # r
  <2>1. artifacts[r] = Batch /\ owner # r /\ r \in Run /\ (pc[p] = "own" => r # run[p])
    BY <1>1 DEF RInv, RecordedArePublished, Staged
  <2> QED BY <1>1, <2>1 DEF Does, NewRun, Claims, Stores, Stored, Records, Passes
<1>3. ASSUME Records(p)
      PROVE  artifacts'[run[p]] = Batch /\ owner' # run[p]
  BY <1>3 DEF RInv, Staged, Records
<1> QED BY <1>2, <1>3 DEF RecordedArePublished, Does, NewRun, Claims, Stores, Records, Passes

LEMMA HaltsStep ==
    ASSUME IInv, RInv, NEW p \in Process, Apart(p), Does(p)
    PROVE  UnrecordedHalts'
<1>1. ASSUME NEW r \in Run, artifacts'[r] > 0, r \notin receipts' \cup reviewed',
             \A q \in Process : run'[q] = r => pc'[q] = "idle"
      PROVE  halted' # None
  <2>1. r \notin receipts \cup reviewed
    BY <1>1 DEF Apart, Does, NewRun, Claims, Stores, Records, Passes
  <2>2. artifacts[r] > 0
    BY <1>1 DEF IInv, TypeOK, Does, NewRun, Claims, Stores, Stored, Records, Passes
  <2>3. \A q \in Process \ {p} : run[q] = r => pc[q] = "idle"
    BY <1>1 DEF Apart
  <2>4. CASE run[p] = r /\ pc[p] # "idle"
    <3>1. pc'[p] = "idle"
      BY <1>1, <2>4 DEF Does, NewRun, Claims, Stores, Records, Passes, Run
    <3>2. r # None
      BY DEF Run
    <3> QED BY <1>1, <2>1, <2>4, <3>1, <3>2 DEF Does, NewRun, Claims, Stores, Records, Passes
  <2>5. CASE ~(run[p] = r /\ pc[p] # "idle")
    <3>1. halted # None
      BY <2>1, <2>2, <2>3, <2>5 DEF RInv, UnrecordedHalts, Active
    <3> QED BY <3>1 DEF Apart
  <2> QED BY <2>4, <2>5
<1> QED BY <1>1 DEF UnrecordedHalts, Active

LEMMA RInvInit == Init => RInv
<1> SUFFICES ASSUME Init PROVE RInv
  OBVIOUS
<1>1. Known /\ Staged /\ Ended
  BY DEF Init, Known, Staged, Ended, Run
<1>2. RecordedArePublished /\ UnrecordedHalts
  BY DEF Init, RecordedArePublished, UnrecordedHalts
<1> QED BY <1>1, <1>2 DEF RInv

LEMMA RInvStep == IInv /\ IInv' /\ RInv /\ [Next]_vars => RInv'
<1> SUFFICES ASSUME IInv, IInv', RInv, [Next]_vars PROVE RInv'
  OBVIOUS
<1>1. ASSUME NEW p \in Process, CycleNext(p) PROVE RInv'
  BY <1>1, CycleSteps, KnownStep, StagedStep, EndedStep, RecordedStep, HaltsStep DEF RInv
(* What dies is reviewed: its cycle has written no halt. *)
<1>2. ASSUME NEW S \in {{Manual}, Process}, Dies(S) PROVE RInv'
  <2>1. /\ \A p \in Process : pc'[p] = pc[p] \/ (p \in S /\ pc'[p] = "idle")
        /\ reviewed' = reviewed \cup {r \in Run : \E p \in S : run[p] = r /\ pc[p] # "idle"}
        /\ UNCHANGED <<halted, owner, receipts, artifacts, run, failed, cleaner, started>>
        /\ S \subseteq Process
    BY <1>2 DEF Dies, Process
  <2>2. Known' /\ RecordedArePublished'
    BY <2>1 DEF RInv, Known, RecordedArePublished
  <2>3. Staged' /\ Ended'
    BY <2>1 DEF RInv, Staged, Ended
  <2>4. UnrecordedHalts'
    BY <2>1 DEF RInv, UnrecordedHalts, Active
  <2> QED BY <2>2, <2>3, <2>4 DEF RInv
(* The operator reviews every run that has ended. *)
<1>3. CASE ClearHalt
  <2>1. /\ reviewed' = reviewed \cup {r \in 1..started : ~Active(r)}
        /\ UNCHANGED <<owner, receipts, artifacts, pc, run, failed, cleaner, started>>
    BY <1>3 DEF ClearHalt
  <2>2. Known' /\ RecordedArePublished' /\ Staged' /\ Ended'
    BY <2>1 DEF RInv, Known, RecordedArePublished, Staged, Ended
  <2>3. UnrecordedHalts'
    BY <2>1 DEF RInv, Known, UnrecordedHalts, Active
  <2> QED BY <2>2, <2>3 DEF RInv
<1>4. CASE UNCHANGED vars
  BY <1>4 DEF vars, RInv, Known, Staged, Ended, RecordedArePublished, UnrecordedHalts, Active
<1> QED BY <1>1, <1>2, <1>3, <1>4 DEF Next, CycleNext, Process

(* A receipt stands for a batch that is published whole and a claim given back, and a batch that
   ended half published or unrecorded has left a halt: no failing command, killed process or
   cleared halt makes the records lie. *)
THEOREM RecordsAreTrue == Spec => []RecordsTrue
<1>1. RInv => RecordsTrue BY DEF RInv, RecordsTrue
<1>2. Spec => []RInv
  BY Invariance, IInvInit, IInvStep, RInvInit, RInvStep, PTL DEF Spec
<1> QED BY <1>1, <1>2, PTL
=============================================================================
