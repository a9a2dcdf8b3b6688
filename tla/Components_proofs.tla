---------------------------- MODULE Components_proofs ----------------------------
(***************************************************************************)
(* Six components of the derivation pipeline, for every value of their     *)
(* constants: the commands' output files, the evidence ledger, the         *)
(* collectors that keep going without Redis, the identity of policy        *)
(* actions, the loader of evidence packets, and the evaluation matrix.     *)
(***************************************************************************)
EXTENDS EvidenceLedger, OutputFiles, FailOpenCollectors, GeopoliticalIdentity, PacketLoader, ReplayMatrix,
        FiniteSetTheorems, FunctionTheorems, WellFoundedInduction, TLAPS

-----------------------------------------------------------------------------
(* Output files.                                                           *)

OutputSpec == OutputInit /\ [][OutputNext]_outputVars

Places == {"start", "staging", "committing", "rollback", "written", "done", "failed", "crashed"}
OutputTypeOK == /\ files \in [Paths -> Writers \cup {NoRun}]
                /\ temps \in [Writers -> SUBSET Paths] /\ committed \in [Writers -> Seq(Paths)]
                /\ at \in [Writers -> Places]

(* How far a run has come.                                                 *)
Staged(r) ==
    /\ at[r] = "start" => temps[r] = {}
    /\ at[r] \in {"start", "staging"} => committed[r] = <<>>
    /\ at[r] = "staging" => IsFiniteSet(temps[r]) /\ Cardinality(temps[r]) < Len(Outputs[r])
    /\ at[r] = "committing" => Len(committed[r]) < Len(Outputs[r])
    /\ at[r] \in {"written", "done"} => Len(committed[r]) = Len(Outputs[r])
    /\ at[r] \in {"committing", "written", "done"} =>
         \A i \in 1 .. Len(committed[r]) : committed[r][i] = Outputs[r][i]
    /\ at[r] \in {"done", "failed"} => temps[r] = {}
    /\ at[r] = "failed" /\ r \notin Overwrite => committed[r] = <<>>
    /\ Range(committed[r]) \subseteq Range(Outputs[r])

(* Whose text a path holds.  A run that may not overwrite knows its own    *)
(* files, and loses one only to a run that may; what an overwriting run    *)
(* has put is still one's that may, or a run that was rolled back had it.  *)
Once(s) == \A i, j \in 1 .. Len(s) : s[i] = s[j] => i = j
Undone(r) == at[r] \in {"rollback", "failed", "crashed"}
OwnInv == \A r \in Writers \ Overwrite :
    /\ \A p \in Paths : files[p] = r => p \in Range(committed[r])
    /\ \A p \in Range(committed[r]) : files[p] \in {r} \cup Overwrite
    /\ Once(committed[r])
ApartInv == \A q, r \in Writers \ Overwrite : q # r => Range(committed[q]) \cap Range(committed[r]) = {}
PutInv == \A r \in Overwrite : \A p \in Range(committed[r]) :
    \/ files[p] \in Overwrite
    \/ \E other \in Writers \ Overwrite : Undone(other) /\ p \in Range(Outputs[other])

OutputInv == /\ OutputTypeOK /\ (\A r \in Writers : Staged(r)) /\ OwnInv /\ ApartInv /\ PutInv
-----------------------------------------------------------------------------
(* The range of a sequence, as a set of its members.                       *)
LEMMA RangeOf == \A s : Range(s) = {s[i] : i \in DOMAIN s}
BY DEF Range

(* What Append does to the type, the range and the uniqueness of members.  *)
LEMMA Appended ==
  ASSUME NEW S, NEW s \in Seq(S), NEW p \in S
  PROVE  /\ Append(s, p) \in Seq(S) /\ Len(Append(s, p)) = Len(s) + 1
         /\ Append(s, p)[Len(s) + 1] = p
         /\ \A i \in 1 .. Len(s) : Append(s, p)[i] = s[i]
         /\ Range(Append(s, p)) = Range(s) \cup {p}
         /\ Once(s) /\ p \notin Range(s) => Once(Append(s, p))
<1>1. /\ Append(s, p) \in Seq(S) /\ Len(Append(s, p)) = Len(s) + 1
      /\ Append(s, p)[Len(s) + 1] = p
      /\ \A i \in 1 .. Len(s) : Append(s, p)[i] = s[i]
  OBVIOUS
<1>2. /\ DOMAIN Append(s, p) = 1 .. Len(s) + 1 /\ DOMAIN s = 1 .. Len(s) /\ Len(s) \in Nat
      /\ 1 .. Len(s) + 1 = (1 .. Len(s)) \cup {Len(s) + 1}
  BY <1>1
<1>3. Range(Append(s, p)) = Range(s) \cup {p}
  BY <1>1, <1>2 DEF Range
<1>4. ASSUME Once(s), p \notin Range(s) PROVE Once(Append(s, p))
  <2> DEFINE t == Append(s, p)
  <2> SUFFICES ASSUME NEW i \in 1 .. Len(s) + 1, NEW j \in 1 .. Len(s) + 1, t[i] = t[j]
               PROVE  i = j
    BY <1>1 DEF Once
  <2>1. \A k \in 1 .. Len(s) : s[k] # p
    BY <1>2, <1>4 DEF Range
  <2>2. i \in (1 .. Len(s)) \cup {Len(s) + 1} /\ j \in (1 .. Len(s)) \cup {Len(s) + 1}
    BY <1>2
  <2>3. \A k \in 1 .. Len(s) : t[k] = s[k]
    BY <1>1
  <2>4. t[Len(s) + 1] = p
    BY <1>1
  <2> HIDE DEF t
  <2> QED
    BY <1>4, <2>1, <2>2, <2>3, <2>4 DEF Once
<1> QED
  BY <1>1, <1>3, <1>4

(* What Head and Tail do to them.                                          *)
LEMMA Unrolled ==
  ASSUME NEW S, NEW s \in Seq(S), s # <<>>
  PROVE  /\ Tail(s) \in Seq(S) /\ Head(s) \in Range(s)
         /\ Range(s) = Range(Tail(s)) \cup {Head(s)}
         /\ Once(s) => Once(Tail(s)) /\ Head(s) \notin Range(Tail(s))
<1>1. /\ Tail(s) \in Seq(S) /\ Len(Tail(s)) = Len(s) - 1 /\ Head(s) = s[1] /\ Len(s) \in Nat \ {0}
      /\ \A i \in 1 .. Len(s) - 1 : Tail(s)[i] = s[i + 1]
      /\ DOMAIN s = 1 .. Len(s) /\ DOMAIN Tail(s) = 1 .. Len(s) - 1
  OBVIOUS
<1>2. \A x \in Range(s) : x = s[1] \/ x \in Range(Tail(s))
  <2> SUFFICES ASSUME NEW i \in 1 .. Len(s), i # 1 PROVE s[i] \in Range(Tail(s))
    BY <1>1 DEF Range
  <2>1. i - 1 \in 1 .. Len(s) - 1 /\ Tail(s)[i - 1] = s[i]
    BY <1>1
  <2> QED
    BY <1>1, <2>1 DEF Range
<1>3. \A x \in Range(Tail(s)) : x \in Range(s)
  <2> SUFFICES ASSUME NEW i \in 1 .. Len(s) - 1 PROVE s[i + 1] \in Range(s)
    BY <1>1 DEF Range
  <2> QED
    BY <1>1 DEF Range
<1>4. s[1] \in Range(s)
  BY <1>1 DEF Range
<1>5. ASSUME Once(s) PROVE Once(Tail(s)) /\ s[1] \notin Range(Tail(s))
  <2>1. ASSUME NEW i \in 1 .. Len(s) - 1, NEW j \in 1 .. Len(s) - 1, s[i + 1] = s[j + 1] PROVE i = j
    <3>1. i + 1 \in 1 .. Len(s) /\ j + 1 \in 1 .. Len(s)
      BY <1>1
    <3> QED
      BY <1>1, <1>5, <2>1, <3>1 DEF Once
  <2>2. ASSUME NEW i \in 1 .. Len(s) - 1 PROVE s[i + 1] # s[1]
    <3>1. i + 1 \in 1 .. Len(s) /\ 1 \in 1 .. Len(s) /\ i + 1 # 1
      BY <1>1
    <3> QED
      BY <1>5, <3>1 DEF Once
  <2>3. Once(Tail(s))
    BY <1>1, <2>1 DEF Once
  <2>4. s[1] \notin Range(Tail(s))
    BY <1>1, <2>2 DEF Range
  <2> QED
    BY <2>3, <2>4
<1> QED
  BY <1>1, <1>2, <1>3, <1>4, <1>5

(* Before any command starts.                                              *)
LEMMA OutputStart == ASSUME OutputsAssumption, OutputInit PROVE OutputInv
<1>1. \A r \in Writers : /\ Range(<<>>) = {} /\ Once(<<>>) /\ Len(Outputs[r]) \in Nat /\ <<>> \in Seq(Paths)
  BY DEF OutputsAssumption, Range, Once
<1>2. OutputTypeOK
  BY DEF OutputTypeOK, OutputInit, Places
<1>3. \A r \in Writers : Staged(r)
  BY <1>1 DEF Staged, OutputInit
<1>4. OwnInv /\ ApartInv /\ PutInv
  BY <1>1 DEF OwnInv, ApartInv, PutInv, OutputInit, OutputsAssumption
<1> QED
  BY <1>2, <1>3, <1>4 DEF OutputInv

(* A run that neither puts nor takes away a file.                          *)
LEMMA OutputQuiet ==
  ASSUME OutputsAssumption, OutputInv, NEW r \in Writers, NEW to \in Places,
         Move(r, to), UNCHANGED <<files, committed>>, temps' \in [Writers -> SUBSET Paths],
         \A q \in Writers \ {r} : temps'[q] = temps[q],
         Undone(r) => to \in {"rollback", "failed", "crashed"},
         Staged(r)'
  PROVE  OutputInv'
<1>1. OutputTypeOK'
  BY DEF OutputInv, OutputTypeOK, Move
<1>2. \A q \in Writers \ {r} : at'[q] = at[q]
  BY DEF OutputInv, OutputTypeOK, Move
<1>3. at'[r] = to
  BY DEF OutputInv, OutputTypeOK, Move
<1>4. ASSUME NEW q \in Writers PROVE Staged(q)'
  <2>1. CASE q # r
    BY <1>2, <2>1 DEF OutputInv, Staged
  <2> QED
    BY <2>1
<1>5. OwnInv' /\ ApartInv'
  BY DEF OutputInv, OwnInv, ApartInv
<1>6. PutInv'
  BY <1>2, <1>3 DEF OutputInv, PutInv, Undone
<1> QED
  BY <1>1, <1>4, <1>5, <1>6 DEF OutputInv

(* The typed parts of a run.                                               *)
LEMMA OutputsOf ==
  ASSUME OutputsAssumption, OutputInv, NEW r \in Writers
  PROVE  /\ Outputs[r] \in Seq(Paths) /\ Len(Outputs[r]) \in Nat \ {0}
         /\ \A i \in 1 .. Len(Outputs[r]) : Outputs[r][i] \in Paths /\ Outputs[r][i] \in Range(Outputs[r])
         /\ committed[r] \in Seq(Paths) /\ Len(committed[r]) \in Nat /\ Staged(r)
         /\ Range(committed[r]) \subseteq Paths
<1>1. Outputs[r] \in Seq(Paths) /\ Outputs[r] # <<>> /\ committed[r] \in Seq(Paths) /\ Staged(r)
  BY DEF OutputsAssumption, OutputInv, OutputTypeOK
<1> QED
  BY <1>1 DEF Range

(* The look at the targets.                                                *)
LEMMA OutputChecks ==
  ASSUME OutputsAssumption, OutputInv, NEW r \in Writers, CheckTargets(r)
  PROVE  OutputInv'
<1> DEFINE to == IF Clobbers(r) THEN "failed" ELSE "staging"
<1>1. to \in Places /\ at[r] = "start" /\ Move(r, to) /\ UNCHANGED <<files, temps, committed>>
  BY DEF CheckTargets, Places
<1>2. at'[r] = to /\ to \in {"failed", "staging"}
  BY <1>1 DEF OutputInv, OutputTypeOK, Move
<1>3. temps[r] = {} /\ committed[r] = <<>>
  BY <1>1, OutputsOf DEF Staged
<1>4. Staged(r)'
  <2>1. IsFiniteSet({}) /\ Cardinality({}) = 0
    BY FS_EmptySet
  <2> HIDE DEF to
  <2> QED
    BY <1>1, <1>2, <1>3, <2>1, OutputsOf DEF Staged
<1>5. temps' \in [Writers -> SUBSET Paths] /\ ~Undone(r)
  BY <1>1 DEF OutputInv, OutputTypeOK, Undone
<1> HIDE DEF to
<1> QED
  BY <1>1, <1>4, <1>5, OutputQuiet

(* One more temporary file, or none.                                       *)
LEMMA OutputStages ==
  ASSUME OutputsAssumption, OutputInv, NEW r \in Writers, Stage(r)
  PROVE  OutputInv'
<1>0. at[r] = "staging" /\ UNCHANGED <<files, committed>> /\ ~Undone(r)
  BY DEF Stage, Undone
<1>1. IsFiniteSet(temps[r]) /\ Cardinality(temps[r]) \in Nat /\ Cardinality(temps[r]) < Len(Outputs[r]) /\ committed[r] = <<>>
  BY <1>0, OutputsOf, FS_CardinalityType DEF Staged
<1> DEFINE n == Cardinality(temps[r]) + 1
           p == Outputs[r][n]
<1>2. CASE Move(r, "rollback") /\ UNCHANGED temps
  <2>1. at'[r] = "rollback"
    BY <1>2 DEF OutputInv, OutputTypeOK, Move
  <2>2. Staged(r)'
    BY <1>0, <2>1, OutputsOf DEF Staged
  <2> QED
    BY <1>0, <1>2, <2>2, OutputQuiet DEF OutputInv, OutputTypeOK, Places
<1>3. CASE temps' = [temps EXCEPT ![r] = @ \cup {p}]
           /\ Move(r, IF n = Len(Outputs[r]) THEN "committing" ELSE "staging")
  <2> DEFINE to == IF n = Len(Outputs[r]) THEN "committing" ELSE "staging"
  <2>1. n \in 1 .. Len(Outputs[r]) /\ p \in Paths
    BY <1>1, OutputsOf
  <2>2. temps' \in [Writers -> SUBSET Paths] /\ temps'[r] = temps[r] \cup {p} /\ \A q \in Writers \ {r} : temps'[q] = temps[q]
    BY <1>3, <2>1 DEF OutputInv, OutputTypeOK
  <2>3. at'[r] = to /\ to \in Places /\ to \in {"committing", "staging"}
    BY <1>3 DEF OutputInv, OutputTypeOK, Move, Places
  <2>4. IsFiniteSet(temps'[r]) /\ Cardinality(temps'[r]) \in Nat /\ Cardinality(temps'[r]) <= n
    <3>1. /\ IsFiniteSet(temps[r] \cup {p})
          /\ Cardinality(temps[r] \cup {p}) = IF p \in temps[r] THEN Cardinality(temps[r]) ELSE Cardinality(temps[r]) + 1
      BY <1>1, FS_AddElement
    <3> HIDE DEF p
    <3> QED
      BY <1>1, <2>2, <3>1
  <2>5. to = "staging" => Cardinality(temps'[r]) < Len(Outputs[r])
    BY <2>1, <2>4, OutputsOf
  <2>6. Move(r, to)
    BY <1>3
  <2> HIDE DEF to
  <2>7. Staged(r)'
    <3>1. committed'[r] = <<>> /\ Len(committed'[r]) = 0 /\ Len(Outputs[r]) \in Nat \ {0}
      BY <1>0, <1>1, OutputsOf
    <3>2. Range(committed'[r]) \subseteq Range(Outputs[r])
      BY <1>0, OutputsOf DEF Staged
    <3> QED
      BY <2>3, <2>4, <2>5, <3>1, <3>2 DEF Staged
  <2> QED
    BY <1>0, <2>2, <2>3, <2>6, <2>7, OutputQuiet
<1> QED
  BY <1>2, <1>3 DEF Stage

(* The finally clause.                                                     *)
LEMMA OutputCleans ==
  ASSUME OutputsAssumption, OutputInv, NEW r \in Writers, Cleanup(r) \/ Crash(r)
  PROVE  OutputInv'
<1>1. CASE Cleanup(r)
  <2> DEFINE to == IF at[r] = "written" THEN "done" ELSE "failed"
  <2>1. at'[r] = to /\ to \in Places /\ Move(r, to) /\ UNCHANGED <<files, committed>>
    BY <1>1 DEF Cleanup, OutputInv, OutputTypeOK, Move, Places
  <2>2. temps' \in [Writers -> SUBSET Paths] /\ temps'[r] = {} /\ \A q \in Writers \ {r} : temps'[q] = temps[q]
    BY <1>1 DEF Cleanup, OutputInv, OutputTypeOK
  <2>3. Staged(r)'
    <3>1. \/ at[r] = "written" /\ to = "done"
          \/ at[r] = "rollback" /\ to = "failed" /\ (r \in Overwrite \/ committed[r] = <<>>)
      BY <1>1 DEF Cleanup
    <3> HIDE DEF to
    <3> QED
      BY <2>1, <2>2, <3>1, OutputsOf DEF Staged
  <2>4. Undone(r) => to \in {"rollback", "failed", "crashed"}
    BY DEF Undone
  <2> HIDE DEF to
  <2> QED
    BY <2>1, <2>2, <2>3, <2>4, OutputQuiet
<1>2. CASE Crash(r)
  <2>1. at'[r] = "crashed" /\ "crashed" \in Places /\ Move(r, "crashed") /\ UNCHANGED <<files, temps, committed>>
    BY <1>2 DEF Crash, OutputInv, OutputTypeOK, Move, Places
  <2>2. Staged(r)'
    BY <2>1, OutputsOf DEF Staged
  <2> QED
    BY <2>1, <2>2, OutputQuiet DEF OutputInv, OutputTypeOK
<1> QED
  BY <1>1, <1>2

(* A target linked or replaced, or refused.                                *)
LEMMA OutputCommits ==
  ASSUME OutputsAssumption, OutputInv, NEW r \in Writers, Commit(r)
  PROVE  OutputInv'
<1> DEFINE n == Len(committed[r]) + 1
           p == Outputs[r][n]
           to == IF n = Len(Outputs[r]) THEN "written" ELSE "committing"
<1>0. /\ at[r] = "committing" /\ ~Undone(r) /\ n \in 1 .. Len(Outputs[r])
      /\ p \in Paths /\ p \in Range(Outputs[r]) /\ n \in Nat
  BY OutputsOf DEF Commit, Undone, Staged
<1>1. CASE Move(r, "rollback") /\ UNCHANGED <<files, temps, committed>>
  <2>1. at'[r] = "rollback"
    BY <1>1 DEF OutputInv, OutputTypeOK, Move
  <2>2. Staged(r)'
    BY <1>0, <1>1, <2>1, OutputsOf DEF Staged
  <2> QED
    BY <1>0, <1>1, <2>2, OutputQuiet DEF OutputInv, OutputTypeOK, Places
<1>2. CASE /\ r \in Overwrite \/ files[p] = NoRun
           /\ files' = [files EXCEPT ![p] = r]
           /\ committed' = [committed EXCEPT ![r] = Append(@, p)]
           /\ temps' = IF r \in Overwrite THEN [temps EXCEPT ![r] = @ \ {p}] ELSE temps
           /\ Move(r, to)
  <2>1. at'[r] = to /\ to \in {"written", "committing"} /\ to \in Places /\ \A q \in Writers \ {r} : at'[q] = at[q]
    BY <1>2 DEF OutputInv, OutputTypeOK, Move, Places
  <2>2. /\ committed'[r] = Append(committed[r], p) /\ \A q \in Writers \ {r} : committed'[q] = committed[q]
        /\ files'[p] = r /\ \A x \in Paths \ {p} : files'[x] = files[x]
        /\ \A q \in Writers \ {r} : temps'[q] = temps[q]
    BY <1>0, <1>2 DEF OutputInv, OutputTypeOK
  <2>3. /\ committed'[r] \in Seq(Paths) /\ Len(committed'[r]) = n /\ committed'[r][n] = p
        /\ \A i \in 1 .. n - 1 : committed'[r][i] = committed[r][i]
        /\ Range(committed'[r]) = Range(committed[r]) \cup {p}
    BY <1>0, <2>2, OutputsOf, Appended
  <2>4. OutputTypeOK'
    <3>1. temps' \in [Writers -> SUBSET Paths] /\ files' \in [Paths -> Writers \cup {NoRun}]
      BY <1>0, <1>2 DEF OutputInv, OutputTypeOK
    <3>2. committed' \in [Writers -> Seq(Paths)]
      BY <1>2, <2>2, <2>3 DEF OutputInv, OutputTypeOK
    <3>3. at' \in [Writers -> Places]
      BY <1>2, <2>1 DEF OutputInv, OutputTypeOK, Move
    <3> QED
      BY <3>1, <3>2, <3>3 DEF OutputTypeOK
  <2>5. Staged(r)'
    <3>1. \A i \in 1 .. Len(committed'[r]) : committed'[r][i] = Outputs[r][i]
      <4>1. \A i \in 1 .. n - 1 : committed[r][i] = Outputs[r][i]
        BY <1>0, OutputsOf DEF Staged
      <4>2. \A i \in 1 .. n : i = n \/ i \in 1 .. n - 1
        BY <1>0
      <4> QED
        BY <2>3, <4>1, <4>2
    <3>2. n = Len(Outputs[r]) <=> to = "written"
      BY <2>1
    <3>3. n \in Nat /\ n <= Len(Outputs[r]) /\ Len(Outputs[r]) \in Nat
      BY <1>0, OutputsOf
    <3>4. Range(committed'[r]) \subseteq Range(Outputs[r])
      BY <1>0, <2>3, OutputsOf DEF Staged
    <3> HIDE DEF n, p, to
    <3> QED
      BY <2>1, <2>3, <3>1, <3>2, <3>3, <3>4 DEF Staged
  <2>6. ASSUME NEW q \in Writers PROVE Staged(q)'
    <3>1. CASE q # r
      <4>1. at'[q] = at[q] /\ temps'[q] = temps[q] /\ committed'[q] = committed[q]
        BY <2>1, <2>2, <3>1
      <4> QED
        BY <4>1, OutputsOf DEF Staged
    <3> QED
      BY <2>5, <3>1
  \* Where a run that may not overwrite has just linked, nobody else had.
  <2>7. ASSUME NEW q \in Writers \ Overwrite, q # r, p \in Range(committed[q]) PROVE r \in Overwrite
    BY <1>2, <2>7 DEF OutputInv, OwnInv, OutputsAssumption
  <2> HIDE DEF n, p, to
  <2>11. r \notin Overwrite => p \notin Range(committed[r])
    BY <1>2 DEF OutputInv, OwnInv, OutputsAssumption
  <2>12. r \notin Overwrite => Once(committed'[r])
    BY <1>0, <2>2, <2>11, OutputsOf, Appended DEF OutputInv, OwnInv
  <2>8. OwnInv'
    <3> SUFFICES ASSUME NEW q \in Writers \ Overwrite
                 PROVE  /\ \A x \in Paths : files'[x] = q => x \in Range(committed'[q])
                        /\ \A x \in Range(committed'[q]) : files'[x] \in {q} \cup Overwrite
                        /\ Once(committed'[q])
      BY DEF OwnInv
    <3>1. /\ \A x \in Paths : files[x] = q => x \in Range(committed[q])
          /\ \A x \in Range(committed[q]) : x \in Paths /\ files[x] \in {q} \cup Overwrite
          /\ Once(committed[q])
      BY OutputsOf DEF OutputInv, OwnInv
    <3>2. CASE q = r
      BY <2>2, <2>3, <2>12, <3>1, <3>2
    <3>3. CASE q # r
      BY <2>2, <2>7, <3>1, <3>3
    <3> QED
      BY <3>2, <3>3
  <2>9. ApartInv'
    <3> SUFFICES ASSUME NEW q \in Writers \ Overwrite, NEW q2 \in Writers \ Overwrite, q # q2
                 PROVE  Range(committed'[q]) \cap Range(committed'[q2]) = {}
      BY DEF ApartInv
    <3>1. Range(committed[q]) \cap Range(committed[q2]) = {}
      BY DEF OutputInv, ApartInv
    <3>2. CASE q = r
      BY <2>2, <2>3, <2>7, <3>1, <3>2
    <3>3. CASE q2 = r
      BY <2>2, <2>3, <2>7, <3>1, <3>3
    <3> QED
      BY <2>2, <3>1, <3>2, <3>3
  <2>10. PutInv'
    <3> SUFFICES ASSUME NEW q \in Overwrite, NEW x \in Range(committed'[q]), files'[x] \notin Overwrite
                 PROVE  \E other \in Writers \ Overwrite : Undone(other)' /\ x \in Range(Outputs[other])
      BY DEF PutInv
    <3>1. q \in Writers /\ NoRun \notin Overwrite
      BY DEF OutputsAssumption
    <3>2. x \in Range(committed[q]) /\ x \in Paths
      <4>1. x # p \/ q # r
        BY <2>2
      <4>2. x \in Range(committed[q])
        <5>1. CASE q = r
          BY <2>3, <4>1, <5>1
        <5>2. CASE q # r
          BY <2>2, <3>1, <5>2
        <5> QED
          BY <5>1, <5>2
      <4>3. Range(committed[q]) \subseteq Paths
        BY <3>1, OutputsOf
      <4> QED
        BY <4>2, <4>3
    <3>3. files[x] \notin Overwrite
      BY <1>2, <2>2, <3>1, <3>2
    <3>4. PICK other \in Writers \ Overwrite : Undone(other) /\ x \in Range(Outputs[other])
      BY <3>2, <3>3 DEF OutputInv, PutInv
    <3>5. other # r
      BY <1>0, <3>4
    <3> QED
      BY <2>1, <3>4, <3>5 DEF Undone
  <2> QED
    BY <2>4, <2>6, <2>8, <2>9, <2>10 DEF OutputInv
<1> QED
  BY <1>0, <1>1, <1>2 DEF Commit

(* The unlinking of what this call linked.                                 *)
LEMMA OutputRollsBack ==
  ASSUME OutputsAssumption, OutputInv, NEW r \in Writers, Rollback(r)
  PROVE  OutputInv'
<1> DEFINE p == Head(committed[r])
<1>0. /\ at[r] = "rollback" /\ Undone(r) /\ r \notin Overwrite
      /\ files' = [files EXCEPT ![p] = NoRun] /\ committed' = [committed EXCEPT ![r] = Tail(@)]
      /\ UNCHANGED <<temps, at>>
  BY DEF Rollback, Undone
<1>1. /\ Tail(committed[r]) \in Seq(Paths) /\ p \in Range(committed[r])
      /\ Range(committed[r]) = Range(Tail(committed[r])) \cup {p}
      /\ Once(committed[r]) => Once(Tail(committed[r])) /\ p \notin Range(Tail(committed[r]))
  BY OutputsOf, Unrolled DEF Rollback
<1>2. p \in Paths /\ p \in Range(Outputs[r])
  BY <1>1, OutputsOf DEF Staged
<1> HIDE DEF p
<1>3. /\ committed'[r] = Tail(committed[r]) /\ \A q \in Writers \ {r} : committed'[q] = committed[q]
      /\ files'[p] = NoRun /\ \A x \in Paths \ {p} : files'[x] = files[x]
  BY <1>0, <1>2 DEF OutputInv, OutputTypeOK
<1>4. OutputTypeOK'
  BY <1>0, <1>1, <1>2 DEF OutputInv, OutputTypeOK
<1>5. ASSUME NEW q \in Writers PROVE Staged(q)'
  <2>1. CASE q # r
    BY <1>0, <1>3, <2>1 DEF OutputInv, Staged
  <2>2. CASE q = r
    BY <1>0, <1>1, <1>3, <2>2, OutputsOf DEF Staged
  <2> QED
    BY <2>1, <2>2
<1>6. ASSUME NEW q \in Writers \ Overwrite PROVE q # r => p \notin Range(committed[q])
  BY <1>0, <1>1 DEF OutputInv, ApartInv
<1>7. \A q \in Writers : Range(committed'[q]) \subseteq Range(committed[q])
  BY <1>1, <1>3
<1>8. OwnInv'
  <2> SUFFICES ASSUME NEW q \in Writers \ Overwrite
               PROVE  /\ \A x \in Paths : files'[x] = q => x \in Range(committed'[q])
                      /\ \A x \in Range(committed'[q]) : files'[x] \in {q} \cup Overwrite
                      /\ Once(committed'[q])
    BY DEF OwnInv
  <2>1. /\ \A x \in Paths : files[x] = q => x \in Range(committed[q])
        /\ \A x \in Range(committed[q]) : x \in Paths /\ files[x] \in {q} \cup Overwrite
        /\ q # NoRun /\ Once(committed[q])
    <3>1. Range(committed[q]) \subseteq Paths
      BY OutputsOf
    <3> QED
      BY <3>1 DEF OutputInv, OwnInv, OutputsAssumption
  <2>2. CASE q = r
    BY <1>1, <1>3, <2>1, <2>2
  <2>3. CASE q # r
    BY <1>3, <1>6, <2>1, <2>3
  <2> QED
    BY <2>2, <2>3
<1>9. ApartInv'
  BY <1>7 DEF OutputInv, ApartInv
<1>10. PutInv'
  <2> SUFFICES ASSUME NEW q \in Overwrite, NEW x \in Range(committed'[q]), files'[x] \notin Overwrite
               PROVE  \E other \in Writers \ Overwrite : Undone(other)' /\ x \in Range(Outputs[other])
    BY DEF PutInv
  <2>1. q \in Writers /\ x \in Range(committed[q]) /\ x \in Paths
    BY <1>7, OutputsOf DEF OutputsAssumption
  <2>2. CASE x = p
    BY <1>0, <1>2, <2>2 DEF Undone
  <2>3. CASE x # p
    <3>1. files[x] \notin Overwrite
      BY <1>3, <2>1, <2>3
    <3> QED
      BY <1>0, <2>1, <3>1 DEF OutputInv, PutInv, Undone
  <2> QED
    BY <2>2, <2>3
<1> QED
  BY <1>4, <1>5, <1>8, <1>9, <1>10 DEF OutputInv

(* The invariant is strong enough.                                         *)
LEMMA OutputSound == ASSUME OutputsAssumption, OutputInv PROVE OutputsSound
<1> SUFFICES ASSUME NEW r \in Writers
             PROVE  /\ at[r] \in {"done", "failed"} => temps[r] = {}
                    /\ at[r] = "failed" /\ r \notin Overwrite => \A p \in Paths : files[p] # r
                    /\ at[r] = "done" => \A p \in Range(Outputs[r]) :
                         \/ files[p] = r \/ files[p] \in Overwrite
                         \/ r \in Overwrite /\ \E other \in Writers \ Overwrite : at[other] \in {"rollback", "failed", "crashed"} /\ p \in Range(Outputs[other])
                    /\ \A q \in Writers \ Overwrite : at[r] = "done" /\ at[q] = "done" /\ r \notin {q} \cup Overwrite =>
                         Range(Outputs[r]) \cap Range(Outputs[q]) = {}
  BY DEF OutputsSound
<1>1. Staged(r)
  BY OutputsOf
<1>2. ASSUME NEW q \in Writers, at[q] = "done" PROVE Range(Outputs[q]) = Range(committed[q])
  <2>1. /\ Len(committed[q]) = Len(Outputs[q]) /\ \A i \in 1 .. Len(committed[q]) : committed[q][i] = Outputs[q][i]
        /\ DOMAIN committed[q] = 1 .. Len(committed[q]) /\ DOMAIN Outputs[q] = 1 .. Len(Outputs[q])
    BY <1>2, OutputsOf DEF Staged
  <2> QED
    BY <2>1 DEF Range
<1>3. at[r] = "failed" /\ r \notin Overwrite => \A p \in Paths : files[p] # r
  BY <1>1 DEF Staged, OutputInv, OwnInv, Range
<1>4. ASSUME at[r] = "done", NEW p \in Range(Outputs[r])
      PROVE  \/ files[p] = r \/ files[p] \in Overwrite
             \/ r \in Overwrite /\ \E other \in Writers \ Overwrite : at[other] \in {"rollback", "failed", "crashed"} /\ p \in Range(Outputs[other])
  BY <1>2, <1>4 DEF OutputInv, OwnInv, PutInv, Undone
<1>5. ASSUME NEW q \in Writers \ Overwrite, at[r] = "done", at[q] = "done", r \notin {q} \cup Overwrite
      PROVE  Range(Outputs[r]) \cap Range(Outputs[q]) = {}
  BY <1>2, <1>5 DEF OutputInv, ApartInv
<1> QED
  BY <1>1, <1>3, <1>4, <1>5 DEF Staged

(* For any runs, paths and sets of outputs: a command leaves all of its    *)
(* files or none (trade_setup/runner.py and its like).                     *)
THEOREM FilesAreAllOrNone == OutputsAssumption => (OutputSpec => []OutputsSound)
<1> SUFFICES ASSUME OutputsAssumption PROVE OutputSpec => []OutputsSound
  OBVIOUS
<1>1. OutputInit => OutputInv
  BY OutputStart
<1>2. OutputInv /\ [OutputNext]_outputVars => OutputInv'
  <2> SUFFICES ASSUME OutputInv, [OutputNext]_outputVars PROVE OutputInv'
    OBVIOUS
  <2>1. CASE UNCHANGED outputVars
    BY <2>1 DEF outputVars, OutputInv, OutputTypeOK, Staged, OwnInv, ApartInv, PutInv, Undone
  <2> QED
    BY <2>1, OutputChecks, OutputStages, OutputCommits, OutputRollsBack, OutputCleans DEF OutputNext
<1>3. OutputInv => OutputsSound
  BY OutputSound
<1> QED
  BY <1>1, <1>2, <1>3, PTL DEF OutputSpec

-----------------------------------------------------------------------------
(* The evidence ledger.                                                    *)

LedgerSpec == LedgerInit /\ [][LedgerNext]_ledgerVars

(* What a plan, and a row built from it, say of a session.                 *)
OfSession(day, t) ==
    /\ day \in Trading /\ Start <= day /\ Segment(day, "regular").end <= t
    /\ DayOf(t) > NextTradingDay(day) => \E d \in Trading : day < d /\ d < DayOf(t)
Kept(r, u) == (u.key \in DOMAIN snapshots /\ snapshots[u.key] = u.hash) \/ u \in unsaved[r]
Evidence(r, content) == content.bars # 0 /\ (content.snapshot # None => Kept(r, content.snapshot))
ItemOK(r, item) == OfSession(item.key[3], startedAt[r]) /\ (item.complete => Evidence(r, item.content))

(* The rows of a table or of an open transaction, against their runs.      *)
All == ledger \cup UNION {inserted[r] : r \in Runs}
RowOK(x) ==
    /\ x.run \in Runs /\ phase[x.run] \in {"writing", "comparing", "done"}
    /\ OfSession(x.key[3], startedAt[x.run])
    /\ x.backfilled => DayOf(startedAt[x.run]) > NextTradingDay(x.key[3])
    /\ x.status = "collected" => Evidence(x.run, x.content)
    /\ x.status = "failed" => counts[x.run].failed > 0
    /\ x.status = "conflict" => /\ counts[x.run].conflict > 0
                                /\ x.with \notin readAt[x.run] /\ x.with.content # x.content
    /\ x.status \in {"collected", "failed", "conflict"}
SameIdentity(x, y) == x.status = "collected" /\ y.status = "collected" /\ x.key = y.key
SameConflict(x, y) == x.status = "conflict" /\ y.status = "conflict" /\ x.with = y.with /\ x.content = y.content
TableInv ==
    /\ \A x \in All : RowOK(x)
    /\ \A x, y \in All : SameIdentity(x, y) \/ SameConflict(x, y) => x = y
    /\ \A x \in ledger : phase[x.run] = "done" /\ (x.status = "conflict" => x.with \in ledger)
    /\ \A r \in Runs : \A x \in inserted[r] : x.run = r /\ (x.status = "conflict" => x.with \in Visible(r))

(* A run's plan, the rows it makes of it, and how far it has come.         *)
Open(r) == phase[r] \in {"writing", "comparing"}
PlanInv(r) ==
    /\ phase[r] # "idle" => /\ startedAt[r] \in StartTimes
                            /\ planned[r] \in Seq(Range(planned[r]))
                            /\ \A j \in DOMAIN planned[r] : ItemOK(r, planned[r][j])
    /\ readAt[r] \subseteq ledger
    /\ ~Open(r) => inserted[r] = {}
    /\ phase[r] \in {"idle", "fetched"} => next[r] = 1
BuiltInv(r) == Open(r) =>
    /\ rows[r] \in Seq(Range(rows[r]))
    /\ \A i \in DOMAIN rows[r] : /\ \E j \in DOMAIN planned[r] : rows[r][i] = Row(r, planned[r][j])
                                 /\ Accepted(readAt[r], rows[r][i].key) = {}
    /\ \A j \in DOMAIN planned[r] : Accepted(readAt[r], planned[r][j].key) # {}
                                    \/ \E i \in DOMAIN rows[r] : rows[r][i] = Row(r, planned[r][j])
Judged(r, i) ==
    /\ \/ counts[r].failed > 0 \/ counts[r].conflict > 0
       \/ /\ rows[r][i].status = "collected"
          /\ \E x \in Accepted(Visible(r), rows[r][i].key) : x.content = rows[r][i].content
    /\ Filed(rows[r][i], Visible(r))
ProgressInv(r) == Open(r) => \A i \in DOMAIN rows[r] : i < next[r] => Judged(r, i)
CompareInv(r) == phase[r] = "comparing" => /\ Pending(r) /\ Current(r).status = "collected"
                                           /\ Accepted(Visible(r), Current(r).key) # {}
Answered(r) == \A j \in DOMAIN planned[r] :
    \/ Accepted(readAt[r], planned[r][j].key) # {}
    \/ \E x \in Accepted(ledger, planned[r][j].key) : x.content = planned[r][j].content
Whole(r) == (\A x \in ledger : x.run # r) \/ \A i \in DOMAIN rows[r] : Filed(rows[r][i], ledger)
DoneInv(r) == phase[r] = "done" =>
    /\ \/ ok[r] = TRUE /\ counts[r].failed = 0 /\ counts[r].conflict = 0 /\ Answered(r)
       \/ ok[r] = FALSE
    /\ Whole(r)

OverRuns(f) == f = [r \in Runs |-> f[r]]
Counts == [inserted : Nat, duplicate : Nat, conflict : Nat, failed : Nat]
LedgerTypeOK ==
    /\ runTime \in StartTimes
    /\ phase \in [Runs -> {"idle", "fetched", "writing", "comparing", "done"}]
    /\ next \in [Runs -> Nat \ {0}] /\ counts \in [Runs -> Counts]
    /\ OverRuns(startedAt) /\ OverRuns(planned) /\ OverRuns(rows) /\ OverRuns(inserted)
    /\ OverRuns(ok) /\ OverRuns(unsaved) /\ OverRuns(readAt)

RunInv(r) == PlanInv(r) /\ BuiltInv(r) /\ ProgressInv(r) /\ CompareInv(r) /\ DoneInv(r)
LedgerInv == LedgerTypeOK /\ TableInv /\ \A r \in Runs : RunInv(r)
Assumptions == LedgerAssumption /\ CalendarGoesOn
-----------------------------------------------------------------------------

(* A non-empty set of naturals has a least member.                         *)
LEMMA Least ==
    ASSUME NEW T \in SUBSET Nat, T # {}
    PROVE  \E t \in T : \A u \in T : t <= u
<1>1. PICK t \in T : \A u \in T : <<u, t>> \notin OpToRel(<, Nat)
  BY NatLessThanWellFounded, WFMin, Zenon
<1>2. \A u \in T : ~(u < t)
  BY <1>1 DEF OpToRel
<1> QED
  BY <1>2

(* Type and range of a concatenation.                                      *)
LEMMA Concat ==
    ASSUME NEW S, NEW s \in Seq(S), NEW t \in Seq(S)
    PROVE  s \o t \in Seq(S) /\ Range(s \o t) = Range(s) \cup Range(t)
<1> DEFINE u == s \o t
<1>1. /\ u \in Seq(S) /\ Len(s) \in Nat /\ Len(t) \in Nat /\ Len(u) = Len(s) + Len(t)
      /\ DOMAIN u = 1 .. Len(u) /\ DOMAIN s = 1 .. Len(s) /\ DOMAIN t = 1 .. Len(t)
  OBVIOUS
<1>2. \A i \in 1 .. Len(s) : u[i] = s[i]
  OBVIOUS
<1>3. \A i \in 1 .. Len(t) : u[Len(s) + i] = t[i]
  OBVIOUS
<1> HIDE DEF u
<1>4. ASSUME NEW x \in Range(u) PROVE x \in Range(s) \cup Range(t)
  <2>1. PICK i \in 1 .. Len(u) : x = u[i]
    BY <1>1 DEF Range
  <2>2. CASE i \in 1 .. Len(s)
    BY <1>1, <1>2, <2>1, <2>2 DEF Range
  <2>3. CASE i \notin 1 .. Len(s)
    <3>1. i - Len(s) \in 1 .. Len(t) /\ Len(s) + (i - Len(s)) = i
      BY <1>1, <2>3
    <3>2. t[i - Len(s)] = x
      BY <1>3, <2>1, <3>1
    <3> QED
      BY <1>1, <3>1, <3>2 DEF Range
  <2> QED
    BY <2>2, <2>3
<1>5. ASSUME NEW x \in Range(s) PROVE x \in Range(u)
  <2>1. PICK i \in 1 .. Len(s) : x = s[i]
    BY <1>1 DEF Range
  <2>2. i \in 1 .. Len(u)
    BY <1>1
  <2> QED
    BY <1>1, <1>2, <2>1, <2>2 DEF Range
<1>6. ASSUME NEW x \in Range(t) PROVE x \in Range(u)
  <2>1. PICK i \in 1 .. Len(t) : x = t[i]
    BY <1>1 DEF Range
  <2>2. Len(s) + i \in 1 .. Len(u)
    BY <1>1
  <2> QED
    BY <1>1, <1>3, <2>1, <2>2 DEF Range
<1> QED
  BY <1>1, <1>4, <1>5, <1>6 DEF u

(* Type and range of a flattened sequence, by its least counterexample.    *)
LEMMA Flattened ==
    ASSUME NEW S, NEW n \in Nat, NEW ss \in [1 .. n -> Seq(S)]
    PROVE  FlattenSeq(ss) \in Seq(S) /\ Range(FlattenSeq(ss)) = UNION {Range(ss[i]) : i \in 1 .. n}
<1> DEFINE Joins(m, f) == f = [i \in 1 .. m |-> IF i = 1 THEN ss[i] ELSE f[i - 1] \o ss[i]]
<1>0. Len(ss) = n
  OBVIOUS
<1>1. CASE n = 0
  <2>1. ss = <<>> /\ 1 .. n = {}
    BY <1>1
  <2>2. FlattenSeq(ss) = ss
    BY <1>0, <1>1 DEF FlattenSeq
  <2>3. <<>> \in Seq(S) /\ Range(<<>>) = {}
    BY DEF Range
  <2> QED
    BY <2>1, <2>2, <2>3
<1>2. \A m \in 0 .. n : \E f : Joins(m, f)
  <2> DEFINE T == {m \in 0 .. n : ~\E f : Joins(m, f)}
  <2> SUFFICES ASSUME T # {} PROVE FALSE
    OBVIOUS
  <2>0. T \in SUBSET Nat
    <3> HIDE DEF Joins
    <3> QED
      OBVIOUS
  <2>1. PICK t \in T : \A u \in T : t <= u
    <3> HIDE DEF T
    <3> QED
      BY <2>0, Least
  <2>2. t \in 0 .. n /\ ~\E f : Joins(t, f)
    OBVIOUS
  <2>3. CASE t = 0
    <3> DEFINE f == [i \in 1 .. 0 |-> <<>>]
    <3>1. Joins(0, f)
      OBVIOUS
    <3> QED
      BY <2>2, <2>3, <3>1
  <2>4. CASE t # 0
    <3>1. t - 1 \in 0 .. n /\ t - 1 \notin T
      <4>1. t \in 0 .. n
        BY <2>2
      <4> HIDE DEF T
      <4> QED
        BY <2>1, <2>4, <4>1
    <3>2. PICK f : Joins(t - 1, f)
      BY <3>1
    <3> DEFINE g == [i \in 1 .. t |-> IF i < t THEN f[i] ELSE IF t = 1 THEN ss[t] ELSE f[t - 1] \o ss[t]]
    <3>3. \A i \in 1 .. t : g[i] = IF i = 1 THEN ss[i] ELSE g[i - 1] \o ss[i]
      <4> SUFFICES ASSUME NEW i \in 1 .. t PROVE g[i] = IF i = 1 THEN ss[i] ELSE g[i - 1] \o ss[i]
        OBVIOUS
      <4>1. i # 1 => i - 1 \in 1 .. t /\ i - 1 < t /\ g[i - 1] = f[i - 1]
        BY <2>2
      <4>2. CASE i < t
        <5>1. i \in 1 .. t - 1 /\ g[i] = f[i]
          BY <2>2, <4>2
        <5>2. f[i] = IF i = 1 THEN ss[i] ELSE f[i - 1] \o ss[i]
          BY <3>2, <5>1
        <5> HIDE DEF g
        <5> QED
          BY <4>1, <5>1, <5>2
      <4>3. CASE i = t
        BY <2>2, <4>1, <4>3
      <4> QED
        BY <2>2, <4>2, <4>3
    <3>4. Joins(t, g)
      <4>1. g = [i \in 1 .. t |-> g[i]]
        OBVIOUS
      <4> HIDE DEF g
      <4> QED
        BY <3>3, <4>1
    <3> QED
      BY <2>2, <3>4
  <2> QED
    BY <2>3, <2>4
<1>3. CASE n # 0
  <2> DEFINE F == CHOOSE f : Joins(n, f)
  <2>1. Joins(n, F)
    <3>1. n \in 0 .. n
      OBVIOUS
    <3> HIDE DEF Joins
    <3> QED
      BY <1>2, <3>1
  <2>2. FlattenSeq(ss) = F[n]
    BY <1>0, <1>3 DEF FlattenSeq
  <2> HIDE DEF F
  <2> DEFINE Good(m) == F[m] \in Seq(S) /\ Range(F[m]) = UNION {Range(ss[i]) : i \in 1 .. m}
             T == {m \in 1 .. n : ~Good(m)}
  <2>3. F[1] = ss[1] /\ \A m \in 1 .. n : m # 1 => F[m] = F[m - 1] \o ss[m]
    <3>1. \A m \in 1 .. n : F[m] = IF m = 1 THEN ss[m] ELSE F[m - 1] \o ss[m]
      BY <2>1
    <3>2. 1 \in 1 .. n
      BY <1>3
    <3> QED
      BY <3>1, <3>2
  <2> HIDE DEF Joins
  <2>4. T = {}
    <3> SUFFICES ASSUME T # {} PROVE FALSE
      OBVIOUS
    <3>0. T \in SUBSET Nat
      OBVIOUS
    <3>1. PICK t \in T : \A u \in T : t <= u
      <4> HIDE DEF T
      <4> QED
        BY <3>0, Least
    <3>2. t \in 1 .. n /\ ~Good(t)
      OBVIOUS
    <3>3. CASE t = 1
      <4>1. 1 .. 1 = {1} /\ ss[1] \in Seq(S)
        BY <3>2, <3>3
      <4> QED
        BY <2>3, <3>2, <3>3, <4>1
    <3>4. CASE t # 1
      <4>1. t - 1 \in 1 .. n /\ t - 1 \notin T /\ 1 .. t = (1 .. t - 1) \cup {t} /\ ss[t] \in Seq(S)
        <5>1. t \in 1 .. n
          BY <3>2
        <5> HIDE DEF T
        <5> QED
          BY <3>1, <3>4, <5>1
      <4>2. Good(t - 1)
        BY <4>1
      <4>3. F[t] = F[t - 1] \o ss[t]
        BY <2>3, <3>2, <3>4
      <4>4. F[t] \in Seq(S) /\ Range(F[t]) = Range(F[t - 1]) \cup Range(ss[t])
        BY <4>1, <4>2, <4>3, Concat
      <4>5. UNION {Range(ss[i]) : i \in 1 .. t} = (UNION {Range(ss[i]) : i \in 1 .. t - 1}) \cup Range(ss[t])
        BY <4>1
      <4> QED
        BY <3>2, <4>2, <4>4, <4>5
    <3> QED
      BY <3>3, <3>4
  <2>5. Good(n)
    <3>1. n \in 1 .. n
      BY <1>3
    <3> HIDE DEF Good
    <3> QED
      BY <2>4, <3>1
  <2> QED
    BY <2>2, <2>5
<1> QED
  BY <1>1, <1>3
-----------------------------------------------------------------------------
(* Days and sessions.                                                      *)

(* What the calendar assumes of a day, in numbers.                         *)
LEMMA Hour ==
    /\ DayLength \in Nat \ {0} /\ Trading \subseteq Nat
    /\ \A d \in Trading : /\ Hours[d].open \in Nat /\ Hours[d].close \in Nat
                          /\ Hours[d].open < Hours[d].close /\ Hours[d].close < DayLength
                          /\ Segment(d, "regular").end = d * DayLength + Hours[d].close
                          /\ Segment(d, "regular").end \in Nat
<1>1. DayLength \in Nat \ {0} /\ Trading \subseteq Nat
  BY HoursAssumption DEF Trading
<1>2. ASSUME NEW d \in Trading
      PROVE  /\ Hours[d].open \in Nat /\ Hours[d].close \in Nat
             /\ Hours[d].open < Hours[d].close /\ Hours[d].close < DayLength
  <2>1. /\ {d, Hours[d].open, Hours[d].close} \subseteq Nat /\ PostLength \in Nat
        /\ Hours[d].open < Hours[d].close /\ Hours[d].close + PostLength < DayLength
    BY HoursAssumption DEF Trading
  <2> QED
    BY <1>1, <2>1
<1>3. \A d \in Trading : Segment(d, "regular").end = d * DayLength + Hours[d].close
  BY DEF Segment
<1>4. \A d \in Trading : d * DayLength + Hours[d].close \in Nat
  BY <1>1, <1>2
<1> QED
  BY <1>1, <1>2, <1>3, <1>4

(* A day starts before its instants.                                       *)
LEMMA DayStart ==
    ASSUME NEW t \in Nat
    PROVE  DayOf(t) \in Nat /\ DayOf(t) * DayLength <= t
<1>1. DayLength \in Nat \ {0}
  BY Hour
<1>2. /\ t \div DayLength \in Int /\ t % DayLength \in 0 .. DayLength - 1
      /\ t = (t \div DayLength) * DayLength + (t % DayLength)
  BY <1>1
<1>3. t \div DayLength >= 0
  BY <1>1
<1> QED
  BY <1>1, <1>2, <1>3 DEF DayOf

(* The session of an earlier day has ended.                                *)
LEMMA EarlierSessionOver ==
    ASSUME NEW t \in Nat, NEW d \in Trading, d < DayOf(t)
    PROVE  Segment(d, "regular").end <= t
<1>1. /\ d \in Nat /\ DayOf(t) \in Nat /\ DayOf(t) * DayLength <= t /\ DayLength \in Nat
      /\ Hours[d].close \in Nat /\ Hours[d].close < DayLength
      /\ Segment(d, "regular").end = d * DayLength + Hours[d].close
  BY DayStart, Hour
<1> DEFINE e == DayOf(t)
<1> HIDE DEF e
<1>2. (e - d - 1) * DayLength >= 0 /\ (e - d - 1) * DayLength = e * DayLength - d * DayLength - DayLength
  <2>1. e \in Nat /\ e - d - 1 \in Nat
    BY <1>1 DEF e
  <2> QED
    BY <1>1, <2>1
<1>3. e * DayLength \in Int /\ d * DayLength \in Int /\ e * DayLength <= t
  BY <1>1 DEF e
<1> QED
  BY <1>1, <1>2, <1>3

(* A bounded set of naturals has a greatest member.                        *)
LEMMA Greatest ==
    ASSUME NEW n \in Nat, NEW S \in SUBSET Nat, S # {}, \A x \in S : x < n
    PROVE  Max(S) \in S
<1> DEFINE T == {n - x : x \in S}
<1>0. \A x \in S : n - x \in Nat /\ n - x \in T
  OBVIOUS
<1>1. T \in SUBSET Nat /\ T # {}
  BY <1>0
<1>2. PICK t \in T : \A u \in T : t <= u
  <2> HIDE DEF T
  <2> QED
    BY <1>1, Least
<1>3. PICK x \in S : t = n - x
  OBVIOUS
<1>4. \A y \in S : x >= y
  <2> SUFFICES ASSUME NEW y \in S PROVE x >= y
    OBVIOUS
  <2>1. n - y \in T
    BY <1>0
  <2> HIDE DEF T
  <2>2. n - x <= n - y
    BY <1>2, <1>3, <2>1
  <2> QED
    BY <2>2
<1> HIDE DEF T
<1> QED
  BY <1>4 DEF Max

(* A session that may be recorded has closed, and another follows it.      *)
LEMMA ClosedSession ==
    ASSUME Assumptions, NEW t \in StartTimes, NEW k, NEW d \in EligibleSessions(t, k)
    PROVE  OfSession(d, t)
<1>1. t \in Nat /\ d \in Trading /\ d \in Nat /\ Start <= d /\ d <= LastClosedSession(t) /\ DayOf(t) \in Nat
  BY DayStart, Hour DEF Assumptions, LedgerAssumption, EligibleSessions, WarmupDays
<1>2. LastClosedSession(t) \in Trading /\ Segment(LastClosedSession(t), "regular").end <= t
  <2>1. CASE DayOf(t) \in Trading /\ t >= Segment(DayOf(t), "regular").end
    <3>1. Segment(DayOf(t), "regular").end \in Nat
      BY <2>1, Hour
    <3>2. LastClosedSession(t) = DayOf(t)
      BY <2>1 DEF LastClosedSession
    <3> QED
      BY <1>1, <2>1, <3>1, <3>2
  <2>2. CASE ~(DayOf(t) \in Trading /\ t >= Segment(DayOf(t), "regular").end)
    <3> DEFINE before == {e \in Trading : e < DayOf(t)}
    <3>1. before \in SUBSET Nat /\ before # {} /\ \A e \in before : e < DayOf(t)
      BY Hour DEF Assumptions, CalendarGoesOn
    <3>2. LastClosedSession(t) = Max(before)
      BY <2>2, <3>1 DEF LastClosedSession, PreviousTradingDay
    <3>3. Max(before) \in before
      <4> HIDE DEF before
      <4> QED
        BY <1>1, <3>1, Greatest
    <3> QED
      BY <1>1, <3>2, <3>3, EarlierSessionOver
  <2> QED
    BY <2>1, <2>2
<1>0. PICK l : l = LastClosedSession(t)
  OBVIOUS
<1>5. l \in Trading /\ l \in Nat /\ d <= l /\ Segment(l, "regular").end <= t
  BY <1>0, <1>1, <1>2, Hour
<1>3. Segment(d, "regular").end <= t
  <2>1. CASE d = l
    BY <1>5, <2>1
  <2>2. CASE d # l
    <3>1. l <= DayOf(t)
      <4>1. CASE l > DayOf(t)
        <5>1. l * DayLength + Hours[l].close <= t /\ Hours[l].close \in Nat /\ DayLength \in Nat \ {0}
          BY <1>5, Hour
        <5>2. PICK e \in Nat : e = DayOf(t)
          BY <1>1
        <5>3. t % DayLength \in 0 .. DayLength - 1 /\ t = e * DayLength + (t % DayLength)
          BY <1>1, <5>1, <5>2 DEF DayOf
        <5>4. l - e - 1 \in Nat
          BY <1>5, <4>1, <5>2
        <5>5. PICK n \in Nat : n = DayLength
          BY <5>1
        <5>6. (l - e - 1) * n >= 0 /\ (l - e - 1) * n = l * n - e * n - n /\ l * n \in Int /\ e * n \in Int
          BY <1>5, <5>2, <5>4, <5>5
        <5>7. l * n <= t /\ t < e * n + n
          BY <1>1, <5>1, <5>3, <5>5, <5>6
        <5> QED
          BY <1>1, <5>6, <5>7
      <4> QED
        BY <1>1, <1>5, <4>1
    <3>2. d < DayOf(t)
      BY <1>1, <1>5, <2>2, <3>1
    <3> QED
      BY <1>1, <3>2, EarlierSessionOver
  <2> QED
    BY <2>1, <2>2
<1>4. NextTradingDay(d) \in Trading /\ NextTradingDay(d) > d
  <2> DEFINE after == {e \in Trading : e > d}
  <2>1. after \in SUBSET Nat /\ after # {}
    <3>1. PICK e \in Trading : e > LastClosedSession(t)
      BY DEF Assumptions, CalendarGoesOn
    <3>2. e \in Nat /\ e > l
      BY <1>0, <3>1, Hour
    <3>3. e > d
      BY <1>1, <1>5, <3>2
    <3>4. after \subseteq Trading /\ e \in after
      BY <3>1, <3>3
    <3> HIDE DEF after
    <3> QED
      BY <3>4, Hour
  <2>2. \E x \in after : \A y \in after : x <= y
    <3> HIDE DEF after
    <3> QED
      BY <2>1, Least
  <2>3. Min(after) \in after
    BY <2>2 DEF Min
  <2> QED
    BY <2>1, <2>3 DEF NextTradingDay
<1> QED
  BY <1>1, <1>3, <1>4 DEF OfSession

(* The eligible sessions are finitely many days.                           *)
LEMMA EligibleAreFew ==
    ASSUME Assumptions, NEW t \in StartTimes, NEW k
    PROVE  EligibleSessions(t, k) \in SUBSET Nat /\ IsFiniteSet(EligibleSessions(t, k))
<1>1. \A d \in EligibleSessions(t, k) : d \in 0 .. t
  <2> SUFFICES ASSUME NEW d \in EligibleSessions(t, k) PROVE d \in 0 .. t
    OBVIOUS
  <2>1. d \in Trading /\ Segment(d, "regular").end <= t /\ t \in Nat
    BY ClosedSession DEF OfSession, Assumptions, LedgerAssumption
  <2>2. d \in Nat /\ Hours[d].close \in Nat /\ d * DayLength + Hours[d].close <= t /\ DayLength \in Nat \ {0}
    BY <2>1, Hour
  <2>3. d * (DayLength - 1) >= 0 /\ d * (DayLength - 1) = d * DayLength - d /\ d * DayLength \in Int
    BY <2>2
  <2> QED
    BY <2>1, <2>2, <2>3
<1>2. 0 .. t \in SUBSET Nat /\ IsFiniteSet(0 .. t)
  BY FS_Interval DEF Assumptions, LedgerAssumption
<1>3. EligibleSessions(t, k) \in SUBSET (0 .. t)
  BY <1>1
<1> QED
  BY <1>2, <1>3, FS_Subset

(* Every rank of a finite set of numbers is taken.                         *)
LEMMA Sorted ==
    ASSUME NEW S \in SUBSET Nat, IsFiniteSet(S)
    PROVE  Ascending(S) \in Seq(S)
<1> DEFINE Below(x) == {y \in S : y < x}
           n == Cardinality(S)
           f == [x \in S |-> Cardinality(Below(x))]
           T == 0 .. n - 1
<1>1. n \in Nat
  BY FS_CardinalityType
<1>2. ASSUME NEW x \in S
      PROVE  IsFiniteSet(Below(x)) /\ Cardinality(Below(x)) \in T
  <2>1. Below(x) \in SUBSET S /\ Below(x) # S
    OBVIOUS
  <2> HIDE DEF Below
  <2>2. IsFiniteSet(Below(x)) /\ Cardinality(Below(x)) <= n /\ Cardinality(Below(x)) # n
    BY <2>1, FS_Subset
  <2>3. Cardinality(Below(x)) \in Nat
    BY <2>2, FS_CardinalityType
  <2> HIDE DEF n
  <2> QED
    BY <1>1, <2>2, <2>3
<1>3. ASSUME NEW x \in S, NEW y \in S, x < y PROVE f[x] # f[y]
  <2>1. Below(x) \in SUBSET Below(y) /\ Below(x) # Below(y)
    <3>1. \A z \in Below(x) : z \in Below(y)
      BY <1>3
    <3>2. x \in Below(y) /\ x \notin Below(x)
      BY <1>3
    <3> QED
      BY <3>1, <3>2
  <2>2. IsFiniteSet(Below(y))
    BY <1>2
  <2> HIDE DEF Below
  <2>3. Cardinality(Below(x)) # Cardinality(Below(y))
    BY <2>1, <2>2, FS_Subset
  <2> QED
    BY <2>3
<1>4. f \in Injection(S, T)
  <2>1. f \in [S -> T]
    <3> HIDE DEF T, Below
    <3> QED
      BY <1>2
  <2>2. \A x, y \in S : f[x] = f[y] => x = y
    <3> HIDE DEF f
    <3> QED
      BY <1>3
  <2> HIDE DEF f, T
  <2> QED
    BY <2>1, <2>2 DEF Injection, IsInjective
<1>5. IsFiniteSet(T) /\ Cardinality(T) = n
  <2>1. IsFiniteSet(T) /\ Cardinality(T) = IF 0 > n - 1 THEN 0 ELSE (n - 1) - 0 + 1
    BY <1>1, FS_Interval
  <2> HIDE DEF T, n
  <2> QED
    BY <1>1, <2>1
<1>6. f \in Surjection(S, T)
  <2> HIDE DEF f, T
  <2> QED
    BY <1>4, <1>5, FS_Injection
<1>7. \A i \in 1 .. n : \E x \in S : Cardinality(Below(x)) = i - 1
  <2> SUFFICES ASSUME NEW i \in 1 .. n PROVE \E x \in S : Cardinality(Below(x)) = i - 1
    OBVIOUS
  <2>1. i - 1 \in T
    BY <1>1
  <2>2. \E x \in S : f[x] = i - 1
    <3> HIDE DEF f, T
    <3> QED
      BY <1>6, <2>1 DEF Surjection
  <2> QED
    BY <2>2
<1>8. Ascending(S) = [i \in 1 .. n |-> CHOOSE x \in S : Cardinality(Below(x)) = i - 1]
  BY DEF Ascending
<1>9. \A i \in 1 .. n : (CHOOSE x \in S : Cardinality(Below(x)) = i - 1) \in S
  <2> HIDE DEF n, Below
  <2> QED
    BY <1>7
<1>10. Ascending(S) \in [1 .. n -> S]
  <2> HIDE DEF n, Below
  <2> QED
    BY <1>8, <1>9
<1> HIDE DEF n, Below
<1> QED
  BY <1>1, <1>10
-----------------------------------------------------------------------------
(* What a step leaves alone.                                               *)

(* What is filed in a table stays filed as the table grows.                *)
LEMMA FiledStays ==
    ASSUME NEW row, NEW S, NEW T, S \subseteq T, Filed(row, S)
    PROVE  Filed(row, T)
BY DEF Filed, Accepted

(* Another run's step leaves a run's invariant.                            *)
LEMMA Stays ==
    ASSUME LedgerInv, NEW q \in Runs,
           phase'[q] = phase[q], startedAt'[q] = startedAt[q], planned'[q] = planned[q], rows'[q] = rows[q],
           next'[q] = next[q], inserted'[q] = inserted[q], counts'[q] = counts[q], ok'[q] = ok[q],
           readAt'[q] = readAt[q],
           \A u : Kept(q, u) => Kept(q, u)',
           ledger \subseteq ledger', \A x \in ledger' \ ledger : x.run # q
    PROVE  RunInv(q)'
<1>1. PlanInv(q) /\ BuiltInv(q) /\ ProgressInv(q) /\ CompareInv(q) /\ DoneInv(q)
  BY DEF LedgerInv, RunInv
<1>2. /\ Visible(q) \subseteq Visible(q)' /\ (Open(q)' <=> Open(q)) /\ (Pending(q)' <=> Pending(q)) /\ Current(q)' = Current(q)
  BY DEF Visible, Open, Pending, Current
<1>3. PlanInv(q)'
  <2>1. ASSUME NEW item, ItemOK(q, item) PROVE ItemOK(q, item)'
    BY <2>1 DEF ItemOK, Evidence, OfSession
  <2> QED
    BY <1>1, <1>2, <2>1 DEF PlanInv
<1>4. BuiltInv(q)'
  <2>1. CASE ~Open(q)
    BY <1>2, <2>1 DEF BuiltInv
  <2>2. CASE Open(q)
    <3>1. \A i \in DOMAIN rows[q], j \in DOMAIN planned[q] : rows[q][i] = Row(q, planned[q][j]) => (rows[q][i] = Row(q, planned[q][j]))'
      BY DEF Row
    <3>2. \A i \in DOMAIN rows[q] : Accepted(readAt[q], rows[q][i].key)' = Accepted(readAt[q], rows[q][i].key)
      BY DEF Accepted
    <3>3. \A j \in DOMAIN planned[q] : Accepted(readAt[q], planned[q][j].key)' = Accepted(readAt[q], planned[q][j].key)
      BY DEF Accepted
    <3>4. (rows[q] \in Seq(Range(rows[q])))'
      BY <1>1, <2>2 DEF BuiltInv
    <3> QED
      BY <1>1, <2>2, <3>1, <3>2, <3>3, <3>4 DEF BuiltInv
  <2> QED
    BY <2>1, <2>2
<1>5. ProgressInv(q)'
  <2>1. ASSUME NEW i, Judged(q, i) PROVE Judged(q, i)'
    <3>1. Filed(rows'[q][i], Visible(q)')
      BY <1>2, <2>1, FiledStays DEF Judged
    <3> QED
      BY <1>2, <2>1, <3>1 DEF Judged, Accepted, Filed
  <2> QED
    BY <1>1, <1>2, <2>1 DEF ProgressInv
<1>6. CompareInv(q)'
  BY <1>1, <1>2 DEF CompareInv, Accepted
<1>7. DoneInv(q)'
  <2>1. Answered(q) => Answered(q)'
    BY DEF Answered, Accepted
  <2>2. Whole(q) => Whole(q)'
    <3>1. ASSUME NEW i \in DOMAIN rows[q], Filed(rows[q][i], ledger) PROVE Filed(rows[q][i], ledger)'
      <4>1. Filed(rows'[q][i], ledger')
        BY <3>1, FiledStays
      <4> QED
        BY <4>1 DEF Filed, Accepted
    <3> QED
      BY <3>1 DEF Whole
  <2> QED
    BY <1>1, <2>1, <2>2 DEF DoneInv
<1> QED
  BY <1>3, <1>4, <1>5, <1>6, <1>7 DEF RunInv

(* A row stays what it is while its run keeps its plan and its counts.     *)
LEMMA RowStays ==
    ASSUME NEW x, RowOK(x),
           startedAt'[x.run] = startedAt[x.run], readAt'[x.run] = readAt[x.run],
           phase'[x.run] \in {"writing", "comparing", "done"},
           counts[x.run].failed > 0 => counts'[x.run].failed > 0,
           counts[x.run].conflict > 0 => counts'[x.run].conflict > 0,
           \A u : Kept(x.run, u) => Kept(x.run, u)'
    PROVE  RowOK(x)'
<1>1. OfSession(x.key[3], startedAt[x.run])'
  BY DEF RowOK, OfSession
<1>2. Evidence(x.run, x.content) => Evidence(x.run, x.content)'
  BY DEF Evidence
<1> QED
  BY <1>1, <1>2 DEF RowOK

(* Time passes, or the vendor restates a bar.                              *)
LEMMA TimeStep ==
    ASSUME LedgerInv, runTime' \in StartTimes, UNCHANGED <<runVars, ledger, snapshots>>
    PROVE  LedgerInv'
<1> USE DEF runVars
<1>1. \A r \in Runs : \A u : Kept(r, u) => Kept(r, u)'
  BY DEF Kept
<1>2. LedgerTypeOK'
  BY DEF LedgerInv, LedgerTypeOK, OverRuns
<1>3. TableInv'
  <2>1. All' = All
    BY DEF All
  <2>2. ASSUME NEW x \in All PROVE RowOK(x)'
    <3>1. RowOK(x) /\ x.run \in Runs /\ phase[x.run] \in {"writing", "comparing", "done"}
      BY DEF LedgerInv, TableInv, RowOK
    <3> QED
      BY <1>1, <3>1, RowStays
  <2> QED
    BY <2>1, <2>2 DEF LedgerInv, TableInv, Visible
<1>4. ASSUME NEW r \in Runs PROVE RunInv(r)'
  BY <1>1, Stays
<1> QED
  BY <1>2, <1>3, <1>4 DEF LedgerInv

-----------------------------------------------------------------------------
(* The plan of a symbol: an item for every eligible day of every interval. *)

PlanItem(s, k, d, t, failure) == IF failure = None THEN Item(s, k, d, t) ELSE Missing(s, k, d, failure)
PlanItems(s, t, failure) == UNION {{PlanItem(s, k, d, t, failure) : d \in EligibleSessions(t, k)} : k \in Range(Labels)}

(* A plan consists of planned items (EvidenceRun._start, symbol_failed).   *)
LEMMA Planned ==
    ASSUME Assumptions, NEW t \in StartTimes, NEW s, NEW failure
    PROVE  PlanOf(s, t, failure) \in Seq(PlanItems(s, t, failure))
<1> DEFINE S == PlanItems(s, t, failure)
           days(i) == Ascending(EligibleSessions(t, Labels[i]))
           ofLabel(i) == [j \in DOMAIN days(i) |-> IF failure = None THEN Item(s, Labels[i], days(i)[j], t)
                                                                     ELSE Missing(s, Labels[i], days(i)[j], failure)]
           n == Len(Labels)
           ss == [i \in 1 .. n |-> ofLabel(i)]
<1>1. n \in Nat /\ DOMAIN Labels = 1 .. n
  BY DEF Assumptions, LedgerAssumption
<1>2. ASSUME NEW i \in 1 .. n PROVE ofLabel(i) \in Seq(S)
  <2> DEFINE E == EligibleSessions(t, Labels[i])
             f == ofLabel(i)
  <2>1. days(i) \in Seq(E)
    BY EligibleAreFew, Sorted, Zenon
  <2>2. Labels[i] \in Range(Labels)
    BY <1>1 DEF Range
  <2>3. \A d \in E : PlanItem(s, Labels[i], d, t, failure) \in S
    BY <2>2 DEF PlanItems
  <2>4. \A j \in DOMAIN days(i) : days(i)[j] \in E
    <3> HIDE DEF E, days
    <3> QED
      BY <2>1
  <2>5. \A j \in DOMAIN days(i) : f[j] \in S
    <3>1. \A j \in DOMAIN days(i) : f[j] = PlanItem(s, Labels[i], days(i)[j], t, failure)
      BY DEF PlanItem
    <3> HIDE DEF f, S, days, E
    <3> QED
      BY <2>3, <2>4, <3>1
  <2>6. DOMAIN days(i) = 1 .. Len(days(i)) /\ Len(days(i)) \in Nat
    <3> HIDE DEF E, days
    <3> QED
      BY <2>1
  <2>7. f = [j \in DOMAIN days(i) |-> f[j]]
    OBVIOUS
  <2> HIDE DEF f, S, days, E
  <2>8. f \in Seq(S)
    BY <2>5, <2>6, <2>7
  <2> QED
    BY <2>8 DEF f
<1>3. ss \in [1 .. n -> Seq(S)]
  <2> HIDE DEF ofLabel, S, n
  <2> QED
    BY <1>2
<1>4. PlanOf(s, t, failure) = FlattenSeq(ss)
  BY <1>1 DEF PlanOf
<1> HIDE DEF ss, S, n
<1>5. FlattenSeq(ss) \in Seq(S)
  BY <1>1, <1>3, Flattened
<1> QED
  BY <1>4, <1>5 DEF S

(* A complete item has bars; the snapshot it names is the latest.          *)
LEMMA ItemFits ==
    ASSUME Assumptions, NEW t \in StartTimes, NEW s, NEW k \in Range(Labels), NEW d \in EligibleSessions(t, k)
    PROVE  /\ Item(s, k, d, t).key[3] = d
           /\ Item(s, k, d, t).complete => Item(s, k, d, t).content.bars # 0
           /\ Item(s, k, d, t).content.snapshot # None => Item(s, k, d, t).content.snapshot = LatestSnapshot(s, k, t)
<1>1. ExpectedBars(d, k) \in Int
  <2>1. k \in Nat \ {0} /\ d \in Trading
    BY DEF Range, Assumptions, LedgerAssumption, EligibleSessions, WarmupDays
  <2>2. Hours[d].open \in Nat /\ Hours[d].close \in Nat
    BY <2>1, Hour
  <2> QED
    BY <2>1, <2>2 DEF ExpectedBars
<1>2. PICK version : version = offered[<<s, k, d>>]
  OBVIOUS
<1>3. BarCount(d, k, version) = ExpectedBars(d, k) => version # 0
  <2>1. PICK n \in Int : n = ExpectedBars(d, k)
    BY <1>1
  <2>2. version = 0 => BarCount(d, k, version) = n - 1
    BY <2>1 DEF BarCount
  <2> QED
    BY <2>1, <2>2
<1>4. Item(s, k, d, t).complete <=> BarCount(d, k, version) = ExpectedBars(d, k)
  BY <1>2 DEF Item
<1> QED
  BY <1>2, <1>3, <1>4 DEF Item

(* The fetch: what a plan names is stored, or the shadow writer logs it.   *)
LEMMA FetchStep ==
    ASSUME Assumptions, LedgerInv, NEW r \in Runs, Fetch(r)
    PROVE  LedgerInv'
<1>2. /\ runTime \in StartTimes /\ phase[r] = "idle" /\ RunInv(r) /\ LedgerTypeOK
      /\ phase' = [phase EXCEPT ![r] = "fetched"] /\ startedAt' = [startedAt EXCEPT ![r] = runTime]
      /\ UNCHANGED <<runTime, offered, rows, next, inserted, counts, ok, ledger, readAt>>
  BY DEF Fetch, LedgerInv, LedgerTypeOK
<1>0. PICK failing, lost : RunSymbols(r, failing, lost)
  BY DEF Fetch
<1> DEFINE failure(s) == IF s \in failing THEN "transport" ELSE None
           latest == {LatestSnapshot(s, k, runTime) : s \in Range(Symbols[r]) \ failing, k \in Range(Labels)} \ {None}
           stored == {x \in latest : x.key[1] \notin lost /\ x.key \notin DOMAIN snapshots}
           S == UNION {PlanItems(s, runTime, failure(s)) : s \in Range(Symbols[r])}
           n == Len(Symbols[r])
           ss == [i \in 1 .. n |-> PlanOf(Symbols[r][i], runTime, failure(Symbols[r][i]))]
<1>3. /\ planned' = [planned EXCEPT ![r] = FlattenSeq([i \in DOMAIN Symbols[r] |-> PlanOf(Symbols[r][i], runTime, failure(Symbols[r][i]))])]
      /\ snapshots' = [x \in DOMAIN snapshots \cup {y.key : y \in stored} |->
                          IF x \in DOMAIN snapshots THEN snapshots[x] ELSE (CHOOSE y \in stored : y.key = x).hash]
      /\ unsaved' = [unsaved EXCEPT ![r] = {x \in latest \ stored : x.key \notin DOMAIN snapshots \/ snapshots[x.key] # x.hash}]
  BY <1>0 DEF RunSymbols
<1>4. planned' = [planned EXCEPT ![r] = FlattenSeq(ss)] /\ FlattenSeq(ss) \in Seq(S)
  <2>1. n \in Nat /\ DOMAIN Symbols[r] = 1 .. n /\ \A i \in 1 .. n : Symbols[r][i] \in Range(Symbols[r])
    BY DEF Assumptions, LedgerAssumption, Range
  <2>2. planned' = [planned EXCEPT ![r] = FlattenSeq(ss)]
    BY <1>3, <2>1
  <2>3. ASSUME NEW i \in 1 .. n PROVE PlanOf(Symbols[r][i], runTime, failure(Symbols[r][i])) \in Seq(S)
    <3>1. PICK s \in Range(Symbols[r]) : s = Symbols[r][i]
      BY <2>1
    <3>2. PICK f : f = failure(s)
      OBVIOUS
    <3>3. PlanOf(s, runTime, f) \in Seq(PlanItems(s, runTime, f))
      BY <1>2, Planned
    <3>4. PlanItems(s, runTime, f) \subseteq S
      BY <3>2
    <3> HIDE DEF S, failure
    <3>5. PlanOf(s, runTime, f) \in Seq(S)
      BY <3>3, <3>4
    <3> QED
      BY <3>1, <3>2, <3>5
  <2>4. ss \in [1 .. n -> Seq(S)]
    <3> HIDE DEF S, failure, n
    <3> QED
      BY <2>3
  <2>5. FlattenSeq(ss) \in Seq(S)
    <3> HIDE DEF S, ss, n
    <3> QED
      BY <2>1, <2>4, Flattened
  <2> QED
    BY <2>2, <2>5
<1>5. \A x, y \in latest : x.key = y.key => x = y
  <2>1. ASSUME NEW s, NEW k, LatestSnapshot(s, k, runTime) # None
        PROVE  LatestSnapshot(s, k, runTime).key[1] = s /\ LatestSnapshot(s, k, runTime).key[2] = k
    BY <2>1 DEF LatestSnapshot
  <2> QED
    BY <2>1
<1>6. ASSUME NEW u \in latest PROVE Kept(r, u)'
  <2>1. unsaved'[r] = {x \in latest \ stored : x.key \notin DOMAIN snapshots \/ snapshots[x.key] # x.hash}
    BY <1>2, <1>3 DEF LedgerTypeOK, OverRuns
  <2>2. CASE u \in stored
    <3>1. u.key \in DOMAIN snapshots' /\ snapshots'[u.key] = (CHOOSE y \in stored : y.key = u.key).hash
      <4>1. u.key \in {y.key : y \in stored} /\ u.key \notin DOMAIN snapshots
        BY <2>2
      <4>2. snapshots' = [x \in DOMAIN snapshots \cup {y.key : y \in stored} |->
                             IF x \in DOMAIN snapshots THEN snapshots[x] ELSE (CHOOSE y \in stored : y.key = x).hash]
        BY <1>3
      <4> HIDE DEF stored, latest
      <4> QED
        BY <4>1, <4>2
    <3>2. (CHOOSE y \in stored : y.key = u.key) = u
      <4>1. \A y \in stored : y.key = u.key => y = u
        BY <1>5
      <4> HIDE DEF stored, latest
      <4> QED
        BY <2>2, <4>1
    <3>3. snapshots'[u.key] = u.hash
      <4>1. PICK c : c = CHOOSE y \in stored : y.key = u.key
        OBVIOUS
      <4> HIDE DEF stored, latest
      <4> QED
        BY <3>1, <3>2, <4>1
    <3> HIDE DEF stored, latest
    <3> QED
      BY <3>1, <3>3 DEF Kept
  <2>3. CASE u \notin stored /\ u.key \in DOMAIN snapshots /\ snapshots[u.key] = u.hash
    BY <1>3, <2>3 DEF Kept
  <2>4. CASE u \notin stored /\ ~(u.key \in DOMAIN snapshots /\ snapshots[u.key] = u.hash)
    <3>1. u \in unsaved'[r]
      <4> HIDE DEF latest, stored
      <4> QED
        BY <2>1, <2>4
    <3> QED
      BY <3>1 DEF Kept
  <2> QED
    BY <2>2, <2>3, <2>4
<1>7. ASSUME NEW item \in S PROVE ItemOK(r, item)'
  <2>0. PICK s \in Range(Symbols[r]) : item \in PlanItems(s, runTime, failure(s))
    OBVIOUS
  <2>1. PICK k \in Range(Labels) : \E d \in EligibleSessions(runTime, k) : item = PlanItem(s, k, d, runTime, failure(s))
    BY <2>0 DEF PlanItems
  <2>6. PICK d \in EligibleSessions(runTime, k) : item = PlanItem(s, k, d, runTime, failure(s))
    BY <2>1
  <2>2. startedAt'[r] = runTime
    BY <1>2 DEF LedgerTypeOK, OverRuns
  <2>3. OfSession(d, runTime)
    BY <1>2, ClosedSession
  <2>4. CASE failure(s) = None
    <3>1. s \notin failing /\ item = Item(s, k, d, runTime)
      BY <2>6, <2>4 DEF PlanItem, Assumptions, LedgerAssumption
    <3>2. /\ item.key[3] = d /\ (item.complete => item.content.bars # 0)
          /\ item.content.snapshot # None => item.content.snapshot = LatestSnapshot(s, k, runTime)
      BY <1>2, <3>1, ItemFits
    <3>3. item.content.snapshot # None => item.content.snapshot \in latest
      BY <3>1, <3>2
    <3> HIDE DEF latest
    <3>4. item.content.snapshot # None => Kept(r, item.content.snapshot)'
      BY <1>6, <3>3
    <3> QED
      BY <2>2, <2>3, <3>2, <3>4 DEF ItemOK, Evidence
  <2>5. CASE failure(s) # None
    <3>1. item.key[3] = d /\ item.complete = FALSE
      BY <2>6, <2>5 DEF PlanItem, Missing
    <3> QED
      BY <2>2, <2>3, <3>1 DEF ItemOK
  <2> QED
    BY <2>4, <2>5
<1>8. \A q \in Runs \ {r} : \A u : Kept(q, u) => Kept(q, u)'
  <2>1. \A q \in Runs \ {r} : unsaved'[q] = unsaved[q]
    BY <1>2, <1>3 DEF LedgerTypeOK, OverRuns
  <2>2. DOMAIN snapshots \subseteq DOMAIN snapshots' /\ \A x \in DOMAIN snapshots : snapshots'[x] = snapshots[x]
    BY <1>3
  <2> QED
    BY <2>1, <2>2 DEF Kept
<1>9. LedgerTypeOK'
  <2>1. OverRuns(startedAt)' /\ OverRuns(planned)'
    BY <1>2, <1>4 DEF LedgerTypeOK, OverRuns
  <2>2. OverRuns(unsaved)'
    <3> DEFINE v == {x \in latest \ stored : x.key \notin DOMAIN snapshots \/ snapshots[x.key] # x.hash}
    <3>1. unsaved' = [unsaved EXCEPT ![r] = v]
      BY <1>3
    <3> HIDE DEF v
    <3> QED
      BY <1>2, <3>1 DEF LedgerTypeOK, OverRuns
  <2>3. (phase \in [Runs -> {"idle", "fetched", "writing", "comparing", "done"}])'
    BY <1>2 DEF LedgerTypeOK
  <2> QED
    BY <1>2, <2>1, <2>2, <2>3 DEF LedgerTypeOK, OverRuns
<1>10. TableInv'
  <2>1. All' = All
    BY <1>2 DEF All
  <2>2. ASSUME NEW x \in All PROVE RowOK(x)' /\ x.run # r
    <3>1. RowOK(x) /\ x.run \in Runs /\ phase[x.run] \in {"writing", "comparing", "done"}
      BY DEF LedgerInv, TableInv, RowOK
    <3>2. x.run \in Runs \ {r}
      BY <1>2, <3>1
    <3>3. startedAt'[x.run] = startedAt[x.run] /\ phase'[x.run] = phase[x.run]
      BY <1>2, <3>2 DEF LedgerTypeOK, OverRuns
    <3> QED
      BY <1>2, <1>8, <3>1, <3>2, <3>3, RowStays
  <2>3. \A x \in ledger : x \in All /\ phase'[x.run] = phase[x.run]
    <3>1. \A x \in ledger : x \in All /\ x.run \in Runs
      BY DEF All, LedgerInv, TableInv, RowOK
    <3> QED
      BY <1>2, <2>2, <3>1 DEF LedgerTypeOK
  <2> QED
    BY <1>2, <2>1, <2>2, <2>3 DEF LedgerInv, TableInv, Visible
<1>11. ASSUME NEW q \in Runs PROVE RunInv(q)'
  <2>1. CASE q # r
    <3>1. /\ phase'[q] = phase[q] /\ startedAt'[q] = startedAt[q] /\ planned'[q] = planned[q]
      BY <1>2, <1>4, <2>1 DEF LedgerTypeOK, OverRuns
    <3> QED
      BY <1>2, <1>8, <2>1, <3>1, Stays
  <2>2. CASE q = r
    <3>1. phase'[r] = "fetched" /\ startedAt'[r] = runTime /\ planned'[r] = FlattenSeq(ss)
      BY <1>2, <1>4 DEF LedgerTypeOK, OverRuns
    <3>2. PICK p : p = planned'[r]
      OBVIOUS
    <3>3. p \in Seq(S)
      <4> HIDE DEF S, ss
      <4> QED
        BY <1>4, <3>1, <3>2
    <3>4. p \in Seq(Range(p)) /\ \A j \in DOMAIN p : p[j] \in S
      <4> HIDE DEF S
      <4> QED
        BY <3>3 DEF Range
    <3>5. inserted'[r] = {} /\ next'[r] = 1 /\ readAt'[r] \subseteq ledger'
      BY <1>2 DEF RunInv, PlanInv, Open
    <3>6. PlanInv(r)'
      <4>1. \A j \in DOMAIN planned'[r] : ItemOK(r, planned[r][j])'
        <5>1. ASSUME NEW j \in DOMAIN p PROVE ItemOK(r, planned[r][j])'
          <6>1. PICK item \in S : item = p[j]
            BY <3>4
          <6>2. ItemOK(r, item)'
            <7> HIDE DEF S
            <7> QED
              BY <1>7
          <6>3. item = planned'[r][j]
            BY <3>2, <6>1
          <6> QED
            BY <6>2, <6>3 DEF ItemOK, Evidence, Kept, OfSession
        <5> QED
          BY <3>2, <5>1
      <4>2. (planned[r] \in Seq(Range(planned[r])))'
        BY <3>2, <3>4
      <4> HIDE DEF S, ss, latest, stored
      <4> QED
        BY <1>2, <3>1, <3>5, <4>1, <4>2 DEF PlanInv, Open
    <3>7. BuiltInv(r)' /\ ProgressInv(r)' /\ CompareInv(r)' /\ DoneInv(r)'
      BY <3>1 DEF BuiltInv, ProgressInv, CompareInv, DoneInv, Open
    <3> QED
      BY <2>2, <3>6, <3>7 DEF RunInv
  <2> QED
    BY <2>1, <2>2
<1> QED
  BY <1>9, <1>10, <1>11 DEF LedgerInv

(* The rows are those of the planned items without an accepted row.        *)
LEMMA BuildRows ==
    ASSUME LedgerInv, NEW r \in Runs, BeginFinish(r)
    PROVE  /\ rows'[r] \in Seq(Range(rows'[r]))
           /\ \A i \in DOMAIN rows'[r] : \E j \in DOMAIN planned[r] : /\ Accepted(ledger, planned[r][j].key) = {}
                                                                      /\ rows'[r][i] = Row(r, planned[r][j])
           /\ \A j \in DOMAIN planned[r] : \/ Accepted(ledger, planned[r][j].key) # {}
                                           \/ \E i \in DOMAIN rows'[r] : rows'[r][i] = Row(r, planned[r][j])
<1> DEFINE new(j) == Accepted(ledger, planned[r][j].key) = {}
           S == {Row(r, planned[r][j]) : j \in {i \in DOMAIN planned[r] : new(i)}}
           one(j, failed) == IF new(j) /\ (planned[r][j].failed # None) = failed THEN <<Row(r, planned[r][j])>> ELSE <<>>
           n == Len(planned[r])
           ss(failed) == [j \in 1 .. n |-> one(j, failed)]
<1>1. n \in Nat /\ DOMAIN planned[r] = 1 .. n
  <2>1. planned[r] \in Seq(Range(planned[r]))
    BY DEF BeginFinish, LedgerInv, RunInv, PlanInv
  <2> QED
    BY <2>1
<1>2. rows'[r] = FlattenSeq(ss(FALSE)) \o FlattenSeq(ss(TRUE))
  <2>1. rows' = [rows EXCEPT ![r] = FlattenSeq(ss(FALSE)) \o FlattenSeq(ss(TRUE))]
    BY <1>1 DEF BeginFinish
  <2> HIDE DEF ss
  <2> QED
    BY <2>1 DEF LedgerInv, LedgerTypeOK, OverRuns
<1>3. ASSUME NEW failed \in BOOLEAN
      PROVE  /\ FlattenSeq(ss(failed)) \in Seq(S)
             /\ Range(FlattenSeq(ss(failed))) = UNION {Range(one(j, failed)) : j \in 1 .. n}
  <2>1. ASSUME NEW j \in 1 .. n PROVE one(j, failed) \in Seq(S)
    <3>1. CASE new(j)
      <4>1. Row(r, planned[r][j]) \in S
        BY <1>1, <3>1
      <4> HIDE DEF S, new
      <4> QED
        BY <4>1
    <3>2. CASE ~new(j)
      <4>1. one(j, failed) = <<>>
        BY <3>2
      <4> HIDE DEF S, one
      <4> QED
        BY <4>1
    <3> QED
      BY <3>1, <3>2
  <2>2. ss(failed) \in [1 .. n -> Seq(S)] /\ \A j \in 1 .. n : ss(failed)[j] = one(j, failed)
    <3> HIDE DEF S, one, n
    <3> QED
      BY <2>1
  <2>3. PICK f : f = ss(failed)
    OBVIOUS
  <2> HIDE DEF S, one, n, ss
  <2>4. FlattenSeq(f) \in Seq(S) /\ Range(FlattenSeq(f)) = UNION {Range(f[j]) : j \in 1 .. n}
    BY <1>1, <2>2, <2>3, Flattened
  <2> QED
    BY <2>2, <2>3, <2>4
<1>4. /\ rows'[r] \in Seq(S)
      /\ Range(rows'[r]) = Range(FlattenSeq(ss(FALSE))) \cup Range(FlattenSeq(ss(TRUE)))
  <2>1. PICK a : a = FlattenSeq(ss(FALSE))
    OBVIOUS
  <2>2. PICK b : b = FlattenSeq(ss(TRUE))
    OBVIOUS
  <2> HIDE DEF S, ss, one, n
  <2>3. a \in Seq(S) /\ b \in Seq(S)
    BY <1>3, <2>1, <2>2
  <2>4. a \o b \in Seq(S) /\ Range(a \o b) = Range(a) \cup Range(b)
    BY <2>3, Concat
  <2> QED
    BY <1>2, <2>1, <2>2, <2>4
<1>5. rows'[r] \in Seq(Range(rows'[r])) /\ \A i \in DOMAIN rows'[r] : rows'[r][i] \in S
  <2>1. PICK p : p = rows'[r]
    OBVIOUS
  <2> HIDE DEF S
  <2>2. p \in Seq(Range(p)) /\ \A i \in DOMAIN p : p[i] \in S
    BY <1>4, <2>1 DEF Range
  <2> QED
    BY <2>1, <2>2
<1>6. ASSUME NEW j \in 1 .. n, new(j) PROVE \E i \in DOMAIN rows'[r] : rows'[r][i] = Row(r, planned[r][j])
  <2>1. PICK failed \in BOOLEAN : failed = (planned[r][j].failed # None)
    OBVIOUS
  <2>2. one(j, failed) = <<Row(r, planned[r][j])>>
    BY <1>6, <2>1
  <2>3. PICK row : row = Row(r, planned[r][j])
    OBVIOUS
  <2> HIDE DEF S, ss, one, n
  <2>4. row \in Range(one(j, failed))
    BY <2>2, <2>3 DEF Range
  <2>5. row \in Range(FlattenSeq(ss(failed)))
    BY <1>3, <2>4
  <2>6. row \in Range(rows'[r])
    BY <1>4, <2>5
  <2> QED
    BY <2>3, <2>6 DEF Range
<1>7. \A x \in S : \E j \in DOMAIN planned[r] : new(j) /\ x = Row(r, planned[r][j])
  OBVIOUS
<1>8. \A i \in DOMAIN rows'[r] : \E j \in DOMAIN planned[r] : new(j) /\ rows'[r][i] = Row(r, planned[r][j])
  <2> HIDE DEF S, new
  <2> QED
    BY <1>5, <1>7
<1> QED
  BY <1>1, <1>5, <1>6, <1>8

(* The transaction begins and the rows are built.                          *)
LEMMA BeginStep ==
    ASSUME LedgerInv, NEW r \in Runs, BeginFinish(r)
    PROVE  LedgerInv'
<1>1. /\ phase[r] = "fetched" /\ RunInv(r) /\ LedgerTypeOK
      /\ phase' = [phase EXCEPT ![r] = "writing"] /\ readAt' = [readAt EXCEPT ![r] = ledger]
      /\ UNCHANGED <<runTime, offered, startedAt, planned, next, inserted, counts, ok, unsaved, ledger, snapshots>>
  BY DEF BeginFinish, LedgerInv
<1>2. \E v : rows' = [rows EXCEPT ![r] = v]
  BY DEF BeginFinish
<1>3. phase'[r] = "writing" /\ readAt'[r] = ledger
  BY <1>1 DEF LedgerTypeOK, OverRuns
<1>4. \A q \in Runs \ {r} : phase'[q] = phase[q] /\ readAt'[q] = readAt[q] /\ rows'[q] = rows[q]
  BY <1>1, <1>2 DEF LedgerTypeOK, OverRuns
<1>5. \A q, u : Kept(q, u) => Kept(q, u)'
  BY <1>1 DEF Kept
<1>6. LedgerTypeOK'
  BY <1>1, <1>2 DEF LedgerTypeOK, OverRuns
<1>7. TableInv'
  <2>1. All' = All
    BY <1>1 DEF All
  <2>2. ASSUME NEW x \in All PROVE RowOK(x)' /\ x.run \in Runs \ {r}
    <3>1. RowOK(x) /\ x.run \in Runs /\ phase[x.run] \in {"writing", "comparing", "done"}
      BY DEF LedgerInv, TableInv, RowOK
    <3>2. x.run \in Runs \ {r}
      BY <1>1, <3>1
    <3> QED
      BY <1>1, <1>4, <1>5, <3>1, <3>2, RowStays
  <2>3. \A x \in ledger : x \in All /\ phase'[x.run] = phase[x.run]
    BY <1>4, <2>2 DEF All
  <2> QED
    BY <1>1, <2>1, <2>2, <2>3 DEF LedgerInv, TableInv, Visible
<1>8. ASSUME NEW q \in Runs PROVE RunInv(q)'
  <2>1. CASE q # r
    BY <1>1, <1>4, <1>5, <2>1, Stays
  <2>2. CASE q = r
    <3>1. PlanInv(r)'
      <4>1. ASSUME NEW item, ItemOK(r, item) PROVE ItemOK(r, item)'
        BY <1>1, <1>5, <4>1 DEF ItemOK, Evidence, OfSession
      <4> QED
        BY <1>1, <1>3, <4>1 DEF RunInv, PlanInv, Open
    <3>2. BuiltInv(r)'
      <4>1. \A j \in DOMAIN planned[r] : /\ Row(r, planned[r][j])' = Row(r, planned[r][j]) /\ Row(r, planned[r][j]).key = planned[r][j].key
                                         /\ Accepted(readAt[r], planned[r][j].key)' = Accepted(ledger, planned[r][j].key)
        BY <1>1, <1>3 DEF Row, Accepted
      <4>2. ASSUME NEW i \in DOMAIN rows'[r]
            PROVE  /\ \E j \in DOMAIN planned'[r] : (rows[r][i] = Row(r, planned[r][j]))'
                   /\ (Accepted(readAt[r], rows[r][i].key) = {})'
        <5>1. PICK j \in DOMAIN planned[r] : Accepted(ledger, planned[r][j].key) = {} /\ rows'[r][i] = Row(r, planned[r][j])
          BY BuildRows
        <5>2. (rows[r][i] = Row(r, planned[r][j]))'
          BY <4>1, <5>1
        <5>3. rows'[r][i].key = planned[r][j].key
          BY <4>1, <5>1
        <5> QED
          BY <1>1, <1>3, <5>1, <5>2, <5>3 DEF Accepted
      <4>3. ASSUME NEW j \in DOMAIN planned[r]
            PROVE  \/ (Accepted(readAt[r], planned[r][j].key) # {})'
                   \/ \E i \in DOMAIN rows'[r] : (rows[r][i] = Row(r, planned[r][j]))'
        BY <4>1, BuildRows
      <4>4. (rows[r] \in Seq(Range(rows[r])))'
        BY BuildRows
      <4> QED
        BY <1>1, <4>2, <4>3, <4>4 DEF BuiltInv
    <3>3. ProgressInv(r)' /\ CompareInv(r)' /\ DoneInv(r)'
      <4>1. next'[r] = 1
        BY <1>1 DEF RunInv, PlanInv
      <4>2. \A i \in DOMAIN rows'[r] : ~(i < 1)
        <5>1. PICK p : p = rows'[r]
          OBVIOUS
        <5>2. p \in Seq(Range(p))
          BY <5>1, BuildRows
        <5>3. \A i \in DOMAIN p : ~(i < 1)
          BY <5>2
        <5> QED
          BY <5>1, <5>3
      <4> QED
        BY <1>3, <4>1, <4>2 DEF ProgressInv, CompareInv, DoneInv
    <3> QED
      BY <2>2, <3>1, <3>2, <3>3 DEF RunInv
  <2> QED
    BY <2>1, <2>2
<1> QED
  BY <1>6, <1>7, <1>8 DEF LedgerInv

-----------------------------------------------------------------------------
(* One row of a run's transaction: nothing, or one more row, is inserted.  *)

LEMMA WriteStep ==
    ASSUME LedgerInv, NEW r \in Runs, Open(r), NEW N, NEW c \in Counts, NEW n, n \in {next[r], next[r] + 1},
           UNCHANGED writeUnchanged,
           phase' = [phase EXCEPT ![r] = phase'[r]], phase'[r] \in {"writing", "comparing"},
           inserted' = [inserted EXCEPT ![r] = @ \cup N],
           counts' = [counts EXCEPT ![r] = c], next' = [next EXCEPT ![r] = n],
           counts[r].failed > 0 => c.failed > 0, counts[r].conflict > 0 => c.conflict > 0,
           \A x \in N : RowOK(x)' /\ x.run = r /\ (x.status = "conflict" => x.with \in Visible(r)),
           \A x, y \in N : x = y,
           \A x \in N, y \in All : ~SameIdentity(x, y) /\ ~SameConflict(x, y),
           n = next[r] + 1 => \A i : i = next[r] => Judged(r, i)',
           CompareInv(r)'
    PROVE  LedgerInv'
<1>1. LedgerTypeOK /\ TableInv /\ RunInv(r) /\ UNCHANGED <<runTime, offered, startedAt, planned, rows, ok, unsaved, ledger, snapshots, readAt>>
  BY DEF LedgerInv, writeUnchanged
<1>2. /\ inserted'[r] = inserted[r] \cup N /\ counts'[r] = c /\ next'[r] = n
      /\ \A q \in Runs \ {r} : /\ phase'[q] = phase[q] /\ inserted'[q] = inserted[q]
                               /\ counts'[q] = counts[q] /\ next'[q] = next[q]
  BY <1>1 DEF LedgerTypeOK, OverRuns
<1>3. \A q, u : Kept(q, u) => Kept(q, u)'
  BY <1>1 DEF Kept
<1>4. next[r] \in Nat \ {0} /\ n \in Nat \ {0}
  BY <1>1 DEF LedgerTypeOK
<1>5. LedgerTypeOK'
  <2>1. (phase \in [Runs -> {"idle", "fetched", "writing", "comparing", "done"}])'
    BY <1>1 DEF LedgerTypeOK
  <2>2. (next \in [Runs -> Nat \ {0}])'
    BY <1>1, <1>4 DEF LedgerTypeOK
  <2>3. (counts \in [Runs -> Counts])'
    <3> HIDE DEF Counts
    <3> QED
      BY <1>1 DEF LedgerTypeOK
  <2> QED
    BY <1>1, <2>1, <2>2, <2>3 DEF LedgerTypeOK, OverRuns
<1>6. All' = All \cup N
  BY <1>1, <1>2 DEF All
<1>7. TableInv'
  <2>1. ASSUME NEW x \in All PROVE RowOK(x)' /\ phase'[x.run] = (IF x.run = r THEN phase'[r] ELSE phase[x.run])
    <3>1. RowOK(x) /\ x.run \in Runs /\ phase[x.run] \in {"writing", "comparing", "done"}
      BY <1>1 DEF TableInv, RowOK
    <3>2. phase'[x.run] = (IF x.run = r THEN phase'[r] ELSE phase[x.run])
      BY <1>2, <3>1
    <3>3. /\ counts[x.run].failed > 0 => counts'[x.run].failed > 0
          /\ counts[x.run].conflict > 0 => counts'[x.run].conflict > 0
      BY <1>2, <3>1
    <3>4. startedAt'[x.run] = startedAt[x.run] /\ readAt'[x.run] = readAt[x.run] /\ phase'[x.run] \in {"writing", "comparing", "done"}
      BY <1>1, <3>1, <3>2
    <3> QED
      BY <1>3, <3>1, <3>2, <3>3, <3>4, RowStays
  <2>2. \A x \in All' : RowOK(x)'
    BY <1>6, <2>1
  <2>3. \A x, y \in All' : SameIdentity(x, y) \/ SameConflict(x, y) => x = y
    <3>1. \A x \in N, y \in All : ~SameIdentity(y, x) /\ ~SameConflict(y, x)
      BY DEF SameIdentity, SameConflict
    <3> QED
      BY <1>1, <1>6, <3>1 DEF TableInv
  <2>4. \A x \in ledger : phase[x.run] = "done" /\ x.run \in Runs
    BY <1>1 DEF TableInv, All, RowOK
  <2>5. \A x \in ledger' : phase'[x.run] = "done" /\ (x.status = "conflict" => x.with \in ledger')
    BY <1>1, <1>2, <2>4 DEF TableInv, Open
  <2>6. ASSUME NEW q \in Runs, NEW x \in inserted'[q]
        PROVE  x.run = q /\ (x.status = "conflict" => x.with \in Visible(q)')
    <3>1. Visible(q) \subseteq Visible(q)'
      BY <1>1, <1>2 DEF Visible
    <3>2. CASE x \in inserted[q]
      BY <1>1, <3>1, <3>2 DEF TableInv
    <3>3. CASE q = r /\ x \in N
      BY <3>1, <3>3
    <3> QED
      BY <1>2, <2>6, <3>2, <3>3
  <2>7. (\A x, y \in All : SameIdentity(x, y) \/ SameConflict(x, y) => x = y)'
    BY <2>3 DEF SameIdentity, SameConflict
  <2> QED
    BY <2>2, <2>5, <2>6, <2>7 DEF TableInv
<1>8. ASSUME NEW q \in Runs \ {r} PROVE RunInv(q)'
  BY <1>1, <1>2, <1>3, Stays
<1>9. RunInv(r)'
  <2>1. Open(r)' /\ phase'[r] # "done" /\ phase'[r] \notin {"idle", "fetched"} /\ phase[r] \in {"writing", "comparing"}
    BY DEF Open
  <2>2. PlanInv(r)'
    <3>1. ASSUME NEW item, ItemOK(r, item) PROVE ItemOK(r, item)'
      BY <1>1, <1>3, <3>1 DEF ItemOK, Evidence, OfSession
    <3> QED
      BY <1>1, <2>1, <3>1 DEF RunInv, PlanInv
  <2>3. BuiltInv(r)'
    <3>1. \A i \in DOMAIN rows[r], j \in DOMAIN planned[r] : rows[r][i] = Row(r, planned[r][j]) => (rows[r][i] = Row(r, planned[r][j]))'
      BY <1>1 DEF Row
    <3>2. \A i \in DOMAIN rows[r] : Accepted(readAt[r], rows[r][i].key)' = Accepted(readAt[r], rows[r][i].key)
      BY <1>1 DEF Accepted
    <3>3. \A j \in DOMAIN planned[r] : Accepted(readAt[r], planned[r][j].key)' = Accepted(readAt[r], planned[r][j].key)
      BY <1>1 DEF Accepted
    <3>4. (rows[r] \in Seq(Range(rows[r])))'
      BY <1>1 DEF RunInv, BuiltInv
    <3>5. /\ \A i \in DOMAIN rows[r] : /\ \E j \in DOMAIN planned[r] : rows[r][i] = Row(r, planned[r][j])
                                         /\ Accepted(readAt[r], rows[r][i].key) = {}
          /\ \A j \in DOMAIN planned[r] : Accepted(readAt[r], planned[r][j].key) # {}
                                          \/ \E i \in DOMAIN rows[r] : rows[r][i] = Row(r, planned[r][j])
      BY <1>1 DEF RunInv, BuiltInv
    <3>6. rows' = rows /\ planned' = planned
      BY <1>1
    <3> QED
      BY <3>1, <3>2, <3>3, <3>4, <3>5, <3>6 DEF BuiltInv
  <2>4. ProgressInv(r)'
    <3>1. Visible(r) \subseteq Visible(r)'
      BY <1>1, <1>2 DEF Visible
    <3>2. ASSUME NEW i \in DOMAIN rows[r], Judged(r, i) PROVE Judged(r, i)'
      <4>1. Filed(rows'[r][i], Visible(r)')
        BY <1>1, <3>1, <3>2, FiledStays DEF Judged
      <4> QED
        BY <1>1, <1>2, <3>1, <3>2, <4>1 DEF Judged, Accepted, Filed
    <3>3. \A i \in DOMAIN rows[r] : i \in Nat
      <4>1. PICK p : p = rows[r]
        OBVIOUS
      <4>2. p \in Seq(Range(p))
        BY <1>1, <4>1 DEF RunInv, BuiltInv
      <4>3. \A i \in DOMAIN p : i \in Nat
        BY <4>2
      <4> QED
        BY <4>1, <4>3
    <3>4. ASSUME NEW i \in DOMAIN rows[r], i < n PROVE Judged(r, i)'
      <4>1. CASE i < next[r]
        BY <1>1, <3>2, <4>1 DEF RunInv, ProgressInv
      <4>2. CASE ~(i < next[r])
        <5>1. n = next[r] + 1 /\ i = next[r]
          BY <1>4, <3>3, <3>4, <4>2
        <5> QED
          BY <5>1
      <4> QED
        BY <4>1, <4>2
    <3> QED
      BY <1>1, <1>2, <3>4 DEF ProgressInv
  <2>5. DoneInv(r)'
    BY <2>1 DEF DoneInv
  <2> QED
    BY <2>2, <2>3, <2>4, <2>5 DEF RunInv
<1> QED
  BY <1>5, <1>7, <1>8, <1>9 DEF LedgerInv

(* The row a transaction is at.                                            *)
LEMMA CurrentRow ==
    ASSUME LedgerInv, NEW r \in Runs, Open(r), Pending(r)
    PROVE  /\ next[r] \in DOMAIN rows[r] /\ Current(r).run = r
           /\ OfSession(Current(r).key[3], startedAt[r])
           /\ Current(r).backfilled => DayOf(startedAt[r]) > NextTradingDay(Current(r).key[3])
           /\ Current(r).status = "collected" => Evidence(r, Current(r).content)
           /\ Current(r).status \in {"collected", "failed"}
           /\ Accepted(readAt[r], Current(r).key) = {}
           /\ Current(r) = [run |-> Current(r).run, key |-> Current(r).key, content |-> Current(r).content,
                            with |-> Current(r).with, status |-> Current(r).status, kind |-> Current(r).kind,
                            backfilled |-> Current(r).backfilled]
<1>1. PlanInv(r) /\ BuiltInv(r) /\ next[r] \in Nat \ {0} /\ phase[r] # "idle"
  BY DEF LedgerInv, RunInv, LedgerTypeOK, Open
<1>2. next[r] \in DOMAIN rows[r]
  <2>1. PICK p : p = rows[r]
    OBVIOUS
  <2>2. p \in Seq(Range(p)) /\ next[r] <= Len(p)
    BY <1>1, <2>1 DEF BuiltInv, Pending
  <2>3. next[r] \in DOMAIN p
    BY <1>1, <2>2
  <2> QED
    BY <2>1, <2>3
<1>3. PICK j \in DOMAIN planned[r] : rows[r][next[r]] = Row(r, planned[r][j])
  BY <1>1, <1>2 DEF BuiltInv
<1>4. PICK item : item = planned[r][j]
  OBVIOUS
<1>5. ItemOK(r, item) /\ Current(r) = Row(r, item) /\ Accepted(readAt[r], Current(r).key) = {}
  BY <1>1, <1>2, <1>3, <1>4 DEF PlanInv, BuiltInv, Current
<1>6. /\ Row(r, item).run = r /\ Row(r, item).key = item.key
      /\ Row(r, item).backfilled => DayOf(startedAt[r]) > NextTradingDay(item.key[3])
      /\ Row(r, item).status \in {"collected", "failed"}
      /\ Row(r, item).status = "collected" => item.complete /\ Row(r, item).content = item.content
  BY DEF Row
<1>7. Row(r, item) = [run |-> Row(r, item).run, key |-> Row(r, item).key, content |-> Row(r, item).content,
                      with |-> Row(r, item).with, status |-> Row(r, item).status, kind |-> Row(r, item).kind,
                      backfilled |-> Row(r, item).backfilled]
  BY DEF Row
<1> QED
  BY <1>2, <1>5, <1>6, <1>7 DEF ItemOK

(* What counting an outcome does to the counts.                            *)
LEMMA DoneCounts ==
    ASSUME LedgerInv, NEW r \in Runs, NEW outcome \in {"inserted", "duplicate", "conflict", "failed"}, Done(r, outcome)
    PROVE  \E c \in Counts : /\ counts' = [counts EXCEPT ![r] = c]
                             /\ c[outcome] > 0 /\ (counts[r].failed > 0 => c.failed > 0)
                             /\ counts[r].conflict > 0 => c.conflict > 0
                             /\ outcome \in {"inserted", "duplicate"} => c.failed = counts[r].failed /\ c.conflict = counts[r].conflict
<1>1. PICK c : c = [counts[r] EXCEPT ![outcome] = @ + 1]
  OBVIOUS
<1>2. PICK k \in Counts : k = counts[r] /\ c = [k EXCEPT ![outcome] = @ + 1]
  BY <1>1 DEF LedgerInv, LedgerTypeOK
<1>3. c \in Counts /\ c[outcome] > 0
  BY <1>2 DEF Counts
<1>4. /\ k.failed > 0 => c.failed > 0
      /\ k.conflict > 0 => c.conflict > 0
      /\ outcome \in {"inserted", "duplicate"} => c.failed = k.failed /\ c.conflict = k.conflict
  BY <1>2 DEF Counts
<1>5. counts' = [counts EXCEPT ![r] = c]
  BY <1>1 DEF Done
<1> QED
  BY <1>2, <1>3, <1>4, <1>5

(* A failure row.                                                          *)
LEMMA FailureStep ==
    ASSUME LedgerInv, NEW r \in Runs, RecordFailure(r)
    PROVE  LedgerInv'
<1>1. /\ Open(r) /\ Pending(r) /\ UNCHANGED writeUnchanged /\ Current(r).status = "failed"
      /\ Done(r, "failed") /\ LedgerTypeOK
  BY DEF RecordFailure, Open, LedgerInv
<1>2. PICK row : row = Current(r)
  OBVIOUS
<1>3. PICK c \in Counts : /\ counts' = [counts EXCEPT ![r] = c]
                          /\ c["failed"] > 0 /\ (counts[r].failed > 0 => c.failed > 0)
                          /\ counts[r].conflict > 0 => c.conflict > 0
  BY <1>1, DoneCounts
<1>4. inserted' = [inserted EXCEPT ![r] = @ \cup {row}]
  BY <1>2 DEF RecordFailure, Insert
<1>5. phase' = [phase EXCEPT ![r] = phase'[r]] /\ phase'[r] = "writing" /\ next' = [next EXCEPT ![r] = next[r] + 1]
  BY <1>1 DEF Done, LedgerTypeOK
<1>6. counts'[r] = c /\ startedAt' = startedAt
  BY <1>1, <1>3 DEF LedgerTypeOK, writeUnchanged
<1>7. /\ row.run = r /\ row.status = "failed" /\ OfSession(row.key[3], startedAt[r])
      /\ row.backfilled => DayOf(startedAt[r]) > NextTradingDay(row.key[3])
      /\ rows'[r][next[r]] = row
  BY <1>1, <1>2, CurrentRow DEF Current, writeUnchanged
<1>8. RowOK(row)'
  BY <1>3, <1>5, <1>6, <1>7 DEF RowOK, OfSession
<1>9. \A y \in All : ~SameIdentity(row, y) /\ ~SameConflict(row, y)
  BY <1>7 DEF SameIdentity, SameConflict
<1>10. \A i : i = next[r] => Judged(r, i)'
  <2>1. row \in inserted'[r]
    BY <1>1, <1>4 DEF LedgerTypeOK, OverRuns
  <2>2. row \in Visible(r)'
    BY <2>1 DEF Visible
  <2> QED
    BY <1>3, <1>6, <1>7, <2>2 DEF Judged, Filed
<1>11. CompareInv(r)'
  BY <1>5 DEF CompareInv
<1>12. PICK n : n = next[r] + 1
  OBVIOUS
<1>13. PICK N : N = {row}
  OBVIOUS
<1>14. /\ n \in {next[r], next[r] + 1} /\ next' = [next EXCEPT ![r] = n] /\ phase'[r] \in {"writing", "comparing"}
       /\ inserted' = [inserted EXCEPT ![r] = @ \cup N]
       /\ \A x \in N : RowOK(x)' /\ x.run = r /\ (x.status = "conflict" => x.with \in Visible(r))
       /\ \A x, y \in N : x = y
       /\ \A x \in N, y \in All : ~SameIdentity(x, y) /\ ~SameConflict(x, y)
  BY <1>4, <1>5, <1>7, <1>8, <1>9, <1>12, <1>13
<1> QED
  BY <1>1, <1>3, <1>5, <1>10, <1>11, <1>14, WriteStep

(* Every row is visible to a run or another run's.                         *)
LEMMA AllRows ==
    ASSUME NEW r \in Runs
    PROVE  All = Visible(r) \cup Others(r)
BY DEF All, Visible, Others

(* A collected row is inserted, or lost the race.                          *)
LEMMA InsertStep ==
    ASSUME LedgerInv, NEW r \in Runs, InsertCollected(r)
    PROVE  LedgerInv'
<1>1. /\ Open(r) /\ Pending(r) /\ UNCHANGED writeUnchanged /\ Current(r).status = "collected" /\ phase[r] = "writing"
      /\ Accepted(Others(r), Current(r).key) = {} /\ LedgerTypeOK
  BY DEF InsertCollected, Open, LedgerInv
<1>2. PICK row : row = Current(r)
  OBVIOUS
<1>3. row.run = r /\ row.status = "collected" /\ OfSession(row.key[3], startedAt[r]) /\ (row.backfilled => DayOf(startedAt[r]) > NextTradingDay(row.key[3]))
      /\ Evidence(r, row.content) /\ next[r] \in DOMAIN rows[r] /\ rows[r][next[r]] = row
  BY <1>1, <1>2, CurrentRow DEF Current
<1>4. startedAt' = startedAt /\ rows' = rows /\ ledger' = ledger /\ snapshots' = snapshots /\ unsaved' = unsaved
  BY <1>1 DEF writeUnchanged
<1>5. CASE Accepted(Visible(r), Current(r).key) = {}
  <2>1. Insert(r, Current(r)) /\ Done(r, "inserted")
    BY <1>5 DEF InsertCollected
  <2>2. PICK c \in Counts : /\ counts' = [counts EXCEPT ![r] = c]
                            /\ (counts[r].failed > 0 => c.failed > 0) /\ (counts[r].conflict > 0 => c.conflict > 0)
    BY <2>1, DoneCounts
  <2>3. inserted' = [inserted EXCEPT ![r] = @ \cup {row}]
    BY <1>2, <2>1 DEF Insert
  <2>4. phase' = [phase EXCEPT ![r] = phase'[r]] /\ phase'[r] = "writing" /\ next' = [next EXCEPT ![r] = next[r] + 1]
    BY <1>1, <2>1 DEF Done, LedgerTypeOK
  <2>5. RowOK(row)'
    <3>1. Evidence(r, row.content)'
      BY <1>3, <1>4 DEF Evidence, Kept
    <3> QED
      BY <1>3, <1>4, <2>4, <3>1 DEF RowOK, OfSession
  <2>6. \A y \in All : ~SameIdentity(row, y) /\ ~SameConflict(row, y)
    BY <1>1, <1>2, <1>3, <1>5, AllRows DEF SameIdentity, SameConflict, Accepted
  <2>7. \A i : i = next[r] => Judged(r, i)'
    <3>1. inserted'[r] = inserted[r] \cup {row}
      BY <1>1, <2>3 DEF LedgerTypeOK, OverRuns
    <3>2. row \in Visible(r)'
      BY <3>1 DEF Visible
    <3> QED
      BY <1>3, <1>4, <3>2 DEF Judged, Accepted, Filed
  <2>8. CompareInv(r)'
    BY <2>4 DEF CompareInv
  <2>9. PICK n : n = next[r] + 1
    OBVIOUS
  <2>10. PICK N : N = {row}
    OBVIOUS
  <2>11. /\ n \in {next[r], next[r] + 1} /\ next' = [next EXCEPT ![r] = n] /\ phase'[r] \in {"writing", "comparing"}
         /\ inserted' = [inserted EXCEPT ![r] = @ \cup N]
         /\ \A x \in N : RowOK(x)' /\ x.run = r /\ (x.status = "conflict" => x.with \in Visible(r))
         /\ \A x, y \in N : x = y
         /\ \A x \in N, y \in All : ~SameIdentity(x, y) /\ ~SameConflict(x, y)
    BY <1>3, <2>3, <2>4, <2>5, <2>6, <2>9, <2>10
  <2> QED
    BY <1>1, <2>2, <2>4, <2>7, <2>8, <2>11, WriteStep
<1>6. CASE Accepted(Visible(r), Current(r).key) # {}
  <2>1. phase' = [phase EXCEPT ![r] = "comparing"] /\ UNCHANGED <<inserted, counts, next>>
    BY <1>6 DEF InsertCollected
  <2>2. PICK c : c = counts[r]
    OBVIOUS
  <2>3. PICK n : n = next[r]
    OBVIOUS
  <2>4. PICK N : N = {}
    OBVIOUS
  <2>5. /\ c \in Counts /\ counts' = [counts EXCEPT ![r] = c] /\ next' = [next EXCEPT ![r] = n]
        /\ inserted' = [inserted EXCEPT ![r] = @ \cup N] /\ n # next[r] + 1
        /\ phase' = [phase EXCEPT ![r] = phase'[r]] /\ phase'[r] = "comparing"
    <3> HIDE DEF Counts
    <3>1. next[r] \in Nat
      BY <1>1 DEF LedgerTypeOK
    <3> QED
      BY <1>1, <2>1, <2>2, <2>3, <2>4, <3>1 DEF LedgerTypeOK, OverRuns
  <2>6. CompareInv(r)'
    <3>1. Pending(r)' /\ Current(r)' = row /\ Visible(r)' = Visible(r)
      BY <1>1, <1>2, <1>4, <2>1 DEF Pending, Current, Visible
    <3> QED
      BY <1>2, <1>3, <1>6, <3>1 DEF CompareInv, Accepted
  <2> QED
    BY <1>1, <2>2, <2>3, <2>4, <2>5, <2>6, WriteStep
<1> QED
  BY <1>5, <1>6

(* A row that lost the race is a duplicate or a conflict.                  *)
LEMMA CompareStep ==
    ASSUME LedgerInv, NEW r \in Runs, CompareContents(r)
    PROVE  LedgerInv'
<1>1. /\ Open(r) /\ Pending(r) /\ UNCHANGED writeUnchanged /\ Current(r).status = "collected" /\ LedgerTypeOK
  BY DEF CompareContents, Open, LedgerInv, RunInv, CompareInv
<1>2. PICK row : row = Current(r)
  OBVIOUS
<1>3. /\ row.run = r /\ row.status = "collected" /\ OfSession(row.key[3], startedAt[r])
      /\ (row.backfilled => DayOf(startedAt[r]) > NextTradingDay(row.key[3]))
      /\ next[r] \in DOMAIN rows[r] /\ rows[r][next[r]] = row /\ Accepted(readAt[r], row.key) = {}
      /\ row = [run |-> row.run, key |-> row.key, content |-> row.content, with |-> row.with,
                status |-> row.status, kind |-> row.kind, backfilled |-> row.backfilled]
  BY <1>1, <1>2, CurrentRow DEF Current
<1>4. startedAt' = startedAt /\ rows' = rows /\ ledger' = ledger /\ readAt' = readAt
  BY <1>1 DEF writeUnchanged
<1>5. PICK accepted \in Accepted(Visible(r), row.key) :
         LET conflict == [row EXCEPT !.status = "conflict", !.with = accepted]
             same(x) == x.status = "conflict" /\ x.with = accepted /\ x.content = row.content
         IN IF accepted.content = row.content THEN Done(r, "duplicate") /\ UNCHANGED inserted
            ELSE /\ ~\E x \in Others(r) : same(x)
                 /\ IF \E x \in Visible(r) : same(x) THEN UNCHANGED inserted ELSE Insert(r, conflict)
                 /\ Done(r, "conflict")
  BY <1>2 DEF CompareContents
<1>6. accepted \in Visible(r) /\ accepted.status = "collected" /\ accepted.key = row.key
  BY DEF Accepted
<1>7. PICK n : n = next[r] + 1
  OBVIOUS
<1>8. CASE accepted.content = row.content
  <2>1. Done(r, "duplicate") /\ UNCHANGED inserted
    BY <1>5, <1>8
  <2>2. PICK c \in Counts : /\ counts' = [counts EXCEPT ![r] = c]
                            /\ (counts[r].failed > 0 => c.failed > 0) /\ (counts[r].conflict > 0 => c.conflict > 0)
    BY <2>1, DoneCounts
  <2>3. phase' = [phase EXCEPT ![r] = phase'[r]] /\ phase'[r] = "writing" /\ next' = [next EXCEPT ![r] = n]
    BY <1>1, <1>7, <2>1 DEF Done, LedgerTypeOK
  <2>4. PICK N : N = {}
    OBVIOUS
  <2>5. inserted' = [inserted EXCEPT ![r] = @ \cup N]
    BY <1>1, <2>1, <2>4 DEF LedgerTypeOK, OverRuns
  <2>6. \A i : i = next[r] => Judged(r, i)'
    <3>1. accepted \in Visible(r)'
      BY <1>4, <1>6, <2>1 DEF Visible
    <3> QED
      BY <1>3, <1>4, <1>6, <1>8, <3>1 DEF Judged, Accepted, Filed
  <2>7. CompareInv(r)'
    BY <2>3 DEF CompareInv
  <2>8. /\ \A x \in N : RowOK(x)' /\ x.run = r /\ (x.status = "conflict" => x.with \in Visible(r))
        /\ \A x, y \in N : x = y
        /\ \A x \in N, y \in All : ~SameIdentity(x, y) /\ ~SameConflict(x, y)
    BY <2>4
  <2> QED
    BY <1>1, <1>7, <2>2, <2>3, <2>5, <2>6, <2>7, <2>8, WriteStep
<1>9. CASE accepted.content # row.content
  <2> DEFINE same(x) == x.status = "conflict" /\ x.with = accepted /\ x.content = row.content
  <2>1. PICK conflict : conflict = [row EXCEPT !.status = "conflict", !.with = accepted]
    OBVIOUS
  <2>2. /\ Done(r, "conflict") /\ ~\E x \in Others(r) : same(x)
        /\ IF \E x \in Visible(r) : same(x) THEN UNCHANGED inserted ELSE Insert(r, conflict)
    BY <1>5, <1>9, <2>1
  <2>3. PICK c \in Counts : /\ counts' = [counts EXCEPT ![r] = c] /\ c["conflict"] > 0
                            /\ (counts[r].failed > 0 => c.failed > 0) /\ (counts[r].conflict > 0 => c.conflict > 0)
    BY <2>2, DoneCounts
  <2>4. phase' = [phase EXCEPT ![r] = phase'[r]] /\ phase'[r] = "writing" /\ next' = [next EXCEPT ![r] = n]
    BY <1>1, <1>7, <2>2 DEF Done, LedgerTypeOK
  <2>5. PICK N : N = IF \E x \in Visible(r) : same(x) THEN {} ELSE {conflict}
    OBVIOUS
  <2>6. inserted' = [inserted EXCEPT ![r] = @ \cup N]
    BY <1>1, <2>2, <2>5 DEF LedgerTypeOK, OverRuns, Insert
  <2>7. counts'[r] = c
    BY <1>1, <2>3 DEF LedgerTypeOK
  <2>8. /\ conflict.run = r /\ conflict.key = row.key /\ conflict.status = "conflict" /\ conflict.with = accepted
        /\ conflict.content = row.content /\ conflict.backfilled = row.backfilled
    BY <1>3, <2>1
  <2>9. accepted \notin readAt[r]
    BY <1>3, <1>6 DEF Accepted
  <2>10. RowOK(conflict)'
    <3>1. OfSession(conflict.key[3], startedAt'[r]) /\ (conflict.backfilled => DayOf(startedAt'[r]) > NextTradingDay(conflict.key[3]))
      BY <1>3, <1>4, <2>8
    <3> QED
      BY <1>4, <1>9, <2>3, <2>4, <2>7, <2>8, <2>9, <3>1 DEF RowOK, OfSession
  <2>11. /\ \A x \in N : RowOK(x)' /\ x.run = r /\ (x.status = "conflict" => x.with \in Visible(r))
         /\ \A x, y \in N : x = y
    BY <1>6, <2>5, <2>8, <2>10
  <2>12. \A x \in N, y \in All : ~SameIdentity(x, y) /\ ~SameConflict(x, y)
    <3>1. ASSUME NEW x \in N, NEW y \in All PROVE ~SameIdentity(x, y) /\ ~SameConflict(x, y)
      <4>1. x = conflict /\ ~\E z \in Visible(r) : same(z)
        BY <2>5
      <4>2. ~same(y)
        BY <2>2, <4>1, AllRows
      <4> QED
        BY <2>8, <4>1, <4>2 DEF SameIdentity, SameConflict
    <3> QED
      BY <3>1
  <2>13. \A i : i = next[r] => Judged(r, i)'
    <3>1. inserted'[r] = inserted[r] \cup N
      BY <1>1, <2>6 DEF LedgerTypeOK, OverRuns
    <3>2. Visible(r)' = Visible(r) \cup N
      BY <1>4, <3>1 DEF Visible
    <3>3. \E x \in Visible(r)' : same(x)
      BY <2>5, <2>8, <3>2
    <3> QED
      BY <1>3, <1>4, <1>6, <2>3, <2>7, <3>2, <3>3 DEF Judged, Filed, Accepted
  <2>14. CompareInv(r)'
    BY <2>4 DEF CompareInv
  <2> HIDE DEF same
  <2> QED
    BY <1>1, <1>7, <2>3, <2>4, <2>6, <2>11, <2>12, <2>13, <2>14, WriteStep
<1> QED
  BY <1>8, <1>9

-----------------------------------------------------------------------------
(* The end of a run's transaction.                                         *)

LEMMA EndStep ==
    ASSUME LedgerInv, NEW r \in Runs, phase[r] \notin {"idle", "done"},
           phase' = [phase EXCEPT ![r] = "done"], inserted' = [inserted EXCEPT ![r] = {}],
           NEW b, ok' = [ok EXCEPT ![r] = b],
           UNCHANGED <<runTime, offered, startedAt, planned, rows, next, counts, unsaved, snapshots, readAt>>,
           ledger \subseteq ledger', ledger' \subseteq ledger \cup inserted[r],
           \A x \in ledger' : x.status = "conflict" => x.with \in ledger',
           DoneInv(r)'
    PROVE  LedgerInv'
<1>1. LedgerTypeOK /\ TableInv /\ RunInv(r)
  BY DEF LedgerInv
<1>2. /\ phase'[r] = "done" /\ inserted'[r] = {} /\ ok'[r] = b
      /\ \A q \in Runs \ {r} : phase'[q] = phase[q] /\ inserted'[q] = inserted[q] /\ ok'[q] = ok[q]
  BY <1>1 DEF LedgerTypeOK, OverRuns
<1>3. \A q, u : Kept(q, u) => Kept(q, u)'
  BY DEF Kept
<1>4. LedgerTypeOK'
  BY <1>1 DEF LedgerTypeOK, OverRuns
<1>5. All' \subseteq All
  BY <1>2 DEF All
<1>6. \A x \in ledger' \ ledger : x.run = r
  BY <1>1 DEF TableInv
<1>7. TableInv'
  <2>1. ASSUME NEW x \in All PROVE RowOK(x)'
    <3>1. RowOK(x) /\ x.run \in Runs /\ phase[x.run] \in {"writing", "comparing", "done"}
      BY <1>1 DEF TableInv, RowOK
    <3>2. phase'[x.run] \in {"writing", "comparing", "done"}
      BY <1>2, <3>1
    <3> QED
      BY <1>3, <3>1, <3>2, RowStays
  <2>2. \A x, y \in All' : (SameIdentity(x, y) \/ SameConflict(x, y) => x = y)
    BY <1>1, <1>5 DEF TableInv
  <2>3. (\A x, y \in All : SameIdentity(x, y) \/ SameConflict(x, y) => x = y)'
    BY <2>2 DEF SameIdentity, SameConflict
  <2>4. \A x \in ledger : phase[x.run] = "done" /\ x.run \in Runs
    BY <1>1 DEF TableInv, All, RowOK
  <2>5. \A x \in ledger' : phase'[x.run] = "done" /\ (x.status = "conflict" => x.with \in ledger')
    BY <1>2, <1>6, <2>4
  <2>6. ASSUME NEW q \in Runs, NEW x \in inserted'[q]
        PROVE  x.run = q /\ (x.status = "conflict" => x.with \in Visible(q)')
    <3>1. q # r /\ x \in inserted[q] /\ Visible(q) \subseteq Visible(q)'
      BY <1>2 DEF Visible
    <3> QED
      BY <1>1, <3>1 DEF TableInv
  <2> QED
    BY <1>5, <2>1, <2>3, <2>5, <2>6 DEF TableInv
<1>8. ASSUME NEW q \in Runs \ {r} PROVE RunInv(q)'
  <2>1. \A x \in ledger' \ ledger : x.run # q
    BY <1>6
  <2> QED
    BY <1>2, <1>3, <2>1, Stays
<1>9. RunInv(r)'
  <2>1. PlanInv(r)'
    <3>1. ASSUME NEW item, ItemOK(r, item) PROVE ItemOK(r, item)'
      BY <1>3, <3>1 DEF ItemOK, Evidence, OfSession
    <3> QED
      BY <1>1, <1>2, <3>1 DEF RunInv, PlanInv, Open
  <2>2. BuiltInv(r)' /\ ProgressInv(r)' /\ CompareInv(r)'
    BY <1>2 DEF BuiltInv, ProgressInv, CompareInv, Open
  <2> QED
    BY <2>1, <2>2 DEF RunInv
<1> QED
  BY <1>4, <1>7, <1>8, <1>9 DEF LedgerInv

(* The commit, answered or not.                                            *)
LEMMA CommitStep ==
    ASSUME LedgerInv, NEW r \in Runs, CommitFinish(r) \/ CommitUnanswered(r)
    PROVE  LedgerInv'
<1>0. PICK b \in BOOLEAN : EndRun(r, b) /\ (b => counts[r].conflict = 0 /\ counts[r].failed = 0)
  <2>1. CASE CommitUnanswered(r)
    BY <2>1 DEF CommitUnanswered
  <2>2. CASE CommitFinish(r)
    <3>1. PICK b : b = (counts[r].conflict = 0 /\ counts[r].failed = 0)
      OBVIOUS
    <3>2. b \in BOOLEAN /\ EndRun(r, b)
      BY <2>2, <3>1 DEF CommitFinish
    <3> QED
      BY <3>1, <3>2
  <2> QED
    BY <2>1, <2>2
<1>1. /\ Open(r) /\ ~Pending(r) /\ LedgerTypeOK /\ TableInv /\ RunInv(r)
      /\ ledger' = ledger \cup inserted[r]
      /\ UNCHANGED <<runTime, offered, startedAt, planned, rows, next, counts, unsaved, snapshots, readAt>>
  BY <1>0 DEF EndRun, Open, LedgerInv
<1>3. ok' = [ok EXCEPT ![r] = b] /\ ok'[r] = b
  BY <1>0, <1>1 DEF EndRun, LedgerTypeOK, OverRuns
<1>4. counts[r].conflict \in Nat /\ counts[r].failed \in Nat
  BY <1>1 DEF LedgerTypeOK, Counts
<1>2. ASSUME NEW i \in DOMAIN rows[r] PROVE Judged(r, i)
  <2>1. i < next[r]
    <3>1. PICK p : p = rows[r]
      OBVIOUS
    <3>2. p \in Seq(Range(p)) /\ i \in DOMAIN p /\ ~(next[r] <= Len(p)) /\ next[r] \in Nat
      BY <1>1, <3>1 DEF RunInv, BuiltInv, Pending, LedgerTypeOK
    <3> QED
      BY <3>2
  <2> QED
    BY <1>1, <2>1 DEF RunInv, ProgressInv
<1>7. Whole(r)'
  <2>1. Visible(r) = ledger' /\ rows' = rows
    BY <1>1 DEF Visible
  <2>2. \A i \in DOMAIN rows'[r] : Filed(rows'[r][i], ledger')
    BY <1>2, <2>1 DEF Judged
  <2> QED
    BY <2>2 DEF Whole, Filed, Accepted
<1>5. DoneInv(r)'
  <2>1. CASE b
    <3>1. ASSUME NEW j \in DOMAIN planned[r], Accepted(readAt[r], planned[r][j].key) = {}
          PROVE  \E x \in Accepted(ledger', planned[r][j].key) : x.content = planned[r][j].content
      <4>1. PICK i \in DOMAIN rows[r] : rows[r][i] = Row(r, planned[r][j])
        BY <1>1, <3>1 DEF RunInv, BuiltInv
      <4>4. PICK x \in Accepted(Visible(r), rows[r][i].key) : x.content = rows[r][i].content /\ rows[r][i].status = "collected"
        <5>1. ~(counts[r].conflict > 0) /\ ~(counts[r].failed > 0)
          BY <1>0, <2>1
        <5> QED
          BY <1>2, <5>1 DEF Judged
      <4>5. rows[r][i].key = planned[r][j].key /\ rows[r][i].content = planned[r][j].content
        BY <4>1, <4>4 DEF Row
      <4> QED
        BY <1>1, <4>4, <4>5 DEF Accepted, Visible
    <3>2. Answered(r)'
      BY <1>1, <3>1 DEF Answered, Accepted
    <3>3. counts'[r].failed = 0 /\ counts'[r].conflict = 0
      BY <1>0, <1>1, <2>1
    <3> QED
      BY <1>3, <1>7, <2>1, <3>2, <3>3 DEF DoneInv
  <2>2. CASE ~b
    BY <1>3, <1>7, <2>2 DEF DoneInv
  <2> QED
    BY <2>1, <2>2
<1>6. \A x \in ledger' : x.status = "conflict" => x.with \in ledger'
  BY <1>1 DEF TableInv, Visible
<1>8. phase[r] \notin {"idle", "done"} /\ phase' = [phase EXCEPT ![r] = "done"] /\ inserted' = [inserted EXCEPT ![r] = {}]
  BY <1>0 DEF EndRun
<1> QED
  BY <1>1, <1>3, <1>5, <1>6, <1>8, EndStep

(* The rollback.                                                           *)
LEMMA RollBackStep ==
    ASSUME LedgerInv, NEW r \in Runs, RollBack(r)
    PROVE  LedgerInv'
<1>1. phase[r] \notin {"idle", "done"} /\ LedgerTypeOK /\ TableInv /\ ledger' = ledger /\ ok'[r] = FALSE
  BY DEF RollBack, LedgerInv, LedgerTypeOK, OverRuns
<1>2. \A x \in ledger' : x.run # r
  BY <1>1 DEF TableInv
<1>3. DoneInv(r)'
  BY <1>1, <1>2 DEF DoneInv, Whole
<1>4. \A x \in ledger' : x.status = "conflict" => x.with \in ledger'
  BY <1>1 DEF TableInv
<1>5. /\ phase' = [phase EXCEPT ![r] = "done"] /\ inserted' = [inserted EXCEPT ![r] = {}] /\ ok' = [ok EXCEPT ![r] = FALSE]
      /\ UNCHANGED <<runTime, offered, startedAt, planned, rows, next, counts, unsaved, snapshots, readAt>>
  BY DEF RollBack
<1> QED
  BY <1>1, <1>3, <1>4, <1>5, EndStep

-----------------------------------------------------------------------------

(* The invariant is inductive.                                             *)
LEMMA LedgerInvHolds == Assumptions => (LedgerSpec => []LedgerInv)
<1> SUFFICES ASSUME Assumptions PROVE LedgerSpec => []LedgerInv
  OBVIOUS
<1>1. LedgerInit => LedgerInv
  <2> SUFFICES ASSUME LedgerInit PROVE LedgerInv
    OBVIOUS
  <2>1. /\ phase = [r \in Runs |-> "idle"] /\ startedAt = [r \in Runs |-> None]
        /\ planned = [r \in Runs |-> <<>>] /\ rows = [r \in Runs |-> <<>>] /\ next = [r \in Runs |-> 1]
        /\ inserted = [r \in Runs |-> {}] /\ ok = [r \in Runs |-> None] /\ unsaved = [r \in Runs |-> {}]
        /\ counts = [r \in Runs |-> [inserted |-> 0, duplicate |-> 0, conflict |-> 0, failed |-> 0]]
        /\ ledger = {} /\ readAt = [r \in Runs |-> {}]
    BY DEF LedgerInit
  <2>2. runTime \in StartTimes
    <3>1. StartTimes \in SUBSET Nat /\ StartTimes # {} /\ runTime = Min(StartTimes)
      BY DEF LedgerInit, Assumptions, LedgerAssumption
    <3>2. \E t \in StartTimes : \A u \in StartTimes : t <= u
      BY <3>1, Least
    <3> QED
      BY <3>1, <3>2 DEF Min
  <2>3. LedgerTypeOK
    BY <2>1, <2>2 DEF LedgerTypeOK, OverRuns, Counts
  <2>4. TableInv
    <3>1. All = {} /\ \A r \in Runs : inserted[r] = {}
      BY <2>1 DEF All
    <3> QED
      BY <2>1, <3>1 DEF TableInv
  <2>5. ASSUME NEW r \in Runs PROVE RunInv(r)
    BY <2>1 DEF RunInv, PlanInv, BuiltInv, ProgressInv, CompareInv, DoneInv, Open
  <2> QED
    BY <2>3, <2>4, <2>5 DEF LedgerInv
<1>2. LedgerInv /\ [LedgerNext]_ledgerVars => LedgerInv'
  <2> SUFFICES ASSUME LedgerInv, [LedgerNext]_ledgerVars PROVE LedgerInv'
    OBVIOUS
  <2>1. CASE Tick
    <3>1. runTime' \in StartTimes /\ UNCHANGED <<runVars, ledger, snapshots>>
      BY <2>1 DEF Tick
    <3> QED
      BY <3>1, TimeStep
  <2>2. CASE Restate \/ UNCHANGED ledgerVars
    <3>1. runTime' \in StartTimes /\ UNCHANGED <<runVars, ledger, snapshots>>
      BY <2>2 DEF Restate, ledgerVars, LedgerInv, LedgerTypeOK
    <3> QED
      BY <3>1, TimeStep
  <2>3. ASSUME NEW r \in Runs, \/ Fetch(r) \/ BeginFinish(r) \/ RecordFailure(r)
                               \/ InsertCollected(r) \/ CompareContents(r)
                               \/ CommitFinish(r) \/ CommitUnanswered(r) \/ RollBack(r)
        PROVE  LedgerInv'
    BY <2>3, FetchStep, BeginStep, FailureStep, InsertStep, CompareStep, CommitStep, RollBackStep
  <2> QED
    BY <2>1, <2>2, <2>3 DEF LedgerNext
<1> QED
  BY <1>1, <1>2, PTL DEF LedgerSpec

(* The invariant is strong enough.                                         *)
LEMMA InvIsSound == LedgerInv => LedgerSound
<1> SUFFICES ASSUME LedgerInv PROVE LedgerSound
  OBVIOUS
<1>1. TableInv /\ LedgerTypeOK /\ \A r \in Runs : RunInv(r)
  BY DEF LedgerInv
<1>2. \A x \in ledger : x \in All /\ RowOK(x) /\ x.run \in Runs
  BY <1>1 DEF TableInv, All, RowOK
<1>3. OneAccepted
  <2>1. /\ \A x, y \in ledger : x.key = y.key /\ x.status = "collected" /\ y.status = "collected" => x = y
        /\ \A x, y \in ledger : x.status = "conflict" /\ y.status = "conflict" /\ x.with = y.with /\ x.content = y.content => x = y
    BY <1>1, <1>2 DEF TableInv, SameIdentity, SameConflict
  <2>2. \A r \in Runs : phase[r] = "comparing" => Accepted(Visible(r), Current(r).key) # {}
    BY <1>1 DEF RunInv, CompareInv
  <2>3. \A x \in ledger : x.status = "conflict" => x.with \in ledger /\ x.with.content # x.content
    BY <1>1, <1>2 DEF TableInv, RowOK
  <2> QED
    BY <2>1, <2>2, <2>3 DEF OneAccepted
<1>4. ReportsTrue
  <2> SUFFICES ASSUME NEW r \in Runs, phase[r] = "done"
               PROVE  /\ EvidenceExit(r) = 0 => \A i \in DOMAIN planned[r] : LET item == planned[r][i] IN
                            \E x \in Accepted(ledger, item.key) : x \in readAt[r] \/ x.content = item.content
                      /\ EvidenceExit(r) = 0 => \A d \in Trading :
                            LET keys == Expected(d, Range(Symbols[r]))
                            IN keys \subseteq {planned[r][i].key : i \in DOMAIN planned[r]} =>
                                 Complete(d, Range(Symbols[r])) \/ \E c \in ledger : c.status = "conflict" /\ c.key \in keys /\ c.run # r
                      /\ (\A x \in ledger : x.run # r) \/ \A i \in DOMAIN rows[r] : Filed(rows[r][i], ledger)
    BY DEF ReportsTrue
  <2>1. DoneInv(r) /\ readAt[r] \subseteq ledger /\ counts[r].conflict \in Nat /\ counts[r].failed \in Nat
    BY <1>1 DEF RunInv, PlanInv, LedgerTypeOK, Counts
  <2>2. EvidenceExit(r) = 0 => ok[r] # FALSE
    <3>1. ok[r] = FALSE => EvidenceExit(r) = 1
      BY DEF EvidenceExit
    <3>2. 1 # 0
      OBVIOUS
    <3> QED
      BY <3>1, <3>2
  <2>3. ASSUME EvidenceExit(r) = 0, NEW i \in DOMAIN planned[r]
        PROVE  \E x \in Accepted(ledger, planned[r][i].key) : x \in readAt[r] \/ x.content = planned[r][i].content
    BY <2>1, <2>2, <2>3 DEF DoneInv, Answered, Accepted
  <2>4. ASSUME EvidenceExit(r) = 0, NEW d \in Trading,
               Expected(d, Range(Symbols[r])) \subseteq {planned[r][i].key : i \in DOMAIN planned[r]},
               ~Complete(d, Range(Symbols[r]))
        PROVE  \E c \in ledger : c.status = "conflict" /\ c.key \in Expected(d, Range(Symbols[r])) /\ c.run # r
    <3>1. PICK x \in Expected(d, Range(Symbols[r])) :
             ~(Accepted(ledger, x) # {} /\ ~\E c \in ledger : c.status = "conflict" /\ c.key = x)
      BY <2>4 DEF Complete
    <3>2. Accepted(ledger, x) # {}
      BY <2>3, <2>4
    <3>3. PICK c \in ledger : c.status = "conflict" /\ c.key = x
      BY <3>1, <3>2
    <3>4. counts[c.run].conflict > 0
      BY <1>2, <3>3 DEF RowOK
    <3>5. counts[r].conflict = 0
      BY <2>1, <2>2, <2>4 DEF DoneInv
    <3> QED
      BY <3>3, <3>4, <3>5
  <2>5. Whole(r)
    BY <2>1 DEF DoneInv
  <2> QED
    BY <2>3, <2>4, <2>5 DEF Whole
<1>5. ConflictNeedsOverlap
  BY <1>2 DEF ConflictNeedsOverlap, RowOK
<1>6. AuditNamesTheLost
  <2>1. ASSUME NEW x \in ledger, x.status = "collected", AuditProblem(x) # None
        PROVE  \E u \in unsaved[x.run] : u = x.content.snapshot
    <3>1. x.content.snapshot # None
      BY <2>1 DEF AuditProblem
    <3>2. ~(x.content.snapshot.key \in DOMAIN snapshots /\ snapshots[x.content.snapshot.key] = x.content.snapshot.hash)
      BY <2>1 DEF AuditProblem
    <3> QED
      BY <1>2, <2>1, <3>1, <3>2 DEF RowOK, Evidence, Kept
  <2>2. ASSUME NEW x \in ledger
        PROVE  /\ x.key[3] \in Trading /\ Start <= x.key[3] /\ Segment(x.key[3], "regular").end <= startedAt[x.run]
               /\ x.status = "collected" => x.content.bars # 0
               /\ x.backfilled => \E d \in Trading : x.key[3] < d /\ d < DayOf(startedAt[x.run])
    BY <1>2 DEF RowOK, OfSession, Evidence
  <2> QED
    BY <2>1, <2>2 DEF AuditNamesTheLost
<1> QED
  BY <1>3, <1>4, <1>5, <1>6 DEF LedgerSound

(* For any runs, symbols, intervals and calendar: whatever runs overlap,   *)
(* time out, die or miss the answer to their COMMIT, one row per identity  *)
(* is accepted, an exit code of 0 is true, a run that is over left all its *)
(* rows or none whatever it reports, only overlapping runs conflict, and   *)
(* the audit names what was lost (EvidenceRun.finish, transaction(),       *)
(* record_collected, technical_evidence_tools.py).                         *)
THEOREM LedgerIsSound == Assumptions => (LedgerSpec => []LedgerSound)
<1>1. LedgerInv => LedgerSound
  BY InvIsSound
<1> QED
  BY <1>1, LedgerInvHolds, PTL

-----------------------------------------------------------------------------
(* The collectors that keep going without Redis.                           *)

Fields == {"pc", "left", "send", "score", "attempt", "since"}
WorkPlaces == {"scan", "remember", "score", "cache", "pending", "send", "mark", "shadow"}
(* Where a worker is with an entry that it has let through its marker.     *)
Where(w, e) == IF worker[w].pc \in WorkPlaces /\ Entry(w) = e THEN worker[w].pc ELSE "away"

Fed(e) == e.family = "fed"
FreshAt(e, t) == e.published # Undated /\ t - e.published <= FedMaxAge
ScoreOK(e, score) == AlertOf(e) => Decision(score) = "ALERT"
Stopped == {"crash", "refused", "redis", "near_duplicate", "unsent", "resent"}
Doubled(e) == {"redis", "answer_lost"} \cup IF Fed(e) THEN {"overlap", "slow", "crash"} ELSE {"expired"}

CollectorTypeOK ==
    /\ EntriesAssumption({feeds}) /\ seconds \in Nat
    /\ DOMAIN worker = Workers /\ DOMAIN telegram = {e.id : e \in Entries}
    /\ \A e \in Entries : telegram[e.id] \in Nat
    /\ \A k \in DOMAIN redis : redis[k].until \in Nat

(* What a worker's place and locals say.                                   *)
Shape(r) == /\ DOMAIN r = Fields /\ r.left \in Seq(Entries) /\ r.send \in BOOLEAN
            /\ r.attempt \in Nat /\ r.since \in Nat /\ r.since <= seconds
PlaceOK(r) ==
    /\ r.pc \in {"idle", "read", "dedupe"} \cup WorkPlaces
    /\ r.pc # "idle" => r.left # <<>>
    /\ r.pc \in {"read", "cache", "pending", "mark"} => Fed(Head(r.left))
    /\ r.pc \in {"scan", "remember"} => Head(r.left).family = "news"
KnowsOK(r) == LET e == Head(r.left) IN
    /\ Fed(e) /\ r.pc \in {"dedupe", "score", "cache", "pending"} => FreshAt(e, r.since)
    /\ r.pc \in {"cache", "pending"} => ScoreOK(e, r.score)
    /\ r.pc = "pending" => r.send
    /\ r.pc = "mark" => telegram[e.id] > 0
    /\ r.pc = "shadow" /\ r.send => \/ telegram[e.id] > 0 \/ ~AlertOf(e)
                                    \/ Excused(e.id, Stopped)
    /\ (r.pc = "shadow" /\ Fed(e) /\ r.send /\ Decision(r.score) = "ALERT" /\ r.attempt = 0) => telegram[e.id] > 0
WorkerOK(r) == Shape(r) /\ PlaceOK(r) /\ (r.pc # "idle" => KnowsOK(r))

(* What the keys of an event say.                                          *)
KeyInv(e) ==
    /\ Processed(e) \in DOMAIN redis => ScoreOK(e, redis[Processed(e)].value)
    /\ Delivered(e) \in DOMAIN redis => telegram[e.id] > 0 /\ redis[Delivered(e)].until > FedMaxAge
SilentInv(e) == Live(Marker(e)) /\ AlertOf(e) /\ telegram[e.id] = 0 /\ (\A w \in Workers : Where(w, e) = "away")
                => Excused(e.id, Stopped)
(* An event that nothing has disturbed: its marker stands as long as it    *)
(* has one, and one worker at most is at it.                               *)
MarkedOnce(e) ==
    /\ telegram[e.id] = 1 \/ (\E w \in Workers : Where(w, e) # "away") => Live(Marker(e))
    /\ \A v, w \in Workers : Where(v, e) # "away" /\ Where(w, e) # "away" => v = w
    /\ \A w \in Workers : Where(w, e) \notin {"away", "shadow"} => telegram[e.id] = 0
(* A Fed event: one worker at most is about to send it or has sent it and  *)
(* not yet said so.                                                        *)
PendingOnce(e) ==
    /\ \A v, w \in Workers : Where(v, e) \in {"send", "mark"} /\ Where(w, e) \in {"send", "mark"} => v = w
    /\ \A w \in Workers : Where(w, e) = "send" => telegram[e.id] = 0
    /\ telegram[e.id] = 1 => (\E w \in Workers : Where(w, e) = "mark") \/ Delivered(e) \in DOMAIN redis
OnceInv(e) == ~Excused(e.id, Doubled(e)) => /\ telegram[e.id] \in {0, 1}
                                            /\ IF Fed(e) THEN PendingOnce(e) ELSE MarkedOnce(e)
EventInv(e) == KeyInv(e) /\ SilentInv(e) /\ OnceInv(e)

CollectorInv == /\ CollectorTypeOK
                /\ \A w \in Workers : WorkerOK(worker[w])
                /\ \A e \in Entries : EventInv(e)
-----------------------------------------------------------------------------

(* The durations the argument rests on.                                    *)
LEMMA TtlLonger == ASSUME CollectorsAssumption
                   PROVE  FedTtl \in Nat /\ FedTtl > FedMaxAge /\ FedMaxAge \in Nat /\ DedupTtl \in Nat \ {0} /\ MaxSends \in Nat \ {0}
<1>1. DedupTtl \in Nat \ {0} /\ FedMaxAge \in Nat \ {0} /\ MaxSends \in Nat \ {0}
  BY DEF CollectorsAssumption
<1> DEFINE S == {DedupTtl, FedMaxAge}
<1>2. \E x \in S : \A y \in S : x >= y
  BY <1>1
<1>3. Max(S) \in S /\ \A y \in S : Max(S) >= y
  BY <1>2 DEF Max
<1> QED
  BY <1>1, <1>3 DEF FedTtl

(* Keys of different kinds, and of different events, are different.        *)
LEMMA KeysApart ==
  \A e, d : /\ Marker(e) \notin {Processed(d), Delivered(d), Headline(d)}
            /\ Processed(e) \notin {Marker(d), Delivered(d), Headline(d)}
            /\ Delivered(e) \notin {Marker(d), Processed(d), Headline(d)}
            /\ Marker(e) = Marker(d) \/ Processed(e) = Processed(d) \/ Delivered(e) = Delivered(d) => e.id = d.id
BY DEF Marker, Processed, Delivered, Headline

KeysOf(e) == {Marker(e), Processed(e), Delivered(e)}
Same(k) == /\ k \in DOMAIN redis' <=> k \in DOMAIN redis
           /\ k \in DOMAIN redis => redis'[k] = redis[k]

(* What a write to Redis does.                                             *)
LEMMA Writing ==
  ASSUME CollectorTypeOK, NEW k, NEW value, NEW ttl \in Nat, redis' = Stored(k, value, ttl)
  PROVE  /\ DOMAIN redis' = DOMAIN redis \cup {k}
         /\ redis'[k].value = value /\ redis'[k].until = seconds + ttl
         /\ \A j : j # k => Same(j)
         /\ \A j \in DOMAIN redis' : redis'[j].until \in Nat
BY DEF CollectorTypeOK, Stored, Same

Calm(w) ==
    /\ feeds' = feeds /\ seconds' = seconds /\ trouble \subseteq trouble'
    /\ DOMAIN worker' = Workers /\ \A v \in Workers \ {w} : worker'[v] = worker[v]
    /\ DOMAIN telegram' = DOMAIN telegram
    /\ \A e \in Entries : telegram'[e.id] \in Nat /\ telegram[e.id] <= telegram'[e.id]
    /\ \A k \in DOMAIN redis' : redis'[k].until \in Nat
Untouched(f) == telegram'[f.id] = telegram[f.id] /\ \A k \in KeysOf(f) : Same(k)

(* A step of one worker leaves what is known of the others.                *)
LEMMA OtherWorkers ==
  ASSUME CollectorInv, NEW w \in Workers, Calm(w), NEW v \in Workers \ {w}
  PROVE  WorkerOK(worker[v])' /\ \A f : Where(v, f)' = Where(v, f)
<1>0. worker'[v] = worker[v] /\ seconds' = seconds /\ Entries' = Entries
  BY DEF Calm, Entries
<1>1. \A f : Where(v, f)' = Where(v, f)
  BY <1>0 DEF Where, Entry
<1>2. Shape(worker[v])' /\ PlaceOK(worker[v])'
  BY <1>0 DEF CollectorInv, WorkerOK, Shape, PlaceOK
<1>3. ASSUME worker[v].pc # "idle" PROVE KnowsOK(worker[v])'
  <2> DEFINE e == Head(worker[v].left)
  <2>1. e \in Entries
    BY <1>3 DEF CollectorInv, WorkerOK, Shape, PlaceOK
  <2>2. KnowsOK(worker[v])
    BY <1>3 DEF CollectorInv, WorkerOK
  <2>3. telegram[e.id] > 0 => telegram'[e.id] > 0
    BY <2>1 DEF Calm, CollectorInv, CollectorTypeOK
  <2>4. AlertOf(e)' <=> AlertOf(e)
    BY <1>0 DEF AlertOf
  <2>5. \A k : Excused(e.id, k) => Excused(e.id, k)'
    BY DEF Calm, Excused
  <2>6. FreshAt(e, worker[v].since)' <=> FreshAt(e, worker[v].since)
    BY <1>0 DEF FreshAt
  <2> QED
    BY <1>0, <2>2, <2>3, <2>4, <2>5 DEF KnowsOK, ScoreOK, FreshAt, Fed
<1> QED
  BY <1>0, <1>1, <1>2, <1>3 DEF WorkerOK

(* An event whose keys, copies and workers a step leaves alone.            *)
LEMMA Aside ==
  ASSUME CollectorInv, NEW w \in Workers, Calm(w), NEW f \in Entries, Untouched(f), Where(w, f)' = Where(w, f)
  PROVE  EventInv(f)'
<1>0. seconds' = seconds /\ telegram'[f.id] = telegram[f.id] /\ EventInv(f)
  BY DEF Calm, Untouched, CollectorInv
<1>1. \A v \in Workers : Where(v, f)' = Where(v, f)
  BY OtherWorkers
<1>2. AlertOf(f)' <=> AlertOf(f)
  BY <1>0 DEF AlertOf
<1>3. \A k : Excused(f.id, k) => Excused(f.id, k)'
  BY DEF Calm, Excused
<1>4. Same(Marker(f)) /\ Same(Processed(f)) /\ Same(Delivered(f))
  BY DEF Untouched, KeysOf
<1>5. Live(Marker(f))' <=> Live(Marker(f))
  BY <1>0, <1>4 DEF Live, Same
<1>6. KeyInv(f)'
  BY <1>0, <1>2, <1>4 DEF EventInv, KeyInv, Same, ScoreOK
<1>7. SilentInv(f)'
  BY <1>0, <1>1, <1>2, <1>3, <1>5 DEF EventInv, SilentInv
<1>8. OnceInv(f)'
  <2>1. SUFFICES ASSUME ~Excused(f.id, Doubled(f)) PROVE OnceInv(f)'
    BY <1>3 DEF OnceInv, Doubled, Fed
  <2>2. PendingOnce(f) => PendingOnce(f)'
    BY <1>0, <1>1, <1>4 DEF PendingOnce, Same
  <2>3. MarkedOnce(f) => MarkedOnce(f)'
    BY <1>0, <1>1, <1>5 DEF MarkedOnce
  <2> QED
    BY <1>0, <2>1, <2>2, <2>3 DEF EventInv, OnceInv, Fed
<1> QED
  BY <1>6, <1>7, <1>8 DEF EventInv

(* So a worker's step is to be looked at for itself and for its entry.     *)
LEMMA StepHolds ==
  ASSUME CollectorInv, NEW w \in Workers, Calm(w), WorkerOK(worker[w])',
         \A f \in Entries : EventInv(f)' \/ (Untouched(f) /\ Where(w, f)' = Where(w, f))
  PROVE  CollectorInv'
<1>0. Entries' = Entries /\ feeds' = feeds /\ seconds' = seconds
  BY DEF Entries, Calm
<1>1. CollectorTypeOK'
  BY <1>0 DEF CollectorInv, CollectorTypeOK, Calm
<1>2. \A v \in Workers : WorkerOK(worker[v])'
  BY OtherWorkers
<1>3. \A f \in Entries : EventInv(f)'
  BY Aside
<1> QED
  BY <1>0, <1>1, <1>2, <1>3 DEF CollectorInv

(* A worker that is not idle is at an entry of its feed.                   *)
LEMMA AtEntry ==
  ASSUME CollectorInv, NEW w \in Workers, worker[w].pc # "idle"
  PROVE  /\ Entry(w) \in Entries /\ worker[w].left # <<>> /\ worker[w].left \in Seq(Entries)
         /\ Shape(worker[w]) /\ PlaceOK(worker[w]) /\ KnowsOK(worker[w])
         /\ \A f \in Entries : f # Entry(w) => Where(w, f) = "away" /\ f.id # Entry(w).id
         /\ Entry(w).family \in {"news", "sec", "fed"}
<1>1. /\ WorkerOK(worker[w]) /\ EntriesAssumption({feeds}) /\ Entries = EntriesIn(feeds)
  BY DEF CollectorInv, CollectorTypeOK, Entries
<1>2. Entry(w) \in Entries
  BY <1>1 DEF WorkerOK, Shape, PlaceOK, Entry
<1> QED
  BY <1>1, <1>2 DEF WorkerOK, Shape, PlaceOK, EntriesAssumption, Where

(* A worker at the start of an entry, or idle, is at no entry yet.         *)
LEMMA AtTheStart ==
  ASSUME NEW w \in Workers, Shape(worker[w])', worker'[w].pc = First(worker'[w].left)
  PROVE  WorkerOK(worker[w])' /\ \A f : Where(w, f)' = "away"
<1>1. /\ worker'[w].pc \in {"idle", "read", "dedupe"}
      /\ worker'[w].pc # "idle" => worker'[w].left # <<>>
      /\ worker'[w].pc = "read" => Fed(Head(worker'[w].left))
      /\ worker'[w].pc = "dedupe" => ~Fed(Head(worker'[w].left))
  BY DEF First, Fed
<1>2. PlaceOK(worker[w])'
  BY <1>1 DEF PlaceOK
<1>3. KnowsOK(worker[w])'
  BY <1>1 DEF KnowsOK, Fed
<1>4. \A f : Where(w, f)' = "away"
  BY <1>1 DEF Where, WorkPlaces
<1> QED
  BY <1>2, <1>3, <1>4 DEF WorkerOK

(* Going on to the next entry, or to the end of the cycle.                 *)
LEMMA Advance ==
  ASSUME CollectorInv, NEW w \in Workers, worker[w].pc # "idle", NextEntry(w),
         feeds' = feeds, seconds' = seconds
  PROVE  /\ WorkerOK(worker[w])' /\ \A f : Where(w, f)' = "away"
         /\ DOMAIN worker' = Workers /\ \A v \in Workers \ {w} : worker'[v] = worker[v]
<1>0. DOMAIN worker = Workers /\ Entries' = Entries
  BY DEF CollectorInv, CollectorTypeOK, Entries
<1>1. /\ worker'[w] = [worker[w] EXCEPT !.left = Tail(worker[w].left), !.pc = First(Tail(worker[w].left)), !.attempt = 0]
      /\ DOMAIN worker' = Workers /\ \A v \in Workers \ {w} : worker'[v] = worker[v]
  BY <1>0 DEF NextEntry
<1>2. Shape(worker[w]) /\ worker[w].left # <<>> /\ worker[w].left \in Seq(Entries)
  BY AtEntry
<1>3. /\ DOMAIN worker'[w] = Fields /\ worker'[w].left = Tail(worker[w].left) /\ worker'[w].pc = First(Tail(worker[w].left))
      /\ worker'[w].attempt = 0 /\ worker'[w].send = worker[w].send /\ worker'[w].since = worker[w].since
  BY <1>1, <1>2 DEF Shape, Fields
<1>4. Tail(worker[w].left) \in Seq(Entries)
  BY <1>2
<1>5. Shape(worker[w])'
  BY <1>0, <1>2, <1>3, <1>4 DEF Shape
<1> QED
  BY <1>1, <1>3, <1>5, AtTheStart

(* A cycle begins.                                                         *)
LEMMA StartStep == ASSUME CollectorInv, NEW w \in Workers, StartCycle(w) PROVE CollectorInv'
<1>0. DOMAIN worker = Workers /\ EntriesAssumption({feeds}) /\ feeds' = feeds /\ seconds' = seconds /\ Entries' = Entries /\ seconds \in Nat
  BY DEF CollectorInv, CollectorTypeOK, StartCycle, Entries
<1>1. PICK send \in BOOLEAN : worker' = [worker EXCEPT ![w] = [Idle EXCEPT !.left = feeds[w], !.pc = First(feeds[w]), !.send = send]]
  BY DEF StartCycle
<1>2. /\ worker'[w] = [Idle EXCEPT !.left = feeds[w], !.pc = First(feeds[w]), !.send = send]
      /\ DOMAIN worker' = Workers /\ \A v \in Workers \ {w} : worker'[v] = worker[v]
  BY <1>0, <1>1
<1>3. /\ DOMAIN worker'[w] = Fields /\ worker'[w].left = feeds[w] /\ worker'[w].pc = First(feeds[w])
      /\ worker'[w].send = send /\ worker'[w].attempt = 0 /\ worker'[w].since = 0
  BY <1>2 DEF Idle, Fields
<1>4. feeds[w] \in Seq(Entries)
  BY <1>0 DEF EntriesAssumption, Entries
<1>5. Shape(worker[w])'
  BY <1>0, <1>3, <1>4 DEF Shape
<1>6. WorkerOK(worker[w])' /\ \A f : Where(w, f)' = "away"
  BY <1>3, <1>5, AtTheStart
<1>7. \A f : Where(w, f) = "away"
  BY DEF Where, WorkPlaces, StartCycle, At
<1>8. Calm(w)
  BY <1>0, <1>2 DEF Calm, StartCycle, Sure, CollectorInv, CollectorTypeOK
<1>9. \A f \in Entries : Untouched(f) /\ Where(w, f)' = Where(w, f)
  BY <1>6, <1>7 DEF Untouched, Same, StartCycle
<1> QED
  BY <1>6, <1>8, <1>9, StepHolds

(* A step of a worker that stays at its entry, and says where it goes.     *)
Remains(w) ==
    /\ DOMAIN worker' = Workers /\ \A v \in Workers \ {w} : worker'[v] = worker[v]
    /\ DOMAIN worker'[w] = Fields /\ worker'[w].left = worker[w].left /\ worker'[w].send = worker[w].send
PlaceOf(pc) == IF pc \in WorkPlaces THEN pc ELSE "away"

(* Such a worker is at the same entry after the step, and at no other.     *)
LEMMA Staying ==
  ASSUME CollectorInv, NEW w \in Workers, worker[w].pc # "idle", Remains(w), feeds' = feeds
  PROVE  /\ Entries' = Entries /\ Entry(w)' = Entry(w) /\ Entry(w) = Head(worker[w].left) /\ Entry(w) = Head(worker'[w].left)
         /\ Where(w, Entry(w)) = PlaceOf(worker[w].pc) /\ Where(w, Entry(w))' = PlaceOf(worker'[w].pc)
         /\ \A f \in Entries : f # Entry(w) => Where(w, f)' = Where(w, f)
<1>1. Entries' = Entries /\ Entry(w)' = Entry(w) /\ Entry(w) = Head(worker[w].left) /\ Entry(w) = Head(worker'[w].left)
  BY DEF Entries, Entry, Remains
<1> QED
  BY <1>1 DEF Where, PlaceOf

(* Going to another place with everything else kept.                       *)
LEMMA Going ==
  ASSUME CollectorInv, NEW w \in Workers, worker[w].pc # "idle", NEW pc, Go(w, pc), feeds' = feeds, seconds' = seconds
  PROVE  /\ Remains(w) /\ Shape(worker[w])' /\ worker'[w].pc = pc /\ worker'[w].score = worker[w].score
         /\ worker'[w].attempt = worker[w].attempt /\ worker'[w].since = worker[w].since
<1>1. DOMAIN worker = Workers /\ Entries' = Entries /\ Shape(worker[w])
  BY AtEntry DEF CollectorInv, CollectorTypeOK, Entries
<1>2. worker' = [worker EXCEPT ![w].pc = pc]
  BY DEF Go
<1>3. Remains(w) /\ worker'[w] = [worker[w] EXCEPT !.pc = pc]
  BY <1>1, <1>2 DEF Remains, Shape
<1>4. /\ worker'[w].pc = pc /\ worker'[w].score = worker[w].score
      /\ worker'[w].attempt = worker[w].attempt /\ worker'[w].since = worker[w].since
  BY <1>1, <1>3 DEF Shape, Fields
<1>5. Shape(worker[w])'
  BY <1>1, <1>3, <1>4 DEF Shape, Remains
<1> QED
  BY <1>3, <1>4, <1>5

(* A Redis error at an event excuses what follows from it.                 *)
LEMMA RedisTrouble ==
  ASSUME NEW e, <<e.id, "redis">> \in trouble', KeyInv(e)'
  PROVE  EventInv(e)'
<1>1. Excused(e.id, Stopped)' /\ Excused(e.id, Doubled(e))'
  BY DEF Excused, Stopped, Doubled
<1> QED
  BY <1>1 DEF EventInv, SilentInv, OnceInv, Doubled, Fed

(* What a failure adds to the log.                                         *)
LEMMA Blaming == ASSUME NEW w, NEW kind, Blame(w, kind) PROVE <<Entry(w).id, kind>> \in trouble' /\ trouble \subseteq trouble'
BY DEF Blame
(* And what a remark adds.                                                 *)
LEMMA Noting == ASSUME NEW w, NEW kind, Note(w, kind) PROVE <<Entry(w).id, kind>> \in trouble' /\ trouble \subseteq trouble'
BY DEF Note

(* A worker moves on at an event, or leaves it, with keys and channel kept. *)
LEMMA Within ==
  ASSUME CollectorInv, NEW w \in Workers, Calm(w), NEW e \in Entries, Untouched(e),
         Where(w, e) # "away" \/ Fed(e),
         Where(w, e)' = "away" => SilentInv(e)',
         Where(w, e)' \in {"away", "shadow"} \/ Where(w, e) # "shadow",
         Fed(e) => /\ Where(w, e)' \in {"send", "mark"} => Where(w, e) = Where(w, e)'
                   /\ Where(w, e) = "mark" => Where(w, e)' = "mark"
  PROVE  EventInv(e)'
<1>0. seconds' = seconds /\ telegram'[e.id] = telegram[e.id] /\ EventInv(e)
  BY DEF Calm, Untouched, CollectorInv
<1>1. \A v \in Workers \ {w} : Where(v, e)' = Where(v, e)
  BY OtherWorkers
<1>2. AlertOf(e)' <=> AlertOf(e)
  BY <1>0 DEF AlertOf
<1>3. \A k : Excused(e.id, k) => Excused(e.id, k)'
  BY DEF Calm, Excused
<1>4. Same(Marker(e)) /\ Same(Processed(e)) /\ Same(Delivered(e))
  BY DEF Untouched, KeysOf
<1>5. Live(Marker(e))' <=> Live(Marker(e))
  BY <1>0, <1>4 DEF Live, Same
<1>6. KeyInv(e)'
  BY <1>0, <1>2, <1>4 DEF EventInv, KeyInv, Same, ScoreOK
<1>7. SilentInv(e)'
  BY DEF SilentInv
<1>8. OnceInv(e)'
  <2>1. SUFFICES ASSUME ~Excused(e.id, Doubled(e)) PROVE OnceInv(e)'
    BY <1>3 DEF OnceInv, Doubled, Fed
  <2>2. ASSUME Fed(e), PendingOnce(e) PROVE PendingOnce(e)'
    BY <1>0, <1>1, <1>4, <2>2 DEF PendingOnce, Same
  <2>3. ASSUME ~Fed(e), MarkedOnce(e) PROVE MarkedOnce(e)'
    BY <1>0, <1>1, <1>5, <2>3 DEF MarkedOnce
  <2> QED
    BY <1>0, <2>1, <2>2, <2>3 DEF EventInv, OnceInv, Fed
<1> QED
  BY <1>6, <1>7, <1>8 DEF EventInv

(* While a worker is at an event nothing need be said of its silence.      *)
LEMMA Attended == ASSUME NEW w \in Workers, NEW e, Where(w, e)' # "away" PROVE SilentInv(e)'
BY DEF SilentInv

(* The step of a worker that stays at its entry and writes no key of       *)
(* another event.                                                          *)
LEMMA StayHolds ==
  ASSUME CollectorInv, NEW w \in Workers, worker[w].pc # "idle", Remains(w), Calm(w),
         WorkerOK(worker[w])', NEW e \in Entries, e = Entry(w), EventInv(e)',
         \A f \in Entries : f # e => Untouched(f)
  PROVE  CollectorInv'
<1>1. feeds' = feeds
  BY DEF Calm
<1>2. \A f \in Entries : EventInv(f)' \/ (Untouched(f) /\ Where(w, f)' = Where(w, f))
  BY <1>1, Staying
<1> QED
  BY <1>2, StepHolds

(* A step that leaves the channel alone and at most writes one key.        *)
Alone(w) == /\ feeds' = feeds /\ seconds' = seconds /\ telegram' = telegram /\ trouble \subseteq trouble'
            /\ DOMAIN worker' = Workers /\ \A v \in Workers \ {w} : worker'[v] = worker[v]
(* Such a step without a write disturbs nothing.                           *)
LEMMA Quiet ==
  ASSUME CollectorInv, NEW w \in Workers, Alone(w), redis' = redis
  PROVE  Calm(w) /\ \A f : Untouched(f)
BY DEF Calm, Untouched, Alone, Same, CollectorInv, CollectorTypeOK

(* One with a write disturbs only the event whose key it is.               *)
LEMMA Keeping ==
  ASSUME CollectorInv, NEW w \in Workers, Alone(w), NEW k, NEW value, NEW ttl \in Nat, redis' \in {redis, Stored(k, value, ttl)}
  PROVE  /\ Calm(w) /\ \A j : j # k => Same(j)
         /\ \A f \in Entries : k \notin KeysOf(f) => Untouched(f)
<1>1. CASE redis' = redis
  BY <1>1, Quiet DEF Same
<1>2. CASE redis' = Stored(k, value, ttl)
  <2>1. (\A j : j # k => Same(j)) /\ \A j \in DOMAIN redis' : redis'[j].until \in Nat
    BY <1>2, Writing DEF CollectorInv
  <2>2. Calm(w)
    BY <2>1 DEF Calm, Alone, CollectorInv, CollectorTypeOK
  <2> QED
    BY <2>1, <2>2 DEF Untouched, Alone
<1> QED
  BY <1>1, <1>2

(* The keys of an entry are no keys of another.                            *)
LEMMA OwnKeys ==
  ASSUME CollectorInv, NEW w \in Workers, worker[w].pc # "idle", NEW f \in Entries, f # Entry(w)
  PROVE  Marker(Entry(w)) \notin KeysOf(f) /\ Processed(Entry(w)) \notin KeysOf(f) /\ Delivered(Entry(w)) \notin KeysOf(f)
BY AtEntry, KeysApart DEF KeysOf
(* And a headline's key is no event's.                                     *)
LEMMA NoKeys == \A e, f : Headline(e) \notin KeysOf(f)
BY KeysApart DEF KeysOf

(* A worker that goes on to the next entry and leaves the keys alone.      *)
LEMMA LeaveHolds ==
  ASSUME CollectorInv, NEW w \in Workers, worker[w].pc # "idle", NextEntry(w), redis' = redis, telegram' = telegram,
         feeds' = feeds, seconds' = seconds, trouble \subseteq trouble',
         NEW e \in Entries, e = Entry(w),
         Where(w, e) # "away" => worker[w].pc # "mark" /\ (Excused(e.id, Stopped)' \/ telegram[e.id] > 0 \/ ~AlertOf(e))
  PROVE  CollectorInv'
<1>1. /\ WorkerOK(worker[w])' /\ \A f : Where(w, f)' = "away"
      /\ DOMAIN worker' = Workers /\ \A v \in Workers \ {w} : worker'[v] = worker[v]
  BY Advance
<1>2. Calm(w) /\ \A f : Untouched(f)
  BY <1>1, Quiet DEF Alone
<1>3. telegram[e.id] \in Nat /\ \A f \in Entries : f # e => Where(w, f) = "away"
  BY AtEntry DEF CollectorInv, CollectorTypeOK
<1>4. CASE Where(w, e) = "away"
  BY <1>1, <1>2, <1>3, <1>4, StepHolds
<1>5. CASE Where(w, e) # "away"
  <2>0. worker[w].pc # "mark" /\ (Excused(e.id, Stopped)' \/ telegram[e.id] > 0 \/ ~AlertOf(e))
    BY <1>5
  <2>1. AlertOf(e)' <=> AlertOf(e)
    BY DEF AlertOf
  <2>2. SilentInv(e)'
    BY <1>3, <2>0, <2>1 DEF SilentInv
  <2>3. Where(w, e) # "mark"
    BY <2>0 DEF Where
  <2>4. EventInv(e)'
    BY <1>1, <1>2, <1>3, <1>5, <2>2, <2>3, Within
  <2> QED
    BY <1>1, <1>2, <1>3, <2>4, StepHolds
<1> QED
  BY <1>4, <1>5

(* The marker is set, or found, or Redis fails.                            *)
LEMMA DedupeStep == ASSUME CollectorsAssumption, CollectorInv, NEW w \in Workers, Dedupe(w) PROVE CollectorInv'
<1>a. /\ worker[w].pc = "dedupe" /\ feeds' = feeds /\ seconds' = seconds /\ telegram' = telegram
      /\ DedupTtl \in Nat /\ DedupTtl > 0 /\ seconds \in Nat
  BY TtlLonger DEF Dedupe, At, storeOnly, CollectorInv, CollectorTypeOK
<1>0. PICK e \in Entries : e = Entry(w)
  BY <1>a, AtEntry
<1> DEFINE to == IF e.family = "news" THEN "scan" ELSE "score"
           marked == Stored(Marker(e), "1", DedupTtl)
<1>1. /\ Shape(worker[w]) /\ PlaceOK(worker[w]) /\ KnowsOK(worker[w]) /\ telegram[e.id] \in Nat
      /\ EventInv(e) /\ worker[w].left # <<>> /\ e = Head(worker[w].left)
  BY <1>a, <1>0, AtEntry DEF CollectorInv, CollectorTypeOK, Entry
<1>2. Where(w, e) = "away"
  BY <1>a, <1>0 DEF Where, WorkPlaces
<1>3. CASE NextEntry(w) /\ Sure /\ UNCHANGED redis
  BY <1>a, <1>0, <1>2, <1>3, LeaveHolds DEF Sure
<1>4. ASSUME Go(w, to), trouble \subseteq trouble', redis' \in {redis, marked},
             <<e.id, "redis">> \in trouble' \/ (~Live(Marker(e)) /\ redis' = marked)
      PROVE  CollectorInv'
  <2>1. /\ Remains(w) /\ Shape(worker[w])' /\ worker'[w].pc = to /\ worker'[w].since = worker[w].since
    BY <1>a, <1>0, <1>4, Going
  <2>2. Alone(w)
    BY <1>a, <1>0, <1>4, <2>1 DEF Alone, Remains
  <2>3. Calm(w) /\ (\A j : j # Marker(e) => Same(j)) /\ \A f \in Entries : f # e => Untouched(f)
    BY <1>a, <1>0, <1>4, <2>2, Keeping, OwnKeys
  <2>4. Entry(w)' = e /\ e = Head(worker'[w].left) /\ Where(w, e)' = to
    BY <1>a, <1>0, <2>1, Staying DEF PlaceOf, WorkPlaces
  <2>5. WorkerOK(worker[w])'
    <3>1. PlaceOK(worker[w])'
      BY <1>0, <1>1, <2>1, <2>4 DEF PlaceOK, WorkPlaces, Remains
    <3>2. KnowsOK(worker[w])'
      BY <1>a, <1>0, <1>1, <2>1, <2>4 DEF KnowsOK, FreshAt, Fed
    <3> QED
      BY <2>1, <3>1, <3>2 DEF WorkerOK
  <2>6. KeyInv(e)'
    <3>1. Same(Processed(e)) /\ Same(Delivered(e)) /\ (AlertOf(e)' <=> AlertOf(e))
      BY <1>a, <1>0, <2>3, KeysApart DEF AlertOf
    <3> QED
      BY <1>a, <1>0, <1>1, <3>1 DEF EventInv, KeyInv, Same, ScoreOK
  <2>7. CASE <<e.id, "redis">> \in trouble'
    <3>1. EventInv(e)'
      BY <2>6, <2>7, RedisTrouble
    <3> QED
      BY <1>a, <1>0, <2>1, <2>3, <2>4, <2>5, <3>1, StayHolds
  <2>8. CASE ~Live(Marker(e)) /\ redis' = marked
    <3>1. SilentInv(e)'
      BY <2>4, Attended
    <3>2. Live(Marker(e))'
      <4>1. CollectorTypeOK
        BY DEF CollectorInv
      <4>2. Marker(e) \in DOMAIN redis' /\ redis'[Marker(e)].until = seconds + DedupTtl
        BY <1>a, <2>8, <4>1, Writing
      <4> QED
        BY <1>a, <4>2 DEF Live
    <3>3. \A v \in Workers \ {w} : Where(v, e)' = Where(v, e)
      BY <2>3, OtherWorkers
    <3>4. OnceInv(e)'
      <4>1. SUFFICES ASSUME ~Excused(e.id, Doubled(e))' PROVE (OnceInv(e))'
        BY DEF OnceInv
      <4>2. ~Excused(e.id, Doubled(e))
        BY <1>4, <4>1 DEF Excused, Doubled, Fed
      <4>3. ASSUME Fed(e) PROVE PendingOnce(e)'
        <5>1. Same(Delivered(e)) /\ to = "score"
          BY <2>3, <4>3, KeysApart DEF Fed
        <5> QED
          BY <1>a, <1>0, <1>1, <1>2, <2>4, <3>3, <4>2, <4>3, <5>1 DEF EventInv, OnceInv, PendingOnce, Same
      <4>4. ASSUME ~Fed(e) PROVE MarkedOnce(e)' /\ telegram[e.id] = 0
        BY <1>a, <1>0, <1>1, <2>4, <2>8, <3>2, <3>3, <4>2, <4>4 DEF EventInv, OnceInv, MarkedOnce
      <4> QED
        BY <1>a, <1>0, <1>1, <4>2, <4>3, <4>4 DEF EventInv, OnceInv, Fed
    <3>5. EventInv(e)'
      BY <2>6, <3>1, <3>4 DEF EventInv
    <3> QED
      BY <1>a, <1>0, <2>1, <2>3, <2>4, <2>5, <3>5, StayHolds
  <2> QED
    BY <1>4, <2>7, <2>8
<1>5. CASE ~Live(Marker(e)) /\ redis' = marked /\ Go(w, to) /\ Sure
  BY <1>4, <1>5 DEF Sure
<1>6. CASE redis' \in {redis, IF Live(Marker(e)) THEN redis ELSE marked} /\ Go(w, to) /\ Blame(w, "redis")
  BY <1>0, <1>4, <1>6, Blaming
<1>7. CASE ~Live(Marker(e)) /\ redis' = marked /\ NextEntry(w) /\ Blame(w, "resent")
  <2>1. /\ WorkerOK(worker[w])' /\ \A f : Where(w, f)' = "away"
        /\ DOMAIN worker' = Workers /\ \A v \in Workers \ {w} : worker'[v] = worker[v]
    BY <1>a, <1>7, Advance
  <2>2. <<e.id, "resent">> \in trouble' /\ trouble \subseteq trouble'
    BY <1>0, <1>7, Blaming
  <2>3. Calm(w) /\ (\A j : j # Marker(e) => Same(j)) /\ \A f \in Entries : f # e => Untouched(f)
    BY <1>a, <1>0, <1>7, <2>1, <2>2, Keeping, OwnKeys DEF Alone
  <2>4. \A v \in Workers : Where(v, e)' = Where(v, e)
    BY <1>2, <2>1, <2>3, OtherWorkers
  <2>5. KeyInv(e)'
    <3>1. Same(Processed(e)) /\ Same(Delivered(e)) /\ (AlertOf(e)' <=> AlertOf(e))
      BY <1>a, <1>0, <2>3, KeysApart DEF AlertOf
    <3> QED
      BY <1>a, <1>0, <1>1, <3>1 DEF EventInv, KeyInv, Same, ScoreOK
  <2>6. SilentInv(e)'
    BY <2>2 DEF SilentInv, Excused, Stopped
  <2>7. OnceInv(e)'
    <3>1. SUFFICES ASSUME ~Excused(e.id, Doubled(e))' PROVE (OnceInv(e))'
      BY DEF OnceInv
    <3>2. ~Excused(e.id, Doubled(e))
      BY <2>2, <3>1 DEF Excused, Doubled, Fed
    <3>3. ASSUME Fed(e) PROVE PendingOnce(e)'
      <4>1. Same(Delivered(e))
        BY <2>3, KeysApart
      <4> QED
        BY <1>a, <1>1, <2>4, <3>2, <3>3, <4>1 DEF EventInv, OnceInv, PendingOnce, Same
    <3>4. ASSUME ~Fed(e) PROVE MarkedOnce(e)'
      BY <1>a, <1>1, <1>7, <2>4, <3>2, <3>4 DEF EventInv, OnceInv, MarkedOnce
    <3> QED
      BY <1>a, <1>1, <3>2, <3>3, <3>4 DEF EventInv, OnceInv, Fed
  <2>8. EventInv(e)'
    BY <2>5, <2>6, <2>7 DEF EventInv
  <2>9. \A f \in Entries : f # e => Where(w, f)' = Where(w, f)
    BY <1>a, <1>0, <2>1, AtEntry
  <2> QED
    BY <1>a, <2>1, <2>3, <2>8, <2>9, StepHolds
<1> QED
  BY <1>0, <1>3, <1>5, <1>6, <1>7 DEF Dedupe

(* A worker that goes on at its entry with the keys of every event kept.   *)
LEMMA GoHolds ==
  ASSUME CollectorInv, NEW w \in Workers, NEW e \in Entries, e = Entry(w), Where(w, e) # "away" \/ Fed(e),
         Remains(w), worker[w].pc # "idle", Calm(w), WorkerOK(worker[w])', \A f \in Entries : Untouched(f),
         worker'[w].pc \in WorkPlaces, worker[w].pc # "shadow",
         Fed(e) => /\ worker'[w].pc \in {"send", "mark"} => worker[w].pc = worker'[w].pc
                   /\ worker[w].pc # "mark"
  PROVE  CollectorInv'
<1>1. /\ Where(w, e)' = worker'[w].pc /\ Where(w, e) = PlaceOf(worker[w].pc)
      /\ worker'[w].pc # "away"
  BY Staying DEF PlaceOf, Calm, WorkPlaces
<1>2. SilentInv(e)'
  BY <1>1, Attended
<1>3. EventInv(e)'
  BY <1>1, <1>2, Within DEF PlaceOf, WorkPlaces
<1> QED
  BY <1>3, StayHolds

(* A headline like an earlier one stops the event.                         *)
LEMMA ScanStep == ASSUME CollectorInv, NEW w \in Workers, Scan(w) PROVE CollectorInv'
<1>a. /\ worker[w].pc = "scan" /\ feeds' = feeds /\ seconds' = seconds /\ telegram' = telegram /\ redis' = redis
  BY DEF Scan, At, storeOnly
<1>0. PICK e \in Entries : e = Entry(w)
  BY <1>a, AtEntry
<1>1. /\ PlaceOK(worker[w]) /\ KnowsOK(worker[w]) /\ e = Head(worker[w].left) /\ worker[w].left # <<>> /\ ~Fed(e)
  BY <1>a, <1>0, AtEntry DEF PlaceOK, Entry, Fed
<1>2. Where(w, e) = "scan"
  BY <1>a, <1>0 DEF Where, WorkPlaces
<1>3. CASE NextEntry(w) /\ Note(w, "near_duplicate")
  <2>1. <<e.id, "near_duplicate">> \in trouble' /\ trouble \subseteq trouble'
    BY <1>0, <1>3, Noting
  <2>2. Excused(e.id, Stopped)'
    BY <2>1 DEF Excused, Stopped
  <2> QED
    BY <1>a, <1>0, <1>3, <2>1, <2>2, LeaveHolds
<1>4. ASSUME NEW pc \in {"remember", "score"}, Go(w, pc), trouble \subseteq trouble' PROVE CollectorInv'
  <2>1. Remains(w) /\ Shape(worker[w])' /\ worker'[w].pc = pc
    BY <1>a, <1>4, Going
  <2>2. Calm(w) /\ \A f \in Entries : Untouched(f)
    BY <1>a, <1>4, <2>1, Quiet DEF Alone, Remains
  <2>3. WorkerOK(worker[w])'
    BY <1>1, <1>a, <2>1 DEF WorkerOK, PlaceOK, KnowsOK, WorkPlaces, Remains, Fed
  <2> QED
    BY <1>a, <1>0, <1>1, <1>2, <2>1, <2>2, <2>3, GoHolds DEF WorkPlaces
<1> QED
  BY <1>3, <1>4, Blaming DEF Scan, Sure

(* The headline is written: no key of an event.                            *)
LEMMA RememberStep == ASSUME CollectorsAssumption, CollectorInv, NEW w \in Workers, Remember(w) PROVE CollectorInv'
<1>a. /\ worker[w].pc = "remember" /\ feeds' = feeds /\ seconds' = seconds /\ telegram' = telegram /\ trouble \subseteq trouble'
      /\ redis' \in {redis, Stored(Headline(Entry(w)), Entry(w).like, HeadlineTtl)} /\ Go(w, "score")
  BY Blaming DEF Remember, At, storeOnly, Sure
<1>0. PICK e \in Entries : e = Entry(w)
  BY <1>a, AtEntry
<1>1. /\ PlaceOK(worker[w]) /\ e = Head(worker[w].left) /\ worker[w].left # <<>> /\ ~Fed(e)
  BY <1>a, <1>0, AtEntry DEF PlaceOK, Entry, Fed
<1>2. Where(w, e) = "remember"
  BY <1>a, <1>0 DEF Where, WorkPlaces
<1>3. Remains(w) /\ Shape(worker[w])' /\ worker'[w].pc = "score"
  BY <1>a, Going
<1>4. Calm(w) /\ \A f \in Entries : Untouched(f)
  BY <1>a, <1>3, Keeping, NoKeys DEF Alone, Remains, CollectorsAssumption
<1>5. WorkerOK(worker[w])'
  BY <1>1, <1>a, <1>3 DEF WorkerOK, PlaceOK, KnowsOK, WorkPlaces, Remains, Fed
<1> QED
  BY <1>a, <1>0, <1>1, <1>2, <1>3, <1>4, <1>5, GoHolds DEF WorkPlaces

(* The score decides, and whatever the penalty an alert is an alert.       *)
LEMMA ScoreStep == ASSUME CollectorInv, NEW w \in Workers, ScoreEntry(w) PROVE CollectorInv'
<1>a. /\ worker[w].pc = "score" /\ feeds' = feeds /\ seconds' = seconds /\ telegram' = telegram /\ redis' = redis /\ trouble' = trouble
  BY DEF ScoreEntry, At, storeOnly, Sure
<1>0. PICK e \in Entries : e = Entry(w)
  BY <1>a, AtEntry
<1>1. /\ PlaceOK(worker[w]) /\ KnowsOK(worker[w]) /\ Shape(worker[w]) /\ e = Head(worker[w].left) /\ worker[w].left # <<>>
      /\ DOMAIN worker = Workers /\ Entries' = Entries /\ seconds \in Nat
  BY <1>a, <1>0, AtEntry DEF Entry, CollectorInv, CollectorTypeOK, Entries
<1>2. Where(w, e) = "score"
  BY <1>a, <1>0 DEF Where, WorkPlaces
<1> DEFINE place(score) == IF e.family = "fed" THEN "cache"
                           ELSE IF worker[w].send /\ Decision(score) = "ALERT" THEN "send" ELSE "shadow"
<1>3. PICK penalty \in Penalties \cup {0} :
        worker' = [worker EXCEPT ![w].score = Adjusted(Score(e, seconds), penalty), ![w].pc = place(Adjusted(Score(e, seconds), penalty))]
  BY <1>0 DEF ScoreEntry
<1>b. PICK score : score = Adjusted(Score(e, seconds), penalty)
  OBVIOUS
<1>4. AlertOf(e) => Decision(score) = "ALERT"
  BY <1>1, <1>b DEF AlertOf
<1>5. PICK pc : pc = place(score)
  OBVIOUS
<1>c. /\ worker'[w] = [worker[w] EXCEPT !.score = score, !.pc = pc]
      /\ DOMAIN worker' = Workers /\ \A v \in Workers \ {w} : worker'[v] = worker[v]
  BY <1>1, <1>3, <1>b, <1>5
<1>6. /\ Remains(w) /\ worker'[w].score = score /\ worker'[w].pc = pc /\ worker'[w].since = worker[w].since
      /\ worker'[w].attempt = worker[w].attempt
  BY <1>1, <1>c DEF Remains, Shape, Fields
<1>7. Calm(w) /\ \A f \in Entries : Untouched(f)
  BY <1>a, <1>6, Quiet DEF Alone, Remains
<1>8. AlertOf(e)' <=> AlertOf(e)
  BY <1>a DEF AlertOf
<1>9. Shape(worker[w])'
  BY <1>a, <1>1, <1>6 DEF Shape, Remains
<1>10. pc \in {"cache", "send", "shadow"} /\ (pc = "cache" <=> Fed(e)) /\ (worker[w].send /\ pc = "shadow" => Decision(score) # "ALERT")
  BY <1>5 DEF Fed
<1>11. PlaceOK(worker[w])' /\ e = Head(worker'[w].left)
  BY <1>1, <1>6, <1>10 DEF PlaceOK, WorkPlaces, Remains
<1>12. KnowsOK(worker[w])'
  BY <1>a, <1>1, <1>4, <1>6, <1>8, <1>10, <1>11 DEF KnowsOK, ScoreOK, FreshAt, Remains
<1> QED
  BY <1>a, <1>0, <1>2, <1>6, <1>7, <1>9, <1>10, <1>11, <1>12, GoHolds DEF WorkerOK, WorkPlaces

(* One attempt to send: what is accepted is counted, and only a worker     *)
(* that is about to send an undisturbed event adds to its count.           *)
LEMMA AttemptStep == ASSUME CollectorInv, NEW w \in Workers, Attempt(w) PROVE CollectorInv'
<1>a. /\ worker[w].pc = "send" /\ feeds' = feeds /\ seconds' = seconds /\ redis' = redis /\ trouble \subseteq trouble'
      /\ \A k : Same(k)
  BY Blaming DEF Attempt, At, Sure, Same
<1>0. PICK e \in Entries : e = Entry(w)
  BY <1>a, AtEntry
<1>1. /\ PlaceOK(worker[w]) /\ KnowsOK(worker[w]) /\ Shape(worker[w]) /\ e = Head(worker[w].left) /\ worker[w].left # <<>>
      /\ DOMAIN worker = Workers /\ Entries' = Entries /\ EventInv(e) /\ telegram[e.id] \in Nat
      /\ DOMAIN telegram = {x.id : x \in Entries} /\ \A x \in Entries : telegram[x.id] \in Nat
      /\ \A f \in Entries : f # e => f.id # e.id
  BY <1>a, <1>0, AtEntry DEF Entry, CollectorInv, CollectorTypeOK, Entries
<1>2. Where(w, e) = "send"
  BY <1>a, <1>0 DEF Where, WorkPlaces
<1> DEFINE retry == worker' = [worker EXCEPT ![w].attempt = @ + 1, ![w].pc = IF worker[w].attempt + 1 = MaxSends THEN "shadow" ELSE "send"]
           accepted == telegram' = [telegram EXCEPT ![e.id] = @ + 1]
           after == IF e.family = "fed" THEN "mark" ELSE "shadow"
<1>3. ASSUME retry
      PROVE  /\ Remains(w) /\ Shape(worker[w])' /\ worker'[w].pc \in {"shadow", "send"} /\ worker'[w].attempt # 0
             /\ Entry(w)' = e /\ e = Head(worker'[w].left) /\ Where(w, e)' = worker'[w].pc
  <2>1. PICK pc \in {"shadow", "send"} : worker' = [worker EXCEPT ![w].attempt = worker[w].attempt + 1, ![w].pc = pc]
    BY <1>3
  <2>2. /\ worker'[w] = [worker[w] EXCEPT !.attempt = worker[w].attempt + 1, !.pc = pc]
        /\ DOMAIN worker' = Workers /\ \A v \in Workers \ {w} : worker'[v] = worker[v]
    BY <1>1, <2>1
  <2>3. /\ Remains(w) /\ worker'[w].pc = pc /\ worker'[w].attempt = worker[w].attempt + 1
        /\ worker'[w].since = worker[w].since
    BY <1>1, <2>2 DEF Remains, Shape, Fields
  <2>4. worker[w].attempt + 1 \in Nat /\ worker[w].attempt + 1 # 0
    BY <1>1 DEF Shape
  <2>5. Shape(worker[w])'
    BY <1>a, <1>1, <2>3, <2>4 DEF Shape, Remains
  <2> QED
    BY <1>a, <1>0, <2>3, <2>4, <2>5, Staying DEF PlaceOf, WorkPlaces
<1>4. CASE retry /\ Blame(w, "refused") /\ UNCHANGED telegram
  <2>1. <<e.id, "refused">> \in trouble' /\ Excused(e.id, Stopped)'
    BY <1>0, <1>4, Blaming DEF Excused, Stopped
  <2>2. Remains(w) /\ Shape(worker[w])' /\ worker'[w].pc \in {"shadow", "send"} /\ worker'[w].attempt # 0
        /\ e = Head(worker'[w].left)
    BY <1>3, <1>4
  <2>3. Calm(w) /\ \A f \in Entries : Untouched(f)
    BY <1>a, <1>4, <2>2, Quiet DEF Alone, Remains
  <2>4. PlaceOK(worker[w])'
    BY <1>1, <2>2 DEF PlaceOK, WorkPlaces, Remains
  <2>5. KnowsOK(worker[w])'
    BY <2>1, <2>2 DEF KnowsOK
  <2> QED
    BY <1>a, <1>0, <1>2, <2>2, <2>3, <2>4, <2>5, GoHolds DEF WorkerOK, WorkPlaces
<1>5. ASSUME accepted, Remains(w), WorkerOK(worker[w])', Where(w, e)' # "away",
             <<e.id, "answer_lost">> \in trouble' \/ Where(w, e)' = after
      PROVE  CollectorInv'
  <2>1. /\ DOMAIN telegram' = DOMAIN telegram /\ telegram'[e.id] = telegram[e.id] + 1
        /\ \A f \in Entries : f # e => telegram'[f.id] = telegram[f.id]
    BY <1>1, <1>5
  <2>2. \A f \in Entries : telegram'[f.id] \in Nat /\ telegram[f.id] <= telegram'[f.id]
    BY <1>1, <2>1
  <2>3. Calm(w)
    BY <1>a, <1>5, <2>1, <2>2 DEF Calm, Remains, CollectorInv, CollectorTypeOK
  <2>4. \A f \in Entries : f # e => Untouched(f)
    BY <1>a, <2>1 DEF Untouched
  <2>5. SilentInv(e)'
    BY <1>5, Attended
  <2>6. KeyInv(e)'
    <3>1. AlertOf(e)' <=> AlertOf(e)
      BY <1>a DEF AlertOf
    <3> QED
      BY <1>a, <1>1, <2>1, <3>1 DEF EventInv, KeyInv, ScoreOK
  <2>7. \A v \in Workers \ {w} : Where(v, e)' = Where(v, e)
    BY <2>3, OtherWorkers
  <2>8. OnceInv(e)'
    <3>1. SUFFICES ASSUME ~Excused(e.id, Doubled(e))' PROVE OnceInv(e)'
      BY DEF OnceInv
    <3>2. ~Excused(e.id, Doubled(e)) /\ Where(w, e)' = after
      BY <1>a, <1>5, <3>1 DEF Excused, Doubled, Fed
    <3>3. CASE Fed(e)
      <4>1. PendingOnce(e) /\ telegram[e.id] = 0 /\ after = "mark"
        BY <1>1, <1>2, <3>2, <3>3 DEF EventInv, OnceInv, PendingOnce, Fed
      <4>2. PendingOnce(e)' /\ telegram'[e.id] = 1
        BY <1>1, <1>2, <2>1, <2>7, <3>2, <4>1 DEF PendingOnce
      <4> QED
        BY <3>3, <4>2 DEF OnceInv, Fed
    <3>4. CASE ~Fed(e)
      <4>1. MarkedOnce(e) /\ telegram[e.id] = 0 /\ after = "shadow" /\ Live(Marker(e))
        BY <1>1, <1>2, <3>2, <3>4 DEF EventInv, OnceInv, MarkedOnce, Fed
      <4>2. Live(Marker(e))'
        BY <1>a, <4>1 DEF Live
      <4>3. \A v, u \in Workers : Where(v, e)' # "away" /\ Where(u, e)' # "away" => v = u
        BY <1>2, <2>7, <4>1 DEF MarkedOnce
      <4>4. \A v \in Workers : Where(v, e)' # "away" => v = w
        BY <1>5, <4>3
      <4>5. MarkedOnce(e)' /\ telegram'[e.id] = 1
        BY <1>1, <2>1, <3>2, <4>1, <4>2, <4>3, <4>4 DEF MarkedOnce
      <4> QED
        BY <3>4, <4>5 DEF OnceInv, Fed
    <3> QED
      BY <3>3, <3>4
  <2> QED
    BY <1>a, <1>0, <1>5, <2>3, <2>4, <2>5, <2>6, <2>8, StayHolds DEF EventInv
<1>6. accepted => telegram'[e.id] > 0
  BY <1>1
<1>7. CASE accepted /\ retry /\ Blame(w, "answer_lost")
  <2>1. Remains(w) /\ Shape(worker[w])' /\ worker'[w].pc \in {"shadow", "send"} /\ worker'[w].attempt # 0
        /\ e = Head(worker'[w].left) /\ Where(w, e)' # "away"
    BY <1>3, <1>7
  <2>2. WorkerOK(worker[w])'
    BY <1>1, <1>6, <1>7, <2>1 DEF WorkerOK, PlaceOK, KnowsOK, WorkPlaces, Remains
  <2> QED
    BY <1>0, <1>5, <1>7, <2>1, <2>2, Blaming
<1>8. CASE accepted /\ Go(w, after) /\ Sure
  <2>1. Remains(w) /\ Shape(worker[w])' /\ worker'[w].pc = after
    BY <1>a, <1>8, Going
  <2>2. e = Head(worker'[w].left) /\ Where(w, e)' = after /\ after # "away"
    BY <1>a, <1>0, <2>1, Staying DEF PlaceOf, WorkPlaces
  <2>3. WorkerOK(worker[w])'
    BY <1>1, <1>6, <1>8, <2>1, <2>2 DEF WorkerOK, PlaceOK, KnowsOK, WorkPlaces, Remains, Fed
  <2> QED
    BY <1>5, <1>8, <2>1, <2>2, <2>3
<1> QED
  BY <1>0, <1>4, <1>7, <1>8 DEF Attempt

(* The last thing done with an entry.                                      *)
LEMMA SubmitStep == ASSUME CollectorInv, NEW w \in Workers, Submit(w) PROVE CollectorInv'
<1>a. /\ worker[w].pc = "shadow" /\ NextEntry(w) /\ feeds' = feeds /\ seconds' = seconds /\ telegram' = telegram /\ redis' = redis
      /\ trouble \subseteq trouble'
  BY Noting DEF Submit, At, storeOnly, Sure
<1>0. PICK e \in Entries : e = Entry(w)
  BY <1>a, AtEntry
<1>1. KnowsOK(worker[w]) /\ e = Head(worker[w].left) /\ worker[w].send \in BOOLEAN
  BY <1>a, <1>0, AtEntry DEF Entry, Shape
<1>2. worker[w].send => telegram[e.id] > 0 \/ ~AlertOf(e) \/ Excused(e.id, Stopped)
  BY <1>a, <1>1 DEF KnowsOK
<1>3. Excused(e.id, Stopped) => Excused(e.id, Stopped)'
  BY <1>a DEF Excused
<1>4. ~worker[w].send => Excused(e.id, Stopped)'
  BY <1>0, Noting DEF Submit, Excused, Stopped
<1> QED
  BY <1>a, <1>0, <1>2, <1>3, <1>4, LeaveHolds

(* A process dies with whatever it was doing.                              *)
LEMMA DieStep == ASSUME CollectorInv, NEW w \in Workers, Die(w) PROVE CollectorInv'
<1>a. /\ worker[w].pc # "idle" /\ feeds' = feeds /\ seconds' = seconds /\ telegram' = telegram /\ redis' = redis
      /\ worker' = [worker EXCEPT ![w] = Idle] /\ trouble \subseteq trouble' /\ <<Entry(w).id, "crash">> \in trouble'
  BY Blaming DEF Die, At, storeOnly
<1>0. PICK e \in Entries : e = Entry(w)
  BY <1>a, AtEntry
<1>1. DOMAIN worker = Workers /\ EventInv(e) /\ Entries' = Entries /\ seconds \in Nat
  BY <1>a DEF CollectorInv, CollectorTypeOK, Entries
<1>2. worker'[w] = Idle /\ DOMAIN worker' = Workers /\ \A v \in Workers \ {w} : worker'[v] = worker[v]
  BY <1>a, <1>1
<1>3. Shape(worker[w])' /\ worker'[w].pc = First(worker'[w].left)
  BY <1>a, <1>1, <1>2 DEF Shape, Idle, First, Fields
<1>4. WorkerOK(worker[w])' /\ \A f : Where(w, f)' = "away"
  BY <1>3, AtTheStart
<1>5. Calm(w) /\ \A f : Untouched(f)
  BY <1>a, <1>2, Quiet DEF Alone
<1>6. Excused(e.id, Stopped)'
  BY <1>a, <1>0 DEF Excused, Stopped
<1>7. EventInv(e)'
  <2>1. CASE Fed(e)
    <3>1. Excused(e.id, Doubled(e))'
      BY <1>a, <1>0, <2>1 DEF Excused, Doubled, Fed
    <3>2. KeyInv(e)'
      <4>1. AlertOf(e)' <=> AlertOf(e)
        BY <1>a DEF AlertOf
      <4> QED
        BY <1>a, <1>1, <4>1 DEF EventInv, KeyInv, ScoreOK
    <3> QED
      BY <1>6, <3>1, <3>2 DEF EventInv, SilentInv, OnceInv, Doubled, Fed
  <2>2. CASE ~Fed(e) /\ Where(w, e) # "away"
    BY <1>4, <1>5, <1>6, <2>2, Within DEF SilentInv
  <2>3. CASE Where(w, e) = "away"
    BY <1>4, <1>5, <2>3, Aside
  <2> QED
    BY <2>1, <2>2, <2>3
<1>8. \A f \in Entries : f # e => Where(w, f) = "away"
  BY <1>a, <1>0, AtEntry
<1> QED
  BY <1>4, <1>5, <1>7, <1>8, StepHolds

(* The cached result, read.                                                *)
LEMMA ReadProcessedStep == ASSUME CollectorInv, NEW w \in Workers, ReadProcessed(w) PROVE CollectorInv'
<1>a. /\ worker[w].pc = "read" /\ feeds' = feeds /\ seconds' = seconds /\ telegram' = telegram /\ redis' = redis
      /\ trouble \subseteq trouble'
  BY Blaming DEF ReadProcessed, At, storeOnly, Sure
<1>0. PICK e \in Entries : e = Entry(w)
  BY <1>a, AtEntry
<1>1. /\ PlaceOK(worker[w]) /\ Shape(worker[w]) /\ e = Head(worker[w].left) /\ worker[w].left # <<>>
      /\ DOMAIN worker = Workers /\ Entries' = Entries /\ EventInv(e) /\ seconds \in Nat /\ Fed(e)
  BY <1>a, <1>0, AtEntry DEF Entry, CollectorInv, CollectorTypeOK, Entries, PlaceOK
<1>2. Where(w, e) = "away"
  BY <1>a, <1>0 DEF Where, WorkPlaces
<1>3. CASE NextEntry(w)
  BY <1>a, <1>0, <1>2, <1>3, LeaveHolds
<1>4. ASSUME NEW score, NEW pc \in {"pending", "shadow", "dedupe"}, e.published # Undated, seconds - e.published <= FedMaxAge,
             worker' = [worker EXCEPT ![w].score = score, ![w].since = seconds, ![w].pc = pc],
             pc = "pending" => worker[w].send /\ ScoreOK(e, score),
             pc = "shadow" => ~worker[w].send
      PROVE  CollectorInv'
  <2>1. /\ worker'[w] = [worker[w] EXCEPT !.score = score, !.since = seconds, !.pc = pc]
        /\ DOMAIN worker' = Workers /\ \A v \in Workers \ {w} : worker'[v] = worker[v]
    BY <1>1, <1>4
  <2>2. /\ Remains(w) /\ worker'[w].pc = pc /\ worker'[w].score = score /\ worker'[w].since = seconds
        /\ worker'[w].attempt = worker[w].attempt
    BY <1>1, <2>1 DEF Remains, Shape, Fields
  <2>3. Calm(w) /\ \A f \in Entries : Untouched(f)
    BY <1>a, <2>2, Quiet DEF Alone, Remains
  <2>4. Shape(worker[w])' /\ PlaceOK(worker[w])' /\ e = Head(worker'[w].left)
    BY <1>a, <1>1, <2>2 DEF Shape, PlaceOK, WorkPlaces, Remains
  <2>5. (AlertOf(e)' <=> AlertOf(e)) /\ (FreshAt(e, seconds))'
    BY <1>a, <1>4 DEF AlertOf, FreshAt
  <2>6. KnowsOK(worker[w])'
    BY <1>4, <2>2, <2>4, <2>5 DEF KnowsOK, ScoreOK, FreshAt, Remains
  <2>7. Where(w, e)' = PlaceOf(pc)
    BY <1>a, <1>0, <2>2, Staying
  <2>8. CASE pc = "dedupe"
    <3>1. Where(w, e)' = Where(w, e)
      BY <1>2, <2>7, <2>8 DEF PlaceOf, WorkPlaces
    <3>2. EventInv(e)'
      BY <2>3, <3>1, Aside
    <3> QED
      BY <1>a, <1>0, <2>2, <2>3, <2>4, <2>6, <3>2, StayHolds DEF WorkerOK
  <2>9. CASE pc # "dedupe"
    BY <1>a, <1>0, <1>1, <2>2, <2>3, <2>4, <2>6, <2>9, GoHolds DEF WorkerOK, WorkPlaces
  <2> QED
    BY <2>8, <2>9
<1>5. CASE /\ e.published # Undated /\ seconds - e.published <= FedMaxAge
           /\ worker' = [worker EXCEPT ![w].pc = "dedupe", ![w].since = seconds]
  <2>1. worker' = [worker EXCEPT ![w].score = worker[w].score, ![w].since = seconds, ![w].pc = "dedupe"]
    <3>1. [worker[w] EXCEPT !.pc = "dedupe", !.since = seconds] = [worker[w] EXCEPT !.score = worker[w].score, !.since = seconds, !.pc = "dedupe"]
      BY <1>1 DEF Shape, Fields
    <3> QED
      BY <1>1, <1>5, <3>1
  <2> QED
    BY <1>4, <1>5, <2>1
<1>6. CASE /\ e.published # Undated /\ seconds - e.published <= FedMaxAge /\ Live(Processed(e))
           /\ worker' = [worker EXCEPT ![w].score = redis[Processed(e)].value, ![w].since = seconds,
                                       ![w].pc = IF worker[w].send THEN "pending" ELSE "shadow"]
  <2>1. ScoreOK(e, redis[Processed(e)].value)
    BY <1>1, <1>6 DEF EventInv, KeyInv, Live
  <2>2. PICK pc : pc = IF worker[w].send THEN "pending" ELSE "shadow"
    OBVIOUS
  <2> QED
    BY <1>4, <1>6, <2>1, <2>2
<1> QED
  BY <1>0, <1>3, <1>5, <1>6 DEF ReadProcessed

(* The result of an event is cached: an alert is cached as an alert.       *)
LEMMA CacheStep == ASSUME CollectorsAssumption, CollectorInv, NEW w \in Workers, CacheResult(w) PROVE CollectorInv'
<1>a. /\ worker[w].pc = "cache" /\ feeds' = feeds /\ seconds' = seconds /\ telegram' = telegram /\ trouble \subseteq trouble'
      /\ Go(w, IF worker[w].send THEN "pending" ELSE "shadow") /\ FedTtl \in Nat
  BY Blaming, TtlLonger DEF CacheResult, At, storeOnly, Sure
<1>0. PICK e \in Entries : e = Entry(w)
  BY <1>a, AtEntry
<1>1. /\ PlaceOK(worker[w]) /\ KnowsOK(worker[w]) /\ Shape(worker[w]) /\ e = Head(worker[w].left) /\ worker[w].left # <<>>
      /\ EventInv(e) /\ Fed(e) /\ CollectorTypeOK
  BY <1>a, <1>0, AtEntry DEF Entry, CollectorInv, PlaceOK
<1>2. redis' \in {redis, Stored(Processed(e), worker[w].score, FedTtl)}
  BY <1>0 DEF CacheResult
<1>3. PICK pc \in {"pending", "shadow"} : Go(w, pc) /\ (pc = "pending" <=> worker[w].send)
  BY <1>a, <1>1 DEF Shape
<1>4. /\ Remains(w) /\ Shape(worker[w])' /\ worker'[w].pc = pc /\ worker'[w].score = worker[w].score
      /\ worker'[w].attempt = worker[w].attempt /\ worker'[w].since = worker[w].since
  BY <1>a, <1>3, Going
<1>5. Calm(w) /\ (\A j : j # Processed(e) => Same(j)) /\ \A f \in Entries : f # e => Untouched(f)
  BY <1>a, <1>0, <1>2, <1>4, Keeping, OwnKeys DEF Alone, Remains
<1>6. (AlertOf(e)' <=> AlertOf(e)) /\ ScoreOK(e, worker[w].score) /\ FreshAt(e, worker[w].since)
  BY <1>a, <1>1 DEF AlertOf, KnowsOK
<1>7. e = Head(worker'[w].left) /\ Where(w, e) = "cache" /\ Where(w, e)' = pc
  BY <1>a, <1>0, <1>4, Staying DEF PlaceOf, WorkPlaces
<1>8. PlaceOK(worker[w])'
  BY <1>1, <1>4 DEF PlaceOK, WorkPlaces, Remains
<1>9. KnowsOK(worker[w])'
  BY <1>3, <1>4, <1>6, <1>7 DEF KnowsOK, ScoreOK, FreshAt, Remains
<1>10. Same(Marker(e)) /\ Same(Delivered(e))
  BY <1>5, KeysApart
<1>11. KeyInv(e)'
  <2>1. Processed(e) \in DOMAIN redis' => ScoreOK(e, redis'[Processed(e)].value)
    <3>1. CASE redis' = redis
      BY <1>1, <1>6, <3>1 DEF EventInv, KeyInv
    <3>2. CASE redis' = Stored(Processed(e), worker[w].score, FedTtl)
      <4>1. redis'[Processed(e)].value = worker[w].score
        BY <1>a, <1>1, <3>2, Writing
      <4> QED
        BY <1>6, <4>1
    <3> QED
      BY <1>2, <3>1, <3>2
  <2> QED
    BY <1>a, <1>1, <1>6, <1>10, <2>1 DEF EventInv, KeyInv, ScoreOK, Same
<1>12. OnceInv(e)'
  <2>1. SUFFICES ASSUME ~Excused(e.id, Doubled(e))' PROVE OnceInv(e)'
    BY DEF OnceInv
  <2>2. PendingOnce(e) /\ telegram[e.id] \in {0, 1}
    BY <1>a, <1>1, <2>1 DEF EventInv, OnceInv, Excused, Doubled, Fed
  <2>3. \A v \in Workers \ {w} : Where(v, e)' = Where(v, e)
    BY <1>5, OtherWorkers
  <2>4. PendingOnce(e)'
    BY <1>a, <1>7, <1>10, <2>2, <2>3 DEF PendingOnce, Same
  <2> QED
    BY <1>a, <1>1, <2>2, <2>4 DEF OnceInv, Fed
<1>13. SilentInv(e)'
  BY <1>7, Attended
<1> QED
  BY <1>a, <1>0, <1>4, <1>5, <1>8, <1>9, <1>11, <1>12, <1>13, StayHolds DEF WorkerOK, EventInv

(* The delivered marker, read: an undisturbed event that is still young    *)
(* enough has not been sent when the marker is not there.                  *)
LEMMA ReadDeliveredStep == ASSUME CollectorsAssumption, CollectorInv, NEW w \in Workers, ReadDelivered(w) PROVE CollectorInv'
<1>a. /\ worker[w].pc = "pending" /\ feeds' = feeds /\ seconds' = seconds /\ telegram' = telegram /\ redis' = redis
      /\ trouble \subseteq trouble'
  BY Blaming, Noting DEF ReadDelivered, At, storeOnly, Sure
<1>0. PICK e \in Entries : e = Entry(w)
  BY <1>a, AtEntry
<1>1. /\ PlaceOK(worker[w]) /\ KnowsOK(worker[w]) /\ Shape(worker[w]) /\ e = Head(worker[w].left) /\ worker[w].left # <<>>
      /\ EventInv(e) /\ Fed(e) /\ telegram[e.id] \in Nat
  BY <1>a, <1>0, AtEntry DEF Entry, CollectorInv, CollectorTypeOK, PlaceOK
<1>2. (AlertOf(e)' <=> AlertOf(e)) /\ ScoreOK(e, worker[w].score) /\ FreshAt(e, worker[w].since) /\ worker[w].send
  BY <1>a, <1>1 DEF AlertOf, KnowsOK
<1>3. ASSUME NEW pc \in {"shadow", "send"}, Go(w, pc)
      PROVE  /\ Remains(w) /\ Shape(worker[w])' /\ PlaceOK(worker[w])' /\ worker'[w].pc = pc
             /\ worker'[w].score = worker[w].score /\ e = Head(worker'[w].left) /\ Where(w, e)' = pc
             /\ Calm(w) /\ \A f \in Entries : Untouched(f)
  <2>1. Remains(w) /\ Shape(worker[w])' /\ worker'[w].pc = pc /\ worker'[w].score = worker[w].score
    BY <1>a, <1>3, Going
  <2>2. Calm(w) /\ \A f \in Entries : Untouched(f)
    BY <1>a, <2>1, Quiet DEF Alone, Remains
  <2>3. e = Head(worker'[w].left) /\ Where(w, e)' = pc
    BY <1>a, <1>0, <2>1, Staying DEF PlaceOf, WorkPlaces
  <2>4. PlaceOK(worker[w])'
    BY <1>1, <2>1 DEF PlaceOK, WorkPlaces, Remains
  <2> QED
    BY <2>1, <2>2, <2>3, <2>4
<1>4. ASSUME Go(w, "shadow"), telegram[e.id] > 0 \/ Decision(worker[w].score) # "ALERT" PROVE CollectorInv'
  <2>1. /\ Remains(w) /\ Shape(worker[w])' /\ PlaceOK(worker[w])' /\ worker'[w].pc = "shadow"
        /\ worker'[w].score = worker[w].score /\ e = Head(worker'[w].left)
        /\ Calm(w) /\ \A f \in Entries : Untouched(f)
    BY <1>3, <1>4
  <2>2. KnowsOK(worker[w])'
    BY <1>a, <1>2, <1>4, <2>1 DEF KnowsOK, ScoreOK
  <2> QED
    BY <1>a, <1>0, <1>1, <2>1, <2>2, GoHolds DEF WorkerOK, WorkPlaces
<1>5. ASSUME Go(w, "send"), \/ Excused(e.id, Doubled(e))'
                            \/ /\ ~Live(Delivered(e)) /\ worker[w].since >= seconds
                               /\ \A v \in Workers \ {w} : ~(Sending(v) /\ Entry(v).id = e.id)
      PROVE  CollectorInv'
  <2>1. /\ Remains(w) /\ Shape(worker[w])' /\ PlaceOK(worker[w])' /\ worker'[w].pc = "send"
        /\ e = Head(worker'[w].left) /\ Where(w, e)' = "send"
        /\ Calm(w) /\ \A f \in Entries : Untouched(f)
    BY <1>3, <1>5
  <2>2. KnowsOK(worker[w])'
    BY <2>1 DEF KnowsOK
  <2>3. Same(Marker(e)) /\ Same(Processed(e)) /\ Same(Delivered(e))
    BY <2>1 DEF Untouched, KeysOf
  <2>4. KeyInv(e)'
    BY <1>a, <1>1, <1>2, <2>3 DEF EventInv, KeyInv, ScoreOK, Same
  <2>5. SilentInv(e)'
    BY <2>1, Attended
  <2>6. OnceInv(e)'
    <3>1. SUFFICES ASSUME ~Excused(e.id, Doubled(e))' PROVE OnceInv(e)'
      BY DEF OnceInv
    <3>2. /\ ~Live(Delivered(e)) /\ worker[w].since >= seconds
          /\ \A v \in Workers \ {w} : ~(Sending(v) /\ Entry(v).id = e.id)
      BY <1>5, <3>1
    <3>3. PendingOnce(e) /\ telegram[e.id] \in {0, 1}
      BY <1>a, <1>1, <3>1 DEF EventInv, OnceInv, Excused, Doubled, Fed
    <3>4. \A v \in Workers : Where(v, e) \notin {"send", "mark"}
      BY <1>a, <3>2 DEF Where, Sending
    <3>5. Delivered(e) \notin DOMAIN redis
      <4>1. /\ seconds \in Nat /\ worker[w].since \in Nat /\ worker[w].since <= seconds /\ FedMaxAge \in Nat
            /\ \A k \in DOMAIN redis : redis[k].until \in Nat
        BY <1>1, TtlLonger DEF CollectorInv, CollectorTypeOK, Shape
      <4>2. e.published \in Int /\ e.published <= 0
        BY <1>1, <1>2 DEF CollectorInv, CollectorTypeOK, EntriesAssumption, Entries, Fed, FreshAt
      <4>3. seconds <= FedMaxAge
        BY <1>2, <3>2, <4>1, <4>2 DEF FreshAt
      <4>4. Delivered(e) \in DOMAIN redis => redis[Delivered(e)].until > FedMaxAge
        BY <1>1 DEF EventInv, KeyInv
      <4> QED
        BY <3>2, <4>1, <4>3, <4>4 DEF Live
    <3>6. telegram[e.id] = 0
      BY <3>3, <3>4, <3>5 DEF PendingOnce
    <3>7. \A v \in Workers \ {w} : Where(v, e)' = Where(v, e)
      BY <2>1, OtherWorkers
    <3>8. PendingOnce(e)'
      BY <1>a, <2>1, <3>4, <3>6, <3>7 DEF PendingOnce
    <3> QED
      BY <1>a, <1>1, <3>6, <3>8 DEF OnceInv, Fed
  <2> QED
    BY <1>a, <1>0, <2>1, <2>2, <2>4, <2>5, <2>6, StayHolds DEF WorkerOK, EventInv
<1>6. CASE Decision(worker[w].score) # "ALERT" /\ Go(w, "shadow")
  BY <1>4, <1>6
<1>7. CASE Live(Delivered(e)) /\ Go(w, "shadow")
  <2>1. telegram[e.id] > 0
    BY <1>1, <1>7 DEF EventInv, KeyInv, Live
  <2> QED
    BY <1>4, <1>7, <2>1
<1> DEFINE other == \E v \in Workers \ {w} : Sending(v) /\ Entry(v).id = e.id
           noted(kind) == <<e.id, kind>> \in trouble'
<1>8. noted("redis") \/ noted("overlap") \/ noted("slow") => Excused(e.id, Doubled(e))'
  BY <1>1 DEF Excused, Doubled, Fed
<1>9. CASE Go(w, "send") /\ Blame(w, "redis")
  BY <1>0, <1>5, <1>8, <1>9, Blaming
<1>10. CASE ~Live(Delivered(e)) /\ Go(w, "send") /\ IF other THEN Note(w, "overlap") ELSE IF worker[w].since < seconds THEN Note(w, "slow") ELSE Sure
  <2>1. CASE other
    BY <1>0, <1>5, <1>8, <1>10, <2>1, Noting
  <2>2. CASE ~other /\ worker[w].since < seconds
    BY <1>0, <1>5, <1>8, <1>10, <2>2, Noting
  <2>3. CASE ~other /\ ~(worker[w].since < seconds)
    <3>1. worker[w].since >= seconds
      BY <1>1, <2>3 DEF Shape, CollectorInv, CollectorTypeOK
    <3> QED
      BY <1>5, <1>10, <2>3, <3>1
  <2> QED
    BY <2>1, <2>2, <2>3
<1> QED
  BY <1>0, <1>6, <1>7, <1>9, <1>10 DEF ReadDelivered

(* The delivered marker, written after the confirmation.                   *)
LEMMA MarkStep == ASSUME CollectorsAssumption, CollectorInv, NEW w \in Workers, MarkDelivered(w) PROVE CollectorInv'
<1>a. /\ worker[w].pc = "mark" /\ feeds' = feeds /\ seconds' = seconds /\ telegram' = telegram /\ trouble \subseteq trouble'
      /\ Go(w, "shadow") /\ FedTtl \in Nat /\ FedTtl > FedMaxAge /\ FedMaxAge \in Nat /\ seconds \in Nat
  BY Blaming, TtlLonger DEF MarkDelivered, At, storeOnly, Sure, CollectorInv, CollectorTypeOK
<1>0. PICK e \in Entries : e = Entry(w)
  BY <1>a, AtEntry
<1>1. /\ PlaceOK(worker[w]) /\ KnowsOK(worker[w]) /\ Shape(worker[w]) /\ e = Head(worker[w].left) /\ worker[w].left # <<>>
      /\ EventInv(e) /\ Fed(e) /\ CollectorTypeOK /\ telegram[e.id] > 0
  BY <1>a, <1>0, AtEntry DEF Entry, CollectorInv, PlaceOK, KnowsOK
<1>2. redis' \in {redis, Stored(Delivered(e), "1", FedTtl)} /\ (<<e.id, "redis">> \in trouble' \/ redis' = Stored(Delivered(e), "1", FedTtl))
  BY <1>0, Blaming DEF MarkDelivered
<1>3. /\ Remains(w) /\ Shape(worker[w])' /\ worker'[w].pc = "shadow"
  BY <1>a, Going
<1>4. Calm(w) /\ (\A j : j # Delivered(e) => Same(j)) /\ \A f \in Entries : f # e => Untouched(f)
  BY <1>a, <1>0, <1>2, <1>3, Keeping, OwnKeys DEF Alone, Remains
<1>5. e = Head(worker'[w].left) /\ Where(w, e) = "mark" /\ Where(w, e)' = "shadow"
  BY <1>a, <1>0, <1>3, Staying DEF PlaceOf, WorkPlaces
<1>6. WorkerOK(worker[w])'
  BY <1>a, <1>1, <1>3, <1>5 DEF WorkerOK, PlaceOK, KnowsOK, WorkPlaces, Remains
<1>7. KeyInv(e)'
  <2>1. Same(Processed(e)) /\ (AlertOf(e)' <=> AlertOf(e))
    BY <1>a, <1>4, KeysApart DEF AlertOf
  <2>2. Delivered(e) \in DOMAIN redis' => redis'[Delivered(e)].until > FedMaxAge
    <3>1. CASE redis' = redis
      BY <1>1, <3>1 DEF EventInv, KeyInv
    <3>2. CASE redis' = Stored(Delivered(e), "1", FedTtl)
      <4>1. redis'[Delivered(e)].until = seconds + FedTtl
        BY <1>a, <1>1, <3>2, Writing
      <4> QED
        BY <1>a, <4>1
    <3> QED
      BY <1>2, <3>1, <3>2
  <2> QED
    BY <1>a, <1>1, <2>1, <2>2 DEF EventInv, KeyInv, ScoreOK, Same
<1>8. SilentInv(e)'
  BY <1>5, Attended
<1>9. OnceInv(e)'
  <2>1. SUFFICES ASSUME ~Excused(e.id, Doubled(e))' PROVE OnceInv(e)'
    BY DEF OnceInv
  <2>2. PendingOnce(e) /\ telegram[e.id] \in {0, 1}
    BY <1>a, <1>1, <2>1 DEF EventInv, OnceInv, Excused, Doubled, Fed
  <2>3. Delivered(e) \in DOMAIN redis'
    <3>1. redis' = Stored(Delivered(e), "1", FedTtl)
      BY <1>2, <2>1 DEF Excused, Doubled
    <3> QED
      BY <1>a, <1>1, <3>1, Writing
  <2>4. \A v \in Workers \ {w} : Where(v, e)' = Where(v, e)
    BY <1>4, OtherWorkers
  <2>5. PendingOnce(e)'
    BY <1>a, <1>5, <2>2, <2>3, <2>4 DEF PendingOnce
  <2> QED
    BY <1>a, <1>1, <2>2, <2>5 DEF OnceInv, Fed
<1> QED
  BY <1>a, <1>0, <1>3, <1>4, <1>6, <1>7, <1>8, <1>9, StayHolds DEF EventInv

(* Time passes: what expires is noted, and an alert is an alert at fewer   *)
(* moments at most.                                                        *)
LEMMA SecondStep == ASSUME CollectorInv, SecondPasses PROVE CollectorInv'
<1>0. /\ seconds' = seconds + 1 /\ seconds \in Nat /\ feeds' = feeds /\ redis' = redis /\ worker' = worker /\ telegram' = telegram
      /\ trouble \subseteq trouble' /\ Entries' = Entries /\ \A k \in DOMAIN redis : redis[k].until \in Nat
  BY DEF SecondPasses, CollectorInv, CollectorTypeOK, Entries
<1>1. CollectorTypeOK'
  BY <1>0 DEF CollectorInv, CollectorTypeOK
<1>2. \A e : AlertOf(e)' => AlertOf(e)
  BY <1>0 DEF AlertOf
<1>3. \A e, kinds : Excused(e.id, kinds) => Excused(e.id, kinds)'
  BY <1>0 DEF Excused
<1>4. \A key : Live(key)' => Live(key)
  BY <1>0 DEF Live
<1>5. \A w, e : Where(w, e)' = Where(w, e)
  BY <1>0 DEF Where, Entry
<1>6. ASSUME NEW w \in Workers PROVE WorkerOK(worker[w])'
  <2>1. WorkerOK(worker[w])
    BY DEF CollectorInv
  <2>2. Shape(worker[w])' /\ PlaceOK(worker[w])'
    BY <1>0, <2>1 DEF WorkerOK, Shape, PlaceOK
  <2>3. KnowsOK(worker[w]) => KnowsOK(worker[w])'
    <3> DEFINE e == Head(worker[w].left)
    <3>1. AlertOf(Head(worker[w].left))' => AlertOf(Head(worker[w].left))
      BY <1>0, <1>2 DEF AlertOf
    <3>2. Excused(Head(worker[w].left).id, Stopped) => Excused(Head(worker[w].left).id, Stopped)'
      BY <1>0 DEF Excused
    <3> QED
      BY <1>0, <3>1, <3>2 DEF KnowsOK, ScoreOK, FreshAt, Fed
  <2> QED
    BY <1>0, <2>1, <2>2, <2>3 DEF WorkerOK
<1>7. ASSUME NEW e \in Entries PROVE EventInv(e)'
  <2>1. EventInv(e)
    BY DEF CollectorInv
  <2>2. KeyInv(e)'
    BY <1>0, <1>2, <2>1 DEF EventInv, KeyInv, ScoreOK
  <2>3. SilentInv(e)'
    BY <1>0, <1>2, <1>3, <1>4, <1>5, <2>1 DEF EventInv, SilentInv
  <2>4. OnceInv(e)'
    <3>1. SUFFICES ASSUME ~Excused(e.id, Doubled(e))' PROVE OnceInv(e)'
      BY DEF OnceInv
    <3>2. ~Excused(e.id, Doubled(e))
      BY <1>0, <3>1 DEF Excused, Doubled, Fed
    <3>3. CASE Fed(e)
      BY <1>0, <1>5, <2>1, <3>2, <3>3 DEF EventInv, OnceInv, PendingOnce, Fed
    <3>4. CASE ~Fed(e)
      <4>1. Live(Marker(e)) => Live(Marker(e))'
        <5> SUFFICES ASSUME Live(Marker(e)), ~Live(Marker(e))' PROVE FALSE
          OBVIOUS
        <5>1. Marker(e) \in DOMAIN redis /\ redis[Marker(e)].until = seconds'
          BY <1>0 DEF Live
        <5>2. Marker(e)[1] # "headline" /\ Marker(e)[Len(Marker(e))] = e.id
          BY DEF Marker
        <5>3. <<e.id, "expired">> \in trouble'
          BY <5>1, <5>2 DEF SecondPasses
        <5> QED
          BY <3>1, <3>4, <5>3 DEF Excused, Doubled, Fed
      <4> QED
        BY <1>0, <1>5, <2>1, <3>2, <3>4, <4>1 DEF EventInv, OnceInv, MarkedOnce, Fed
    <3> QED
      BY <3>3, <3>4
  <2> QED
    BY <2>2, <2>3, <2>4 DEF EventInv
<1> QED
  BY <1>0, <1>1, <1>6, <1>7 DEF CollectorInv

(* The invariant holds at the start.                                       *)
LEMMA CollectorsStart == ASSUME NEW worlds, EntriesAssumption(worlds), CollectorsInit(worlds) PROVE CollectorInv
<1>0. /\ seconds = 0 /\ DOMAIN redis = {} /\ worker = [w \in Workers |-> Idle] /\ telegram = [e \in {x.id : x \in Entries} |-> 0]
  BY DEF CollectorsInit, Entries
<1>1. CollectorTypeOK
  <2>1. EntriesAssumption({feeds})
    BY DEF EntriesAssumption, CollectorsInit
  <2>2. \A e \in Entries : telegram[e.id] = 0
    BY <1>0
  <2>3. DOMAIN telegram = {e.id : e \in Entries} /\ DOMAIN worker = Workers
    BY <1>0
  <2> QED
    BY <1>0, <2>1, <2>2, <2>3 DEF CollectorTypeOK
<1>2. \A w \in Workers : WorkerOK(worker[w]) /\ \A e : Where(w, e) = "away"
  <2> SUFFICES ASSUME NEW w \in Workers PROVE WorkerOK(worker[w]) /\ \A e : Where(w, e) = "away"
    OBVIOUS
  <2>1. /\ DOMAIN worker[w] = Fields /\ worker[w].pc = "idle" /\ worker[w].left = <<>> /\ worker[w].send \in BOOLEAN
        /\ worker[w].attempt = 0 /\ worker[w].since = 0
    BY <1>0 DEF Idle, Fields
  <2>2. worker[w].left \in Seq(Entries) /\ worker[w].attempt \in Nat /\ worker[w].since \in Nat /\ worker[w].since <= seconds
    <3>1. <<>> \in Seq(Entries)
      OBVIOUS
    <3>2. worker[w].left \in Seq(Entries)
      BY <2>1, <3>1, Zenon
    <3> QED
      BY <1>0, <2>1, <3>2
  <2>3. Shape(worker[w])
    BY <2>1, <2>2, Zenon DEF Shape
  <2>4. PlaceOK(worker[w]) /\ \A e : Where(w, e) = "away"
    BY <2>1 DEF PlaceOK, Where, WorkPlaces
  <2> QED
    BY <2>1, <2>3, <2>4 DEF WorkerOK
<1>3. \A e \in Entries : EventInv(e)
  BY <1>0, <1>2 DEF EventInv, KeyInv, SilentInv, OnceInv, PendingOnce, MarkedOnce, Live
<1> QED
  BY <1>1, <1>2, <1>3 DEF CollectorInv

(* Every step keeps it.                                                    *)
LEMMA CollectorsStep == ASSUME CollectorsAssumption, CollectorInv, [CollectorsNext]_collectorVars PROVE CollectorInv'
<1>1. CASE SecondPasses
  BY <1>1, SecondStep
<1>2. CASE \E w \in Workers : StartCycle(w) \/ Step(w) \/ Die(w)
  BY <1>2, StartStep, DieStep, DedupeStep, ScanStep, RememberStep, ScoreStep, AttemptStep, SubmitStep, ReadProcessedStep,
     CacheStep, ReadDeliveredStep, MarkStep DEF Step
<1>3. CASE UNCHANGED collectorVars
  <2>0. /\ seconds' = seconds /\ feeds' = feeds /\ redis' = redis /\ worker' = worker /\ telegram' = telegram /\ trouble' = trouble
        /\ Entries' = Entries
    BY <1>3 DEF collectorVars, Entries
  <2>1. CollectorTypeOK'
    BY <2>0 DEF CollectorInv, CollectorTypeOK
  <2>2. ASSUME NEW w \in Workers PROVE WorkerOK(worker[w])'
    BY <2>0 DEF CollectorInv, WorkerOK, Shape, PlaceOK, KnowsOK, ScoreOK, FreshAt, Fed, AlertOf, Excused
  <2>3. ASSUME NEW e \in Entries PROVE EventInv(e)'
    BY <2>0 DEF CollectorInv, EventInv, KeyInv, SilentInv, OnceInv, PendingOnce, MarkedOnce, ScoreOK, Fed, AlertOf, Excused,
                Live, Where, Entry
  <2> QED
    BY <2>0, <2>1, <2>2, <2>3 DEF CollectorInv
<1> QED
  BY <1>1, <1>2, <1>3 DEF CollectorsNext

(* It says what is promised.                                               *)
LEMMA CollectorsPromise == ASSUME CollectorInv PROVE CollectorsSound
<1>1. TwiceNeedsExcuse
  <2> SUFFICES ASSUME NEW e \in Entries, telegram[e.id] > 1 PROVE Excused(e.id, Doubled(e))
    BY DEF TwiceNeedsExcuse, Doubled, Fed
  <2>1. OnceInv(e) /\ telegram[e.id] \notin {0, 1}
    BY DEF CollectorInv, EventInv
  <2> QED
    BY <2>1 DEF OnceInv
<1>2. SilenceNeedsExcuse
  <2> SUFFICES ASSUME NEW e \in Entries, Live(Marker(e)), AlertOf(e), telegram[e.id] = 0,
                      \A w \in Workers : At(w, "idle") \/ e \notin Range(worker[w].left)
               PROVE  Excused(e.id, Stopped)
    BY DEF SilenceNeedsExcuse, Stopped
  <2>1. ASSUME NEW w \in Workers PROVE Where(w, e) = "away"
    <3>1. SUFFICES ASSUME worker[w].pc # "idle", e = Entry(w) PROVE e \in Range(worker[w].left)
      BY DEF Where, WorkPlaces, At
    <3>2. worker[w].left # <<>> /\ worker[w].left \in Seq(Entries)
      BY <3>1, AtEntry
    <3>3. 1 \in DOMAIN worker[w].left /\ e = worker[w].left[1]
      BY <3>1, <3>2 DEF Entry
    <3> QED
      BY <3>3 DEF Range
  <2> QED
    BY <2>1 DEF CollectorInv, EventInv, SilentInv
<1>3. CachedIsDelivered
  BY DEF CachedIsDelivered, CollectorInv, WorkerOK, KnowsOK, At, Fed, Entry
<1> QED
  BY <1>1, <1>2, <1>3 DEF CollectorsSound

(* News, SEC and Fed events, whatever the sources, the number of workers,  *)
(* the ages and the failures: nothing reaches the channel twice without a  *)
(* reason the log shows; a marker hides an alert only for one, or because  *)
(* the client resent the command that set the marker, of which no log      *)
(* tells; and a Fed alert is not lost once it is cached.                   *)
THEOREM CollectorsAreSound ==
  ASSUME CollectorsAssumption, NEW worlds, EntriesAssumption(worlds)
  PROVE  CollectorsInit(worlds) /\ [][CollectorsNext]_collectorVars => []CollectorsSound
<1>1. CollectorsInit(worlds) => CollectorInv
  BY CollectorsStart
<1>2. CollectorInv /\ [CollectorsNext]_collectorVars => CollectorInv'
  BY CollectorsStep
<1>3. CollectorInv => CollectorsSound
  BY CollectorsPromise
<1> QED
  BY <1>1, <1>2, <1>3, PTL

-----------------------------------------------------------------------------
(***************************************************************************)
(* GeopoliticalIdentity.                                                   *)
(***************************************************************************)
Time == Int \cup {Nothing}
Docs == documents \cup Persisted
InProcess == {w \in Resolvers : resolver[w].pc = "process"}
Events == queued \cup {resolver[w].event : w \in InProcess}
(* How a document can be tied to a root: its event is stored or on its     *)
(* way, an alias of it says so, or it is the root's cached analysis.       *)
IsStored(d, r) == r \in DOMAIN policies /\ \E v \in policies[r].versions : v.doc = d
IsCarried(d, r) == \E e \in Events : e.doc = d /\ e.root = r
Saved(d, r) == IsStored(d, r) \/ IsCarried(d, r)
IsCached(d, r) == Analyzed(r) \in DOMAIN aliases /\ aliases[Analyzed(r)] = d
Known(d, r) == Saved(d, r) \/ r \in Roots(d) \/ IsCached(d, r)
Home(d, r) == \E x \in Docs : r = Candidate(x) /\ Akin(x, d)

DocOK(d) == d.anchors \in SUBSET Nat /\ d.published \in Time
ResolverOK(x) ==
    /\ x = [pc |-> x.pc, doc |-> x.doc, candidate |-> x.candidate, event |-> x.event]
    /\ x.pc \in {"idle", "check", "lookup", "resolve", "process"}
EventOK(e) ==
    /\ e = [doc |-> e.doc, root |-> e.root, published |-> e.published, provenance |-> e.provenance, make_current |-> e.make_current]
    /\ e.published \in Time
PolicyOK(p) ==
    /\ p = [versions |-> p.versions, current |-> p.current, provenance |-> p.provenance]
    /\ IsFiniteSet(p.versions) /\ p.current \in p.versions
    /\ \A v \in p.versions : v = [doc |-> v.doc, published |-> v.published] /\ v.published \in Time
AnchorRowOK(x) == x = [root |-> x.root, others |-> x.others]

DocsOK == \A d \in Docs : DocOK(d)
ResolversOK ==
    /\ DOMAIN resolver = Resolvers
    /\ \A w \in Resolvers : /\ ResolverOK(resolver[w])
                            /\ resolver[w].pc # "idle" => resolver[w].doc \in documents /\ resolver[w].doc.anchors # {}
                            /\ resolver[w].pc = "lookup" => resolver[w].candidate = Candidate(resolver[w].doc)
PoliciesOK == IsFiniteSet(DOMAIN policies) /\ \A r \in DOMAIN policies : PolicyOK(policies[r])
EventsOK == \A e \in Events : EventOK(e) /\ e.doc \in Docs
AliasesOK == \A r : /\ Policy(r) \in DOMAIN aliases => aliases[Policy(r)].published \in Time
                    /\ Analyzed(r) \in DOMAIN aliases => aliases[Analyzed(r)] \in Docs
RegistryOK == \A k \in DOMAIN registry : /\ AnchorRowOK(registry[k])
                                         /\ \E d \in Docs : IsStored(d, registry[k].root) /\ k \in Keys(d)
MishapsOK == "unrecorded" \in mishaps => "registry" \in mishaps
IdTypeOK == DocsOK /\ ResolversOK /\ PoliciesOK /\ EventsOK /\ AliasesOK /\ RegistryOK /\ MishapsOK

(* Before a key is lost every alias of a saved document names its root.    *)
LiveInv == "expired" \notin mishaps =>
    \A d \in Docs : \A r : Saved(d, r) \/ IsCached(d, r) => \A k \in Aliases(d) : k \in DOMAIN aliases /\ aliases[k] = r
(* A root is named after a document of its action, as long as no document  *)
(* names the instruments of two.                                           *)
HomeInv == ~Bridged => \A d \in Docs : \A r : Known(d, r) => Home(d, r)
AtResolve(d, c) == \E w \in Resolvers : resolver[w].pc = "resolve" /\ resolver[w].doc = d /\ resolver[w].candidate = c
CandidateInv == ~Bridged => \A d \in Docs : \A c : AtResolve(d, c) => Home(d, c)
(* While the registry can answer: documents of one action have one root,   *)
(* what is known is backed by what is saved, the registry holds what is    *)
(* stored, and a collector about to resolve has the root that is saved.    *)
Undisturbed == ~Bridged /\ mishaps \cap {"lookup", "registry", "unsaved", "lag", "window", "unknown"} = {}
OneInv == Undisturbed => \A d, p \in Docs : \A r, q : Known(d, r) /\ Known(p, q) /\ Akin(d, p) => r = q
BackedInv == Undisturbed => \A d \in Docs : \A r : Known(d, r) => \E p \in Docs : Saved(p, r) /\ Akin(p, d)
RowsInv == Undisturbed => \A d \in Docs : \A r : IsStored(d, r) =>
                     \A k \in Keys(d) : k \in DOMAIN registry /\ registry[k].root = r /\ registry[k].others = {}
ChosenInv == Undisturbed => \A d, p \in Docs : \A c, q : AtResolve(d, c) /\ Saved(p, q) /\ Akin(p, d) => Roots(d) # {} \/ c = q

(* A change in the report leads to an earlier disclosure of its event.     *)
ChangeOK(c) ==
    /\ c = [root |-> c.root, from |-> c.from, to |-> c.to, outcome |-> c.outcome]
    /\ c.root \in DOMAIN policies /\ c.from \in policies[c.root].versions /\ c.to \in policies[c.root].versions
    /\ SubstantivelyEqual(c.from, c.to) /\ Disclosed(c.from, c.to) /\ c.to.published < c.from.published
    /\ c.outcome = "changed" => [root |-> c.root, from |-> c.from, to |-> c.to, by |-> "changed"] \in moved
CorrectionInv == \A c \in correction : ChangeOK(c)
TieInv == LiveInv /\ HomeInv /\ OneInv /\ BackedInv
IdentityInv == IdTypeOK /\ TieInv /\ CandidateInv /\ RowsInv /\ ChosenInv /\ CorrectionInv
                 /\ ConflictsRecorded /\ EarliestWins /\ CorrectionsGuarded
-----------------------------------------------------------------------------

(* The least anchor of a document, after which a root is named, is one of  *)
(* its anchors.                                                            *)
LEMMA LeastOf ==
    ASSUME NEW S \in SUBSET Nat, S # {}
    PROVE  Min(S) \in S
BY Least DEF Min

(* An alias is neither a policy record nor a processed event.              *)
LEMMA AliasApart ==
    ASSUME NEW d, NEW k \in Aliases(d), NEW r, NEW q
    PROVE  k # Policy(r) /\ k # Analyzed(q)
<1>1. k[1] = "alias"
  BY DEF Aliases
<1>2. Policy(r)[1] = "policy" /\ Analyzed(q)[1] = "processed"
  BY DEF Policy, Analyzed
<1> QED
  BY <1>1, <1>2

(* A policy record and a processed event belong to one root.               *)
LEMMA KeyNames ==
    ASSUME NEW r, NEW q
    PROVE  /\ Policy(r) = Policy(q) => r = q
           /\ Analyzed(r) = Analyzed(q) => r = q
           /\ Policy(r) # Analyzed(q)
<1>1. Policy(r)[1] = "policy" /\ Analyzed(q)[1] = "processed" /\ Policy(r)[2] = r /\ Policy(q)[2] = q /\ Analyzed(r)[2] = r /\ Analyzed(q)[2] = q
  BY DEF Policy, Analyzed
<1> QED
  BY <1>1

(* Two documents with an alias in common are of one action.                *)
LEMMA AliasShared ==
    ASSUME NEW d, NEW p, p.anchors # {}, NEW k \in Aliases(d), k \in Aliases(p)
    PROVE  Akin(d, p)
<1>1. CASE \E a \in d.anchors, b \in p.anchors : k = <<"alias", a, d.stage>> /\ k = <<"alias", b, p.stage>>
  BY <1>1 DEF Akin
<1>2. CASE k = <<"alias", d.id, d.anchors, d.stage>> /\ k = <<"alias", p.id, p.anchors, p.stage>>
  BY <1>2 DEF Akin
<1>3. ASSUME NEW a, NEW s, NEW i, NEW t, NEW u PROVE <<"alias", a, s>> # <<"alias", i, t, u>>
  <2>1. Len(<<"alias", a, s>>) = 3 /\ Len(<<"alias", i, t, u>>) = 4
    OBVIOUS
  <2> QED
    BY <2>1
<1> QED
  BY <1>1, <1>2, <1>3 DEF Aliases

(* Two documents with a registry key in common are of one action.          *)
LEMMA KeyShared ==
    ASSUME NEW d, NEW p, NEW k \in Keys(d), k \in Keys(p)
    PROVE  Akin(d, p)
BY DEF Akin, Keys

(* Documents of one action have an alias in common.                        *)
LEMMA AkinAlias ==
    ASSUME NEW d, NEW p, Akin(d, p)
    PROVE  \E k \in Aliases(d) : k \in Aliases(p)
BY DEF Akin, Aliases

(* Being of one action goes both ways.                                     *)
LEMMA AkinSymmetric ==
    ASSUME NEW d, NEW p, Akin(d, p)
    PROVE  Akin(p, d)
BY DEF Akin

(* It carries over a third document unless one names the instruments of    *)
(* two actions.                                                            *)
LEMMA AkinTransitive ==
    ASSUME ~Bridged, NEW p \in Docs, NEW d \in Docs, NEW q \in Docs, Akin(p, d), Akin(d, q)
    PROVE  Akin(p, q)
BY DEF Akin, Bridged, Docs

(* A root is the home of one action only.                                  *)
LEMMA SameHome ==
    ASSUME DocsOK, ~Bridged, NEW d \in Docs, NEW p \in Docs, NEW r, Home(d, r), Home(p, r)
    PROVE  Akin(d, p)
<1>1. PICK x \in Docs : r = Candidate(x) /\ Akin(x, d)
  BY DEF Home
<1>2. PICK y \in Docs : r = Candidate(y) /\ Akin(y, p)
  BY DEF Home
<1>3. Min(x.anchors) \in x.anchors /\ Min(y.anchors) \in y.anchors
  BY <1>1, <1>2, LeastOf DEF Akin, DocsOK, DocOK
<1>4. Akin(x, y)
  BY <1>1, <1>2, <1>3 DEF Candidate, Akin
<1> QED
  BY <1>1, <1>2, <1>4, AkinTransitive, AkinSymmetric

(* A document is at home in the root it is the candidate for.              *)
LEMMA OwnHome ==
    ASSUME NEW d \in Docs, d.anchors # {}
    PROVE  Akin(d, d) /\ Home(d, Candidate(d))
BY DEF Home, Akin

(* All documents of an action are at home in the same roots.               *)
LEMMA HomeMoves ==
    ASSUME ~Bridged, NEW d \in Docs, NEW p \in Docs, Akin(d, p), NEW r, Home(d, r)
    PROVE  Home(p, r)
BY AkinTransitive DEF Home

(* A step that ties nothing new, and unties nothing of the history while   *)
(* nothing disturbs it.                                                    *)
LEMMA Narrowing ==
    ASSUME TieInv, Docs' = Docs, "expired" \in mishaps => "expired" \in mishaps', Undisturbed' => Undisturbed,
           \A d \in Docs : \A r : Saved(d, r)' => Saved(d, r),
           Undisturbed' => \A d \in Docs : \A r : Saved(d, r) => Saved(d, r)',
           \A d \in Docs : \A r : r \in Roots(d)' => r \in Roots(d),
           \A d \in Docs : \A r : IsCached(d, r)' => IsCached(d, r),
           "expired" \notin mishaps' => aliases' = aliases
    PROVE  TieInv'
<1>1. Bridged' = Bridged
  BY DEF Docs, Bridged
<1>2. ASSUME NEW d \in Docs, NEW r, Known(d, r)' PROVE Known(d, r)
  BY <1>2 DEF Known
<1>3. ASSUME NEW d \in Docs, NEW r, Home(d, r) PROVE Home(d, r)'
  BY <1>3 DEF Home
<1>4. LiveInv'
  BY DEF TieInv, LiveInv
<1>5. HomeInv'
  BY <1>1, <1>2, <1>3 DEF TieInv, HomeInv
<1>6. OneInv'
  BY <1>2 DEF TieInv, OneInv
<1>7. BackedInv'
  BY <1>2 DEF TieInv, BackedInv
<1> QED
  BY <1>4, <1>5, <1>6, <1>7 DEF TieInv

(* Such a step for the collectors that are about to resolve.               *)
LEMMA Waiting ==
    ASSUME CandidateInv, ChosenInv, Docs' = Docs, Undisturbed' => Undisturbed,
           \A d \in Docs : \A c : AtResolve(d, c)' => AtResolve(d, c),
           \A d \in Docs : \A r : Saved(d, r)' => Saved(d, r),
           Undisturbed' => \A d \in Docs : \A c : AtResolve(d, c)' /\ Roots(d) # {} => Roots(d)' # {}
    PROVE  CandidateInv' /\ ChosenInv'
<1>1. Bridged' = Bridged
  BY DEF Docs, Bridged
<1>2. ASSUME NEW d \in Docs, NEW r, Home(d, r) PROVE Home(d, r)'
  BY <1>2 DEF Home
<1>3. CandidateInv'
  BY <1>1, <1>2 DEF CandidateInv
<1>4. ASSUME Undisturbed', NEW d \in Docs, NEW p \in Docs, NEW c, NEW q, AtResolve(d, c)', Saved(p, q)', Akin(p, d)
      PROVE  Roots(d)' # {} \/ c = q
  BY <1>4 DEF ChosenInv
<1>5. ChosenInv'
  BY <1>4 DEF ChosenInv
<1> QED
  BY <1>3, <1>5

(* A step that stores nothing leaves the documents and the history as they *)
(* are.                                                                    *)
LEMMA SameStore ==
    ASSUME documents' = documents, policies' = policies
    PROVE  /\ Docs' = Docs /\ \A d, r : IsStored(d, r)' <=> IsStored(d, r)
           /\ DocsOK => DocsOK' 
           /\ PoliciesOK => PoliciesOK'
BY DEF Docs, IsStored, DocsOK, PoliciesOK, Persisted

(* A step that leaves the durable state alone keeps what is said of it.    *)
LEMMA DurableSame ==
    ASSUME documents' = documents, durableVars' = durableVars, Undisturbed' => Undisturbed, "unrecorded" \in mishaps => "unrecorded" \in mishaps',
           RegistryOK, RowsInv, CorrectionInv, ConflictsRecorded, EarliestWins, CorrectionsGuarded
    PROVE  RegistryOK' /\ RowsInv' /\ CorrectionInv' /\ ConflictsRecorded' /\ EarliestWins' /\ CorrectionsGuarded'
<1>1. policies' = policies /\ tooOld' = tooOld /\ registry' = registry /\ correction' = correction /\ moved' = moved
  BY DEF durableVars, toolVars
<1>2. Docs' = Docs /\ \A d, r : IsStored(d, r)' <=> IsStored(d, r)
  BY <1>1, SameStore
<1>3. RegistryOK'
  BY <1>1, <1>2 DEF RegistryOK
<1>4. RowsInv'
  BY <1>1, <1>2 DEF RowsInv
<1>5. CorrectionInv'
  BY <1>1 DEF CorrectionInv, ChangeOK
<1>6. ConflictsRecorded'
  BY <1>1 DEF ConflictsRecorded
<1>7. EarliestWins'
  BY <1>1 DEF EarliestWins
<1>8. CorrectionsGuarded'
  BY <1>1 DEF CorrectionsGuarded
<1> QED
  BY <1>3, <1>4, <1>5, <1>6, <1>7, <1>8

(* A collector that neither gains nor hands over an event.                 *)
LEMMA EventsSame ==
    ASSUME NEW w \in Resolvers, \A v \in Resolvers \ {w} : resolver'[v] = resolver[v],
           resolver[w].pc # "process", resolver'[w].pc # "process", queued' = queued
    PROVE  Events' = Events
<1>1. InProcess' = InProcess
  BY DEF InProcess
<1>2. \A v \in InProcess : resolver'[v] = resolver[v]
  BY DEF InProcess
<1> QED
  BY <1>1, <1>2 DEF Events

(* A step that leaves the events, the aliases and the history alone.       *)
LEMMA TiesSame ==
    ASSUME documents' = documents, policies' = policies, aliases' = aliases, Events' = Events
    PROVE  /\ \A d, r : Saved(d, r)' <=> Saved(d, r)
           /\ \A d : Roots(d)' = Roots(d)
           /\ \A d, r : IsCached(d, r)' <=> IsCached(d, r)
           /\ EventsOK => EventsOK' 
           /\ AliasesOK => AliasesOK'
<1>1. Docs' = Docs /\ \A d, r : IsStored(d, r)' <=> IsStored(d, r)
  BY SameStore
<1>2. \A d, r : IsCarried(d, r)' <=> IsCarried(d, r)
  BY DEF IsCarried
<1>3. \A d, r : Saved(d, r)' <=> Saved(d, r)
  BY <1>1, <1>2 DEF Saved
<1>4. \A d : Roots(d)' = Roots(d)
  BY DEF Roots
<1>5. \A d, r : IsCached(d, r)' <=> IsCached(d, r)
  BY DEF IsCached
<1>6. EventsOK => EventsOK' 
  BY <1>1 DEF EventsOK
<1>7. AliasesOK => AliasesOK'
  BY <1>1 DEF AliasesOK
<1> QED
  BY <1>3, <1>4, <1>5, <1>6, <1>7

(* A collector that moves on without an event: Take, Check and Lookup.     *)
LEMMA MovesOn ==
    ASSUME IdentityInv, NEW w \in Resolvers, NEW x, ResolverOK(x), resolver' = [resolver EXCEPT ![w] = x],
           x.pc # "process", resolver[w].pc # "process",
           x.pc # "idle" => x.doc \in documents /\ x.doc.anchors # {},
           x.pc = "lookup" => x.candidate = Candidate(x.doc),
           UNCHANGED <<documents, aliases, queued, durableVars>>,
           mishaps \subseteq mishaps', "unrecorded" \in mishaps' => "unrecorded" \in mishaps,
           x.pc = "resolve" => /\ ~Bridged => Home(x.doc, x.candidate)
                               /\ Undisturbed' => \A p \in Docs : \A q : Saved(p, q) /\ Akin(p, x.doc) => Roots(x.doc) # {} \/ x.candidate = q
    PROVE  IdentityInv'
<1> USE DEF IdentityInv, IdTypeOK
<1>1. DOMAIN resolver' = Resolvers /\ resolver'[w] = x /\ \A v \in Resolvers \ {w} : resolver'[v] = resolver[v]
  BY DEF ResolversOK
<1>2. policies' = policies /\ durableVars' = durableVars
  BY DEF durableVars
<1>3. Events' = Events
  BY <1>1, EventsSame
<1>4. /\ Docs' = Docs /\ \A d, r : IsStored(d, r)' <=> IsStored(d, r)
      /\ DocsOK' /\ PoliciesOK'
  BY <1>2, SameStore
<1>5. /\ \A d, r : Saved(d, r)' <=> Saved(d, r)
      /\ \A d : Roots(d)' = Roots(d)
      /\ \A d, r : IsCached(d, r)' <=> IsCached(d, r)
      /\ EventsOK' /\ AliasesOK'
  BY <1>2, <1>3, TiesSame
<1>6. (Bridged' = Bridged) /\ (Undisturbed' => Undisturbed)
  BY <1>4 DEF Bridged, Docs, Undisturbed
<1>7. ResolversOK'
  BY <1>1 DEF ResolversOK
<1>8. MishapsOK'
  BY DEF MishapsOK
<1>9. TieInv'
  BY <1>4, <1>5, <1>6, Narrowing
<1>10. \A d, c : AtResolve(d, c)' => AtResolve(d, c) \/ (x.pc = "resolve" /\ d = x.doc /\ c = x.candidate)
  BY <1>1 DEF AtResolve
<1>11. \A d \in Docs : \A r : Home(d, r) => Home(d, r)'
  BY <1>4 DEF Home
<1>12. CandidateInv'
  BY <1>4, <1>6, <1>10, <1>11 DEF CandidateInv
<1>13. ASSUME Undisturbed', NEW d \in Docs, NEW p \in Docs, NEW c, NEW q, AtResolve(d, c)', Saved(p, q)', Akin(p, d)
      PROVE  Roots(d)' # {} \/ c = q
  <2>1. Saved(p, q) /\ Roots(d)' = Roots(d)
    BY <1>5, <1>13
  <2>2. CASE AtResolve(d, c)
    BY <1>6, <1>13, <2>1, <2>2 DEF ChosenInv
  <2>3. CASE x.pc = "resolve" /\ d = x.doc /\ c = x.candidate
    BY <1>13, <2>1, <2>3
  <2> QED
    BY <1>10, <1>13, <2>2, <2>3
<1>14. ChosenInv'
  BY <1>4, <1>13 DEF ChosenInv
<1>15. RegistryOK' /\ RowsInv' /\ CorrectionInv' /\ ConflictsRecorded' /\ EarliestWins' /\ CorrectionsGuarded'
  BY <1>2, <1>6, DurableSame
<1> QED
  BY <1>4, <1>5, <1>7, <1>8, <1>9, <1>12, <1>14, <1>15

(* A document is taken.                                                    *)
LEMMA TakeStep ==
    ASSUME IdentityInv, NEW w \in Resolvers, Take(w)
    PROVE  IdentityInv'
<1>1. PICK d \in documents : d.anchors # {} /\ resolver' = [resolver EXCEPT ![w] = [Free EXCEPT !.pc = "check", !.doc = d]]
  BY DEF Take
<1>2. PICK x : x = [Free EXCEPT !.pc = "check", !.doc = d]
  OBVIOUS
<1>3. ResolverOK(x) /\ x.pc = "check" /\ x.doc = d
  BY <1>2 DEF ResolverOK, Free
<1>4. resolver[w].pc = "idle" /\ UNCHANGED <<documents, aliases, queued, durableVars>> /\ mishaps' = mishaps
  BY DEF Take
<1> QED
  BY <1>1, <1>2, <1>3, <1>4, MovesOn

(* Redis is asked first.                                                   *)
LEMMA CheckStep ==
    ASSUME IdentityInv, NEW w \in Resolvers, Check(w)
    PROVE  IdentityInv'
<1> DEFINE d == resolver[w].doc
           pc == IF Roots(d) # {} THEN "resolve" ELSE "lookup"
<1>0. PICK x : x = [pc |-> pc, doc |-> d, candidate |-> Candidate(d), event |-> resolver[w].event]
  OBVIOUS
<1>1. /\ resolver[w].pc = "check" /\ UNCHANGED <<documents, aliases, queued, durableVars>> /\ mishaps' = mishaps
      /\ resolver' = [resolver EXCEPT ![w].candidate = Candidate(d), ![w].pc = pc]
  BY DEF Check, Untroubled
<1>2. ResolversOK /\ ResolverOK(resolver[w]) /\ d \in documents /\ d.anchors # {}
  BY <1>1 DEF IdentityInv, IdTypeOK, ResolversOK
<1>3. resolver' = [resolver EXCEPT ![w] = x]
  BY <1>0, <1>1, <1>2 DEF ResolversOK, ResolverOK
<1>4. ResolverOK(x) /\ x.pc = pc /\ x.doc = d /\ x.candidate = Candidate(d)
  BY <1>0 DEF ResolverOK
<1>5. Home(d, Candidate(d))
  BY <1>2, OwnHome DEF Docs
<1>6. x.pc = "resolve" => Roots(d) # {}
  BY <1>4
<1>7. x.pc # "process" /\ x.pc # "idle" /\ resolver[w].pc # "process"
  BY <1>1, <1>4
<1> HIDE DEF d, pc
<1> QED
  BY <1>1, <1>2, <1>3, <1>4, <1>5, <1>6, <1>7, MovesOn

(* What the registry says of a document is of a stored document of its     *)
(* action, and it says one thing while nothing disturbs it.               *)
LEMMA RowRoot ==
    ASSUME RegistryOK, NEW d \in Docs, NEW k \in Keys(d), k \in DOMAIN registry
    PROVE  \E p \in Docs : IsStored(p, registry[k].root) /\ Akin(p, d) /\ k \in Keys(p)
BY KeyShared DEF RegistryOK

(* While nothing disturbs it a row of the registry names the root of every *)
(* saved document of its action.                                           *)
LEMMA OneAnswer ==
    ASSUME Undisturbed, RegistryOK, RowsInv, OneInv, NEW d \in Docs, NEW k \in Keys(d), k \in DOMAIN registry
    PROVE  /\ registry[k].others = {}
           /\ \A p \in Docs : \A q : Saved(p, q) /\ Akin(p, d) => registry[k].root = q
<1>1. PICK s \in Docs : IsStored(s, registry[k].root) /\ Akin(s, d) /\ k \in Keys(s)
  BY RowRoot
<1>2. registry[k].others = {}
  BY <1>1 DEF RowsInv
<1>3. ASSUME NEW p \in Docs, NEW q, Saved(p, q), Akin(p, d) PROVE registry[k].root = q
  <2>1. Akin(s, p)
    BY <1>1, <1>3, AkinTransitive, AkinSymmetric DEF Undisturbed
  <2>2. Known(s, registry[k].root) /\ Known(p, q)
    BY <1>1, <1>3 DEF Known, Saved
  <2> QED
    BY <2>1, <2>2 DEF OneInv
<1> QED
  BY <1>2, <1>3

(* The root a lookup returns is that of a row of the document.             *)
LEMMA LookedRow ==
    ASSUME NEW d, Looked(d) = "hit"
    PROVE  \E k \in Keys(d) : k \in DOMAIN registry /\ LookedRoot(d) = registry[k].root
<1> DEFINE found == {registry[k] : k \in Keys(d) \cap DOMAIN registry}
<1>1. found # {}
  BY DEF Looked
<1>2. (CHOOSE r \in found : TRUE) \in found
  BY <1>1
<1>3. LookedRoot(d) = (CHOOSE r \in found : TRUE).root
  BY DEF LookedRoot
<1> QED
  BY <1>2, <1>3

(* While nothing disturbs it a lookup finds the root of a stored document  *)
(* it shares a readable anchor with.                                       *)
LEMMA LookupAnswers ==
    ASSUME Undisturbed, RegistryOK, RowsInv, OneInv, NEW d \in Docs, Looked(d) # "hit",
           NEW p \in Docs, NEW q, IsStored(p, q), Akin(p, d), NEW k \in Keys(d), k \in Keys(p)
    PROVE  FALSE
<1> DEFINE found == {registry[j] : j \in Keys(d) \cap DOMAIN registry}
<1>1. k \in DOMAIN registry
  BY DEF RowsInv
<1>2. found # {}
  BY <1>1
<1>3. ASSUME NEW j \in Keys(d) \cap DOMAIN registry PROVE registry[j].others = {} /\ registry[j].root = q
  BY OneAnswer DEF Saved
<1>4. \A a, b \in found : a.others = {} /\ a.root = b.root
  BY <1>3
<1> QED
  BY <1>2, <1>4 DEF Looked

(* A collector sent on to the script keeps its document and candidate.     *)
LEMMA Redirected ==
    ASSUME NEW x, ResolverOK(x), NEW y, y = [x EXCEPT !.pc = "resolve"]
    PROVE  ResolverOK(y) /\ y.pc = "resolve" /\ y.doc = x.doc /\ y.candidate = x.candidate
BY DEF ResolverOK

(* The registry is asked.                                                  *)
LEMMA LookupStep ==
    ASSUME IdentityInv, NEW w \in Resolvers, Lookup(w)
    PROVE  IdentityInv'
<1> DEFINE d == resolver[w].doc
           hidden(p) == Akin(p, d) /\ Keys(p) \cap Keys(d) = {}
           noted == (IF Looked(d) = "conflict" THEN {"conflict"} ELSE {})
                    \cup (IF \E p \in Carried : Keys(p) \cap Keys(d) # {} THEN {"lag"} ELSE {})
                    \cup (IF \E p \in Carried \cup Persisted : hidden(p) THEN {"unknown"} ELSE {})
<1>1. resolver[w].pc = "lookup" /\ UNCHANGED <<documents, aliases, queued, durableVars>>
  BY DEF Lookup
<1>2. /\ ResolversOK /\ ResolverOK(resolver[w]) /\ d \in documents /\ d \in Docs /\ d.anchors # {}
      /\ resolver[w].candidate = Candidate(d)
  BY <1>1 DEF IdentityInv, IdTypeOK, ResolversOK, Docs
<1>3. Home(d, Candidate(d))
  BY <1>2, OwnHome
<1>4. \/ /\ Looked(d) = "hit" /\ mishaps' = mishaps
         /\ resolver' = [resolver EXCEPT ![w].candidate = LookedRoot(d), ![w].pc = "resolve"]
      \/ Looked(d) # "hit" /\ mishaps' = mishaps \cup noted /\ resolver' = [resolver EXCEPT ![w].pc = "resolve"]
      \/ mishaps' = mishaps \cup {"lookup"} /\ resolver' = [resolver EXCEPT ![w].pc = "resolve"]
  BY DEF Lookup, Untroubled, Proceed, Mishap
<1>5. RegistryOK /\ RowsInv /\ OneInv /\ ResolversOK
  BY DEF IdentityInv, IdTypeOK, TieInv
<1>6. Docs' = Docs /\ (Bridged' = Bridged)
  BY <1>1 DEF durableVars, Docs, Persisted, Bridged
<1>7. CASE Looked(d) = "hit" /\ mishaps' = mishaps /\ resolver' = [resolver EXCEPT ![w].candidate = LookedRoot(d), ![w].pc = "resolve"]
  <2>1. PICK k \in Keys(d) : k \in DOMAIN registry /\ LookedRoot(d) = registry[k].root
    BY <1>7, LookedRow
  <2>0. PICK c : c = LookedRoot(d)
    OBVIOUS
  <2>2. PICK y : y = [resolver[w] EXCEPT !.candidate = c, !.pc = "resolve"]
    OBVIOUS
  <2>3. resolver' = [resolver EXCEPT ![w] = y]
    BY <1>2, <1>7, <2>0, <2>2 DEF ResolversOK
  <2>4. PICK p \in Docs : IsStored(p, LookedRoot(d)) /\ Akin(p, d)
    BY <1>2, <1>5, <2>1, RowRoot
  <2>5. ~Bridged => Home(d, LookedRoot(d))
    BY <1>2, <2>4, HomeMoves DEF IdentityInv, TieInv, HomeInv, Known, Saved
  <2>6. Undisturbed => \A s \in Docs : \A q : Saved(s, q) /\ Akin(s, d) => LookedRoot(d) = q
    BY <1>2, <1>5, <2>1, OneAnswer
  <2>7. Undisturbed' => Undisturbed
    BY <1>6, <1>7 DEF Undisturbed
  <2>8. ResolverOK(y) /\ y.pc = "resolve" /\ y.doc = d /\ y.candidate = LookedRoot(d)
    <3>1. PICK z : z = resolver[w] /\ ResolverOK(z)
      BY <1>2
    <3>2. y = [z EXCEPT !.candidate = c, !.pc = "resolve"]
      BY <2>2, <3>1
    <3>3. ResolverOK(y) /\ y.pc = "resolve" /\ y.doc = z.doc /\ y.candidate = c
      BY <3>1, <3>2 DEF ResolverOK
    <3> QED
      BY <2>0, <3>1, <3>3
  <2> HIDE DEF d, noted
  <2> QED
    BY <1>1, <1>2, <1>7, <2>3, <2>5, <2>6, <2>7, <2>8, MovesOn
<1>8. ASSUME resolver' = [resolver EXCEPT ![w].pc = "resolve"], NEW g, mishaps' = mishaps \cup g, "unrecorded" \notin g,
             Undisturbed' => \A p \in Docs : \A q : ~(Saved(p, q) /\ Akin(p, d))
      PROVE  IdentityInv'
  <2>1. PICK y : y = [resolver[w] EXCEPT !.pc = "resolve"]
    OBVIOUS
  <2>2. resolver' = [resolver EXCEPT ![w] = y]
    BY <1>2, <1>8, <2>1 DEF ResolversOK
  <2>3. ResolverOK(y) /\ y.pc = "resolve" /\ y.doc = d /\ y.candidate = Candidate(d)
    BY <1>2, <2>1, Redirected
  <2> HIDE DEF d, noted
  <2> QED
    BY <1>1, <1>2, <1>3, <1>8, <2>2, <2>3, MovesOn
<1>9. CASE Looked(d) # "hit" /\ mishaps' = mishaps \cup noted /\ resolver' = [resolver EXCEPT ![w].pc = "resolve"]
  <2>1. "unrecorded" \notin noted
    OBVIOUS
  <2>2. ASSUME Undisturbed', NEW p \in Docs, NEW q, Saved(p, q), Akin(p, d) PROVE FALSE
    <3>1. Undisturbed
      BY <1>6, <1>9, <2>2 DEF Undisturbed
    <3>2. "lag" \notin noted /\ "unknown" \notin noted
      BY <1>9, <2>2 DEF Undisturbed
    <3>3. /\ \A s \in Carried : Keys(s) \cap Keys(d) = {}
          /\ \A s \in Carried \cup Persisted : ~hidden(s)
      BY <3>2
    <3>4. IsCarried(p, q) => p \in Carried
      BY DEF IsCarried, Carried, Events, InProcess
    <3>5. IsStored(p, q) => p \in Persisted
      BY DEF IsStored, Persisted
    <3>6. Keys(p) \cap Keys(d) # {} /\ IsStored(p, q)
      BY <2>2, <3>3, <3>4, <3>5 DEF Saved
    <3>7. PICK k \in Keys(d) : k \in Keys(p)
      BY <3>6
    <3> HIDE DEF d, noted
    <3> QED
      BY <1>2, <1>5, <1>9, <2>2, <3>1, <3>6, <3>7, LookupAnswers
  <2> HIDE DEF d, noted
  <2> QED
    BY <1>8, <1>9, <2>1, <2>2
<1>10. CASE mishaps' = mishaps \cup {"lookup"} /\ resolver' = [resolver EXCEPT ![w].pc = "resolve"]
  <2>1. ~Undisturbed'
    BY <1>10 DEF Undisturbed
  <2> QED
    BY <1>8, <1>10, <2>1
<1> HIDE DEF d, noted
<1> QED
  BY <1>4, <1>7, <1>9, <1>10

(* Keys expire.                                                            *)
LEMMA LoseStep ==
    ASSUME IdentityInv, Lose
    PROVE  IdentityInv'
<1> USE DEF IdentityInv, IdTypeOK
<1>1. /\ UNCHANGED <<documents, resolver, queued, durableVars>>
      /\ policies' = policies
      /\ mishaps' = mishaps \cup {"expired"} \cup {"window" : w \in {x \in Resolvers : resolver[x].pc = "resolve"}}
  BY DEF Lose, durableVars
<1>2. PICK gone : aliases' = [k \in DOMAIN aliases \ gone |-> aliases[k]]
  BY DEF Lose
<1>3. /\ Docs' = Docs /\ \A d, r : IsStored(d, r)' <=> IsStored(d, r)
      /\ DocsOK' /\ PoliciesOK'
  BY <1>1, SameStore
<1>4. (Events' = Events) /\ \A d, c : AtResolve(d, c)' <=> AtResolve(d, c)
  BY <1>1 DEF Events, InProcess, AtResolve
<1>5. \A d, r : Saved(d, r)' <=> Saved(d, r)
  BY <1>3, <1>4 DEF Saved, IsCarried
<1>6. \A k \in DOMAIN aliases' : k \in DOMAIN aliases /\ aliases'[k] = aliases[k]
  BY <1>2
<1>7. /\ \A d, r : r \in Roots(d)' => r \in Roots(d)
      /\ \A d, r : IsCached(d, r)' => IsCached(d, r)
  BY <1>6 DEF Roots, IsCached
<1>8. (Bridged' = Bridged) /\ (Undisturbed' => Undisturbed) /\ "expired" \in mishaps'
  BY <1>1, <1>3 DEF Bridged, Docs, Undisturbed
<1>9. ResolversOK' /\ EventsOK' /\ MishapsOK'
  BY <1>1, <1>3, <1>4 DEF ResolversOK, EventsOK, MishapsOK
<1>10. AliasesOK'
  BY <1>3, <1>6 DEF AliasesOK
<1>11. TieInv'
  BY <1>3, <1>5, <1>7, <1>8, Narrowing
<1>12. Undisturbed' => \A d, c : ~AtResolve(d, c)
  BY <1>1 DEF Undisturbed, AtResolve
<1>13. CandidateInv' /\ ChosenInv'
  BY <1>3, <1>4, <1>5, <1>8, <1>12, Waiting
<1>14. RegistryOK' /\ RowsInv' /\ CorrectionInv' /\ ConflictsRecorded' /\ EarliestWins' /\ CorrectionsGuarded'
  BY <1>1, <1>8, DurableSame
<1> QED
  BY <1>3, <1>9, <1>10, <1>11, <1>13, <1>14

(* An event does not reach the history.                                    *)
LEMMA DropStep ==
    ASSUME IdentityInv, Drop
    PROVE  IdentityInv'
<1> USE DEF IdentityInv, IdTypeOK
<1>1. /\ UNCHANGED <<documents, aliases, resolver, durableVars>>
      /\ policies' = policies
      /\ mishaps' = mishaps \cup {"unsaved"} /\ queued' \subseteq queued
  BY DEF Drop, Mishap, durableVars
<1>2. /\ Docs' = Docs /\ \A d, r : IsStored(d, r)' <=> IsStored(d, r)
      /\ DocsOK' /\ PoliciesOK'
  BY <1>1, SameStore
<1>3. (Events' \subseteq Events) /\ \A d, c : AtResolve(d, c)' <=> AtResolve(d, c)
  BY <1>1 DEF Events, InProcess, AtResolve
<1>4. \A d, r : Saved(d, r)' => Saved(d, r)
  BY <1>2, <1>3 DEF Saved, IsCarried
<1>5. /\ \A d : Roots(d)' = Roots(d)
      /\ \A d, r : IsCached(d, r)' <=> IsCached(d, r)
  BY <1>1 DEF Roots, IsCached
<1>6. (Bridged' = Bridged) /\ ~Undisturbed' /\ ("expired" \in mishaps => "expired" \in mishaps')
  BY <1>1, <1>2 DEF Bridged, Docs, Undisturbed
<1>7. ResolversOK' /\ EventsOK' /\ MishapsOK' /\ AliasesOK'
  BY <1>1, <1>2, <1>3 DEF ResolversOK, EventsOK, MishapsOK, AliasesOK
<1>8. TieInv'
  BY <1>1, <1>2, <1>4, <1>5, <1>6, Narrowing
<1>9. CandidateInv' /\ ChosenInv'
  BY <1>2, <1>3, <1>4, <1>6, Waiting
<1>10. RegistryOK' /\ RowsInv' /\ CorrectionInv' /\ ConflictsRecorded' /\ EarliestWins' /\ CorrectionsGuarded'
  BY <1>1, <1>6, DurableSame
<1> QED
  BY <1>2, <1>7, <1>8, <1>9, <1>10

(* Whether the event that is submitted has the document's own analysis or  *)
(* the one its root has cached, the two are of one action.                 *)
LEMMA Rearranged ==
    ASSUME DocsOK, TieInv, CandidateInv, ChosenInv, Docs' = Docs, Undisturbed' => Undisturbed, "expired" \in mishaps => "expired" \in mishaps',
           NEW e, e.doc \in Docs, Saved(e.doc, e.root),
           \A d \in Docs : \A r : Saved(d, r)' => Saved(d, r) \/ IsCached(d, r),
           \A d \in Docs : \A r : IsCached(d, r)' => Saved(d, r) \/ IsCached(d, r),
           \A d : \A k \in Aliases(d) : (k \in DOMAIN aliases' <=> k \in DOMAIN aliases) /\ (k \in DOMAIN aliases => aliases'[k] = aliases[k]),
           Undisturbed' => \A d \in Docs : \A r : Saved(d, r) =>
                      Saved(d, r)' \/ (d = e.doc /\ r = e.root /\ \E c \in Docs : Saved(c, r)' /\ IsCached(c, r)),
           \A d, c : AtResolve(d, c)' => AtResolve(d, c)
    PROVE  TieInv' /\ CandidateInv' /\ ChosenInv'
<1> USE DEF TieInv
<1>1. Bridged' = Bridged
  BY DEF Docs, Bridged
<1>2. \A d, r : r \in Roots(d)' <=> r \in Roots(d)
  BY DEF Roots
<1>3. ASSUME NEW d \in Docs, NEW r, Known(d, r)' PROVE Known(d, r)
  BY <1>2, <1>3 DEF Known
<1>4. ASSUME NEW d \in Docs, NEW r, Home(d, r) PROVE Home(d, r)'
  BY <1>4 DEF Home
<1>5. LiveInv'
  BY DEF LiveInv
<1>6. HomeInv'
  BY <1>1, <1>3, <1>4 DEF HomeInv
<1>7. OneInv'
  BY <1>3 DEF OneInv
<1>8. ASSUME Undisturbed', NEW d \in Docs, NEW r, Known(d, r)' PROVE \E p \in Docs : Saved(p, r)' /\ Akin(p, d)
  <2>1. PICK p \in Docs : Saved(p, r) /\ Akin(p, d)
    BY <1>3, <1>8 DEF BackedInv
  <2>2. CASE Saved(p, r)'
    BY <2>1, <2>2
  <2>3. CASE p = e.doc /\ r = e.root /\ \E c \in Docs : Saved(c, r)' /\ IsCached(c, r)
    <3>1. PICK c \in Docs : Saved(c, r)' /\ IsCached(c, r)
      BY <2>3
    <3>2. ~Bridged
      BY <1>8 DEF Undisturbed
    <3>3. Home(c, r) /\ Home(p, r)
      BY <2>1, <3>1, <3>2 DEF HomeInv, Known
    <3>4. Akin(c, p)
      BY <3>2, <3>3, SameHome
    <3> QED
      BY <2>1, <3>1, <3>2, <3>4, AkinTransitive
  <2> QED
    BY <1>8, <2>1, <2>2, <2>3
<1>9. BackedInv'
  BY <1>8 DEF BackedInv
<1>10. CandidateInv'
  BY <1>1, <1>4 DEF CandidateInv
<1>11. ASSUME Undisturbed', NEW d \in Docs, NEW p \in Docs, NEW c, NEW q, AtResolve(d, c)', Saved(p, q)', Akin(p, d)
       PROVE  Roots(d)' # {} \/ c = q
  <2>1. Undisturbed /\ ~Bridged /\ Known(p, q)
    BY <1>11 DEF Undisturbed, Known
  <2>2. PICK s \in Docs : Saved(s, q) /\ Akin(s, p)
    BY <2>1 DEF BackedInv
  <2>3. Akin(s, d)
    BY <1>11, <2>1, <2>2, AkinTransitive
  <2>4. Roots(d) # {} \/ c = q
    BY <1>11, <2>1, <2>2, <2>3 DEF ChosenInv
  <2> QED
    BY <1>2, <2>4
<1>12. ChosenInv'
  BY <1>11 DEF ChosenInv
<1> QED
  BY <1>5, <1>6, <1>7, <1>9, <1>10, <1>12

(* An event is handed to the writers, or withheld.                         *)
LEMMA ProcessStep ==
    ASSUME IdentityInv, NEW w \in Resolvers, Process(w)
    PROVE  IdentityInv'
<1> USE DEF IdentityInv, IdTypeOK
<1>0. PICK e : e = resolver[w].event
  OBVIOUS
<1>1. /\ resolver[w].pc = "process" /\ resolver' = [resolver EXCEPT ![w] = Free]
      /\ UNCHANGED <<documents, durableVars>> /\ policies' = policies
      /\ mishaps' = mishaps \cup IF queued' = queued THEN {"unsaved"} ELSE {}
  BY DEF Process, durableVars
<1>2. \/ queued' = queued \cup {[e EXCEPT !.make_current = FALSE]} /\ UNCHANGED aliases
      \/ /\ Analyzed(e.root) \in DOMAIN aliases
         /\ queued' = queued \cup {[e EXCEPT !.doc = aliases[Analyzed(e.root)]]} /\ UNCHANGED aliases
      \/ /\ queued' = queued \cup {e}
         /\ aliases' = [k \in DOMAIN aliases \cup {Analyzed(e.root)} |-> IF k = Analyzed(e.root) THEN e.doc ELSE aliases[k]]
      \/ UNCHANGED <<queued, aliases>>
  BY <1>0 DEF Process
<1>3. e \in Events /\ EventOK(e) /\ e.doc \in Docs
  BY <1>0, <1>1 DEF Events, InProcess, EventsOK
<1>4. /\ DOMAIN resolver' = Resolvers /\ resolver'[w].pc = "idle"
      /\ \A v \in Resolvers \ {w} : resolver'[v] = resolver[v]
      /\ ResolverOK(resolver'[w])
  BY <1>1 DEF ResolversOK, Free, ResolverOK
<1>5. ResolversOK'
  BY <1>1, <1>4 DEF ResolversOK
<1>6. /\ Docs' = Docs /\ \A d, r : IsStored(d, r)' <=> IsStored(d, r)
      /\ DocsOK' /\ PoliciesOK'
  BY <1>1, SameStore
<1>7. \A d, c : AtResolve(d, c)' => AtResolve(d, c)
  BY <1>4 DEF AtResolve
<1>8. /\ Bridged' = Bridged /\ (Undisturbed' => Undisturbed) /\ (Undisturbed' => queued' # queued) /\ MishapsOK'
      /\ "expired" \in mishaps => "expired" \in mishaps'
  BY <1>1, <1>6 DEF Bridged, Docs, Undisturbed, MishapsOK
\* Of the events, `e` may go and the submitted one comes.
<1>9. /\ \A g \in Events' : g \in Events \/ g \in queued'
      /\ \A g \in Events : g = e \/ g \in Events' \/ g \in queued
      /\ queued' \subseteq Events'
  BY <1>0, <1>4 DEF Events, InProcess
<1>10. PICK f : /\ EventOK(f) /\ f.root = e.root /\ f.doc \in Docs
                /\ f.doc = e.doc \/ IsCached(f.doc, f.root)
                /\ queued' = queued \cup {f} \/ queued' = queued
  <2>1. CASE queued' = queued \cup {[e EXCEPT !.make_current = FALSE]}
    <3>1. PICK f : f = [e EXCEPT !.make_current = FALSE]
      OBVIOUS
    <3>2. EventOK(f) /\ f.root = e.root /\ f.doc = e.doc
      BY <1>3, <3>1 DEF EventOK
    <3> QED
      BY <1>3, <2>1, <3>1, <3>2
  <2>2. CASE Analyzed(e.root) \in DOMAIN aliases /\ queued' = queued \cup {[e EXCEPT !.doc = aliases[Analyzed(e.root)]]}
    <3>1. PICK c : c = aliases[Analyzed(e.root)]
      OBVIOUS
    <3>2. PICK f : f = [e EXCEPT !.doc = c]
      OBVIOUS
    <3>3. EventOK(f) /\ f.root = e.root /\ f.doc = c
      BY <1>3, <3>2 DEF EventOK
    <3>4. c \in Docs /\ IsCached(c, e.root)
      BY <2>2, <3>1 DEF AliasesOK, IsCached
    <3> QED
      BY <2>2, <3>1, <3>2, <3>3, <3>4
  <2>3. CASE queued' = queued \cup {e} \/ queued' = queued
    BY <1>3, <2>3
  <2> QED
    BY <1>2, <2>1, <2>2, <2>3
<1>11. queued \subseteq Events /\ queued \subseteq queued'
  BY <1>10 DEF Events
<1>12. EventsOK'
  BY <1>6, <1>9, <1>10, <1>11 DEF EventsOK
<1>13. /\ \A k \in DOMAIN aliases : k \in DOMAIN aliases' /\ (k # Analyzed(e.root) => aliases'[k] = aliases[k])
       /\ \A k \in DOMAIN aliases' : k \in DOMAIN aliases \/ k = Analyzed(e.root)
       /\ aliases' = aliases \/ aliases'[Analyzed(e.root)] = e.doc
  BY <1>2
<1>14. AliasesOK'
  <2>1. ASSUME NEW r, Policy(r) \in DOMAIN aliases' PROVE aliases'[Policy(r)].published \in Time
    <3>1. Policy(r) # Analyzed(e.root)
      BY KeyNames
    <3> QED
      BY <1>13, <2>1, <3>1 DEF AliasesOK
  <2>2. ASSUME NEW r, Analyzed(r) \in DOMAIN aliases' PROVE aliases'[Analyzed(r)] \in Docs
    BY <1>3, <1>13, <2>2 DEF AliasesOK
  <2> QED
    BY <1>6, <2>1, <2>2 DEF AliasesOK
<1>15. ASSUME NEW d, NEW k \in Aliases(d)
       PROVE  (k \in DOMAIN aliases' <=> k \in DOMAIN aliases) /\ (k \in DOMAIN aliases => aliases'[k] = aliases[k])
  BY <1>13, AliasApart
<1>16. Saved(e.doc, e.root)
  BY <1>3 DEF Saved, IsCarried
<1>17. ASSUME NEW d \in Docs, NEW r, Saved(d, r)' PROVE Saved(d, r) \/ IsCached(d, r)
  <2>1. CASE IsStored(d, r)'
    BY <1>6, <2>1 DEF Saved
  <2>2. CASE IsCarried(d, r)'
    <3>1. PICK g \in Events' : g.doc = d /\ g.root = r
      BY <2>2 DEF IsCarried
    <3>2. g \in Events \/ g = f
      BY <1>9, <1>10, <1>11, <3>1
    <3> QED
      BY <1>10, <1>16, <3>1, <3>2 DEF Saved, IsCarried
  <2> QED
    BY <1>17, <2>1, <2>2 DEF Saved
<1>18. ASSUME NEW d \in Docs, NEW r, IsCached(d, r)' PROVE Saved(d, r) \/ IsCached(d, r)
  BY <1>13, <1>16, <1>18, KeyNames DEF IsCached
<1>19. ASSUME Undisturbed', NEW d \in Docs, NEW r, Saved(d, r)
       PROVE  Saved(d, r)' \/ (d = e.doc /\ r = e.root /\ \E c \in Docs : Saved(c, r)' /\ IsCached(c, r))
  <2>1. f \in queued'
    BY <1>8, <1>10, <1>19
  <2>2. Saved(f.doc, e.root)'
    BY <1>9, <1>10, <2>1 DEF Saved, IsCarried
  <2>3. CASE IsStored(d, r)
    BY <1>6, <2>3 DEF Saved
  <2>4. CASE IsCarried(d, r)
    <3>1. PICK g \in Events : g.doc = d /\ g.root = r
      BY <2>4 DEF IsCarried
    <3>2. CASE g = e
      BY <1>10, <2>2, <3>1, <3>2
    <3>3. CASE g \in Events'
      BY <3>1, <3>3 DEF Saved, IsCarried
    <3> QED
      BY <1>9, <1>11, <3>1, <3>2, <3>3
  <2> QED
    BY <1>19, <2>3, <2>4 DEF Saved
<1>20. TieInv' /\ CandidateInv' /\ ChosenInv'
  BY <1>3, <1>6, <1>7, <1>8, <1>15, <1>16, <1>17, <1>18, <1>19, Rearranged
<1>21. "unrecorded" \in mishaps => "unrecorded" \in mishaps'
  BY <1>1
<1>22. RegistryOK' /\ RowsInv' /\ CorrectionInv' /\ ConflictsRecorded' /\ EarliestWins' /\ CorrectionsGuarded'
  BY <1>1, <1>8, <1>21, DurableSame
<1> QED
  BY <1>5, <1>6, <1>8, <1>12, <1>14, <1>20, <1>22

(* The lesser of two publication times is a time.                          *)
LEMMA LesserOfTwo ==
    ASSUME NEW a \in Int, NEW b \in Int
    PROVE  Min({a, b}) \in Int
<1>1. CASE a <= b
  <2>1. \E x \in {a, b} : \A y \in {a, b} : x <= y
    BY <1>1
  <2> QED
    BY <2>1 DEF Min
<1>2. CASE b <= a
  <2>1. \E x \in {a, b} : \A y \in {a, b} : x <= y
    BY <1>2
  <2> QED
    BY <2>1 DEF Min
<1> QED
  BY <1>1, <1>2

(* A document becomes tied to a root that names it or that its collector   *)
(* has chosen, and its aliases name that root from then on.                *)
LEMMA Resolved ==
    ASSUME DocsOK, TieInv, CandidateInv, ChosenInv, Docs' = Docs, mishaps' = mishaps,
           NEW d \in Docs, d.anchors # {}, NEW root, NEW candidate, AtResolve(d, candidate),
           \A p, q \in Roots(d) : p = q,
           root \in Roots(d) \/ (Roots(d) = {} /\ root = candidate),
           \A k \in Aliases(d) : k \in DOMAIN aliases' /\ aliases'[k] = root,
           \A p : \A k \in Aliases(p) : k \notin Aliases(d) =>
             (k \in DOMAIN aliases' <=> k \in DOMAIN aliases) /\ (k \in DOMAIN aliases => aliases'[k] = aliases[k]),
           \A p, r : Saved(p, r)' <=> Saved(p, r) \/ (p = d /\ r = root),
           \A p, r : IsCached(p, r)' <=> IsCached(p, r),
           \A p, c : AtResolve(p, c)' => AtResolve(p, c)
    PROVE  TieInv' /\ CandidateInv' /\ ChosenInv'
<1> USE DEF TieInv
<1>1. (Bridged' = Bridged) /\ (Undisturbed' <=> Undisturbed) /\ (Undisturbed => ~Bridged)
  BY DEF Docs, Bridged, Undisturbed
<1>2. Akin(d, d)
  BY OwnHome
<1>3. ASSUME NEW p \in Docs, NEW r, r \in Roots(p)' PROVE r \in Roots(p) \/ (r = root /\ Akin(d, p))
  <2>1. PICK k \in Aliases(p) : k \in DOMAIN aliases' /\ r = aliases'[k]
    BY <1>3 DEF Roots
  <2>2. CASE k \in Aliases(d)
    <3>1. Akin(d, p)
      BY <2>1, <2>2, AliasShared, AkinSymmetric
    <3> QED
      BY <2>1, <2>2, <3>1
  <2>3. CASE k \notin Aliases(d)
    BY <2>1, <2>3 DEF Roots
  <2> QED
    BY <2>2, <2>3
<1>4. ASSUME NEW p \in Docs, NEW r, Known(p, r)' PROVE Known(p, r) \/ (r = root /\ Akin(d, p))
  BY <1>2, <1>3, <1>4 DEF Known
<1>5. ASSUME NEW p \in Docs, NEW r, Home(p, r) PROVE Home(p, r)'
  BY <1>5 DEF Home
<1>6. ~Bridged => Home(d, root)
  BY DEF HomeInv, Known, CandidateInv
<1>7. LiveInv'
  <2>1. ASSUME "expired" \notin mishaps, NEW p \in Docs, NEW r, Saved(p, r) \/ IsCached(p, r), NEW k \in Aliases(p)
        PROVE  k \in DOMAIN aliases' /\ aliases'[k] = r
    <3>1. k \in DOMAIN aliases /\ aliases[k] = r
      BY <2>1 DEF LiveInv
    <3>2. CASE k \in Aliases(d)
      <4>1. r \in Roots(d)
        BY <3>1, <3>2 DEF Roots
      <4> QED
        BY <3>2, <4>1
    <3> QED
      BY <3>1, <3>2
  <2> QED
    BY <2>1 DEF LiveInv
<1>8. HomeInv'
  <2>1. ASSUME ~Bridged, NEW p \in Docs, NEW r, Known(p, r)' PROVE Home(p, r)'
    BY <1>4, <1>5, <1>6, <2>1, HomeMoves DEF HomeInv
  <2> QED
    BY <1>1, <2>1 DEF HomeInv
<1>9. ASSUME Undisturbed, NEW p \in Docs, NEW q, Known(p, q), Akin(p, d) PROVE q = root
  <2>1. CASE root \in Roots(d)
    BY <1>9, <2>1 DEF Known, OneInv
  <2>2. CASE Roots(d) = {} /\ root = candidate
    <3>1. PICK s \in Docs : Saved(s, q) /\ Akin(s, p)
      BY <1>9 DEF BackedInv
    <3>2. Akin(s, d)
      BY <1>1, <1>9, <3>1, AkinTransitive
    <3> QED
      BY <1>9, <2>2, <3>1, <3>2 DEF ChosenInv
  <2> QED
    BY <2>1, <2>2
<1>10. ASSUME Undisturbed, NEW p \in Docs, NEW s \in Docs, NEW r, NEW q, Known(p, r)', Known(s, q)', Akin(p, s) PROVE r = q
  <2>1. Known(p, r) \/ (r = root /\ Akin(d, p))
    BY <1>4, <1>10
  <2>2. Known(s, q) \/ (q = root /\ Akin(d, s))
    BY <1>4, <1>10
  <2>3. CASE Known(p, r) /\ Known(s, q)
    BY <1>10, <2>3 DEF OneInv
  <2>4. CASE Known(p, r) /\ q = root /\ Akin(d, s)
    <3>1. Akin(p, d)
      BY <1>1, <1>10, <2>4, AkinTransitive, AkinSymmetric
    <3> QED
      BY <1>9, <1>10, <2>4, <3>1
  <2>5. CASE r = root /\ Akin(d, p) /\ Known(s, q)
    <3>1. Akin(s, d)
      BY <1>1, <1>10, <2>5, AkinTransitive, AkinSymmetric
    <3> QED
      BY <1>9, <1>10, <2>5, <3>1
  <2> QED
    BY <2>1, <2>2, <2>3, <2>4, <2>5
<1>11. OneInv'
  BY <1>1, <1>10 DEF OneInv
<1>12. BackedInv'
  <2>1. ASSUME Undisturbed, NEW p \in Docs, NEW r, Known(p, r)' PROVE \E s \in Docs : Saved(s, r)' /\ Akin(s, p)
    BY <1>4, <2>1 DEF BackedInv
  <2> QED
    BY <1>1, <2>1 DEF BackedInv
<1>13. CandidateInv'
  BY <1>1, <1>5 DEF CandidateInv
<1>14. ASSUME Undisturbed, NEW p \in Docs, NEW s \in Docs, NEW c, NEW q, AtResolve(p, c)', Saved(s, q)', Akin(s, p)
       PROVE  Roots(p)' # {} \/ c = q
  <2>1. CASE Saved(s, q)
    <3>1. Roots(p) # {} \/ c = q
      BY <1>14, <2>1 DEF ChosenInv
    <3>2. \A k \in Aliases(p) : k \in DOMAIN aliases => k \in DOMAIN aliases'
      OBVIOUS
    <3> QED
      BY <3>1, <3>2 DEF Roots
  <2>2. CASE s = d /\ q = root
    <3>1. PICK k \in Aliases(p) : k \in Aliases(d)
      BY <1>14, <2>2, AkinAlias
    <3> QED
      BY <3>1 DEF Roots
  <2> QED
    BY <1>14, <2>1, <2>2
<1>15. ChosenInv'
  BY <1>1, <1>14 DEF ChosenInv
<1> QED
  BY <1>7, <1>8, <1>11, <1>12, <1>13, <1>15

(* The script resolves a document, or withholds it.                        *)
LEMMA ResolveStep ==
    ASSUME IdentityInv, NEW w \in Resolvers, Resolve(w)
    PROVE  IdentityInv'
<1> USE DEF IdentityInv, IdTypeOK
<1>0. PICK d, candidate : d = resolver[w].doc /\ candidate = resolver[w].candidate
  OBVIOUS
<1>1. /\ resolver[w].pc = "resolve" /\ mishaps' = mishaps /\ UNCHANGED <<documents, queued, durableVars>>
      /\ policies' = policies
  BY DEF Resolve, Untroubled, durableVars
<1>2. ResolversOK /\ ResolverOK(resolver[w]) /\ d \in documents /\ d \in Docs /\ d.anchors # {} /\ DocOK(d)
  BY <1>0, <1>1 DEF ResolversOK, Docs, DocsOK
<1>3. CASE \E p, q \in Roots(d) : p # q
  <2>1. resolver' = [resolver EXCEPT ![w] = Free] /\ aliases' = aliases
    BY <1>0, <1>3 DEF Resolve
  <2>2. PICK x : x = Free
    OBVIOUS
  <2>3. ResolverOK(x) /\ x.pc = "idle"
    BY <2>2 DEF ResolverOK, Free
  <2> QED
    BY <1>1, <2>1, <2>2, <2>3, MovesOn
<1>4. CASE \A p, q \in Roots(d) : p = q
  <2> DEFINE chosen == IF Roots(d) = {} THEN candidate ELSE CHOOSE r \in Roots(d) : TRUE
  <2>1. PICK root : root = chosen
    OBVIOUS
  <2>2. root \in Roots(d) \/ (Roots(d) = {} /\ root = candidate)
    BY <2>1
  <2>3. /\ aliases' = Named(d, root)
        /\ resolver' = [resolver EXCEPT ![w].pc = "process", ![w].event = EventOf(d, root)]
    BY <1>0, <1>4, <2>1 DEF Resolve
  <2>4. Merged(d, root).published \in Time
    <3> DEFINE old == aliases[Policy(root)]
    <3>1. Policy(root) \in DOMAIN aliases => old.published \in Time
      BY DEF AliasesOK
    <3>2. CASE Policy(root) \in DOMAIN aliases /\ Nothing \notin {old.published, d.published}
      BY <1>2, <3>1, <3>2, LesserOfTwo DEF DocOK, Time, Merged
    <3> QED
      BY <1>2, <3>1, <3>2 DEF DocOK, Merged
  <2>5. PICK e : e = EventOf(d, root)
    OBVIOUS
  <2>6. EventOK(e) /\ e.doc = d /\ e.root = root
    BY <2>4, <2>5 DEF EventOK, EventOf
  <2>7. PICK y : y = [resolver[w] EXCEPT !.pc = "process", !.event = e]
    OBVIOUS
  <2>8. resolver' = [resolver EXCEPT ![w] = y]
    BY <1>2, <2>3, <2>5, <2>7 DEF ResolversOK
  <2>9. ResolverOK(y) /\ y.pc = "process" /\ y.doc = d /\ y.event = e
    <3>1. PICK z : z = resolver[w] /\ ResolverOK(z)
      BY <1>2
    <3>2. y = [z EXCEPT !.pc = "process", !.event = e]
      BY <2>7, <3>1
    <3>3. ResolverOK(y) /\ y.pc = "process" /\ y.doc = z.doc /\ y.event = e
      BY <3>1, <3>2 DEF ResolverOK
    <3> QED
      BY <1>0, <3>1, <3>3
  <2>10. /\ \A k \in Aliases(d) : k \in DOMAIN aliases' /\ aliases'[k] = root
         /\ \A k : k # Policy(root) /\ k \notin Aliases(d) =>
              (k \in DOMAIN aliases' <=> k \in DOMAIN aliases) /\ (k \in DOMAIN aliases => aliases'[k] = aliases[k])
         /\ aliases'[Policy(root)].published \in Time
    <3>1. \A k \in Aliases(d) : k # Policy(root)
      BY AliasApart
    <3> QED
      BY <2>3, <2>4, <3>1 DEF Named
  <2> HIDE DEF chosen
  <2>11. /\ DOMAIN resolver' = Resolvers /\ resolver'[w] = y
         /\ \A v \in Resolvers \ {w} : resolver'[v] = resolver[v]
    BY <1>2, <2>8 DEF ResolversOK
  <2>12. ResolversOK'
    BY <1>1, <1>2, <2>9, <2>11 DEF ResolversOK
  <2>13. /\ Docs' = Docs /\ \A p, r : IsStored(p, r)' <=> IsStored(p, r)
         /\ DocsOK' /\ PoliciesOK'
    BY <1>1, SameStore
  <2>14. Events' = Events \cup {e}
    BY <1>1, <2>9, <2>11 DEF Events, InProcess
  <2>15. EventsOK'
    BY <1>2, <2>6, <2>13, <2>14 DEF EventsOK
  <2>16. ASSUME NEW p, NEW k \in Aliases(p), k \notin Aliases(d)
         PROVE  (k \in DOMAIN aliases' <=> k \in DOMAIN aliases) /\ (k \in DOMAIN aliases => aliases'[k] = aliases[k])
    BY <2>10, <2>16, AliasApart
  <2>17. ASSUME NEW r
         PROVE  /\ Analyzed(r) \in DOMAIN aliases' <=> Analyzed(r) \in DOMAIN aliases
                /\ Analyzed(r) \in DOMAIN aliases => aliases'[Analyzed(r)] = aliases[Analyzed(r)]
    BY <2>10, AliasApart, KeyNames
  <2>18. AliasesOK'
    <3>1. ASSUME NEW r, Policy(r) \in DOMAIN aliases' PROVE aliases'[Policy(r)].published \in Time
      BY <2>10, <3>1, AliasApart DEF AliasesOK
    <3> QED
      BY <2>13, <2>17, <3>1 DEF AliasesOK
  <2>19. \A p, r : IsCached(p, r)' <=> IsCached(p, r)
    BY <2>17 DEF IsCached
  <2>20. \A p, r : Saved(p, r)' <=> Saved(p, r) \/ (p = d /\ r = root)
    <3>1. \A p, r : IsCarried(p, r)' <=> IsCarried(p, r) \/ (p = d /\ r = root)
      BY <2>6, <2>14 DEF IsCarried
    <3> QED
      BY <2>13, <3>1 DEF Saved
  <2>21. AtResolve(d, candidate) /\ \A p, c : AtResolve(p, c)' => AtResolve(p, c)
    BY <1>0, <1>1, <2>9, <2>11 DEF AtResolve
  <2>22. TieInv' /\ CandidateInv' /\ ChosenInv'
    BY <1>1, <1>2, <1>4, <2>2, <2>10, <2>13, <2>16, <2>19, <2>20, <2>21, Resolved
  <2>23. MishapsOK' /\ (Undisturbed' => Undisturbed)
    BY <1>1, <2>13 DEF MishapsOK, Undisturbed, Bridged, Docs
  <2>24. RegistryOK' /\ RowsInv' /\ CorrectionInv' /\ ConflictsRecorded' /\ EarliestWins' /\ CorrectionsGuarded'
    BY <1>1, <2>23, DurableSame
  <2> QED
    BY <2>12, <2>13, <2>15, <2>18, <2>22, <2>23, <2>24
<1> QED
  BY <1>3, <1>4

VersionsBefore(r) == IF r \in DOMAIN policies THEN policies[r].versions ELSE {}

(* A policy with one more version.                                         *)
LEMMA RecordedOK ==
    ASSUME PoliciesOK, NEW e, EventOK(e)
    PROVE  PolicyOK(Recorded(e)) /\ Recorded(e).versions = VersionsBefore(e.root) \cup {Version(e)}
<1> DEFINE v == Version(e)
           old == policies[e.root]
<1>1. v = [doc |-> v.doc, published |-> v.published] /\ v.published \in Time /\ v.doc = e.doc
  BY DEF Version, EventOK
<1>2. CASE e.root \notin DOMAIN policies
  <2>1. Recorded(e) = [versions |-> {v}, current |-> v, provenance |-> {v} \X e.provenance]
    BY <1>2 DEF Recorded
  <2>2. IsFiniteSet({v})
    BY FS_Singleton
  <2> HIDE DEF v
  <2> QED
    BY <1>1, <1>2, <2>1, <2>2 DEF PolicyOK, VersionsBefore, v
<1>3. CASE e.root \in DOMAIN policies
  <2> DEFINE moves == v \notin old.versions /\ e.make_current /\ Promotes(old.current, v)
  <2>1. Recorded(e) = [versions |-> old.versions \cup {v}, current |-> IF moves THEN v ELSE old.current,
                       provenance |-> old.provenance \cup ({v} \X e.provenance)]
    BY <1>3 DEF Recorded
  <2>2. PolicyOK(old)
    BY <1>3 DEF PoliciesOK
  <2>3. IsFiniteSet(old.versions \cup {v})
    BY <2>2, FS_AddElement DEF PolicyOK
  <2>4. PICK p : p = Recorded(e)
    OBVIOUS
  <2>5. p.versions = old.versions \cup {v} /\ p.current \in {v, old.current}
    BY <2>1, <2>4
  <2>6. p = [versions |-> p.versions, current |-> p.current, provenance |-> p.provenance]
    BY <2>1, <2>4
  <2> HIDE DEF v, old, moves
  <2> QED
    BY <1>1, <1>3, <2>2, <2>3, <2>4, <2>5, <2>6 DEF PolicyOK, VersionsBefore, v, old
<1> QED
  BY <1>2, <1>3

(* A document is persisted when a version of it is stored.                 *)
LEMMA PersistedDocs ==
    /\ \A d : d \in Persisted <=> \E r : IsStored(d, r)
    /\ \A d : d \in Persisted' <=> \E r : IsStored(d, r)'
BY DEF Persisted, IsStored

(* What a transaction adds: one version, in one policy.                    *)
LEMMA PersistTies ==
    ASSUME IdentityInv, NEW e \in queued, queued' = queued \ {e}, UNCHANGED <<documents, aliases, resolver>>,
           policies' = [r \in DOMAIN policies \cup {e.root} |-> IF r = e.root THEN Recorded(e) ELSE policies[r]]
    PROVE  /\ Docs' = Docs /\ PoliciesOK' /\ EventsOK' /\ AliasesOK' /\ DocsOK' /\ ResolversOK'
           /\ \A d, r : IsStored(d, r)' <=> IsStored(d, r) \/ (d = e.doc /\ r = e.root)
           /\ \A d, r : Saved(d, r)' <=> Saved(d, r)
           /\ \A r \in DOMAIN policies' : policies'[r].versions = VersionsBefore(r) \cup (IF r = e.root THEN {Version(e)} ELSE {})
           /\ \A r \in DOMAIN policies' : r # e.root => r \in DOMAIN policies /\ policies'[r] = policies[r]
<1> USE DEF IdentityInv, IdTypeOK
<1>1. e \in Events /\ EventOK(e) /\ e.doc \in Docs /\ Version(e).doc = e.doc
  BY DEF Events, EventsOK, Version
<1>2. PolicyOK(Recorded(e)) /\ Recorded(e).versions = VersionsBefore(e.root) \cup {Version(e)}
  BY <1>1, RecordedOK
<1>3. /\ DOMAIN policies' = DOMAIN policies \cup {e.root}
      /\ policies'[e.root] = Recorded(e)
      /\ \A r \in DOMAIN policies : r # e.root => policies'[r] = policies[r]
  OBVIOUS
<1>4. \A r \in DOMAIN policies' : policies'[r].versions = VersionsBefore(r) \cup (IF r = e.root THEN {Version(e)} ELSE {})
  BY <1>2, <1>3 DEF VersionsBefore
<1>5. PoliciesOK'
  <2>1. IsFiniteSet(DOMAIN policies')
    BY <1>3, FS_AddElement DEF PoliciesOK
  <2> QED
    BY <1>2, <1>3, <2>1 DEF PoliciesOK
<1>6. ASSUME NEW d, NEW r PROVE IsStored(d, r)' <=> IsStored(d, r) \/ (d = e.doc /\ r = e.root)
  <2>1. CASE r = e.root
    <3>1. policies'[r].versions = VersionsBefore(r) \cup {Version(e)} /\ r \in DOMAIN policies'
      BY <1>2, <1>3, <2>1
    <3>2. IsStored(d, r) <=> \E v \in VersionsBefore(r) : v.doc = d
      BY DEF IsStored, VersionsBefore
    <3>3. IsStored(d, r)' <=> \E v \in VersionsBefore(r) \cup {Version(e)} : v.doc = d
      BY <3>1 DEF IsStored
    <3> QED
      BY <1>1, <2>1, <3>2, <3>3
  <2>2. CASE r # e.root
    BY <1>3, <2>2 DEF IsStored
  <2> QED
    BY <2>1, <2>2
<1>9. Docs' = Docs
  BY <1>1, <1>6, PersistedDocs DEF Docs
<1>10. /\ Events' \subseteq Events /\ \A g \in Events : g \in Events' \/ g = e
  BY DEF Events, InProcess
<1>11. EventsOK' /\ AliasesOK' /\ DocsOK' /\ ResolversOK'
  BY <1>9, <1>10 DEF EventsOK, AliasesOK, DocsOK, ResolversOK
<1>12. ASSUME NEW d, NEW r PROVE Saved(d, r)' <=> Saved(d, r)
  <2>1. IsCarried(d, r)' => IsCarried(d, r)
    BY <1>10 DEF IsCarried
  <2>2. IsCarried(d, r) => IsCarried(d, r)' \/ (d = e.doc /\ r = e.root)
    BY <1>10 DEF IsCarried
  <2>3. IsCarried(e.doc, e.root)
    BY <1>1 DEF IsCarried
  <2> QED
    BY <1>6, <2>1, <2>2, <2>3 DEF Saved
<1> QED
  BY <1>3, <1>4, <1>5, <1>6, <1>9, <1>11, <1>12

Registers(after, d, root) ==
    /\ DOMAIN after = DOMAIN registry \cup Keys(d)
    /\ \A k \in DOMAIN after : AnchorRowOK(after[k])
    /\ \A k \in DOMAIN registry : /\ after[k].root = registry[k].root /\ registry[k].others \subseteq after[k].others
                                  /\ k \notin Keys(d) \/ registry[k].root = root => after[k].others = registry[k].others
    /\ \A k \in Keys(d) : after[k].root = root \/ root \in after[k].others
    /\ \A k \in Keys(d) : k \notin DOMAIN registry => after[k].root = root /\ after[k].others = {}
(* What registering the anchors of a document under a root does to the     *)
(* registry.                                                               *)
LEMMA RegisteredRows ==
    ASSUME \A k \in DOMAIN registry : AnchorRowOK(registry[k]), NEW d, NEW root
    PROVE  Registers(Registered(d, root), d, root)
<1>0. PICK after : after = Registered(d, root)
  OBVIOUS
<1>1. DOMAIN after = DOMAIN registry \cup Keys(d)
  BY <1>0 DEF Registered
<1>2. ASSUME NEW k, k \in Keys(d), k \notin DOMAIN registry
      PROVE  AnchorRowOK(after[k]) /\ after[k].root = root /\ after[k].others = {}
  BY <1>0, <1>2 DEF Registered, AnchorRowOK
<1>3. ASSUME NEW k \in DOMAIN registry, k \notin Keys(d)
      PROVE  after[k] = registry[k]
  BY <1>0, <1>3 DEF Registered
<1>4. ASSUME NEW k \in DOMAIN registry, k \in Keys(d)
      PROVE  /\ AnchorRowOK(after[k]) /\ after[k].root = registry[k].root
             /\ after[k].others = registry[k].others \cup ({root} \ {registry[k].root})
  <2>1. after[k] = [registry[k] EXCEPT !.others = registry[k].others \cup ({root} \ {registry[k].root})]
    BY <1>0, <1>4 DEF Registered
  <2>2. AnchorRowOK(registry[k])
    OBVIOUS
  <2> QED
    BY <2>1, <2>2 DEF AnchorRowOK
<1> QED
  BY <1>0, <1>1, <1>2, <1>3, <1>4 DEF Registers

(* A version that becomes current is the earliest of those comparable.     *)
LEMMA EarliestKept ==
    ASSUME PoliciesOK, EarliestWins, NEW e, EventOK(e), NEW r, r = e.root,
           Comparable(VersionsBefore(r) \cup {Version(e)}),
           \A v \in VersionsBefore(r) : <<r, v.doc, v.published>> \notin tooOld,
           e.make_current \/ Version(e) \in VersionsBefore(r),
           ~\E m \in moved : m.root = r /\ m.by = "reverted"
    PROVE  \A v \in Recorded(e).versions : Recorded(e).current.published <= v.published
<1> DEFINE v == Version(e)
           old == policies[r]
<1>1. v.published \in Int /\ Recorded(e).versions = VersionsBefore(r) \cup {v}
  <2>1. v.published \in Time /\ v.published # Nothing
    BY DEF Comparable, Disclosed, EventOK, Version
  <2> QED
    BY <2>1, RecordedOK DEF Time
<1>2. CASE r \notin DOMAIN policies
  <2>1. Recorded(e).current = v /\ VersionsBefore(r) = {}
    BY <1>2 DEF Recorded, VersionsBefore
  <2> QED
    BY <1>1, <2>1
<1>3. CASE r \in DOMAIN policies
  <2> DEFINE c == old.current
             moves == v \notin old.versions /\ e.make_current /\ Promotes(old.current, v)
  <2>1. Recorded(e).current = IF moves THEN v ELSE c
    BY <1>3 DEF Recorded
  <2>2. VersionsBefore(r) = old.versions /\ PolicyOK(old) /\ c \in old.versions
    BY <1>3 DEF VersionsBefore, PoliciesOK, PolicyOK
  <2>3. Comparable(old.versions)
    BY <2>2 DEF Comparable
  <2>4. \A u \in old.versions : c.published <= u.published
    BY <1>3, <2>2, <2>3 DEF EarliestWins
  <2>5. \A u \in old.versions : u.published \in Int
    BY <2>2, <2>3 DEF PolicyOK, Comparable, Disclosed, Time
  <2>6. SubstantivelyEqual(c, v) /\ Disclosed(c, v) /\ c.doc.kind = v.doc.kind
    BY <2>2 DEF Comparable
  <2>7. Promotes(c, v) <=> v.published < c.published
    <3>1. Verdict(c, v) = IF <<c.doc.precision, c.published>> = <<v.doc.precision, v.published>> THEN "cosmetic"
                          ELSE IF v.published < c.published THEN "earlier_disclosure" ELSE "disclosure_only"
      BY <2>6 DEF Verdict
    <3>2. c.published \in Int /\ c.doc.precision = v.doc.precision
      BY <2>2, <2>5, <2>6 DEF Disclosed
    <3>3. CASE c.published = v.published
      BY <1>1, <3>1, <3>2, <3>3 DEF Promotes
    <3>4. CASE c.published # v.published
      <4>1. <<c.doc.precision, c.published>> # <<v.doc.precision, v.published>>
        BY <3>4
      <4> QED
        BY <1>1, <3>1, <3>2, <4>1 DEF Promotes
    <3> QED
      BY <3>3, <3>4
  <2> HIDE DEF v, old, c
  <2>8. CASE moves
    <3>1. Recorded(e).current = v /\ v.published < c.published
      BY <2>1, <2>7, <2>8 DEF c
    <3>2. ASSUME NEW u \in old.versions PROVE v.published <= u.published
      BY <1>1, <2>2, <2>4, <2>5, <3>1
    <3> QED
      BY <1>1, <2>2, <3>1, <3>2
  <2>9. CASE ~moves
    <3>1. Recorded(e).current = c
      BY <2>1, <2>9
    <3>2. v \in old.versions \/ ~(v.published < c.published)
      BY <2>2, <2>7, <2>9 DEF v, c
    <3>3. c.published <= v.published
      BY <1>1, <2>2, <2>4, <2>5, <3>2
    <3> QED
      BY <1>1, <2>2, <2>4, <3>1, <3>3
  <2> QED
    BY <2>8, <2>9
<1> QED
  BY <1>2, <1>3

(* A version is stored.                                                    *)
LEMMA PersistStep ==
    ASSUME IdentityInv, Persist
    PROVE  IdentityInv'
<1> USE DEF IdentityInv, IdTypeOK
<1>1. PICK e \in queued :
         /\ queued' = queued \ {e}
         /\ policies' = [r \in DOMAIN policies \cup {e.root} |-> IF r = e.root THEN Recorded(e) ELSE policies[r]]
         /\ tooOld' = tooOld \cup
              IF ~e.make_current /\ (e.root \in DOMAIN policies => Version(e) \notin policies[e.root].versions)
              THEN {<<e.root, e.doc, e.published>>} ELSE {}
         /\ \/ registry' = Registered(e.doc, e.root) /\ Untroubled
            \/ UNCHANGED registry /\ Mishap({"registry", "unrecorded"})
  BY DEF Persist
<1>2. /\ UNCHANGED <<documents, aliases, resolver>> /\ correction' = correction /\ moved' = moved
  BY DEF Persist, toolVars
<1>3. /\ Docs' = Docs /\ PoliciesOK' /\ EventsOK' /\ AliasesOK' /\ DocsOK' /\ ResolversOK'
      /\ \A d, r : IsStored(d, r)' <=> IsStored(d, r) \/ (d = e.doc /\ r = e.root)
      /\ \A d, r : Saved(d, r)' <=> Saved(d, r)
      /\ \A r \in DOMAIN policies' : policies'[r].versions = VersionsBefore(r) \cup (IF r = e.root THEN {Version(e)} ELSE {})
      /\ \A r \in DOMAIN policies' : r # e.root => r \in DOMAIN policies /\ policies'[r] = policies[r]
  BY <1>1, <1>2, PersistTies
<1>4. e \in Events /\ EventOK(e) /\ e.doc \in Docs /\ Version(e) = [doc |-> e.doc, published |-> e.published]
  BY DEF Events, EventsOK, Version
<1>5. \/ registry' = Registered(e.doc, e.root) /\ mishaps' = mishaps
      \/ registry' = registry /\ mishaps' = mishaps \cup {"registry", "unrecorded"}
  BY <1>1 DEF Untroubled, Mishap
<1>6. PICK after : after = Registered(e.doc, e.root)
  OBVIOUS
<1>7. /\ DOMAIN after = DOMAIN registry \cup Keys(e.doc)
      /\ \A k \in DOMAIN after : AnchorRowOK(after[k])
      /\ \A k \in DOMAIN registry : /\ after[k].root = registry[k].root /\ registry[k].others \subseteq after[k].others
                                    /\ k \notin Keys(e.doc) \/ registry[k].root = e.root => after[k].others = registry[k].others
      /\ \A k \in Keys(e.doc) : after[k].root = e.root \/ e.root \in after[k].others
      /\ \A k \in Keys(e.doc) : k \notin DOMAIN registry => after[k].root = e.root /\ after[k].others = {}
  <2>1. \A k \in DOMAIN registry : AnchorRowOK(registry[k])
    BY DEF RegistryOK
  <2>2. Registers(after, e.doc, e.root)
    BY <1>6, <2>1, RegisteredRows
  <2> QED
    BY <2>2 DEF Registers
<1>8. /\ Bridged' = Bridged /\ (Undisturbed' => Undisturbed) /\ MishapsOK' /\ (Undisturbed' => registry' = after)
      /\ "expired" \in mishaps => "expired" \in mishaps'
  BY <1>3, <1>5, <1>6 DEF Bridged, Docs, Undisturbed, MishapsOK
<1>9. /\ \A d : Roots(d)' = Roots(d)
      /\ \A d, r : IsCached(d, r)' <=> IsCached(d, r)
      /\ \A d, c : AtResolve(d, c)' <=> AtResolve(d, c)
  BY <1>2 DEF Roots, IsCached, AtResolve
<1>10. TieInv'
  BY <1>2, <1>3, <1>8, <1>9, Narrowing
<1>11. CandidateInv' /\ ChosenInv'
  BY <1>3, <1>8, <1>9, Waiting
<1>12. RegistryOK'
  <2>1. ASSUME NEW k \in DOMAIN registry, NEW r, r = registry[k].root PROVE \E d \in Docs : IsStored(d, r)' /\ k \in Keys(d)
    BY <1>3, <2>1 DEF RegistryOK
  <2>2. IsStored(e.doc, e.root)'
    BY <1>3
  <2>3. CASE registry' = after
    BY <1>3, <1>4, <1>7, <2>1, <2>2, <2>3 DEF RegistryOK
  <2>4. CASE registry' = registry
    BY <1>3, <2>1, <2>4 DEF RegistryOK
  <2> QED
    BY <1>5, <1>6, <2>3, <2>4
<1>13. ASSUME Undisturbed', NEW d \in Docs, NEW r, IsStored(d, r)', NEW k \in Keys(d)
       PROVE  k \in DOMAIN registry' /\ registry'[k].root = r /\ registry'[k].others = {}
  <2>1. Undisturbed /\ registry' = after /\ RegistryOK /\ RowsInv /\ OneInv
    BY <1>8, <1>13 DEF TieInv
  <2>2. Saved(e.doc, e.root)
    BY <1>4 DEF Saved, IsCarried
  <2>3. CASE IsStored(d, r)
    <3>1. k \in DOMAIN registry /\ registry[k].root = r /\ registry[k].others = {}
      BY <1>13, <2>1, <2>3 DEF RowsInv
    <3>2. k \in Keys(e.doc) => r = e.root
      BY <1>4, <1>13, <2>1, <2>2, <3>1, OneAnswer, OwnHome, KeyShared
    <3> QED
      BY <1>7, <2>1, <3>1, <3>2
  <2>4. CASE d = e.doc /\ r = e.root
    <3>1. CASE k \in DOMAIN registry
      <4>1. Akin(e.doc, e.doc)
        BY <1>13, <2>4, KeyShared
      <4>2. registry[k].root = e.root /\ registry[k].others = {}
        BY <1>4, <1>13, <2>1, <2>2, <2>4, <3>1, <4>1, OneAnswer
      <4> QED
        BY <1>7, <2>1, <2>4, <3>1, <4>2
    <3>2. CASE k \notin DOMAIN registry
      BY <1>7, <1>13, <2>1, <2>4, <3>2
    <3> QED
      BY <3>1, <3>2
  <2> QED
    BY <1>3, <1>13, <2>3, <2>4
<1>14. RowsInv'
  BY <1>3, <1>13 DEF RowsInv
<1>15. ASSUME NEW c \in correction, ChangeOK(c) PROVE ChangeOK(c)'
  <2>1. c.root \in DOMAIN policies' /\ policies[c.root].versions \subseteq policies'[c.root].versions
    BY <1>1, <1>3, <1>15 DEF ChangeOK, VersionsBefore
  <2> QED
    BY <1>2, <1>15, <2>1 DEF ChangeOK
<1>16. CorrectionInv'
  BY <1>2, <1>15 DEF CorrectionInv
<1>17. ASSUME "unrecorded" \notin mishaps', NEW r \in DOMAIN policies', NEW v \in policies'[r].versions, NEW k \in Keys(v.doc)
       PROVE  k \in DOMAIN registry' /\ (registry'[k].root = r \/ r \in registry'[k].others)
  <2>1. registry' = after /\ "unrecorded" \notin mishaps
    BY <1>5, <1>6, <1>17
  <2>2. CASE v \in VersionsBefore(r)
    <3>1. k \in DOMAIN registry /\ (registry[k].root = r \/ r \in registry[k].others)
      BY <1>17, <2>1, <2>2 DEF VersionsBefore, ConflictsRecorded
    <3> QED
      BY <1>7, <2>1, <3>1
  <2>3. CASE r = e.root /\ v = Version(e)
    BY <1>4, <1>7, <1>17, <2>1, <2>3
  <2> QED
    BY <1>3, <1>17, <2>2, <2>3
<1>18. ConflictsRecorded'
  BY <1>17 DEF ConflictsRecorded
<1>19. ASSUME NEW r \in DOMAIN policies', Comparable(policies'[r].versions),
              \A v \in policies'[r].versions : <<r, v.doc, v.published>> \notin tooOld',
              ~\E m \in moved : m.root = r /\ m.by = "reverted"
       PROVE  \A v \in policies'[r].versions : policies'[r].current.published <= v.published
  <2>1. CASE r # e.root
    BY <1>1, <1>3, <1>19, <2>1 DEF EarliestWins
  <2>2. CASE r = e.root
    <3>1. policies'[r] = Recorded(e) /\ policies'[r].versions = VersionsBefore(r) \cup {Version(e)}
      BY <1>1, <1>3, <2>2
    <3>2. e.make_current \/ Version(e) \in VersionsBefore(r)
      <4>1. CASE ~e.make_current /\ Version(e) \notin VersionsBefore(r)
        <5>1. r \in DOMAIN policies => Version(e) \notin policies[r].versions
          BY <4>1 DEF VersionsBefore
        <5>2. <<r, e.doc, e.published>> \in tooOld'
          BY <1>1, <2>2, <4>1, <5>1
        <5>3. Version(e).doc = e.doc /\ Version(e).published = e.published
          BY <1>4
        <5> QED
          BY <1>19, <3>1, <5>2, <5>3
      <4> QED
        BY <4>1
    <3>3. Comparable(VersionsBefore(r) \cup {Version(e)}) /\ \A v \in VersionsBefore(r) : <<r, v.doc, v.published>> \notin tooOld
      BY <1>1, <1>19, <3>1
    <3>4. PoliciesOK /\ EarliestWins
      OBVIOUS
    <3> QED
      BY <1>4, <1>19, <2>2, <3>1, <3>2, <3>3, <3>4, EarliestKept
  <2> QED
    BY <2>1, <2>2
<1>20. EarliestWins'
  BY <1>2, <1>19 DEF EarliestWins
<1>21. CorrectionsGuarded'
  BY <1>2 DEF CorrectionsGuarded
<1> QED
  BY <1>3, <1>8, <1>10, <1>11, <1>12, <1>14, <1>16, <1>18, <1>20, <1>21

(* What a backfill leaves: rows of stored documents, and every version's   *)
(* anchors under its root.                                                 *)
LEMMA BackfilledRows ==
    ASSUME RegistryOK, NEW seen \in [DOMAIN policies -> 1 .. Cardinality(DOMAIN policies)], Cardinality(DOMAIN policies) \in Nat,
           NEW after, after = Backfilled(seen)
    PROVE  /\ \A k \in DOMAIN after : AnchorRowOK(after[k]) /\ \E d \in Docs : IsStored(d, after[k].root) /\ k \in Keys(d)
           /\ \A r \in DOMAIN policies : \A v \in policies[r].versions : \A k \in Keys(v.doc) :
                k \in DOMAIN after /\ (after[k].root = r \/ r \in after[k].others)
<1> DEFINE roots(k) == {r \in DOMAIN policies : \E v \in policies[r].versions : k \in Keys(v.doc)}
           eldest(k) == CHOOSE r \in roots(k) : \A q \in roots(k) : seen[r] <= seen[q]
           row(k) == IF k \in DOMAIN registry THEN registry[k] ELSE [root |-> eldest(k), others |-> {}]
<1>1. after = [k \in DOMAIN registry \cup UNION {Keys(d) : d \in Persisted} |-> [row(k) EXCEPT !.others = @ \cup (roots(k) \ {row(k).root})]]
  BY DEF Backfilled
<1>2. ASSUME NEW k, NEW r \in roots(k) PROVE \E d \in Docs : IsStored(d, r) /\ k \in Keys(d)
  <2>1. PICK v \in policies[r].versions : k \in Keys(v.doc)
    OBVIOUS
  <2>2. IsStored(v.doc, r) /\ v.doc \in Persisted
    BY DEF IsStored, Persisted
  <2> QED
    BY <2>1, <2>2 DEF Docs
<1>3. ASSUME NEW k, roots(k) # {} PROVE eldest(k) \in roots(k)
  <2> DEFINE T == {seen[r] : r \in roots(k)}
  <2>1. T \in SUBSET Nat /\ T # {}
    BY <1>3
  <2>2. PICK t \in T : \A u \in T : t <= u
    BY <2>1, Least
  <2>3. \E r \in roots(k) : \A q \in roots(k) : seen[r] <= seen[q]
    BY <2>2
  <2> QED
    BY <2>3
<1>4. ASSUME NEW k \in DOMAIN after, k \notin DOMAIN registry PROVE roots(k) # {}
  <2>1. PICK d \in Persisted : k \in Keys(d)
    BY <1>1, <1>4
  <2>2. PICK r : IsStored(d, r)
    BY PersistedDocs
  <2> QED
    BY <2>1, <2>2 DEF IsStored
<1>5. ASSUME NEW k \in DOMAIN after
      PROVE  /\ AnchorRowOK(after[k]) /\ after[k].root = row(k).root
             /\ \A r \in roots(k) : after[k].root = r \/ r \in after[k].others
  <2>1. PICK x, rs : x = row(k) /\ rs = roots(k)
    OBVIOUS
  <2>2. AnchorRowOK(x)
    BY <1>5, <2>1 DEF RegistryOK, AnchorRowOK
  <2>3. PICK y : y = after[k]
    OBVIOUS
  <2>4. y = [x EXCEPT !.others = x.others \cup (rs \ {x.root})]
    BY <1>1, <2>1, <2>3
  <2>5. AnchorRowOK(y) /\ y.root = x.root /\ y.others = x.others \cup (rs \ {x.root})
    BY <2>2, <2>4 DEF AnchorRowOK
  <2> QED
    BY <2>1, <2>3, <2>5
<1>6. ASSUME NEW k \in DOMAIN after PROVE \E d \in Docs : IsStored(d, after[k].root) /\ k \in Keys(d)
  <2>1. CASE k \in DOMAIN registry
    BY <1>5, <2>1 DEF RegistryOK
  <2>2. CASE k \notin DOMAIN registry
    <3>1. after[k].root = eldest(k) /\ eldest(k) \in roots(k)
      BY <1>3, <1>4, <1>5, <2>2
    <3> HIDE DEF roots, eldest
    <3> QED
      BY <1>2, <3>1
  <2> QED
    BY <2>1, <2>2
<1>7. ASSUME NEW r \in DOMAIN policies, NEW v \in policies[r].versions, NEW k \in Keys(v.doc)
      PROVE  k \in DOMAIN after /\ (after[k].root = r \/ r \in after[k].others)
  <2>1. v.doc \in Persisted /\ r \in roots(k)
    BY DEF Persisted
  <2>2. k \in DOMAIN after
    BY <1>1, <2>1
  <2> HIDE DEF roots, row
  <2> QED
    BY <1>5, <2>1, <2>2
<1> HIDE DEF roots, row, eldest
<1> QED
  BY <1>5, <1>6, <1>7

(* A step of the operator's tools leaves the ties alone.                   *)
LEMMA ToolTies ==
    ASSUME IdentityInv, UNCHANGED <<documents, aliases, resolver, queued>>,
           DOMAIN policies' = DOMAIN policies,
           \A r \in DOMAIN policies : PolicyOK(policies'[r]) /\ policies'[r].versions = policies[r].versions,
           "expired" \in mishaps => "expired" \in mishaps', Undisturbed' => Undisturbed, Undisturbed' => registry' = registry
    PROVE  /\ Docs' = Docs /\ DocsOK' /\ ResolversOK' /\ PoliciesOK' /\ EventsOK' /\ AliasesOK'
           /\ TieInv' /\ CandidateInv' /\ RowsInv' /\ ChosenInv'
           /\ \A d, r : IsStored(d, r)' <=> IsStored(d, r)
<1> USE DEF IdentityInv, IdTypeOK
<1>1. \A d, r : IsStored(d, r)' <=> IsStored(d, r)
  BY DEF IsStored
<1>2. Docs' = Docs
  BY <1>1, PersistedDocs DEF Docs
<1>3. Events' = Events /\ \A d, c : AtResolve(d, c)' <=> AtResolve(d, c)
  BY DEF Events, InProcess, AtResolve
<1>4. /\ \A d, r : Saved(d, r)' <=> Saved(d, r)
      /\ \A d : Roots(d)' = Roots(d)
      /\ \A d, r : IsCached(d, r)' <=> IsCached(d, r)
  BY <1>1, <1>3 DEF Saved, IsCarried, Roots, IsCached
<1>5. PoliciesOK'
  BY DEF PoliciesOK
<1>6. DocsOK' /\ ResolversOK' /\ EventsOK' /\ AliasesOK'
  BY <1>2, <1>3 DEF DocsOK, ResolversOK, EventsOK, AliasesOK
<1>7. TieInv'
  BY <1>2, <1>4, Narrowing
<1>8. CandidateInv' /\ ChosenInv'
  BY <1>2, <1>3, <1>4, Waiting
<1>9. RowsInv'
  BY <1>1, <1>2 DEF RowsInv
<1> QED
  BY <1>1, <1>2, <1>5, <1>6, <1>7, <1>8, <1>9

(* The registry is backfilled.                                             *)
LEMMA BackfillStep ==
    ASSUME IdentityInv, Backfill
    PROVE  IdentityInv'
<1> USE DEF IdentityInv, IdTypeOK
<1>1. PICK seen \in [DOMAIN policies -> 1 .. Cardinality(DOMAIN policies)] : registry' = Backfilled(seen)
  BY DEF Backfill, Injection
<1>2. /\ UNCHANGED <<documents, aliases, resolver, queued, policies, tooOld, correction, moved>>
      /\ "unrecorded" \in mishaps /\ mishaps' = mishaps \ {"unrecorded"}
  BY DEF Backfill, toolVars
<1>3. ~Undisturbed /\ ~Undisturbed' /\ MishapsOK' /\ ("expired" \in mishaps => "expired" \in mishaps')
  BY <1>2 DEF Undisturbed, MishapsOK
<1>4. \A r \in DOMAIN policies : PolicyOK(policies'[r]) /\ policies'[r].versions = policies[r].versions
  BY <1>2 DEF PoliciesOK
<1>5. /\ Docs' = Docs /\ DocsOK' /\ ResolversOK' /\ PoliciesOK' /\ EventsOK' /\ AliasesOK'
      /\ TieInv' /\ CandidateInv' /\ RowsInv' /\ ChosenInv'
      /\ \A d, r : IsStored(d, r)' <=> IsStored(d, r)
  BY <1>2, <1>3, <1>4, ToolTies
<1>6. PICK after : after = Backfilled(seen)
  OBVIOUS
<1>7. /\ \A k \in DOMAIN after : AnchorRowOK(after[k]) /\ \E d \in Docs : IsStored(d, after[k].root) /\ k \in Keys(d)
      /\ \A r \in DOMAIN policies : \A v \in policies[r].versions : \A k \in Keys(v.doc) :
           k \in DOMAIN after /\ (after[k].root = r \/ r \in after[k].others)
  <2>1. RegistryOK /\ Cardinality(DOMAIN policies) \in Nat
    BY FS_CardinalityType DEF PoliciesOK
  <2> QED
    BY <1>6, <2>1, BackfilledRows
<1>8. registry' = after
  BY <1>1, <1>6
<1>9. RegistryOK' /\ ConflictsRecorded'
  BY <1>2, <1>5, <1>7, <1>8 DEF RegistryOK, ConflictsRecorded
<1>10. CorrectionInv' /\ EarliestWins' /\ CorrectionsGuarded'
  BY <1>2 DEF CorrectionInv, ChangeOK, EarliestWins, CorrectionsGuarded
<1> QED
  BY <1>3, <1>5, <1>9, <1>10

(* Of finitely many disclosures one is the first.                          *)
LEMMA FirstOf ==
    ASSUME NEW S, IsFiniteSet(S), S # {}, \A v \in S : v.published \in Int
    PROVE  \E v \in S : \A o \in S : v.published <= o.published
<1>1. PICK n \in Nat : ExistsBijection(1 .. n, S)
  BY FS_NatBijection
<1>2. PICK f \in [1 .. n -> S] : \A s \in S : \E i \in 1 .. n : f[i] = s
  BY <1>1 DEF ExistsBijection, Bijection, Surjection
<1> DEFINE P(k) == \E j \in 1 .. k : \A i \in 1 .. k : f[j].published <= f[i].published
           B == {k \in Nat : k \in 1 .. n /\ ~P(k)}
<1>3. B = {}
  <2>1. SUFFICES ASSUME B # {} PROVE FALSE
    OBVIOUS
  <2>2. PICK t \in B : \A u \in B : t <= u
    BY <2>1, Least
  <2>3. t # 1
    <3>1. f[1].published \in Int
      BY <2>2
    <3> QED
      BY <2>2, <3>1
  <2>4. t - 1 \in 1 .. n /\ t - 1 \notin B /\ t \in 1 .. n
    <3>1. t \in Nat /\ t \in 1 .. n
      OBVIOUS
    <3>2. t - 1 \in 1 .. n /\ t - 1 \in Nat /\ ~(t <= t - 1)
      BY <2>3, <3>1
    <3> HIDE DEF B
    <3> QED
      BY <2>2, <3>1, <3>2
  <2>5. P(t - 1)
    BY <2>4
  <2>6. PICK j \in 1 .. (t - 1) : \A i \in 1 .. (t - 1) : f[j].published <= f[i].published
    BY <2>5
  <2>7. \A i \in 1 .. t : f[i].published \in Int
    BY <2>4
  <2>8. \A i \in 1 .. t : i \in 1 .. (t - 1) \/ i = t
    BY <2>4
  <2>9. j \in 1 .. t /\ t \in 1 .. t /\ j \in 1 .. (t - 1)
    BY <2>4, <2>6
  <2>10. CASE f[j].published <= f[t].published
    <3>1. \A i \in 1 .. t : f[j].published <= f[i].published
      BY <2>6, <2>8, <2>10
    <3> QED
      BY <2>2, <2>9, <3>1
  <2>11. CASE ~(f[j].published <= f[t].published)
    <3>1. ASSUME NEW i \in 1 .. t PROVE f[t].published <= f[i].published
      <4>1. f[j].published \in Int /\ f[t].published \in Int /\ f[i].published \in Int
        BY <2>7, <2>9
      <4>2. CASE i = t
        BY <4>1, <4>2
      <4>3. CASE i \in 1 .. (t - 1)
        <5>1. f[j].published <= f[i].published
          BY <2>6, <4>3
        <5> QED
          BY <2>11, <4>1, <5>1
      <4> QED
        BY <2>8, <4>2, <4>3
    <3> QED
      BY <2>2, <2>9, <3>1
  <2> QED
    BY <2>10, <2>11
<1>4. n \in 1 .. n
  <2>1. PICK s \in S : TRUE
    OBVIOUS
  <2>2. PICK i \in 1 .. n : f[i] = s
    BY <1>2
  <2> QED
    BY <2>2
<1>5. P(n)
  BY <1>3, <1>4
<1>6. PICK j \in 1 .. n : \A i \in 1 .. n : f[j].published <= f[i].published
  BY <1>5
<1> QED
  BY <1>2, <1>6

(* What the audit proposes is an earlier disclosure of the same event.     *)
LEMMA FlaggedOK ==
    ASSUME PoliciesOK, NEW c \in Flagged
    PROVE  ChangeOK(c) /\ c.outcome = "proposed"
<1>1. PICK r \in {x \in DOMAIN policies : Earlier(x) # {}} :
         c = [root |-> r, from |-> policies[r].current,
              to |-> CHOOSE v \in Earlier(r) : \A o \in Earlier(r) : v.published <= o.published, outcome |-> "proposed"]
  BY DEF Flagged
<1> DEFINE now == policies[r].current
           first == CHOOSE v \in Earlier(r) : \A o \in Earlier(r) : v.published <= o.published
<1>2. r \in DOMAIN policies /\ PolicyOK(policies[r])
  BY DEF PoliciesOK
<1>3. /\ Earlier(r) # {} /\ Earlier(r) \subseteq policies[r].versions
      /\ \A v \in Earlier(r) : SubstantivelyEqual(now, v) /\ Disclosed(now, v) /\ v.published < now.published
  BY DEF Earlier
<1>4. IsFiniteSet(Earlier(r))
  BY <1>2, <1>3, FS_Subset DEF PolicyOK
<1>5. \A v \in Earlier(r) : v.published \in Int
  BY <1>2, <1>3 DEF PolicyOK, Disclosed, Time
<1>6. \E v \in Earlier(r) : \A o \in Earlier(r) : v.published <= o.published
  BY <1>3, <1>4, <1>5, FirstOf
<1>7. first \in Earlier(r)
  BY <1>6
<1>8. c.root = r /\ c.from = now /\ c.to = first /\ c.outcome = "proposed"
  BY <1>1
<1>9. c = [root |-> c.root, from |-> c.from, to |-> c.to, outcome |-> c.outcome]
  BY <1>1
<1> HIDE DEF now, first
<1>10. c.to \in policies[c.root].versions /\ c.from \in policies[c.root].versions
  BY <1>2, <1>3, <1>7, <1>8 DEF PolicyOK, now
<1> QED
  BY <1>2, <1>3, <1>7, <1>8, <1>9, <1>10 DEF ChangeOK

(* An audit reports, or a snapshot of the groups is saved.                 *)
LEMMA AuditStep ==
    ASSUME IdentityInv, AuditPointers \/ SaveSnapshot
    PROVE  IdentityInv'
<1> USE DEF IdentityInv, IdTypeOK
<1>1. /\ UNCHANGED <<documents, aliases, resolver, queued, policies, tooOld, registry, mishaps, moved>>
      /\ correction' = correction \/ correction' = Flagged
  BY DEF AuditPointers, SaveSnapshot, Untroubled
<1>2. (Undisturbed' => Undisturbed) /\ MishapsOK'
  BY <1>1 DEF Undisturbed, Bridged, Persisted, MishapsOK
<1>3. \A r \in DOMAIN policies : PolicyOK(policies'[r]) /\ policies'[r].versions = policies[r].versions
  BY <1>1 DEF PoliciesOK
<1>4. /\ Docs' = Docs /\ DocsOK' /\ ResolversOK' /\ PoliciesOK' /\ EventsOK' /\ AliasesOK'
      /\ TieInv' /\ CandidateInv' /\ RowsInv' /\ ChosenInv'
      /\ \A d, r : IsStored(d, r)' <=> IsStored(d, r)
  BY <1>1, <1>2, <1>3, ToolTies
<1>5. RegistryOK' /\ ConflictsRecorded' /\ EarliestWins' /\ CorrectionsGuarded'
  BY <1>1, <1>4 DEF RegistryOK, ConflictsRecorded, EarliestWins, CorrectionsGuarded
<1>6. \A c \in correction' : ChangeOK(c)
  BY <1>1, FlaggedOK DEF CorrectionInv
<1>7. CorrectionInv'
  BY <1>1, <1>6 DEF CorrectionInv, ChangeOK
<1> QED
  BY <1>2, <1>4, <1>5, <1>7

(* A compare-and-set moves the pointer it was told to, or none.            *)
LEMMA SetStep ==
    ASSUME IdentityInv, NEW c \in correction, NEW from, NEW to, NEW by, CompareAndSet(c, from, to, by),
           by \in {"changed", "reverted"}, {from, to} = {c.from, c.to},
           UNCHANGED <<documents, aliases, resolver, queued, tooOld, registry, mishaps>>,
           by = "changed" => from = c.from /\ to = c.to,
           by = "reverted" => c.outcome = "changed" /\ from = c.to /\ to = c.from
    PROVE  IdentityInv'
<1> USE DEF IdentityInv, IdTypeOK
<1> DEFINE now == policies[c.root].current
           outcome == IF now = to THEN "already" ELSE IF now # from THEN "skipped_changed" ELSE by
<1>1. ChangeOK(c) /\ PolicyOK(policies[c.root]) /\ c.root \in DOMAIN policies /\ to \in policies[c.root].versions
  BY DEF CorrectionInv, ChangeOK, PoliciesOK
<1>2. PICK o : o = outcome
  OBVIOUS
<1>3. /\ policies' = IF o = by THEN [policies EXCEPT ![c.root].current = to] ELSE policies
      /\ moved' = moved \cup IF o = by THEN {[root |-> c.root, from |-> now, to |-> to, by |-> by]} ELSE {}
      /\ correction' = (correction \ {c}) \cup {[c EXCEPT !.outcome = o]}
  BY <1>2 DEF CompareAndSet
<1>4. o = by => now = from
  BY <1>2
<1>5. o \in {"already", "skipped_changed", by}
  BY <1>2
<1> HIDE DEF outcome
<1>6. \/ policies' = policies /\ moved' = moved /\ o # by
      \/ /\ o = by /\ now = from
         /\ policies' = [policies EXCEPT ![c.root].current = to]
         /\ moved' = moved \cup {[root |-> c.root, from |-> from, to |-> to, by |-> by]}
  BY <1>3, <1>4
<1>7. /\ DOMAIN policies' = DOMAIN policies
      /\ \A r \in DOMAIN policies : r # c.root => policies'[r] = policies[r]
  BY <1>6
<1>8. o = by => PolicyOK(policies'[c.root]) /\ policies'[c.root].versions = policies[c.root].versions
  <2>1. SUFFICES ASSUME o = by PROVE PolicyOK(policies'[c.root]) /\ policies'[c.root].versions = policies[c.root].versions
    OBVIOUS
  <2>2. PICK p, q : p = policies[c.root] /\ q = policies'[c.root]
    OBVIOUS
  <2>3. q = [p EXCEPT !.current = to]
    BY <1>1, <1>6, <2>1, <2>2
  <2>4. q = [versions |-> q.versions, current |-> q.current, provenance |-> q.provenance] /\ q.versions = p.versions /\ q.current = to
    BY <1>1, <2>2, <2>3 DEF PolicyOK
  <2> QED
    BY <1>1, <2>2, <2>4 DEF PolicyOK
<1>9. \A r \in DOMAIN policies : PolicyOK(policies'[r]) /\ policies'[r].versions = policies[r].versions
  BY <1>6, <1>7, <1>8 DEF PoliciesOK
<1>10. (Undisturbed' => Undisturbed) /\ MishapsOK'
  <2>1. \A d, r : IsStored(d, r)' <=> IsStored(d, r)
    BY <1>7, <1>9 DEF IsStored
  <2> QED
    BY <2>1, PersistedDocs DEF Undisturbed, Bridged, MishapsOK
<1>11. /\ Docs' = Docs /\ DocsOK' /\ ResolversOK' /\ PoliciesOK' /\ EventsOK' /\ AliasesOK'
       /\ TieInv' /\ CandidateInv' /\ RowsInv' /\ ChosenInv'
       /\ \A d, r : IsStored(d, r)' <=> IsStored(d, r)
  BY <1>7, <1>9, <1>10, ToolTies
<1>12. RegistryOK' /\ ConflictsRecorded'
  BY <1>7, <1>9, <1>11 DEF RegistryOK, ConflictsRecorded
<1>13. moved \subseteq moved'
  BY <1>6
<1>14. ASSUME NEW x, ChangeOK(x) PROVE ChangeOK(x)'
  BY <1>7, <1>9, <1>13, <1>14 DEF ChangeOK
<1>15. PICK x : x = [c EXCEPT !.outcome = o]
  OBVIOUS
<1>16. ChangeOK(x)'
  <2>1. /\ x = [root |-> x.root, from |-> x.from, to |-> x.to, outcome |-> x.outcome]
        /\ x.root = c.root /\ x.from = c.from /\ x.to = c.to /\ x.outcome = o
    BY <1>1, <1>15 DEF ChangeOK
  <2>2. o = "changed" => [root |-> c.root, from |-> c.from, to |-> c.to, by |-> "changed"] \in moved'
    BY <1>5, <1>6
  <2> QED
    BY <1>1, <1>7, <1>9, <2>1, <2>2 DEF ChangeOK
<1>17. CorrectionInv'
  <2>1. ASSUME NEW y \in correction' PROVE ChangeOK(y)'
    BY <1>3, <1>14, <1>15, <1>16, <2>1 DEF CorrectionInv
  <2> QED
    BY <2>1 DEF CorrectionInv
<1>18. ASSUME NEW r \in DOMAIN policies, Comparable(policies[r].versions),
              \A v \in policies[r].versions : <<r, v.doc, v.published>> \notin tooOld,
              ~\E m \in moved' : m.root = r /\ m.by = "reverted"
       PROVE  \A v \in policies[r].versions : policies'[r].current.published <= v.published
  <2>1. \A v \in policies[r].versions : policies[r].current.published <= v.published
    BY <1>13, <1>18 DEF EarliestWins
  <2>2. CASE policies'[r] = policies[r]
    BY <2>1, <2>2
  <2>3. CASE o = by /\ r = c.root
    <3>1. by = "changed"
      <4>1. PICK m : m = [root |-> c.root, from |-> from, to |-> to, by |-> by]
        OBVIOUS
      <4>2. m \in moved' /\ m.root = r /\ m.by = by
        BY <1>6, <2>3, <4>1
      <4> QED
        BY <1>18, <4>2
    <3>2. from = c.from /\ to = c.to /\ policies[r].current = c.from
      BY <1>6, <2>3, <3>1
    <3>3. c.from.published <= c.to.published /\ c.to.published < c.from.published
      BY <1>1, <2>1, <2>3, <3>2 DEF ChangeOK
    <3>4. c.from.published \in Int /\ c.to.published \in Int
      BY <1>1 DEF ChangeOK, Disclosed, PolicyOK, Time
    <3> QED
      BY <3>3, <3>4
  <2> QED
    BY <1>6, <1>7, <2>2, <2>3
<1>19. EarliestWins'
  BY <1>7, <1>9, <1>18 DEF EarliestWins
<1>20. CorrectionsGuarded'
  <2>1. ASSUME NEW m \in moved', m.by = "changed"
        PROVE  SubstantivelyEqual(m.from, m.to) /\ Disclosed(m.from, m.to) /\ m.to.published < m.from.published
    <3>1. CASE m \in moved
      BY <2>1, <3>1 DEF CorrectionsGuarded
    <3>2. CASE m = [root |-> c.root, from |-> from, to |-> to, by |-> by]
      <4>1. m.from = c.from /\ m.to = c.to
        BY <2>1, <3>2
      <4> QED
        BY <1>1, <4>1 DEF ChangeOK
    <3> QED
      BY <1>6, <3>1, <3>2
  <2>2. ASSUME NEW m \in moved', m.by = "reverted"
        PROVE  [m EXCEPT !.from = m.to, !.to = m.from, !.by = "changed"] \in moved'
    <3>1. CASE m \in moved
      BY <1>13, <2>2, <3>1 DEF CorrectionsGuarded
    <3>2. CASE m = [root |-> c.root, from |-> from, to |-> to, by |-> by]
      <4>1. by = "reverted" /\ from = c.to /\ to = c.from
        BY <2>2, <3>2
      <4>2. [root |-> c.root, from |-> c.from, to |-> c.to, by |-> "changed"] \in moved
        BY <1>1, <4>1 DEF ChangeOK
      <4>3. PICK z : z = [m EXCEPT !.from = m.to, !.to = m.from, !.by = "changed"]
        OBVIOUS
      <4>4. z.root = c.root /\ z.from = c.from /\ z.to = c.to /\ z.by = "changed"
        BY <3>2, <4>1, <4>3
      <4>5. z = [root |-> z.root, from |-> z.from, to |-> z.to, by |-> z.by]
        BY <3>2, <4>3
      <4> QED
        BY <1>13, <4>2, <4>3, <4>4, <4>5
    <3> QED
      BY <1>6, <3>1, <3>2
  <2> QED
    BY <2>1, <2>2 DEF CorrectionsGuarded
<1> QED
  BY <1>10, <1>11, <1>12, <1>17, <1>19, <1>20

(* A correction or a revert moves a current version.                       *)
LEMMA CorrectStep ==
    ASSUME IdentityInv, Correct \/ Revert
    PROVE  IdentityInv'
<1>1. UNCHANGED <<documents, aliases, resolver, queued, tooOld, registry, mishaps>>
  BY DEF Correct, Revert, Untroubled
<1>2. CASE Correct
  <2>1. PICK c \in correction : c.outcome = "proposed" /\ CompareAndSet(c, c.from, c.to, "changed")
    BY <1>2 DEF Correct
  <2> QED
    BY <1>1, <2>1, SetStep
<1>3. CASE Revert
  <2>1. PICK c \in correction : c.outcome = "changed" /\ CompareAndSet(c, c.to, c.from, "reverted")
    BY <1>3 DEF Revert
  <2>2. {c.to, c.from} = {c.from, c.to}
    OBVIOUS
  <2> QED
    BY <1>1, <2>1, <2>2, SetStep
<1> QED
  BY <1>2, <1>3

(* What is left in Redis of earlier events.                                *)
KeptOK(kept, earlier) ==
    /\ DOMAIN kept = UNION {RedisKeys(e) : e \in earlier}
    /\ \A d : \A k \in Aliases(d) : k \in DOMAIN kept => \E e \in earlier : k \in Aliases(e.doc) /\ kept[k] = e.root
    /\ \A r : Policy(r) \in DOMAIN kept => \E e \in earlier : kept[Policy(r)].published = e.published
    /\ \A r : Analyzed(r) \in DOMAIN kept => \E e \in earlier : e.root = r /\ kept[Analyzed(r)] = e.doc
(* It is what the events say.                                              *)
LEMMA KeptKeys ==
    ASSUME NEW earlier
    PROVE  KeptOK(RedisOf(earlier), earlier)
<1>0. PICK kept : kept = RedisOf(earlier)
  OBVIOUS
<1>1. DOMAIN kept = UNION {RedisKeys(e) : e \in earlier}
  BY <1>0 DEF RedisOf
<1>2. ASSUME NEW k \in DOMAIN kept
      PROVE  \E e \in earlier : /\ k \in RedisKeys(e)
                                /\ kept[k] = IF k[1] = "policy" THEN [published |-> e.published, provenance |-> e.provenance]
                                             ELSE IF k[1] = "processed" THEN e.doc ELSE e.root
  <2>1. PICK e : e = CHOOSE x \in earlier : k \in RedisKeys(x)
    OBVIOUS
  <2>2. e \in earlier /\ k \in RedisKeys(e)
    BY <1>1, <2>1
  <2> QED
    BY <1>0, <1>1, <2>1, <2>2 DEF RedisOf
<1>3. ASSUME NEW d, NEW k \in Aliases(d), k \in DOMAIN kept PROVE \E e \in earlier : k \in Aliases(e.doc) /\ kept[k] = e.root
  <2>1. k[1] = "alias"
    BY DEF Aliases
  <2>2. PICK e \in earlier : k \in RedisKeys(e) /\ kept[k] = e.root
    BY <1>2, <1>3, <2>1
  <2>3. k # Policy(e.root) /\ k # Analyzed(e.root)
    BY AliasApart
  <2> QED
    BY <2>2, <2>3 DEF RedisKeys
<1>4. ASSUME NEW r, Policy(r) \in DOMAIN kept PROVE \E e \in earlier : kept[Policy(r)].published = e.published
  <2>1. Policy(r)[1] = "policy"
    BY DEF Policy
  <2>2. PICK e \in earlier : kept[Policy(r)] = [published |-> e.published, provenance |-> e.provenance]
    BY <1>2, <1>4, <2>1
  <2> QED
    BY <2>2
<1>5. ASSUME NEW r, Analyzed(r) \in DOMAIN kept PROVE \E e \in earlier : e.root = r /\ kept[Analyzed(r)] = e.doc
  <2>1. Analyzed(r)[1] = "processed"
    BY DEF Analyzed
  <2>2. PICK e \in earlier : Analyzed(r) \in RedisKeys(e) /\ kept[Analyzed(r)] = e.doc
    BY <1>2, <1>5, <2>1
  <2>3. Analyzed(r) \notin Aliases(e.doc)
    BY AliasApart
  <2>4. Analyzed(r) # Policy(e.root) /\ (Analyzed(e.root) = Analyzed(r) => e.root = r)
    BY KeyNames
  <2> QED
    BY <2>2, <2>3, <2>4 DEF RedisKeys
<1>6. KeptOK(kept, earlier)
  BY <1>1, <1>3, <1>4, <1>5 DEF KeptOK
<1> QED
  BY <1>0, <1>6

(* A function on a finite set has finitely many values.                    *)
LEMMA FiniteValues ==
    ASSUME NEW S, IsFiniteSet(S), NEW f, f = [x \in S |-> f[x]]
    PROVE  IsFiniteSet({f[x] : x \in S})
<1> DEFINE T == {f[x] : x \in S}
<1>1. f \in [S -> T]
  OBVIOUS
<1>2. \A t \in T : \E x \in S : f[x] = t
  OBVIOUS
<1> HIDE DEF T
<1>3. f \in Surjection(S, T)
  BY <1>1, <1>2 DEF Surjection
<1>4. IsFiniteSet(T)
  BY <1>3, FS_Surjection
<1> QED
  BY <1>4 DEF T

(* The worlds in terms of the events recorded before.                      *)
LEMMA FirstState ==
    ASSUME NEW worlds, WorldsAssumption(worlds), IdentityInit(worlds)
    PROVE  \E earlier, now :
             /\ IsFiniteSet(earlier)
             /\ \A d \in documents \cup {e.doc : e \in earlier} : DocOK(d)
             /\ \A e \in earlier : /\ e.published \in Time
                                   /\ \E x \in earlier : e.root = Candidate(x.doc) /\ Akin(x.doc, e.doc)
                                   /\ \A x \in earlier : Akin(x.doc, e.doc) => x.root = e.root
             /\ DOMAIN policies = {e.root : e \in earlier}
             /\ \A r \in DOMAIN policies :
                  /\ policies[r] = [versions |-> policies[r].versions, current |-> policies[r].current, provenance |-> policies[r].provenance]
                  /\ policies[r].versions = {Version(e) : e \in EventsOf(earlier, r)}
                  /\ policies[r].current \in policies[r].versions
                  /\ Comparable(policies[r].versions) /\ (\A e \in EventsOf(earlier, r) : e.make_current)
                       => \A v \in policies[r].versions : policies[r].current.published <= v.published
             /\ DOMAIN registry = UNION {Keys(e.doc) : e \in earlier}
             /\ \A k \in DOMAIN registry : /\ AnchorRowOK(registry[k]) /\ registry[k].others = {}
                                           /\ \E e \in earlier : k \in Keys(e.doc) /\ registry[k].root = e.root
             /\ tooOld = {<<e.root, e.doc, e.published>> : e \in {x \in earlier : ~x.make_current}}
             /\ now \subseteq earlier /\ aliases = RedisOf(now)
             /\ mishaps \subseteq {"expired"} /\ ("expired" \notin mishaps => now = earlier)
<1>1. PICK world \in worlds :
         LET earlier == world.earlier  of(root) == EventsOf(earlier, root)
         IN /\ documents = world.documents
            /\ policies = [r \in {e.root : e \in earlier} |->
                              [versions |-> {Version(e) : e \in of(r)}, current |-> world.current[r],
                               provenance |-> UNION {{Version(e)} \X e.provenance : e \in of(r)}]]
            /\ registry = [k \in UNION {Keys(e.doc) : e \in earlier} |->
                              [root |-> (CHOOSE e \in earlier : k \in Keys(e.doc)).root, others |-> {}]]
            /\ tooOld = {<<e.root, e.doc, e.published>> : e \in {x \in earlier : ~x.make_current}}
            /\ aliases = RedisOf(IF world.live THEN earlier ELSE {})
            /\ mishaps = IF world.live THEN {} ELSE {"expired"}
  BY DEF IdentityInit
<1>2. PICK earlier, now : earlier = world.earlier /\ now = IF world.live THEN earlier ELSE {}
  OBVIOUS
<1>3. /\ IsFiniteSet(earlier)
      /\ \A d \in documents \cup {e.doc : e \in earlier} : DocOK(d)
      /\ \A e \in earlier : /\ e.published \in Time
                            /\ \E x \in earlier : e.root = Candidate(x.doc) /\ Akin(x.doc, e.doc)
                            /\ \A x \in earlier : Akin(x.doc, e.doc) => x.root = e.root
  BY <1>1, <1>2 DEF WorldsAssumption, DocOK, Time
<1>4. policies = [r \in {e.root : e \in earlier} |->
                    [versions |-> {Version(e) : e \in EventsOf(earlier, r)}, current |-> world.current[r],
                     provenance |-> UNION {{Version(e)} \X e.provenance : e \in EventsOf(earlier, r)}]]
  BY <1>1, <1>2
<1>5. DOMAIN policies = {e.root : e \in earlier}
  BY <1>4
<1>6. ASSUME NEW r \in DOMAIN policies
      PROVE  /\ policies[r] = [versions |-> policies[r].versions, current |-> policies[r].current, provenance |-> policies[r].provenance]
             /\ policies[r].versions = {Version(e) : e \in EventsOf(earlier, r)}
             /\ policies[r].current = world.current[r]
  BY <1>4
<1>7. ASSUME NEW r \in DOMAIN policies
      PROVE  LET vs == {Version(e) : e \in EventsOf(earlier, r)} IN
                /\ world.current[r] \in vs
                /\ Comparable(vs) /\ (\A e \in EventsOf(earlier, r) : e.make_current)
                     => \A v \in vs : world.current[r].published <= v.published
  BY <1>2, <1>5 DEF WorldsAssumption
<1>8. registry = [k \in UNION {Keys(e.doc) : e \in earlier} |->
                    [root |-> (CHOOSE e \in earlier : k \in Keys(e.doc)).root, others |-> {}]]
  BY <1>1, <1>2
<1>9. ASSUME NEW k \in DOMAIN registry
      PROVE  /\ AnchorRowOK(registry[k]) /\ registry[k].others = {}
             /\ \E e \in earlier : k \in Keys(e.doc) /\ registry[k].root = e.root
  <2>1. PICK e : e = CHOOSE x \in earlier : k \in Keys(x.doc)
    OBVIOUS
  <2>2. e \in earlier /\ k \in Keys(e.doc)
    BY <1>8, <2>1
  <2>3. registry[k] = [root |-> e.root, others |-> {}]
    BY <1>8, <2>1
  <2> QED
    BY <2>2, <2>3 DEF AnchorRowOK
<1>10. /\ tooOld = {<<e.root, e.doc, e.published>> : e \in {x \in earlier : ~x.make_current}}
       /\ now \subseteq earlier /\ aliases = RedisOf(now)
       /\ mishaps \subseteq {"expired"} /\ ("expired" \notin mishaps => now = earlier)
  BY <1>1, <1>2
<1>11. DOMAIN registry = UNION {Keys(e.doc) : e \in earlier}
  BY <1>8
<1>12. ASSUME NEW r \in DOMAIN policies
       PROVE  /\ policies[r].current \in policies[r].versions
              /\ Comparable(policies[r].versions) /\ (\A e \in EventsOf(earlier, r) : e.make_current)
                   => \A v \in policies[r].versions : policies[r].current.published <= v.published
  BY <1>6, <1>7
<1> QED
  BY <1>3, <1>5, <1>6, <1>9, <1>10, <1>11, <1>12

(* The invariant holds of every recorded history.                          *)
LEMMA IdentityStarts ==
    ASSUME NEW worlds, WorldsAssumption(worlds), IdentityInit(worlds)
    PROVE  IdentityInv
<1>1. PICK earlier, now :
             /\ IsFiniteSet(earlier)
             /\ \A d \in documents \cup {e.doc : e \in earlier} : DocOK(d)
             /\ \A e \in earlier : /\ e.published \in Time
                                   /\ \E x \in earlier : e.root = Candidate(x.doc) /\ Akin(x.doc, e.doc)
                                   /\ \A x \in earlier : Akin(x.doc, e.doc) => x.root = e.root
             /\ DOMAIN policies = {e.root : e \in earlier}
             /\ \A r \in DOMAIN policies :
                  /\ policies[r] = [versions |-> policies[r].versions, current |-> policies[r].current, provenance |-> policies[r].provenance]
                  /\ policies[r].versions = {Version(e) : e \in EventsOf(earlier, r)}
                  /\ policies[r].current \in policies[r].versions
                  /\ Comparable(policies[r].versions) /\ (\A e \in EventsOf(earlier, r) : e.make_current)
                       => \A v \in policies[r].versions : policies[r].current.published <= v.published
             /\ DOMAIN registry = UNION {Keys(e.doc) : e \in earlier}
             /\ \A k \in DOMAIN registry : /\ AnchorRowOK(registry[k]) /\ registry[k].others = {}
                                           /\ \E e \in earlier : k \in Keys(e.doc) /\ registry[k].root = e.root
             /\ tooOld = {<<e.root, e.doc, e.published>> : e \in {x \in earlier : ~x.make_current}}
             /\ now \subseteq earlier /\ aliases = RedisOf(now)
             /\ mishaps \subseteq {"expired"} /\ ("expired" \notin mishaps => now = earlier)
  BY FirstState, Zenon
<1>2. /\ resolver = [w \in Resolvers |-> Free] /\ queued = {} /\ correction = {} /\ moved = {}
  BY DEF IdentityInit
<1>3. /\ InProcess = {} /\ Events = {} /\ \A d, c : ~AtResolve(d, c)
      /\ ResolversOK
  <2>1. \A w \in Resolvers : resolver[w].pc = "idle" /\ ResolverOK(resolver[w])
    BY <1>2 DEF Free, ResolverOK
  <2>2. DOMAIN resolver = Resolvers
    BY <1>2
  <2>3. InProcess = {} /\ \A d, c : ~AtResolve(d, c)
    BY <2>1 DEF InProcess, AtResolve
  <2> QED
    BY <1>2, <2>1, <2>2, <2>3 DEF Events, ResolversOK
<1>4. \A e : Version(e) = [doc |-> e.doc, published |-> e.published]
  BY DEF Version
<1>30. ASSUME NEW r \in DOMAIN policies, NEW v \in policies[r].versions
       PROVE  \E e \in EventsOf(earlier, r) : v = Version(e)
  <2>1. policies[r].versions = {Version(e) : e \in EventsOf(earlier, r)}
    BY <1>1
  <2> QED
    BY <2>1
<1>31. ASSUME NEW r \in DOMAIN policies, NEW v \in policies[r].versions
       PROVE  /\ v = [doc |-> v.doc, published |-> v.published] /\ v.published \in Time
              /\ \E e \in earlier : e.root = r /\ e.doc = v.doc
  <2>1. PICK e \in EventsOf(earlier, r) : v = Version(e)
    BY <1>30
  <2>2. e \in earlier /\ e.root = r
    BY DEF EventsOf
  <2>3. v = [doc |-> e.doc, published |-> e.published]
    BY <1>4, <2>1
  <2>4. v.doc = e.doc /\ v.published = e.published
    BY <2>3
  <2>5. v = [doc |-> v.doc, published |-> v.published]
    BY <2>3, <2>4
  <2>6. v.published \in Time
    BY <1>1, <2>2, <2>4
  <2> QED
    BY <2>2, <2>4, <2>5, <2>6
<1>32. ASSUME NEW e \in earlier
       PROVE  e.root \in DOMAIN policies /\ Version(e) \in policies[e.root].versions /\ Version(e).doc = e.doc
  <2>1. e.root \in DOMAIN policies /\ e \in EventsOf(earlier, e.root)
    BY <1>1 DEF EventsOf
  <2>2. policies[e.root].versions = {Version(x) : x \in EventsOf(earlier, e.root)}
    BY <1>1, <2>1
  <2> QED
    BY <1>4, <2>1, <2>2
<1>5. ASSUME NEW d, NEW r PROVE IsStored(d, r) <=> \E e \in earlier : e.doc = d /\ e.root = r
  <2>1. ASSUME IsStored(d, r) PROVE \E e \in earlier : e.doc = d /\ e.root = r
    <3>1. r \in DOMAIN policies
      BY <2>1 DEF IsStored
    <3>2. PICK v \in policies[r].versions : v.doc = d
      BY <2>1 DEF IsStored
    <3> QED
      BY <1>31, <3>1, <3>2
  <2>2. ASSUME NEW e \in earlier, e.doc = d, e.root = r PROVE IsStored(d, r)
    BY <1>32, <2>2 DEF IsStored
  <2> QED
    BY <2>1, <2>2
<1>6. ASSUME NEW d, NEW r PROVE Saved(d, r) <=> IsStored(d, r)
  BY <1>3 DEF Saved, IsCarried
<1>7. Docs = documents \cup {e.doc : e \in earlier}
  <2>1. ASSUME NEW d PROVE d \in Persisted <=> \E e \in earlier : e.doc = d
    <3>1. d \in Persisted <=> \E r \in DOMAIN policies : \E v \in policies[r].versions : v.doc = d
      BY DEF Persisted
    <3>2. ASSUME d \in Persisted PROVE \E e \in earlier : e.doc = d
      BY <1>31, <3>1, <3>2
    <3>3. ASSUME NEW e \in earlier, e.doc = d PROVE d \in Persisted
      BY <1>32, <3>1, <3>3
    <3> QED
      BY <3>2, <3>3
  <2> QED
    BY <2>1 DEF Docs
<1>8. DocsOK
  BY <1>1, <1>7 DEF DocsOK
<1>9. \A e \in earlier : e.doc \in Docs /\ e.doc.anchors # {} /\ Akin(e.doc, e.doc) /\ IsStored(e.doc, e.root)
  BY <1>1, <1>5, <1>7 DEF Akin
<1>10. PoliciesOK
  <2>1. IsFiniteSet(DOMAIN policies)
    <3>1. PICK f : f = [e \in earlier |-> e.root]
      OBVIOUS
    <3>2. f = [e \in earlier |-> f[e]] /\ DOMAIN policies = {f[e] : e \in earlier}
      BY <1>1, <3>1
    <3> QED
      BY <1>1, <3>2, FiniteValues
  <2>2. ASSUME NEW r \in DOMAIN policies PROVE PolicyOK(policies[r])
    <3>1. PICK f : f = [e \in EventsOf(earlier, r) |-> Version(e)]
      OBVIOUS
    <3>2. f = [e \in EventsOf(earlier, r) |-> f[e]] /\ policies[r].versions = {f[e] : e \in EventsOf(earlier, r)}
      BY <1>1, <3>1
    <3>3. IsFiniteSet(EventsOf(earlier, r))
      BY <1>1, FS_Subset DEF EventsOf
    <3>4. IsFiniteSet(policies[r].versions)
      BY <3>2, <3>3, FiniteValues
    <3>5. \A v \in policies[r].versions : v = [doc |-> v.doc, published |-> v.published] /\ v.published \in Time
      BY <1>31
    <3> QED
      BY <1>1, <3>4, <3>5 DEF PolicyOK
  <2> QED
    BY <2>1, <2>2 DEF PoliciesOK
<1>11. EventsOK
  BY <1>3 DEF EventsOK
<1>12. PICK kept : kept = aliases /\ KeptOK(kept, now)
  BY <1>1, KeptKeys
<1>13. /\ DOMAIN kept = UNION {RedisKeys(e) : e \in now}
       /\ \A d : \A k \in Aliases(d) : k \in DOMAIN kept => \E e \in now : k \in Aliases(e.doc) /\ kept[k] = e.root
       /\ \A r : Policy(r) \in DOMAIN kept => \E e \in now : kept[Policy(r)].published = e.published
       /\ \A r : Analyzed(r) \in DOMAIN kept => \E e \in now : e.root = r /\ kept[Analyzed(r)] = e.doc
  BY <1>12 DEF KeptOK
<1>14. AliasesOK
  BY <1>1, <1>9, <1>12, <1>13 DEF AliasesOK
<1>15. RegistryOK
  BY <1>1, <1>9 DEF RegistryOK
<1>16. MishapsOK
  BY <1>1 DEF MishapsOK
<1>17. ASSUME NEW d \in Docs, NEW r, Saved(d, r) \/ IsCached(d, r)
       PROVE  \E e \in earlier : e.doc = d /\ e.root = r
  BY <1>1, <1>5, <1>6, <1>12, <1>13, <1>17 DEF IsCached
<1>18. LiveInv
  <2>1. ASSUME "expired" \notin mishaps, NEW e \in earlier, NEW k \in Aliases(e.doc)
        PROVE  k \in DOMAIN aliases /\ aliases[k] = e.root
    <3>1. now = earlier /\ k \in RedisKeys(e)
      BY <1>1, <2>1 DEF RedisKeys
    <3>2. k \in DOMAIN kept
      BY <1>13, <3>1
    <3>3. PICK x \in earlier : k \in Aliases(x.doc) /\ kept[k] = x.root
      BY <1>13, <3>1, <3>2
    <3>4. Akin(x.doc, e.doc)
      BY <1>9, <3>3, AliasShared
    <3> QED
      BY <1>1, <1>12, <3>2, <3>3, <3>4
  <2> QED
    BY <1>17, <2>1 DEF LiveInv
<1>19. ASSUME NEW d \in Docs, NEW r, Known(d, r) PROVE \E e \in earlier : e.root = r /\ Akin(e.doc, d)
  <2>1. CASE Saved(d, r) \/ IsCached(d, r)
    BY <1>9, <1>17, <2>1
  <2>2. CASE r \in Roots(d)
    <3>1. PICK k \in Aliases(d) : k \in DOMAIN kept /\ r = kept[k]
      BY <1>12, <2>2 DEF Roots
    <3>2. PICK e \in earlier : k \in Aliases(e.doc) /\ kept[k] = e.root
      BY <1>1, <1>13, <3>1
    <3>3. Akin(e.doc, d)
      BY <1>9, <3>2, AliasShared, AkinSymmetric
    <3> QED
      BY <3>1, <3>2, <3>3
  <2> QED
    BY <1>19, <2>1, <2>2 DEF Known
<1>20. HomeInv
  <2>1. ASSUME ~Bridged, NEW d \in Docs, NEW r, Known(d, r) PROVE Home(d, r)
    <3>1. PICK e \in earlier : e.root = r /\ Akin(e.doc, d)
      BY <1>19, <2>1
    <3>2. Home(e.doc, r)
      BY <1>1, <1>9, <3>1 DEF Home
    <3> QED
      BY <1>9, <2>1, <3>1, <3>2, HomeMoves
  <2> QED
    BY <2>1 DEF HomeInv
<1>21. OneInv
  <2>1. ASSUME Undisturbed, NEW d \in Docs, NEW p \in Docs, NEW r, NEW q, Known(d, r), Known(p, q), Akin(d, p) PROVE r = q
    <3>1. PICK e \in earlier : e.root = r /\ Akin(e.doc, d)
      BY <1>19, <2>1
    <3>2. PICK f \in earlier : f.root = q /\ Akin(f.doc, p)
      BY <1>19, <2>1
    <3>3. Akin(e.doc, p)
      BY <1>9, <2>1, <3>1, AkinTransitive DEF Undisturbed
    <3>4. Akin(e.doc, f.doc)
      BY <1>9, <2>1, <3>2, <3>3, AkinTransitive, AkinSymmetric DEF Undisturbed
    <3> QED
      BY <1>1, <3>1, <3>2, <3>4
  <2> QED
    BY <2>1 DEF OneInv
<1>22. BackedInv
  BY <1>6, <1>9, <1>19 DEF BackedInv
<1>23. ASSUME NEW e \in earlier, NEW k \in Keys(e.doc)
       PROVE  k \in DOMAIN registry /\ registry[k].root = e.root /\ registry[k].others = {}
  <2>1. k \in DOMAIN registry
    BY <1>1
  <2>2. PICK x \in earlier : k \in Keys(x.doc) /\ registry[k].root = x.root
    BY <1>1, <2>1
  <2>3. Akin(x.doc, e.doc)
    BY <2>2, KeyShared
  <2> QED
    BY <1>1, <2>1, <2>2, <2>3
<1>24. RowsInv
  BY <1>5, <1>23 DEF RowsInv
<1>25. ConflictsRecorded
  <2>1. ASSUME NEW r \in DOMAIN policies, NEW v \in policies[r].versions, NEW k \in Keys(v.doc)
        PROVE  k \in DOMAIN registry /\ registry[k].root = r
    <3>1. PICK e \in earlier : e.root = r /\ e.doc = v.doc
      BY <1>31
    <3> QED
      BY <1>23, <3>1
  <2> QED
    BY <2>1 DEF ConflictsRecorded
<1>26. EarliestWins
  <2>1. ASSUME NEW r \in DOMAIN policies, Comparable(policies[r].versions),
               \A v \in policies[r].versions : <<r, v.doc, v.published>> \notin tooOld
        PROVE  \A v \in policies[r].versions : policies[r].current.published <= v.published
    <3>1. ASSUME NEW e \in EventsOf(earlier, r) PROVE e.make_current
      <4>1. PICK v : v = Version(e)
        OBVIOUS
      <4>2. v \in policies[r].versions /\ v.doc = e.doc /\ v.published = e.published
        BY <1>1, <1>4, <4>1
      <4>3. <<e.root, e.doc, e.published>> \notin tooOld
        BY <2>1, <4>2 DEF EventsOf
      <4> QED
        BY <1>1, <4>3 DEF EventsOf
    <3> QED
      BY <1>1, <2>1, <3>1
  <2> QED
    BY <2>1 DEF EarliestWins
<1>27. CorrectionInv /\ CorrectionsGuarded /\ CandidateInv /\ ChosenInv
  BY <1>2, <1>3 DEF CorrectionInv, CorrectionsGuarded, CandidateInv, ChosenInv
<1> QED
  BY <1>3, <1>8, <1>10, <1>11, <1>14, <1>15, <1>16, <1>18, <1>20, <1>21, <1>22, <1>24, <1>25, <1>26, <1>27
     DEF IdentityInv, IdTypeOK, TieInv

(* Every step of the collectors, the writers and the tools keeps it.       *)
LEMMA IdentitySteps ==
    ASSUME IdentityInv, [IdentityNext]_identityVars
    PROVE  IdentityInv'
<1>1. ASSUME NEW w \in Resolvers, Take(w) PROVE IdentityInv'
  BY <1>1, TakeStep
<1>2. ASSUME NEW w \in Resolvers, Check(w) PROVE IdentityInv'
  BY <1>2, CheckStep
<1>3. ASSUME NEW w \in Resolvers, Lookup(w) PROVE IdentityInv'
  BY <1>3, LookupStep
<1>4. ASSUME NEW w \in Resolvers, Resolve(w) PROVE IdentityInv'
  BY <1>4, ResolveStep
<1>5. ASSUME NEW w \in Resolvers, Process(w) PROVE IdentityInv'
  BY <1>5, ProcessStep
<1>6. CASE Lose
  BY <1>6, LoseStep
<1>7. CASE Persist
  BY <1>7, PersistStep
<1>8. CASE Drop
  BY <1>8, DropStep
<1>9. CASE Backfill
  BY <1>9, BackfillStep
<1>10. CASE AuditPointers \/ SaveSnapshot
  BY <1>10, AuditStep
<1>11. CASE Correct \/ Revert
  BY <1>11, CorrectStep
<1>12. CASE UNCHANGED identityVars
  <2> USE <1>12 DEF IdentityInv, IdTypeOK, identityVars
  <2>1. durableVars' = durableVars /\ Events' = Events /\ Undisturbed' = Undisturbed /\ policies' = policies
    BY DEF durableVars, toolVars, Events, InProcess, Undisturbed, Bridged, Persisted
  <2>2. /\ Docs' = Docs /\ DocsOK' /\ PoliciesOK'
    BY SameStore
  <2>3. RegistryOK' /\ RowsInv' /\ CorrectionInv' /\ ConflictsRecorded' /\ EarliestWins' /\ CorrectionsGuarded'
    BY <2>1, DurableSame
  <2>4. /\ \A d, r : Saved(d, r)' <=> Saved(d, r)
        /\ \A d : Roots(d)' = Roots(d)
        /\ \A d, r : IsCached(d, r)' <=> IsCached(d, r)
        /\ EventsOK' /\ AliasesOK'
    BY <2>1, TiesSame
  <2>5. ResolversOK' /\ MishapsOK'
    BY DEF ResolversOK, MishapsOK
  <2>6. TieInv'
    BY <2>1, <2>2, <2>4, Narrowing
  <2>7. \A d, c : AtResolve(d, c)' <=> AtResolve(d, c)
    BY DEF AtResolve
  <2>8. CandidateInv' /\ ChosenInv'
    BY <2>1, <2>2, <2>4, <2>7, Waiting
  <2> QED
    BY <2>2, <2>3, <2>4, <2>5, <2>6, <2>8
<1> QED
  BY <1>1, <1>2, <1>3, <1>4, <1>5, <1>6, <1>7, <1>8, <1>9, <1>10, <1>11, <1>12 DEF IdentityNext

(* Two roots of one action: a key was lost, and the registry could not     *)
(* answer.                                                                 *)
LEMMA RootsAgree ==
    ASSUME IdentityInv
    PROVE  OneRoot
<1>1. SUFFICES ASSUME NEW r \in DOMAIN policies, NEW q \in DOMAIN policies, Diverged(r, q, Authoritative)
               PROVE  /\ "expired" \in mishaps
                      /\ mishaps \cap {"lookup", "registry", "unsaved", "lag", "window", "unknown"} # {} \/ Bridged
  BY DEF OneRoot
<1>2. PICK v \in policies[r].versions, x \in policies[q].versions :
            v.doc.stage = x.doc.stage /\ v.doc.anchors \cap x.doc.anchors \cap Authoritative # {}
  BY <1>1 DEF Diverged
<1>3. r # q
  BY <1>1 DEF Diverged
<1>4. PICK d, p : d = v.doc /\ p = x.doc
  OBVIOUS
<1>5. Akin(d, p)
  BY <1>2, <1>4 DEF Akin
<1>6. IsStored(d, r) /\ IsStored(p, q)
  BY <1>4 DEF IsStored
<1>7. d \in Docs /\ p \in Docs
  BY <1>4 DEF Docs, Persisted
<1>8. Saved(d, r) /\ Saved(p, q) /\ Known(d, r) /\ Known(p, q)
  BY <1>6 DEF Saved, Known
<1>9. "expired" \in mishaps
  <2>1. PICK k \in Aliases(d) : k \in Aliases(p)
    BY <1>5, AkinAlias
  <2> QED
    BY <1>3, <1>7, <1>8, <2>1 DEF IdentityInv, TieInv, LiveInv
<1>10. ~Undisturbed
  BY <1>3, <1>5, <1>7, <1>8 DEF IdentityInv, TieInv, OneInv
<1> QED
  BY <1>9, <1>10 DEF Undisturbed

(* What comparing two audits shows, in every state.                        *)
LEMMA Comparisons == AcceptanceTrue
<1>1. SUFFICES ASSUME NEW r \in DOMAIN policies, NEW q \in DOMAIN policies, Diverged(r, q, AnchorsOf(r) \cup AnchorsOf(q))
               PROVE  \E g \in Groups : g.classification = "exact_authoritative_anchor" /\ {r, q} \subseteq g.events
  <2>1. ASSUME NEW g \in Groups, g.classification = "exact_authoritative_anchor", baseline # Nothing, Acceptable PROVE g \in baseline
    BY <2>1 DEF Acceptable
  <2>2. ASSUME NEW r \in DOMAIN policies, NEW q \in DOMAIN policies, Diverged(r, q, AnchorsOf(r) \cup AnchorsOf(q))
        PROVE  InExact(Groups, r, q) /\ (baseline # Nothing => (Acceptable => InExact(baseline, r, q)))
    BY <1>1, <2>1, <2>2 DEF InExact
  <2> QED
    BY <2>2 DEF AcceptanceTrue
<1>2. PICK v \in policies[r].versions, x \in policies[q].versions :
            v.doc.stage = x.doc.stage /\ v.doc.anchors \cap x.doc.anchors \cap (AnchorsOf(r) \cup AnchorsOf(q)) # {}
  BY <1>1 DEF Diverged
<1>3. PICK a, s : a \in v.doc.anchors /\ a \in x.doc.anchors /\ s = v.doc.stage /\ s = x.doc.stage
  BY <1>2
<1>4. r # q /\ a \in AnchorsOf(r) /\ a \in AnchorsOf(q) /\ s \in Stages(r) /\ s \in Stages(q)
  BY <1>1, <1>3 DEF Diverged, AnchorsOf, Stages
<1>5. PICK facts, documented : /\ facts = [e \in DOMAIN policies |-> AnchorsOf(e)]
                              /\ documented = [e \in DOMAIN policies |-> DocumentsOf(e)]
  OBVIOUS
<1>6. PICK g : g = [classification |-> "exact_authoritative_anchor", events |-> Sharing(a, facts, s)]
  OBVIOUS
<1>7. g.classification = "exact_authoritative_anchor" /\ r \in g.events /\ q \in g.events
  BY <1>4, <1>5, <1>6 DEF Sharing
<1> DEFINE exact == GroupsBy(facts, "exact_authoritative_anchor")
           others == GroupsBy(documented, "shared_document_id")
<1>12. g \in exact
  <2>1. a \in UNION {facts[e] : e \in DOMAIN facts} /\ s \in AllStages
    BY <1>4, <1>5 DEF AllStages
  <2> QED
    BY <1>6, <2>1 DEF GroupsBy
<1>8. \A h \in exact \cup others : h.classification \in {"exact_authoritative_anchor", "shared_document_id", "informational_only"}
  <2>1. \A h \in exact : h.classification \in {"exact_authoritative_anchor", "informational_only"}
    BY DEF GroupsBy
  <2>2. \A h \in others : h.classification \in {"shared_document_id", "informational_only"}
    BY DEF GroupsBy
  <2> HIDE DEF exact, others
  <2> QED
    BY <2>1, <2>2
<1>9. \A h \in exact \cup others : Rank[g.classification] <= Rank[h.classification]
  <2>1. /\ Rank["exact_authoritative_anchor"] = 1 /\ Rank["shared_document_id"] = 2
        /\ Rank["informational_only"] = 3
    BY DEF Rank
  <2> HIDE DEF exact, others
  <2> QED
    BY <1>7, <1>8, <2>1
<1>10. g \in Groups
  <2>1. g \in {h \in exact \cup others : \E b, c \in h.events : b # c}
    BY <1>4, <1>7, <1>12
  <2> HIDE DEF exact, others
  <2> QED
    BY <1>5, <1>9, <2>1 DEF Groups, exact, others
<1> QED
  BY <1>7, <1>10

(* The identity of policy actions, for any number of collectors, documents *)
(* and failures and every history: IdentitySound always holds.             *)
THEOREM IdentityIsSound ==
    ASSUME NEW CONSTANT worlds, WorldsAssumption(worlds)
    PROVE  IdentityInit(worlds) /\ [][IdentityNext]_identityVars => []IdentitySound
<1>1. IdentityInit(worlds) => IdentityInv
  BY IdentityStarts
<1>2. IdentityInv /\ [IdentityNext]_identityVars => IdentityInv'
  BY IdentitySteps
<1>3. IdentityInv => IdentitySound
  BY RootsAgree, Comparisons DEF IdentityInv, IdentitySound
<1> QED
  BY <1>1, <1>2, <1>3, PTL

-----------------------------------------------------------------------------
(* The packet loader.                                                      *)

(* What the tables and the writers' queue hold.                            *)
VersionRow(v) == /\ v.event \in DOMAIN Event /\ v.content \in Wording /\ v.observed \in Nat
                 /\ v.id \in Nat /\ v.recorded \in Nat
HistoryRow(h) == h.recorded \in Nat /\ h.value \in 0 .. h.recorded
SnapshotRow(s) == s.created \in Int /\ s.row \in StoredRow
RowsOK(v, h, p, s) == /\ IsFiniteSet(v) /\ (\A x \in v : VersionRow(x)) /\ (\A x \in h : HistoryRow(x))
                      /\ (\A x \in p : x.retrieved \in Nat) /\ (\A x \in s : SnapshotRow(x))
LoaderTypeOK ==
    /\ clock \in Nat
    /\ \A o \in captured : o.event \in DOMAIN Event /\ o.content \in Wording /\ o.observed \in 0 .. clock
    /\ RowsOK(versions, history, provenance, technicals)
    /\ tx # None => RowsOK(tx.versions, tx.history, tx.provenance, tx.snapshots)
(* Of the versions some was recorded last, and some has the last name.     *)
UpTo(n, v) == v.id <= n /\ v.recorded <= n
NamesEnd == \E n \in Nat : /\ \A v \in versions : UpTo(n, v)
                           /\ tx # None => \A v \in tx.versions : UpTo(n, v)
LoaderInv == LoaderTypeOK /\ NamesEnd /\ (built # None => Settled /\ built = Results)
-----------------------------------------------------------------------------
(* What a build reads of the tables decides what it gives.                 *)
LEMMA SameReads ==
    ASSUME \A e : Available(e)' = Available(e), \A v : Provenance(v)' = Provenance(v),
           \A v, kind : Scored(v, kind)' = Scored(v, kind), \A i : Created(i)' = Created(i)
    PROVE  Results' = Results
<1>1. \A e : Chosen(e)' = Chosen(e)
  BY DEF Chosen
<1>2. Candidates' = Candidates
  BY DEF Candidates, InWindow, Published
<1>3. \A e : Loaded(e)' = Loaded(e)
  <2>1. ASSUME NEW e PROVE Loaded(e)' = Loaded(e)
    <3>1. Chosen(e)' = Chosen(e)
      BY <1>1
    <3>2. InWindow(Chosen(e))' = InWindow(Chosen(e))
      BY <3>1 DEF InWindow, Published
    <3>3. Provenance(Chosen(e))' = Provenance(Chosen(e))
      BY <3>1 DEF Provenance
    <3> QED
      BY <1>2, <3>2, <3>3 DEF Loaded
  <2> QED
    BY <2>1
<1>4. LoadedEvents' = LoadedEvents
  BY <1>3 DEF LoadedEvents
<1>5. \A v, kind : LatestOf(v, kind)' = LatestOf(v, kind)
  BY DEF LatestOf
<1>6. \A e : NewsInput(e)' = NewsInput(e)
  <2>1. ASSUME NEW e PROVE NewsInput(e)' = NewsInput(e)
    <3>1. Chosen(e)' = Chosen(e)
      BY <1>1
    <3>2. CollectorOutcome(Chosen(e))' = CollectorOutcome(Chosen(e))
      BY <3>1 DEF CollectorOutcome
    <3> QED
      BY <1>5, <3>1, <3>2 DEF NewsInput, Published
  <2> QED
    BY <2>1
<1>7. \A i : Eligible(i)' = Eligible(i)
  BY DEF Eligible
<1>8. Found' = Found /\ Corrupt' = Corrupt
  BY <1>7 DEF Found, Corrupt
<1>9. Rows' = Rows
  BY <1>7, <1>8 DEF Rows
<1>10. [e \in LoadedEvents |-> NewsInput(e)]' = [e \in LoadedEvents |-> NewsInput(e)]
  BY <1>4, <1>6
<1>11. \A file : Packet(file)' = Packet(file)
  BY <1>9, <1>10 DEF Packet
<1>12. \A file, partial, database : ExitCode(file, partial, database)' = ExitCode(file, partial, database)
  <2>1. Untraceable' = Untraceable
    BY <1>1, <1>4 DEF Untraceable
  <2> QED
    BY <1>8, <2>1 DEF ExitCode
<1>13. \A file, partial, database : Result(file, partial, database)' = Result(file, partial, database)
  BY <1>11, <1>12 DEF Result
<1> QED
  BY <1>13 DEF Results

(* At the beginning.                                                       *)
LEMMA LoaderStarts == ASSUME PacketAssumption, LoaderInit PROVE LoaderInv
<1>1. RowsOK(versions, history, provenance, technicals)
  BY FS_EmptySet DEF LoaderInit, RowsOK, PacketAssumption, SnapshotRow
<1>2. LoaderTypeOK
  BY <1>1 DEF LoaderInit, LoaderTypeOK
<1>3. NamesEnd
  BY DEF LoaderInit, NamesEnd
<1> QED
  BY <1>2, <1>3 DEF LoaderInit, LoaderInv

(* Every step keeps the types, and the names end.                          *)
LEMMA LoaderTyped ==
    ASSUME PacketAssumption, LoaderTypeOK, NamesEnd, [LoaderNext]_loaderVars
    PROVE  LoaderTypeOK' /\ NamesEnd'
<1> USE DEF LoaderTypeOK
<1>1. CASE TimePasses
  BY <1>1 DEF TimePasses, tables, RowsOK, NamesEnd
<1>2. CASE Observe
  <2>1. UNCHANGED <<clock, tx, tables, writes, built>>
    BY <1>2 DEF Observe
  <2>2. ASSUME NEW o \in captured' PROVE o.event \in DOMAIN Event /\ o.content \in Wording /\ o.observed \in 0 .. clock
    <3>1. PICK e \in DOMAIN Event, c \in Wording : \E outcome \in Outcomes(e) :
             captured' = captured \cup {[event |-> e, content |-> c, observed |-> clock, outcome |-> outcome]}
      BY <1>2 DEF Observe
    <3> QED
      BY <2>2, <3>1
  <2> QED
    BY <2>1, <2>2 DEF tables, RowsOK, NamesEnd
<1>3. CASE Write
  <2>1. UNCHANGED <<clock, tables, observed, built>>
    BY <1>3 DEF Write
  <2> DEFINE known(o) == {v \in versions : v.event = o.event /\ v.content = o.content}
             id(o) == IF known(o) = {} THEN Cardinality(versions) + 1 ELSE (CHOOSE v \in known(o) : TRUE).id
             row(o) == [event |-> o.event, content |-> o.content, observed |-> o.observed, id |-> id(o), recorded |-> clock]
             kinds(o) == {"decision"} \cup IF o.outcome = "processed" THEN {"score"} ELSE {}
             entry(o, k) == [version |-> id(o), kind |-> k, value |-> o.observed, outcome |-> o.outcome, recorded |-> clock]
  <2>0. PICK o \in captured :
           /\ captured' = captured \ {o}
           /\ tx' = [EmptyTx EXCEPT
                !.versions = IF known(o) # {} THEN {} ELSE {row(o)},
                !.provenance = {[version |-> id(o), retrieved |-> o.observed]},
                !.history = {entry(o, k) : k \in kinds(o)}]
    BY <1>3, Zenon DEF Write
  <2>2. tx' = [versions |-> IF known(o) # {} THEN {} ELSE {row(o)},
               provenance |-> {[version |-> id(o), retrieved |-> o.observed]},
               history |-> {entry(o, k) : k \in kinds(o)},
               snapshots |-> {}]
    <3> HIDE DEF row, id, known, kinds, entry
    <3> QED
      BY <2>0 DEF EmptyTx
  <2>3. o.event \in DOMAIN Event /\ o.content \in Wording /\ o.observed \in 0 .. clock
    OBVIOUS
  <2>4. id(o) \in Nat
    <3>1. CASE known(o) = {}
      BY <3>1, FS_CardinalityType DEF RowsOK
    <3>2. CASE known(o) # {}
      <4>1. (CHOOSE v \in known(o) : TRUE) \in known(o)
        BY <3>2
      <4> QED
        BY <3>2, <4>1 DEF RowsOK, VersionRow
    <3> QED
      BY <3>1, <3>2
  <2> HIDE DEF id, known
  <2>5. VersionRow(row(o)) /\ row(o).id = id(o) /\ row(o).recorded = clock
    BY <2>3, <2>4 DEF VersionRow
  <2> HIDE DEF row
  <2>6. RowsOK(tx'.versions, tx'.history, tx'.provenance, tx'.snapshots)
    <3>1. tx'.versions \subseteq {row(o)} /\ tx'.snapshots = {}
      BY <2>2
    <3>2. IsFiniteSet(tx'.versions)
      BY <3>1, FS_Singleton, FS_Subset
    <3>3. \A x \in tx'.history : HistoryRow(x)
      BY <2>2, <2>3 DEF HistoryRow
    <3>4. \A x \in tx'.provenance : x.retrieved \in Nat
      BY <2>2, <2>3
    <3> QED
      BY <2>5, <3>1, <3>2, <3>3, <3>4 DEF RowsOK
  <2>7. NamesEnd'
    <3>1. PICK n \in Nat : \A v \in versions : UpTo(n, v)
      BY DEF NamesEnd
    <3> DEFINE m == n + id(o) + clock
    <3>2. m \in Nat /\ m >= n /\ m >= id(o) /\ m >= clock
      BY <2>4
    <3> HIDE DEF m
    <3>3. \A v \in versions' : UpTo(m, v)
      BY <2>1, <3>1, <3>2 DEF tables, RowsOK, VersionRow, UpTo
    <3>4. \A v \in tx'.versions : UpTo(m, v)
      BY <2>2, <2>5, <3>2 DEF UpTo
    <3> QED
      BY <3>2, <3>3, <3>4 DEF NamesEnd
  <2> QED
    BY <2>0, <2>1, <2>6, <2>7 DEF tables
<1>4. CASE WriteSnapshot
  <2>1. PICK sealed \in BOOLEAN :
           tx' = [EmptyTx EXCEPT !.snapshots = {[created |-> clock, row |->
                    [symbol |-> Symbol, interval |-> "5m", end |-> clock, complete |-> TRUE, sealed |-> sealed, valid |-> TRUE]]}]
    BY <1>4 DEF WriteSnapshot
  <2> DEFINE row == [symbol |-> Symbol, interval |-> "5m", end |-> clock, complete |-> TRUE, sealed |-> sealed, valid |-> TRUE]
  <2>2. row \in StoredRow
    BY DEF StoredRow, Intervals, PacketAssumption
  <2> HIDE DEF row
  <2>3. SnapshotRow([created |-> clock, row |-> row])
    BY <2>2 DEF SnapshotRow
  <2>4. tx' = [versions |-> {}, history |-> {}, provenance |-> {}, snapshots |-> {[created |-> clock, row |-> row]}]
    BY <2>1 DEF EmptyTx, row
  <2>5. RowsOK(tx'.versions, tx'.history, tx'.provenance, tx'.snapshots)
    BY <2>3, <2>4, FS_EmptySet DEF RowsOK
  <2>6. UNCHANGED <<clock, captured, tables, observed, built>>
    BY <1>4 DEF WriteSnapshot
  <2> QED
    BY <2>4, <2>5, <2>6 DEF tables, NamesEnd
<1>5. CASE CommitRows
  <2>1. /\ tx # None /\ tx' = None
        /\ versions' = versions \cup tx.versions /\ history' = history \cup tx.history
        /\ provenance' = provenance \cup tx.provenance /\ technicals' = technicals \cup tx.snapshots
        /\ UNCHANGED <<clock, captured, observed, writes, built>>
    BY <1>5 DEF CommitRows
  <2>2. RowsOK(versions, history, provenance, technicals)'
    BY <2>1, FS_Union DEF RowsOK
  <2>3. NamesEnd'
    BY <2>1 DEF NamesEnd
  <2> QED
    BY <2>1, <2>2, <2>3
<1>6. CASE RollBackRows
  BY <1>6 DEF RollBackRows, tables, RowsOK, NamesEnd
<1>7. CASE Build
  BY <1>7 DEF Build, tables, RowsOK, NamesEnd
<1>8. CASE UNCHANGED loaderVars
  BY <1>8 DEF loaderVars, tables, RowsOK, NamesEnd
<1> QED
  BY <1>1, <1>2, <1>3, <1>4, <1>5, <1>6, <1>7, <1>8 DEF LoaderNext

(* Once every row stamped by as_of is committed, no step adds one.         *)
LEMMA SettledStays ==
    ASSUME PacketAssumption, LoaderTypeOK, Settled, [LoaderNext]_loaderVars
    PROVE  Settled' /\ Results' = Results
<1> USE DEF LoaderTypeOK
<1>0. AsOf \in Int /\ clock \in Nat /\ clock > AsOf
  BY DEF PacketAssumption, Settled
<1> DEFINE Late(V, H, P, S) == /\ \A v \in V : v.observed > AsOf
                               /\ \A h \in H : h.recorded > AsOf
                               /\ \A p \in P : p.retrieved > AsOf
                               /\ \A s \in S : s.created > AsOf
           NoRows == clock' \in Nat /\ clock' >= clock /\ UNCHANGED tables
<1>1. ASSUME NoRows PROVE Results' = Results /\ clock' > AsOf
  <2>1. /\ \A e : Available(e)' = Available(e)
        /\ \A v : Provenance(v)' = Provenance(v)
        /\ \A v, kind : Scored(v, kind)' = Scored(v, kind)
        /\ \A i : Created(i)' = Created(i)
    BY <1>1 DEF Available, Provenance, Scored, Created, tables
  <2> QED
    BY <1>0, <1>1, <2>1, SameReads
<1>2. CASE TimePasses
  <2>1. NoRows
    BY <1>2 DEF TimePasses
  <2> QED
    BY <1>1, <1>2, <2>1 DEF TimePasses, Settled
<1>3. CASE Observe
  <2>1. NoRows /\ UNCHANGED <<clock, tx>>
    BY <1>3 DEF Observe
  <2>2. \A o \in captured' : o.observed > AsOf
    <3>1. PICK e \in DOMAIN Event, c \in Wording : \E outcome \in Outcomes(e) :
             captured' = captured \cup {[event |-> e, content |-> c, observed |-> clock, outcome |-> outcome]}
      BY <1>3 DEF Observe
    <3> QED
      BY <1>0, <3>1 DEF Settled
  <2> QED
    BY <1>1, <2>1, <2>2 DEF Settled
<1>4. CASE Write
  <2>1. NoRows /\ UNCHANGED clock
    BY <1>4 DEF Write
  <2>2. PICK o \in captured : 
           /\ captured' = captured \ {o}
           /\ \A v \in tx'.versions : v.observed = o.observed
           /\ \A p \in tx'.provenance : p.retrieved = o.observed
           /\ \A h \in tx'.history : h.recorded = clock
           /\ tx'.snapshots = {}
    BY <1>4 DEF Write, EmptyTx
  <2>3. o.observed > AsOf
    BY DEF Settled
  <2> QED
    BY <1>0, <1>1, <2>1, <2>2, <2>3 DEF Settled
<1>5. CASE WriteSnapshot
  <2>1. NoRows /\ UNCHANGED <<clock, captured>>
    BY <1>5 DEF WriteSnapshot
  <2>2. /\ tx'.versions = {} /\ tx'.provenance = {} /\ tx'.history = {}
        /\ \A s \in tx'.snapshots : s.created = clock
    BY <1>5 DEF WriteSnapshot, EmptyTx
  <2> QED
    BY <1>0, <1>1, <2>1, <2>2 DEF Settled
<1>6. CASE CommitRows
  <2>1. /\ tx # None /\ tx' = None
        /\ versions' = versions \cup tx.versions /\ history' = history \cup tx.history
        /\ provenance' = provenance \cup tx.provenance /\ technicals' = technicals \cup tx.snapshots
        /\ UNCHANGED <<clock, captured>>
    BY <1>6 DEF CommitRows
  <2>2. Late(tx.versions, tx.history, tx.provenance, tx.snapshots) /\ RowsOK(tx.versions, tx.history, tx.provenance, tx.snapshots)
    BY <2>1 DEF Settled
  <2>3. \A v \in tx.versions : ~(v.observed <= AsOf)
    BY <1>0, <2>2 DEF RowsOK, VersionRow
  <2>4. \A h \in tx.history : ~(h.recorded <= AsOf)
    BY <1>0, <2>2 DEF RowsOK, HistoryRow
  <2>5. \A p \in tx.provenance : ~(p.retrieved <= AsOf)
    BY <1>0, <2>2 DEF RowsOK
  <2>6. \A s \in tx.snapshots : ~(s.created <= AsOf)
    BY <1>0, <2>2 DEF RowsOK, SnapshotRow
  <2>7. \A e : Available(e)' = Available(e)
    BY <2>1, <2>3 DEF Available
  <2>8. \A v : Provenance(v)' = Provenance(v)
    BY <2>1, <2>5 DEF Provenance
  <2>9. \A v, kind : Scored(v, kind)' = Scored(v, kind)
    BY <2>1, <2>4 DEF Scored
  <2>10. \A i : Created(i)' = Created(i)
    BY <2>1, <2>6 DEF Created
  <2>11. Results' = Results
    BY <2>7, <2>8, <2>9, <2>10, SameReads
  <2> QED
    BY <2>1, <2>11 DEF Settled
<1>7. CASE RollBackRows
  <2>1. NoRows
    BY <1>7 DEF RollBackRows
  <2> QED
    BY <1>1, <1>7, <2>1 DEF RollBackRows, Settled
<1>8. CASE Build \/ UNCHANGED loaderVars
  <2>1. NoRows
    BY <1>8 DEF Build, loaderVars
  <2> QED
    BY <1>1, <1>8, <2>1 DEF Build, loaderVars, Settled
<1> QED
  BY <1>2, <1>3, <1>4, <1>5, <1>6, <1>7, <1>8 DEF LoaderNext

(* The loader's invariant is kept: its type and the last name by the steps *)
(* before, and what was built by what has settled.                         *)
LEMMA LoaderSteps ==
    ASSUME PacketAssumption, LoaderInv, [LoaderNext]_loaderVars
    PROVE  LoaderInv'
<1>1. LoaderTypeOK' /\ NamesEnd'
  BY LoaderTyped DEF LoaderInv
<1>2. CASE Settled
  <2>1. Settled' /\ Results' = Results
    BY <1>2, SettledStays DEF LoaderInv
  <2>2. built' = built \/ built' = Results
    BY DEF LoaderNext, loaderVars, TimePasses, Observe, Write, WriteSnapshot, CommitRows, RollBackRows, Build
  <2> QED
    BY <1>1, <2>1, <2>2 DEF LoaderInv
<1>3. CASE ~Settled
  <2>1. built = None /\ built' = built
    BY <1>3 DEF LoaderInv, LoaderNext, loaderVars, TimePasses, Observe, Write, WriteSnapshot, CommitRows, RollBackRows, Build
  <2> QED
    BY <1>1, <2>1 DEF LoaderInv
<1> QED
  BY <1>2, <1>3

(* A set of integers that does not go above n has a greatest member.       *)
LEMMA Highest ==
    ASSUME NEW n \in Int, NEW S \in SUBSET Int, S # {}, \A x \in S : x <= n
    PROVE  \E x \in S : \A y \in S : y <= x
<1> DEFINE T == {n - x : x \in S}
<1>0. \A x \in S : n - x \in Nat /\ n - x \in T
  OBVIOUS
<1>1. T \in SUBSET Nat /\ T # {}
  BY <1>0
<1>2. PICK t \in T : \A u \in T : t <= u
  <2> HIDE DEF T
  <2> QED
    BY <1>1, Least
<1>3. PICK x \in S : t = n - x
  OBVIOUS
<1>4. ASSUME NEW y \in S PROVE y <= x
  <2>1. n - y \in T
    BY <1>0
  <2> HIDE DEF T
  <2>2. n - x <= n - y
    BY <1>2, <1>3, <2>1
  <2> QED
    BY <2>2
<1> QED
  BY <1>4

(* The version, the score and the bar a build reads are stored ones.       *)
LEMMA ChosenIsAvailable ==
    ASSUME PacketAssumption, LoaderTypeOK, NamesEnd, NEW e, Available(e) # {}
    PROVE  Chosen(e) \in Available(e)
<1> DEFINE A == Available(e)
           O == {v.observed : v \in A}
<1>1. AsOf \in Int /\ \A v \in A : VersionRow(v) /\ v.observed <= AsOf
  BY DEF PacketAssumption, LoaderTypeOK, RowsOK, Available
<1>2. PICK top \in O : \A o \in O : o <= top
  <2>1. O \in SUBSET Int /\ O # {} /\ \A o \in O : o <= AsOf
    BY <1>1 DEF VersionRow
  <2> HIDE DEF O
  <2> QED
    BY <1>1, <2>1, Highest
<1> DEFINE B == {v \in A : v.observed = top}
           R == {v.recorded : v \in B}
<1>3. B # {} /\ B \subseteq A
  OBVIOUS
<1>4. PICK n \in Int : \A v \in A : v.id <= n /\ v.recorded <= n
  BY DEF NamesEnd, Available, UpTo
<1> HIDE DEF A, O
<1>5. PICK late \in R : \A r \in R : r <= late
  <2>1. R \in SUBSET Int /\ R # {} /\ n \in Int /\ \A r \in R : r <= n
    BY <1>1, <1>3, <1>4 DEF VersionRow
  <2> HIDE DEF R, B
  <2> QED
    BY ONLY <2>1, Highest
<1> DEFINE C == {v \in B : v.recorded = late}
           I == {v.id : v \in C}
<1>6. C # {} /\ C \subseteq B
  BY <1>5
<1>7. PICK last \in I : \A i \in I : i <= last
  <2>1. I \in SUBSET Int /\ I # {} /\ \A i \in I : i <= n
    BY <1>1, <1>3, <1>4, <1>6 DEF VersionRow
  <2> HIDE DEF I, C
  <2> QED
    BY <2>1, Highest
<1>8. PICK v \in C : v.id = last
  OBVIOUS
<1>9. ASSUME NEW w \in A
      PROVE  \/ w.observed < v.observed
             \/ w.observed = v.observed /\ w.recorded < v.recorded
             \/ w.observed = v.observed /\ w.recorded = v.recorded /\ w.id <= v.id
  <2>0. v \in A /\ v.observed = top /\ v.recorded = late
    BY <1>3, <1>6
  <2>1. w.observed <= top /\ w.observed \in Int /\ top \in Int
    BY <1>1, <1>2, <2>0 DEF O, VersionRow
  <2>2. CASE w.observed # top
    BY <2>0, <2>1, <2>2
  <2>3. CASE w.observed = top
    <3>1. w.recorded <= late /\ w.recorded \in Int /\ late \in Int
      BY <1>1, <1>5, <2>0, <2>3 DEF VersionRow
    <3>2. CASE w.recorded # late
      BY <2>0, <2>3, <3>1, <3>2
    <3>3. CASE w.recorded = late
      BY <1>7, <1>8, <2>0, <2>3, <3>3
    <3> QED
      BY <3>2, <3>3
  <2> QED
    BY <2>2, <2>3
<1>10. v \in A
  BY <1>3, <1>6
<1> QED
  BY <1>9, <1>10 DEF Chosen, LatestObserved, A

(* A score that a build reads was recorded by as_of.                       *)
LEMMA ScoreIsKnown ==
    ASSUME PacketAssumption, LoaderTypeOK, NEW v, NEW kind
    PROVE  LatestOf(v, kind) \in {None} \cup 0 .. AsOf
<1> DEFINE H == Scored(v, kind)
           R == {h.recorded : h \in H}
<1>1. AsOf \in Int /\ \A h \in H : HistoryRow(h) /\ h.recorded <= AsOf
  BY DEF PacketAssumption, LoaderTypeOK, RowsOK, Scored
<1> HIDE DEF H
<1>2. CASE H = {}
  BY <1>2 DEF LatestOf, LatestValue, H
<1>3. CASE H # {}
  <2>1. PICK r \in R : \A q \in R : q <= r
    <3>1. R \in SUBSET Int /\ R # {} /\ \A q \in R : q <= AsOf
      BY <1>1, <1>3 DEF HistoryRow
    <3> HIDE DEF R
    <3> QED
      BY <1>1, <3>1, Highest
  <2>2. \E h \in H : \A g \in H : g.recorded <= h.recorded
    BY <2>1
  <2>3. Latest(H) \in H
    BY <2>2 DEF Latest
  <2>4. LatestValue(H) = Latest(H).value
    BY <1>3 DEF LatestValue
  <2> QED
    BY <1>1, <2>3, <2>4 DEF LatestOf, H, HistoryRow
<1> QED
  BY <1>2, <1>3

(* The snapshot a build takes for an interval is one it may take.          *)
LEMMA BarIsEligible ==
    ASSUME PacketAssumption, LoaderTypeOK, NEW i, Eligible(i) # {}
    PROVE  LatestBar(Eligible(i)) \in Eligible(i)
<1> DEFINE E == Eligible(i)
           R == {s.row.end : s \in E}
<1>1. AsOf \in Int /\ \A s \in E : s.row.end \in Int /\ s.row.end <= AsOf
  BY DEF PacketAssumption, LoaderTypeOK, RowsOK, Eligible, Created, SnapshotRow, StoredRow
<1> HIDE DEF E
<1>2. PICK r \in R : \A q \in R : q <= r
  <2>1. R \in SUBSET Int /\ R # {} /\ \A q \in R : q <= AsOf
    BY <1>1 DEF E
  <2> HIDE DEF R
  <2> QED
    BY <1>1, <2>1, Highest
<1>3. \E s \in E : \A t \in E : t.row.end <= s.row.end
  BY <1>2
<1> QED
  BY <1>3 DEF LatestBar, E

(* In a finite, strictly and totally ordered set every place is taken.     *)
LEMMA PlacesTaken ==
    ASSUME NEW S, IsFiniteSet(S),
           \A a \in S : ~Before(a, a),
           \A a, b, c \in S : Before(a, b) /\ Before(b, c) => Before(a, c),
           \A a, b \in S : a # b => Before(a, b) \/ Before(b, a)
    PROVE  \A i \in DOMAIN InOrder(S) : InOrder(S)[i] \in S
<1> DEFINE n == Cardinality(S)
           Ahead(x) == {y \in S : Before(y, x)}
           rank == [x \in S |-> Cardinality(Ahead(x)) + 1]
<1>1. n \in Nat /\ \A x \in S : IsFiniteSet(Ahead(x)) /\ Cardinality(Ahead(x)) \in Nat
  <2>1. ASSUME NEW x \in S PROVE IsFiniteSet(Ahead(x)) /\ Cardinality(Ahead(x)) \in Nat
    <3>1. Ahead(x) \in SUBSET S
      OBVIOUS
    <3> QED
      BY <3>1, FS_Subset, FS_CardinalityType
  <2> QED
    BY <2>1, FS_CardinalityType
<1>2. \A x \in S : Cardinality(Ahead(x)) < n
  <2>1. ASSUME NEW x \in S PROVE Cardinality(Ahead(x)) < n
    <3>1. Ahead(x) \in SUBSET S /\ x \notin Ahead(x)
      OBVIOUS
    <3>2. Ahead(x) # S
      BY <3>1
    <3> HIDE DEF Ahead
    <3>3. Cardinality(Ahead(x)) <= n /\ n # Cardinality(Ahead(x))
      BY <3>1, <3>2, FS_Subset
    <3> QED
      BY <1>1, <3>3
  <2> QED
    BY <2>1
<1>3. \A x, y \in S : Before(x, y) => Cardinality(Ahead(x)) < Cardinality(Ahead(y))
  <2>1. ASSUME NEW x \in S, NEW y \in S, Before(x, y) PROVE Cardinality(Ahead(x)) < Cardinality(Ahead(y))
    <3>1. Ahead(x) \in SUBSET Ahead(y) /\ x \notin Ahead(x) /\ x \in Ahead(y)
      BY <2>1
    <3>2. Ahead(x) # Ahead(y)
      BY <3>1
    <3> HIDE DEF Ahead
    <3>3. Cardinality(Ahead(x)) <= Cardinality(Ahead(y)) /\ Cardinality(Ahead(y)) # Cardinality(Ahead(x))
      BY <1>1, <3>1, <3>2, FS_Subset
    <3> QED
      BY <1>1, <3>3
  <2> QED
    BY <2>1
<1>4. rank \in Injection(S, 1 .. n)
  <2>1. rank \in [S -> 1 .. n]
    <3> HIDE DEF Ahead
    <3> QED
      BY <1>1, <1>2
  <2>2. ASSUME NEW x \in S, NEW y \in S, rank[x] = rank[y] PROVE x = y
    <3> SUFFICES ASSUME x # y PROVE FALSE
      OBVIOUS
    <3>1. Cardinality(Ahead(x)) < Cardinality(Ahead(y)) \/ Cardinality(Ahead(y)) < Cardinality(Ahead(x))
      BY <1>3
    <3> HIDE DEF Ahead
    <3> QED
      BY <1>1, <2>2, <3>1
  <2> HIDE DEF rank
  <2> QED
    BY <2>1, <2>2 DEF Injection, IsInjective
<1>5. rank \in Surjection(S, 1 .. n)
  <2>1. IsFiniteSet(1 .. n) /\ Cardinality(1 .. n) = n
    BY <1>1, FS_Interval
  <2> HIDE DEF rank
  <2> QED
    BY <1>4, <2>1, FS_Injection
<1>6. ASSUME NEW i \in 1 .. n PROVE \E x \in S : Cardinality({y \in S : Before(y, x)}) = i - 1
  <2>1. PICK x \in S : rank[x] = i
    <3> HIDE DEF rank
    <3> QED
      BY <1>5 DEF Surjection
  <2>2. Cardinality(Ahead(x)) = i - 1
    <3> HIDE DEF Ahead
    <3> QED
      BY <1>1, <2>1
  <2> QED
    BY <2>2
<1>7. ASSUME NEW i \in 1 .. n
      PROVE  (CHOOSE x \in S : Cardinality({y \in S : Before(y, x)}) = i - 1) \in S
  BY <1>6
<1> QED
  BY <1>7 DEF InOrder

(* A key of five integers decides who comes before whom.                   *)
KeyOK(a) == \E k1, k2, k3, k4, k5 \in Int : OrderKey(a) = <<k1, k2, k3, k4, k5>>
Ahead(a, b) == LET k == OrderKey(a)  l == OrderKey(b)
               IN \/ k[1] < l[1]
                  \/ k[1] = l[1] /\ k[2] < l[2]
                  \/ k[1] = l[1] /\ k[2] = l[2] /\ k[3] < l[3]
                  \/ k[1] = l[1] /\ k[2] = l[2] /\ k[3] = l[3] /\ k[4] < l[4]
                  \/ k[1] = l[1] /\ k[2] = l[2] /\ k[3] = l[3] /\ k[4] = l[4] /\ k[5] < l[5]
(* The code's order of candidates, unfolded.                               *)
LEMMA BeforeIsAhead == ASSUME NEW a, NEW b PROVE Before(a, b) <=> Ahead(a, b)
<1> DEFINE k == OrderKey(a)
           l == OrderKey(b)
           Alike(j) == k[j] = l[j]
<1>1. Before(a, b) <=> \E i \in 1 .. 5 : k[i] < l[i] /\ \A j \in 1 .. (i - 1) : Alike(j)
  BY Zenon DEF Before
<1> HIDE DEF Alike
<1>2. /\ 1 .. 5 = {1, 2, 3, 4, 5} /\ 1 .. (1 - 1) = {} /\ 1 .. (2 - 1) = {1} /\ 1 .. (3 - 1) = {1, 2}
      /\ 1 .. (4 - 1) = {1, 2, 3} /\ 1 .. (5 - 1) = {1, 2, 3, 4}
  OBVIOUS
<1>3. (\E i \in 1 .. 5 : k[i] < l[i] /\ \A j \in 1 .. (i - 1) : Alike(j))
        <=> \/ k[1] < l[1]
            \/ Alike(1) /\ k[2] < l[2]
            \/ Alike(1) /\ Alike(2) /\ k[3] < l[3]
            \/ Alike(1) /\ Alike(2) /\ Alike(3) /\ k[4] < l[4]
            \/ Alike(1) /\ Alike(2) /\ Alike(3) /\ Alike(4) /\ k[5] < l[5]
  <2> HIDE DEF k, l
  <2> QED
    BY <1>2
<1> QED
  BY <1>1, <1>3 DEF Alike, Ahead
(* That order is total among different keys, and no candidate is before    *)
(* itself.                                                                 *)
LEMMA AheadOrders ==
    ASSUME NEW a, NEW b, NEW c, KeyOK(a), KeyOK(b), KeyOK(c)
    PROVE  /\ ~Ahead(a, a)
           /\ Ahead(a, b) /\ Ahead(b, c) => Ahead(a, c)
           /\ OrderKey(a)[5] # OrderKey(b)[5] => Ahead(a, b) \/ Ahead(b, a)
<1>1. PICK k1, k2, k3, k4, k5 \in Int : OrderKey(a) = <<k1, k2, k3, k4, k5>>
  BY DEF KeyOK
<1>2. PICK l1, l2, l3, l4, l5 \in Int : OrderKey(b) = <<l1, l2, l3, l4, l5>>
  BY DEF KeyOK
<1>3. PICK m1, m2, m3, m4, m5 \in Int : OrderKey(c) = <<m1, m2, m3, m4, m5>>
  BY DEF KeyOK
<1> QED
  BY <1>1, <1>2, <1>3 DEF Ahead

(* The loader lists every event once.                                      *)
LEMMA ListedOnce ==
    ASSUME NEW news, IsFiniteSet(DOMAIN news)
    PROVE  \E n \in Nat : \E keys \in [1 .. n -> DOMAIN news] :
              /\ \A i, j \in 1 .. n : keys[i] = keys[j] => i = j
              /\ Listed(news) = [i \in 1 .. n |-> news[keys[i]]]
<1> DEFINE D == DOMAIN news
           n == Cardinality(D)
           keys == SetToSeq(D)
<1>1. \E f \in [1 .. n -> D] : IsInjective(f)
  <2>1. PICK f : f \in Bijection(1 .. n, D)
    BY FS_CardinalityType DEF ExistsBijection
  <2> QED
    BY <2>1 DEF Bijection, Injection
<1>2. keys \in [1 .. n -> D] /\ IsInjective(keys)
  <2> HIDE DEF D
  <2> QED
    BY <1>1 DEF SetToSeq
<1>3. n \in Nat
  BY FS_CardinalityType
<1>4. Listed(news) = [i \in DOMAIN keys |-> news[keys[i]]]
  BY DEF Listed
<1>5. DOMAIN keys = 1 .. n
  BY <1>2
<1> HIDE DEF keys, n
<1> QED
  BY <1>2, <1>3, <1>4, <1>5 DEF IsInjective

(* What a record that passed has.                                          *)
LEMMA Passed ==
    ASSUME PacketAssumption, LoaderTypeOK, NamesEnd, NEW e \in LoadedEvents,
           Reason(Symbol, AsOf, NewsInput(e)) = "ok"
    PROVE  LET n == NewsInput(e)
           IN /\ n.key = e /\ KeyOK(n) /\ OrderKey(n)[5] = e
              /\ n.observed \in Int /\ n.observed <= AsOf /\ n.score \in {None} \cup 0 .. AsOf
              /\ IF n.family = "news" THEN n.published <= AsOf ELSE n.published < DayOfInstant(AsOf)
<1> DEFINE n == NewsInput(e)
           v == Chosen(e)
<1>1. v \in Available(e) /\ e \in DOMAIN Event
  <2>1. Loaded(e) /\ e \in DOMAIN Event
    BY DEF LoadedEvents
  <2>2. Available(e) # {}
    BY <2>1 DEF Loaded, Candidates
  <2> QED
    BY <2>1, <2>2, ChosenIsAvailable
<1>2. v.event = e /\ v.content \in Wording /\ v.observed \in Nat /\ v.observed <= AsOf
  BY <1>1 DEF Available, LoaderTypeOK, RowsOK, VersionRow
<1>3. /\ n.key = e /\ n.family = Event[e].family /\ n.published = Published(v) /\ n.observed = v.observed
      /\ n.score = LatestOf(v, "score")
  BY DEF NewsInput
<1>4. n.score \in {None} \cup 0 .. AsOf
  BY <1>3, ScoreIsKnown
<1>5. n.published # None => n.published \in Int /\ DayOfInstant(n.published) \in Int
  BY <1>1, <1>2, <1>3 DEF Published, PacketAssumption
<1> HIDE DEF n
<1>6. AdapterReason(n) = "ok" /\ TimeReason(n, AsOf) = "ok"
  BY DEF Reason, n
<1>7. n.family \in SupportedFamilies
  BY <1>6 DEF AdapterReason
<1>8. /\ Precision(n) # "unknown"
      /\ Precision(n) = "second" => ~(n.published > AsOf)
      /\ Precision(n) = "date" => ~(n.published >= DayOfInstant(AsOf))
  BY <1>6, Zenon DEF TimeReason
<1>9. n.published # None /\ (Precision(n) = "second" <=> n.family # "sec") /\ (Precision(n) = "date" <=> n.family = "sec")
  BY <1>8 DEF Precision
<1>10. IF n.family = "news" THEN n.published <= AsOf ELSE n.published < DayOfInstant(AsOf)
  BY <1>5, <1>7, <1>8, <1>9 DEF SupportedFamilies, PacketAssumption
<1>11. KeyOK(n) /\ OrderKey(n)[5] = e
  <2>1. e \in Int
    BY <1>1 DEF PacketAssumption
  <2>2. CASE Precision(n) = "second"
    <3>1. OrderKey(n) = <<-DayOfInstant(n.published), 0, -n.published, IF n.family = "news" THEN 0 ELSE 1, e>>
      BY <1>3, <2>2 DEF OrderKey
    <3> QED
      BY <1>5, <1>9, <2>1, <3>1 DEF KeyOK
  <2>3. CASE Precision(n) # "second"
    <3>1. OrderKey(n) = <<-n.published, 1, 0, IF n.family = "news" THEN 0 ELSE 1, e>>
      BY <1>3, <2>3 DEF OrderKey
    <3> QED
      BY <1>5, <1>9, <2>1, <3>1 DEF KeyOK
  <2> QED
    BY <2>2, <2>3
<1> QED
  BY <1>2, <1>3, <1>4, <1>10, <1>11 DEF n

(* Every item of a packet is an event the loader loaded, and passed.       *)
LEMMA ItemsAreLoaded ==
    ASSUME PacketAssumption, LoaderTypeOK, NamesEnd, NEW file, NEW x \in ToSet(Packet(file).news.items)
    PROVE  \E e \in LoadedEvents : x = NewsInput(e) /\ Reason(Symbol, AsOf, NewsInput(e)) = "ok"
<1> DEFINE news == [e \in LoadedEvents |-> NewsInput(e)]
           collection == [succeeded |-> TRUE, inputs |-> Listed(news)]
           section == NewsSection(Symbol, AsOf, collection)
<1>1. Packet(file).news = section
  BY DEF Packet, Assemble
<1>0. IsFiniteSet(LoadedEvents) /\ DOMAIN news = LoadedEvents
  BY FS_Subset DEF LoadedEvents, PacketAssumption
<1> HIDE DEF news
<1>2a. PICK m \in Nat : \E keys \in [1 .. m -> LoadedEvents] :
         /\ \A i, j \in 1 .. m : keys[i] = keys[j] => i = j
         /\ Listed(news) = [i \in 1 .. m |-> news[keys[i]]]
  BY <1>0, ListedOnce
<1>2. PICK keys \in [1 .. m -> LoadedEvents] :
         /\ \A i, j \in 1 .. m : keys[i] = keys[j] => i = j
         /\ Listed(news) = [i \in 1 .. m |-> news[keys[i]]]
  BY <1>2a
<1> DEFINE inputs == [i \in 1 .. m |-> NewsInput(keys[i])]
<1>3. Listed(news) = inputs
  BY <1>2 DEF news
<1>4. CASE collection = None
  <2>1. section.items = <<>>
    BY <1>4 DEF NewsSection
  <2> QED
    BY <1>1, <2>1 DEF ToSet
<1>5. CASE collection # None
  <2> DEFINE reason == [i \in DOMAIN inputs |-> Reason(Symbol, AsOf, inputs[i])]
             passed == {i \in DOMAIN inputs : reason[i] = "ok"}
             records(i) == {j \in passed : Identity(inputs[j]) = Identity(inputs[i])}
             conflict(i) == \E j \in records(i) : Content(inputs[j]) # Content(inputs[i])
             firsts == {i \in passed : ~conflict(i) /\ i = Min(records(i))}
             kept(i) == [inputs[i] EXCEPT !.observed = Min({inputs[j].observed : j \in records(i)})]
             items == InOrder({kept(i) : i \in firsts})
  <2>1. section.items = items
    <3>1. section = NewsFrom(inputs, reason)
      BY <1>3, <1>5 DEF NewsSection
    <3>2. \E excluded : NewsFrom(inputs, reason) = NewsListed(items, excluded)
      BY Zenon DEF NewsFrom
    <3>3. \A q, excluded : NewsListed(q, excluded).items = q
      BY DEF NewsListed
    <3> QED
      BY <3>1, <3>2, <3>3
  <2>2. ASSUME NEW i \in passed
        PROVE  /\ keys[i] \in LoadedEvents /\ inputs[i] = NewsInput(keys[i])
               /\ Reason(Symbol, AsOf, NewsInput(keys[i])) = "ok"
    OBVIOUS
  <2>3. ASSUME NEW i \in passed PROVE records(i) = {i}
    <3>1. ASSUME NEW j \in records(i) PROVE j = i
      <4>1. inputs[i].key = keys[i] /\ inputs[j].key = keys[j]
        BY <2>2, Passed
      <4>2. inputs[i].key = inputs[j].key
        BY DEF Identity
      <4> QED
        BY <1>2, <4>1, <4>2
    <3> QED
      BY <3>1
  <2>4. ASSUME NEW i \in passed PROVE kept(i) = NewsInput(keys[i])
    <3>1. {inputs[j].observed : j \in records(i)} = {inputs[i].observed}
      <4>1. records(i) = {i}
        BY <2>3
      <4> HIDE DEF records, inputs
      <4> QED
        BY <4>1
    <3>2. inputs[i].observed \in Int
      BY <2>2, Passed
    <3>3. Min({inputs[i].observed}) = inputs[i].observed
      BY <3>2 DEF Min
    <3>4. [NewsInput(keys[i]) EXCEPT !.observed = NewsInput(keys[i]).observed] = NewsInput(keys[i])
      BY DEF NewsInput
    <3> QED
      BY <2>2, <3>1, <3>3, <3>4
  <2> HIDE DEF reason, passed, records, conflict, kept
  <2> DEFINE S == {kept(i) : i \in firsts}
  <2>5. ASSUME NEW s \in S PROVE \E i \in passed : s = NewsInput(keys[i]) /\ kept(i) = s
    BY <2>4
  <2>6. IsFiniteSet(S)
    <3>1. firsts \in SUBSET (1 .. m) /\ IsFiniteSet(1 .. m)
      BY FS_Interval DEF passed
    <3>2. IsFiniteSet(firsts)
      BY <3>1, FS_Subset
    <3> DEFINE f == [i \in firsts |-> kept(i)]
    <3>3. f \in Surjection(firsts, S)
      BY DEF Surjection
    <3> QED
      BY <3>2, <3>3, FS_Surjection
  <2>7. \A s \in S : \E e \in LoadedEvents : s = NewsInput(e) /\ Reason(Symbol, AsOf, NewsInput(e)) = "ok"
    BY <2>2, <2>5
  <2> HIDE DEF S, firsts
  <2>8. \A s \in S : KeyOK(s)
    BY <2>7, Passed
  <2>9. \A a, b \in S : a # b => OrderKey(a)[5] # OrderKey(b)[5]
    BY <2>7, Passed
  <2>10. \A i \in DOMAIN InOrder(S) : InOrder(S)[i] \in S
    BY <2>6, <2>8, <2>9, BeforeIsAhead, AheadOrders, PlacesTaken
  <2> QED
    BY <1>1, <2>1, <2>7, <2>10 DEF ToSet, S
<1> QED
  BY <1>4, <1>5

(* A bar the loader found is one the assembler takes.                      *)
LEMMA Frames ==
    ASSUME PacketAssumption, LoaderTypeOK, NEW file, ~Corrupt
    PROVE  /\ \A i \in Intervals : Packet(file).technical.frames[i].missing \in {None, "not_supplied"}
           /\ Found = Intervals => Packet(file).technical.status = "available"
<1> DEFINE reason(i) == IF Rows = None \/ i \notin DOMAIN Rows THEN "not_supplied"
                        ELSE IF RowReason(Rows[i], Symbol, i) = "ok" /\ Rows[i].end > AsOf THEN "after_as_of"
                        ELSE RowReason(Rows[i], Symbol, i)
           missing == {i \in Intervals : reason(i) # "ok"}
           section == TechnicalSection(Symbol, AsOf, Rows)
<1>1. Packet(file).technical = section
  BY DEF Packet, Assemble
<1>2. ASSUME NEW i \in Found
      PROVE  /\ Rows[i] = LatestBar(Eligible(i)).row /\ Rows[i] \in StoredRow
             /\ RowReason(Rows[i], Symbol, i) = "ok" /\ Rows[i].end <= AsOf
  <2>1. i \in Intervals /\ LatestBar(Eligible(i)) \in Eligible(i)
    BY BarIsEligible DEF Found
  <2>2. Rows[i] = LatestBar(Eligible(i)).row
    BY DEF Rows
  <2> QED
    BY <2>1, <2>2 DEF Eligible, Created, Corrupt, LoaderTypeOK, RowsOK, SnapshotRow
<1>3. DOMAIN Rows = Found /\ Found \subseteq Intervals
  BY DEF Rows, Found
<1>4. Rows # None
  <2>1. Rows \in [Found -> StoredRow]
    BY <1>2 DEF Rows
  <2> QED
    BY <1>3, <2>1 DEF PacketAssumption
<1>5. ASSUME NEW i \in Intervals PROVE reason(i) = IF i \in Found THEN "ok" ELSE "not_supplied"
  <2>1. CASE i \in Found
    <3>1. Rows[i].end \in Int /\ AsOf \in Int
      BY <1>2, <2>1 DEF StoredRow, PacketAssumption
    <3>2. ~(Rows[i].end > AsOf)
      BY <1>2, <2>1, <3>1
    <3> QED
      BY <1>2, <1>3, <1>4, <2>1, <3>2
  <2>2. CASE i \notin Found
    BY <1>3, <2>2
  <2> QED
    BY <2>1, <2>2
<1>6. section.frames = [i \in Intervals |-> IF i \in missing THEN [row |-> None, missing |-> reason(i)]
                                             ELSE [row |-> Rows[i], missing |-> None]]
  BY DEF TechnicalSection
<1>7. section.status = IF missing = {} THEN "available" ELSE IF missing = Intervals THEN "unavailable" ELSE "partial"
  BY DEF TechnicalSection
<1> HIDE DEF reason
<1>8. missing = Intervals \ Found
  BY <1>5
<1> HIDE DEF missing, section
<1> QED
  BY <1>1, <1>3, <1>5, <1>6, <1>7, <1>8

(* A packet built with --strict lacks nothing and holds nothing later than *)
(* as_of.                                                                  *)
LEMMA StrictHolds ==
    ASSUME PacketAssumption, LoaderTypeOK, NamesEnd
    PROVE  StrictIsComplete
<1> SUFFICES ASSUME NEW file \in Files, NEW partial \in BOOLEAN, NEW database \in Databases,
                    ExitCode(file, partial, database) = 0
             PROVE  CompleteUnless(Packet(file), partial) /\ HoldsOnlyKnown(Packet(file))
  BY DEF StrictIsComplete
<1>1. /\ file \in {"absent", "good"} /\ ~Corrupt
      /\ ~partial => file = "good" /\ Found = Intervals
  <2>1. file \in {"later", "malformed"} => ExitCode(file, partial, database) = 2
    BY Zenon DEF ExitCode
  <2>2. file = "altered" => ExitCode(file, partial, database) = 4
    BY Zenon DEF ExitCode
  <2>3. file \in {"absent", "good"}
    BY <2>1, <2>2 DEF Files
  <2>4. database = "fails" => ExitCode(file, partial, database) = 5
    BY <2>3, Zenon DEF ExitCode
  <2>5. database = "answers"
    BY <2>4 DEF Databases
  <2>6. Corrupt \/ Untraceable => ExitCode(file, partial, database) = 4
    BY <2>3, <2>5, Zenon DEF ExitCode
  <2>7. ~Corrupt /\ ~Untraceable
    BY <2>6
  <2>8. ExitCode(file, partial, database) = IF ~partial /\ (file = "absent" \/ Found # Intervals) THEN 3 ELSE 0
    BY <2>3, <2>5, <2>7, Zenon DEF ExitCode
  <2> QED
    BY <2>3, <2>7, <2>8
<1>2. file = "good" => Packet(file).market.status = "available"
  <2> SUFFICES ASSUME file = "good" PROVE MarketSection(Symbol, AsOf, Context(file)).status = "available"
    BY DEF Packet, Assemble
  <2> DEFINE c == [symbol |-> Symbol, asOf |-> AsOf]
             reasons == CASE c = None -> {"not_supplied"}
                          [] c # None /\ c.symbol # Symbol -> {"symbol_mismatch"}
                          [] c # None /\ c.symbol = Symbol /\ c.asOf > AsOf -> {"after_as_of"}
                          [] OTHER -> {}
  <2>1. c # None /\ c.symbol = Symbol /\ ~(c.asOf > AsOf)
    BY DEF PacketAssumption
  <2>2. reasons = {}
    <3> HIDE DEF c
    <3> QED
      BY <2>1, Zenon
  <2>3. Context(file) = c
    BY DEF Context
  <2>4. MarketSection(Symbol, AsOf, c).status = IF reasons = {} THEN "available" ELSE "unavailable"
    BY DEF MarketSection
  <2> HIDE DEF c, reasons
  <2> QED
    BY <2>2, <2>3, <2>4
<1>3. CompleteUnless(Packet(file), partial)
  BY <1>1, <1>2, Frames DEF CompleteUnless
<1>4. HoldsOnlyKnown(Packet(file))
  <2>1. ASSUME NEW n \in ToSet(Packet(file).news.items)
        PROVE  /\ n.observed <= AsOf /\ n.score \in {None} \cup 0 .. AsOf
               /\ IF n.family = "news" THEN n.published <= AsOf ELSE n.published < DayOfInstant(AsOf)
    BY ItemsAreLoaded, Passed
  <2> QED
    BY <1>1, <2>1, Frames DEF HoldsOnlyKnown
<1> QED
  BY <1>3, <1>4

(* Building a packet again for the same as_of, once every row stamped by   *)
(* then is committed, gives what it gave before, whatever was observed,    *)
(* scored, rolled back or stored in between; and --strict means complete   *)
(* and nothing later than as_of.                                           *)
THEOREM PacketsAreSound == ASSUME PacketAssumption PROVE LoaderSpec => []LoaderSound
<1>1. LoaderInit => LoaderInv
  BY LoaderStarts
<1>2. LoaderInv /\ [LoaderNext]_loaderVars => LoaderInv'
  BY LoaderSteps
<1>3. LoaderInv => LoaderSound
  BY StrictHolds DEF LoaderInv, LoaderSound, Reproducible
<1> QED
  BY <1>1, <1>2, <1>3, PTL DEF LoaderSpec

-----------------------------------------------------------------------------
(* The evaluation matrix.                                                  *)

Steps == {"idle", "choose", "fetch", "write", "dump", "summary", "finished"}
File(x) == disk[RunName(x)]
(* The pairs the attempt has come to, their items, and those dealt with.   *)
ItemsOf(P) == UNION {Items(p) : p \in P}
Past == Pairs \ pairs
Seen == ItemsOf(Past)
Handled == Seen \ todo
(* The items of the pairs before the one at work.                          *)
SeenBefore == ItemsOf(Past \ {pair})
FetchesFor(S) == {FetchFor(x) : x \in S}
SourcesFor(S) == {x.run.source : x \in S}

MatrixTypeOK ==
    /\ step \in Steps /\ DOMAIN disk = {RunName(x) : x \in AllItems}
    /\ pairs \subseteq Pairs /\ todo \subseteq AllItems /\ intact \subseteq AllItems
    /\ done \in Nat /\ requests \in Nat /\ sources \subseteq {"30m", "5m"}
    /\ args # None => args \in Arguments
    /\ args = None => step = "idle"

(* A file is missing, torn, or the report of some attempt so far.          *)
DiskInv == \A x \in AllItems :
    \/ File(x) \in {None, Torn}
    \/ args # None /\ \E a \in Arguments : File(x) = Report(x, a) /\ a.dates \in spans \cup {args.dates}

(* What is at work, and how far the attempt has come.                      *)
WorkInv ==
    /\ pair = None => todo = {} /\ sources = {}
    /\ pair # None => pair \in Past /\ todo \subseteq Items(pair)
    /\ step = "fetch" => pair # None /\ todo # {} /\ sources \subseteq Needed /\ sources # Needed
    /\ step \in {"write", "dump"} => pair # None
    /\ step = "dump" => todo # {}
    /\ step \in {"choose", "summary", "finished"} => pair = None
    /\ step \in {"summary", "finished"} => pairs = {}
    /\ step = "finished" => summary = reports

(* What was valid stays so, and what is redone was not.                    *)
KeptInv ==
    /\ args.resume => /\ \A x \in intact : ValidReport(File(x), x, args)
                      /\ \A x \in todo \cup failures : ~ValidReport(File(x), x, args)
    /\ \A x \in AllItems \ Seen : x \in intact <=> ValidReport(File(x), x, args)

(* What is dealt with has failed or has its report on the disk.            *)
Reported(x) == ValidReport(File(x), x, args) /\ (File(x) = Report(x, args) \/ (args.resume /\ x \in intact))
ReportsInv ==
    /\ failures \subseteq Handled
    /\ reports = {File(x) : x \in Handled \ failures}
    /\ \A x \in Handled \ failures : Reported(x)
    /\ step # "idle" => done = Cardinality(Handled) + (IF step = "dump" THEN 1 ELSE 0)

(* A resumed attempt has fetched what its missing reports needed.          *)
FetchInv == args.resume /\ failures = {} =>
    /\ requests = Cardinality(FetchesFor(SeenBefore \ intact)) + Cardinality(sources)
    /\ pair # None => sources \subseteq SourcesFor(Items(pair) \ intact)
    /\ step = "fetch" => todo = Items(pair) \ intact
    /\ step \in {"write", "dump"} => sources = SourcesFor(Items(pair) \ intact)

MatrixInv == /\ MatrixTypeOK /\ DiskInv
             /\ args # None => WorkInv /\ KeptInv /\ ReportsInv /\ FetchInv
-----------------------------------------------------------------------------
(* What tells runs apart.                                                  *)
LEMMA RunsApart ==
    /\ \A r \in RunsFor :
          /\ r = [interval |-> r.interval, source |-> r.source, profile |-> r.profile, session |-> r.session, pivot |-> r.pivot]
          /\ r.interval \in {"5m", "1h", "1d"} /\ r.profile \in {"sb", "xs", "d"} /\ r.pivot \in {2} \cup PivotWindows
          /\ r.source = IF r.interval = "5m" THEN "5m" ELSE "30m"
          /\ r.profile = IF r.interval = "1d" THEN "d" ELSE IF r.session = "bound" THEN "sb" ELSE "xs"
          /\ r.session = IF r.profile = "sb" THEN "bound" ELSE "across"
<1> SUFFICES ASSUME NEW r \in RunsFor
             PROVE  /\ r = [interval |-> r.interval, source |-> r.source, profile |-> r.profile, session |-> r.session, pivot |-> r.pivot]
                    /\ r.interval \in {"5m", "1h", "1d"} /\ r.profile \in {"sb", "xs", "d"} /\ r.pivot \in {2} \cup PivotWindows
                    /\ r.source = IF r.interval = "5m" THEN "5m" ELSE "30m"
                    /\ r.profile = IF r.interval = "1d" THEN "d" ELSE IF r.session = "bound" THEN "sb" ELSE "xs"
                    /\ r.session = IF r.profile = "sb" THEN "bound" ELSE "across"
            BY Zenon
<1> DEFINE run(i, source, profile, session, pivot) ==
             [interval |-> i, source |-> source, profile |-> profile, session |-> session, pivot |-> pivot]
<1>1. \/ r = run("5m", "5m", "sb", "bound", 2) \/ r = run("1d", "30m", "d", "across", 2)
      \/ \E w \in PivotWindows : r = run("1h", "30m", "sb", "bound", w) \/ r = run("1h", "30m", "xs", "across", w)
  <2> HIDE DEF run
  <2>1. r \in {run("5m", "5m", "sb", "bound", 2), run("1d", "30m", "d", "across", 2)}
                 \cup UNION {{run("1h", "30m", "sb", "bound", w), run("1h", "30m", "xs", "across", w)} : w \in PivotWindows}
    BY DEF RunsFor, run
  <2> QED
    BY <2>1
<1>2. ASSUME NEW i, NEW source, NEW profile, NEW session, NEW pivot, r = run(i, source, profile, session, pivot)
      PROVE  /\ r = [interval |-> r.interval, source |-> r.source, profile |-> r.profile, session |-> r.session, pivot |-> r.pivot]
             /\ r.interval = i /\ r.source = source /\ r.profile = profile /\ r.session = session /\ r.pivot = pivot
  BY <1>2
<1> HIDE DEF run
<1>3. CASE r = run("5m", "5m", "sb", "bound", 2)
  BY <1>2, <1>3
<1>4. CASE r = run("1d", "30m", "d", "across", 2)
  BY <1>2, <1>4
<1>5. CASE \E w \in PivotWindows : r = run("1h", "30m", "sb", "bound", w)
  BY <1>2, <1>5
<1>6. CASE \E w \in PivotWindows : r = run("1h", "30m", "xs", "across", w)
  BY <1>2, <1>6
<1> QED
  BY <1>1, <1>3, <1>4, <1>5, <1>6

(* An item is one of its pair, named after the period or one of its halves. *)
LEMMA ItemIs ==
    ASSUME NEW p \in Pairs, NEW x \in Items(p)
    PROVE  /\ x = MatrixItem(p, x.run, x.label, x.half) /\ x.symbol = p[1] /\ x.period = p[2] /\ x.run \in RunsFor
           /\ \/ x.label = p[2] /\ x.half = 0
              \/ \E h \in {1, 2} : x.label = HalfLabel[h] /\ x.half = h /\ p[2] = Split
           /\ p = <<x.symbol, x.period>> /\ x \in AllItems
BY DEF Items, MatrixItem, Pairs, AllItems

(* Two items of the matrix never share a report's name.                    *)
LEMMA ItemsApart ==
    ASSUME MatrixAssumption, NEW x \in AllItems, NEW y \in AllItems
    PROVE  /\ RunName(x) = RunName(y) => x = y
           /\ (x.symbol = y.symbol /\ x.run.interval = y.run.interval /\ x.label = y.label /\ x.run.pivot = y.run.pivot
               /\ x.run.session = y.run.session) => x = y
<1>1. PICK p \in Pairs : x \in Items(p)
  BY DEF AllItems
<1>2. PICK q \in Pairs : y \in Items(q)
  BY DEF AllItems
<1>3. /\ x = MatrixItem(p, x.run, x.label, x.half) /\ x.symbol = p[1] /\ x.period = p[2] /\ x.run \in RunsFor /\ p = <<x.symbol, x.period>>
      /\ y = MatrixItem(q, y.run, y.label, y.half) /\ y.symbol = q[1] /\ y.period = q[2] /\ y.run \in RunsFor /\ q = <<y.symbol, y.period>>
  BY <1>1, <1>2, ItemIs
<1>4. p[2] \in PeriodLabels /\ q[2] \in PeriodLabels
  BY DEF Pairs
<1>5. x.label = y.label => x.period = y.period /\ x.half = y.half
  <2>1. (x.label = p[2] /\ x.half = 0) \/ \E h \in {1, 2} : x.label = HalfLabel[h] /\ x.half = h /\ p[2] = Split
    BY <1>1, ItemIs
  <2>2. (y.label = q[2] /\ y.half = 0) \/ \E h \in {1, 2} : y.label = HalfLabel[h] /\ y.half = h /\ q[2] = Split
    BY <1>2, ItemIs
  <2> QED
    BY <1>3, <1>4, <2>1, <2>2 DEF MatrixAssumption
<1>6. ASSUME x.symbol = y.symbol, x.label = y.label, x.run = y.run PROVE x = y
  BY <1>3, <1>5, <1>6 DEF MatrixItem
<1>7. ASSUME x.run.interval = y.run.interval, x.run.pivot = y.run.pivot, x.run.profile = y.run.profile \/ x.run.session = y.run.session
      PROVE  x.run = y.run
  <2>1. /\ x.run = [interval |-> x.run.interval, source |-> x.run.source, profile |-> x.run.profile, session |-> x.run.session, pivot |-> x.run.pivot]
        /\ x.run.source = IF x.run.interval = "5m" THEN "5m" ELSE "30m"
        /\ x.run.profile = IF x.run.interval = "1d" THEN "d" ELSE IF x.run.session = "bound" THEN "sb" ELSE "xs"
        /\ x.run.session = IF x.run.profile = "sb" THEN "bound" ELSE "across"
    BY <1>3, RunsApart
  <2>2. /\ y.run = [interval |-> y.run.interval, source |-> y.run.source, profile |-> y.run.profile, session |-> y.run.session, pivot |-> y.run.pivot]
        /\ y.run.source = IF y.run.interval = "5m" THEN "5m" ELSE "30m"
        /\ y.run.profile = IF y.run.interval = "1d" THEN "d" ELSE IF y.run.session = "bound" THEN "sb" ELSE "xs"
        /\ y.run.session = IF y.run.profile = "sb" THEN "bound" ELSE "across"
    BY <1>3, RunsApart
  <2>3. x.run.source = y.run.source /\ x.run.profile = y.run.profile /\ x.run.session = y.run.session
    BY <1>7, <2>1, <2>2
  <2> QED
    BY <1>7, <2>1, <2>2, <2>3
<1>8. RunName(x) = RunName(y) => x = y
  <2> SUFFICES ASSUME RunName(x) = RunName(y) PROVE x = y
    OBVIOUS
  <2>1. x.symbol = y.symbol /\ x.run.interval = y.run.interval /\ x.label = y.label /\ x.run.profile = y.run.profile /\ x.run.pivot = y.run.pivot
    BY DEF RunName
  <2> QED
    BY <1>6, <1>7, <2>1
<1> QED
  BY <1>6, <1>7, <1>8

(* An item belongs to one symbol and period only.                          *)
LEMMA PairsApart ==
    ASSUME NEW p \in Pairs, NEW q \in Pairs, p # q
    PROVE  Items(p) \cap Items(q) = {}
BY ItemIs

(* There are finitely many items.                                          *)
LEMMA FiniteItems ==
    ASSUME MatrixAssumption
    PROVE  IsFiniteSet(AllItems) /\ IsFiniteSet(Pairs)
<1>1. IsFiniteSet(Pairs)
  BY FS_Product DEF Pairs, MatrixAssumption
<1>2. IsFiniteSet(RunsFor)
  <2> DEFINE T == ({"5m", "1h", "1d"} \X {"sb", "xs", "d"}) \X ({2} \cup PivotWindows)
             f == [r \in RunsFor |-> <<<<r.interval, r.profile>>, r.pivot>>]
  <2>1. IsFiniteSet(T)
    <3>1. IsFiniteSet({"5m", "1h", "1d"}) /\ IsFiniteSet({"sb", "xs", "d"}) /\ IsFiniteSet({2})
      <4>1. /\ {"5m", "1h", "1d"} = ({"5m"} \cup {"1h"}) \cup {"1d"}
            /\ {"sb", "xs", "d"} = ({"sb"} \cup {"xs"}) \cup {"d"}
        OBVIOUS
      <4>2. IsFiniteSet(({"5m"} \cup {"1h"}) \cup {"1d"}) /\ IsFiniteSet(({"sb"} \cup {"xs"}) \cup {"d"}) /\ IsFiniteSet({2})
        BY FS_AddElement, FS_Singleton
      <4> QED
        BY <4>1, <4>2
    <3>2. IsFiniteSet({2} \cup PivotWindows)
      BY <3>1, FS_Union DEF MatrixAssumption
    <3> QED
      BY <3>1, <3>2, FS_Product
  <2>2. f \in Injection(RunsFor, T)
    <3>1. f \in [RunsFor -> T]
      BY RunsApart
    <3>2. DOMAIN f = RunsFor
      OBVIOUS
    <3>3. ASSUME NEW r \in RunsFor, NEW s \in RunsFor, f[r] = f[s] PROVE r = s
      <4>1. r.interval = s.interval /\ r.profile = s.profile /\ r.pivot = s.pivot
        BY <3>3
      <4> HIDE DEF f
      <4> QED
        BY <4>1, RunsApart
    <3> HIDE DEF f, T
    <3> QED
      BY <3>1, <3>3, Zenon DEF Injection, IsInjective
  <2> HIDE DEF f, T
  <2> QED
    BY <2>1, <2>2, FS_Injection
<1>3. IsFiniteSet(AllItems)
  <2> DEFINE L == PeriodLabels \cup {HalfLabel[1]} \cup {HalfLabel[2]}
             T == (Pairs \X RunsFor) \X (L \X (0 .. 2))
             f == [x \in AllItems |-> <<<<<<x.symbol, x.period>>, x.run>>, <<x.label, x.half>>>>]
  <2>1. IsFiniteSet(T)
    <3>1. IsFiniteSet(L) /\ IsFiniteSet(0 .. 2)
      <4>1. IsFiniteSet(PeriodLabels \cup {HalfLabel[1]}) /\ IsFiniteSet(0 .. 2)
        <5>1. 0 \in Int /\ 2 \in Int /\ IsFiniteSet(PeriodLabels)
          BY DEF MatrixAssumption
        <5>2. IsFiniteSet(PeriodLabels \cup {HalfLabel[1]})
          BY <5>1, FS_AddElement, Zenon
        <5>3. IsFiniteSet(0 .. 2)
          BY <5>1, FS_Interval, Zenon
        <5> QED
          BY <5>2, <5>3
      <4> QED
        BY <4>1, FS_AddElement
    <3> QED
      BY <1>1, <1>2, <3>1, FS_Product
  <2>2. ASSUME NEW x \in AllItems
        PROVE  <<x.symbol, x.period>> \in Pairs /\ x.run \in RunsFor /\ x.label \in L /\ x.half \in 0 .. 2
    <3>1. PICK p \in Pairs : x \in Items(p)
      BY DEF AllItems
    <3> QED
      BY <3>1, ItemIs DEF Pairs
  <2>3. f \in Injection(AllItems, T)
    <3>1. f \in [AllItems -> T]
      BY <2>2
    <3>2. ASSUME NEW x \in AllItems, NEW y \in AllItems, f[x] = f[y] PROVE x = y
      <4>1. x.symbol = y.symbol /\ x.run = y.run /\ x.label = y.label
        BY <3>2
      <4>2. RunName(x) = RunName(y)
        BY <4>1 DEF RunName
      <4> QED
        BY <4>2, ItemsApart
    <3>3. DOMAIN f = AllItems
      OBVIOUS
    <3> HIDE DEF f, T
    <3> QED
      BY <3>1, <3>2, <3>3, Zenon DEF Injection, IsInjective
  <2> HIDE DEF f, T
  <2> QED
    BY <2>1, <2>3, FS_Injection
<1> QED
  BY <1>1, <1>3

(* A one-to-one map keeps the number of members.                           *)
LEMMA Mapped ==
    ASSUME NEW S, IsFiniteSet(S), NEW f, f = [x \in S |-> f[x]], \A x, y \in S : f[x] = f[y] => x = y
    PROVE  IsFiniteSet({f[x] : x \in S}) /\ Cardinality({f[x] : x \in S}) = Cardinality(S)
<1> DEFINE T == {f[x] : x \in S}
<1>1. f \in [S -> T] /\ DOMAIN f = S
  OBVIOUS
<1>2. \A t \in T : \E x \in S : f[x] = t
  OBVIOUS
<1> HIDE DEF T
<1>3. f \in Surjection(S, T)
  BY <1>1, <1>2 DEF Surjection
<1>4. f \in Injection(S, T)
  BY <1>1, Zenon DEF Injection, IsInjective
<1>5. IsFiniteSet(T) /\ Cardinality(T) = Cardinality(S)
  BY <1>3, <1>4, FS_Surjection
<1> QED
  BY <1>5 DEF T

(* What disjoint sets count together.                                      *)
LEMMA Together ==
    ASSUME NEW A, NEW B, IsFiniteSet(A), IsFiniteSet(B), \A x \in A : x \notin B
    PROVE  IsFiniteSet(A \cup B) /\ Cardinality(A \cup B) = Cardinality(A) + Cardinality(B)
<1>1. A \cap B = {} /\ Cardinality(A) \in Nat /\ Cardinality(B) \in Nat
  BY FS_CardinalityType
<1>2. IsFiniteSet(A \cup B) /\ Cardinality(A \cup B) = Cardinality(A) + Cardinality(B) - Cardinality(A \cap B)
  BY FS_Union
<1>3. Cardinality(A \cap B) = 0
  BY <1>1, FS_EmptySet
<1> QED
  BY <1>1, <1>2, <1>3

(* The items of different pairs differ.                                    *)
LEMMA OthersItems ==
    ASSUME NEW P \in SUBSET Pairs, NEW p \in Pairs, p \notin P
    PROVE  /\ ItemsOf(P) \subseteq AllItems /\ Items(p) \subseteq AllItems
           /\ \A x \in ItemsOf(P) : x \notin Items(p)
           /\ ItemsOf(P \cup {p}) = ItemsOf(P) \cup Items(p)
<1>1. ItemsOf(P) \subseteq AllItems /\ Items(p) \subseteq AllItems
  BY DEF ItemsOf, AllItems
<1>2. ASSUME NEW x \in ItemsOf(P), x \in Items(p) PROVE FALSE
  <2>1. PICK q \in P : x \in Items(q)
    BY DEF ItemsOf
  <2> QED
    BY <1>2, <2>1, PairsApart
<1>3. ItemsOf(P \cup {p}) = ItemsOf(P) \cup Items(p)
  BY DEF ItemsOf
<1> QED
  BY <1>1, <1>2, <1>3

(* There are two sources.                                                  *)
LEMMA TwoSources == IsFiniteSet({"30m", "5m"})
<1>1. IsFiniteSet({"30m"} \cup {"5m"})
  BY FS_Singleton, FS_AddElement
<1>2. {"30m", "5m"} = {"30m"} \cup {"5m"}
  OBVIOUS
<1> QED
  BY <1>1, <1>2

(* Fetching the sources S of pair p adds them to what the pairs P need.    *)
Adds(P, p, K, S) == Cardinality(FetchesFor(ItemsOf(P) \ K) \cup {<<p[1], p[2], s>> : s \in S})
                       = Cardinality(FetchesFor(ItemsOf(P) \ K)) + Cardinality(S)
(* Fetching some of what a further pair needs.                             *)
LEMMA FetchGrows ==
    ASSUME MatrixAssumption, NEW P \in SUBSET Pairs, NEW p \in Pairs, p \notin P, NEW K,
           NEW S \in SUBSET SourcesFor(Items(p) \ K)
    PROVE  /\ IsFiniteSet(FetchesFor(AllItems \ K))
           /\ Cardinality(FetchesFor(ItemsOf(P) \ K)) + Cardinality(S) <= Cardinality(FetchesFor(AllItems \ K))
           /\ Adds(P, p, K, S)
<1> DEFINE old == FetchesFor(ItemsOf(P) \ K)
           f == [s \in S |-> <<p[1], p[2], s>>]
           new == {f[s] : s \in S}
           all == FetchesFor(AllItems \ K)
<1>1. IsFiniteSet(all)
  <2> DEFINE g == [x \in AllItems \ K |-> FetchFor(x)]
  <2>1. IsFiniteSet(AllItems \ K)
    BY FiniteItems, FS_Subset
  <2>2. g = [x \in AllItems \ K |-> g[x]] /\ all = {g[x] : x \in AllItems \ K}
    BY DEF FetchesFor
  <2> HIDE DEF g, all
  <2> QED
    BY <2>1, <2>2, FiniteValues
<1>2. old \subseteq all
  BY OthersItems DEF FetchesFor
<1>3. \A s \in SourcesFor(Items(p) \ K) : \E x \in Items(p) \ K : x.run.source = s /\ FetchFor(x) = <<p[1], p[2], s>>
  BY ItemIs DEF SourcesFor, FetchFor
<1>4. new \subseteq all
  BY <1>3, OthersItems DEF FetchesFor
<1>5. \A y \in old : y \notin new
  <2> SUFFICES ASSUME NEW y \in old, NEW s \in S, y = <<p[1], p[2], s>> PROVE FALSE
    OBVIOUS
  <2>1. PICK x \in ItemsOf(P) : y = FetchFor(x)
    BY DEF FetchesFor
  <2>2. PICK q \in P : x \in Items(q)
    BY <2>1 DEF ItemsOf
  <2>3. q = <<x.symbol, x.period>> /\ p = <<p[1], p[2]>>
    BY <2>2, ItemIs DEF Pairs
  <2> QED
    BY <2>1, <2>2, <2>3 DEF FetchFor
<1>6. IsFiniteSet(S) /\ S \subseteq {"30m", "5m"}
  <2>1. S \subseteq {"30m", "5m"}
    BY ItemIs, RunsApart DEF SourcesFor
  <2>2. S \in SUBSET {"30m", "5m"} /\ IsFiniteSet({"30m", "5m"})
    BY <2>1, TwoSources
  <2> QED
    BY <2>1, <2>2, FS_Subset, Zenon
<1>7. IsFiniteSet(new) /\ Cardinality(new) = Cardinality(S)
  <2>1. f = [s \in S |-> f[s]] /\ \A x, y \in S : f[x] = f[y] => x = y
    OBVIOUS
  <2> HIDE DEF f
  <2> QED
    BY <1>6, <2>1, Mapped
<1>8. IsFiniteSet(old) /\ IsFiniteSet(old \cup new) /\ Cardinality(old \cup new) = Cardinality(old) + Cardinality(S)
  <2>1. IsFiniteSet(old)
    BY <1>1, <1>2, FS_Subset
  <2> HIDE DEF old, new
  <2> QED
    BY <1>5, <1>7, <2>1, Together
<1>9. Cardinality(old \cup new) <= Cardinality(all)
  <2>1. old \cup new \in SUBSET all
    BY <1>2, <1>4
  <2> HIDE DEF old, new, all
  <2> QED
    BY <1>1, <2>1, FS_Subset
<1>10. new = {<<p[1], p[2], s>> : s \in S}
  OBVIOUS
<1> HIDE DEF old, new, all
<1> QED
  BY <1>1, <1>8, <1>9, <1>10 DEF old, all, Adds

(* Fetching all a further pair needs.                                      *)
LEMMA PairFetched ==
    ASSUME MatrixAssumption, NEW P \in SUBSET Pairs, NEW p \in Pairs, p \notin P, NEW K
    PROVE  Cardinality(FetchesFor(ItemsOf(P \cup {p}) \ K)) = Cardinality(FetchesFor(ItemsOf(P) \ K)) + Cardinality(SourcesFor(Items(p) \ K))
<1> DEFINE S == SourcesFor(Items(p) \ K)
           old == FetchesFor(ItemsOf(P) \ K)
<1>1. FetchesFor(ItemsOf(P \cup {p}) \ K) = old \cup FetchesFor(Items(p) \ K)
  BY OthersItems DEF FetchesFor
<1>2. FetchesFor(Items(p) \ K) = {<<p[1], p[2], s>> : s \in S}
  <2>1. \A x \in Items(p) : FetchFor(x) = <<p[1], p[2], x.run.source>>
    BY ItemIs DEF FetchFor
  <2> QED
    BY <2>1 DEF FetchesFor, SourcesFor
<1>3. S \in SUBSET SourcesFor(Items(p) \ K)
  OBVIOUS
<1> HIDE DEF S
<1>4. Adds(P, p, K, S)
  BY <1>3, FetchGrows
<1> HIDE DEF old
<1> QED
  BY <1>1, <1>2, <1>4 DEF old, S, Adds

(* Writing one file.                                                       *)
LEMMA OneFile ==
    ASSUME MatrixAssumption, MatrixTypeOK, NEW x \in AllItems, NEW v, disk' = [disk EXCEPT ![RunName(x)] = v]
    PROVE  /\ DOMAIN disk' = DOMAIN disk /\ File(x)' = v
           /\ \A y \in AllItems : y # x => File(y)' = File(y)
<1>1. RunName(x) \in DOMAIN disk
  BY DEF MatrixTypeOK
<1>2. \A y \in AllItems : RunName(y) = RunName(x) => y = x
  BY ItemsApart
<1> QED
  BY <1>1, <1>2 DEF File

(* Before the first attempt.                                               *)
LEMMA MatrixStarts == ASSUME MatrixInit PROVE MatrixInv
<1>1. \A x \in AllItems : File(x) = None
  BY DEF MatrixInit, File
<1> QED
  BY <1>1 DEF MatrixInit, MatrixInv, MatrixTypeOK, DiskInv, Steps

(* Only files are written and read during an attempt: what DiskInv says of *)
(* the files that stay as they are.                                        *)
LEMMA SameFiles ==
    ASSUME MatrixInv, UNCHANGED <<disk, args, spans>>
    PROVE  DiskInv' /\ DOMAIN disk' = {RunName(x) : x \in AllItems} /\ \A x \in AllItems : File(x)' = File(x)
BY DEF MatrixInv, MatrixTypeOK, DiskInv, File

(* An attempt starts anew from what is on the disk.                        *)
LEMMA StartAttemptStep == ASSUME MatrixAssumption, MatrixInv, StartAttempt PROVE MatrixInv'
<1>1. PICK a \in Arguments : args' = a /\ intact' = ValidItems(a)
  BY Zenon DEF StartAttempt
<1>2. /\ spans' = IF args = None THEN {} ELSE spans \cup {args.dates}
      /\ step' = "choose" /\ pairs' = Pairs /\ pair' = None /\ todo' = {} /\ sources' = {}
      /\ reports' = {} /\ failures' = {} /\ done' = 0 /\ requests' = 0 /\ disk' = disk
  BY DEF StartAttempt
<1>3. Past' = {} /\ Seen' = {} /\ Handled' = {} /\ SeenBefore' = {} /\ Cardinality({}) = 0
  BY <1>2, FS_EmptySet DEF Past, Seen, Handled, SeenBefore, ItemsOf
<1>4. args' # None /\ args' \in Arguments /\ intact' \subseteq AllItems
  BY <1>1 DEF MatrixAssumption, ValidItems
<1>5. MatrixTypeOK'
  BY <1>2, <1>4 DEF MatrixInv, MatrixTypeOK, Steps
<1>6. \A x \in AllItems : File(x)' = File(x)
  BY <1>2 DEF File
<1>7. DiskInv'
  <2> SUFFICES ASSUME NEW x \in AllItems, File(x)' \notin {None, Torn}
               PROVE  \E b \in Arguments : File(x)' = Report(x, b) /\ b.dates \in spans' \cup {args'.dates}
    BY <1>4 DEF DiskInv
  <2>1. args # None
    BY <1>6 DEF MatrixInv, DiskInv
  <2>2. PICK b \in Arguments : File(x) = Report(x, b) /\ b.dates \in spans \cup {args.dates}
    BY <1>6 DEF MatrixInv, DiskInv
  <2> QED
    BY <1>2, <1>6, <2>1, <2>2
<1>8. WorkInv'
  BY <1>2 DEF WorkInv
<1>9. KeptInv'
  <2>1. \A x \in AllItems : x \in intact' <=> ValidReport(File(x)', x, args')
    BY <1>1, <1>6 DEF ValidItems, File
  <2> QED
    BY <1>2, <1>4, <2>1 DEF KeptInv
<1>10. ReportsInv'
  BY <1>2, <1>3 DEF ReportsInv
<1>11. FetchInv'
  <2>1. FetchesFor({} \ intact') = {}
    BY DEF FetchesFor
  <2> QED
    BY <1>2, <1>3, <2>1 DEF FetchInv
<1> QED
  BY <1>5, <1>7, <1>8, <1>9, <1>10, <1>11 DEF MatrixInv

(* The next pair: its valid reports are taken over, the rest is to do.     *)
LEMMA ChooseStep == ASSUME MatrixAssumption, MatrixInv, Choose PROVE MatrixInv'
<1> DEFINE p == CHOOSE p \in pairs : TRUE
           taken == {x \in Items(p) : args.resume /\ ValidReport(disk[RunName(x)], x, args)}
           left == Items(p) \ taken
<1>1. p \in pairs /\ p \in Pairs /\ pairs' = pairs \ {p}
  BY DEF Choose, MatrixInv, MatrixTypeOK
<1>2. /\ step = "choose" /\ reports' = reports \cup {disk[RunName(x)] : x \in taken}
      /\ done' = done + Cardinality(taken)
      /\ IF left = {} THEN NextPair ELSE step' = "fetch" /\ pair' = p /\ todo' = left /\ sources' = {}
      /\ UNCHANGED <<disk, summary, failures, requests, args, attempts, intact, spans>>
  BY DEF Choose, attemptUnchanged
<1>3. args # None /\ args \in Arguments /\ MatrixTypeOK /\ WorkInv /\ KeptInv /\ ReportsInv /\ FetchInv
  BY <1>2 DEF MatrixInv, MatrixTypeOK
<1>4. pair = None /\ todo = {} /\ sources = {}
  BY <1>2, <1>3 DEF WorkInv
<1>5. todo' = left /\ sources' = {} /\ step' \in {"choose", "fetch"} /\ pair' \in {None, p}
      /\ (left = {} => step' = "choose" /\ pair' = None) /\ (left # {} => step' = "fetch" /\ pair' = p)
  BY <1>2 DEF NextPair
<1>6. \A x \in taken : args.resume /\ ValidReport(File(x), x, args)
  BY DEF File
<1>7. \A x \in left : x \in Items(p) /\ ~(args.resume /\ ValidReport(File(x), x, args))
  BY DEF File
<1>8. taken \cup left = Items(p) /\ taken \cap left = {}
  OBVIOUS
<1>9. {disk[RunName(x)] : x \in taken} = {File(x) : x \in taken}
  BY DEF File
<1> HIDE DEF p, taken, left
<1>10. p \notin Past /\ Past \subseteq Pairs /\ None \notin Pairs /\ Past' = Past \cup {p}
  BY <1>1, <1>3 DEF Past, MatrixAssumption, MatrixTypeOK
<1>11. Seen' = Seen \cup Items(p) /\ Seen \subseteq AllItems /\ Items(p) \subseteq AllItems /\ \A x \in Seen : x \notin Items(p)
  BY <1>1, <1>10, OthersItems DEF Seen
<1>12. Handled = Seen /\ Handled' = Seen \cup taken
  BY <1>4, <1>5, <1>8, <1>11 DEF Handled
<1>13. MatrixTypeOK'
  <2>1. Cardinality(taken) \in Nat
    BY <1>8, <1>11, FiniteItems, FS_Subset, FS_CardinalityType
  <2> QED
    BY <1>1, <1>2, <1>3, <1>5, <1>8, <1>11, <2>1 DEF MatrixTypeOK, Steps
<1>14. DiskInv' /\ \A x \in AllItems : File(x)' = File(x)
  BY <1>2, SameFiles
<1>15. WorkInv'
  <2>1. CASE left = {}
    BY <1>1, <1>5, <2>1 DEF WorkInv
  <2>2. CASE left # {}
    <3>1. Needed' # {} /\ sources' \subseteq Needed'
      BY <1>5, <2>2 DEF Needed
    <3> QED
      BY <1>1, <1>5, <1>8, <1>10, <2>2, <3>1 DEF WorkInv
  <2> QED
    BY <2>1, <2>2
<1>16. KeptInv'
  <2>1. \A x \in todo' \cup failures' : args.resume => ~ValidReport(File(x), x, args)
    BY <1>2, <1>3, <1>5, <1>7 DEF KeptInv
  <2>2. todo' \subseteq AllItems /\ failures' \subseteq AllItems /\ intact \subseteq AllItems
    BY <1>2, <1>3, <1>5, <1>8, <1>11, <1>12 DEF ReportsInv, MatrixTypeOK
  <2> QED
    BY <1>2, <1>3, <1>11, <1>14, <2>1, <2>2 DEF KeptInv
<1>17. ReportsInv'
  <2>1. failures' \subseteq Handled' /\ Handled' \ failures' = (Handled \ failures) \cup taken
    BY <1>2, <1>3, <1>8, <1>11, <1>12 DEF ReportsInv
  <2>2. Handled' \subseteq AllItems
    BY <1>8, <1>11, <1>12
  <2>3. reports' = {File(x)' : x \in Handled' \ failures'}
    <3>1. reports' = {File(x) : x \in Handled \ failures} \cup {File(x) : x \in taken}
      BY <1>2, <1>3, <1>9 DEF ReportsInv
    <3>2. reports' = {File(x) : x \in Handled' \ failures'}
      BY <2>1, <3>1
    <3>3. \A x \in Handled' \ failures' : File(x)' = File(x)
      BY <1>14, <2>2
    <3> QED
      BY <3>2, <3>3
  <2>4. \A x \in Handled \ failures : Reported(x)'
    BY <1>2, <1>3, <1>12, <1>14, <1>11 DEF ReportsInv, Reported
  <2>5. \A x \in taken : Reported(x)'
    <3> SUFFICES ASSUME NEW x \in taken PROVE Reported(x)'
      OBVIOUS
    <3>1. x \in AllItems /\ x \notin Seen /\ args.resume /\ ValidReport(File(x), x, args)
      BY <1>6, <1>8, <1>11
    <3>2. x \in intact
      BY <1>3, <3>1 DEF KeptInv
    <3> QED
      BY <1>2, <1>14, <3>1, <3>2 DEF Reported
  <2>6. done' = Cardinality(Handled') + (IF step' = "dump" THEN 1 ELSE 0)
    <3>1. IsFiniteSet(Handled) /\ IsFiniteSet(taken)
      BY <1>8, <1>11, <1>12, FiniteItems, FS_Subset
    <3>2. Cardinality(Handled') = Cardinality(Handled) + Cardinality(taken) /\ Cardinality(Handled) \in Nat /\ Cardinality(taken) \in Nat
      BY <1>8, <1>11, <1>12, <3>1, Together, FS_CardinalityType
    <3>3. done = Cardinality(Handled)
      BY <1>2, <1>3, <3>2 DEF ReportsInv
    <3> QED
      BY <1>2, <1>5, <3>2, <3>3
  <2> QED
    BY <2>1, <2>3, <2>4, <2>5, <2>6 DEF ReportsInv
<1>18. FetchInv'
  <2> SUFFICES ASSUME args'.resume, failures' = {} PROVE FetchInv'
    BY DEF FetchInv
  <2>1. args.resume /\ failures = {} /\ intact' = intact /\ requests' = requests
    BY <1>2
  <2>2. left = Items(p) \ intact
    <3>1. \A x \in Items(p) : x \in taken <=> ValidReport(File(x), x, args)
      BY <1>6, <1>7, <1>8, <2>1
    <3>2. \A x \in Items(p) : x \in intact <=> ValidReport(File(x), x, args)
      BY <1>3, <1>11 DEF KeptInv
    <3> QED
      BY <1>8, <3>1, <3>2
  <2>3. Past \ {pair} = Past
    BY <1>4, <1>10
  <2>4. requests = Cardinality(FetchesFor(Seen \ intact)) + Cardinality({})
    BY <1>3, <1>4, <2>1, <2>3 DEF FetchInv, SeenBefore, Seen
  <2>5. SeenBefore' \ intact = Seen \ intact
    <3>1. CASE left = {}
      <4>1. Past' \ {pair'} = Past \cup {p}
        BY <1>5, <1>10, <3>1, <1>1
      <4>2. SeenBefore' = Seen \cup Items(p)
        BY <4>1, <1>1, <1>10, OthersItems DEF SeenBefore, Seen
      <4> QED
        BY <2>2, <3>1, <4>2
    <3>2. CASE left # {}
      <4>1. Past' \ {pair'} = Past
        BY <1>5, <1>10, <3>2
      <4> QED
        BY <4>1 DEF SeenBefore, Seen
    <3> QED
      BY <3>1, <3>2
  <2>6. requests' = Cardinality(FetchesFor(SeenBefore' \ intact')) + Cardinality(sources')
    BY <1>5, <2>1, <2>4, <2>5
  <2> QED
    BY <1>5, <2>1, <2>2, <2>6 DEF FetchInv
<1> QED
  BY <1>2, <1>13, <1>14, <1>15, <1>16, <1>17, <1>18 DEF MatrixInv

(* The pair at work is one the attempt has come to; it comes after the     *)
(* pairs before it.                                                        *)
LEMMA AtWork ==
    ASSUME MatrixAssumption, MatrixTypeOK, WorkInv
    PROVE  /\ Seen \subseteq AllItems /\ todo \subseteq Seen /\ Handled \subseteq AllItems /\ IsFiniteSet(Handled)
           /\ IsFiniteSet(todo) /\ Cardinality(Handled) \in Nat /\ Cardinality(todo) \in Nat
           /\ Cardinality(Seen) = Cardinality(Handled) + Cardinality(todo)
           /\ pair = None => SeenBefore = Seen
           /\ pair # None => /\ pair \in Pairs /\ Past \ {pair} \in SUBSET Pairs /\ pair \notin Past \ {pair}
                             /\ Past = (Past \ {pair}) \cup {pair}
                             /\ Items(pair) \subseteq Seen
<1>1. Past \subseteq Pairs /\ None \notin Pairs
  BY DEF Past, MatrixAssumption
<1>2. Seen \subseteq AllItems
  BY <1>1 DEF Seen, ItemsOf, AllItems
<1>3. pair # None => pair \in Past /\ Items(pair) \subseteq Seen
  BY DEF WorkInv, Seen, ItemsOf
<1>4. todo \subseteq Seen
  BY <1>3 DEF WorkInv
<1>5. IsFiniteSet(Handled) /\ IsFiniteSet(todo) /\ Handled \subseteq AllItems
  BY <1>2, <1>4, FiniteItems, FS_Subset DEF Handled
<1>6. Handled \cup todo = Seen /\ \A x \in Handled : x \notin todo
  BY <1>4 DEF Handled
<1>7. Cardinality(Seen) = Cardinality(Handled) + Cardinality(todo)
  BY <1>5, <1>6, Together
<1>8. pair = None => Past \ {pair} = Past
  BY <1>1
<1> QED
  BY <1>1, <1>2, <1>3, <1>4, <1>5, <1>7, <1>8, FS_CardinalityType DEF SeenBefore, Seen

(* One more source.                                                        *)
LEMMA SourceStep == ASSUME MatrixAssumption, MatrixInv, FetchSource PROVE MatrixInv'
<1> DEFINE s == IF "30m" \in Needed \ sources THEN "30m" ELSE "5m"
<1>1. /\ step = "fetch" /\ requests' = requests + 1 /\ sources' = sources \cup {s}
      /\ step' = IF sources' = Needed THEN "write" ELSE "fetch"
      /\ UNCHANGED <<disk, summary, pairs, pair, todo, reports, failures, done, args, attempts, intact, spans>>
  BY DEF FetchSource, attemptUnchanged
<1>2. args # None /\ MatrixTypeOK /\ WorkInv /\ KeptInv /\ ReportsInv /\ FetchInv
  BY <1>1 DEF MatrixInv, MatrixTypeOK
<1>3. pair # None /\ todo # {} /\ sources \subseteq Needed /\ sources # Needed /\ Needed \subseteq {"30m", "5m"}
  <2>1. \A x \in todo : x.run.source \in {"30m", "5m"}
    BY <1>2, AtWork, ItemIs, RunsApart DEF WorkInv
  <2> QED
    BY <1>1, <1>2, <2>1 DEF WorkInv, Needed
<1>4. s \in Needed /\ s \notin sources
  BY <1>3
<1> HIDE DEF s
<1>5. Past' = Past /\ Seen' = Seen /\ Handled' = Handled /\ SeenBefore' = SeenBefore /\ Needed' = Needed
  BY <1>1 DEF Past, Seen, Handled, SeenBefore, Needed
<1>6. MatrixTypeOK'
  BY <1>1, <1>2, <1>3, <1>4 DEF MatrixTypeOK, Steps
<1>7. DiskInv' /\ \A x \in AllItems : File(x)' = File(x)
  BY <1>1, SameFiles
<1>8. WorkInv'
  BY <1>1, <1>2, <1>3, <1>4, <1>5 DEF WorkInv
<1>9. KeptInv'
  BY <1>1, <1>5 , <1>2 DEF KeptInv, File
<1>10. ReportsInv'
  <2>1. done' = Cardinality(Handled') + (IF step' = "dump" THEN 1 ELSE 0)
    BY <1>1, <1>2, <1>5, AtWork DEF ReportsInv
  <2> QED
    BY <1>1, <1>2, <1>5, <2>1 DEF ReportsInv, Reported, File
<1>11. FetchInv'
  <2> SUFFICES ASSUME args'.resume, failures' = {} PROVE FetchInv'
    BY DEF FetchInv
  <2>1. /\ requests = Cardinality(FetchesFor(SeenBefore \ intact)) + Cardinality(sources) /\ todo = Items(pair) \ intact
    BY <1>1, <1>2 DEF FetchInv
  <2>2. sources' \subseteq Needed /\ Needed = SourcesFor(Items(pair) \ intact)
    BY <1>1, <1>3, <1>4, <2>1 DEF Needed, SourcesFor
  <2>3. Cardinality(sources') = Cardinality(sources) + 1 /\ Cardinality(sources) \in Nat
    <3>1. IsFiniteSet(sources)
      BY <1>3, TwoSources, FS_Subset
    <3> QED
      BY <1>1, <1>4, <3>1, FS_AddElement, FS_CardinalityType
  <2>4. Cardinality(FetchesFor(SeenBefore \ intact)) \in Nat
    <3>1. SeenBefore \ intact \subseteq AllItems
      BY <1>2, <1>3, AtWork, OthersItems DEF SeenBefore
    <3>2. IsFiniteSet(SeenBefore \ intact)
      BY <3>1, FiniteItems, FS_Subset
    <3> DEFINE g == [x \in SeenBefore \ intact |-> FetchFor(x)]
    <3>3. g = [x \in SeenBefore \ intact |-> g[x]] /\ FetchesFor(SeenBefore \ intact) = {g[x] : x \in SeenBefore \ intact}
      BY DEF FetchesFor
    <3> HIDE DEF g
    <3>4. IsFiniteSet({g[x] : x \in SeenBefore \ intact})
      BY <3>2, <3>3, FiniteValues
    <3> QED
      BY <3>3, <3>4, FS_CardinalityType
  <2>5. requests' = Cardinality(FetchesFor(SeenBefore' \ intact')) + Cardinality(sources')
    BY <1>1, <1>5, <2>1, <2>3, <2>4
  <2> QED
    BY <1>1, <1>5, <2>1, <2>2, <2>5 DEF FetchInv
<1> QED
  BY <1>1, <1>6, <1>7, <1>8, <1>9, <1>10, <1>11 DEF MatrixInv

(* A failure gives up what the pair has left.                              *)
LEMMA GiveUpStep == ASSUME MatrixAssumption, MatrixInv, FetchFails PROVE MatrixInv'
<1>1. /\ step = "fetch" /\ requests' \in requests .. MaxMatrixRequests
      /\ failures' = failures \cup todo /\ done' = done + Cardinality(todo)
      /\ pair' = None /\ step' = "choose" /\ todo' = {} /\ sources' = {}
      /\ UNCHANGED <<disk, summary, pairs, reports, args, attempts, intact, spans>>
  BY DEF FetchFails, NextPair, attemptUnchanged
<1>2. args # None /\ MatrixTypeOK /\ WorkInv /\ KeptInv /\ ReportsInv
  BY <1>1 DEF MatrixInv, MatrixTypeOK
<1>3. pair # None /\ todo # {} /\ todo \subseteq Seen /\ Seen \subseteq AllItems
  BY <1>1, <1>2, AtWork DEF WorkInv
<1>4. Past' = Past /\ Seen' = Seen /\ Handled' = Seen /\ Handled = Seen \ todo
  BY <1>1 DEF Past, Seen, Handled
<1>5. MatrixTypeOK'
  BY <1>1, <1>2, AtWork DEF MatrixTypeOK, Steps, MatrixAssumption
<1>6. DiskInv' /\ \A x \in AllItems : File(x)' = File(x)
  BY <1>1, SameFiles
<1>7. WorkInv'
  BY <1>1 DEF WorkInv
<1>8. KeptInv'
  BY <1>1, <1>2, <1>4 DEF KeptInv, File
<1>9. ReportsInv'
  <2>1. done' = Cardinality(Handled') + (IF step' = "dump" THEN 1 ELSE 0)
    BY <1>1, <1>2, <1>4, AtWork DEF ReportsInv
  <2>2. Handled' \ failures' = Handled \ failures /\ failures' \subseteq Handled'
    BY <1>1, <1>2, <1>3, <1>4 DEF ReportsInv
  <2> QED
    BY <1>1, <1>2, <2>1, <2>2 DEF ReportsInv, Reported, File
<1>10. FetchInv'
  BY <1>1, <1>3 DEF FetchInv
<1> QED
  BY <1>1, <1>5, <1>6, <1>7, <1>8, <1>9, <1>10 DEF MatrixInv

(* The file is emptied.                                                    *)
LEMMA TruncateStep == ASSUME MatrixAssumption, MatrixInv, Truncate PROVE MatrixInv'
<1>1. /\ step = "write" /\ todo # {} /\ disk' = [disk EXCEPT ![RunName(Upcoming)] = Torn] /\ step' = "dump" /\ done' = done + 1
      /\ UNCHANGED <<summary, pairs, pair, todo, sources, reports, failures, requests, args, attempts, intact, spans>>
  BY DEF Truncate, attemptUnchanged
<1>2. args # None /\ args \in Arguments /\ MatrixTypeOK /\ DiskInv /\ WorkInv /\ KeptInv /\ ReportsInv /\ FetchInv
  BY <1>1 DEF MatrixInv, MatrixTypeOK
<1>3. PICK x \in todo : x = Upcoming
  BY <1>1 DEF Upcoming
<1>4. x \in AllItems /\ x \in Seen /\ x \notin Handled
  BY <1>2, AtWork DEF Handled
<1>5. DOMAIN disk' = DOMAIN disk /\ File(x)' = Torn /\ \A y \in AllItems : y # x => File(y)' = File(y)
  BY <1>1, <1>2, <1>3, <1>4, OneFile
<1>6. Past' = Past /\ Seen' = Seen /\ Handled' = Handled /\ SeenBefore' = SeenBefore /\ Needed' = Needed
  BY <1>1 DEF Past, Seen, Handled, SeenBefore, Needed
<1>7. MatrixTypeOK'
  BY <1>1, <1>2, <1>5 DEF MatrixTypeOK, Steps
<1>8. DiskInv'
  BY <1>1, <1>2, <1>5 DEF DiskInv
<1>9. WorkInv'
  BY <1>1, <1>2, <1>6 DEF WorkInv
<1>10. ~ValidReport(File(x)', x, args)
  BY <1>5 DEF ValidReport
<1>11. KeptInv'
  <2>1. ASSUME args.resume, NEW y \in intact PROVE ValidReport(File(y)', y, args)
    BY <1>2, <1>3, <1>5, <2>1 DEF KeptInv, MatrixTypeOK
  <2>2. ASSUME args.resume, NEW y \in todo \cup failures PROVE ~ValidReport(File(y)', y, args)
    <3>1. y \in AllItems
      BY <1>2, AtWork DEF ReportsInv
    <3> QED
      BY <1>2, <1>5, <1>10, <2>2, <3>1 DEF KeptInv
  <2>3. ASSUME NEW y \in AllItems \ Seen PROVE y \in intact <=> ValidReport(File(y)', y, args)
    BY <1>2, <1>4, <1>5 DEF KeptInv
  <2> QED
    BY <1>1, <1>6, <2>1, <2>2, <2>3 DEF KeptInv
<1>12. ReportsInv'
  <2>1. done' = Cardinality(Handled') + (IF step' = "dump" THEN 1 ELSE 0)
    BY <1>1, <1>2, <1>6, AtWork DEF ReportsInv
  <2>2. \A y \in Handled : File(y)' = File(y)
    BY <1>2, <1>4, <1>5, AtWork
  <2>3. reports' = {File(y)' : y \in Handled' \ failures'}
    BY <1>1, <1>2, <1>6, <2>2 DEF ReportsInv
  <2>4. \A y \in Handled' \ failures' : Reported(y)'
    BY <1>1, <1>2, <1>6, <2>2 DEF ReportsInv, Reported
  <2> QED
    BY <1>1, <1>2, <1>6, <2>1, <2>3, <2>4 DEF ReportsInv
<1>13. FetchInv'
  BY <1>1, <1>2, <1>6 DEF FetchInv
<1> QED
  BY <1>7, <1>8, <1>9, <1>11, <1>12, <1>13 DEF MatrixInv

(* The report is written.                                                  *)
LEMMA DumpStep == ASSUME MatrixAssumption, MatrixInv, Dump PROVE MatrixInv'
<1>1. /\ step = "dump" /\ disk' = [disk EXCEPT ![RunName(Upcoming)] = Report(Upcoming, args)]
      /\ reports' = reports \cup {Report(Upcoming, args)} /\ todo' = todo \ {Upcoming} /\ step' = "write"
      /\ UNCHANGED <<summary, pairs, pair, sources, failures, done, requests, args, attempts, intact, spans>>
  BY DEF Dump, attemptUnchanged
<1>2. args # None /\ args \in Arguments /\ MatrixTypeOK /\ DiskInv /\ WorkInv /\ KeptInv /\ ReportsInv /\ FetchInv
  BY <1>1 DEF MatrixInv, MatrixTypeOK
<1>3. PICK x \in todo : x = Upcoming
  BY <1>1, <1>2 DEF Upcoming, WorkInv
<1>4. x \in AllItems /\ x \in Seen /\ x \notin Handled /\ x \notin failures
  BY <1>2, AtWork DEF Handled, ReportsInv
<1>5. DOMAIN disk' = DOMAIN disk /\ File(x)' = Report(x, args) /\ \A y \in AllItems : y # x => File(y)' = File(y)
  BY <1>1, <1>2, <1>3, <1>4, OneFile
<1>6. Past' = Past /\ Seen' = Seen /\ SeenBefore' = SeenBefore /\ todo' = todo \ {x} /\ Handled' = Handled \cup {x}
  <2>1. Past' = Past /\ Seen' = Seen /\ SeenBefore' = SeenBefore /\ todo' = todo \ {x}
    BY <1>1, <1>3 DEF Past, Seen, SeenBefore
  <2> QED
    BY <1>4, <2>1 DEF Handled
<1>7. MatrixTypeOK'
  BY <1>1, <1>2, <1>5, <1>6 DEF MatrixTypeOK, Steps
<1>8. DiskInv'
  BY <1>1, <1>2, <1>5 DEF DiskInv
<1>9. WorkInv'
  BY <1>1, <1>2, <1>6 DEF WorkInv
<1>10. ValidReport(File(x)', x, args)
  <2>1. Report(x, args) \notin {None, Torn}
    BY <1>2, <1>4 DEF MatrixAssumption
  <2> QED
    BY <1>5, <2>1 DEF ValidReport, Report
<1>11. KeptInv'
  <2>1. ASSUME args.resume, NEW y \in intact PROVE ValidReport(File(y)', y, args)
    BY <1>2, <1>5, <1>10, <2>1 DEF KeptInv, MatrixTypeOK
  <2>2. ASSUME args.resume, NEW y \in todo' \cup failures PROVE ~ValidReport(File(y)', y, args)
    <3>1. y \in AllItems /\ y # x
      BY <1>2, <1>4, <1>6, AtWork DEF ReportsInv
    <3> QED
      BY <1>2, <1>5, <1>6, <2>2, <3>1 DEF KeptInv
  <2>3. ASSUME NEW y \in AllItems \ Seen PROVE y \in intact <=> ValidReport(File(y)', y, args)
    BY <1>2, <1>4, <1>5 DEF KeptInv
  <2> QED
    BY <1>1, <1>6, <2>1, <2>2, <2>3 DEF KeptInv
<1>12. ReportsInv'
  <2>1. done' = Cardinality(Handled') + (IF step' = "dump" THEN 1 ELSE 0)
    <3>1. Cardinality(Handled') = Cardinality(Handled) + 1
      BY <1>2, <1>4, <1>6, AtWork, FS_AddElement
    <3> QED
      BY <1>1, <1>2, <3>1, AtWork DEF ReportsInv
  <2>2. \A y \in Handled : File(y)' = File(y)
    BY <1>2, <1>4, <1>5, AtWork
  <2>3. Handled' \ failures' = (Handled \ failures) \cup {x}
    BY <1>1, <1>4, <1>6
  <2>4. reports' = {File(y)' : y \in Handled' \ failures'}
    <3>1. reports' = {File(y) : y \in Handled \ failures} \cup {File(x)'}
      BY <1>1, <1>2, <1>3, <1>5 DEF ReportsInv
    <3> QED
      BY <2>2, <2>3, <3>1
  <2>5. \A y \in Handled \ failures : Reported(y)'
    BY <1>1, <1>2, <2>2 DEF ReportsInv, Reported
  <2>6. Reported(x)'
    BY <1>1, <1>5, <1>10 DEF Reported
  <2> QED
    BY <1>1, <1>2, <1>6, <2>1, <2>3, <2>4, <2>5, <2>6 DEF ReportsInv
<1>13. FetchInv'
  BY <1>1, <1>2, <1>6 DEF FetchInv
<1> QED
  BY <1>7, <1>8, <1>9, <1>11, <1>12, <1>13 DEF MatrixInv

(* Nothing to report of an item.                                           *)
LEMMA EmptyStep == ASSUME MatrixAssumption, MatrixInv, Empty PROVE MatrixInv'
<1>1. /\ step = "write" /\ todo # {} /\ failures' = failures \cup {Upcoming} /\ done' = done + 1 /\ todo' = todo \ {Upcoming}
      /\ UNCHANGED <<disk, summary, step, pairs, pair, sources, reports, requests, args, attempts, intact, spans>>
  BY DEF Empty, attemptUnchanged
<1>2. args # None /\ args \in Arguments /\ MatrixTypeOK /\ DiskInv /\ WorkInv /\ KeptInv /\ ReportsInv /\ FetchInv
  BY <1>1 DEF MatrixInv, MatrixTypeOK
<1>3. PICK x \in todo : x = Upcoming
  BY <1>1 DEF Upcoming
<1>4. x \in AllItems /\ x \in Seen /\ x \notin Handled
  BY <1>2, AtWork DEF Handled
<1>5. Past' = Past /\ Seen' = Seen /\ SeenBefore' = SeenBefore /\ todo' = todo \ {x} /\ Handled' = Handled \cup {x}
  <2>1. Past' = Past /\ Seen' = Seen /\ SeenBefore' = SeenBefore /\ todo' = todo \ {x}
    BY <1>1, <1>3 DEF Past, Seen, SeenBefore
  <2> QED
    BY <1>4, <2>1 DEF Handled
<1>6. MatrixTypeOK'
  BY <1>1, <1>2, <1>5 DEF MatrixTypeOK, Steps
<1>7. DiskInv' /\ \A y \in AllItems : File(y)' = File(y)
  BY <1>1, SameFiles
<1>8. WorkInv'
  BY <1>1, <1>2, <1>5 DEF WorkInv
<1>9. KeptInv'
  BY <1>1, <1>2, <1>3, <1>5 DEF KeptInv, File
<1>10. ReportsInv'
  <2>1. Cardinality(Handled') = Cardinality(Handled) + 1
    BY <1>2, <1>4, <1>5, AtWork, FS_AddElement
  <2>2. done' = Cardinality(Handled') + (IF step' = "dump" THEN 1 ELSE 0)
    BY <1>1, <1>2, <2>1, AtWork DEF ReportsInv
  <2>3. Handled' \ failures' = Handled \ failures /\ failures' \subseteq Handled'
    BY <1>1, <1>2, <1>3, <1>4, <1>5 DEF ReportsInv
  <2> QED
    BY <1>1, <1>2, <2>2, <2>3 DEF ReportsInv, Reported, File
<1>11. FetchInv'
  BY <1>1 DEF FetchInv
<1> QED
  BY <1>6, <1>7, <1>8, <1>9, <1>10, <1>11 DEF MatrixInv

(* A pair is done, with what it needed fetched.                            *)
LEMMA PairDoneStep == ASSUME MatrixAssumption, MatrixInv, PairDone PROVE MatrixInv'
<1>1. /\ step = "write" /\ todo = {} /\ pair' = None /\ step' = "choose" /\ todo' = {} /\ sources' = {}
      /\ UNCHANGED <<disk, summary, pairs, reports, failures, done, requests, args, attempts, intact, spans>>
  BY DEF PairDone, NextPair, attemptUnchanged
<1>2. args # None /\ args \in Arguments /\ MatrixTypeOK /\ DiskInv /\ WorkInv /\ KeptInv /\ ReportsInv /\ FetchInv
  BY <1>1 DEF MatrixInv, MatrixTypeOK
<1>3. Past' = Past /\ Seen' = Seen /\ Handled' = Handled
  BY <1>1 DEF Past, Seen, Handled
<1>4. MatrixTypeOK'
  BY <1>1, <1>2 DEF MatrixTypeOK, Steps
<1>5. DiskInv' /\ \A x \in AllItems : File(x)' = File(x)
  BY <1>1, SameFiles
<1>6. WorkInv'
  BY <1>1 DEF WorkInv
<1>7. KeptInv'
  BY <1>1, <1>2, <1>3 DEF KeptInv, File
<1>8. ReportsInv'
  BY <1>1, <1>2, <1>3 DEF ReportsInv, Reported, File
<1>9. FetchInv'
  <2> SUFFICES ASSUME args'.resume, failures' = {} PROVE FetchInv'
    BY DEF FetchInv
  <2>1. /\ requests = Cardinality(FetchesFor(SeenBefore \ intact)) + Cardinality(sources)
        /\ sources = SourcesFor(Items(pair) \ intact)
    BY <1>1, <1>2 DEF FetchInv
  <2>2. pair # None
    BY <1>1, <1>2 DEF WorkInv
  <2>3. SeenBefore' = ItemsOf((Past \ {pair}) \cup {pair})
    <3>1. Past' \ {pair'} = (Past \ {pair}) \cup {pair}
      BY <1>1, <1>2, <1>3, <2>2, AtWork DEF MatrixAssumption
    <3> QED
      BY <3>1 DEF SeenBefore
  <2>4. Cardinality(FetchesFor(SeenBefore' \ intact)) = Cardinality(FetchesFor(SeenBefore \ intact)) + Cardinality(sources)
    <3> DEFINE P == Past \ {pair}
    <3>1. P \in SUBSET Pairs /\ pair \in Pairs /\ pair \notin P
      BY <1>2, <2>2, AtWork
    <3>2. SeenBefore = ItemsOf(P) /\ SeenBefore' = ItemsOf(P \cup {pair})
      BY <2>3 DEF SeenBefore
    <3> HIDE DEF P
    <3> QED
      BY <2>1, <3>1, <3>2, PairFetched
  <2>5. Cardinality({}) = 0 /\ requests \in Nat
    BY <1>2, FS_EmptySet DEF MatrixTypeOK
  <2>6. requests' = Cardinality(FetchesFor(SeenBefore' \ intact')) + Cardinality(sources')
    BY <1>1, <2>1, <2>4, <2>5
  <2> QED
    BY <1>1, <2>6 DEF FetchInv
<1> QED
  BY <1>4, <1>5, <1>6, <1>7, <1>8, <1>9 DEF MatrixInv

(* The summary is emptied, then written; or the attempt is killed.         *)
LEMMA SummaryStep == ASSUME MatrixAssumption, MatrixInv, Summarize \/ Kill PROVE MatrixInv'
<1>1. /\ step \in Steps \ {"idle", "finished"}
      /\ \/ step = "choose" /\ pairs = {} /\ step' = "summary"
         \/ step = "summary" /\ summary' = reports /\ step' = "finished"
         \/ step' = "idle"
      /\ UNCHANGED <<disk, pairs, pair, todo, sources, reports, failures, done, requests, args, attempts, intact, spans>>
  BY DEF Summarize, Kill, attemptUnchanged, MatrixInv, MatrixTypeOK, Steps
<1>2. args # None /\ args \in Arguments /\ MatrixTypeOK /\ DiskInv /\ WorkInv /\ KeptInv /\ ReportsInv /\ FetchInv
  BY <1>1 DEF MatrixInv, MatrixTypeOK
<1>3. Past' = Past /\ Seen' = Seen /\ Handled' = Handled /\ SeenBefore' = SeenBefore
  BY <1>1 DEF Past, Seen, Handled, SeenBefore
<1>4. MatrixTypeOK'
  BY <1>1, <1>2 DEF MatrixTypeOK, Steps
<1>5. DiskInv' /\ \A x \in AllItems : File(x)' = File(x)
  BY <1>1, SameFiles
<1>6. WorkInv'
  BY <1>1, <1>2, <1>3 DEF WorkInv
<1>7. KeptInv'
  BY <1>1, <1>2, <1>3 DEF KeptInv, File
<1>8. ReportsInv'
  BY <1>1, <1>2, <1>3 DEF ReportsInv, Reported, File
<1>9. FetchInv'
  BY <1>1, <1>2, <1>3 DEF FetchInv
<1> QED
  BY <1>4, <1>5, <1>6, <1>7, <1>8, <1>9 DEF MatrixInv

(* Every step.                                                             *)
LEMMA MatrixSteps == ASSUME MatrixAssumption, MatrixInv, [MatrixNext]_matrixVars PROVE MatrixInv'
<1>1. CASE UNCHANGED matrixVars
  <2>1. Past' = Past /\ Seen' = Seen /\ Handled' = Handled /\ SeenBefore' = SeenBefore /\ Needed' = Needed
    BY <1>1 DEF Past, Seen, Handled, SeenBefore, Needed, matrixVars
  <2>2. DiskInv' /\ \A x \in AllItems : File(x)' = File(x)
    BY <1>1, SameFiles DEF matrixVars
  <2>3. MatrixTypeOK'
    BY <1>1 DEF MatrixInv, MatrixTypeOK, matrixVars
  <2>4. args # None => WorkInv' /\ FetchInv'
    BY <1>1, <2>1 DEF MatrixInv, WorkInv, FetchInv, matrixVars
  <2>5. args # None => KeptInv' /\ ReportsInv'
    BY <1>1, <2>1 DEF MatrixInv, KeptInv, ReportsInv, Reported, File, matrixVars
  <2> QED
    BY <1>1, <2>2, <2>3, <2>4, <2>5 DEF MatrixInv, matrixVars
<1>2. CASE StartAttempt
  BY <1>2, StartAttemptStep
<1>3. CASE Choose
  BY <1>3, ChooseStep
<1>4. CASE FetchSource
  BY <1>4, SourceStep
<1>5. CASE FetchFails
  BY <1>5, GiveUpStep
<1>6. CASE Truncate
  BY <1>6, TruncateStep
<1>7. CASE Dump
  BY <1>7, DumpStep
<1>8. CASE Empty
  BY <1>8, EmptyStep
<1>9. CASE PairDone
  BY <1>9, PairDoneStep
<1>10. CASE Summarize \/ Kill
  BY <1>10, SummaryStep
<1> QED
  BY <1>1, <1>2, <1>3, <1>4, <1>5, <1>6, <1>7, <1>8, <1>9, <1>10 DEF MatrixNext

(* What the invariant says of an attempt that has finished: every report   *)
(* is a fresh one, or one --resume kept.                                     *)
LEMMA FreshHolds == ASSUME MatrixAssumption, MatrixInv PROVE LikeFresh
<1> SUFFICES ASSUME step = "finished", failures = {}, NEW x \in AllItems
             PROVE  \/ File(x) = Report(x, args)
                    \/ args.resume /\ File(x).span[1] \in spans \ {args.dates} /\ File(x).seed = args.seed
  BY DEF LikeFresh, Finished, File
<1>1. args # None /\ args \in Arguments /\ MatrixTypeOK /\ DiskInv /\ WorkInv /\ ReportsInv
  BY DEF MatrixInv, MatrixTypeOK
<1>2. pair = None /\ pairs = {} /\ todo = {}
  BY <1>1 DEF WorkInv
<1>3. Handled = AllItems
  BY <1>2 DEF Handled, Seen, Past, ItemsOf, AllItems
<1>4. Reported(x)
  BY <1>1, <1>3 DEF ReportsInv
<1>5. CASE File(x) # Report(x, args)
  <2>1. args.resume /\ ValidReport(File(x), x, args)
    BY <1>4, <1>5 DEF Reported
  <2>2. PICK a \in Arguments : File(x) = Report(x, a) /\ a.dates \in spans \cup {args.dates}
    BY <1>1, <2>1 DEF DiskInv, ValidReport
  <2>3. File(x).seed = args.seed /\ File(x).seed = a.seed /\ File(x).span[1] = a.dates
    BY <2>1, <2>2 DEF ValidReport, Report
  <2>4. a.dates # args.dates
    BY <1>5, <2>2, <2>3 DEF Report
  <2> QED
    BY <2>1, <2>2, <2>3, <2>4
<1> QED
  BY <1>5

(* The summary: its reports are on disk, one for every item that has not   *)
(* failed.                                                                 *)
LEMMA SummaryHolds == ASSUME MatrixAssumption, MatrixInv PROVE SummaryTrue
<1> SUFFICES ASSUME step = "finished"
             PROVE  /\ summary = reports /\ reports \subseteq {disk[n] : n \in DOMAIN disk}
                    /\ args.resume => reports = {File(x) : x \in ValidItems(args)}
                    /\ done = Total /\ Cardinality(reports) + Cardinality(failures) = Total
  BY DEF SummaryTrue, Finished, File
<1>1. args # None /\ args \in Arguments /\ MatrixTypeOK /\ WorkInv /\ KeptInv /\ ReportsInv
  BY DEF MatrixInv, MatrixTypeOK
<1>2. summary = reports /\ pairs = {} /\ todo = {}
  BY <1>1 DEF WorkInv
<1>3. Handled = AllItems
  BY <1>2 DEF Handled, Seen, Past, ItemsOf, AllItems
<1> DEFINE S == AllItems \ failures
           f == [x \in S |-> File(x)]
<1>4. failures \subseteq AllItems /\ reports = {File(x) : x \in S} /\ \A x \in S : ValidReport(File(x), x, args)
  BY <1>1, <1>3 DEF ReportsInv, Reported
<1>5. reports \subseteq {disk[n] : n \in DOMAIN disk}
  BY <1>1, <1>4 DEF File, MatrixTypeOK
<1>6. args.resume => S = ValidItems(args)
  BY <1>1, <1>4 DEF KeptInv, ValidItems, File
<1>7. done = Total
  <2>1. Cardinality(AllItems) \in Nat
    BY FiniteItems, FS_CardinalityType
  <2> QED
    BY <1>1, <1>3, <2>1 DEF ReportsInv, Total
<1>8. IsFiniteSet(S) /\ IsFiniteSet(failures)
  BY <1>4, FiniteItems, FS_Subset
<1>9. Cardinality(reports) = Cardinality(S)
  <2>1. f = [x \in S |-> f[x]] /\ reports = {f[x] : x \in S}
    BY <1>4
  <2>2. \A x, y \in S : f[x] = f[y] => x = y
    <3> SUFFICES ASSUME NEW x \in S, NEW y \in S, File(x) = File(y) PROVE x = y
      OBVIOUS
    <3>1. ValidReport(File(x), x, args) /\ ValidReport(File(x), y, args)
      BY <1>4
    <3> QED
      BY <3>1, ItemsApart DEF ValidReport
  <2> HIDE DEF f, S
  <2> QED
    BY <1>8, <2>1, <2>2, Mapped
<1>10. Cardinality(S) + Cardinality(failures) = Total
  <2>1. S \cup failures = AllItems /\ \A x \in S : x \notin failures
    BY <1>4
  <2> HIDE DEF S
  <2> QED
    BY <1>8, <2>1, Together DEF Total
<1> HIDE DEF f, S
<1> QED
  BY <1>2, <1>4, <1>5, <1>6, <1>7, <1>9, <1>10

(* What was valid is, and what was fetched some missing report needed.     *)
LEMMA NothingIsLost == ASSUME MatrixAssumption, MatrixInv PROVE NothingLost
<1> SUFFICES ASSUME args # None, args.resume
             PROVE  /\ intact \subseteq ValidItems(args)
                    /\ failures = {} => requests <= Cardinality(FetchesFor(AllItems \ intact))
  BY DEF NothingLost, FetchesFor
<1>1. MatrixTypeOK /\ WorkInv /\ KeptInv /\ ReportsInv /\ FetchInv
  BY DEF MatrixInv
<1>2. intact \subseteq ValidItems(args)
  BY <1>1 DEF KeptInv, ValidItems, File, MatrixTypeOK
<1>3. ASSUME failures = {}, pair # None PROVE requests <= Cardinality(FetchesFor(AllItems \ intact))
  <2> DEFINE P == Past \ {pair}
  <2>1. P \in SUBSET Pairs /\ pair \in Pairs /\ pair \notin P
    BY <1>1, <1>3, AtWork
  <2>2. sources \in SUBSET SourcesFor(Items(pair) \ intact) /\ requests = Cardinality(FetchesFor(ItemsOf(P) \ intact)) + Cardinality(sources)
    BY <1>1, <1>3 DEF FetchInv, SeenBefore
  <2> HIDE DEF P
  <2> QED
    BY <2>1, <2>2, FetchGrows
<1>4. ASSUME failures = {}, pair = None PROVE requests <= Cardinality(FetchesFor(AllItems \ intact))
  <2>1. sources = {} /\ SeenBefore = Seen /\ Seen \subseteq AllItems
    BY <1>1, <1>4, AtWork DEF WorkInv
  <2>2. requests = Cardinality(FetchesFor(Seen \ intact)) + Cardinality({}) /\ requests \in Nat
    BY <1>1, <1>4, <2>1 DEF FetchInv, MatrixTypeOK
  <2> DEFINE g == [x \in AllItems \ intact |-> FetchFor(x)]
             all == FetchesFor(AllItems \ intact)
             old == FetchesFor(Seen \ intact)
  <2>3. IsFiniteSet(all)
    <3>1. g = [x \in AllItems \ intact |-> g[x]] /\ all = {g[x] : x \in AllItems \ intact}
      BY DEF FetchesFor
    <3>2. IsFiniteSet(AllItems \ intact)
      BY FiniteItems, FS_Subset
    <3> HIDE DEF g, all
    <3> QED
      BY <3>1, <3>2, FiniteValues
  <2>4. old \subseteq all
    BY <2>1 DEF FetchesFor
  <2> HIDE DEF g, all, old
  <2>5. Cardinality(old) <= Cardinality(all) /\ Cardinality(old) \in Nat
    BY <2>3, <2>4, FS_Subset, FS_CardinalityType
  <2>6. Cardinality({}) = 0
    BY FS_EmptySet
  <2> QED
    BY <2>2, <2>5, <2>6 DEF all, old
<1> QED
  BY <1>2, <1>3, <1>4

(* The matrix keeps its promises.                                          *)
THEOREM MatrixIsSound == ASSUME MatrixAssumption PROVE MatrixSpec => []MatrixSound
<1>1. MatrixInit => MatrixInv
  BY MatrixStarts
<1>2. MatrixInv /\ [MatrixNext]_matrixVars => MatrixInv'
  BY MatrixSteps
<1>3. MatrixInv => MatrixSound
  BY FreshHolds, SummaryHolds, NothingIsLost DEF MatrixSound
<1> QED
  BY <1>1, <1>2, <1>3, PTL DEF MatrixSpec
=================================================================================
