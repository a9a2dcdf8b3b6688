------------------------- MODULE AlertStateStore_proofs -------------------------
(***************************************************************************)
(* Safety of the alert-state store for any set of alerts, subjects and     *)
(* runners, any number of attempts and any number of restarts.             *)
(*                                                                         *)
(* None of the properties is inductive by itself.  IInv adds what relates  *)
(* the parts: the sealed history to the log, the cache (and the snapshot)  *)
(* to the history, what a runner has read to what it may still do with it, *)
(* and how far a restore has come to what it has written.                  *)
(*                                                                         *)
(* Two properties need more: ReplayInv carries the fold behind Replay      *)
(* along with the log, one alert per step, and CountInv says which         *)
(* accepted alerts a runner's failed commits are owed to.                  *)
(***************************************************************************)
EXTENDS AlertStateStore, FiniteSetTheorems, TLAPS

ValidStates(f) == \A s \in Subject : f[s] # None => ValidSubjectState(s, f[s])

(* The sealed state against the log it summarises.                         *)
HistoryInv ==
    /\ sealed.seen = Log!Accepted
    /\ \A s \in Subject :
         /\ sealed.subjects[s] # None <=> \E a \in Log!Accepted : SubjectOf[a] = s
         /\ IsTerminal(sealed.subjects[s]) <=> Log!Closed(s)
    /\ ValidStates(sealed.subjects)

(* A cache never knows more than the history; while live it knows all.     *)
Within(state) ==
    /\ state.seen \subseteq sealed.seen
    /\ \A s \in Subject : state.subjects[s] # None => sealed.subjects[s] # None
    /\ ValidStates(state.subjects)

CacheInv ==
    /\ Within([seen |-> seen, subjects |-> subjects])
    /\ Within(snapshot)
    /\ CacheMatchesHistory

(* What a runner holds.                                                    *)
RunnerOK(r) ==
    /\ phase # "live" => pc[r] \in {"idle", "done"}
    /\ pc[r] # "idle" => alert[r] \in Alert
    /\ result[r] # None => pc[r] = "done"
    /\ sawSeen[r] => pc[r] # "idle" /\ alert[r] \in Log!Accepted
    /\ raw[r] # None => pc[r] = "commit" /\ ValidSubjectState(Key(r), raw[r])
    /\ ~IsTerminal(raw[r])
    /\ failed[r] > 0 => pc[r] # "idle"
    /\ pc[r] \in {"exists", "get", "commit"} => failed[r] < MaxAttempts

RunnerInv == \A r \in Runner : RunnerOK(r)

(* How far a restore has come.                                             *)
RestoreInv ==
    /\ phase = "checking" => /\ toCheck \subseteq Replayed
                             /\ toWrite = Replayed /\ toMark = sealed.seen
                             /\ \A s \in Replayed \ toCheck : ~Disagrees(s)
    /\ phase = "writing" => /\ toWrite \subseteq Replayed /\ toMark = sealed.seen
                            /\ \A s \in toWrite : ~Disagrees(s)
                            /\ \A s \in Subject \ toWrite : subjects[s] = sealed.subjects[s]
    /\ phase = "marking" => /\ subjects = sealed.subjects /\ toMark \subseteq sealed.seen
                            /\ sealed.seen \ toMark \subseteq seen

IInv == TypeOK /\ HistoryInv /\ CacheInv /\ RunnerInv /\ DecisionsJustified /\ RestoreInv

-------------------------------------------------------------------------------
(* The pure layer                                                          *)

(* An accepted alert leaves a state that can be read back, terminal exactly*)
(* if it was before or the alert is an invalidation.                       *)
LEMMA NextStateValid ==
    ASSUME NEW a \in Alert, NEW p \in SubjectState \cup {None},
           p # None => ValidSubjectState(SubjectOf[a], p)
    PROVE  /\ NextState(a, p) # None
           /\ ValidSubjectState(SubjectOf[a], NextState(a, p))
           /\ IsTerminal(NextState(a, p))
                <=> IsTerminal(p) \/ CodeOf[a] = "setup_invalidated"
<1>1. NextState(a, p) \in SubjectState
  BY AlertsAreSealed, NoneIsFresh DEF NextState, SubjectState, Fresh, Code
<1>2. /\ NextState(a, p).terminal
           <=> IsTerminal(p) \/ CodeOf[a] = "setup_invalidated"
      /\ NextState(a, p).terminal_alert_id
           = IF CodeOf[a] = "setup_invalidated" THEN a
             ELSE IF p = None THEN None ELSE p.terminal_alert_id
      /\ NextState(a, p).current_pattern
           = IF CodeOf[a] = "market_pattern_changed" THEN PatternOf[a]
             ELSE IF p = None THEN None ELSE p.current_pattern
  BY DEF NextState, Fresh, IsTerminal, SubjectState
<1>3. NextState(a, p).terminal <=> NextState(a, p).terminal_alert_id # None
  BY <1>2, NoneIsFresh DEF ValidSubjectState, IsTerminal
<1>4. NextState(a, p).terminal => SubjectOf[a] \in Setup
  BY <1>2, AlertsAreSealed DEF ValidSubjectState, IsTerminal
<1>5. NextState(a, p).current_pattern # None => SubjectOf[a] \notin Setup
  BY <1>2, AlertsAreSealed DEF ValidSubjectState
<1> QED
  BY <1>1, <1>2, <1>3, <1>4, <1>5, NoStateIsFresh DEF ValidSubjectState, IsTerminal

(* Appending to the log adds one accepted alert.                           *)
LEMMA AcceptedAppend ==
    ASSUME NEW a \in Alert, log \in Seq(Alert), log' = Append(log, a)
    PROVE  /\ log' \in Seq(Alert)
           /\ Log!Accepted' = Log!Accepted \cup {a}
<1>1. log' \in Seq(Alert) /\ Len(log') = Len(log) + 1
  OBVIOUS
<1>2. /\ DOMAIN log = 1 .. Len(log) /\ DOMAIN log' = 1 .. Len(log) + 1
      /\ \A i \in 1 .. Len(log) : log'[i] = log[i]
      /\ log'[Len(log) + 1] = a
  BY <1>1
<1> QED
  BY <1>1, <1>2 DEF Log!Accepted

-------------------------------------------------------------------------------
(* The commit script                                                       *)

(* A commit that the script grants appends an acceptable alert to the log  *)
(* and moves cache and sealed history together.                            *)
LEMMA GrantedCommit ==
    ASSUME IInv, NEW r \in Runner, pc[r] = "commit", CommitReply(r) = 1, CommitEffect(r)
    PROVE  /\ phase = "live"
           /\ Log!Acceptable(alert[r]) /\ log' = Append(log, alert[r])
           /\ log' \in Seq(Alert)
           /\ seen' = sealed'.seen /\ subjects' = sealed'.subjects
           /\ sealed' \in RedisState
           /\ sealed'.seen = sealed.seen \cup {alert[r]}
           /\ \A s \in Subject : sealed.subjects[s] # None => sealed'.subjects[s] # None
           /\ HistoryInv'
<1> DEFINE a == alert[r]
           k == SubjectOf[alert[r]]
           n == NextState(a, raw[r])
<1>1. /\ phase = "live" /\ a \in Alert /\ k \in Subject
      /\ raw[r] \in SubjectState \cup {None}
      /\ raw[r] # None => ValidSubjectState(k, raw[r])
      /\ ~IsTerminal(raw[r])
  BY AlertsAreSealed DEF IInv, RunnerInv, RunnerOK, TypeOK, Key
<1>2. /\ seen = sealed.seen /\ subjects = sealed.subjects
      /\ a \notin seen /\ subjects[k] = raw[r]
  BY <1>1 DEF IInv, CacheInv, CacheMatchesHistory, CommitReply, Key
<1>3. /\ seen' = seen \cup {a} /\ subjects' = [subjects EXCEPT ![k] = n]
      /\ log' = Append(log, a)
      /\ sealed' = ReplayStep(sealed, a)
  BY DEF CommitEffect, Key
<1>4. /\ sealed \in RedisState
      /\ sealed' = [seen     |-> sealed.seen \cup {a},
                    subjects |-> [sealed.subjects EXCEPT ![k] = n]]
  <2>1. sealed \in RedisState
    BY DEF IInv, TypeOK
  <2>2. Decide(a, sealed.subjects[k], a \in sealed.seen) = "new"
    BY <1>1, <1>2 DEF Decide
  <2>3. sealed' = [seen     |-> sealed.seen \cup {a},
                   subjects |-> [sealed.subjects EXCEPT ![k] = NextState(a, sealed.subjects[k])]]
    BY <1>3, <2>2 DEF ReplayStep
  <2> QED
    BY <1>2, <2>1, <2>3
<1>5. /\ n # None /\ ValidSubjectState(k, n) /\ n \in SubjectState
      /\ IsTerminal(n) <=> CodeOf[a] = "setup_invalidated"
  BY <1>1, NextStateValid DEF ValidSubjectState
<1>6. sealed'.seen = sealed.seen \cup {a} /\ seen' = sealed'.seen
  BY <1>2, <1>3, <1>4
<1>7. /\ sealed'.subjects = [sealed.subjects EXCEPT ![k] = n]
      /\ subjects' = sealed'.subjects
      /\ sealed'.subjects[k] = n
      /\ \A s \in Subject \ {k} : sealed'.subjects[s] = sealed.subjects[s]
      /\ sealed' \in RedisState
  BY <1>1, <1>2, <1>3, <1>4, <1>5 DEF RedisState
<1>8. log' \in Seq(Alert) /\ Log!Accepted' = Log!Accepted \cup {a}
  BY <1>1, <1>3, AcceptedAppend DEF IInv, TypeOK
<1>9. Log!Acceptable(a)
  BY <1>1, <1>2 DEF IInv, HistoryInv, Log!Acceptable
<1>10. HistoryInv'
  <2>1. (sealed.seen = Log!Accepted)'
    BY <1>6, <1>8 DEF IInv, HistoryInv
  <2>2. \A s \in Subject : (sealed.subjects[s] # None <=> \E b \in Log!Accepted : SubjectOf[b] = s)'
    BY <1>5, <1>7, <1>8 DEF IInv, HistoryInv
  <2>3. ASSUME NEW s \in Subject
        PROVE  (IsTerminal(sealed.subjects[s]) <=> Log!Closed(s))'
    <3>1. Log!Closed(s)' <=> Log!Closed(s) \/ (s = k /\ CodeOf[a] = "setup_invalidated")
      BY <1>8 DEF Log!Closed
    <3>2. CASE s = k
      <4>1. ~Log!Closed(k)
        BY <1>1, <1>2 DEF IInv, HistoryInv
      <4> QED
        BY <1>5, <1>7, <3>1, <3>2, <4>1
    <3>3. CASE s # k
      BY <1>7, <3>1, <3>3 DEF IInv, HistoryInv, IsTerminal
    <3> QED
      BY <3>2, <3>3
  <2>4. ValidStates(sealed.subjects)'
    BY <1>5, <1>7 DEF IInv, HistoryInv, ValidStates
  <2> QED
    BY <2>1, <2>2, <2>3, <2>4 DEF HistoryInv
<1> QED
  BY <1>1, <1>3, <1>4, <1>5, <1>6, <1>7, <1>8, <1>9, <1>10

(* A commit that the script refuses changes nothing.                       *)
LEMMA RefusedCommit ==
    ASSUME NEW r, CommitReply(r) # 1, CommitEffect(r)
    PROVE  UNCHANGED <<redis, history>>
BY DEF CommitEffect

(* Either way, cache and history stay in step and nothing accepted is lost.*)
LEMMA CommitKeepsStore ==
    ASSUME IInv, NEW r \in Runner, pc[r] = "commit", CommitEffect(r),
           UNCHANGED <<snapshot, phase>>
    PROVE  /\ phase = "live"
           /\ HistoryInv' /\ CacheInv'
           /\ log' \in Seq(Alert)
           /\ [seen |-> seen, subjects |-> subjects]' \in RedisState
           /\ sealed' \in RedisState
           /\ Log!Accepted \subseteq Log!Accepted'
           /\ \A s \in Subject : Log!Closed(s) => Log!Closed(s)'
           /\ CommitReply(r) = 1 => alert[r] \in Log!Accepted'
<1>1. CASE CommitReply(r) = 1
  <2>1. /\ phase = "live"
        /\ log' = Append(log, alert[r]) /\ log' \in Seq(Alert)
        /\ seen' = sealed'.seen /\ subjects' = sealed'.subjects
        /\ sealed' \in RedisState
        /\ sealed'.seen = sealed.seen \cup {alert[r]}
        /\ \A s \in Subject : sealed.subjects[s] # None => sealed'.subjects[s] # None
        /\ HistoryInv'
    BY <1>1, GrantedCommit
  <2>2. alert[r] \in Alert
    BY DEF IInv, RunnerInv, RunnerOK
  <2>3. Log!Accepted' = Log!Accepted \cup {alert[r]}
    BY <2>1, <2>2, AcceptedAppend DEF IInv, TypeOK
  <2>4. \A s \in Subject : Log!Closed(s) => Log!Closed(s)'
    BY <2>3 DEF Log!Closed
  <2>5. Within([seen |-> seen, subjects |-> subjects])'
    BY <2>1 DEF Within, HistoryInv, ValidStates
  <2>6. Within(snapshot)'
    BY <2>1 DEF Within, IInv, CacheInv, ValidStates
  <2>7. CacheInv'
    BY <2>1, <2>5, <2>6 DEF CacheInv, CacheMatchesHistory
  <2>8. [seen |-> seen, subjects |-> subjects]' \in RedisState
    BY <2>1 DEF RedisState
  <2> QED
    BY <2>1, <2>3, <2>4, <2>7, <2>8
<1>2. CASE CommitReply(r) # 1
  <2>1. /\ UNCHANGED <<seen, subjects, log, sealed, snapshot, phase>>
        /\ phase = "live"
    BY <1>2, RefusedCommit DEF redis, history, IInv, RunnerInv, RunnerOK
  <2>2. Log!Accepted' = Log!Accepted /\ \A s \in Subject : Log!Closed(s)' <=> Log!Closed(s)
    BY <2>1 DEF Log!Accepted, Log!Closed
  <2>3. HistoryInv'
    BY <2>1, <2>2 DEF IInv, HistoryInv, ValidStates
  <2>4. CacheInv'
    BY <2>1 DEF IInv, CacheInv, CacheMatchesHistory, Within, ValidStates
  <2>5. /\ log' \in Seq(Alert) /\ sealed' \in RedisState
        /\ [seen |-> seen, subjects |-> subjects]' \in RedisState
    BY <2>1 DEF IInv, TypeOK
  <2> QED
    BY <1>2, <2>1, <2>2, <2>3, <2>4, <2>5
<1> QED
  BY <1>1, <1>2

-------------------------------------------------------------------------------
(* Steps of one runner                                                     *)

(* A step that leaves Redis, the history and the recovery alone.           *)
LEMMA LocalStep ==
    ASSUME IInv, UNCHANGED <<redis, snapshot, history, recovery>>
    PROVE  /\ HistoryInv' /\ CacheInv' /\ RestoreInv'
           /\ Log!Accepted' = Log!Accepted
           /\ \A s \in Subject : Log!Closed(s)' <=> Log!Closed(s)
<1>1. UNCHANGED <<seen, subjects, log, sealed, snapshot, phase, toCheck, toWrite, toMark>>
  BY DEF redis, history, recovery
<1>2. Log!Accepted' = Log!Accepted /\ \A s \in Subject : Log!Closed(s)' <=> Log!Closed(s)
  BY <1>1 DEF Log!Accepted, Log!Closed
<1>3. HistoryInv'
  BY <1>1, <1>2 DEF IInv, HistoryInv, ValidStates
<1>4. CacheInv'
  BY <1>1 DEF IInv, CacheInv, CacheMatchesHistory, Within, ValidStates
<1>5. RestoreInv'
  BY <1>1 DEF IInv, RestoreInv, Replayed, Disagrees
<1> QED
  BY <1>2, <1>3, <1>4, <1>5

(* A runner that does not move keeps what it holds while the history grows.*)
LEMMA OthersKept ==
    ASSUME IInv, NEW r \in Runner, phase' = phase \/ phase' = "live" \/ pc[r] \in {"idle", "done"},
           pc'[r] = pc[r], alert'[r] = alert[r], sawSeen'[r] = sawSeen[r],
           raw'[r] = raw[r], failed'[r] = failed[r], result'[r] = result[r],
           Log!Accepted \subseteq Log!Accepted',
           \A s \in Subject : Log!Closed(s) => Log!Closed(s)'
    PROVE  RunnerOK(r)' /\ Justified(r)'
<1>1. RunnerOK(r) /\ Justified(r)
  BY DEF IInv, RunnerInv, DecisionsJustified
<1>2. RunnerOK(r)'
  BY <1>1 DEF RunnerOK, Key
<1>3. CASE result[r] = None
  BY <1>2, <1>3, NoneIsNoOutcome DEF Justified, Outcome
<1>4. CASE result[r] # None
  <2>1. alert[r] \in Alert /\ Key(r) \in Subject /\ Key(r)' = Key(r)
    BY <1>1, <1>4, AlertsAreSealed DEF RunnerOK, Key
  <2> QED
    BY <1>1, <1>2, <2>1 DEF Justified
<1> QED
  BY <1>3, <1>4

(* A call of record() begins with nothing read.                            *)
LEMMA RecordInv ==
    ASSUME IInv, NEW r \in Runner, NEW a \in Alert, Record(r, a)
    PROVE  IInv'
<1>1. /\ HistoryInv' /\ CacheInv' /\ RestoreInv' /\ Log!Accepted' = Log!Accepted
      /\ \A s \in Subject : Log!Closed(s)' <=> Log!Closed(s)
  BY LocalStep DEF Record
<1>2. TypeOK'
  BY DEF IInv, TypeOK, Record, redis, history, recovery
<1>3. RunnerOK(r)' /\ Justified(r)'
  <2>1. result[r] = None /\ ~sawSeen[r] /\ raw[r] = None /\ failed[r] = 0
    BY BoundsAssumption DEF IInv, RunnerInv, RunnerOK, TypeOK, Record
  <2> QED
    BY <2>1, BoundsAssumption, NoneIsNoOutcome
    DEF IInv, TypeOK, Record, recovery, RunnerOK, Justified, Outcome, IsTerminal
<1>4. ASSUME NEW q \in Runner, q # r
      PROVE  RunnerOK(q)' /\ Justified(q)'
  BY <1>1, <1>4, OthersKept DEF Record, recovery, IInv, TypeOK
<1> QED
  BY <1>1, <1>2, <1>3, <1>4 DEF IInv, RunnerInv, DecisionsJustified

(* Reading the seen marker: a marker that is there belongs to an accepted  *)
(* alert.                                                                  *)
LEMMA ReadSeenInv ==
    ASSUME IInv, NEW r \in Runner, ReadSeen(r)
    PROVE  IInv'
<1>1. /\ HistoryInv' /\ CacheInv' /\ RestoreInv' /\ Log!Accepted' = Log!Accepted
      /\ \A s \in Subject : Log!Closed(s)' <=> Log!Closed(s)
  BY LocalStep DEF ReadSeen
<1>2. RunnerOK(r) /\ Justified(r) /\ TypeOK
  BY DEF IInv, RunnerInv, DecisionsJustified
<1>3. TypeOK'
  BY <1>2, BoundsAssumption DEF TypeOK, ReadSeen, Return, Outcome, redis, history, recovery
<1>4. RunnerOK(r)' /\ Justified(r)'
  <2>1. alert[r] \in Alert /\ result[r] = None /\ seen \subseteq Log!Accepted
    BY <1>2 DEF IInv, RunnerOK, HistoryInv, CacheInv, Within, ReadSeen
  <2> QED
    BY <1>1, <1>2, <2>1, NoneIsNoOutcome
    DEF TypeOK, ReadSeen, recovery, RunnerOK, Justified, Outcome, Key, IsTerminal
<1>5. ASSUME NEW q \in Runner, q # r
      PROVE  RunnerOK(q)' /\ Justified(q)'
  BY <1>1, <1>2, <1>5, OthersKept DEF ReadSeen, Return, recovery, TypeOK
<1> QED
  BY <1>1, <1>3, <1>4, <1>5 DEF IInv, RunnerInv, DecisionsJustified

(* Reading the subject and deciding: a refusal is justified by the history,*)
(* and only a state that is not terminal is carried to the commit.         *)
LEMMA ReadSubjectInv ==
    ASSUME IInv, NEW r \in Runner, ReadSubject(r)
    PROVE  IInv'
<1>1. /\ HistoryInv' /\ CacheInv' /\ RestoreInv' /\ Log!Accepted' = Log!Accepted
      /\ \A s \in Subject : Log!Closed(s)' <=> Log!Closed(s)
  BY LocalStep DEF ReadSubject
<1>2. RunnerOK(r) /\ Justified(r) /\ TypeOK
  BY DEF IInv, RunnerInv, DecisionsJustified
<1>3. TypeOK'
  <2>1. SubjectOf[alert[r]] \in Subject
    BY <1>2, AlertsAreSealed DEF RunnerOK, ReadSubject
  <2>2. /\ subjects[Key(r)] \in SubjectState \cup {None}
        /\ Decide(alert[r], subjects[Key(r)], sawSeen[r]) \in Outcome
    BY <1>2, <2>1 DEF TypeOK, RedisState, Key, Decide, Outcome
  <2> DEFINE class == Decide(alert[r], subjects[Key(r)], sawSeen[r])
  <2>3. UNCHANGED <<alert, failed, redis, snapshot, history, recovery>>
    BY DEF ReadSubject, Return
  <2>4. /\ pc' \in [Runner -> {"idle", "exists", "get", "commit", "done"}]
        /\ raw' \in [Runner -> SubjectState \cup {None}]
        /\ sawSeen' \in [Runner -> BOOLEAN] /\ result' \in [Runner -> Outcome \cup {None}]
    <3>1. CASE class # "new"
      <4>1. /\ pc' = [pc EXCEPT ![r] = "done"] /\ raw' = [raw EXCEPT ![r] = None]
            /\ sawSeen' = [sawSeen EXCEPT ![r] = FALSE] /\ result' = [result EXCEPT ![r] = class]
        BY <3>1 DEF ReadSubject, Return
      <4> QED
        BY <1>2, <2>2, <4>1 DEF TypeOK
    <3>2. CASE class = "new"
      <4>1. /\ pc' = [pc EXCEPT ![r] = "commit"] /\ raw' = [raw EXCEPT ![r] = subjects[Key(r)]]
            /\ UNCHANGED <<sawSeen, result>>
        BY <3>2 DEF ReadSubject, Return
      <4> QED
        BY <1>2, <2>2, <4>1 DEF TypeOK
    <3> QED
      BY <3>1, <3>2
  <2> QED
    BY <1>2, <2>3, <2>4 DEF TypeOK, redis, history, recovery
<1>4. RunnerOK(r)' /\ Justified(r)'
  <2> DEFINE state == subjects[Key(r)]
             class == Decide(alert[r], state, sawSeen[r])
  <2>1. /\ alert[r] \in Alert /\ Key(r) \in Subject /\ Key(r)' = Key(r)
        /\ phase = "live" /\ phase' = "live" /\ pc[r] = "get" /\ failed'[r] = failed[r]
        /\ alert'[r] = alert[r] /\ raw[r] = None /\ result[r] = None /\ failed[r] < MaxAttempts
    BY <1>2, AlertsAreSealed DEF RunnerOK, ReadSubject, Return, recovery, Key
  <2>2. /\ state # None => ValidSubjectState(Key(r), state)
        /\ IsTerminal(state) => Log!Closed(Key(r))
    BY <1>2, <2>1 DEF TypeOK, IInv, HistoryInv, CacheInv, CacheMatchesHistory
  <2>3. CASE class # "new"
    <3>1. /\ pc'[r] = "done" /\ result'[r] = class /\ sawSeen'[r] = FALSE /\ raw'[r] = None
      BY <1>2, <2>3 DEF ReadSubject, Return, TypeOK
    <3>2. /\ class = "duplicate" => alert[r] \in Log!Accepted
          /\ class = "terminal_suppressed" => Log!Closed(Key(r))
      BY <1>2, <2>2 DEF Decide, RunnerOK
    <3> HIDE DEF class
    <3> QED
      BY <1>1, <2>1, <2>3, <3>1, <3>2 DEF RunnerOK, Justified, IsTerminal
  <2>4. CASE class = "new"
    <3>1. pc'[r] = "commit" /\ raw'[r] = state /\ result'[r] = None /\ sawSeen'[r] = sawSeen[r]
      BY <1>2, <2>1, <2>4 DEF ReadSubject, Return, TypeOK
    <3>2. ~IsTerminal(state)
      BY <2>4 DEF Decide
    <3> QED
      BY <1>1, <1>2, <2>1, <2>2, <3>1, <3>2, NoneIsNoOutcome DEF RunnerOK, Justified, Outcome
  <2> QED
    BY <2>3, <2>4
<1>5. ASSUME NEW q \in Runner, q # r
      PROVE  RunnerOK(q)' /\ Justified(q)'
  BY <1>1, <1>2, <1>5, OthersKept DEF ReadSubject, Return, recovery, TypeOK
<1> QED
  BY <1>1, <1>3, <1>4, <1>5 DEF IInv, RunnerInv, DecisionsJustified

LEMMA RedisFailsInv ==
    ASSUME IInv, NEW r \in Runner, RedisFails(r)
    PROVE  IInv'
<1>1. /\ HistoryInv' /\ CacheInv' /\ RestoreInv' /\ Log!Accepted' = Log!Accepted
      /\ \A s \in Subject : Log!Closed(s)' <=> Log!Closed(s)
  BY LocalStep DEF RedisFails
<1>2. RunnerOK(r) /\ Justified(r) /\ TypeOK
  BY DEF IInv, RunnerInv, DecisionsJustified
<1>3. TypeOK'
  BY <1>2, BoundsAssumption DEF TypeOK, RedisFails, Return, Outcome, redis, history, recovery
<1>4. RunnerOK(r)' /\ Justified(r)'
  BY <1>1, <1>2 DEF TypeOK, RedisFails, Return, recovery, RunnerOK, Justified, Key, IsTerminal
<1>5. ASSUME NEW q \in Runner, q # r
      PROVE  RunnerOK(q)' /\ Justified(q)'
  BY <1>1, <1>2, <1>5, OthersKept DEF RedisFails, Return, recovery, TypeOK
<1> QED
  BY <1>1, <1>3, <1>4, <1>5 DEF IInv, RunnerInv, DecisionsJustified

(* A process that exits leaves nothing behind but the history.             *)
LEMMA ExitInv ==
    ASSUME IInv, NEW r \in Runner, Exit(r)
    PROVE  IInv'
<1>1. /\ HistoryInv' /\ CacheInv' /\ RestoreInv' /\ Log!Accepted' = Log!Accepted
      /\ \A s \in Subject : Log!Closed(s)' <=> Log!Closed(s)
  BY LocalStep DEF Exit
<1>2. RunnerOK(r) /\ Justified(r) /\ TypeOK
  BY DEF IInv, RunnerInv, DecisionsJustified
<1>3. TypeOK'
  BY <1>2, BoundsAssumption DEF TypeOK, Exit, Return, Outcome, redis, history, recovery
<1>4. RunnerOK(r)' /\ Justified(r)'
  BY <1>1, <1>2, NoneIsNoOutcome DEF TypeOK, Exit, recovery, RunnerOK, Justified, Outcome, Key, IsTerminal
<1>5. ASSUME NEW q \in Runner, q # r
      PROVE  RunnerOK(q)' /\ Justified(q)'
  BY <1>1, <1>2, <1>5, OthersKept DEF Exit, Return, recovery, TypeOK
<1> QED
  BY <1>1, <1>3, <1>4, <1>5 DEF IInv, RunnerInv, DecisionsJustified

(* A commit, granted or refused, with its reply.                           *)
LEMMA CommitInv ==
    ASSUME IInv, NEW r \in Runner, Commit(r)
    PROVE  IInv'
<1>1. /\ pc[r] = "commit" /\ CommitEffect(r)
      /\ UNCHANGED <<snapshot, recovery>> /\ UNCHANGED <<snapshot, phase>>
  BY DEF Commit, recovery
<1>2. /\ phase = "live" /\ HistoryInv' /\ CacheInv'
      /\ log' \in Seq(Alert) /\ sealed' \in RedisState
      /\ [seen |-> seen, subjects |-> subjects]' \in RedisState
      /\ Log!Accepted \subseteq Log!Accepted'
      /\ \A s \in Subject : Log!Closed(s) => Log!Closed(s)'
      /\ CommitReply(r) = 1 => alert[r] \in Log!Accepted'
  BY <1>1, CommitKeepsStore
<1>3. RunnerOK(r) /\ Justified(r) /\ TypeOK
  BY DEF IInv, RunnerInv, DecisionsJustified
<1>4. TypeOK'
  <2>1. \A s \in Subject : subjects'[s] # None => ValidSubjectState(s, subjects'[s])
    BY <1>2 DEF CacheInv, Within, ValidStates
  <2>2. failed' \in [Runner -> 0 .. MaxAttempts]
    <3>1. failed[r] + 1 \in 0 .. MaxAttempts
      BY <1>1, <1>3, BoundsAssumption DEF TypeOK, RunnerOK
    <3> QED
      BY <1>3, <3>1 DEF TypeOK, Commit, AfterFailedCommit
  <2>3. /\ pc' \in [Runner -> {"idle", "exists", "get", "commit", "done"}]
        /\ alert' = alert
        /\ sawSeen' \in [Runner -> BOOLEAN]
        /\ raw' \in [Runner -> SubjectState \cup {None}]
        /\ result' \in [Runner -> Outcome \cup {None}]
    BY <1>3 DEF TypeOK, Commit, AfterFailedCommit, Return, Outcome
  <2> QED
    BY <1>1, <1>2, <1>3, <2>1, <2>2, <2>3 DEF TypeOK, recovery
<1>5. RestoreInv'
  BY <1>1, <1>2 DEF RestoreInv, recovery
<1>6. RunnerOK(r)' /\ Justified(r)'
  <2>1. CASE CommitReply(r) = 1
    BY <1>1, <1>2, <1>3, <2>1
    DEF TypeOK, Commit, Return, recovery, RunnerOK, Justified, Key, IsTerminal
  <2>2. CASE CommitReply(r) # 1 /\ failed[r] + 1 = MaxAttempts
    BY <1>1, <1>2, <1>3, <2>2
    DEF TypeOK, Commit, AfterFailedCommit, Return, recovery, RunnerOK, Justified, Key, IsTerminal
  <2>3. CASE CommitReply(r) # 1 /\ failed[r] + 1 # MaxAttempts
    <3>1. failed[r] + 1 < MaxAttempts /\ failed'[r] = failed[r] + 1 /\ result[r] = None
      BY <1>1, <1>3, <2>3, BoundsAssumption DEF TypeOK, Commit, AfterFailedCommit, RunnerOK
    <3> QED
      BY <1>1, <1>2, <1>3, <2>3, <3>1, NoneIsNoOutcome
      DEF TypeOK, Commit, AfterFailedCommit, recovery, RunnerOK, Justified, Outcome, Key, IsTerminal
  <2> QED
    BY <2>1, <2>2, <2>3
<1>7. ASSUME NEW q \in Runner, q # r
      PROVE  RunnerOK(q)' /\ Justified(q)'
  BY <1>1, <1>2, <1>3, <1>7, OthersKept
  DEF Commit, AfterFailedCommit, Return, recovery, locals, TypeOK
<1> QED
  BY <1>2, <1>4, <1>5, <1>6, <1>7 DEF IInv, RunnerInv, DecisionsJustified

(* A commit whose reply is lost keeps store and history in step all the same.*)
LEMMA CommitReplyLostInv ==
    ASSUME IInv, NEW r \in Runner, CommitReplyLost(r)
    PROVE  IInv'
<1>1. /\ pc[r] = "commit" /\ CommitEffect(r)
      /\ UNCHANGED <<snapshot, recovery>> /\ UNCHANGED <<snapshot, phase>>
  BY DEF CommitReplyLost, recovery
<1>2. /\ phase = "live" /\ HistoryInv' /\ CacheInv'
      /\ log' \in Seq(Alert) /\ sealed' \in RedisState
      /\ [seen |-> seen, subjects |-> subjects]' \in RedisState
      /\ Log!Accepted \subseteq Log!Accepted'
      /\ \A s \in Subject : Log!Closed(s) => Log!Closed(s)'
      /\ CommitReply(r) = 1 => alert[r] \in Log!Accepted'
  BY <1>1, CommitKeepsStore
<1>3. RunnerOK(r) /\ Justified(r) /\ TypeOK
  BY DEF IInv, RunnerInv, DecisionsJustified
<1>4. TypeOK'
  <2>1. \A s \in Subject : subjects'[s] # None => ValidSubjectState(s, subjects'[s])
    BY <1>2 DEF CacheInv, Within, ValidStates
  <2> QED
    BY <1>1, <1>2, <1>3, <2>1, BoundsAssumption
    DEF TypeOK, CommitReplyLost, AfterFailedCommit, Return, Outcome, recovery, locals, RunnerOK
<1>5. RestoreInv'
  BY <1>1, <1>2 DEF RestoreInv, recovery
<1>6. RunnerOK(r)' /\ Justified(r)'
  BY <1>1, <1>2, <1>3
  DEF TypeOK, CommitReplyLost, Return, recovery, RunnerOK, Justified, Key, IsTerminal
<1>7. ASSUME NEW q \in Runner, q # r
      PROVE  RunnerOK(q)' /\ Justified(q)'
  BY <1>1, <1>2, <1>3, <1>7, OthersKept
  DEF CommitReplyLost, AfterFailedCommit, Return, recovery, locals, TypeOK
<1> QED
  BY <1>2, <1>4, <1>5, <1>6, <1>7 DEF IInv, RunnerInv, DecisionsJustified

(* A commit that is applied and sent again.                                *)
LEMMA CommitResentInv ==
    ASSUME IInv, NEW r \in Runner, CommitResent(r)
    PROVE  IInv'
<1>1. /\ pc[r] = "commit" /\ CommitEffect(r)
      /\ UNCHANGED <<snapshot, recovery>> /\ UNCHANGED <<snapshot, phase>>
  BY DEF CommitResent, recovery
<1>2. /\ phase = "live" /\ HistoryInv' /\ CacheInv'
      /\ log' \in Seq(Alert) /\ sealed' \in RedisState
      /\ [seen |-> seen, subjects |-> subjects]' \in RedisState
      /\ Log!Accepted \subseteq Log!Accepted'
      /\ \A s \in Subject : Log!Closed(s) => Log!Closed(s)'
      /\ CommitReply(r) = 1 => alert[r] \in Log!Accepted'
  BY <1>1, CommitKeepsStore
<1>3. RunnerOK(r) /\ Justified(r) /\ TypeOK
  BY DEF IInv, RunnerInv, DecisionsJustified
<1>4. TypeOK'
  <2>1. \A s \in Subject : subjects'[s] # None => ValidSubjectState(s, subjects'[s])
    BY <1>2 DEF CacheInv, Within, ValidStates
  <2> QED
    BY <1>1, <1>2, <1>3, <2>1, BoundsAssumption
    DEF TypeOK, CommitResent, AfterFailedCommit, Return, Outcome, recovery, locals, RunnerOK
<1>5. RestoreInv'
  BY <1>1, <1>2 DEF RestoreInv, recovery
<1>6. RunnerOK(r)' /\ Justified(r)'
  <2>1. UNCHANGED locals /\ phase' = phase
    BY DEF CommitResent, recovery
  <2>2. result[r] = None
    BY <1>1, <1>3 DEF RunnerOK
  <2> QED
    BY <1>2, <1>3, <2>1, <2>2, OthersKept DEF locals
<1>7. ASSUME NEW q \in Runner, q # r
      PROVE  RunnerOK(q)' /\ Justified(q)'
  BY <1>1, <1>2, <1>3, <1>7, OthersKept
  DEF CommitResent, AfterFailedCommit, Return, recovery, locals, TypeOK
<1> QED
  BY <1>2, <1>4, <1>5, <1>6, <1>7 DEF IInv, RunnerInv, DecisionsJustified

-------------------------------------------------------------------------------
(* Steps of Redis and of restore: no runner moves                          *)

(* While runners rest, their locals and the history stay as they are.      *)
LEMMA RunnersRest ==
    ASSUME IInv, UNCHANGED <<history, locals>>,
           \/ phase' = phase \/ phase' = "live" \/ phase # "live"
           \/ \A q \in Runner : pc[q] \in {"idle", "done"}
    PROVE  HistoryInv' /\ RunnerInv' /\ DecisionsJustified'
<1>1. /\ UNCHANGED <<log, sealed, pc, alert, sawSeen, raw, failed, result>>
      /\ Log!Accepted' = Log!Accepted
      /\ \A s \in Subject : Log!Closed(s)' <=> Log!Closed(s)
  BY DEF history, locals, Log!Accepted, Log!Closed
<1>2. HistoryInv'
  BY <1>1 DEF IInv, HistoryInv, ValidStates
<1>3. ASSUME NEW q \in Runner PROVE RunnerOK(q)' /\ Justified(q)'
  <2>1. phase' = phase \/ phase' = "live" \/ pc[q] \in {"idle", "done"}
    BY DEF IInv, RunnerInv, RunnerOK
  <2> QED
    BY <1>1, <2>1, OthersKept
<1> QED
  BY <1>2, <1>3 DEF RunnerInv, DecisionsJustified

(* Redis saves what it holds.                                              *)
LEMMA SnapshotInv ==
    ASSUME IInv, Snapshot
    PROVE  IInv'
<1>1. /\ UNCHANGED <<seen, subjects, phase, toCheck, toWrite, toMark>>
      /\ UNCHANGED <<log, sealed, pc, alert, sawSeen, raw, failed, result, losses>>
      /\ snapshot' = [seen |-> seen, subjects |-> subjects]
      /\ phase = "live"
  BY DEF Snapshot, redis, history, locals, recovery
<1>2. HistoryInv' /\ RunnerInv' /\ DecisionsJustified'
  BY <1>1, RunnersRest DEF history, locals
<1>3. TypeOK' /\ CacheInv' /\ RestoreInv'
  BY <1>1 DEF IInv, TypeOK, CacheInv, Within, ValidStates, CacheMatchesHistory, RestoreInv
<1> QED
  BY <1>2, <1>3 DEF IInv

(* Redis comes back with a snapshot, which knows no more than the history. *)
LEMMA RestartInv ==
    ASSUME IInv, Restart
    PROVE  IInv'
<1>1. /\ seen' = snapshot.seen /\ subjects' = snapshot.subjects /\ phase' = "lost"
      /\ UNCHANGED <<snapshot, log, sealed, pc, alert, sawSeen, raw, failed, result>>
  BY DEF Restart, history, locals
<1>2. HistoryInv' /\ RunnerInv' /\ DecisionsJustified'
  BY RunnersRest DEF Restart
<1>3. CacheInv'
  BY <1>1 DEF IInv, CacheInv, Within, ValidStates, CacheMatchesHistory
<1>4. TypeOK'
  <2>1. losses' \in 0 .. MaxLosses
    BY BoundsAssumption DEF Restart, IInv, TypeOK
  <2>2. [seen |-> seen, subjects |-> subjects]' \in RedisState
    BY <1>1 DEF IInv, TypeOK, RedisState
  <2>3. toCheck' = {} /\ toWrite' = {} /\ toMark' = {}
    BY DEF Restart
  <2> QED
    BY <1>1, <1>3, <2>1, <2>2, <2>3 DEF IInv, TypeOK, CacheInv, Within, ValidStates
<1>5. RestoreInv'
  BY <1>1 DEF RestoreInv
<1> QED
  BY <1>2, <1>3, <1>4, <1>5 DEF IInv

(* The operator empties a refused cache.                                   *)
LEMMA FlushInv ==
    ASSUME IInv, Flush
    PROVE  IInv'
<1>1. /\ seen' = {} /\ subjects' = Empty.subjects /\ snapshot' = Empty
      /\ phase = "refused" /\ phase' = "lost"
      /\ UNCHANGED <<log, sealed, pc, alert, sawSeen, raw, failed, result>>
      /\ UNCHANGED <<toCheck, toWrite, toMark, losses>>
  BY DEF Flush, history, locals
<1>2. HistoryInv' /\ RunnerInv' /\ DecisionsJustified'
  BY <1>1, RunnersRest DEF history, locals
<1>3. Empty \in RedisState /\ Empty.seen = {} /\ \A s \in Subject : Empty.subjects[s] = None
  BY DEF Empty, RedisState
<1>4. TypeOK' /\ CacheInv' /\ RestoreInv'
  BY <1>1, <1>3 DEF IInv, TypeOK, RedisState, CacheInv, Within, ValidStates,
                    CacheMatchesHistory, RestoreInv
<1> QED
  BY <1>2, <1>4 DEF IInv

(* What restore does before it writes, and when it gives up.               *)
LEMMA RestoreReadsInv ==
    ASSUME IInv,
           \/ RestoreBegin \/ RestoreNothing \/ RestoreFails
           \/ \E s \in Subject : RestoreCheck(s)
    PROVE  IInv'
<1>1. UNCHANGED <<seen, subjects, snapshot, log, sealed, losses>> /\ UNCHANGED <<history, locals>>
  BY DEF RestoreBegin, RestoreNothing, RestoreFails, RestoreCheck, redis, history, locals
<1>2. UNCHANGED <<pc, alert, sawSeen, raw, failed, result>>
  BY <1>1 DEF locals
<1>3. phase # "live"
  BY DEF RestoreBegin, RestoreNothing, RestoreFails, RestoreCheck
<1>4. HistoryInv' /\ RunnerInv' /\ DecisionsJustified'
  BY <1>1, <1>3, RunnersRest
<1>5. Within([seen |-> seen, subjects |-> subjects])' /\ Within(snapshot)'
  BY <1>1 DEF IInv, CacheInv, Within, ValidStates
<1>6. TypeOK /\ RestoreInv /\ HistoryInv /\ CacheInv /\ Replayed' = Replayed /\ Replayed \subseteq Subject
  BY <1>1 DEF IInv, Replayed
<1>7. CASE RestoreBegin
  <2>1. TypeOK'
    BY <1>1, <1>2, <1>6, <1>7 DEF TypeOK, RestoreBegin, RedisState
  <2> QED
    BY <1>4, <1>5, <1>6, <1>7, <2>1, <1>1
    DEF IInv, CacheInv, CacheMatchesHistory, RestoreInv, RestoreBegin
<1>8. CASE RestoreFails
  <2>1. TypeOK'
    BY <1>1, <1>2, <1>6, <1>8 DEF TypeOK, RestoreFails, Abandon
  <2> QED
    BY <1>4, <1>5, <1>8, <2>1
    DEF IInv, CacheInv, CacheMatchesHistory, RestoreInv, RestoreFails, Abandon
<1>9. CASE RestoreNothing
  <2>1. TypeOK'
    BY <1>1, <1>2, <1>6, <1>9 DEF TypeOK, RestoreNothing
  <2>2. toWrite = Replayed /\ sealed.seen = {} /\ seen = {}
    BY <1>6, <1>9 DEF RestoreInv, RestoreNothing, CacheInv, Within
  <2>3. \A s \in Subject : sealed.subjects[s] = None /\ subjects[s] = None
    BY <1>6, <2>2 DEF HistoryInv, CacheInv, Within
  <2>4. subjects = sealed.subjects
    BY <1>6, <2>3 DEF TypeOK, RedisState
  <2> QED
    BY <1>1, <1>4, <1>5, <1>9, <2>1, <2>2, <2>4
    DEF IInv, CacheInv, CacheMatchesHistory, RestoreInv, RestoreNothing
<1>10. ASSUME NEW s \in Subject, RestoreCheck(s)
       PROVE  IInv'
  <2>1. TypeOK'
    BY <1>1, <1>2, <1>6, <1>10 DEF TypeOK, RestoreCheck, Abandon
  <2>2. CacheInv'
    BY <1>5, <1>10 DEF RestoreCheck, Abandon, CacheInv, CacheMatchesHistory
  <2>3. RestoreInv'
    <3>1. CASE Disagrees(s)
      BY <1>10, <3>1 DEF RestoreCheck, Abandon, RestoreInv
    <3>2. CASE ~Disagrees(s)
      <4>1. /\ phase = "checking" /\ toCheck' = toCheck \ {s}
            /\ toWrite' = Replayed /\ toMark' = sealed'.seen
            /\ phase' = IF toCheck = {s} THEN "writing" ELSE "checking"
            /\ \A q \in Replayed \ (toCheck \ {s}) : ~Disagrees(q)
            /\ \A q \in Subject : Disagrees(q)' <=> Disagrees(q)
        BY <1>1, <1>6, <1>10, <3>2 DEF RestoreCheck, RestoreInv, Disagrees
      <4>2. CASE toCheck # {s}
        BY <1>6, <4>1, <4>2 DEF RestoreInv
      <4>3. CASE toCheck = {s}
        <5>1. \A q \in Subject \ Replayed : subjects[q] = sealed.subjects[q]
          BY <1>6 DEF Replayed, CacheInv, Within
        <5> QED
          BY <1>1, <1>6, <4>1, <4>3, <5>1 DEF RestoreInv
      <4> QED
        BY <4>2, <4>3
    <3> QED
      BY <3>1, <3>2
  <2> QED
    BY <1>4, <2>1, <2>2, <2>3 DEF IInv
<1> QED
  BY <1>7, <1>8, <1>9, <1>10

(* Writing one subject: it agrees with the replay before and after.        *)
LEMMA RestoreSubjectInv ==
    ASSUME IInv, NEW s \in Subject, RestoreSubject(s)
    PROVE  IInv'
<1>1. /\ UNCHANGED <<seen, snapshot, log, sealed, losses>> /\ UNCHANGED <<history, locals>>
      /\ phase = "writing" /\ s \in toWrite /\ ~Disagrees(s)
      /\ subjects' = [subjects EXCEPT ![s] = sealed.subjects[s]]
      /\ toWrite' = toWrite \ {s} /\ UNCHANGED <<toCheck, toMark>>
      /\ phase' = IF toWrite = {s} THEN "marking" ELSE "writing"
  BY DEF IInv, RestoreInv, RestoreSubject, history, locals
<1>2. /\ TypeOK /\ HistoryInv /\ CacheInv /\ toWrite \subseteq Replayed /\ toMark = sealed.seen
      /\ \A q \in toWrite : ~Disagrees(q)
      /\ \A q \in Subject \ toWrite : subjects[q] = sealed.subjects[q]
  BY <1>1 DEF IInv, RestoreInv
<1>3. HistoryInv' /\ RunnerInv' /\ DecisionsJustified'
  BY <1>1, RunnersRest
<1>4. /\ subjects' \in [Subject -> SubjectState \cup {None}]
      /\ subjects'[s] = sealed.subjects[s]
      /\ \A q \in Subject \ {s} : subjects'[q] = subjects[q]
  BY <1>1, <1>2 DEF TypeOK, RedisState
<1>5. CacheInv'
  BY <1>1, <1>2, <1>4 DEF CacheInv, Within, ValidStates, HistoryInv, CacheMatchesHistory
<1>6. TypeOK'
  <2>1. UNCHANGED <<pc, alert, sawSeen, raw, failed, result>>
    BY <1>1 DEF locals
  <2> QED
    BY <1>1, <1>2, <1>4, <1>5, <2>1 DEF TypeOK, RedisState, CacheInv, Within, ValidStates
<1>7. RestoreInv'
  <2>1. Replayed' = Replayed
    BY <1>1 DEF Replayed
  <2>2. \A q \in toWrite \ {s} : ~Disagrees(q)'
    BY <1>1, <1>2, <1>4 DEF Disagrees, Replayed
  <2>3. \A q \in Subject \ (toWrite \ {s}) : subjects'[q] = sealed'.subjects[q]
    BY <1>1, <1>2, <1>4
  <2>4. CASE toWrite # {s}
    BY <1>1, <1>2, <2>1, <2>2, <2>3, <2>4 DEF RestoreInv
  <2>5. CASE toWrite = {s}
    <3>1. subjects' = sealed'.subjects
      BY <1>1, <1>2, <1>4, <2>3, <2>5 DEF TypeOK, RedisState
    <3> QED
      BY <1>1, <1>2, <2>5, <3>1 DEF RestoreInv
  <2> QED
    BY <2>4, <2>5
<1> QED
  BY <1>3, <1>5, <1>6, <1>7 DEF IInv

(* Writing one marker: the last one makes the cache whole again.           *)
LEMMA RestoreMarkInv ==
    ASSUME IInv, NEW a \in Alert, RestoreMark(a)
    PROVE  IInv'
<1>1. /\ UNCHANGED <<subjects, snapshot, log, sealed, losses>> /\ UNCHANGED <<history, locals>>
      /\ phase = "marking" /\ a \in toMark
      /\ seen' = seen \cup {a} /\ toMark' = toMark \ {a} /\ UNCHANGED <<toCheck, toWrite>>
      /\ phase' = IF toMark = {a} THEN "live" ELSE "marking"
  BY DEF RestoreMark, history, locals
<1>2. /\ TypeOK /\ CacheInv /\ subjects = sealed.subjects
      /\ toMark \subseteq sealed.seen /\ sealed.seen \ toMark \subseteq seen
  BY <1>1 DEF IInv, RestoreInv
<1>3. HistoryInv' /\ RunnerInv' /\ DecisionsJustified'
  BY <1>1, RunnersRest
<1>4. RestoreInv'
  <2>1. CASE toMark # {a}
    BY <1>1, <1>2, <2>1 DEF RestoreInv
  <2>2. CASE toMark = {a}
    BY <1>1, <2>2 DEF RestoreInv
  <2> QED
    BY <2>1, <2>2
<1>5. TypeOK'
  <2>1. UNCHANGED <<pc, alert, sawSeen, raw, failed, result>>
    BY <1>1 DEF locals
  <2> QED
    BY <1>1, <1>2, <2>1 DEF TypeOK, RedisState
<1>6. a \in sealed.seen
  BY <1>1, <1>2
<1>7. CacheInv'
  BY <1>1, <1>2, <1>6 DEF CacheInv, Within, ValidStates, CacheMatchesHistory
<1> QED
  BY <1>3, <1>4, <1>5, <1>7 DEF IInv

-------------------------------------------------------------------------------
(* The invariant                                                           *)

(* A new deployment: no alert, an empty Redis and no process.              *)
LEMMA InitInv == Init => IInv
<1> SUFFICES ASSUME Init PROVE IInv
  OBVIOUS
<1>1. Empty \in RedisState /\ Empty.seen = {} /\ \A s \in Subject : Empty.subjects[s] = None
  BY DEF Empty, RedisState
<1>2. Log!Accepted = {} /\ \A s \in Subject : ~Log!Closed(s)
  BY DEF Init, Log!Accepted, Log!Closed
<1>3. TypeOK
  BY <1>1, BoundsAssumption DEF Init, TypeOK, RedisState
<1>4. HistoryInv
  BY <1>1, <1>2 DEF Init, HistoryInv, ValidStates, IsTerminal
<1>5. CacheInv
  BY <1>1 DEF Init, CacheInv, Within, ValidStates, CacheMatchesHistory
<1>6. RunnerInv
  BY BoundsAssumption DEF Init, RunnerInv, RunnerOK, IsTerminal
<1>7. DecisionsJustified
  BY NoneIsNoOutcome DEF Init, DecisionsJustified, Justified, Outcome
<1>8. RestoreInv
  BY DEF Init, RestoreInv
<1> QED
  BY <1>3, <1>4, <1>5, <1>6, <1>7, <1>8 DEF IInv

(* Every step, and a stutter, keeps it.                                    *)
LEMMA NextInv == IInv /\ [Next]_vars => IInv'
<1> SUFFICES ASSUME IInv, [Next]_vars PROVE IInv'
  OBVIOUS
<1>1. ASSUME NEW r \in Runner, RunnerStep(r) PROVE IInv'
  BY <1>1, RecordInv, ReadSeenInv, ReadSubjectInv, CommitInv, CommitReplyLostInv,
     CommitResentInv, RedisFailsInv, ExitInv DEF RunnerStep
<1>2. CASE RestoreStep
  BY <1>2, RestoreReadsInv, RestoreSubjectInv, RestoreMarkInv DEF RestoreStep
<1>3. CASE Snapshot \/ Restart \/ Flush
  BY <1>3, SnapshotInv, RestartInv, FlushInv
<1>4. CASE UNCHANGED vars
  <2>1. UNCHANGED <<redis, snapshot, history, recovery>> /\ UNCHANGED <<history, locals>>
    BY <1>4 DEF vars
  <2>2. HistoryInv' /\ CacheInv' /\ RestoreInv' /\ RunnerInv' /\ DecisionsJustified'
    BY <2>1, LocalStep, RunnersRest DEF recovery
  <2>3. TypeOK'
    BY <2>1 DEF IInv, TypeOK, redis, history, locals, recovery
  <2> QED
    BY <2>2, <2>3 DEF IInv
<1> QED
  BY <1>1, <1>2, <1>3, <1>4 DEF Next

(* The invariant holds throughout.                                         *)
THEOREM Invariance == Spec => []IInv
BY InitInv, NextInv, PTL DEF Spec

(* Redis, the history and every local keep their types, and Redis never    *)
(* holds a subject state that a later read would reject.                   *)
THEOREM TypeCorrect == Spec => []TypeOK
<1>1. IInv => TypeOK
  BY DEF IInv
<1> QED
  BY <1>1, Invariance, PTL

(* What record() tells its caller is true of the sealed history, through   *)
(* lost replies, resent commits and Redis restarts.                        *)
THEOREM DecisionsCorrect == Spec => []DecisionsJustified
<1>1. IInv => DecisionsJustified
  BY DEF IInv
<1> QED
  BY <1>1, Invariance, PTL

(* While runners are admitted, Redis holds exactly what the sealed history *)
(* leaves: commit moves both together and restore rebuilds all of it.      *)
THEOREM CacheCorrect == Spec => []CacheMatchesHistory
<1>1. IInv => CacheMatchesHistory
  BY DEF IInv, CacheInv
<1> QED
  BY <1>1, Invariance, PTL

(* restore() never finds a disagreement after its first write.             *)
LEMMA RefusalIsClean == IInv => RefusalWritesNothing
BY DEF IInv, RestoreInv, RefusalWritesNothing

-------------------------------------------------------------------------------
(* The replay                                                              *)

(* The fold behind Replay is a recursive function of the positions of a log *)
(* (FoldLeft takes the last one first); FoldOf is its recursion.            *)
FoldOf(s, f) == f = [T \in SUBSET DOMAIN s |->
                      IF T = {} THEN Empty ELSE ReplayStep(f[T \ {Max(T)}], s[Max(T)])]
Topped(T) == Max(T) \in T /\ \A i \in T : Max(T) >= i
Foldable(s) ==
    /\ \A T \in SUBSET DOMAIN s : T # {} => Topped(T)
    /\ \E f : \A g : FoldOf(s, g) <=> g = f

(* The sealed state, kept step by step, is the replay of the whole log.    *)
ReplayInv == Foldable(log) /\ sealed = Replay(log)

LEMMA Unfold == ASSUME NEW s PROVE Replay(s) = (CHOOSE f : FoldOf(s, f))[DOMAIN s]
BY DEF Replay, FoldLeft, MapThenFoldSet, FoldOf

(* Nothing accepted leaves the empty state.                                *)
LEMMA ReplayNothing == Foldable(<<>>) /\ Replay(<<>>) = Empty
<1> DEFINE f == [T \in {{}} |-> Empty]
<1>1. DOMAIN <<>> = {} /\ SUBSET DOMAIN <<>> = {{}}
  OBVIOUS
<1>2. \A g : FoldOf(<<>>, g) <=> g = f
  BY <1>1 DEF FoldOf
<1>3. (CHOOSE g : FoldOf(<<>>, g)) = f
  BY <1>2
<1> QED
  BY <1>1, <1>2, <1>3, Unfold DEF Foldable

(* One more alert in the log is one more step of the replay.               *)
LEMMA ReplayAppend ==
    ASSUME NEW s \in Seq(Alert), NEW a \in Alert, Foldable(s)
    PROVE  Foldable(Append(s, a)) /\ Replay(Append(s, a)) = ReplayStep(Replay(s), a)
<1> DEFINE t == Append(s, a)
           n == Len(s) + 1
<1>1. /\ DOMAIN s = 1 .. Len(s) /\ DOMAIN t = 1 .. n /\ Len(s) \in Nat
      /\ t[n] = a /\ \A i \in DOMAIN s : t[i] = s[i]
  OBVIOUS
<1>2. /\ n \notin DOMAIN s /\ n \in DOMAIN t
      /\ DOMAIN t \ {n} = DOMAIN s
      /\ SUBSET DOMAIN s \subseteq SUBSET DOMAIN t
      /\ \A T \in SUBSET DOMAIN t : T \ {n} \in SUBSET DOMAIN s
      /\ \A T \in SUBSET DOMAIN t : n \notin T => T \in SUBSET DOMAIN s
  BY <1>1
<1> HIDE DEF t
<1>3. ASSUME NEW T \in SUBSET DOMAIN t, n \in T
      PROVE  Max(T) = n /\ Topped(T)
  <2>1. n \in T /\ \A i \in T : n >= i
    BY <1>1, <1>3
  <2>2. Max(T) \in T /\ \A i \in T : Max(T) >= i
    BY <2>1 DEF Max
  <2>3. Max(T) >= n /\ n >= Max(T) /\ Max(T) \in Int /\ n \in Int
    BY <1>1, <2>1, <2>2
  <2> QED
    BY <2>2, <2>3 DEF Topped
<1>4. \A T \in SUBSET DOMAIN t : T # {} => Topped(T)
  BY <1>2, <1>3 DEF Foldable
<1>5. PICK f : \A g : FoldOf(s, g) <=> g = f
  BY DEF Foldable
<1>6. Replay(s) = f[DOMAIN s]
  BY <1>5, Unfold
<1> DEFINE F == [T \in SUBSET DOMAIN t |-> IF n \in T THEN ReplayStep(f[T \ {n}], a) ELSE f[T]]
<1>7. \A T \in SUBSET DOMAIN s : f[T] = IF T = {} THEN Empty ELSE ReplayStep(f[T \ {Max(T)}], s[Max(T)])
  BY <1>5 DEF FoldOf
<1>8. FoldOf(t, F)
  <2>1. ASSUME NEW T \in SUBSET DOMAIN t
        PROVE  F[T] = IF T = {} THEN Empty ELSE ReplayStep(F[T \ {Max(T)}], t[Max(T)])
    <3>1. CASE n \in T
      <4>1. F[T] = ReplayStep(f[T \ {n}], a)
        BY <3>1
      <4>2. T \ {n} \in SUBSET DOMAIN t /\ n \notin T \ {n} /\ T # {}
        BY <1>2, <3>1
      <4>3. F[T \ {n}] = f[T \ {n}]
        BY <4>2
      <4>4. Max(T) = n /\ t[Max(T)] = a
        BY <1>1, <1>3, <3>1
      <4> HIDE DEF F, n
      <4> QED
        BY <4>1, <4>2, <4>3, <4>4
    <3>2. CASE n \notin T /\ T # {}
      <4>1. T \in SUBSET DOMAIN s /\ F[T] = f[T]
        BY <1>2, <3>2
      <4>2. Max(T) \in DOMAIN s /\ T \ {Max(T)} \in SUBSET DOMAIN t /\ n \notin T \ {Max(T)}
        BY <1>2, <3>2, <4>1 DEF Foldable, Topped
      <4>3. F[T \ {Max(T)}] = f[T \ {Max(T)}]
        BY <4>2
      <4>4. t[Max(T)] = s[Max(T)]
        BY <1>1, <4>2
      <4> HIDE DEF F, n
      <4> QED
        BY <1>7, <3>2, <4>1, <4>3, <4>4
    <3>3. CASE T = {}
      <4>1. F[T] = f[T] /\ T \in SUBSET DOMAIN s
        BY <3>3
      <4> HIDE DEF F, n
      <4> QED
        BY <1>7, <3>3, <4>1
    <3> QED
      BY <3>1, <3>2, <3>3
  <2> DEFINE G == [T \in SUBSET DOMAIN t |->
                     IF T = {} THEN Empty ELSE ReplayStep(F[T \ {Max(T)}], t[Max(T)])]
  <2>2. F = G
    <3>1. \A T \in SUBSET DOMAIN t : F[T] = G[T]
      <4> HIDE DEF F
      <4> QED
        BY <2>1
    <3>2. /\ F = [T \in SUBSET DOMAIN t |-> F[T]]
          /\ G = [T \in SUBSET DOMAIN t |-> G[T]]
      OBVIOUS
    <3> HIDE DEF F, G
    <3> QED
      BY <3>1, <3>2
  <2> HIDE DEF F
  <2> QED
    BY <2>2 DEF FoldOf
<1>9. ASSUME NEW g, FoldOf(t, g)
      PROVE  g = F
  <2> DEFINE h == [T \in SUBSET DOMAIN s |-> g[T]]
  <2>1. /\ g = [T \in SUBSET DOMAIN t |-> g[T]]
        /\ \A T \in SUBSET DOMAIN t :
             g[T] = IF T = {} THEN Empty ELSE ReplayStep(g[T \ {Max(T)}], t[Max(T)])
    BY <1>9 DEF FoldOf
  <2>2. ASSUME NEW T \in SUBSET DOMAIN s
        PROVE  h[T] = IF T = {} THEN Empty ELSE ReplayStep(h[T \ {Max(T)}], s[Max(T)])
    <3>1. T \in SUBSET DOMAIN t /\ h[T] = g[T]
      BY <1>2
    <3>2. T # {} => Max(T) \in DOMAIN s /\ T \ {Max(T)} \in SUBSET DOMAIN s
      BY DEF Foldable, Topped
    <3>3. T # {} => h[T \ {Max(T)}] = g[T \ {Max(T)}] /\ t[Max(T)] = s[Max(T)]
      BY <1>1, <3>2
    <3> HIDE DEF h
    <3> QED
      BY <2>1, <3>1, <3>3
  <2>3. h = [T \in SUBSET DOMAIN s |-> IF T = {} THEN Empty ELSE ReplayStep(h[T \ {Max(T)}], s[Max(T)])]
    <3>1. h = [T \in SUBSET DOMAIN s |-> h[T]]
      OBVIOUS
    <3> HIDE DEF h
    <3> QED
      BY <2>2, <3>1
  <2>4. h = f
    <3> HIDE DEF h
    <3> QED
      BY <1>5, <2>3 DEF FoldOf
  <2>5. \A T \in SUBSET DOMAIN s : g[T] = f[T]
    BY <2>4
  <2>6. \A T \in SUBSET DOMAIN t : g[T] = F[T]
    <3> SUFFICES ASSUME NEW T \in SUBSET DOMAIN t PROVE g[T] = F[T]
      OBVIOUS
    <3>1. CASE n \in T
      <4>1. T \ {n} \in SUBSET DOMAIN s /\ Max(T) = n /\ t[Max(T)] = a /\ T # {}
        BY <1>1, <1>2, <1>3, <3>1
      <4>2. g[T] = ReplayStep(g[T \ {n}], a)
        BY <2>1, <4>1
      <4>3. g[T] = ReplayStep(f[T \ {n}], a)
        BY <2>5, <4>1, <4>2
      <4> QED
        BY <3>1, <4>3
    <3>2. CASE n \notin T
      BY <1>2, <2>5, <3>2
    <3> QED
      BY <3>1, <3>2
  <2>7. F = [T \in SUBSET DOMAIN t |-> F[T]]
    OBVIOUS
  <2> HIDE DEF F
  <2> QED
    BY <2>1, <2>6, <2>7
<1>10. \A g : FoldOf(t, g) <=> g = F
  <2> HIDE DEF F
  <2> QED
    BY <1>8, <1>9
<1>11. Foldable(t)
  BY <1>4, <1>10 DEF Foldable
<1>12. Replay(t) = F[DOMAIN t]
  <2> HIDE DEF F
  <2> QED
    BY <1>10, Unfold
<1>13. F[DOMAIN t] = ReplayStep(f[DOMAIN s], a)
  BY <1>2
<1> QED
  BY <1>6, <1>11, <1>12, <1>13 DEF t

LEMMA ReplayInit == Init => ReplayInv
BY ReplayNothing DEF Init, ReplayInv

LEMMA ReplayCommit ==
    ASSUME IInv, ReplayInv, NEW r \in Runner, pc[r] = "commit", CommitEffect(r)
    PROVE  ReplayInv'
<1>1. CASE CommitReply(r) = 1
  <2>1. log \in Seq(Alert) /\ alert[r] \in Alert
    BY DEF IInv, TypeOK, RunnerInv, RunnerOK
  <2>2. log' = Append(log, alert[r]) /\ sealed' = ReplayStep(sealed, alert[r])
    BY <1>1 DEF CommitEffect
  <2> QED
    BY <2>1, <2>2, ReplayAppend DEF ReplayInv
<1>2. CASE CommitReply(r) # 1
  BY <1>2, RefusedCommit DEF ReplayInv, history
<1> QED
  BY <1>1, <1>2

LEMMA ReplayKept == IInv /\ ReplayInv /\ [Next]_vars => ReplayInv'
<1> SUFFICES ASSUME IInv, ReplayInv, [Next]_vars PROVE ReplayInv'
  OBVIOUS
<1>1. CASE UNCHANGED history
  BY <1>1 DEF ReplayInv, history
<1>2. ASSUME NEW r \in Runner, Commit(r) \/ CommitReplyLost(r) \/ CommitResent(r)
      PROVE  ReplayInv'
  BY <1>2, ReplayCommit DEF Commit, CommitReplyLost, CommitResent
<1>3. CASE Next
  BY <1>1, <1>2, <1>3 DEF Next, RunnerStep, RestoreStep, ReadSeen, ReadSubject, RedisFails, Exit,
     Record, RestoreBegin, RestoreNothing, RestoreFails, RestoreCheck, RestoreSubject,
     RestoreMark, Snapshot, Restart, Flush
<1> QED
  BY <1>1, <1>3 DEF vars

(* While runners are admitted, Redis holds the replay of the accepted alerts *)
(* in the order of their commits (replay of state.py); a restore that finds *)
(* a disagreement has written nothing.                                     *)
THEOREM CacheIsTheReplay == Spec => []CacheIsReplay
<1>1. IInv /\ ReplayInv => CacheIsReplay
  <2> SUFFICES ASSUME IInv, ReplayInv, phase = "live"
               PROVE  [seen |-> seen, subjects |-> subjects] = Replay(log)
    BY RefusalIsClean DEF CacheIsReplay
  <2>1. sealed \in RedisState /\ seen = sealed.seen /\ subjects = sealed.subjects
    BY DEF IInv, TypeOK, CacheInv, CacheMatchesHistory
  <2>2. sealed = [seen |-> sealed.seen, subjects |-> sealed.subjects]
    BY <2>1 DEF RedisState
  <2> QED
    BY <2>1, <2>2 DEF ReplayInv
<1> QED
  BY <1>1, ReplayInit, ReplayKept, Invariance, PTL DEF Spec

-------------------------------------------------------------------------------
(* Contention                                                              *)

(* What a runner's failures owe to the history: each failed commit has an   *)
(* alert of its subject; and when what the runner has read is out of date,  *)
(* one alert more is there, which will pay for the commit about to fail.    *)
About(s) == {a \in Log!Accepted : SubjectOf[a] = s}

OutOfDate(r) ==
    \/ pc[r] = "get" /\ ~sawSeen[r] /\ alert[r] \in seen
    \/ pc[r] = "commit" /\ (alert[r] \in seen \/ subjects[Key(r)] # raw[r])

Paid(r) == /\ failed[r] <= Cardinality(About(Key(r)))
           /\ OutOfDate(r) => failed[r] < Cardinality(About(Key(r)))

CountInv == IsFiniteSet(Log!Accepted) /\ \A r \in Runner : pc[r] # "idle" => Paid(r)

LEMMA Counted ==
    ASSUME IsFiniteSet(Log!Accepted)
    PROVE  \A s : IsFiniteSet(About(s)) /\ Cardinality(About(s)) \in Nat
<1> SUFFICES ASSUME NEW s PROVE IsFiniteSet(About(s)) /\ Cardinality(About(s)) \in Nat
  OBVIOUS
<1>1. About(s) \in SUBSET Log!Accepted
  BY DEF About
<1>2. IsFiniteSet(About(s))
  BY <1>1, FS_Subset
<1> QED
  BY <1>2, FS_CardinalityType

(* An accepted alert is one more for its subject and for no other.         *)
LEMMA GrantCounts ==
    ASSUME IInv, IsFiniteSet(Log!Accepted), NEW r \in Runner,
           pc[r] = "commit", CommitReply(r) = 1, CommitEffect(r)
    PROVE  /\ IsFiniteSet(Log!Accepted)'
           /\ \A s : IF s = Key(r)
                      THEN Cardinality(About(s)') = Cardinality(About(s)) + 1
                      ELSE About(s)' = About(s)
<1>1. alert[r] \in Alert /\ log' = Append(log, alert[r]) /\ Log!Acceptable(alert[r])
  BY GrantedCommit DEF IInv, RunnerInv, RunnerOK
<1>2. Log!Accepted' = Log!Accepted \cup {alert[r]} /\ alert[r] \notin Log!Accepted
  BY <1>1, AcceptedAppend DEF IInv, TypeOK, Log!Acceptable
<1>3. IsFiniteSet(Log!Accepted)'
  BY <1>2, FS_AddElement
<1> DEFINE k == SubjectOf[alert[r]]
<1>4. {a \in Log!Accepted' : SubjectOf[a] = k} = About(k) \cup {alert[r]} /\ alert[r] \notin About(k)
  BY <1>2 DEF About
<1>5. Cardinality(About(k) \cup {alert[r]}) = Cardinality(About(k)) + 1
  BY <1>4, Counted, FS_AddElement
<1>6. Cardinality({a \in Log!Accepted' : SubjectOf[a] = k}) = Cardinality(About(k)) + 1
  BY <1>4, <1>5
<1>7. \A s : s # k => {a \in Log!Accepted' : SubjectOf[a] = s} = About(s)
  BY <1>2 DEF About
<1> QED
  BY <1>3, <1>6, <1>7 DEF About, Key

(* A runner that does not move stays paid whatever is committed.           *)
LEMMA StaysPaid ==
    ASSUME IInv, CountInv, NEW r \in Runner, NEW q \in Runner,
           pc[r] = "commit", CommitEffect(r), pc[q] # "idle",
           pc'[q] = pc[q], alert'[q] = alert[q], sawSeen'[q] = sawSeen[q],
           raw'[q] = raw[q], failed'[q] = failed[q]
    PROVE  Paid(q)'
<1>1. /\ Paid(q) /\ Key(q)' = Key(q) /\ failed[q] \in Nat
      /\ alert[q] \in Alert /\ Key(q) = SubjectOf[alert[q]] /\ Key(r) = SubjectOf[alert[r]]
  BY BoundsAssumption DEF CountInv, Key, IInv, TypeOK, RunnerInv, RunnerOK
<1>2. PICK k : k = Key(q)
  OBVIOUS
<1> DEFINE had == Cardinality(About(k))
           has == Cardinality(About(k)')
<1>3. /\ Cardinality(About(Key(q))) = had
      /\ Cardinality(About(Key(q)))' = has
  BY <1>1, <1>2 DEF About
<1>4. had \in Nat
  BY Counted DEF CountInv
<1>5. CASE CommitReply(r) # 1
  <2>1. UNCHANGED <<seen, subjects, log>>
    BY <1>5, RefusedCommit DEF redis, history
  <2>2. has = had
    BY <2>1 DEF About, Log!Accepted
  <2>3. OutOfDate(q)' <=> OutOfDate(q)
    BY <1>1, <2>1 DEF OutOfDate
  <2> QED
    BY <1>1, <1>3, <2>2, <2>3 DEF Paid
<1>6. CASE CommitReply(r) = 1
  <2>1. \A s : IF s = Key(r)
               THEN Cardinality(About(s)') = Cardinality(About(s)) + 1
               ELSE About(s)' = About(s)
    BY <1>6, GrantCounts DEF CountInv
  <2>2. CASE k = Key(r)
    <3>1. has = had + 1
      BY <2>1, <2>2
    <3>2. failed[q] <= had
      BY <1>1, <1>3 DEF Paid
    <3>3. failed'[q] < has
      BY <1>1, <1>4, <3>1, <3>2
    <3> HIDE DEF had, has
    <3> QED
      BY <1>1, <1>3, <1>4, <3>1, <3>2, <3>3 DEF Paid
  <2>3. CASE k # Key(r)
    <3>1. has = had
      BY <2>1, <2>3
    <3>2. /\ seen' = seen \cup {alert[r]} /\ alert[q] # alert[r]
          /\ subjects'[Key(q)] = subjects[Key(q)]
      <4>1. /\ seen' = seen \cup {alert[r]}
            /\ subjects' = [subjects EXCEPT ![Key(r)] = NextState(alert[r], raw[r])]
        BY <1>6 DEF CommitEffect
      <4>2. Key(q) \in Subject /\ subjects \in [Subject -> SubjectState \cup {None}]
        BY <1>1, AlertsAreSealed DEF IInv, TypeOK, RedisState
      <4> QED
        BY <1>1, <1>2, <2>3, <4>1, <4>2
    <3>3. OutOfDate(q)' <=> OutOfDate(q)
      BY <1>1, <3>2 DEF OutOfDate
    <3> QED
      BY <1>1, <1>3, <3>1, <3>3 DEF Paid
  <2> QED
    BY <2>2, <2>3
<1> QED
  BY <1>5, <1>6

(* Without a commit, a runner is paid as it was unless it goes on.         *)
LEMMA RestsPaid ==
    ASSUME CountInv, UNCHANGED history, NEW q \in Runner, pc[q] # "idle",
           alert'[q] = alert[q], failed'[q] = failed[q], OutOfDate(q)' => OutOfDate(q)
    PROVE  Paid(q)'
<1>1. Paid(q) /\ UNCHANGED log
  BY DEF CountInv, history
<1>2. Cardinality(About(Key(q)))' = Cardinality(About(Key(q)))
  BY <1>1 DEF About, Log!Accepted, Key
<1> QED
  BY <1>1, <1>2 DEF Paid

LEMMA FiniteRests == ASSUME CountInv, UNCHANGED history PROVE IsFiniteSet(Log!Accepted)'
<1>1. Log!Accepted' = Log!Accepted
  BY DEF history, Log!Accepted
<1> QED
  BY <1>1 DEF CountInv

(* Steps of a runner on its own: a runner is out of date only when somebody*)
(* else commits between its reads and its commit.                          *)
LEMMA LocalCount ==
    ASSUME IInv, CountInv, NEW r \in Runner,
           \/ ReadSeen(r) \/ ReadSubject(r) \/ RedisFails(r) \/ Exit(r)
           \/ \E a \in Alert : Record(r, a)
    PROVE  CountInv'
<1>1. UNCHANGED <<redis, history>> /\ UNCHANGED <<seen, subjects, log>>
  BY DEF ReadSeen, ReadSubject, RedisFails, Exit, Record, redis, history
<1>2. TypeOK /\ RunnerOK(r)
  BY DEF IInv, RunnerInv
<1>3. ASSUME NEW q \in Runner, q # r, pc'[q] # "idle"
      PROVE  Paid(q)'
  <2>1. /\ pc'[q] = pc[q] /\ alert'[q] = alert[q] /\ sawSeen'[q] = sawSeen[q]
        /\ raw'[q] = raw[q] /\ failed'[q] = failed[q]
    BY <1>2, <1>3 DEF TypeOK, ReadSeen, ReadSubject, RedisFails, Exit, Record, Return
  <2>2. OutOfDate(q)' <=> OutOfDate(q)
    BY <1>1, <2>1 DEF OutOfDate, Key
  <2> QED
    BY <1>1, <1>3, <2>1, <2>2, RestsPaid
<1>4. ASSUME pc'[r] # "idle"
      PROVE  Paid(r)'
  <2>1. CASE ReadSeen(r)
    <3>1. /\ pc[r] = "exists" /\ pc'[r] = "get" /\ sawSeen'[r] = (alert[r] \in seen)
          /\ alert'[r] = alert[r] /\ failed'[r] = failed[r]
      BY <1>2, <2>1 DEF TypeOK, ReadSeen
    <3> QED
      BY <1>1, <3>1, RestsPaid DEF OutOfDate
  <2>2. CASE ReadSubject(r)
    <3>1. /\ pc[r] = "get" /\ alert'[r] = alert[r] /\ failed'[r] = failed[r]
          /\ \/ pc'[r] = "done"
             \/ /\ pc'[r] = "commit" /\ raw'[r] = subjects[Key(r)]
                /\ Decide(alert[r], subjects[Key(r)], sawSeen[r]) = "new"
      BY <1>2, <2>2 DEF TypeOK, ReadSubject, Return
    <3>2. OutOfDate(r)' => OutOfDate(r)
      BY <1>1, <3>1 DEF OutOfDate, Key, Decide
    <3> QED
      BY <1>1, <3>1, <3>2, RestsPaid
  <2>3. CASE RedisFails(r)
    <3>1. /\ pc[r] # "idle" /\ pc'[r] = "done"
          /\ alert'[r] = alert[r] /\ failed'[r] = failed[r]
      BY <1>2, <2>3 DEF TypeOK, RedisFails, Return
    <3> QED
      BY <1>1, <3>1, RestsPaid DEF OutOfDate
  <2>4. CASE Exit(r)
    BY <1>2, <1>4, <2>4 DEF TypeOK, Exit
  <2>5. CASE \E a \in Alert : Record(r, a)
    <3>1. pc'[r] = "exists" /\ failed'[r] = 0
      BY <1>2, <2>5, BoundsAssumption DEF TypeOK, RunnerOK, Record
    <3>2. Log!Accepted' = Log!Accepted /\ IsFiniteSet(Log!Accepted)
      BY <1>1 DEF Log!Accepted, CountInv
    <3>3. \A s : About(s)' = About(s) /\ Cardinality(About(s)) \in Nat
      BY <3>2, Counted DEF About
    <3>4. PICK k : k = Key(r)'
      OBVIOUS
    <3>5. Cardinality(About(Key(r)))' = Cardinality(About(k))
      BY <3>2, <3>4 DEF About
    <3> QED
      BY <3>1, <3>3, <3>5 DEF Paid, OutOfDate
  <2> QED
    BY <2>1, <2>2, <2>3, <2>4, <2>5
<1> QED
  BY <1>1, <1>3, <1>4, FiniteRests DEF CountInv

(* A commit, granted, refused or unanswered.                               *)
LEMMA CommitCount ==
    ASSUME IInv, CountInv, NEW r \in Runner,
           Commit(r) \/ CommitReplyLost(r) \/ CommitResent(r)
    PROVE  CountInv'
<1>1. /\ pc[r] = "commit" /\ CommitEffect(r) /\ TypeOK
      /\ Key(r) = SubjectOf[alert[r]] /\ failed[r] \in Nat
  BY BoundsAssumption DEF Commit, CommitReplyLost, CommitResent, IInv, TypeOK, Key
<1>2. IsFiniteSet(Log!Accepted)'
  <2>1. CASE CommitReply(r) = 1
    BY <1>1, <2>1, GrantCounts DEF CountInv
  <2>2. CASE CommitReply(r) # 1
    BY <1>1, <2>2, RefusedCommit, FiniteRests
  <2> QED
    BY <2>1, <2>2
<1>3. ASSUME NEW q \in Runner, q # r, pc'[q] # "idle"
      PROVE  Paid(q)'
  <2>1. /\ pc'[q] = pc[q] /\ alert'[q] = alert[q] /\ sawSeen'[q] = sawSeen[q]
        /\ raw'[q] = raw[q] /\ failed'[q] = failed[q]
    BY <1>1, <1>3 DEF TypeOK, Commit, CommitReplyLost, CommitResent, AfterFailedCommit, Return, locals
  <2> QED
    BY <1>1, <1>3, <2>1, StaysPaid
<1>4. Paid(r)'
  <2>1. CASE CommitResent(r)
    BY <1>1, <2>1, StaysPaid DEF CommitResent, locals
  <2>2. CASE Commit(r) \/ CommitReplyLost(r)
    <3>1. PICK k : k = Key(r)
      OBVIOUS
    <3> DEFINE had == Cardinality(About(k))
               has == Cardinality(About(k)')
    <3>2. alert'[r] = alert[r] /\ pc'[r] \in {"done", "exists"}
      BY <1>1, <2>2 DEF TypeOK, Commit, CommitReplyLost, AfterFailedCommit, Return
    <3>3. /\ Cardinality(About(Key(r))) = had
          /\ Cardinality(About(Key(r)))' = has
      BY <3>1, <3>2 DEF About, Key
    <3>4. had \in Nat /\ Paid(r)
      BY <1>1, Counted DEF CountInv
    <3>5. CASE CommitReply(r) = 1
      <4>1. has = had + 1 /\ failed'[r] = failed[r]
        BY <1>1, <2>2, <3>1, <3>5, GrantCounts DEF CountInv, Commit, CommitReplyLost
      <4> HIDE DEF had, has
      <4> QED
        BY <1>1, <3>2, <3>3, <3>4, <4>1 DEF Paid, OutOfDate
    <3>6. CASE CommitReply(r) # 1
      <4>1. OutOfDate(r)
        BY <1>1, <3>6 DEF CommitReply, OutOfDate
      <4>2. failed[r] < had
        BY <3>3, <3>4, <4>1 DEF Paid
      <4>3. has = had
        BY <1>1, <3>6, RefusedCommit DEF history, About, Log!Accepted
      <4>4. failed'[r] <= failed[r] + 1
        BY <1>1, <2>2, <3>6 DEF TypeOK, Commit, CommitReplyLost, AfterFailedCommit
      <4>5. failed'[r] \in Nat
        BY <1>1, <2>2, <3>6 DEF TypeOK, Commit, CommitReplyLost, AfterFailedCommit
      <4> HIDE DEF had, has
      <4> QED
        BY <1>1, <3>2, <3>3, <3>4, <4>2, <4>3, <4>4, <4>5 DEF Paid, OutOfDate
    <3> QED
      BY <3>5, <3>6
  <2> QED
    BY <2>1, <2>2
<1> QED
  BY <1>2, <1>3, <1>4 DEF CountInv

(* Redis, the operator and a restore move while no runner has read anything.*)
LEMMA RestCount ==
    ASSUME IInv, CountInv, UNCHANGED <<history, locals>>,
           UNCHANGED redis \/ \A q \in Runner : pc[q] \in {"idle", "done"}
    PROVE  CountInv'
<1>1. UNCHANGED <<pc, alert, sawSeen, raw, failed>>
  BY DEF locals
<1>2. ASSUME NEW q \in Runner PROVE OutOfDate(q)' => OutOfDate(q)
  BY <1>1 DEF OutOfDate, Key, redis
<1> QED
  BY <1>1, <1>2, RestsPaid, FiniteRests DEF CountInv

LEMMA CountInit == Init => CountInv
<1>1. Init => Log!Accepted = {} /\ \A r \in Runner : pc[r] = "idle"
  BY DEF Init, Log!Accepted
<1> QED
  BY <1>1, FS_EmptySet DEF CountInv

LEMMA CountStep == IInv /\ CountInv /\ [Next]_vars => CountInv'
<1> SUFFICES ASSUME IInv, CountInv, [Next]_vars PROVE CountInv'
  OBVIOUS
<1>1. ASSUME NEW r \in Runner, RunnerStep(r) PROVE CountInv'
  BY <1>1, LocalCount, CommitCount DEF RunnerStep
<1>2. CASE RestoreStep
  <2>1. UNCHANGED <<history, locals>> /\ phase # "live"
    BY <1>2 DEF RestoreStep, RestoreBegin, RestoreNothing, RestoreFails, RestoreCheck,
                RestoreSubject, RestoreMark
  <2> QED
    BY <2>1, RestCount DEF IInv, RunnerInv, RunnerOK
<1>3. CASE Snapshot
  BY <1>3, RestCount DEF Snapshot
<1>4. CASE Restart
  BY <1>4, RestCount DEF Restart
<1>5. CASE Flush
  BY <1>5, RestCount DEF Flush, IInv, RunnerInv, RunnerOK
<1>6. CASE UNCHANGED vars
  BY <1>6, RestCount DEF vars
<1> QED
  BY <1>1, <1>2, <1>3, <1>4, <1>5, <1>6 DEF Next

(* A call gives up after its attempts only if others accepted as many alerts *)
(* of its subject (MAX_COMMIT_ATTEMPTS of state_store.py).                 *)
THEOREM ContentionIsProgress == Spec => []ContentionNeedsProgress
<1>1. IInv /\ CountInv => ContentionNeedsProgress
  BY DEF CountInv, Paid, About, ContentionNeedsProgress
<1> QED
  BY <1>1, CountInit, CountStep, Invariance, PTL DEF Spec

-------------------------------------------------------------------------------
(* Refinement                                                              *)

(* A commit maps to the acceptance of its alert, or to a stutter.          *)
LEMMA CommitAccepts ==
    ASSUME IInv, NEW r \in Runner, pc[r] = "commit", CommitEffect(r)
    PROVE  [Log!Next]_log
<1>1. CASE CommitReply(r) = 1
  <2>1. alert[r] \in Alert
    BY DEF IInv, RunnerInv, RunnerOK
  <2> QED
    BY <1>1, <2>1, GrantedCommit DEF Log!Next, Log!Accept
<1>2. CASE CommitReply(r) # 1
  BY <1>2, RefusedCommit DEF history
<1> QED
  BY <1>1, <1>2

(* Every step of the store is an acceptance or leaves the log alone.       *)
LEMMA StepRefines == IInv /\ [Next]_vars => [Log!Next]_log
<1> SUFFICES ASSUME IInv, [Next]_vars PROVE [Log!Next]_log
  OBVIOUS
<1>1. ASSUME NEW r \in Runner, RunnerStep(r) PROVE [Log!Next]_log
  <2>1. CASE Commit(r) \/ CommitReplyLost(r) \/ CommitResent(r)
    BY <2>1, CommitAccepts DEF Commit, CommitReplyLost, CommitResent
  <2>2. CASE ReadSeen(r) \/ ReadSubject(r) \/ RedisFails(r) \/ Exit(r) \/ \E a \in Alert : Record(r, a)
    BY <2>2 DEF ReadSeen, ReadSubject, RedisFails, Exit, Record, history
  <2> QED
    BY <1>1, <2>1, <2>2 DEF RunnerStep
<1>2. CASE RestoreStep
  BY <1>2 DEF RestoreStep, RestoreBegin, RestoreNothing, RestoreFails, RestoreCheck,
              RestoreSubject, RestoreMark, history
<1>3. CASE Snapshot \/ Restart \/ Flush
  BY <1>3 DEF Snapshot, Restart, Flush, history
<1>4. CASE UNCHANGED vars
  BY <1>4 DEF vars, history
<1> QED
  BY <1>1, <1>2, <1>3, <1>4 DEF Next

(* The store implements the acceptance history: no alert is accepted twice *)
(* and nothing about a setup follows its first accepted invalidation.      *)
THEOREM Implementation == Spec => ImplementsAlertLog
<1>1. Init => Log!Init
  BY DEF Init, Log!Init
<1> QED
  BY <1>1, StepRefines, Invariance, PTL DEF Spec, ImplementsAlertLog, Log!Spec

===============================================================================
