-------------------------- MODULE EventState_proofs --------------------------
(***************************************************************************)
(* Safety of the collectors' Redis protocol for any number of workers,     *)
(* analyses and faults, any lengths of the leases and markers, and any     *)
(* publication time.                                                       *)
(*                                                                         *)
(* IInv ties three things together that the run's invariants keep apart:   *)
(* who holds which key (HoldInv), how long a key outlives the event's      *)
(* freshness (TimeInv), and which analysis is cached, on its way and sent  *)
(* (TextInv, CacheInv, WordingInv).                                        *)
(***************************************************************************)
EXTENDS EventState, TLAPS
-----------------------------------------------------------------------------
(* The inductive invariant.                                                *)

\* The lease.  A worker in a section whose lease has not run out holds the key; a worker is
\* under suspicion only while it is in a section.
HoldInv ==
    /\ \A w \in Worker \ overran : worker[w].pc \in Processing => store["event"].value = w
    /\ \A w \in Worker \ overran : worker[w].pc \in Delivering => store["delivery"].value = w
    /\ \A w \in overran : worker[w].pc \in Processing \cup Delivering

\* Time.  A cycle starts no earlier than the publication, so what it writes outlives the
\* time the event stays fresh.
Stale == now > kind.published + MaxAge
TimeInv ==
    /\ \A w \in Worker : ~At(w, "idle") => now >= kind.published
    /\ Live("processed") => store["processed"].expires > kind.published + MaxAge
    /\ Live("delivered") => store["delivered"].expires > kind.published + MaxAge

\* Analyses.  What is cached or about to be is an analysis or the decision to stay quiet, and
\* what is about to be delivered is an analysis.
Decided(w) == At(w, "cache") \/ (At(w, "release") /\ worker[w].clean)
TextInv ==
    /\ Live("processed") => store["processed"].value \in Texts \cup {Quiet}
    /\ \A w \in Worker : Decided(w) => worker[w].text \in Texts \cup {Quiet}
    /\ \A w \in Worker : worker[w].pc \in {"lease"} \cup Delivering => worker[w].text \in Texts

\* One analysis.  While the event is fresh, what was sent and what may still be sent is what
\* the cache holds; whoever is about to write the cache, and still may, finds it empty.
Cached(t) == Live("processed") /\ store["processed"].value = t
Carries(w) == worker[w].pc \in {"lease", "gate", "send"} \/ (At(w, "release") /\ worker[w].clean)
CacheInv ==
    /\ ~Stale => \A t \in told : Cached(t)
    /\ ~Stale => \A w \in Worker : Carries(w) => Cached(worker[w].text)
    /\ \A w \in Worker :
        worker[w].pc \in {"cooldown", "query", "back_off", "analyze", "cache"} /\ store["event"].value = w
            => ~Live("processed")

\* One wording.  What is being sent agrees with what was sent, also after the cache expired.
WordingInv ==
    /\ SameContent
    /\ \A w \in Worker : At(w, "send") => \A t \in told : t = worker[w].text
    /\ \A v, w \in Worker : At(v, "send") /\ At(w, "send") => worker[v].text = worker[w].text

\* One message.
OnceInv == ~excused =>
    /\ \A w \in Worker : worker[w].pc \in {"gate", "send", "mark"} => w \notin overran
    /\ \A w \in Worker : At(w, "send") => accepted = 0
    /\ accepted <= 1
    /\ accepted = 1 => (\E w \in Worker : At(w, "mark")) \/ Live("delivered") \/ Stale

\* A clean cycle.
DeliveredInv == \A w \in Worker :
    worker[w].pc \in {"unlease", "done"} /\ worker[w].clean /\ worker[w].text \in Texts /\ ~Stale
        => Live("delivered")

\* The cool-down.
CoolInv == failedAt # None =>
    /\ failedAt <= now
    /\ \/ now >= failedAt + RetryAfter
       \/ Live("retry") /\ store["retry"].expires >= failedAt + RetryAfter
       \/ \E w \in Worker \ overran : At(w, "back_off")

IInv ==
    /\ TypeOK
    /\ HoldInv
    /\ TimeInv
    /\ TextInv
    /\ CacheInv
    /\ WordingInv
    /\ OnceInv
    /\ DeliveredInv
    /\ CoolInv
-----------------------------------------------------------------------------
(* What a worker's action does, part by part.                              *)

Locals == [pc : Points, text : Texts \cup {Quiet, None}, clean : BOOLEAN, attempt : 0..MaxAttempts]
Entries == [value : Worker \cup Texts \cup {Quiet, Set, None}, expires : 0..(MaxTime + Ttl + RetryAfter + Lease)]

WorkerNext(w) ==
    \/ Collect(w) \/ Lookup(w) \/ Claim(w) \/ Recheck(w) \/ Cooldown(w) \/ Query(w)
    \/ BackOff(w) \/ Analyze(w) \/ Cache(w) \/ Release(w)
    \/ TakeLease(w) \/ Gate(w) \/ Confirmed(w) \/ Refused(w) \/ Lost(w) \/ Mark(w) \/ Unlease(w)
    \/ Finish(w) \/ RedisFails(w) \/ Crash(w)

\* It moves one worker, and time stands still.
Alone(w) ==
    /\ now' = now /\ kind' = kind
    /\ worker' \in [Worker -> Locals]
    /\ \A v \in Worker \ {w} : worker'[v] = worker[v]

\* It changes a key only from the point in the protocol that owns it.
Entry(v, ttl) == [value |-> v, expires |-> now + ttl]
Commands(w) ==
    /\ store' \in [Keys -> Entries]
    /\ \/ store'["event"] = store["event"]
       \/ At(w, "claim") /\ ~Live("event") /\ store'["event"] = Entry(w, Lease)
       \/ At(w, "release") /\ store["event"].value = w /\ store'["event"] = Nothing
    /\ \/ store'["delivery"] = store["delivery"]
       \/ At(w, "lease") /\ ~Live("delivery") /\ store'["delivery"] = Entry(w, Lease)
       \/ At(w, "unlease") /\ store["delivery"].value = w /\ store'["delivery"] = Nothing
    /\ \/ store'["processed"] = store["processed"]
       \/ At(w, "cache") /\ store["event"].value = w /\ store'["processed"] = Entry(worker[w].text, Ttl)
    /\ \/ store'["delivered"] = store["delivered"]
       \/ At(w, "mark") /\ store'["delivered"] = Entry(Set, Ttl)
    /\ \/ store'["retry"] = store["retry"]
       \/ At(w, "back_off") /\ store'["retry"] = Entry(Set, RetryAfter)

\* How a worker comes to a point.
Comes(w, from) == worker[w].pc \in from /\ worker'[w].text = worker[w].text
ToProcessing(w) ==
    /\ worker'[w].pc = "lookup" => Fresh
    /\ worker'[w].pc = "recheck" => Comes(w, {"claim"}) /\ ~Live("event") /\ store'["event"] = Entry(w, Lease)
    /\ worker'[w].pc = "cooldown" => Comes(w, {"recheck"}) /\ ~Live("processed")
    /\ worker'[w].pc = "query" => Comes(w, {"cooldown"}) /\ ~Live("retry")
    /\ worker'[w].pc = "back_off" =>
         Comes(w, {"query"}) /\ failedAt' = IF w \in overran THEN failedAt ELSE now
    /\ worker'[w].pc = "analyze" => Comes(w, {"query"}) \/ (Comes(w, {"recheck"}) /\ ~Live("processed"))
    /\ worker'[w].pc = "cache" =>
         /\ worker'[w].text \in Texts \cup {Quiet}
         /\ worker[w].pc \in {"query", "analyze"} \/ (At(w, "recheck") /\ ~Live("processed"))
    /\ worker'[w].pc = "release" =>
         /\ worker[w].pc \in Processing \ {"release"}
         /\ worker'[w].clean => /\ Comes(w, {"cache"})
                                /\ store'["processed"] = Entry(worker[w].text, Ttl)
ToDelivering(w) ==
    /\ worker'[w].pc = "lease" =>
         /\ worker'[w].text # Quiet
         /\ \/ At(w, "lookup") /\ Live("processed") /\ worker'[w].text = store["processed"].value
            \/ Comes(w, {"release"}) /\ worker[w].clean
    /\ worker'[w].pc = "gate" => Comes(w, {"lease"}) /\ ~Live("delivery") /\ store'["delivery"] = Entry(w, Lease)
    /\ worker'[w].pc = "send" => Comes(w, {"send"}) \/ (Comes(w, {"gate"}) /\ Pending)
    /\ worker'[w].pc = "mark" => Comes(w, {"send"}) /\ accepted' = accepted + 1
    /\ worker'[w].pc = "unlease" =>
         /\ Comes(w, Delivering \ {"unlease"})
         /\ worker'[w].clean => \/ At(w, "gate") /\ ~Pending
                                \/ At(w, "mark") /\ store'["delivered"] = Entry(Set, Ttl)
    /\ worker'[w].pc = "done" /\ worker'[w].clean =>
         \/ At(w, "lookup") /\ Live("processed") /\ worker'[w].text = store["processed"].value
               /\ ToDelivery(worker'[w].text) = "done"
         \/ Comes(w, {"release"}) /\ worker[w].clean /\ ToDelivery(worker[w].text) = "done"
         \/ Comes(w, {"unlease"}) /\ worker[w].clean
Moves(w) == ToProcessing(w) /\ ToDelivering(w) /\ (~At(w, "idle") \/ worker'[w].pc \in {"idle", "lookup"})

\* What it leaves for the record.
Ghosts(w) ==
    /\ \/ accepted' = accepted /\ told' = told
       \/ /\ At(w, "send") /\ accepted' = accepted + 1 /\ told' = told \cup {worker[w].text}
          /\ worker'[w].pc = "mark" \/ excused'
    /\ excused' \in BOOLEAN /\ (excused => excused') /\ faults' \in 0..MaxFaults
    /\ At(w, "mark") => excused' \/ (worker'[w].pc = "unlease" /\ store'["delivered"] = Entry(Set, Ttl))
    /\ \/ overran' = overran
       \/ overran' = overran \ {w} /\ worker'[w].pc \notin Processing \cup Delivering
    /\ w \in overran' => \/ worker[w].pc \in Processing /\ worker'[w].pc \in Processing
                         \/ worker[w].pc \in Delivering /\ worker'[w].pc \in Delivering
                         \/ worker[w].pc \notin Processing \cup Delivering
    /\ failedAt' \in {failedAt, None} \/ (At(w, "query") /\ worker'[w].pc = "back_off")
    /\ At(w, "back_off") => failedAt' = None \/ store'["retry"] = Entry(Set, RetryAfter)

Summary(w) == Alone(w) /\ Commands(w) /\ Moves(w) /\ Ghosts(w)
-----------------------------------------------------------------------------
LEMMA Parameters ==
  /\ MaxAge \in Nat /\ DedupTtl \in Nat /\ Lease \in Nat /\ RetryAfter \in Nat /\ MaxTime \in Nat
  /\ MaxFaults \in Nat /\ MaxAttempts \in Nat /\ MaxAttempts >= 1
  /\ Ttl \in Nat /\ Ttl > MaxAge
BY ParametersAssumption DEF Ttl

LEMMA Sorts ==
  /\ None \notin Worker /\ None \notin Texts /\ None # Quiet /\ None # Set
  /\ Quiet \notin Texts
BY ValuesAssumption

LEMMA Clock ==
  ASSUME TypeOK
  PROVE  now \in Nat /\ kind.published \in Nat
<1>1. kind \in [collector : Collectors, published : Published, alert : BOOLEAN]
  BY DEF TypeOK
<1>2. kind.published \in Published
  BY <1>1
<1>3. Published \subseteq Nat
  BY ParametersAssumption
<1>4. now \in Nat
  BY Parameters DEF TypeOK
<1> QED
  BY <1>2, <1>3, <1>4

\* A key that is not there holds no token.
LEMMA Absent ==
  ASSUME TypeOK, NEW k \in Keys, ~Live(k)
  PROVE  store[k].value = None
BY DEF Live, Nothing

LEMMA NewEntry ==
  ASSUME TypeOK, NEW v \in Worker \cup Texts \cup {Quiet, Set, None}, NEW ttl \in {Ttl, RetryAfter, Lease}
  PROVE  Entry(v, ttl) \in Entries
BY Parameters DEF TypeOK, Entry, Entries

\* Every command leaves Redis as its point in the protocol allows.
LEMMA CommandIssued ==
  ASSUME TypeOK, NEW w \in Worker, store' \in {store, Issued(w)}
  PROVE  Commands(w)
<1> USE DEF Keys
<1>1. store \in [Keys -> Entries] /\ Nothing \in Entries
  BY Parameters DEF TypeOK, Entries, Nothing
<1>2. worker[w].text \in Texts \cup {Quiet, None} /\ worker[w].pc \in Points
  BY DEF TypeOK
<1>3. CASE store' = store
  BY <1>1, <1>3 DEF Commands
<1>4. CASE At(w, "claim") /\ store' = Acquired("event", w)
  <2>1. Entry(w, Lease) \in Entries
    BY NewEntry
  <2>2. store' \in [Keys -> Entries]
    BY <1>1, <1>4, <2>1 DEF Acquired, SetEx, Entry
  <2>3. CASE Live("event")
    BY <1>1, <1>3, <1>4, <2>3 DEF Acquired
  <2>4. CASE ~Live("event")
    <3>1. store' = [store EXCEPT !["event"] = Entry(w, Lease)]
      BY <1>4, <2>4 DEF Acquired, SetEx, Entry
    <3> QED
      BY <1>1, <1>4, <2>2, <2>4, <3>1 DEF Commands
  <2> QED
    BY <2>3, <2>4
<1>5. CASE At(w, "lease") /\ store' = Acquired("delivery", w)
  <2>1. Entry(w, Lease) \in Entries
    BY NewEntry
  <2>2. store' \in [Keys -> Entries]
    BY <1>1, <1>5, <2>1 DEF Acquired, SetEx, Entry
  <2>3. CASE Live("delivery")
    BY <1>1, <1>3, <1>5, <2>3 DEF Acquired
  <2>4. CASE ~Live("delivery")
    <3>1. store' = [store EXCEPT !["delivery"] = Entry(w, Lease)]
      BY <1>5, <2>4 DEF Acquired, SetEx, Entry
    <3> QED
      BY <1>1, <1>5, <2>2, <2>4, <3>1 DEF Commands
  <2> QED
    BY <2>3, <2>4
<1>6. CASE At(w, "back_off") /\ store' = CoolingDown
  <2>1. store' = [store EXCEPT !["retry"] = Entry(Set, RetryAfter)]
    BY <1>6 DEF CoolingDown, SetEx, Entry
  <2>2. Entry(Set, RetryAfter) \in Entries
    BY NewEntry
  <2>3. store' \in [Keys -> Entries]
    BY <1>1, <2>1, <2>2
  <2> QED
    BY <1>1, <1>6, <2>1, <2>3 DEF Commands
<1>7. CASE At(w, "cache") /\ store' = CachedIfOwner(w, worker[w].text)
  <2>1. CASE store["event"].value = w
    <3>1. store' = [store EXCEPT !["processed"] = Entry(worker[w].text, Ttl)]
      BY <1>7, <2>1 DEF CachedIfOwner, SetEx, Entry
    <3>2. Entry(worker[w].text, Ttl) \in Entries
      BY <1>2, NewEntry
    <3>3. store' \in [Keys -> Entries]
      BY <1>1, <3>1, <3>2
    <3> QED
      BY <1>1, <1>7, <2>1, <3>1, <3>3 DEF Commands
  <2>2. CASE store["event"].value # w
    BY <1>3, <1>7, <2>2 DEF CachedIfOwner
  <2> QED
    BY <2>1, <2>2
<1>8. CASE At(w, "release") /\ store' = Released("event", w)
  <2>1. store' = store \/ (store["event"].value = w /\ store' = [store EXCEPT !["event"] = Nothing])
    BY <1>8 DEF Released
  <2> QED
    BY <1>1, <1>3, <1>8, <2>1 DEF Commands
<1>9. CASE At(w, "unlease") /\ store' = Released("delivery", w)
  <2>1. store' = store \/ (store["delivery"].value = w /\ store' = [store EXCEPT !["delivery"] = Nothing])
    BY <1>9 DEF Released
  <2> QED
    BY <1>1, <1>3, <1>9, <2>1 DEF Commands
<1>10. CASE At(w, "mark") /\ store' = SetEx("delivered", Set, Ttl)
  <2>1. store' = [store EXCEPT !["delivered"] = Entry(Set, Ttl)]
    BY <1>10 DEF SetEx, Entry
  <2>2. Entry(Set, Ttl) \in Entries
    BY NewEntry
  <2>3. store' \in [Keys -> Entries]
    BY <1>1, <2>1, <2>2
  <2> QED
    BY <1>1, <1>10, <2>1, <2>3 DEF Commands
<1> QED
  BY <1>3, <1>4, <1>5, <1>6, <1>7, <1>8, <1>9, <1>10 DEF Issued, At

\* A worker moves on, and nobody else does.
Becomes(w, point, text, clean, attempt) ==
    /\ worker' \in [Worker -> Locals]
    /\ \A v \in Worker \ {w} : worker'[v] = worker[v]
    /\ worker'[w].pc = point /\ worker'[w].text = text
    /\ worker'[w].clean = clean /\ worker'[w].attempt = attempt

LEMMA GoingTo ==
  ASSUME TypeOK, NEW w \in Worker, NEW point \in Points, Goto(w, point)
  PROVE  Becomes(w, point, worker[w].text, worker[w].clean, worker[w].attempt)
BY DEF TypeOK, Goto, Becomes, Locals

LEMMA TurnedAway ==
  ASSUME TypeOK, NEW w \in Worker, NEW point \in Points, TurnAway(w, point)
  PROVE  Becomes(w, point, worker[w].text, FALSE, worker[w].attempt)
BY DEF TypeOK, TurnAway, Becomes, Locals

LEMMA TextSet ==
  ASSUME TypeOK, NEW w \in Worker, NEW point \in Points, NEW t \in Texts \cup {Quiet, None},
         worker' = [worker EXCEPT ![w].text = t, ![w].pc = point]
  PROVE  Becomes(w, point, t, worker[w].clean, worker[w].attempt)
BY DEF TypeOK, Becomes, Locals

LEMMA Ended ==
  ASSUME TypeOK, NEW w \in Worker, worker' = [worker EXCEPT ![w] = Idle]
  PROVE  Becomes(w, "idle", None, TRUE, 0)
BY Parameters DEF TypeOK, Becomes, Locals, Idle, Points

-----------------------------------------------------------------------------
(* Every action of a worker is summed up.                                  *)

LEMMA SummaryOf ==
  ASSUME TypeOK, NEW w \in Worker, NEW point, NEW text, NEW clean, NEW attempt,
         Becomes(w, point, text, clean, attempt),
         store' \in {store, Issued(w)}, now' = now, kind' = kind, Moves(w), Ghosts(w)
  PROVE  Summary(w)
BY CommandIssued DEF Becomes, Alone, Summary

LEMMA ProcessingSteps ==
  ASSUME TypeOK, TextInv, NEW w \in Worker,
         Collect(w) \/ Lookup(w) \/ Claim(w) \/ Recheck(w) \/ Cooldown(w) \/ Query(w)
           \/ BackOff(w) \/ Analyze(w) \/ Cache(w) \/ Release(w)
  PROVE  Summary(w)
<1> USE DEF Moves, ToProcessing, ToDelivering, Ghosts, Comes
<1>0. /\ worker[w].text \in Texts \cup {Quiet, None} /\ worker[w].clean \in BOOLEAN
      /\ worker \in [Worker -> Locals]
      /\ store \in [Keys -> Entries]
      /\ excused \in BOOLEAN /\ faults \in 0..MaxFaults /\ overran \subseteq Worker
  BY DEF TypeOK, Locals, Entries
<1>1. CASE Collect(w)
  <2>1. At(w, "idle") /\ UNCHANGED <<now, kind, store, ghosts>>
    BY <1>1 DEF Collect
  <2>2. CASE Fresh /\ Goto(w, "lookup")
    <3>1. Becomes(w, "lookup", worker[w].text, worker[w].clean, worker[w].attempt)
      BY <2>2, GoingTo DEF Points
    <3>2. Moves(w) /\ Ghosts(w)
      BY <1>0, <2>1, <2>2, <3>1 DEF Becomes, At, ghosts, Processing, Delivering
    <3> QED
      BY <2>1, <3>1, <3>2, SummaryOf
  <2>3. CASE UNCHANGED worker
    <3>1. Becomes(w, "idle", worker[w].text, worker[w].clean, worker[w].attempt)
      BY <1>0, <2>1, <2>3 DEF Becomes, At
    <3>2. Moves(w) /\ Ghosts(w)
      BY <1>0, <2>1, <3>1 DEF Becomes, At, ghosts, Processing, Delivering
    <3> QED
      BY <2>1, <3>1, <3>2, SummaryOf
  <2> QED
    BY <1>1, <2>2, <2>3 DEF Collect
<1>2. CASE Lookup(w)
  <2>1. At(w, "lookup") /\ UNCHANGED <<now, kind, store, ghosts>>
    BY <1>2 DEF Lookup
  <2>2. CASE Live("processed")
    <3> DEFINE t == store["processed"].value
    <3>1. ToDelivery(t) \in {"lease", "done"} /\ (ToDelivery(t) = "lease" => t # Quiet)
      BY DEF ToDelivery
    <3>2. t \in Texts \cup {Quiet, None} /\ ToDelivery(t) \in Points
      BY <2>2, <3>1 DEF TextInv, Points
    <3>3. worker' = [worker EXCEPT ![w].text = t, ![w].pc = ToDelivery(t)]
      BY <1>2, <2>2 DEF Lookup
    <3>4. Becomes(w, ToDelivery(t), t, worker[w].clean, worker[w].attempt)
      BY <3>2, <3>3, TextSet
    <3>5. Moves(w)
      BY <2>1, <2>2, <3>1, <3>4 DEF Becomes, At, Processing, Delivering
    <3>6. Ghosts(w)
      BY <1>0, <2>1 DEF At, ghosts, Processing, Delivering
    <3> QED
      BY <2>1, <3>4, <3>5, <3>6, SummaryOf
  <2>3. CASE ~Live("processed")
    <3>1. Becomes(w, "claim", worker[w].text, worker[w].clean, worker[w].attempt)
      BY <1>2, <2>3, GoingTo DEF Points, Lookup
    <3>2. Moves(w) /\ Ghosts(w)
      BY <1>0, <2>1, <3>1 DEF Becomes, At, ghosts, Processing, Delivering
    <3> QED
      BY <2>1, <3>1, <3>2, SummaryOf
  <2> QED
    BY <2>2, <2>3
<1>3. CASE Claim(w)
  <2>1. /\ At(w, "claim") /\ UNCHANGED <<now, kind, ghosts>>
        /\ store' = Acquired("event", w)
    BY <1>3 DEF Claim
  <2>2. store' = Issued(w)
    BY <2>1 DEF Issued, At
  <2>3. CASE Live("event")
    <3>1. Becomes(w, "done", worker[w].text, FALSE, worker[w].attempt)
      BY <1>3, <2>3, TurnedAway DEF Points, Claim
    <3>2. Moves(w) /\ Ghosts(w)
      BY <1>0, <2>1, <3>1 DEF Becomes, At, ghosts, Processing, Delivering
    <3> QED
      BY <2>1, <2>2, <3>1, <3>2, SummaryOf
  <2>4. CASE ~Live("event")
    <3>1. Becomes(w, "recheck", worker[w].text, worker[w].clean, worker[w].attempt)
      BY <1>3, <2>4, GoingTo DEF Points, Processing, Claim
    <3>2. store'["event"] = Entry(w, Lease)
      BY <1>0, <2>1, <2>4 DEF Acquired, SetEx, Entry, Keys
    <3>3. Moves(w) /\ Ghosts(w)
      BY <1>0, <2>1, <2>4, <3>1, <3>2 DEF Becomes, At, ghosts, Processing, Delivering
    <3> QED
      BY <2>1, <2>2, <3>1, <3>3, SummaryOf
  <2> QED
    BY <2>3, <2>4
<1>4. ASSUME StartAnalysis(w), worker[w].pc \in {"recheck", "query"},
             At(w, "recheck") => ~Live("processed"),
             UNCHANGED <<now, kind, store, accepted, told, excused, overran, faults, failedAt>>
      PROVE  Summary(w)
  <2>1. CASE Goto(w, "analyze")
    <3>1. Becomes(w, "analyze", worker[w].text, worker[w].clean, worker[w].attempt)
      BY <2>1, GoingTo DEF Points, Processing
    <3>2. Moves(w) /\ Ghosts(w)
      BY <1>0, <1>4, <3>1 DEF Becomes, At, Processing, Delivering
    <3> QED
      BY <1>4, <3>1, <3>2, SummaryOf
  <2>2. CASE worker' = [worker EXCEPT ![w].text = Quiet, ![w].pc = "cache"]
    <3>1. Becomes(w, "cache", Quiet, worker[w].clean, worker[w].attempt)
      BY <2>2, TextSet DEF Points, Processing
    <3>2. Moves(w) /\ Ghosts(w)
      BY <1>0, <1>4, <3>1 DEF Becomes, At, Processing, Delivering
    <3> QED
      BY <1>4, <3>1, <3>2, SummaryOf
  <2> QED
    BY <1>4, <2>1, <2>2 DEF StartAnalysis
<1>5. ASSUME NEW point \in {"recheck", "cooldown"}, At(w, point), TurnAway(w, "release"),
             UNCHANGED <<now, kind, store, ghosts>>
      PROVE  Summary(w)
  <2>1. Becomes(w, "release", worker[w].text, FALSE, worker[w].attempt)
    BY <1>5, TurnedAway DEF Points, Processing
  <2>2. Moves(w) /\ Ghosts(w)
    BY <1>0, <1>5, <2>1 DEF Becomes, At, ghosts, Processing, Delivering
  <2> QED
    BY <1>5, <2>1, <2>2, SummaryOf
<1>6. CASE Recheck(w)
  <2>1. At(w, "recheck") /\ UNCHANGED <<now, kind, store, ghosts>>
    BY <1>6 DEF Recheck
  <2>2. CASE TurnAway(w, "release")
    BY <1>5, <2>1, <2>2
  <2>3. CASE ~Live("processed") /\ Goto(w, "cooldown")
    <3>1. Becomes(w, "cooldown", worker[w].text, worker[w].clean, worker[w].attempt)
      BY <2>3, GoingTo DEF Points, Processing
    <3>2. Moves(w) /\ Ghosts(w)
      BY <1>0, <2>1, <2>3, <3>1 DEF Becomes, At, ghosts, Processing, Delivering
    <3> QED
      BY <2>1, <3>1, <3>2, SummaryOf
  <2>4. CASE ~Live("processed") /\ StartAnalysis(w)
    BY <1>4, <2>1, <2>4 DEF At, ghosts
  <2> QED
    BY <1>6, <2>2, <2>3, <2>4 DEF Recheck
<1>7. CASE Cooldown(w)
  <2>1. At(w, "cooldown") /\ UNCHANGED <<now, kind, store, ghosts>>
    BY <1>7 DEF Cooldown
  <2>2. CASE TurnAway(w, "release")
    BY <1>5, <2>1, <2>2
  <2>3. CASE ~Live("retry") /\ Goto(w, "query")
    <3>1. Becomes(w, "query", worker[w].text, worker[w].clean, worker[w].attempt)
      BY <2>3, GoingTo DEF Points, Processing
    <3>2. Moves(w) /\ Ghosts(w)
      BY <1>0, <2>1, <2>3, <3>1 DEF Becomes, At, ghosts, Processing, Delivering
    <3> QED
      BY <2>1, <3>1, <3>2, SummaryOf
  <2> QED
    BY <1>7, <2>2, <2>3 DEF Cooldown
<1>8. CASE Query(w)
  <2>1. /\ At(w, "query")
        /\ UNCHANGED <<now, kind, store, accepted, told, excused, overran, faults>>
    BY <1>8 DEF Query
  <2>2. CASE StartAnalysis(w) /\ UNCHANGED failedAt
    BY <1>4, <2>1, <2>2 DEF At
  <2>3. CASE Goto(w, "back_off") /\ failedAt' = IF w \in overran THEN failedAt ELSE now
    <3>1. Becomes(w, "back_off", worker[w].text, worker[w].clean, worker[w].attempt)
      BY <2>3, GoingTo DEF Points, Processing
    <3>2. Moves(w) /\ Ghosts(w)
      BY <1>0, <2>1, <2>3, <3>1 DEF Becomes, At, Processing, Delivering
    <3> QED
      BY <2>1, <3>1, <3>2, SummaryOf
  <2> QED
    BY <1>8, <2>2, <2>3 DEF Query
<1>9. CASE BackOff(w)
  <2>1. /\ At(w, "back_off") /\ UNCHANGED <<now, kind, ghosts>>
        /\ store' = CoolingDown /\ TurnAway(w, "release")
    BY <1>9 DEF BackOff
  <2>2. store' = Issued(w)
    BY <2>1 DEF Issued, At
  <2>3. Becomes(w, "release", worker[w].text, FALSE, worker[w].attempt)
    BY <2>1, TurnedAway DEF Points, Processing
  <2>4. store'["retry"] = Entry(Set, RetryAfter)
    BY <1>0, <2>1 DEF CoolingDown, SetEx, Entry, Keys
  <2>5. Moves(w) /\ Ghosts(w)
    BY <1>0, <2>1, <2>3, <2>4 DEF Becomes, At, ghosts, Processing, Delivering
  <2> QED
    BY <2>1, <2>2, <2>3, <2>5, SummaryOf
<1>10. CASE Analyze(w)
  <2>1. At(w, "analyze") /\ UNCHANGED <<now, kind, store, ghosts>>
    BY <1>10 DEF Analyze
  <2>2. PICK t \in Texts : worker' = [worker EXCEPT ![w].text = t, ![w].pc = "cache"]
    BY <1>10 DEF Analyze
  <2>3. Becomes(w, "cache", t, worker[w].clean, worker[w].attempt)
    BY <2>2, TextSet DEF Points, Processing
  <2>4. Moves(w) /\ Ghosts(w)
    BY <1>0, <2>1, <2>3 DEF Becomes, At, ghosts, Processing, Delivering
  <2> QED
    BY <2>1, <2>3, <2>4, SummaryOf
<1>11. CASE Cache(w)
  <2>1. /\ At(w, "cache") /\ UNCHANGED <<now, kind, ghosts>>
        /\ store' = CachedIfOwner(w, worker[w].text)
    BY <1>11 DEF Cache
  <2>2. store' = Issued(w)
    BY <2>1 DEF Issued, At
  <2>3. CASE store'["processed"] # store["processed"]
    <3>1. Becomes(w, "release", worker[w].text, worker[w].clean, worker[w].attempt)
      BY <1>11, <2>3, GoingTo DEF Points, Processing, Cache
    <3>2. store'["processed"] = Entry(worker[w].text, Ttl)
      BY <1>0, <2>1, <2>3 DEF CachedIfOwner, SetEx, Entry, Keys
    <3>3. Moves(w) /\ Ghosts(w)
      BY <1>0, <2>1, <3>1, <3>2 DEF Becomes, At, ghosts, Processing, Delivering
    <3> QED
      BY <2>1, <2>2, <3>1, <3>3, SummaryOf
  <2>4. CASE store'["processed"] = store["processed"]
    <3>1. Becomes(w, "release", worker[w].text, FALSE, worker[w].attempt)
      BY <1>11, <2>4, TurnedAway DEF Points, Processing, Cache
    <3>2. Moves(w) /\ Ghosts(w)
      BY <1>0, <2>1, <3>1 DEF Becomes, At, ghosts, Processing, Delivering
    <3> QED
      BY <2>1, <2>2, <3>1, <3>2, SummaryOf
  <2> QED
    BY <2>3, <2>4
<1>12. CASE Release(w)
  <2>1. /\ At(w, "release") /\ UNCHANGED <<now, kind, accepted, told, excused, failedAt, faults>>
        /\ store' = Released("event", w) /\ overran' = overran \ {w}
    BY <1>12 DEF Release, Leave
  <2>2. store' = Issued(w)
    BY <2>1 DEF Issued, At
  <2> DEFINE next == IF worker[w].clean THEN ToDelivery(worker[w].text) ELSE "done"
  <2>3. /\ next \in {"lease", "done"}
        /\ next = "lease" => worker[w].clean /\ worker[w].text # Quiet
        /\ next = "done" /\ worker[w].clean => ToDelivery(worker[w].text) = "done"
    BY DEF ToDelivery
  <2>4. next \in Points
    BY <2>3 DEF Points
  <2>5. Goto(w, next)
    BY <1>12 DEF Release
  <2> HIDE DEF next
  <2>6. Becomes(w, next, worker[w].text, worker[w].clean, worker[w].attempt)
    BY <2>4, <2>5, GoingTo
  <2>7. Moves(w) /\ Ghosts(w)
    BY <1>0, <2>1, <2>3, <2>6 DEF Becomes, At, Processing, Delivering
  <2> QED
    BY <2>1, <2>2, <2>6, <2>7, SummaryOf
<1> QED
  BY <1>1, <1>2, <1>3, <1>6, <1>7, <1>8, <1>9, <1>10, <1>11, <1>12

LEMMA DeliveringSteps ==
  ASSUME TypeOK, TextInv, NEW w \in Worker,
         TakeLease(w) \/ Gate(w) \/ Confirmed(w) \/ Refused(w) \/ Lost(w) \/ Mark(w) \/ Unlease(w)
           \/ Finish(w)
  PROVE  Summary(w)
<1> USE DEF Moves, ToProcessing, ToDelivering, Ghosts, Comes
<1>0. /\ worker[w].text \in Texts \cup {Quiet, None} /\ worker[w].clean \in BOOLEAN
      /\ worker \in [Worker -> Locals]
      /\ store \in [Keys -> Entries]
      /\ excused \in BOOLEAN /\ faults \in 0..MaxFaults /\ overran \subseteq Worker
  BY DEF TypeOK, Locals, Entries
<1>1. CASE TakeLease(w)
  <2>1. /\ At(w, "lease") /\ UNCHANGED <<now, kind, ghosts>>
        /\ store' = Acquired("delivery", w)
    BY <1>1 DEF TakeLease
  <2>2. store' = Issued(w)
    BY <2>1 DEF Issued, At
  <2>3. CASE Live("delivery")
    <3>1. Becomes(w, "done", worker[w].text, FALSE, worker[w].attempt)
      BY <1>1, <2>3, TurnedAway DEF Points, TakeLease
    <3>2. Moves(w) /\ Ghosts(w)
      BY <1>0, <2>1, <3>1 DEF Becomes, At, ghosts, Processing, Delivering
    <3> QED
      BY <2>1, <2>2, <3>1, <3>2, SummaryOf
  <2>4. CASE ~Live("delivery")
    <3>1. Becomes(w, "gate", worker[w].text, worker[w].clean, worker[w].attempt)
      BY <1>1, <2>4, GoingTo DEF Points, Delivering, TakeLease
    <3>2. store'["delivery"] = Entry(w, Lease)
      BY <1>0, <2>1, <2>4 DEF Acquired, SetEx, Entry, Keys
    <3>3. Moves(w) /\ Ghosts(w)
      BY <1>0, <2>1, <2>4, <3>1, <3>2 DEF Becomes, At, ghosts, Processing, Delivering
    <3> QED
      BY <2>1, <2>2, <3>1, <3>3, SummaryOf
  <2> QED
    BY <2>3, <2>4
<1>2. CASE Gate(w)
  <2>1. At(w, "gate") /\ UNCHANGED <<now, kind, store, ghosts>>
    BY <1>2 DEF Gate
  <2>2. CASE Pending
    <3>1. worker' = [worker EXCEPT ![w].pc = "send", ![w].attempt = 1]
      BY <1>2, <2>2 DEF Gate
    <3>2. "send" \in Points /\ 1 \in 0..MaxAttempts
      BY Parameters DEF Points, Delivering
    <3>3. Becomes(w, "send", worker[w].text, worker[w].clean, 1)
      BY <1>0, <3>1, <3>2 DEF Becomes, Locals
    <3>4. Moves(w) /\ Ghosts(w)
      BY <1>0, <2>1, <2>2, <3>3 DEF Becomes, At, ghosts, Processing, Delivering
    <3> QED
      BY <2>1, <3>3, <3>4, SummaryOf
  <2>3. CASE ~Pending
    <3>1. Becomes(w, "unlease", worker[w].text, worker[w].clean, worker[w].attempt)
      BY <1>2, <2>3, GoingTo DEF Points, Delivering, Gate, Goto
    <3>2. Moves(w) /\ Ghosts(w)
      BY <1>0, <2>1, <2>3, <3>1 DEF Becomes, At, ghosts, Processing, Delivering
    <3> QED
      BY <2>1, <3>1, <3>2, SummaryOf
  <2> QED
    BY <2>2, <2>3
<1>3. CASE Confirmed(w)
  <2>1. /\ At(w, "send") /\ UNCHANGED <<now, kind, store, excused, overran, failedAt, faults>>
        /\ accepted' = accepted + 1 /\ told' = told \cup {worker[w].text}
    BY <1>3 DEF Confirmed, Accept
  <2>2. Becomes(w, "mark", worker[w].text, worker[w].clean, worker[w].attempt)
    BY <1>3, GoingTo DEF Points, Delivering, Confirmed
  <2>3. Moves(w) /\ Ghosts(w)
    BY <1>0, <2>1, <2>2 DEF Becomes, At, Processing, Delivering
  <2> QED
    BY <2>1, <2>2, <2>3, SummaryOf
<1>4. ASSUME At(w, "send"), Unconfirmed(w)
      PROVE  \E point \in {"send", "unlease"}, clean \in BOOLEAN, attempt \in 0..MaxAttempts :
               Becomes(w, point, worker[w].text, clean, attempt) /\ (point = "unlease" => ~clean)
  <2>1. CASE ~LastAttempt(w) /\ worker' = [worker EXCEPT ![w].attempt = @ + 1]
    <3>1. worker[w].attempt + 1 \in 0..MaxAttempts
      BY <2>1, Parameters DEF TypeOK, LastAttempt
    <3>2. Becomes(w, "send", worker[w].text, worker[w].clean, worker[w].attempt + 1)
      BY <1>4, <2>1, <3>1 DEF TypeOK, Becomes, Locals, At
    <3> QED
      BY <1>0, <3>1, <3>2
  <2>2. CASE TurnAway(w, "unlease")
    <3>1. Becomes(w, "unlease", worker[w].text, FALSE, worker[w].attempt)
      BY <2>2, TurnedAway DEF Points, Delivering
    <3>2. worker[w].attempt \in 0..MaxAttempts
      BY DEF TypeOK
    <3> QED
      BY <3>1, <3>2
  <2> QED
    BY <1>4, <2>1, <2>2 DEF Unconfirmed
<1>5. CASE Refused(w)
  <2>1. At(w, "send") /\ Unconfirmed(w) /\ UNCHANGED <<now, kind, store, ghosts>>
    BY <1>5 DEF Refused
  <2>2. PICK point \in {"send", "unlease"}, clean \in BOOLEAN, attempt \in 0..MaxAttempts :
             Becomes(w, point, worker[w].text, clean, attempt) /\ (point = "unlease" => ~clean)
    BY <1>4, <2>1
  <2>3. Moves(w) /\ Ghosts(w)
    BY <1>0, <2>1, <2>2 DEF Becomes, At, ghosts, Processing, Delivering
  <2> QED
    BY <2>1, <2>2, <2>3, SummaryOf
<1>6. CASE Lost(w)
  <2>1. /\ At(w, "send") /\ Unconfirmed(w) /\ UNCHANGED <<now, kind, store, overran, failedAt>>
        /\ accepted' = accepted + 1 /\ told' = told \cup {worker[w].text}
        /\ excused' = TRUE /\ faults' \in 0..MaxFaults
    BY <1>0, <1>6, Parameters DEF Lost, Accept
  <2>2. PICK point \in {"send", "unlease"}, clean \in BOOLEAN, attempt \in 0..MaxAttempts :
             Becomes(w, point, worker[w].text, clean, attempt) /\ (point = "unlease" => ~clean)
    BY <1>4, <2>1
  <2>3. Moves(w) /\ Ghosts(w)
    BY <1>0, <2>1, <2>2 DEF Becomes, At, Processing, Delivering
  <2> QED
    BY <2>1, <2>2, <2>3, SummaryOf
<1>7. CASE Mark(w)
  <2>1. /\ At(w, "mark") /\ UNCHANGED <<now, kind, ghosts>>
        /\ store' = SetEx("delivered", Set, Ttl) /\ Goto(w, "unlease")
    BY <1>7 DEF Mark
  <2>2. store' = Issued(w)
    BY <2>1 DEF Issued, At
  <2>3. Becomes(w, "unlease", worker[w].text, worker[w].clean, worker[w].attempt)
    BY <2>1, GoingTo DEF Points, Delivering
  <2>4. store'["delivered"] = Entry(Set, Ttl)
    BY <1>0, <2>1 DEF SetEx, Entry, Keys
  <2>5. Moves(w) /\ Ghosts(w)
    BY <1>0, <2>1, <2>3, <2>4 DEF Becomes, At, ghosts, Processing, Delivering
  <2> QED
    BY <2>1, <2>2, <2>3, <2>5, SummaryOf
<1>8. CASE Unlease(w)
  <2>1. /\ At(w, "unlease") /\ UNCHANGED <<now, kind, accepted, told, excused, failedAt, faults>>
        /\ store' = Released("delivery", w) /\ overran' = overran \ {w} /\ Goto(w, "done")
    BY <1>8 DEF Unlease, Leave
  <2>2. store' = Issued(w)
    BY <2>1 DEF Issued, At
  <2>3. Becomes(w, "done", worker[w].text, worker[w].clean, worker[w].attempt)
    BY <2>1, GoingTo DEF Points
  <2>4. Moves(w) /\ Ghosts(w)
    BY <1>0, <2>1, <2>3 DEF Becomes, At, Processing, Delivering
  <2> QED
    BY <2>1, <2>2, <2>3, <2>4, SummaryOf
<1>9. CASE Finish(w)
  <2>1. At(w, "done") /\ UNCHANGED <<now, kind, store, ghosts>>
    BY <1>9 DEF Finish
  <2>2. Becomes(w, "idle", None, TRUE, 0)
    BY <1>9, Ended DEF Finish
  <2>3. Moves(w) /\ Ghosts(w)
    BY <1>0, <2>1, <2>2 DEF Becomes, At, ghosts, Processing, Delivering
  <2> QED
    BY <2>1, <2>2, <2>3, SummaryOf
<1> QED
  BY <1>1, <1>2, <1>3, <1>5, <1>6, <1>7, <1>8, <1>9

LEMMA FaultSteps ==
  ASSUME TypeOK, TextInv, NEW w \in Worker, RedisFails(w) \/ Crash(w)
  PROVE  Summary(w)
<1> USE DEF Moves, ToProcessing, ToDelivering, Ghosts, Comes
<1>0. /\ worker[w].text \in Texts \cup {Quiet, None} /\ worker[w].clean \in BOOLEAN
      /\ worker \in [Worker -> Locals]
      /\ store \in [Keys -> Entries]
      /\ excused \in BOOLEAN /\ faults \in 0..MaxFaults /\ overran \subseteq Worker
  BY DEF TypeOK, Locals, Entries
<1>1. CASE Crash(w)
  <2>1. /\ ~At(w, "idle") /\ overran' = overran \ {w}
        /\ UNCHANGED <<now, kind, store, accepted, told>>
        /\ failedAt' \in {failedAt, None} /\ (At(w, "back_off") => failedAt' = None)
        /\ faults' \in 0..MaxFaults /\ excused' = (excused \/ At(w, "mark"))
    BY <1>0, <1>1, Parameters DEF Crash, Fault, Leave
  <2>2. Becomes(w, "idle", None, TRUE, 0)
    BY <1>1, Ended DEF Crash
  <2>3. Moves(w) /\ Ghosts(w)
    BY <1>0, <2>1, <2>2 DEF Becomes, At, Processing, Delivering
  <2> QED
    BY <2>1, <2>2, <2>3, SummaryOf
<1>2. CASE RedisFails(w)
  <2>1. /\ store' \in {store, Issued(w)}
        /\ UNCHANGED <<now, kind, accepted, told>>
        /\ failedAt' \in {failedAt, None} /\ (At(w, "back_off") => failedAt' = None)
        /\ faults' \in 0..MaxFaults /\ excused' = (excused \/ At(w, "mark"))
    BY <1>0, <1>2, Parameters DEF RedisFails, Fault
  <2>2. overran' = IF worker[w].pc \in {"release", "unlease"} THEN overran \ {w} ELSE overran
    BY <1>2 DEF RedisFails, Leave
  <2>3. TurnAway(w, OnError[worker[w].pc]) /\ worker[w].pc \in DOMAIN OnError
    BY <1>2 DEF RedisFails
  <2>4. \/ worker[w].pc \in {"lookup", "claim", "release", "lease", "unlease"} /\ TurnAway(w, "done")
        \/ worker[w].pc \in {"recheck", "cooldown", "back_off", "cache"} /\ TurnAway(w, "release")
        \/ worker[w].pc \in {"gate", "mark"} /\ TurnAway(w, "unlease")
    BY <2>3 DEF OnError
  <2>5. PICK point \in {"done", "release", "unlease"} :
             /\ Becomes(w, point, worker[w].text, FALSE, worker[w].attempt)
             /\ point = "release" => worker[w].pc \in {"recheck", "cooldown", "back_off", "cache"}
             /\ point = "unlease" => worker[w].pc \in {"gate", "mark"}
             /\ point = "done" => worker[w].pc \in {"lookup", "claim", "release", "lease", "unlease"}
    BY <2>4, TurnedAway DEF Points, Processing, Delivering
  <2>6. Moves(w) /\ Ghosts(w)
    BY <1>0, <2>1, <2>2, <2>5 DEF Becomes, At, Processing, Delivering
  <2> QED
    BY <2>1, <2>5, <2>6, SummaryOf
<1> QED
  BY <1>1, <1>2

LEMMA WorkerSteps ==
  ASSUME TypeOK, TextInv, NEW w \in Worker, WorkerNext(w)
  PROVE  Summary(w)
BY ProcessingSteps, DeliveringSteps, FaultSteps DEF WorkerNext

\* What the passing of time does: it drops keys, and it puts workers under suspicion.
Passing ==
    /\ now' = now + 1 /\ now' \in 0..MaxTime
    /\ UNCHANGED <<kind, worker, accepted, told, faults>>
    /\ store' \in [Keys -> Entries]
    /\ \A k \in Keys : store'[k] = store[k] \/ (store[k].expires <= now' /\ store'[k] = Nothing)
    /\ overran \subseteq overran' /\ overran' \subseteq Worker
    /\ \A w \in overran' \ overran : worker[w].pc \in Processing \cup Delivering
    /\ \A w \in Worker \ overran' :
         /\ worker[w].pc \in Processing /\ store["event"].value = w => store'["event"] = store["event"]
         /\ worker[w].pc \in Delivering /\ store["delivery"].value = w => store'["delivery"] = store["delivery"]
    /\ excused' \in BOOLEAN /\ (excused => excused')
    /\ ~excused' => \A w \in overran' \ overran : worker[w].pc \notin {"gate", "send", "mark"}
    /\ failedAt' \in {failedAt, None}
    /\ failedAt' # None => \A w \in overran' \ overran : worker[w].pc # "back_off"

LEMMA TickPasses ==
  ASSUME TypeOK, Tick
  PROVE  Passing
<1> USE DEF Keys
<1>1. store \in [Keys -> Entries] /\ Nothing \in Entries
  BY Parameters DEF TypeOK, Entries, Nothing
<1>2. /\ now' = now + 1 /\ now' \in 0..MaxTime
      /\ UNCHANGED <<kind, worker, accepted, told, faults>>
      /\ \A k \in Keys : store'[k] = IF RunsOut(k) THEN Nothing ELSE store[k]
      /\ store' = [k \in Keys |-> IF RunsOut(k) THEN Nothing ELSE store[k]]
      /\ overran' = overran \cup Overrun("event") \cup Overrun("delivery")
      /\ excused' = (excused \/ \E w \in Overrun("delivery") : ~At(w, "unlease"))
      /\ failedAt' = IF \E w \in Overrun("event") : At(w, "back_off") THEN None ELSE failedAt
  BY Parameters DEF Tick, TypeOK
<1>3. store' \in [Keys -> Entries]
  BY <1>1, <1>2
<1>4. \A k \in Keys : RunsOut(k) => store[k].expires <= now'
  BY <1>2 DEF RunsOut
<1>5. Overrun("event") = {w \in Worker : /\ RunsOut("event") /\ store["event"].value = w
                                         /\ worker[w].pc \in Processing}
  BY DEF Overrun, Section
<1>6. Overrun("delivery") = {w \in Worker : /\ RunsOut("delivery") /\ store["delivery"].value = w
                                            /\ worker[w].pc \in Delivering}
  BY DEF Overrun, Section
<1>7. overran \subseteq Worker /\ excused \in BOOLEAN
  BY DEF TypeOK
<1>8. \A w \in Worker \ overran' :
        /\ worker[w].pc \in Processing /\ store["event"].value = w => store'["event"] = store["event"]
        /\ worker[w].pc \in Delivering /\ store["delivery"].value = w => store'["delivery"] = store["delivery"]
  BY <1>2, <1>5, <1>6
<1>9. ~excused' => \A w \in overran' \ overran : worker[w].pc \notin {"gate", "send", "mark"}
  BY <1>2, <1>5, <1>6, <1>7 DEF At, Processing
<1>10. failedAt' # None => \A w \in overran' \ overran : worker[w].pc # "back_off"
  BY <1>2, <1>5, <1>6 DEF At, Delivering
<1>11. overran' \subseteq Worker /\ \A w \in overran' \ overran : worker[w].pc \in Processing \cup Delivering
  BY <1>2, <1>5, <1>6, <1>7
<1> QED
  BY <1>2, <1>3, <1>4, <1>7, <1>8, <1>9, <1>10, <1>11 DEF Passing

LEMMA Steps ==
  ASSUME TypeOK, TextInv, [Next]_vars
  PROVE  (\E w \in Worker : Summary(w)) \/ Passing \/ UNCHANGED vars
<1>1. ASSUME NEW w \in Worker, WorkerNext(w)
      PROVE  Summary(w)
  BY <1>1, WorkerSteps
<1>2. (\E w \in Worker : WorkerNext(w)) \/ Tick \/ UNCHANGED vars
  BY DEF Next, WorkerNext
<1> QED
  BY <1>1, <1>2, TickPasses
-----------------------------------------------------------------------------
(* Types.                                                                  *)

LEMMA TypeInit == Init => TypeOK
<1> SUFFICES ASSUME Init PROVE TypeOK
  OBVIOUS
<1>1. /\ 0 \in 0..MaxTime /\ 0 \in 0..MaxFaults /\ 0 \in 0..MaxAttempts
      /\ 0 \in 0..(MaxTime + Ttl + RetryAfter + Lease)
  BY Parameters
<1>2. Nothing \in Entries /\ Idle \in Locals
  BY <1>1 DEF Nothing, Idle, Entries, Locals, Points
<1>3. store \in [Keys -> Entries] /\ worker \in [Worker -> Locals]
  BY <1>2 DEF Init
<1> QED
  BY <1>1, <1>3 DEF Init, TypeOK, Entries, Locals

LEMMA TypeStep ==
  ASSUME TypeOK, TextInv, [Next]_vars
  PROVE  TypeOK'
<1>1. ASSUME NEW w \in Worker, Summary(w)
      PROVE  TypeOK'
  <2>1. /\ now' \in 0..MaxTime
        /\ kind' \in [collector : Collectors, published : Published, alert : BOOLEAN]
        /\ store' \in [Keys -> Entries] /\ worker' \in [Worker -> Locals]
    BY <1>1 DEF Summary, Alone, Commands, TypeOK
  <2>2. At(w, "send") => worker[w].text \in Texts
    BY DEF TextInv, At, Delivering
  <2>3. accepted' \in Nat /\ told' \subseteq Texts
    BY <1>1, <2>2 DEF Summary, Ghosts, TypeOK
  <2>4. excused' \in BOOLEAN /\ overran' \subseteq Worker /\ faults' \in 0..MaxFaults
    BY <1>1 DEF Summary, Ghosts, TypeOK
  <2>5. failedAt' \in 0..MaxTime \cup {None}
    BY <1>1 DEF Summary, Ghosts, Moves, ToProcessing, TypeOK
  <2> QED
    BY <2>1, <2>3, <2>4, <2>5 DEF TypeOK, Entries, Locals
<1>2. CASE Passing
  BY <1>2 DEF Passing, TypeOK, Entries
<1>3. CASE UNCHANGED vars
  BY <1>3 DEF vars, TypeOK
<1> QED
  BY <1>1, <1>2, <1>3, Steps
-----------------------------------------------------------------------------
(* The lease.                                                              *)

LEMMA HoldStep ==
  ASSUME TypeOK, TextInv, HoldInv, [Next]_vars
  PROVE  HoldInv'
<1>1. ASSUME NEW w \in Worker, Summary(w)
      PROVE  HoldInv'
  <2>1. Alone(w) /\ Commands(w) /\ Moves(w) /\ Ghosts(w)
    BY <1>1 DEF Summary
  <2>2. ASSUME NEW v \in Worker \ overran', worker'[v].pc \in Processing
        PROVE  store'["event"].value = v
    <3>1. CASE v = w
      <4>1. CASE worker'[w].pc = "recheck"
        BY <2>1, <3>1, <4>1 DEF Moves, ToProcessing, Entry
      <4>2. CASE worker'[w].pc # "recheck"
        <5>1. worker[w].pc \in Processing
          <6>1. worker'[w].pc \in {"cooldown", "query", "back_off", "analyze", "cache", "release"}
            BY <2>2, <3>1, <4>2 DEF Processing
          <6> QED
            BY <2>1, <6>1 DEF Moves, ToProcessing, Comes, Processing, At
        <5>2. w \notin overran
          BY <2>1, <2>2, <3>1, <5>1 DEF Ghosts, Processing, Delivering
        <5>3. store["event"].value = w /\ Live("event")
          BY <5>1, <5>2, Sorts DEF HoldInv, Live, Nothing, TypeOK
        <5>4. CASE store'["event"] = Nothing /\ At(w, "release")
          <6>1. worker'[w].pc \notin Processing
            BY <2>1, <5>4 DEF Moves, ToProcessing, Comes, Processing, At
          <6> QED
            BY <2>2, <3>1, <6>1
        <5> QED
          BY <2>1, <3>1, <5>3, <5>4 DEF Commands
      <4> QED
        BY <4>1, <4>2
    <3>2. CASE v # w
      <4>1. v \notin overran /\ worker[v].pc \in Processing
        BY <2>1, <2>2, <3>2 DEF Alone, Ghosts
      <4>2. store["event"].value = v /\ Live("event")
        BY <4>1, Sorts DEF HoldInv, Live, Nothing
      <4> QED
        BY <2>1, <3>2, <4>2 DEF Commands
    <3> QED
      BY <3>1, <3>2
  <2>3. ASSUME NEW v \in Worker \ overran', worker'[v].pc \in Delivering
        PROVE  store'["delivery"].value = v
    <3>1. CASE v = w
      <4>1. CASE worker'[w].pc = "gate"
        BY <2>1, <3>1, <4>1 DEF Moves, ToDelivering, Entry
      <4>2. CASE worker'[w].pc # "gate"
        <5>1. worker[w].pc \in Delivering
          <6>1. worker'[w].pc \in {"send", "mark", "unlease"}
            BY <2>3, <3>1, <4>2 DEF Delivering
          <6> QED
            BY <2>1, <6>1 DEF Moves, ToDelivering, Comes, Delivering, At
        <5>2. w \notin overran
          BY <2>1, <2>3, <3>1, <5>1 DEF Ghosts, Processing, Delivering
        <5>3. store["delivery"].value = w /\ Live("delivery")
          BY <5>1, <5>2, Sorts DEF HoldInv, Live, Nothing
        <5>4. CASE store'["delivery"] = Nothing /\ At(w, "unlease")
          <6>1. worker'[w].pc \notin Delivering
            BY <2>1, <5>4 DEF Moves, ToDelivering, Comes, Delivering, At
          <6> QED
            BY <2>3, <3>1, <6>1
        <5> QED
          BY <2>1, <3>1, <5>3, <5>4 DEF Commands
      <4> QED
        BY <4>1, <4>2
    <3>2. CASE v # w
      <4>1. v \notin overran /\ worker[v].pc \in Delivering
        BY <2>1, <2>3, <3>2 DEF Alone, Ghosts
      <4>2. store["delivery"].value = v /\ Live("delivery")
        BY <4>1, Sorts DEF HoldInv, Live, Nothing
      <4> QED
        BY <2>1, <3>2, <4>2 DEF Commands
    <3> QED
      BY <3>1, <3>2
  <2>4. ASSUME NEW v \in overran'
        PROVE  worker'[v].pc \in Processing \cup Delivering
    BY <2>1, <2>4 DEF HoldInv, Alone, Ghosts, TypeOK
  <2> QED
    BY <2>2, <2>3, <2>4 DEF HoldInv
<1>2. CASE Passing
  <2>1. \A w \in Worker \ overran' : worker'[w].pc \in Processing => store'["event"].value = w
    BY <1>2 DEF Passing, HoldInv
  <2>2. \A w \in Worker \ overran' : worker'[w].pc \in Delivering => store'["delivery"].value = w
    BY <1>2 DEF Passing, HoldInv
  <2>3. \A w \in overran' : worker'[w].pc \in Processing \cup Delivering
    BY <1>2 DEF Passing, HoldInv
  <2> QED
    BY <2>1, <2>2, <2>3 DEF HoldInv
<1>3. CASE UNCHANGED vars
  BY <1>3 DEF vars, HoldInv
<1> QED
  BY <1>1, <1>2, <1>3, Steps

\* Two workers that are both in a section, and both hold their lease, are one.
LEMMA OneHolder ==
  ASSUME HoldInv, NEW v \in Worker \ overran, NEW w \in Worker \ overran,
         \/ worker[v].pc \in Processing /\ worker[w].pc \in Processing
         \/ worker[v].pc \in Delivering /\ worker[w].pc \in Delivering
  PROVE  v = w
BY DEF HoldInv
-----------------------------------------------------------------------------
(* Time.                                                                   *)

LEMMA TimeStep ==
  ASSUME TypeOK, TextInv, TimeInv, [Next]_vars
  PROVE  TimeInv'
<1>0. /\ now \in Nat /\ kind.published \in Nat
      /\ MaxAge \in Nat /\ Ttl \in Nat /\ Ttl > MaxAge
      /\ "processed" \in Keys /\ "delivered" \in Keys
  BY Parameters, Clock DEF Keys
<1>1. ASSUME NEW w \in Worker, Summary(w)
      PROVE  TimeInv'
  <2>1. Alone(w) /\ Commands(w) /\ Moves(w)
    BY <1>1 DEF Summary
  <2>2. ~At(w, "idle") => now >= kind.published
    BY DEF TimeInv
  <2>3. ASSUME NEW v \in Worker, worker'[v].pc # "idle"
        PROVE  now >= kind.published
    <3>1. CASE v = w
      <4>1. ~At(w, "idle") \/ Fresh
        BY <2>1, <2>3, <3>1 DEF Moves, ToProcessing
      <4> QED
        BY <2>2, <4>1 DEF Fresh
    <3>2. CASE v # w
      BY <2>1, <2>3, <3>2 DEF Alone, TimeInv, At
    <3> QED
      BY <3>1, <3>2
  <2>4. \A t : Entry(t, Ttl).expires = now + Ttl
    BY DEF Entry
  <2>5. store'["processed"] # Nothing => store'["processed"].expires > kind.published + MaxAge
    <3>1. CASE store'["processed"] = store["processed"]
      BY <3>1 DEF TimeInv, Live
    <3>2. CASE At(w, "cache") /\ store'["processed"] = Entry(worker[w].text, Ttl)
      BY <1>0, <2>2, <2>4, <3>2 DEF At
    <3> QED
      BY <2>1, <3>1, <3>2 DEF Commands
  <2>6. store'["delivered"] # Nothing => store'["delivered"].expires > kind.published + MaxAge
    <3>1. CASE store'["delivered"] = store["delivered"]
      BY <3>1 DEF TimeInv, Live
    <3>2. CASE At(w, "mark") /\ store'["delivered"] = Entry(Set, Ttl)
      BY <1>0, <2>2, <2>4, <3>2 DEF At
    <3> QED
      BY <2>1, <3>1, <3>2 DEF Commands
  <2> QED
    BY <2>1, <2>3, <2>5, <2>6 DEF TimeInv, Alone, At, Live
<1>2. CASE Passing
  <2>1. \A w \in Worker : worker'[w].pc # "idle" => now' >= kind'.published
    BY <1>0, <1>2 DEF Passing, TimeInv, At
  <2>2. store'["processed"] # Nothing => store'["processed"].expires > kind'.published + MaxAge
    BY <1>0, <1>2 DEF Passing, TimeInv, Live
  <2>3. store'["delivered"] # Nothing => store'["delivered"].expires > kind'.published + MaxAge
    BY <1>0, <1>2 DEF Passing, TimeInv, Live
  <2> QED
    BY <2>1, <2>2, <2>3 DEF TimeInv, At, Live
<1>3. CASE UNCHANGED vars
  BY <1>3 DEF vars, TimeInv, At, Live
<1> QED
  BY <1>1, <1>2, <1>3, Steps

\* A marker that runs out leaves the event stale.
LEMMA OutlivesFreshness ==
  ASSUME TypeOK, TimeInv, Passing, NEW k \in {"processed", "delivered"}, Live(k), ~(Live(k)')
  PROVE  Stale'
<1>1. /\ now \in Nat /\ kind.published \in Nat /\ kind' = kind /\ now' = now + 1
      /\ MaxAge \in Nat /\ k \in Keys
  BY Parameters, Clock DEF Passing, Keys
<1>2. store[k].expires <= now'
  BY <1>1 DEF Passing, Live
<1>3. store[k].expires > kind.published + MaxAge /\ store[k].expires \in Nat
  BY <1>1 DEF TimeInv, TypeOK
<1> QED
  BY <1>1, <1>2, <1>3 DEF Stale

\* An event that is stale stays so.
LEMMA StaleStays ==
  ASSUME TypeOK, now' \in {now, now + 1}, kind' = kind, Stale
  PROVE  Stale'
<1>1. now \in Nat /\ kind.published \in Nat /\ MaxAge \in Nat
  BY Parameters, Clock
<1> QED
  BY <1>1 DEF Stale
-----------------------------------------------------------------------------
(* Analyses.                                                               *)

LEMMA TextStep ==
  ASSUME TypeOK, TextInv, [Next]_vars
  PROVE  TextInv'
<1>1. ASSUME NEW w \in Worker, Summary(w)
      PROVE  TextInv'
  <2>1. Alone(w) /\ Commands(w) /\ Moves(w)
    BY <1>1 DEF Summary
  <2>2. store'["processed"] # Nothing => store'["processed"].value \in Texts \cup {Quiet}
    <3>1. CASE store'["processed"] = store["processed"]
      BY <3>1 DEF TextInv, Live
    <3>2. CASE At(w, "cache") /\ store'["processed"] = Entry(worker[w].text, Ttl)
      BY <3>2 DEF TextInv, Decided, Entry
    <3> QED
      BY <2>1, <3>1, <3>2 DEF Commands
  <2>3. ASSUME NEW v \in Worker, worker'[v].pc = "cache" \/ (worker'[v].pc = "release" /\ worker'[v].clean)
        PROVE  worker'[v].text \in Texts \cup {Quiet}
    <3>1. CASE v = w
      BY <2>1, <2>3, <3>1 DEF Moves, ToProcessing, Comes, TextInv, Decided, At
    <3>2. CASE v # w
      BY <2>1, <2>3, <3>2 DEF Alone, TextInv, Decided, At
    <3> QED
      BY <3>1, <3>2
  <2>4. ASSUME NEW v \in Worker, worker'[v].pc \in {"lease"} \cup Delivering
        PROVE  worker'[v].text \in Texts
    <3>1. CASE v = w /\ worker'[w].pc = "lease"
      BY <2>1, <3>1 DEF Moves, ToDelivering, Comes, TextInv, Decided, At
    <3>2. CASE v = w /\ worker'[w].pc # "lease"
      BY <2>1, <2>4, <3>2 DEF Moves, ToDelivering, Comes, TextInv, Delivering
    <3>3. CASE v # w
      BY <2>1, <2>4, <3>3 DEF Alone, TextInv
    <3> QED
      BY <3>1, <3>2, <3>3
  <2> QED
    BY <2>2, <2>3, <2>4 DEF TextInv, Decided, At, Live
<1>2. CASE Passing
  <2>1. store'["processed"] # Nothing => store'["processed"].value \in Texts \cup {Quiet}
    BY <1>2 DEF Passing, TextInv, Live, Keys
  <2> QED
    BY <1>2, <2>1 DEF Passing, TextInv, Decided, At, Live
<1>3. CASE UNCHANGED vars
  BY <1>3 DEF vars, TextInv, Decided, At, Live
<1> QED
  BY <1>1, <1>2, <1>3, Steps
-----------------------------------------------------------------------------
(* One analysis.                                                           *)

\* t is what the cache holds after the step.
Keeps(t) == store'["processed"] # Nothing /\ store'["processed"].value = t
Filling == {"cooldown", "query", "back_off", "analyze", "cache"}

LEMMA CacheStep ==
  ASSUME TypeOK, TextInv, TimeInv, CacheInv, [Next]_vars
  PROVE  CacheInv'
<1>1. ASSUME NEW w \in Worker, Summary(w)
      PROVE  CacheInv'
  <2>1. Alone(w) /\ Commands(w) /\ Moves(w) /\ Ghosts(w)
    BY <1>1 DEF Summary
  <2>2. Live("processed") => store'["processed"] = store["processed"]
    BY <2>1 DEF Commands, CacheInv, At
  <2>3. Stale' = Stale
    BY <2>1 DEF Stale, Alone
  <2>4. \A t : Cached(t) => Keeps(t)
    BY <2>2 DEF Cached, Live, Keeps
  <2>5. ASSUME ~Stale, NEW t \in told'
        PROVE  Keeps(t)
    <3>1. CASE t \in told
      BY <2>4, <2>5, <3>1 DEF CacheInv
    <3>2. CASE t \notin told
      BY <2>1, <2>4, <2>5, <3>2 DEF CacheInv, Ghosts, Carries, At
    <3> QED
      BY <3>1, <3>2
  <2>6. ASSUME ~Stale, NEW v \in Worker,
               worker'[v].pc \in {"lease", "gate", "send"} \/ (worker'[v].pc = "release" /\ worker'[v].clean)
        PROVE  Keeps(worker'[v].text)
    <3>1. CASE v # w
      BY <2>1, <2>4, <2>6, <3>1 DEF Alone, CacheInv, Carries, At
    <3>2. CASE v = w /\ worker'[w].pc = "release"
      <4>1. store'["processed"] = Entry(worker[w].text, Ttl) /\ worker'[w].text = worker[w].text /\ At(w, "cache")
        BY <2>1, <2>6, <3>2 DEF Moves, ToProcessing, Comes, At
      <4>2. worker[w].text # None
        BY <4>1, Sorts DEF TextInv, Decided
      <4>3. Entry(worker[w].text, Ttl) # Nothing /\ Entry(worker[w].text, Ttl).value = worker[w].text
        BY <4>2 DEF Entry, Nothing
      <4> QED
        BY <3>2, <4>1, <4>3 DEF Keeps
    <3>3. CASE v = w /\ worker'[w].pc = "lease"
      <4>1. CASE At(w, "lookup") /\ Live("processed") /\ worker'[w].text = store["processed"].value
        BY <2>4, <3>3, <4>1 DEF Cached
      <4>2. CASE Comes(w, {"release"}) /\ worker[w].clean
        BY <2>4, <2>6, <3>3, <4>2 DEF CacheInv, Carries, Comes, At
      <4> QED
        BY <2>1, <3>3, <4>1, <4>2 DEF Moves, ToDelivering
    <3>4. CASE v = w /\ worker'[w].pc \in {"gate", "send"}
      <4>1. Comes(w, {"lease", "gate", "send"})
        BY <2>1, <3>4 DEF Moves, ToDelivering, Comes
      <4> QED
        BY <2>4, <2>6, <3>4, <4>1 DEF CacheInv, Carries, Comes, At
    <3> QED
      BY <2>6, <3>1, <3>2, <3>3, <3>4
  <2>7. ASSUME NEW v \in Worker, worker'[v].pc \in Filling, store'["event"].value = v
        PROVE  store'["processed"] = Nothing
    <3>1. CASE v = w
      <4>1. worker[w].pc \in Filling \cup {"recheck"} /\ worker[w].pc # "cache"
        BY <2>1, <2>7, <3>1 DEF Moves, ToProcessing, Comes, At, Filling
      <4>2. store["event"].value = w
        BY <2>1, <2>7, <3>1, <4>1, Sorts DEF Commands, At, Filling
      <4>3. ~Live("processed")
        <5>1. CASE worker[w].pc \in Filling
          BY <4>2, <5>1 DEF CacheInv, Filling
        <5>2. CASE worker[w].pc = "recheck"
          BY <2>1, <2>7, <3>1, <5>2 DEF Moves, ToProcessing, Comes, At, Filling
        <5> QED
          BY <4>1, <5>1, <5>2
      <4>4. store'["processed"] = store["processed"]
        BY <2>1, <4>1 DEF Commands, At
      <4> QED
        BY <4>3, <4>4 DEF Live
    <3>2. CASE v # w
      <4>1. store["event"].value = v /\ worker[v].pc \in Filling
        BY <2>1, <2>7, <3>2, Sorts DEF Commands, Alone, Entry, Nothing
      <4>2. ~Live("processed")
        BY <4>1 DEF CacheInv, Filling
      <4>3. store'["processed"] = store["processed"]
        BY <2>1, <3>2, <4>1 DEF Commands
      <4> QED
        BY <4>2, <4>3 DEF Live
    <3> QED
      BY <3>1, <3>2
  <2> QED
    BY <2>3, <2>5, <2>6, <2>7 DEF CacheInv, Cached, Keeps, Carries, At, Filling, Live
<1>2. CASE Passing
  <2>1. ~(Stale') => ~Stale
    BY <1>2, StaleStays DEF Passing
  <2>2. store'["processed"] \in {store["processed"], Nothing}
    BY <1>2 DEF Passing, Keys
  <2>3. ~(Stale') /\ Live("processed") => store'["processed"] = store["processed"]
    BY <1>2, <2>2, OutlivesFreshness DEF Live
  <2>4. ASSUME NEW w \in Worker, worker'[w].pc \in Filling, store'["event"].value = w
        PROVE  store'["processed"] = Nothing
    <3>1. store["event"].value = w
      BY <1>2, <2>4, Sorts DEF Passing, Keys, Nothing
    <3> QED
      BY <1>2, <2>2, <2>4, <3>1 DEF Passing, CacheInv, Filling, Live
  <2>5. worker' = worker /\ told' = told
    BY <1>2 DEF Passing
  <2> QED
    BY <2>1, <2>3, <2>4, <2>5 DEF CacheInv, Cached, Carries, At, Filling, Live
<1>3. CASE UNCHANGED vars
  BY <1>3 DEF vars, CacheInv, Stale, Cached, Carries, At, Live
<1> QED
  BY <1>1, <1>2, <1>3, Steps
-----------------------------------------------------------------------------
(* One wording.                                                            *)

LEMMA WordingStep ==
  ASSUME TypeOK, TextInv, CacheInv, WordingInv, [Next]_vars
  PROVE  WordingInv'
<1>1. ASSUME NEW w \in Worker, Summary(w)
      PROVE  WordingInv'
  <2>1. Alone(w) /\ Moves(w) /\ Ghosts(w)
    BY <1>1 DEF Summary
  \* What was said, or is being said.
  <2> DEFINE Said(t) == t \in told \/ \E v \in Worker : At(v, "send") /\ worker[v].text = t
  <2>2. \A s, t : Said(s) /\ Said(t) => s = t
    BY DEF WordingInv, SameContent
  <2>3. \A t : Said(t) /\ ~Stale => Cached(t)
    <3>1. ~Stale => \A v \in Worker : At(v, "send") => Cached(worker[v].text)
      BY DEF CacheInv, Carries, At
    <3> QED
      BY <3>1 DEF CacheInv
  <2>4. \A t \in told' : Said(t)
    BY <2>1 DEF Ghosts
  <2>5. \A v \in Worker \ {w} : worker'[v].pc = "send" => Said(worker'[v].text)
    BY <2>1 DEF Alone, At
  <2>6. CASE worker'[w].pc = "send" => Said(worker'[w].text)
    <3>1. \A v \in Worker : worker'[v].pc = "send" => Said(worker'[v].text)
      BY <2>5, <2>6
    <3> HIDE DEF Said
    <3> QED
      BY <2>2, <2>4, <3>1 DEF WordingInv, SameContent, At
  <2>7. CASE Comes(w, {"gate"}) /\ Pending
    <3>1. worker'[w].text = worker[w].text /\ Carries(w)
      BY <2>7 DEF Comes, Carries
    <3>2. ~Stale
      BY <2>7, Parameters, Clock DEF Pending, Fresh, Stale
    <3>3. Cached(worker'[w].text)
      BY <3>1, <3>2 DEF CacheInv
    <3>4. \A t : Said(t) => t = worker'[w].text
      BY <2>3, <3>2, <3>3 DEF Cached
    <3>5. \A v \in Worker : worker'[v].pc = "send" => worker'[v].text = worker'[w].text
      BY <2>5, <3>4
    <3>6. \A t \in told' : t = worker'[w].text
      BY <2>4, <3>4
    <3> HIDE DEF Said
    <3> QED
      BY <3>5, <3>6 DEF WordingInv, SameContent, At
  <2>8. worker'[w].pc = "send" => Comes(w, {"send"}) \/ (Comes(w, {"gate"}) /\ Pending)
    BY <2>1 DEF Moves, ToDelivering
  <2> QED
    BY <2>6, <2>7, <2>8 DEF Comes, At
<1>2. CASE Passing
  BY <1>2 DEF Passing, WordingInv, SameContent, At
<1>3. CASE UNCHANGED vars
  BY <1>3 DEF vars, WordingInv, SameContent, At
<1> QED
  BY <1>1, <1>2, <1>3, Steps
-----------------------------------------------------------------------------
(* One message.                                                            *)

LEMMA StaleOrFresh ==
  ASSUME TypeOK, TimeInv, NEW w \in Worker, ~At(w, "idle")
  PROVE  Fresh <=> ~Stale
BY Parameters, Clock DEF TimeInv, Fresh, Stale

\* The delivered marker is only ever set, until it expires.
LEMMA DeliveredKept ==
  ASSUME TypeOK, NEW w \in Worker, Commands(w), Live("delivered")
  PROVE  Live("delivered")'
<1>1. Entry(Set, Ttl) # Nothing
  BY Sorts DEF Entry, Nothing
<1> QED
  BY <1>1 DEF Commands, Live

LEMMA OnceStep ==
  ASSUME TypeOK, TextInv, HoldInv, TimeInv, OnceInv, [Next]_vars
  PROVE  OnceInv'
<1>0. accepted \in Nat /\ overran \subseteq Worker
  BY DEF TypeOK
<1>1. ASSUME NEW w \in Worker, Summary(w), ~excused'
      PROVE  OnceInv'
  <2>1. Alone(w) /\ Commands(w) /\ Moves(w) /\ Ghosts(w)
    BY <1>1 DEF Summary
  <2>2. /\ ~excused
        /\ \A v \in Worker : worker[v].pc \in {"gate", "send", "mark"} => v \notin overran
        /\ \A v \in Worker : worker[v].pc = "send" => accepted = 0
        /\ accepted <= 1
        /\ accepted = 1 => (\E v \in Worker : worker[v].pc = "mark") \/ Live("delivered") \/ Stale
    BY <1>1, <2>1 DEF Ghosts, OnceInv, At
  <2>3. overran' \subseteq overran
    BY <2>1 DEF Ghosts
  <2>4. \A u, v \in Worker : worker[u].pc \in {"gate", "send", "mark"} /\ worker[v].pc \in {"gate", "send", "mark"}
                               => u = v
    BY <2>2, OneHolder DEF Delivering
  <2>5. ASSUME NEW v \in Worker, worker'[v].pc \in {"gate", "send", "mark"}
        PROVE  v \notin overran'
    <3>1. CASE v # w
      BY <2>1, <2>2, <2>3, <2>5, <3>1 DEF Alone
    <3>2. CASE v = w
      <4>1. worker[w].pc \in {"lease", "gate", "send"}
        BY <2>1, <2>5, <3>2 DEF Moves, ToDelivering, Comes
      <4>2. worker[w].pc = "lease" => w \notin overran
        BY DEF HoldInv, Processing, Delivering
      <4> QED
        BY <2>2, <2>3, <3>2, <4>1, <4>2
    <3> QED
      BY <3>1, <3>2
  <2>6. accepted' = accepted \/ (worker[w].pc = "send" /\ accepted' = accepted + 1 /\ worker'[w].pc = "mark")
    BY <1>1, <2>1 DEF Ghosts, At
  <2>7. ASSUME NEW v \in Worker, worker'[v].pc = "send"
        PROVE  accepted' = 0
    <3>1. CASE v # w
      BY <2>1, <2>2, <2>4, <2>6, <2>7, <3>1 DEF Alone
    <3>2. CASE v = w /\ worker[w].pc = "send"
      BY <2>2, <2>6, <2>7, <3>2
    <3>3. CASE v = w /\ worker[w].pc = "gate" /\ Pending
      <4>1. ~Live("delivered") /\ ~Stale
        BY <3>3, StaleOrFresh DEF Pending, At
      <4>2. ~\E u \in Worker : worker[u].pc = "mark"
        BY <2>4, <3>3
      <4> QED
        BY <1>0, <2>2, <2>6, <3>3, <4>1, <4>2
    <3> QED
      BY <2>1, <2>7, <3>1, <3>2, <3>3 DEF Moves, ToDelivering, Comes
  <2>8. accepted' <= 1
    BY <1>0, <2>2, <2>6
  <2>9. ASSUME accepted' = 1
        PROVE  (\E v \in Worker : worker'[v].pc = "mark") \/ Live("delivered")' \/ Stale'
    <3>1. CASE worker'[w].pc = "mark"
      BY <3>1
    <3>2. CASE accepted' = accepted
      <4>1. CASE Live("delivered")
        BY <2>1, <4>1, DeliveredKept
      <4>2. CASE Stale
        BY <2>1, <4>2 DEF Alone, Stale
      <4>3. ASSUME NEW u \in Worker, worker[u].pc = "mark"
            PROVE  worker'[u].pc = "mark" \/ Live("delivered")'
        <5>1. CASE u # w
          BY <2>1, <4>3, <5>1 DEF Alone
        <5>2. CASE u = w
          <6>1. store'["delivered"] = Entry(Set, Ttl)
            BY <1>1, <2>1, <4>3, <5>2 DEF Ghosts, At
          <6> QED
            BY <6>1, Sorts DEF Live, Entry, Nothing
        <5> QED
          BY <5>1, <5>2
      <4> QED
        BY <2>2, <2>9, <3>2, <4>1, <4>2, <4>3
    <3> QED
      BY <2>6, <3>1, <3>2
  <2> QED
    BY <2>5, <2>7, <2>8, <2>9 DEF OnceInv, At
<1>2. CASE Passing
  <2>1. SUFFICES ASSUME ~excused' PROVE OnceInv'
    BY DEF OnceInv
  <2>2. ~excused /\ worker' = worker /\ accepted' = accepted
    BY <1>2, <2>1 DEF Passing
  <2>3. \A w \in Worker : worker[w].pc \in {"gate", "send", "mark"} => w \notin overran'
    BY <1>2, <2>1, <2>2 DEF Passing, OnceInv
  <2>4. Live("delivered") => Live("delivered")' \/ Stale'
    BY <1>2, OutlivesFreshness
  <2>5. Stale => Stale'
    BY <1>2, StaleStays DEF Passing
  <2> QED
    BY <2>2, <2>3, <2>4, <2>5 DEF OnceInv, At
<1>3. CASE UNCHANGED vars
  BY <1>3 DEF vars, OnceInv, Stale, At, Live
<1> QED
  BY <1>1, <1>2, <1>3, Steps DEF OnceInv
-----------------------------------------------------------------------------
(* A clean cycle.                                                          *)

LEMMA DeliveredStep ==
  ASSUME TypeOK, TextInv, TimeInv, DeliveredInv, [Next]_vars
  PROVE  DeliveredInv'
<1>1. ASSUME NEW w \in Worker, Summary(w)
      PROVE  DeliveredInv'
  <2>1. Alone(w) /\ Commands(w) /\ Moves(w)
    BY <1>1 DEF Summary
  <2>2. Stale' = Stale
    BY <2>1 DEF Stale, Alone
  <2>3. ASSUME NEW v \in Worker, worker'[v].pc \in {"unlease", "done"}, worker'[v].clean,
               worker'[v].text \in Texts, ~Stale
        PROVE  Live("delivered")'
    <3>1. CASE v # w
      <4>1. Live("delivered")
        BY <2>1, <2>3, <3>1 DEF Alone, DeliveredInv
      <4> QED
        BY <2>1, <4>1, DeliveredKept
    <3>2. CASE v = w /\ worker'[w].pc = "unlease"
      <4>1. CASE At(w, "gate") /\ ~Pending
        <5>1. Live("delivered")
          BY <2>3, <4>1, StaleOrFresh DEF Pending, At
        <5> QED
          BY <2>1, <5>1, DeliveredKept
      <4>2. CASE store'["delivered"] = Entry(Set, Ttl)
        BY <4>2, Sorts DEF Live, Entry, Nothing
      <4> QED
        BY <2>1, <2>3, <3>2, <4>1, <4>2 DEF Moves, ToDelivering
    <3>3. CASE v = w /\ worker'[w].pc = "done"
      <4>1. (Fresh /\ ToDelivery(worker'[w].text) = "lease") \/ At(w, "idle")
        <5>1. At(w, "idle") \/ Fresh
          BY <2>3, StaleOrFresh
        <5>2. worker'[w].text # Quiet
          BY <2>3, <3>3, Sorts
        <5> QED
          BY <5>1, <5>2 DEF ToDelivery
      <4>2. Comes(w, {"unlease"}) /\ worker[w].clean
        BY <2>1, <2>3, <3>3, <4>1 DEF Moves, ToDelivering, Comes, At
      <4>3. Live("delivered")
        BY <2>3, <3>3, <4>2 DEF DeliveredInv, Comes
      <4> QED
        BY <2>1, <4>3, DeliveredKept
    <3> QED
      BY <2>3, <3>1, <3>2, <3>3
  <2> QED
    BY <2>2, <2>3 DEF DeliveredInv
<1>2. CASE Passing
  <2>1. worker' = worker
    BY <1>2 DEF Passing
  <2>2. Live("delivered") => Live("delivered")' \/ Stale'
    BY <1>2, OutlivesFreshness
  <2>3. Stale => Stale'
    BY <1>2, StaleStays DEF Passing
  <2> QED
    BY <2>1, <2>2, <2>3 DEF DeliveredInv
<1>3. CASE UNCHANGED vars
  BY <1>3 DEF vars, DeliveredInv, Stale, Live
<1> QED
  BY <1>1, <1>2, <1>3, Steps
-----------------------------------------------------------------------------
(* The cool-down.                                                          *)

LEMMA CoolStep ==
  ASSUME TypeOK, TextInv, CoolInv, [Next]_vars
  PROVE  CoolInv'
<1>0. now \in Nat /\ RetryAfter \in Nat /\ (failedAt # None => failedAt \in Nat) /\ "retry" \in Keys
  BY Clock, Parameters DEF TypeOK, Keys
<1>1. ASSUME NEW w \in Worker, Summary(w), failedAt' # None
      PROVE  CoolInv'
  <2>1. Alone(w) /\ Commands(w) /\ Moves(w) /\ Ghosts(w)
    BY <1>1 DEF Summary
  <2>2. Entry(Set, RetryAfter).expires = now + RetryAfter /\ Entry(Set, RetryAfter) # Nothing
    BY Sorts DEF Entry, Nothing
  <2>3. overran' \subseteq overran /\ now' = now
    BY <2>1 DEF Ghosts, Alone
  <2>4. CASE failedAt' = failedAt
    <3>1. failedAt \in Nat /\ failedAt <= now
      BY <1>0, <1>1, <2>4 DEF CoolInv
    <3>2. CASE store'["retry"] = Entry(Set, RetryAfter)
      BY <1>0, <2>2, <2>3, <2>4, <3>1, <3>2 DEF CoolInv, Live
    <3>3. CASE store'["retry"] = store["retry"] /\ ~At(w, "back_off")
      <4>1. ASSUME NEW u \in Worker \ overran, At(u, "back_off")
            PROVE  u \in Worker \ overran' /\ At(u, "back_off")'
        BY <2>1, <2>3, <3>3, <4>1 DEF Alone, At
      <4> QED
        BY <1>1, <2>3, <2>4, <3>3, <4>1 DEF CoolInv, Live
    <3> QED
      BY <1>1, <2>1, <3>2, <3>3 DEF Commands, Ghosts, At
  <2>5. CASE failedAt' # failedAt
    <3>1. worker'[w].pc = "back_off" /\ w \notin overran /\ failedAt' = now
      BY <1>1, <2>1, <2>5 DEF Ghosts, Moves, ToProcessing
    <3> QED
      BY <1>0, <2>3, <3>1 DEF CoolInv, At
  <2> QED
    BY <2>4, <2>5
<1>2. CASE Passing
  <2>1. SUFFICES ASSUME failedAt' # None PROVE CoolInv'
    BY DEF CoolInv
  <2>2. /\ failedAt' = failedAt /\ failedAt \in Nat /\ worker' = worker /\ now' = now + 1
        /\ store'["retry"] = store["retry"] \/ store["retry"].expires <= now'
        /\ store["retry"].expires \in Nat
        /\ \A w \in overran' \ overran : worker[w].pc # "back_off"
    BY <1>0, <1>2, <2>1 DEF Passing, TypeOK
  <2> QED
    BY <1>0, <2>1, <2>2 DEF CoolInv, Live, At
<1>3. CASE UNCHANGED vars
  BY <1>3 DEF vars, CoolInv, Live, At
<1> QED
  BY <1>1, <1>2, <1>3, Steps DEF CoolInv
-----------------------------------------------------------------------------
(* The theorems.                                                           *)

LEMMA IInvInit == Init => IInv
<1> SUFFICES ASSUME Init PROVE IInv
  OBVIOUS
<1>1. /\ \A w \in Worker : worker[w] = Idle
      /\ \A k \in Keys : store[k] = Nothing
      /\ accepted = 0 /\ told = {} /\ overran = {} /\ failedAt = None
  BY DEF Init
<1>2. Idle.pc = "idle"
  BY DEF Idle
<1>3. ~Live("processed") /\ ~Live("delivered")
  BY <1>1 DEF Live, Keys
<1>4. HoldInv /\ TimeInv
  BY <1>1, <1>2, <1>3 DEF HoldInv, TimeInv, At, Processing, Delivering
<1>5. TextInv /\ CacheInv
  BY <1>1, <1>2, <1>3 DEF TextInv, CacheInv, Decided, Carries, At, Delivering
<1>6. WordingInv /\ OnceInv
  BY <1>1, <1>2 DEF WordingInv, SameContent, OnceInv, At
<1>7. DeliveredInv /\ CoolInv
  BY <1>1, <1>2 DEF DeliveredInv, CoolInv
<1> QED
  BY <1>4, <1>5, <1>6, <1>7, TypeInit DEF IInv

LEMMA IInvStep == IInv /\ [Next]_vars => IInv'
<1> SUFFICES ASSUME IInv, [Next]_vars PROVE IInv'
  OBVIOUS
<1> QED
  BY TypeStep, HoldStep, TimeStep, TextStep, CacheStep, WordingStep, OnceStep, DeliveredStep, CoolStep
     DEF IInv

THEOREM Invariance == Spec => []IInv
BY IInvInit, IInvStep, PTL DEF Spec

(* The workers are kept apart.  Under each lease there is at most one      *)
(* worker whose own lease has not run out: a release compares the token,   *)
(* so a late worker never frees what a newer one holds.                    *)
THEOREM WorkersKeptApart == Spec => []WorkersApart
<1>1. IInv => WorkersApart
  <2> SUFFICES ASSUME IInv PROVE WorkersApart
    OBVIOUS
  <2>1. ASSUME NEW k \in {"event", "delivery"}, NEW v \in Worker \ overran, NEW w \in Worker \ overran,
               worker[v].pc \in Section[k], worker[w].pc \in Section[k]
        PROVE  v = w
    <3>1. CASE k = "event"
      BY <2>1, <3>1, OneHolder DEF IInv, Section
    <3>2. CASE k = "delivery"
      BY <2>1, <3>2, OneHolder DEF IInv, Section
    <3> QED
      BY <2>1, <3>1, <3>2
  <2> QED
    BY <2>1 DEF IInv, WorkersApart, LeasesExclude
<1> QED
  BY <1>1, Invariance, PTL

(* An event is announced twice only when its first message could not be    *)
(* marked; no marker expires while the event is still fresh enough to be   *)
(* sent.                                                                   *)
THEOREM DuplicatesAreExcused == Spec => []DuplicateNeedsExcuse
<1>1. IInv => DuplicateNeedsExcuse
  BY DEF IInv, TypeOK, OnceInv, DuplicateNeedsExcuse
<1> QED
  BY <1>1, Invariance, PTL

(* The workers are kept apart, and every message about the event carries   *)
(* the same analysis.                                                      *)
THEOREM AnalysisIsOne == Spec => []OneAnalysis
<1>1. IInv => SameContent
  BY DEF IInv, WordingInv
<1>2. WorkersApart /\ SameContent => OneAnalysis
  BY DEF OneAnalysis
<1> QED
  BY <1>1, <1>2, WorkersKeptApart, Invariance, PTL

(* A cycle over a fresh alert that met no error ends with the alert marked *)
(* as delivered.                                                           *)
THEOREM CleanCyclesDeliver == Spec => []CleanCycleDelivers
<1>1. IInv => CleanCycleDelivers
  <2> SUFFICES ASSUME IInv, NEW w \in Worker, At(w, "done"), worker[w].clean, worker[w].text \in Texts, Fresh
               PROVE  Live("delivered")
    BY DEF CleanCycleDelivers
  <2>1. ~Stale
    BY StaleOrFresh DEF IInv, At
  <2> QED
    BY <2>1 DEF IInv, DeliveredInv, At
<1> QED
  BY <1>1, Invariance, PTL

(* The BLS API is left alone for the cool-down after a failed query.       *)
THEOREM QueriesAreSpaced == Spec => QueriesSpaced
<1> DEFINE Spaced == \A w \in Worker \ overran : ~At(w, "query") /\ At(w, "query")' =>
                       failedAt = None \/ now >= failedAt + RetryAfter
<1>1. IInv /\ [Next]_vars => [Spaced]_vars
  <2> SUFFICES ASSUME IInv, [Next]_vars, NEW w \in Worker \ overran, ~At(w, "query"), At(w, "query")',
                      failedAt # None
               PROVE  now >= failedAt + RetryAfter
    OBVIOUS
  <2>1. TypeOK /\ TextInv /\ HoldInv /\ CoolInv
    BY DEF IInv
  <2>2. ASSUME NEW v \in Worker, Summary(v)
        PROVE  At(w, "cooldown") /\ ~Live("retry")
    <3>1. v = w
      BY <2>2 DEF Summary, Alone, At
    <3> QED
      BY <2>2, <3>1 DEF Summary, Moves, ToProcessing, Comes, At
  <2>3. At(w, "cooldown") /\ ~Live("retry")
    BY <2>1, <2>2, Steps DEF Passing, vars, At
  <2>4. ~\E u \in Worker \ overran : At(u, "back_off")
    BY <2>1, <2>3, OneHolder DEF At, Processing
  <2> QED
    BY <2>1, <2>3, <2>4 DEF CoolInv
<1> QED
  BY <1>1, Invariance, PTL DEF Spec, QueriesSpaced
=============================================================================
