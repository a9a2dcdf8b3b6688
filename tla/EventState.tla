----------------------------- MODULE EventState -----------------------------
(***************************************************************************)
(* One official event (a macro release, a Treasury publication, a          *)
(* geopolitical action) taken through the Redis protocol that the macro,   *)
(* treasury and geopolitical collectors share: a processed cache, a        *)
(* processing lease, a delivery lease, a delivered marker and, for BLS     *)
(* releases, a cool-down after a failed API query.  Every key expires.     *)
(*                                                                         *)
(* An action is one round trip (to Redis, to the BLS API, to the analyzer, *)
(* to Telegram) with the local code up to the next one, so a reading of    *)
(* the clock belongs to the round trip issued right after it.  A worker is *)
(* one collector process; its uuid4 token is the worker itself, because it *)
(* takes a lease again only after the previous token has left Redis.       *)
(***************************************************************************)
EXTENDS Naturals, TLC

CONSTANTS
    Worker,       \* collector processes that may overlap
    Collectors,   \* the protocols explored: "macro", "bls", "treasury", "geopolitical"
    Published,    \* the publication times explored; time starts at 0
    Texts,        \* what an analysis can make of an alert (enriched, not enriched)
    MaxAge,       \* *_MAX_AGE_HOURS
    DedupTtl,     \* DEDUP_TTL_SECONDS
    Lease,        \* LEASE_SECONDS
    RetryAfter,   \* BLS_RETRY_SECONDS
    MaxAttempts,  \* telegram_notifier.MAX_RETRIES
    MaxTime,      \* bound: the clock stops here
    MaxFaults,    \* bound: Redis errors, lost confirmations and crashes
    Quiet,        \* a processed decision other than ALERT
    Set,          \* the value of a marker
    None

ASSUME ParametersAssumption ==
    /\ {MaxAge, DedupTtl, Lease, RetryAfter, MaxTime, MaxFaults} \subseteq Nat
    /\ MaxAttempts \in Nat \ {0}
    /\ Published \subseteq Nat

ASSUME ValuesAssumption ==
    /\ None \notin Worker \cup Texts \cup {Quiet, Set}
    /\ Quiet \notin Texts

Keys == {"processed", "event", "delivery", "delivered", "retry"}

VARIABLES
    now,
    kind,      \* the collector, the event's publication time and whether it scores as an alert
    store,     \* Redis
    worker,    \* the local state of every worker
    accepted,  \* ghost: messages Telegram has accepted
    told,      \* ghost: the texts it has accepted
    excused,   \* ghost: a message was accepted and its marker could not be relied on
    overran,   \* ghost: workers whose lease ran out while they were still under it
    failedAt,  \* ghost: when an API query failed whose cool-down must hold
    faults     \* bound: faults so far

vars == <<now, kind, store, worker, accepted, told, excused, overran, failedAt, faults>>
ghosts == <<accepted, told, excused, overran, failedAt, faults>>

Processing == {"recheck", "cooldown", "query", "back_off", "analyze", "cache", "release"}
Delivering == {"gate", "send", "mark", "unlease"}
Points == Processing \cup Delivering \cup {"idle", "lookup", "claim", "lease", "done"}
Section == [event |-> Processing, delivery |-> Delivering]

Nothing == [value |-> None, expires |-> 0]
Idle == [pc |-> "idle", text |-> None, clean |-> TRUE, attempt |-> 0]

\* Bug: the deduplication period alone.
Ttl_DedupOnly == DedupTtl + 1
Ttl == (IF DedupTtl > MaxAge THEN DedupTtl ELSE MaxAge) + 1
Fresh == now >= kind.published /\ now - kind.published <= MaxAge

Live(k) == store[k] # Nothing
SetEx(k, v, ttl) == [store EXCEPT ![k] = [value |-> v, expires |-> now + ttl]]
Acquired(k, w) == IF Live(k) THEN store ELSE SetEx(k, w, Lease)
\* Bug: DEL without comparing the token.
Released_Anyones(k, w) == [store EXCEPT ![k] = Nothing]
Released(k, w) == IF store[k].value = w THEN [store EXCEPT ![k] = Nothing] ELSE store
\* Bug: a plain SET.
CachedIfOwner_Anyone(w, text) == SetEx("processed", text, Ttl)
CachedIfOwner(w, text) == IF store["event"].value = w THEN SetEx("processed", text, Ttl) ELSE store

At(w, pc) == worker[w].pc = pc
Goto(w, pc) == worker' = [worker EXCEPT ![w].pc = pc]
TurnAway(w, pc) == worker' = [worker EXCEPT ![w].pc = pc, ![w].clean = FALSE]
Leave(w) == overran' = overran \ {w}

Init == /\ now = 0
        /\ kind \in [collector : Collectors, published : Published, alert : BOOLEAN]
        /\ store = [k \in Keys |-> Nothing]
        /\ worker = [w \in Worker |-> Idle]
        /\ accepted = 0 /\ told = {} /\ excused = FALSE
        /\ overran = {} /\ failedAt = None /\ faults = 0
-----------------------------------------------------------------------------
(* Processing.                                                             *)

\* Where an event goes once it is processed: only an alert is delivered, and the
\* geopolitical collector looks at its age before it takes the delivery lease.
ToDelivery(text) == IF text # Quiet /\ (kind.collector = "geopolitical" => Fresh) THEN "lease" ELSE "done"

Collect(w) == /\ At(w, "idle")
              /\ IF Fresh THEN Goto(w, "lookup") ELSE UNCHANGED worker
              /\ UNCHANGED <<now, kind, store, ghosts>>

\* Bug: what is cached counts as delivered.
Lookup_NeverDelivers(w) ==
    /\ At(w, "lookup")
    /\ worker' = IF Live("processed")
                 THEN [worker EXCEPT ![w].text = store["processed"].value, ![w].pc = "done"]
                 ELSE [worker EXCEPT ![w].pc = "claim"]
    /\ UNCHANGED <<now, kind, store, ghosts>>
Lookup(w) == /\ At(w, "lookup")
             /\ IF Live("processed")
                THEN LET text == store["processed"].value
                     IN worker' = [worker EXCEPT ![w].text = text, ![w].pc = ToDelivery(text)]
                ELSE Goto(w, "claim")
             /\ UNCHANGED <<now, kind, store, ghosts>>

Claim(w) == /\ At(w, "claim")
            /\ IF Live("event") THEN TurnAway(w, "done") ELSE Goto(w, "recheck")
            /\ store' = Acquired("event", w)
            /\ UNCHANGED <<now, kind, ghosts>>

\* The deterministic half of the analysis: Treasury withholds an alert that is no longer
\* fresh, and the analyzer is asked about an alert only.
Eligible == kind.alert /\ (kind.collector = "treasury" => Fresh)
StartAnalysis(w) == IF Eligible THEN Goto(w, "analyze")
                    ELSE worker' = [worker EXCEPT ![w].text = Quiet, ![w].pc = "cache"]

Recheck(w) == /\ At(w, "recheck")
              /\ IF Live("processed") THEN TurnAway(w, "release")
                 ELSE IF kind.collector = "bls" THEN Goto(w, "cooldown") ELSE StartAnalysis(w)
              /\ UNCHANGED <<now, kind, store, ghosts>>

Cooldown(w) == /\ At(w, "cooldown")
               /\ IF Live("retry") THEN TurnAway(w, "release") ELSE Goto(w, "query")
               /\ UNCHANGED <<now, kind, store, ghosts>>

Query(w) == /\ At(w, "query")
            /\ \/ StartAnalysis(w) /\ UNCHANGED failedAt
               \/ Goto(w, "back_off") /\ failedAt' = IF w \in overran THEN failedAt ELSE now
            /\ UNCHANGED <<now, kind, store, accepted, told, excused, overran, faults>>

\* Bug: the cool-down is as short as the lease.
CoolingDown_Short == SetEx("retry", Set, Lease)
CoolingDown == SetEx("retry", Set, RetryAfter)
BackOff(w) == /\ At(w, "back_off")
              /\ store' = CoolingDown
              /\ TurnAway(w, "release")
              /\ UNCHANGED <<now, kind, ghosts>>

Analyze(w) == /\ At(w, "analyze")
              /\ \E text \in Texts : worker' = [worker EXCEPT ![w].text = text, ![w].pc = "cache"]
              /\ UNCHANGED <<now, kind, store, ghosts>>

Cache(w) == /\ At(w, "cache")
            /\ store' = CachedIfOwner(w, worker[w].text)
            /\ IF store'["processed"] # store["processed"] THEN Goto(w, "release") ELSE TurnAway(w, "release")
            /\ UNCHANGED <<now, kind, ghosts>>

Release(w) == /\ At(w, "release")
              /\ store' = Released("event", w)
              /\ Goto(w, IF worker[w].clean THEN ToDelivery(worker[w].text) ELSE "done")
              /\ Leave(w)
              /\ UNCHANGED <<now, kind, accepted, told, excused, failedAt, faults>>
-----------------------------------------------------------------------------
(* Delivery.                                                               *)

TakeLease(w) == /\ At(w, "lease")
                /\ IF Live("delivery") THEN TurnAway(w, "done") ELSE Goto(w, "gate")
                /\ store' = Acquired("delivery", w)
                /\ UNCHANGED <<now, kind, ghosts>>

Pending == Fresh /\ ~Live("delivered")
Gate(w) == /\ At(w, "gate")
           /\ worker' = IF Pending THEN [worker EXCEPT ![w].pc = "send", ![w].attempt = 1]
                                   ELSE [worker EXCEPT ![w].pc = "unlease"]
           /\ UNCHANGED <<now, kind, store, ghosts>>

Accept(w) == accepted' = accepted + 1 /\ told' = told \cup {worker[w].text}

Confirmed(w) == /\ At(w, "send")
                /\ Accept(w)
                /\ Goto(w, "mark")
                /\ UNCHANGED <<now, kind, store, excused, overran, failedAt, faults>>

\* An attempt that raises is repeated; an answer that is not "ok", or the last attempt
\* failing, is a delivery error.
LastAttempt(w) == worker[w].attempt >= MaxAttempts
Unconfirmed(w) == \/ ~LastAttempt(w) /\ worker' = [worker EXCEPT ![w].attempt = @ + 1]
                  \/ TurnAway(w, "unlease")
Refused(w) == /\ At(w, "send")
              /\ Unconfirmed(w)
              /\ UNCHANGED <<now, kind, store, ghosts>>
Lost(w) == /\ At(w, "send") /\ faults < MaxFaults
           /\ Accept(w)
           /\ Unconfirmed(w)
           /\ excused' = TRUE /\ faults' = faults + 1
           /\ UNCHANGED <<now, kind, store, overran, failedAt>>

Mark(w) == /\ At(w, "mark")
           /\ store' = SetEx("delivered", Set, Ttl)
           /\ Goto(w, "unlease")
           /\ UNCHANGED <<now, kind, ghosts>>

Unlease(w) == /\ At(w, "unlease")
              /\ store' = Released("delivery", w)
              /\ Goto(w, "done")
              /\ Leave(w)
              /\ UNCHANGED <<now, kind, accepted, told, excused, failedAt, faults>>

Finish(w) == /\ At(w, "done")
             /\ worker' = [worker EXCEPT ![w] = Idle]
             /\ UNCHANGED <<now, kind, store, ghosts>>
-----------------------------------------------------------------------------
(* What goes wrong.                                                        *)

\* Where a RedisError leads: through the finally clause that holds the lease, or out to
\* the collector, which counts a state error and goes on.
OnError == [lookup |-> "done", claim |-> "done", recheck |-> "release", cooldown |-> "release",
            back_off |-> "release", cache |-> "release", release |-> "done", lease |-> "done",
            gate |-> "unlease", mark |-> "unlease", unlease |-> "done"]

\* The command a worker has issued, had Redis executed it.
Issued(w) == CASE At(w, "claim") -> Acquired("event", w)
               [] At(w, "back_off") -> CoolingDown
               [] At(w, "cache") -> CachedIfOwner(w, worker[w].text)
               [] At(w, "release") -> Released("event", w)
               [] At(w, "lease") -> Acquired("delivery", w)
               [] At(w, "mark") -> SetEx("delivered", Set, Ttl)
               [] At(w, "unlease") -> Released("delivery", w)
               [] OTHER -> store

Fault(w) == /\ faults < MaxFaults /\ faults' = faults + 1
            /\ excused' = (excused \/ At(w, "mark"))
            /\ failedAt' = IF At(w, "back_off") THEN None ELSE failedAt
            /\ UNCHANGED <<now, kind, accepted, told>>

\* The command or its reply is lost; redis-py raises.
RedisFails(w) == /\ worker[w].pc \in DOMAIN OnError
                 /\ store' \in {store, Issued(w)}
                 /\ TurnAway(w, OnError[worker[w].pc])
                 /\ IF worker[w].pc \in {"release", "unlease"} THEN Leave(w) ELSE UNCHANGED overran
                 /\ Fault(w)

\* The scheduler's timeout or the host ends the process: no finally clause runs.
Crash(w) == /\ ~At(w, "idle")
            /\ worker' = [worker EXCEPT ![w] = Idle]
            /\ Leave(w)
            /\ UNCHANGED store
            /\ Fault(w)

\* Time passes and keys expire.
RunsOut(k) == Live(k) /\ store[k].expires <= now + 1
Overrun(k) == {w \in Worker : RunsOut(k) /\ store[k].value = w /\ worker[w].pc \in Section[k]}
Tick == /\ now < MaxTime
        /\ now' = now + 1
        /\ store' = [k \in Keys |-> IF RunsOut(k) THEN Nothing ELSE store[k]]
        /\ overran' = overran \cup Overrun("event") \cup Overrun("delivery")
        /\ excused' = (excused \/ \E w \in Overrun("delivery") : ~At(w, "unlease"))
        /\ failedAt' = IF \E w \in Overrun("event") : At(w, "back_off") THEN None ELSE failedAt
        /\ UNCHANGED <<kind, worker, accepted, told, faults>>

Next == \/ \E w \in Worker :
            \/ Collect(w) \/ Lookup(w) \/ Claim(w) \/ Recheck(w) \/ Cooldown(w) \/ Query(w)
            \/ BackOff(w) \/ Analyze(w) \/ Cache(w) \/ Release(w)
            \/ TakeLease(w) \/ Gate(w) \/ Confirmed(w) \/ Refused(w) \/ Lost(w) \/ Mark(w) \/ Unlease(w)
            \/ Finish(w) \/ RedisFails(w) \/ Crash(w)
        \/ Tick

Spec == Init /\ [][Next]_vars

\* Workers, and what an analysis can say, are interchangeable (for the instances).
Symmetry == Permutations(Worker) \cup Permutations(Texts)
-----------------------------------------------------------------------------
\* Every variable keeps to its type; no send uses more attempts than the notifier has.
TypeOK ==
    /\ now \in 0..MaxTime
    /\ kind \in [collector : Collectors, published : Published, alert : BOOLEAN]
    /\ store \in [Keys -> [value : Worker \cup Texts \cup {Quiet, Set, None}, expires : 0..(MaxTime + Ttl + RetryAfter + Lease)]]
    /\ worker \in [Worker -> [pc : Points, text : Texts \cup {Quiet, None}, clean : BOOLEAN, attempt : 0..MaxAttempts]]
    /\ accepted \in Nat /\ told \subseteq Texts
    /\ excused \in BOOLEAN /\ overran \subseteq Worker
    /\ failedAt \in 0..MaxTime \cup {None} /\ faults \in 0..MaxFaults

\* Under each lease there is at most one worker whose own lease has not run out: a worker
\* that lost its lease never frees the one that a newer worker holds.
LeasesExclude == \A k \in {"event", "delivery"} :
    \A v, w \in Worker \ overran : worker[v].pc \in Section[k] /\ worker[w].pc \in Section[k] => v = w

\* The workers are kept apart in well-typed states.
WorkersApart == TypeOK /\ LeasesExclude

\* An event is announced a second time only when its first message could not be marked: the
\* confirmation or the marker was lost, the process died in between, or the send outlived
\* its lease.  In particular it is never announced again because the marker expired.
DuplicateNeedsExcuse == accepted > 1 => excused

\* Whatever goes wrong, every message about one event carries the same analysis: a slow
\* worker cannot replace the cached one, and the cache outlives the event's freshness.
SameContent == \A s, t \in told : s = t

\* One analysis per event: its workers are kept apart, and its messages agree.
OneAnalysis == WorkersApart /\ SameContent

\* A cycle over a fresh alert that met no error and was turned away by nobody ends with the
\* alert marked as delivered, also when an earlier process cached it and died.
CleanCycleDelivers == \A w \in Worker :
    At(w, "done") /\ worker[w].clean /\ worker[w].text \in Texts /\ Fresh => Live("delivered")

\* The BLS API is not asked again within the cool-down after a failed query, unless one of
\* the two workers had lost its lease or the cool-down could not be written.
QueriesSpaced == [][\A w \in Worker \ overran : ~At(w, "query") /\ At(w, "query")' =>
                        failedAt = None \/ now >= failedAt + RetryAfter]_vars
=============================================================================
