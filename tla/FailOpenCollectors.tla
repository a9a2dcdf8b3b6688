--------------------------- MODULE FailOpenCollectors ---------------------------
(***************************************************************************)
(* The collectors that keep going without Redis: RSS news and SEC filings, *)
(* which set an event's marker before they process it, and Federal Reserve *)
(* events, which also cache the result and mark a confirmed delivery.      *)
(* Cycles of several processes overlap, Redis and Telegram fail with the   *)
(* effect done or not, keys expire and processes die.                      *)
(***************************************************************************)
EXTENDS Integers, Sequences, SequencesExt, FiniteSetsExt

CONSTANTS
    Workers,
    Undated,        \* no publication time
    Recent,         \* six hours
    DedupTtl, HeadlineTtl, FedMaxAge,
    MaxSends,       \* MAX_RETRIES of send_telegram_alert
    AlertAt, DisplayAt,  \* ALERT_THRESHOLD and DISPLAY_THRESHOLD
    Penalties,      \* what adjust_alert_quality may take off a score
    LastSecond,     \* bound on the clock
    MaxFaults, MaxCycles  \* bounds: failures, and cycles started

CollectorsAssumption == {DedupTtl, HeadlineTtl, FedMaxAge, MaxSends} \subseteq Nat \ {0}
\* The sources: an entry keeps its text and its date under one fingerprint, and no Fed release is dated ahead.
EntriesIn(world) == UNION {Range(world[w]) : w \in Workers}
EntriesAssumption(worlds) ==
    \A world \in worlds :
      /\ world \in [Workers -> Seq(EntriesIn(world))]
      /\ \A e \in EntriesIn(world) : /\ e.family \in {"news", "sec", "fed"}
                                     /\ e.family = "fed" => e.published = Undated \/ (e.published \in Int /\ e.published <= 0)
                                     /\ \A d \in EntriesIn(world) : d.id = e.id => d = e

VARIABLES
    feeds,
    seconds,
    redis,      \* [key -> [value, until]]
    worker,     \* per worker: where it is in its cycle
    telegram,   \* [event -> copies the channel has accepted]
    shadowed,   \* events submitted to the historical writer
    trouble,    \* what went wrong with which event: <<event, kind>> (for the properties)
    faults, cycles  \* how many failures there were, and cycles started
collectorVars == <<feeds, seconds, redis, worker, telegram, shadowed, trouble, faults, cycles>>

-----------------------------------------------------------------------------
\* Scores: calculate_impact_score, score_sec_event and score_fed_event, and what follows from a score.
Capped(n) == Max({0, Min({100, n})})
NewsScore(e, t) == Capped(40 * e.direct + 15 * e.related + e.points + e.quality
                          + IF e.published = Undated THEN 0 ELSE IF t - e.published <= Recent THEN 10 ELSE 0)
SecScore(e) == Capped(e.points + IF e.direct > 0 THEN 25 ELSE 0)
FedScore(e) == e.points
Score(e, t) == CASE e.family = "news" -> NewsScore(e, t) [] e.family = "sec" -> SecScore(e) [] e.family = "fed" -> FedScore(e)
Adjusted(score, penalty) == Capped(score - penalty)
Decision(score) == IF score >= AlertAt THEN "ALERT" ELSE IF score >= DisplayAt THEN "DISPLAY_ONLY" ELSE "IGNORE"
\* detect_symbols: a watched name in the headline is direct, one only in the summary related.
Relevant(e) == e.family # "news" \/ e.direct + e.related > 0

\* Keys.  FedTtl outlives both the marker and the event's age limit.
\* Mutant: the delivered marker lives as long as any other.
FedTtl_Short == DedupTtl
FedTtl == Max({DedupTtl, FedMaxAge}) + 1
Marker(e) == <<"event", e.family, e.id>>
Headline(e) == <<"headline", e.id>>
Processed(e) == <<"processed", e.id>>
Delivered(e) == <<"delivered", e.id>>
Live(key) == key \in DOMAIN redis /\ redis[key].until > seconds
Stored(key, value, ttl) ==
    [k \in DOMAIN redis \cup {key} |-> IF k = key THEN [value |-> value, until |-> seconds + ttl] ELSE redis[k]]

Idle == [pc |-> "idle", left |-> <<>>, send |-> FALSE, score |-> 0, attempt |-> 0, since |-> 0]
\* worlds: the entries each worker's cycle goes through, [worker -> sequence of entries].
CollectorsInit(worlds) ==
    /\ feeds \in worlds
    /\ seconds = 0
    /\ redis = [k \in {} |-> 0]
    /\ worker = [w \in Workers |-> Idle]
    /\ telegram = [e \in {x.id : x \in EntriesIn(feeds)} |-> 0]
    /\ shadowed = {} /\ trouble = {} /\ faults = 0 /\ cycles = 0

\* Helpers of the steps: the entry a worker is at, and where it goes next.
Entry(w) == Head(worker[w].left)
At(w, pc) == worker[w].pc = pc
First(left) == IF left = <<>> THEN "idle" ELSE IF Head(left).family = "fed" THEN "read" ELSE "dedupe"
Go(w, pc) == worker' = [worker EXCEPT ![w].pc = pc]
\* The next entry of the source, or the first of the next source.
NextEntry(w) == LET rest == Tail(worker[w].left)
                IN worker' = [worker EXCEPT ![w].left = rest, ![w].pc = First(rest), ![w].attempt = 0]
Shadow(w) == shadowed' = shadowed \cup {Entry(w).id}
Note(w, kind) == trouble' = trouble \cup {<<Entry(w).id, kind>>} /\ UNCHANGED faults
Blame(w, kind) == /\ faults < MaxFaults /\ faults' = faults + 1
                  /\ trouble' = trouble \cup {<<Entry(w).id, kind>>}
Sure == UNCHANGED <<trouble, faults>>
storeOnly == <<feeds, seconds, telegram, cycles>>

\* A cycle over the feed; a failed or empty fetch is a cycle over nothing.
StartCycle(w) ==
    /\ At(w, "idle") /\ cycles < MaxCycles /\ cycles' = cycles + 1
    /\ \E send \in BOOLEAN :
         worker' = [worker EXCEPT ![w] = [Idle EXCEPT !.left = feeds[w], !.pc = First(feeds[w]), !.send = send]]
    /\ Sure /\ UNCHANGED <<feeds, seconds, redis, telegram, shadowed>>

\* Irrelevant news is only counted.  is_duplicate: SET NX EX; on an error the event is processed, whether or not the
\* command ran.  When only its answer is lost the client sends the command again, which now finds the marker it has set:
\* the event is taken for a duplicate, and nothing logs an error.
Dedupe(w) ==
    /\ At(w, "dedupe")
    /\ LET e == Entry(w)
           proceed == Go(w, IF e.family = "news" THEN "scan" ELSE "score")
           marked == Stored(Marker(e), "1", DedupTtl)
       IN \/ /\ ~Relevant(e) \/ Live(Marker(e))
             /\ NextEntry(w) /\ Sure /\ UNCHANGED redis
          \/ /\ Relevant(e) /\ ~Live(Marker(e))
             /\ redis' = marked /\ proceed /\ Sure
          \/ /\ Relevant(e)
             /\ redis' \in {redis, IF Live(Marker(e)) THEN redis ELSE marked}
             /\ proceed /\ Blame(w, "redis")
          \/ /\ Relevant(e) /\ ~Live(Marker(e))
             /\ redis' = marked /\ NextEntry(w) /\ Blame(w, "resent")
    /\ UNCHANGED <<storeOnly, shadowed>>

\* is_near_duplicate_headline: a scan and, later, a write; two workers may both scan before either writes.
Scan(w) ==
    /\ At(w, "scan")
    /\ LET e == Entry(w)
           similar == \E k \in DOMAIN redis : k[1] = "headline" /\ Live(k) /\ redis[k].value = e.like
       IN \/ similar /\ NextEntry(w) /\ Shadow(w) /\ Note(w, "near_duplicate")
          \/ ~similar /\ Go(w, "remember") /\ Sure /\ UNCHANGED shadowed
          \/ Go(w, "score") /\ Blame(w, "redis") /\ UNCHANGED shadowed
    /\ UNCHANGED <<storeOnly, redis>>
Remember(w) ==
    /\ At(w, "remember") /\ Go(w, "score")
    /\ LET e == Entry(w)  kept == Stored(Headline(e), e.like, HeadlineTtl)
       IN \/ redis' = kept /\ Sure
          \/ redis' \in {redis, kept} /\ Blame(w, "redis")
    /\ UNCHANGED <<storeOnly, shadowed>>

\* Scoring and, for an ALERT, enrichment: it fails and changes nothing, or its event type adjusts the score.
ScoreEntry(w) ==
    /\ At(w, "score")
    /\ LET e == Entry(w)
           base == Score(e, seconds)
           ai == IF Decision(base) = "ALERT" /\ e.family # "sec" THEN Penalties \cup {0} ELSE {0}
       IN \E penalty \in ai :
            LET score == Adjusted(base, penalty)
            IN worker' = [worker EXCEPT ![w].score = score,
                 ![w].pc = IF e.family = "fed" THEN "cache"
                           ELSE IF worker[w].send /\ Decision(score) = "ALERT" THEN "send" ELSE "shadow"]
    /\ Sure /\ UNCHANGED <<storeOnly, redis, shadowed>>

\* send_telegram_alert, one attempt: accepted and answered, accepted with the answer lost, or refused.
Attempt(w) ==
    /\ At(w, "send")
    /\ LET id == Entry(w).id
           last == worker[w].attempt + 1 = MaxSends
           after == IF Entry(w).family = "fed" THEN "mark" ELSE "shadow"
           retry == worker' = [worker EXCEPT ![w].attempt = @ + 1, ![w].pc = IF last THEN "shadow" ELSE "send"]
           accepted == telegram' = [telegram EXCEPT ![id] = @ + 1]
       IN \/ accepted /\ Go(w, after) /\ Sure
          \/ accepted /\ retry /\ Blame(w, "answer_lost")
          \/ retry /\ Blame(w, "refused") /\ UNCHANGED telegram
    /\ UNCHANGED <<feeds, seconds, redis, shadowed, cycles>>

\* The historical copy is the last thing done with an entry and does not depend on its delivery.
Submit(w) == /\ At(w, "shadow") /\ NextEntry(w) /\ Shadow(w)
             /\ IF worker[w].send THEN Sure ELSE Note(w, "unsent")
             /\ UNCHANGED <<storeOnly, redis>>

-----------------------------------------------------------------------------
\* The Federal Reserve collector.  An undated or stale entry is only copied.
ReadProcessed(w) ==
    /\ At(w, "read")
    /\ LET e == Entry(w)
           fresh == IF e.published = Undated THEN FALSE ELSE seconds - e.published <= FedMaxAge
           process == worker' = [worker EXCEPT ![w].pc = "dedupe", ![w].since = seconds]
       IN \/ ~fresh /\ NextEntry(w) /\ Shadow(w) /\ Sure
          \/ /\ fresh
             /\ UNCHANGED shadowed
             /\ \/ Live(Processed(e)) /\ Sure
                   /\ worker' = [worker EXCEPT ![w].score = redis[Processed(e)].value, ![w].since = seconds,
                                               ![w].pc = IF worker[w].send THEN "pending" ELSE "shadow"]
                \/ ~Live(Processed(e)) /\ process /\ Sure
                \/ process /\ Blame(w, "redis")
    /\ UNCHANGED <<storeOnly, redis>>

CacheResult(w) ==
    /\ At(w, "cache") /\ Go(w, IF worker[w].send THEN "pending" ELSE "shadow")
    /\ LET kept == Stored(Processed(Entry(w)), worker[w].score, FedTtl)
       IN \/ redis' = kept /\ Sure
          \/ redis' \in {redis, kept} /\ Blame(w, "redis")
    /\ UNCHANGED <<storeOnly, shadowed>>

\* _deliver_if_pending: the marker is read here and written after the confirmation, with nothing held in between.
Sending(w) == worker[w].pc \in {"send", "mark"}
ReadDelivered(w) ==
    /\ At(w, "pending")
    /\ LET e == Entry(w)
           other == \E v \in Workers \ {w} : Sending(v) /\ Entry(v).id = e.id
           overlaps == IF other THEN Note(w, "overlap") ELSE IF worker[w].since < seconds THEN Note(w, "slow") ELSE Sure
       IN IF Decision(worker[w].score) # "ALERT" THEN Go(w, "shadow") /\ Sure
          ELSE \/ Live(Delivered(e)) /\ Go(w, "shadow") /\ Sure
               \/ ~Live(Delivered(e)) /\ Go(w, "send") /\ overlaps
               \/ Go(w, "send") /\ Blame(w, "redis")
    /\ UNCHANGED <<storeOnly, redis, shadowed>>
MarkDelivered(w) ==
    /\ At(w, "mark") /\ Go(w, "shadow")
    /\ LET kept == Stored(Delivered(Entry(w)), "1", FedTtl)
       IN \/ redis' = kept /\ Sure
          \/ redis' \in {redis, kept} /\ Blame(w, "redis")
    /\ UNCHANGED <<storeOnly, shadowed>>

\* A process dies; time passes and keys expire with it.
Die(w) == /\ ~At(w, "idle") /\ worker' = [worker EXCEPT ![w] = Idle] /\ Blame(w, "crash")
          /\ UNCHANGED <<storeOnly, redis, shadowed>>
SecondPasses ==
    /\ seconds < LastSecond /\ seconds' = seconds + 1
    /\ trouble' = trouble \cup {<<k[Len(k)], "expired">> : k \in {x \in DOMAIN redis : x[1] # "headline" /\ redis[x].until = seconds'}}
    /\ UNCHANGED <<feeds, redis, worker, telegram, shadowed, faults, cycles>>

Step(w) == \/ Dedupe(w) \/ Scan(w) \/ Remember(w) \/ ScoreEntry(w) \/ Attempt(w) \/ Submit(w)
           \/ ReadProcessed(w) \/ CacheResult(w) \/ ReadDelivered(w) \/ MarkDelivered(w)
CollectorsNext == SecondPasses \/ \E w \in Workers : StartCycle(w) \/ Step(w) \/ Die(w)

-----------------------------------------------------------------------------
Excused(id, kinds) == \E k \in kinds : <<id, k>> \in trouble
Entries == EntriesIn(feeds)

(* An event reaches the channel twice only for a reason its log shows: a Redis error let it through, an answer was lost,
   or its marker expired while the entry was still in the feed; a Fed event also when two processes had it pending at
   once, one died before it wrote the delivered marker, or took so long from the check of the event's age to that of the
   marker that the event was too old by then.  A fresh Fed event never twice because a key expired. *)
TwiceNeedsExcuse ==
    \A e \in Entries : telegram[e.id] > 1 =>
       Excused(e.id, {"redis", "answer_lost"} \cup IF e.family = "fed" THEN {"overlap", "slow", "crash"} ELSE {"expired"})

(* A marker without a message: an alert whose marker stands, with no process at it, was announced unless a crash, a
   failed delivery, a Redis error or an earlier headline like it stopped it, no cycle was asked to send it, or - the one
   case no log shows - the client resent the command that set the marker and was answered by its own first copy. *)
AlertOf(e) == \A p \in Penalties \cup {0} : \A t \in 0..seconds : Decision(Adjusted(Score(e, t), p)) = "ALERT"
SilenceNeedsExcuse ==
    \A e \in Entries :
      (/\ Live(Marker(e)) /\ AlertOf(e) /\ telegram[e.id] = 0
       /\ \A w \in Workers : At(w, "idle") \/ e \notin Range(worker[w].left))
      => Excused(e.id, {"crash", "refused", "redis", "near_duplicate", "unsent", "resent"})

(* A Fed alert that was cached is never lost by a failed delivery: a later cycle that goes through it without trouble
   of its own ends with the message in the channel. *)
CachedIsDelivered ==
    \A w \in Workers : LET e == Entry(w) IN
      (/\ At(w, "shadow") /\ e.family = "fed" /\ worker[w].send /\ Decision(worker[w].score) = "ALERT" /\ worker[w].attempt = 0)
      => telegram[e.id] > 0
CollectorsSound == TwiceNeedsExcuse /\ SilenceNeedsExcuse /\ CachedIsDelivered
=============================================================================
