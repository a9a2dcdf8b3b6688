------------------------------- MODULE MarketFeed -------------------------------
(***************************************************************************)
(* One run of the market context runner against a live vendor: it reads    *)
(* the clock once, fetches every symbol page by page through the paced and *)
(* retrying HTTP client, cuts each series at the run's as_of and builds    *)
(* the context.  Waits, retries and slow answers let time pass while the   *)
(* run is under way, and the vendor's data grow meanwhile.                 *)
(***************************************************************************)
EXTENDS MarketContext

CONSTANTS
    Primary, Benchmark,  \* the series of the run; the symbol is fetched first
    Delay,              \* MARKET_DATA_DELAY_SECONDS
    MaxRetries, MinInterval, Backoff, Fallback, MaxWait,  \* settings of the client
    MaxPages, PageSize, \* MAX_PAGES and the vendor's page size
    Latency             \* bound: how long an answer may take

ASSUME FeedAssumption == /\ MaxRetries \in Nat /\ MaxPages \in Nat \ {0} /\ PageSize \in Nat \ {0}
                         /\ Delay \in Nat /\ MinInterval \in Nat /\ Primary # Benchmark

VARIABLES
    vendor,    \* [symbol -> the bars it will ever trade], oldest first
    wall,      \* the time
    now,       \* the clock as run() read it
    reading,   \* the series being fetched, None when the run has ended
    asOf,      \* the provider's own cut-off for that series
    page, attempt, received,  \* of the pagination and of get_json
    lastRequest,              \* _last_request_at
    cache, errors             \* of fetch_all

fetching == <<page, attempt, received>>
feedVars == <<vendor, wall, now, reading, asOf, fetching, lastRequest, cache, errors>>

Series == {Primary, Benchmark}
RunAsOf == now - Delay

\* fetch_window: from midnight two sessions before the latest trading day to just after as_of.
LatestDay(t) == IF DayOf(t) \in Trading THEN DayOf(t) ELSE PreviousTradingDay(DayOf(t))
FetchedFrom(t) == LET first == PreviousTradingDay(PreviousTradingDay(LatestDay(t))) IN first * DayLength

\* What the vendor has at time t inside the window: a forming bar shows its open only.
Formed(b, t) == IF b.at + b.len <= t THEN b ELSE [b EXCEPT !.high = b.open, !.low = b.open, !.close = b.open]
Offered(s, t) ==
    LET visible == SelectSeq(vendor[s], LAMBDA b : /\ FetchedFrom(RunAsOf) <= b.at
                                                   /\ b.at <= RunAsOf /\ b.at <= t)
    IN [i \in DOMAIN visible |-> Formed(visible[i], t)]
PageOf(bars, p) == SubSeq(bars, p * PageSize + 1, Min({Len(bars), (p + 1) * PageSize}))
HasNext(bars, p) == Len(bars) > (p + 1) * PageSize

FeedInit(worlds, times) ==
    /\ vendor \in worlds
    /\ wall \in times
    /\ now = wall
    /\ reading = Primary /\ asOf = wall - Delay
    /\ page = 0 /\ attempt = 0 /\ received = <<>> /\ lastRequest = None
    /\ cache = [s \in {} |-> <<>>] /\ errors = [s \in {} |-> "none"]

\* The next series, with the provider reading its own clock; run() has none left after the benchmark.
NextSeries(t) ==
    /\ reading' = IF reading = Primary THEN Benchmark ELSE None
    /\ asOf' = t - Delay
    /\ page' = 0 /\ attempt' = 0 /\ received' = <<>>

\* Mutant: fetch_all trusts the provider's own as_of.
Deliver_OwnClock(bars, t) ==
    /\ cache' = cache @@ (reading :> Completed(bars, asOf))
    /\ NextSeries(t) /\ UNCHANGED errors
\* get_bars ends and fetch_all cuts what it returned at the run's as_of.
Deliver(bars, t) ==
    /\ cache' = cache @@ (reading :> Completed(Completed(bars, asOf), RunAsOf))
    /\ NextSeries(t) /\ UNCHANGED errors
Fail(kind, t) ==
    /\ cache' = cache @@ (reading :> <<>>) /\ errors' = errors @@ (reading :> kind)
    /\ NextSeries(t)

\* _pace and the request: it leaves at least MinInterval after the previous one, retries included.
SentAt == IF lastRequest = None THEN wall ELSE Max({wall, lastRequest + MinInterval})
Send == /\ reading # None
        /\ lastRequest' = SentAt
        /\ UNCHANGED <<vendor, now>>

\* A 200 with a page: its results are kept, and a next_url to the same host is followed up to MaxPages.
Answered ==
    /\ Send
    /\ \E t \in SentAt..(SentAt + Latency) :
         LET bars == Offered(reading, t)
             all == received \o PageOf(bars, page)
             kept == ExcludeOvernight(all)
         IN /\ wall' = t
            /\ IF HasNext(bars, page)
               THEN IF page + 1 = MaxPages THEN Fail("payload", t)
                    ELSE /\ page' = page + 1 /\ attempt' = 0 /\ received' = all
                         /\ UNCHANGED <<reading, asOf, cache, errors>>
               ELSE IF ValidSeries(all) /\ ValidCalendarSeries(kept) THEN Deliver(kept, t) ELSE Fail("data", t)

\* _wait: the back-off doubles; a 429 waits for Retry-After or the fallback; the cap holds over both.
Wait(rateLimited, retryAfter) ==
    LET backoff == Backoff * 2 ^ attempt
        asked == IF retryAfter # None THEN Max({backoff, retryAfter})
                 ELSE IF rateLimited THEN Max({backoff, Fallback}) ELSE backoff
    IN Min({asked, MaxWait})

\* A timeout, a connection error, a 429 or a 5xx: retried until the attempts are used up.
Transient ==
    /\ Send
    /\ \E failure \in {[kind |-> "transport", limited |-> FALSE, after |-> None],
                       [kind |-> "http", limited |-> FALSE, after |-> None],
                       [kind |-> "rate_limit", limited |-> TRUE, after |-> None],
                       [kind |-> "rate_limit", limited |-> TRUE, after |-> MaxWait - 1]} :
         IF attempt = MaxRetries
         THEN wall' = SentAt /\ Fail(failure.kind, SentAt)
         ELSE /\ wall' = SentAt + Wait(failure.limited, failure.after)
              /\ attempt' = attempt + 1
              /\ UNCHANGED <<reading, asOf, page, received, cache, errors>>

\* 401/403, a redirect, malformed JSON, another host in next_url, any other 4xx: never retried.
Refused == /\ Send
           /\ wall' = SentAt
           /\ \E kind \in {"auth", "redirect", "payload", "http"} : Fail(kind, SentAt)

FeedNext == Answered \/ Transient \/ Refused

-----------------------------------------------------------------------------
\* build_market_context of the finished run, and the runner's exit code.
ContextOf(s) == SeriesContext(cache[s], now, RunAsOf)
Ended == reading = None
FeedExit == IF DOMAIN errors = {} THEN 0 ELSE 1

\* What a run that took no time would have seen.
Instant(s) == SelectSeq(vendor[s], LAMBDA b : /\ FetchedFrom(RunAsOf) <= b.at /\ Classify(b.at) # "closed"
                                              /\ BarEnd(b) <= RunAsOf)

(* However long the run waits, retries and pages, every context is the one of the single instant as_of:
   a series is exactly the final, completed bars of that instant (Formed bars that completed while the run
   was fetching do not leak in), or empty with its error listed and exit code 1. *)
OneInstant ==
    Ended => /\ \A s \in Series : IF s \in DOMAIN errors THEN cache[s] = <<>> /\ FeedExit = 1
                                  ELSE cache[s] = Instant(s)
             /\ \A s \in Series : Prepared(cache[s], RunAsOf)

Mirrored(forth, back) ==
    /\ (forth.relative = None) = (forth.unavailable # {})
    /\ (forth.relative = None) = (back.relative = None)
    /\ forth.relative # None => back.relative = -forth.relative /\ forth.aligned /\ forth.gap = 0
LagCounts(fresh) ==
    fresh.lag # None => fresh.lag = Cardinality({e \in UNION {GridEnds(d) : d \in Trading} : fresh.latest < e /\ e <= RunAsOf})
BothWays(forth, back) == \A basis \in Bases : Mirrored(forth[basis], back[basis])
ComparedAlike(s, b) ==  \* the two contexts
    ~CompareRaises(cache[Primary], s, cache[Benchmark], b) =>
        BothWays(Compare(cache[Primary], s, cache[Benchmark], b, FALSE), Compare(cache[Benchmark], b, cache[Primary], s, FALSE))
(* A relative return compares like with like: both returns are taken at one instant of one session, so
   exchanging symbol and benchmark negates it; otherwise there is none and the reasons say why.  Lag is the
   number of grid bars the exchange has closed since the latest bar, whatever holidays lie between. *)
LikeWithLike ==
    Ended => /\ ComparedAlike(ContextOf(Primary), ContextOf(Benchmark))
             /\ \A s \in Series : LagCounts(ContextOf(s).freshness)
=============================================================================
