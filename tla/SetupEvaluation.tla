----------------------------- MODULE SetupEvaluation -----------------------------
(***************************************************************************)
(* What became of a setup's candidates: the n-th regular session after the *)
(* assessment, one later snapshot inside that session's closing window,    *)
(* every candidate with an outcome, and the invalidation checks supplied.  *)
(***************************************************************************)
EXTENDS TradeSetup

CONSTANTS
    Calendar,           \* XNYS: a sequence of [date, open, close]
    SessionState(_),    \* the calendar_state an options snapshot of this instant carries
    Window,             \* WINDOW_SECONDS
    Horizons,           \* the sessions ahead an evaluation may ask for
    ProspectiveStart    \* PRODUCTION_PROSPECTIVE_START

-----------------------------------------------------------------------------
\* schedule.py, and verify_calendar: under production the calendar's sessions over the schedule's own range.
ValidSchedule(sched) ==
    /\ sched # <<>>
    /\ \A i \in DOMAIN sched : sched[i].open < sched[i].close
    /\ \A i \in 2..Len(sched) : sched[i].date > sched[i - 1].date /\ sched[i].open > sched[i - 1].close
BuildSchedule(first, last) == SelectSeq(Calendar, LAMBDA s : first <= s.date /\ s.date <= last)
CalendarRefused(sched, protocol) == /\ protocol.purpose = "production"
                                    /\ ~ValidSchedule(sched) \/ sched # BuildSchedule(sched[1].date, sched[Len(sched)].date)
\* Mutant: the session that opens at the anchor counts as ahead of it.
Forward_FromAnchor(sched, anchor) == SelectSeq(sched, LAMBDA s : s.open >= anchor)
Forward(sched, anchor) == SelectSeq(sched, LAMBDA s : s.open > anchor)
ResolveRefused(sched, anchor, n) == sched[1].open > anchor \/ Len(Forward(sched, anchor)) < n
Resolve(sched, anchor, n) == Forward(sched, anchor)[n]

\* protocol.py: v1 has one semantics; only a test protocol or the one pinned for production is usable.
Protocols == {[purpose |-> "test", start |-> None], [purpose |-> "production", start |-> ProspectiveStart]}

-----------------------------------------------------------------------------
\* The facts an evaluation takes of a candidate, and its quote in the later snapshot.
FactsOf(a) == {[id |-> c.source.id, twiceAsk |-> c.derived.twiceAsk, shares |-> c.derived.shares] : c \in a.candidates}
WindowStart(close) == close - Window
ClassifyQuote(q, start, close) ==
    IF q.status \in {"unavailable", "missing"} THEN "quote_unavailable"
    ELSE IF q.status = "excluded_after_as_of" THEN "quote_after_cutoff"
    ELSE IF q.basis # "observed_at" \/ q.observed = None THEN "quote_timing_unverified"
    ELSE IF None \in {q.value.bid, q.value.ask} THEN "quote_not_two_sided"
    ELSE IF q.value.bid > q.value.ask THEN "quote_crossed"
    ELSE IF q.observed < start THEN "quote_stale"
    ELSE IF q.observed > close THEN "quote_after_cutoff" ELSE "observed"

\* derived_values; prices are kept doubled, as the entry is.
NotObserved == [bid |-> None, change |-> None, return |-> None, returnStatus |-> "not_observed",
                dollar |-> None, dollarStatus |-> "not_observed"]
DerivedValues(entry, shares, bid, changed) ==
    LET change == 2 * bid - entry
        dollarStatus == IF shares = None THEN "multiplier_unavailable" ELSE IF changed THEN "contract_terms_changed" ELSE "computed"
    IN [bid |-> bid, change |-> change, return |-> IF entry = 0 THEN None ELSE Ratio(change, entry),
        returnStatus |-> IF entry = 0 THEN "entry_reference_zero" ELSE "computed",
        dollar |-> IF dollarStatus = "computed" THEN change * shares ELSE None, dollarStatus |-> dollarStatus]

Outcome(fact, s, session) ==
    LET found == {c \in s.contracts : c.id = fact.id}
        later == CHOOSE c \in found : TRUE
        quote == IF found = {} \/ fact.id.expiration < session.date THEN None ELSE later.facts["quote"]
        status == IF fact.id.expiration < session.date THEN "expired_before_target"
                  ELSE IF found = {} THEN IF s.truncated THEN "observation_incomplete" ELSE "contract_absent"
                  ELSE ClassifyQuote(quote, WindowStart(session.close), session.close)
    IN [fact |-> fact, quote |-> quote, status |-> status,
        values |-> IF status # "observed" THEN NotObserved
                   ELSE DerivedValues(fact.twiceAsk, fact.shares, quote.value.bid, None \notin {fact.shares, later.shares} /\ later.shares # fact.shares)]

\* summarize and relation
Counted(rows, field(_)) == [k \in {field(o) : o \in rows} |-> Cardinality({o \in rows : field(o) = k})]
Sign(n) == IF n > 0 THEN "positive" ELSE IF n < 0 THEN "negative" ELSE "zero"
Summarize(outcomes) ==
    [candidates |-> Cardinality(outcomes), statuses |-> Counted(outcomes, LAMBDA o : o.status),
     signs |-> Counted({o \in outcomes : o.status = "observed"}, LAMBDA o : Sign(o.values.change))]
Relation(checks, close) ==
    LET invalidating == {k.marketId : k \in {c \in checks : c.result[1] = "invalidated" /\ c.asOf <= close}}
    IN [status |-> IF checks = {} THEN "not_evaluated" ELSE IF invalidating # {} THEN "invalidated_by_target" ELSE "no_invalidation_observed",
        checks |-> {k.marketId : k \in checks}, invalidating |-> invalidating]

-----------------------------------------------------------------------------
\* evaluate: an input error seals nothing.
EvaluationRefused(a, s, sched, protocol, n, checks) ==
    \/ CalendarRefused(sched, protocol) \/ protocol \notin Protocols \/ n \notin Horizons
    \/ a.outcome # "setup_candidates" \/ ~ValidSchedule(sched) \/ \E k \in checks : k.setup # a
    \/ protocol.purpose = "production" /\ a.asOf < protocol.start
    \/ s.underlying # a.symbol \/ ResolveRefused(sched, a.asOf, n)
    \/ LET session == Resolve(sched, a.asOf, n)
       IN \/ s.asOf <= a.asOf \/ s.asOf < WindowStart(session.close) \/ s.asOf > session.close
          \/ SessionState(s.asOf) # "regular" \/ s.session # session.date
Evaluate(a, s, sched, protocol, n, checks) ==
    LET session == Resolve(sched, a.asOf, n)
        outcomes == {Outcome(f, s, session) : f \in FactsOf(a)}
    IN [sealed |-> TRUE, protocol |-> protocol, anchor |-> a.asOf, symbol |-> a.symbol, count |-> Cardinality(FactsOf(a)),
        observation |-> [asOf |-> s.asOf, date |-> s.session, truncated |-> s.truncated, underlying |-> s.underlying],
        schedule |-> sched, horizon |-> [n |-> n, date |-> session.date, open |-> session.open, close |-> session.close,
                                         start |-> WindowStart(session.close)],
        outcomes |-> outcomes, summary |-> Summarize(outcomes), relation |-> Relation(checks, session.close)]

\* validated_evaluation re-derives an outcome from the facts copied into it.
ValidOutcome(o, h, truncated) ==
    /\ IF o.quote = None
       THEN o.status = "expired_before_target" \/ o.status = IF truncated THEN "observation_incomplete" ELSE "contract_absent"
       ELSE o.status = ClassifyQuote(o.quote, h.start, h.close)
    /\ o.values = IF o.status # "observed" THEN NotObserved
                  ELSE DerivedValues(o.fact.twiceAsk, o.fact.shares, o.quote.value.bid, o.values.dollarStatus = "contract_terms_changed")
ValidEvaluation(e) ==
    /\ e.sealed /\ e.protocol \in Protocols /\ e.observation.underlying = e.symbol /\ e.horizon.date = e.observation.date
    /\ e.protocol.purpose = "production" => e.anchor >= ProspectiveStart
    /\ e.anchor < e.horizon.open /\ e.horizon.open < e.horizon.close /\ e.horizon.start = WindowStart(e.horizon.close)
    /\ e.anchor < e.observation.asOf /\ e.horizon.start <= e.observation.asOf /\ e.observation.asOf <= e.horizon.close
    /\ e.count > 0 /\ Cardinality(e.outcomes) = e.count /\ Cardinality({o.fact.id : o \in e.outcomes}) = e.count
    /\ \A o \in e.outcomes : ValidOutcome(o, e.horizon, e.observation.truncated)
    /\ e.summary = Summarize(e.outcomes) /\ e.relation.invalidating \subseteq e.relation.checks
    /\ e.relation.status = IF e.relation.checks = {} THEN "not_evaluated"
                           ELSE IF e.relation.invalidating # {} THEN "invalidated_by_target" ELSE "no_invalidation_observed"
VerifiedEvaluation(e, a, s, sched, protocol, checks) ==
    /\ ValidEvaluation(e) /\ ~EvaluationRefused(a, s, sched, protocol, e.horizon.n, checks)
    /\ e = Evaluate(a, s, sched, protocol, e.horizon.n, checks)

(* Every evaluation verifies; no candidate is left out and none is marked with a quote from outside the closing
   window or from before the setup; under production the session is the calendar's n-th after the assessment,
   whatever range of sessions the schedule names; and further checks never take an invalidation back. *)
EvaluationSound(a, s, sched, protocol, n, checks) ==
    ~EvaluationRefused(a, s, sched, protocol, n, checks) =>
      LET e == Evaluate(a, s, sched, protocol, n, checks)
      IN /\ VerifiedEvaluation(e, a, s, sched, protocol, checks)
         /\ {o.fact.id : o \in e.outcomes} = CandidateIds(a)
         /\ SumFunction(e.summary.statuses) = Cardinality(a.candidates)
         /\ \A o \in e.outcomes : o.status = "observed" =>
               /\ e.horizon.start <= o.quote.observed /\ o.quote.observed <= s.asOf /\ o.quote.observed <= e.horizon.close
               /\ o.fact.id.expiration >= e.horizon.date
         /\ protocol.purpose = "production" =>
               LET later == {x \in Range(Calendar) : x.open > a.asOf /\ x.open <= e.horizon.open} IN Cardinality(later) = n
         /\ \A k \in SUBSET checks : Relation(k, e.horizon.close).status = "invalidated_by_target" =>
               e.relation.status = "invalidated_by_target"
==================================================================================
