-------------------------------- MODULE TradeSetup --------------------------------
(***************************************************************************)
(* A trade setup assessment: one market intelligence, one options          *)
(* intelligence and an explicit policy in, candidates or the reasons for   *)
(* none out; and the later check whether its market state still holds.     *)
(***************************************************************************)
EXTENDS OptionsIntelligence

\* A market intelligence as this package reads it: [id, symbol, asOf, pattern, technical, attention].
MarketPatterns == {"all_bullish", "all_bearish", "all_non_directional", "opposed", "partially_directional", "incomplete"}
BiasByPattern == [all_bullish |-> "bullish", all_bearish |-> "bearish", opposed |-> "conflicting",
                  incomplete |-> "insufficient", all_non_directional |-> "non_directional",
                  partially_directional |-> "partially_directional"]
Bias(market) == IF market.technical = "available" THEN BiasByPattern[market.pattern] ELSE "insufficient"
ReasonByBias == [insufficient |-> "market_evidence_insufficient", conflicting |-> "market_evidence_conflicting",
                 non_directional |-> "market_evidence_non_directional",
                 partially_directional |-> "market_evidence_partially_directional"]
SideOf(bias) == IF bias = "bullish" THEN "call" ELSE IF bias = "bearish" THEN "put" ELSE None
PatternOf(side) == IF side = "call" THEN "all_bullish" ELSE "all_bearish"

\* _check_fields of a policy; None switches an optional rule off.
ValidPolicy(p) ==
    /\ p.sides # {} /\ p.sides \subseteq {"call", "put"}
    /\ 0 <= p.minDte /\ p.minDte <= p.maxDte /\ p.maxGap >= 0
    /\ p.maxSpread # None => p.maxSpread >= 0
    /\ (p.minDelta = None) = (p.maxDelta = None)
    /\ p.minDelta # None => 0 <= p.minDelta /\ p.minDelta <= p.maxDelta /\ p.maxDelta <= 100
    /\ \A bound \in {p.minVolume, p.minInterest} \ {None} : bound >= 0
    /\ p.maxPremium # None => p.maxPremium > 0
NeedsV2(p) == {p.minVolume, p.minInterest, p.maxPremium} # {None}

-----------------------------------------------------------------------------
\* screening.py.  Every enabled rule is looked at; one whose fact a failed rule showed absent is not.
UsableQuote(state, p) == state = "complete" \/ (state = "locked" /\ p.locked)
Rule(name, failed, reason) == [rule |-> name, failed |-> failed, reason |-> reason]
QuoteReason(state) == CASE state \in {"bid_missing", "ask_missing", "both_missing"} -> "quote_one_sided"
                        [] state = "crossed" -> "quote_crossed"
                        [] state = "locked" -> "quote_locked_excluded"
                        [] state = "excluded_after_as_of" -> "quote_after_as_of"
                        [] OTHER -> "quote_unavailable"
Magnitude(n) == IF n < 0 THEN -n ELSE n
TwiceAsk(c) == c.twiceMid + c.spread  \* entry_reference_ask = mid + spread / 2, doubled

Screened(c, p, side) ==
    LET usable == UsableQuote(c.quote, p)
        unverified(basis) == ~p.unverified /\ basis \notin {"observed_at", "provider_as_of_date"}
    IN {Rule("side", c.id.kind # side, "side_mismatch"),
        Rule("dte_minimum", c.dte < p.minDte, "expiration_outside_policy"),
        Rule("dte_maximum", c.dte > p.maxDte, "expiration_outside_policy"),
        Rule("same_day_expiry", c.dte = 0 /\ ~p.sameDay, "same_day_expiry_excluded"),
        Rule("quote_state", ~usable, QuoteReason(c.quote))}
       \cup (IF usable /\ p.maxSpread # None
             THEN {Rule("spread_availability", c.spreadRelative = None, "spread_relative_unavailable")}
                  \cup (IF c.spreadRelative # None
                        THEN {Rule("spread_threshold", c.spreadRelative > p.maxSpread, "spread_above_policy")} ELSE {})
             ELSE {})
       \cup (IF p.minDelta = None THEN {}
             ELSE IF c.greeks.delta = None \/ c.greeks.outOfBounds THEN {Rule("delta_minimum", TRUE, "delta_unavailable")}
             ELSE {Rule("delta_minimum", Magnitude(c.greeks.delta) < p.minDelta, "delta_outside_policy"),
                   Rule("delta_maximum", Magnitude(c.greeks.delta) > p.maxDelta, "delta_outside_policy"),
                   Rule("greeks_time_basis", unverified(c.greeks.basis), "time_basis_unverified")})
       \cup (IF ~p.requireIv THEN {}
             ELSE IF c.iv.value = None THEN {Rule("iv_availability", TRUE, "iv_unavailable")}
             ELSE {Rule("iv_availability", FALSE, "iv_unavailable"),
                   Rule("iv_time_basis", unverified(c.iv.basis), "time_basis_unverified")})
       \cup (IF p.currentDay THEN {Rule("day_session", c.session # "current_session", "day_not_current_session")} ELSE {})
       \cup (IF p.minVolume = None THEN {}
             ELSE {Rule("volume_threshold", c.currentVolume = None \/ c.currentVolume < p.minVolume, "volume_below_policy")})
       \cup (IF p.minInterest = None THEN {}
             ELSE {Rule("open_interest_threshold", c.interest = None \/ c.interest < p.minInterest, "open_interest_below_policy")}
                  \cup (IF c.interest # None
                        THEN {Rule("open_interest_time_basis", unverified(c.interestBasis), "time_basis_unverified")} ELSE {}))
       \cup (IF usable /\ p.maxPremium # None
             THEN {Rule("multiplier_availability", c.shares = None, "multiplier_unavailable")}
                  \cup (IF c.shares # None
                        THEN {Rule("premium_cap", TwiceAsk(c) * c.shares > 2 * p.maxPremium, "premium_above_policy")} ELSE {})
             ELSE {})
Reasons(c, p, side) == {r.reason : r \in {x \in Screened(c, p, side) : x.failed}}
Checks(c, p, side) == {r.rule : r \in {x \in Screened(c, p, side) : ~x.failed}}
EnabledRules(p) ==
    {"side", "dte_minimum", "dte_maximum", "same_day_expiry", "quote_state"}
    \cup (IF p.maxSpread # None THEN {"spread_availability", "spread_threshold"} ELSE {})
    \cup (IF p.minDelta # None THEN {"delta_minimum", "delta_maximum", "greeks_time_basis"} ELSE {})
    \cup (IF p.requireIv THEN {"iv_availability", "iv_time_basis"} ELSE {})
    \cup (IF p.currentDay THEN {"day_session"} ELSE {})
    \cup (IF p.minVolume # None THEN {"volume_threshold"} ELSE {})
    \cup (IF p.minInterest # None THEN {"open_interest_threshold", "open_interest_time_basis"} ELSE {})
    \cup (IF p.maxPremium # None THEN {"multiplier_availability", "premium_cap"} ELSE {})
DerivedCandidate(c) == [id |-> c.id, twiceAsk |-> TwiceAsk(c), shares |-> c.shares,
                        twiceLoss |-> IF c.shares = None THEN None ELSE TwiceAsk(c) * c.shares]

-----------------------------------------------------------------------------
\* prescreen: an input error is raised, never an outcome.
InputRefused(market, options, p, v2) ==
    \/ ~ValidPolicy(p) \/ market.symbol # options.snapshot.underlying \/ (~v2 /\ NeedsV2(p))

\* The global gates: None passed, "off" not evaluated, otherwise the reason of the failure.
Gap(market, options) == Magnitude(market.asOf - options.snapshot.asOf)
Gates(market, options, p) ==
    LET side == SideOf(Bias(market))
        gate(enabled, failed, reason) == IF ~enabled THEN "off" ELSE IF failed THEN reason ELSE None
    IN [input_contemporaneity |-> gate(TRUE, Gap(market, options) > p.maxGap, "inputs_not_contemporaneous"),
        market_bias |-> IF side = None THEN ReasonByBias[Bias(market)] ELSE None,
        side_allowed |-> gate(side # None, side \notin p.sides, "side_not_allowed_by_policy"),
        context_opposition_gate |-> gate(p.blockOpposition, "market_context_opposition_present" \in market.attention, "context_gate_blocked"),
        context_current_gate |-> gate(p.blockNotCurrent, "market_context_not_current" \in market.attention, "context_gate_blocked"),
        chain_completeness |-> gate(p.completeChain, options.truncated, "options_chain_truncated"),
        execution_data_readiness |-> gate(TRUE, \A c \in options.contracts : ~UsableQuote(c.quote, p), "execution_data_unavailable")]
GateFailures(gates) == Range(gates) \ {None, "off"}

\* assess = prescreen, then screen when no gate failed; why: the reasons against each contract.
AssessmentOf(market, options, p, side, gates, why) ==
    LET screened == GateFailures(gates) = {}
        eligible == {c \in options.contracts : c.id.kind = side}
        candidates == {c \in options.contracts : screened /\ why[c] = {}}
        none == {"no_candidate_satisfies_policy"}
                \cup (IF \E c \in eligible : UsableQuote(c.quote, p) THEN {} ELSE {"execution_data_unavailable"})
                \cup (IF \E c \in eligible : why[c] = {"time_basis_unverified"} THEN {"source_timing_unverified"} ELSE {})
    IN [sealed |-> TRUE, policy |-> p, symbol |-> market.symbol, asOf |-> Max({market.asOf, options.snapshot.asOf}),
        marketAsOf |-> market.asOf, bias |-> Bias(market), pattern |-> market.pattern, technical |-> market.technical, side |-> side,
        descriptor |-> IF side = None THEN None ELSE [pattern |-> PatternOf(side), by |-> market.id],
        marketId |-> market.id, contractCount |-> Cardinality(options.contracts), gates |-> gates,
        screening |-> IF ~screened THEN "global_gate_failed" ELSE IF candidates # {} THEN "candidates_available" ELSE "no_candidate_satisfies_policy",
        outcome |-> IF candidates # {} THEN "setup_candidates" ELSE "no_setup",
        reasons |-> IF ~screened THEN GateFailures(gates) ELSE IF candidates = {} THEN none ELSE {},
        candidates |-> {[source |-> c, derived |-> DerivedCandidate(c), checks |-> Checks(c, p, side)] : c \in candidates},
        rejections |-> IF ~screened THEN <<>>
                       ELSE [r \in UNION Range(why) |-> {c.id : c \in {x \in options.contracts : r \in why[x]}}]]
Screen(market, options, p, side, gates) ==
    AssessmentOf(market, options, p, side, gates, [c \in options.contracts |-> Reasons(c, p, side)])
Assess(market, options, p) == Screen(market, options, p, SideOf(Bias(market)), Gates(market, options, p))

\* validated_assessment: from the assessment alone.
ValidAssessment(a) ==
    LET failures == GateFailures(a.gates)
        rejected == UNION Range(a.rejections)
    IN /\ a.sealed /\ ValidPolicy(a.policy)
       /\ (a.outcome = "no_setup") = (a.reasons # {})
       /\ a.bias = Bias(a) /\ a.side = SideOf(a.bias)
       /\ IF a.side = None THEN a.descriptor = None
          ELSE a.descriptor = [pattern |-> PatternOf(a.side), by |-> a.marketId] /\ a.pattern = PatternOf(a.side)
       /\ IF failures # {}
          THEN a.reasons = failures /\ a.screening = "global_gate_failed" /\ a.candidates = {} /\ a.rejections = <<>>
          ELSE /\ a.side # None
               /\ a.screening = IF a.outcome = "setup_candidates" THEN "candidates_available" ELSE "no_candidate_satisfies_policy"
               /\ (a.candidates # {}) = (a.outcome = "setup_candidates")
               /\ a.candidates = {} => "no_candidate_satisfies_policy" \in a.reasons
               /\ \A c \in a.candidates : /\ c.source.id.kind = a.side /\ Reasons(c.source, a.policy, a.side) = {}
                                          /\ c.checks = EnabledRules(a.policy) /\ Checks(c.source, a.policy, a.side) = c.checks
                                          /\ c.derived = DerivedCandidate(c.source)
               /\ \A r \in DOMAIN a.rejections : a.rejections[r] # {}
               /\ rejected \cap {c.source.id : c \in a.candidates} = {}
               /\ Cardinality(rejected) + Cardinality(a.candidates) = a.contractCount
               /\ "source_timing_unverified" \in a.reasons => "time_basis_unverified" \in DOMAIN a.rejections
VerifiedAssessment(a, market, options) == ValidAssessment(a) /\ a = Assess(market, options, a.policy)

-----------------------------------------------------------------------------
\* invalidation.py
CheckRefused(a, market) == a.outcome # "setup_candidates" \/ market.symbol # a.symbol \/ market.asOf <= a.marketAsOf
\* Mutant: an incomplete pattern is an absent one.
Decide_IncompleteIsAbsent(required, pattern, technical) ==
    IF technical # "available" THEN <<"not_evaluable", "technical_evidence_not_available">>
    ELSE IF pattern = required THEN <<"holds", "required_pattern_present">> ELSE <<"invalidated", "required_pattern_absent">>
Decide(required, pattern, technical) ==
    IF technical # "available" THEN <<"not_evaluable", "technical_evidence_not_available">>
    ELSE IF pattern = "incomplete" THEN <<"not_evaluable", "timeframe_evidence_incomplete">>
    ELSE IF pattern = required THEN <<"holds", "required_pattern_present">> ELSE <<"invalidated", "required_pattern_absent">>
CheckInvalidation(a, market) ==
    [sealed |-> TRUE, setup |-> a, marketId |-> market.id, asOf |-> market.asOf,
     observed |-> [pattern |-> market.pattern, technical |-> market.technical],
     result |-> Decide(a.descriptor.pattern, market.pattern, market.technical)]
ValidCheck(k) == /\ k.sealed /\ k.asOf > k.setup.marketAsOf /\ k.setup.asOf >= k.setup.marketAsOf
                 /\ k.result = Decide(PatternOf(k.setup.side), k.observed.pattern, k.observed.technical)

-----------------------------------------------------------------------------
\* p with one rule made stricter.
Stricter(p) == {[p EXCEPT !.minDte = @ + 1], [p EXCEPT !.sameDay = FALSE], [p EXCEPT !.locked = FALSE],
                [p EXCEPT !.requireIv = TRUE], [p EXCEPT !.unverified = FALSE], [p EXCEPT !.currentDay = TRUE],
                [p EXCEPT !.completeChain = TRUE], [p EXCEPT !.blockOpposition = TRUE], [p EXCEPT !.maxGap = 0],
                [p EXCEPT !.maxSpread = IF @ = None THEN 10 ELSE 0], [p EXCEPT !.minDelta = 45, !.maxDelta = 55],
                [p EXCEPT !.minInterest = IF @ = None THEN 0 ELSE @ + 1], [p EXCEPT !.maxPremium = 1]}
CandidateIds(a) == {c.source.id : c \in a.candidates}

AssessmentSound(a, market, options) ==
    /\ VerifiedAssessment(a, market, options)
    /\ \A q \in Stricter(a.policy) : ValidPolicy(q) => CandidateIds(Assess(market, options, q)) \subseteq CandidateIds(a)
    /\ "source_timing_unverified" \in a.reasons => Assess(market, options, [a.policy EXCEPT !.unverified = TRUE]).candidates # {}
    /\ a.outcome = "no_setup" => \/ a.side = None
                                 \/ \A c \in options.contracts : ~UsableQuote(c.quote, a.policy) \/ Reasons(c, a.policy, a.side) # {}
                                 \/ GateFailures(a.gates) # {}
(* The builder's assessment always passes the stand-alone validator, so every contract is a candidate or is
   rejected with a reason; a stricter policy adds no candidate; and the reasons say what is missing: without the
   demand for verified times, source_timing_unverified gives way to a candidate. *)
SetupSound(market, options, p) ==
    ~InputRefused(market, options, p, TRUE) => AssessmentSound(Assess(market, options, p), market, options)

DecidedByNewer(k, later) ==
    /\ ValidCheck(k) /\ later.asOf > k.setup.marketAsOf
    /\ k.result[1] = "holds" <=> Bias(later) = k.setup.bias
    /\ k.result[1] = "not_evaluable" <=> Bias(later) = "insufficient"
CheckOf(a, later) == ~CheckRefused(a, later) => DecidedByNewer(CheckInvalidation(a, later), later)
(* Only a newer market intelligence decides; it holds exactly when it would establish the setup's bias again,
   and evidence that would establish nothing invalidates nothing. *)
CheckSound(market, options, p, later) ==
    ~InputRefused(market, options, p, TRUE) => CheckOf(Assess(market, options, p), later)
===================================================================================
