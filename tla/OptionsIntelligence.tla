--------------------------- MODULE OptionsIntelligence ---------------------------
(***************************************************************************)
(* What is derived from one option snapshot: per contract, per expiration  *)
(* and for the chain.  Facts and counts only; a market intelligence is     *)
(* referenced and nothing is derived from it.                              *)
(***************************************************************************)
EXTENDS OptionsSnapshot, Decimals

CONSTANTS
    PreviousSession(_),  \* calendar.previous_trading_day
    Places               \* quanta of RATIO_PLACES in 1

Ratio(n, d) == HalfEven(n * Places, d)
Value(c, g) == c.facts[g].value

\* market_intelligence_reference: market is None or [id, symbol, asOf]; a later one or another symbol's is an error.
ReferenceRefused(s, market) == market # None /\ (market.symbol # s.underlying \/ market.asOf > s.asOf)
Reference(s, market) == IF market = None THEN None ELSE [id |-> market.id, asOf |-> market.asOf, gap |-> s.asOf - market.asOf]

\* rules.py
QuoteState(f) ==
    IF f.status \in {"unavailable", "excluded_after_as_of"} THEN f.status
    ELSE IF f.value = None THEN "both_missing"
    ELSE IF f.value.bid = None THEN IF f.value.ask = None THEN "both_missing" ELSE "bid_missing"
    ELSE IF f.value.ask = None THEN "ask_missing"
    ELSE IF f.value.ask < f.value.bid THEN "crossed" ELSE IF f.value.ask = f.value.bid THEN "locked" ELSE "complete"
ActivityState(f) == IF f.status \in {"unavailable", "excluded_after_as_of"} THEN f.status
                    ELSE IF f.value = None THEN "missing" ELSE IF f.value > 0 THEN "positive" ELSE "zero"
StrikeRelation(strike, price) == IF price = None THEN "unavailable"
                                 ELSE IF strike < price THEN "below" ELSE IF strike > price THEN "above" ELSE "equal"
DeltaOutOfBounds(kind, delta) == delta # None /\ ~(IF kind = "call" THEN 0 <= delta /\ delta <= 100 ELSE -100 <= delta /\ delta <= 0)

\* _session_relation: an exchange date on or after the as_of date is the current session.
SessionRelation(observed, today) ==
    IF observed = None THEN "unavailable"
    ELSE IF DayOfInstant(observed) >= today THEN "current_session"
    ELSE IF DayOfInstant(observed) >= PreviousSession(today) THEN "previous_session" ELSE "older_session"

\* _contract; a mid is kept doubled.  v2 adds the numbers of the last three fields.
DerivedContract(s, c) ==
    LET state == QuoteState(c.facts["quote"])
        quote == Value(c, "quote")
        twoSided == state \in {"complete", "locked"}
        session == SessionRelation(c.facts["day"].observed, s.session)
        volume == Value(c, "day")
        interest == Value(c, "open_interest")
    IN [id |-> c.id, dte |-> c.id.expiration - s.session,
        relation |-> StrikeRelation(c.id.strike, s.price.value),
        distance |-> IF s.price.value = None THEN None ELSE c.id.strike - s.price.value,
        relative |-> IF s.price.value = None THEN None ELSE Ratio(c.id.strike - s.price.value, s.price.value),
        quote |-> state, twiceMid |-> IF twoSided THEN quote.bid + quote.ask ELSE None,
        spread |-> IF twoSided THEN quote.ask - quote.bid ELSE None,
        spreadRelative |-> IF twoSided /\ quote.bid + quote.ask > 0
                           THEN Ratio(2 * (quote.ask - quote.bid), quote.bid + quote.ask) ELSE None,
        spreadReason |-> IF ~twoSided THEN "quote_not_two_sided" ELSE IF quote.bid + quote.ask > 0 THEN None ELSE "zero_mid",
        volumeState |-> ActivityState(c.facts["day"]), interestState |-> ActivityState(c.facts["open_interest"]),
        exceeds |-> IF None \in {volume, interest} THEN None ELSE volume > interest,
        iv |-> [status |-> c.facts["implied_volatility"].status, value |-> Value(c, "implied_volatility"),
                basis |-> c.facts["implied_volatility"].basis],
        greeks |-> [status |-> c.facts["greeks"].status, delta |-> Value(c, "greeks"), basis |-> c.facts["greeks"].basis,
                    outOfBounds |-> DeltaOutOfBounds(c.id.kind, Value(c, "greeks"))],
        session |-> session, volume |-> volume, interest |-> interest,
        currentVolume |-> IF session = "current_session" THEN volume ELSE None,
        interestBasis |-> c.facts["open_interest"].basis, shares |-> c.shares]

\* _activity over derived contracts: stale day records count nothing; every present open interest counts.
Total(rows, kind, field) ==
    LET with == {c \in rows : c.id.kind = kind /\ c[field] # None}
    IN [records |-> Cardinality(with), total |-> IF with = {} THEN None ELSE SumFunction([c \in with |-> c[field]])]
PutCall(put, call) == IF None \in {put.total, call.total} THEN [ratio |-> None, reason |-> "total_unavailable"]
                      ELSE IF call.total = 0 THEN [ratio |-> None, reason |-> "zero_denominator"]
                      ELSE [ratio |-> Ratio(put.total, call.total), reason |-> None]
Activity(rows) ==
    [volume |-> [k \in {"call", "put"} |-> Total(rows, k, "currentVolume")],
     notCurrent |-> Cardinality({c \in rows : c.volume # None /\ c.session # "current_session"}),
     interest |-> [k \in {"call", "put"} |-> Total(rows, k, "interest")],
     volumeRatio |-> PutCall(Total(rows, "put", "currentVolume"), Total(rows, "call", "currentVolume")),
     interestRatio |-> PutCall(Total(rows, "put", "interest"), Total(rows, "call", "interest"))]

\* _iv_summary and _expiration
IvSummary(rows) ==
    LET with == {c \in rows : c.iv.value # None}
        value == [c \in with |-> c.iv.value]
    IN [with |-> Cardinality(with), without |-> Cardinality(rows \ with),
        range |-> IF with = {} THEN None ELSE <<Min(Range(value)), TwiceMedian(value), Max(Range(value))>>]
ExpirationFacts(rows) ==
    LET strikes == {c.id.strike : c \in rows}
    IN [contracts |-> Cardinality(rows), strikes |-> Cardinality(strikes), range |-> <<Min(strikes), Max(strikes)>>,
        paired |-> Cardinality({x \in strikes : {c.id.kind : c \in {y \in rows : y.id.strike = x}} = {"call", "put"}}),
        quotes |-> [q \in {c.quote : c \in rows} |-> Cardinality({c \in rows : c.quote = q})],
        greeks |-> Cardinality({c \in rows : c.greeks.status = "present"}), activity |-> Activity(rows)]

\* _attention: contract flags with the ids they hold of, and two flags of the chain.
AttentionFlags(s, rows) ==
    LET ids(P(_)) == {c.id : c \in {x \in rows : P(x)}}
        raw(P(_)) == {c.id : c \in {x \in s.contracts : \E g \in FactGroups : P(x.facts[g])}}
        flag == [quote_incomplete |-> ids(LAMBDA c : c.quote \notin {"complete", "locked", "crossed"}),
                 crossed_quote |-> ids(LAMBDA c : c.quote = "crossed"),
                 locked_quote |-> ids(LAMBDA c : c.quote = "locked"),
                 iv_unavailable |-> ids(LAMBDA c : c.iv.status # "present"),
                 greeks_unavailable |-> ids(LAMBDA c : c.greeks.status # "present"),
                 greeks_out_of_bounds |-> ids(LAMBDA c : c.greeks.outOfBounds),
                 no_volume |-> ids(LAMBDA c : c.volumeState # "positive"),
                 no_open_interest |-> ids(LAMBDA c : c.interestState # "positive"),
                 day_not_current_session |-> ids(LAMBDA c : c.session # "current_session"),
                 facts_excluded_after_as_of |-> raw(LAMBDA f : f.status = "excluded_after_as_of"),
                 time_basis_unverified |-> raw(LAMBDA f : f.basis = "provider_snapshot_unverified")]
    IN [contracts |-> [code \in {x \in DOMAIN flag : flag[x] # {}} |-> flag[code]],
        chain |-> (IF s.price.status = "present" THEN {} ELSE {"underlying_price_unavailable"})
                  \cup (IF DOMAIN s.exclusions \cap RecordExclusions = {} THEN {} ELSE {"records_excluded"})]

\* build
OptionsFrom(s, market, rows) ==
    LET on(e) == {c \in rows : c.id.expiration = e}
    IN [sealed |-> TRUE, snapshot |-> s, reference |-> Reference(s, market), contracts |-> rows,
        truncated |-> s.truncated,
        sessions |-> [q \in {c.session : c \in rows} |-> Cardinality({c \in rows : c.session = q})],
        expirations |-> [e \in {c.id.expiration : c \in rows} |-> ExpirationFacts(on(e))],
        activity |-> Activity(rows),
        volatility |-> <<IvSummary(rows), [k \in {<<c.id.expiration, c.id.kind>> : c \in rows} |->
                                             IvSummary({c \in on(k[1]) : c.id.kind = k[2]})]>>,
        attention |-> AttentionFlags(s, rows)]
BuildOptions(s, market) == OptionsFrom(s, market, {DerivedContract(s, c) : c \in s.contracts})

\* validated_options_intelligence, and verify_against_snapshot: the derivation run again must give the same object.
ValidOptions(o) ==
    /\ o.sealed
    /\ o.reference # None => o.reference.gap >= 0
    /\ Cardinality({c.id : c \in o.contracts}) = Cardinality(o.contracts)
    /\ \A code \in DOMAIN o.attention.contracts : o.attention.contracts[code] # {}
Verified(o, s, market) == ValidOptions(o) /\ ~ReferenceRefused(s, market) /\ o = BuildOptions(s, market)

SumOver(o, kind, field) ==
    SumFunction([e \in DOMAIN o.expirations |->
        LET t == o.expirations[e].activity[field][kind].total IN IF t = None THEN 0 ELSE t])
Bumped(s) ==
    LET stale == {c \in s.contracts : SessionRelation(c.facts["day"].observed, s.session) # "current_session"}
    IN [s EXCEPT !.contracts = {IF c \in stale /\ Value(c, "day") # None THEN [c EXCEPT !.facts["day"].value = @ + 1] ELSE c : c \in @}]
TotalsAdd(o, other) ==
    LET named == UNION Range(o.attention.contracts)
    IN /\ \A k \in {"call", "put"}, f \in {"volume", "interest"} :
             SumOver(o, k, f) = (IF o.activity[f][k].total = None THEN 0 ELSE o.activity[f][k].total)
       /\ other.activity = o.activity
       /\ \A c \in o.contracts : c.id \notin named =>
             c.quote = "complete" /\ c.currentVolume > 0 /\ c.interest > 0 /\ c.iv.value # None
(* The chain's numbers are those of its expirations, so nothing is counted twice or dropped; a volume of an
   older session moves no total and no ratio; a contract the data flags do not name is complete and current. *)
ActivityAddsUp(s) == TotalsAdd(BuildOptions(s, None), BuildOptions(Bumped(s), None))

VerifiesOnly(o, s, market) ==
    /\ Verified(o, s, market)
    /\ [o EXCEPT !.reference = None] = BuildOptions(s, None)
    /\ market # None => ~Verified(o, s, None)
    /\ \A c \in s.contracts : ~Verified(o, [s EXCEPT !.contracts = @ \ {c}], market)
(* A market intelligence changes its reference and nothing else; verification accepts what the builder makes of
   a snapshot and refuses it for any other snapshot or reference. *)
DerivedFromSnapshot(s, market) == ~ReferenceRefused(s, market) => VerifiesOnly(BuildOptions(s, market), s, market)
==================================================================================
