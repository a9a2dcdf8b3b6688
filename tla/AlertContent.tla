-------------------------------- MODULE AlertContent --------------------------------
(***************************************************************************)
(* What an alert says: three closed rules over sealed inputs, the          *)
(* stand-alone validator, the verification against the inputs, and the     *)
(* message rendered from it.  How it is accepted and sent is AlertState's  *)
(* and AlertDelivery's.                                                    *)
(***************************************************************************)
EXTENDS TradeSetup

\* rules.py: the fixed shape of every code (its decision trace is a constant and left out).
Shapes ==
    [setup_available |-> [subject |-> "setup", roles |-> [current |-> "assessment"], transition |-> FALSE,
                          facts |-> {"candidate_count", "eligible_side", "market_bias", "symbol"}],
     setup_invalidated |-> [subject |-> "setup", roles |-> [current |-> "check", setup |-> "assessment"], transition |-> FALSE,
                            facts |-> {"observed_pattern", "observed_technical_status", "required_pattern", "side", "symbol"}],
     market_pattern_changed |-> [subject |-> "symbol", roles |-> [current |-> "market", previous |-> "market"], transition |-> TRUE,
                                 facts |-> {"elapsed_seconds", "symbol"}]]
\* SourceRef; the content id of a source is the source.
Ref(role, kind, source, asOf) == [role |-> role, kind |-> kind, id |-> source, asOf |-> asOf]
RefOf(refs, role) == CHOOSE r \in refs : r.role = role

\* builder._seal
Seal(code, setup, transition, refs, facts) ==
    [sealed |-> TRUE, code |-> code, transition |-> transition, refs |-> refs, facts |-> facts,
     subject |-> [kind |-> Shapes[code].subject, symbol |-> facts.symbol, assessment |-> setup],
     asOf |-> RefOf(refs, "current").asOf, provenance |-> {r.id : r \in refs}]

\* The three rules: an event, None when the rule does not fire, Bad for an invalid input.
SetupAvailable(a) ==
    IF ~ValidAssessment(a) THEN Bad
    ELSE IF a.outcome # "setup_candidates" THEN None
    ELSE Seal("setup_available", a, None, {Ref("current", "assessment", a, a.asOf)},
              [symbol |-> a.symbol, candidate_count |-> Cardinality(a.candidates), eligible_side |-> a.side, market_bias |-> a.bias])
\* Mutant: a check that decides nothing invalidates too.
SetupInvalidated_UnlessItHolds(k) ==
    IF ~ValidCheck(k) THEN Bad
    ELSE IF k.result[1] = "holds" THEN None
    ELSE Seal("setup_invalidated", k.setup, None,
              {Ref("current", "check", k, k.asOf), Ref("setup", "assessment", k.setup, k.setup.asOf)},
              [symbol |-> k.setup.symbol, side |-> k.setup.side, required_pattern |-> PatternOf(k.setup.side),
               observed_pattern |-> k.observed.pattern, observed_technical_status |-> k.observed.technical])
SetupInvalidated(k) ==
    IF ~ValidCheck(k) THEN Bad
    ELSE IF k.result[1] # "invalidated" THEN None
    ELSE Seal("setup_invalidated", k.setup, None,
              {Ref("current", "check", k, k.asOf), Ref("setup", "assessment", k.setup, k.setup.asOf)},
              [symbol |-> k.setup.symbol, side |-> k.setup.side, required_pattern |-> PatternOf(k.setup.side),
               observed_pattern |-> k.observed.pattern, observed_technical_status |-> k.observed.technical])
ValidMarket(m) == m.pattern \in MarketPatterns /\ m.technical \in {"available", "partial", "unavailable"}
ValidMarketPair(p, c) == ValidMarket(p) /\ ValidMarket(c) /\ p.id # c.id /\ p.symbol = c.symbol /\ p.asOf < c.asOf
\* comparable: both were synthesized under the same rules.
MarketPatternChanged(p, c, comparable) ==
    IF ~ValidMarketPair(p, c) THEN Bad
    ELSE IF ~comparable \/ p.pattern = c.pattern THEN None
    ELSE Seal("market_pattern_changed", None, <<p.pattern, c.pattern>>,
              {Ref("previous", "market", p, p.asOf), Ref("current", "market", c, c.asOf)},
              [symbol |-> c.symbol, elapsed_seconds |-> c.asOf - p.asOf])

-----------------------------------------------------------------------------
\* _validated_facts
LegalFacts(x) ==
    LET f == x.facts
    IN CASE x.code = "setup_available" ->
              /\ f.candidate_count > 0
              /\ <<f.eligible_side, f.market_bias>> \in {<<"call", "bullish">>, <<"put", "bearish">>}
         [] x.code = "setup_invalidated" ->
              /\ f.side \in {"call", "put"} /\ f.required_pattern = PatternOf(f.side)
              /\ f.observed_pattern \in MarketPatterns \ {"incomplete", f.required_pattern}
              /\ f.observed_technical_status = "available"
         [] OTHER -> f.elapsed_seconds = x.asOf - RefOf(x.refs, "previous").asOf

\* validated_alert: from the alert alone.
ValidAlert(x) ==
    LET shape == Shapes[x.code]
        roles == DOMAIN shape.roles
    IN /\ x.sealed /\ x.code \in DOMAIN Shapes
       /\ x.subject.kind = shape.subject /\ (x.subject.assessment = None) = (shape.subject = "symbol")
       /\ Cardinality(x.refs) = Cardinality(roles)
       /\ {<<r.role, r.kind>> : r \in x.refs} = {<<q, shape.roles[q]>> : q \in roles}
       /\ x.asOf = RefOf(x.refs, "current").asOf
       /\ "previous" \in roles => RefOf(x.refs, "previous").id # RefOf(x.refs, "current").id /\ RefOf(x.refs, "previous").asOf < x.asOf
       /\ shape.subject = "setup" => x.subject.assessment = RefOf(x.refs, IF "setup" \in roles THEN "setup" ELSE "current").id
       /\ IF shape.transition
          THEN x.transition # None /\ {x.transition[1], x.transition[2]} \subseteq MarketPatterns /\ x.transition[1] # x.transition[2]
          ELSE x.transition = None
       /\ DOMAIN x.facts = shape.facts /\ x.facts.symbol = x.subject.symbol /\ LegalFacts(x)
       /\ x.provenance = {r.id : r \in x.refs}

\* built_alert: exactly one source mode; sources: [assessment, check, previous, current], None where not given.
Modes(s) == {m \in {"assessment", "check"} : s[m] # None} \cup (IF s.previous = None /\ s.current = None THEN {} ELSE {"pair"})
Rebuilt(code, s, comparable) ==
    CASE code = "setup_available" -> SetupAvailable(s.assessment)
      [] code = "setup_invalidated" -> SetupInvalidated(s.check)
      [] OTHER -> IF s.previous = None \/ s.current = None THEN Bad ELSE MarketPatternChanged(s.previous, s.current, comparable)
\* verify_alert: the rebuilt event must be the same.
VerifiedAlert(x, s, comparable) == ValidAlert(x) /\ Rebuilt(x.code, s, comparable) = x
CodeOfMode == [assessment |-> "setup_available", check |-> "setup_invalidated", pair |-> "market_pattern_changed"]
BuiltAlert(s, comparable) ==
    IF Cardinality(Modes(s)) # 1 THEN Bad
    ELSE LET x == Rebuilt(CodeOfMode[CHOOSE m \in Modes(s) : TRUE], s, comparable)
         IN IF x \in {None, Bad} THEN x ELSE IF VerifiedAlert(x, s, comparable) THEN x ELSE Bad

\* rendering: labelled values, of the alert alone.
Lines(x) ==
    {<<"event", x.code>>, <<"symbol", x.subject.symbol>>, <<"as_of", x.asOf>>, <<"alert", x>>}
    \cup {<<f, x.facts[f]>> : f \in DOMAIN x.facts}
    \cup (IF x.subject.kind = "setup" THEN {<<"setup", x.subject.assessment>>} ELSE {})
    \cup (IF x.transition = None THEN {} ELSE {<<"previous pattern", x.transition[1]>>, <<"current pattern", x.transition[2]>>})
DeliveryRequest(x, channel) == IF ValidAlert(x) THEN [alert |-> x, channel |-> channel, text |-> Lines(x)] ELSE Bad

-----------------------------------------------------------------------------
\* x with one statement changed and sealed again.
Misstated(x) ==
    {[x EXCEPT !.asOf = @ + 1], [x EXCEPT !.subject.symbol = "Z"], [x EXCEPT !.subject.assessment = IF @ = None THEN "other" ELSE None],
     [x EXCEPT !.provenance = {}], [x EXCEPT !.refs = {}]}
    \cup CASE x.code = "setup_available" ->
                {[x EXCEPT !.facts.candidate_count = 0], [x EXCEPT !.facts.eligible_side = IF @ = "call" THEN "put" ELSE "call"]}
           [] x.code = "setup_invalidated" ->
                {[x EXCEPT !.facts.observed_pattern = q] : q \in {"incomplete", x.facts.required_pattern}}
                \cup {[x EXCEPT !.facts.side = IF @ = "call" THEN "put" ELSE "call"], [x EXCEPT !.facts.observed_technical_status = "partial"]}
           [] OTHER -> {[x EXCEPT !.transition = None], [x EXCEPT !.transition[1] = x.transition[2]], [x EXCEPT !.facts.elapsed_seconds = @ + 1]}
Sources(a, k, p, c) == [assessment |-> a, check |-> k, previous |-> p, current |-> c]

Announced(a) == BuiltAlert(Sources(a, None, None, None), TRUE)
Invalidated(a, later) ==
    IF CheckRefused(a, later) THEN None ELSE BuiltAlert(Sources(None, CheckInvalidation(a, later), None, None), TRUE)
Changed(market, later) == BuiltAlert(Sources(None, None, market, later), TRUE)
Consistent(available, invalidated, changed) ==
    /\ available # Bad /\ invalidated # Bad
    /\ \A x \in {available, invalidated, changed} \ {None, Bad} :
          \A t \in Misstated(x) : t # x => DeliveryRequest(t, "telegram") = Bad
    /\ invalidated # None => /\ available # None /\ invalidated.subject = available.subject
                             /\ changed # None /\ changed.transition = <<invalidated.facts.required_pattern, invalidated.facts.observed_pattern>>
OfSetup(a, market, later) ==
    /\ (Announced(a) # None) = (a.candidates # {})
    /\ Consistent(Announced(a), Invalidated(a, later), Changed(market, later))
    /\ BuiltAlert(Sources(a, None, market, later), TRUE) = Bad
OfPair(changed, back, market, later) == /\ (changed = Bad) = ~ValidMarketPair(market, later)
                                        /\ changed \in {None, Bad} \/ back = Bad

(* Whatever a rule builds passes the stand-alone validator and verifies; a statement changed and sealed again is refused
   even without the sources; an invalidation is only ever of a setup that was announced, and never silent about the market:
   the same pair of markets also announces the change of pattern; and no pair announces a change in both directions. *)
AlertsSound(market, options, p, later) ==
    ~InputRefused(market, options, p, TRUE) =>
      /\ OfSetup(Assess(market, options, p), market, later)
      /\ OfPair(Changed(market, later), Changed(later, market), market, later)
      /\ BuiltAlert(Sources(None, None, market, None), TRUE) = Bad
===================================================================================
