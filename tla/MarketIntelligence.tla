---------------------------- MODULE MarketIntelligence ----------------------------
(***************************************************************************)
(* Market intelligence: one valid synthesis in, descriptive blocks out,    *)
(* and - against an earlier synthesis the caller supplies - the            *)
(* transitions between the two.  Its validator derives every fact of a     *)
(* synthesis again, so that one edited and then resealed is refused.       *)
(***************************************************************************)
EXTENDS EvidenceSynthesis

Directional == {"bullish", "bearish"}
ConflictCodes == {"timeframe_opposition", "market_context_opposes_timeframe"}
NotCurrent == {"lagging", "no_data", "unknown"}
Aligned == {"all_bullish", "all_bearish"}
Domains == {"market", "technical", "news"}

-----------------------------------------------------------------------------
\* sign_profile
SignProfile(signs) ==
    LET seen == signs \ {"unavailable"}
    IN CASE seen = {} -> "unavailable" [] Cardinality(seen) > 1 -> "mixed"
         [] OTHER -> CHOOSE p \in {"positive", "negative", "zero"} : p \in seen

\* opposition_shape; "raises" is the ValueError the code calls unreachable.
OppositionShape(pattern, frames, relations) ==
    LET opposing == {q \in Pairs : relations[q] = "oppose"}
        directional == {i \in Intervals : frames[i].direction \in Directional}
        counts == <<Cardinality(directional), Cardinality(opposing)>>
        isolated == CHOOSE i \in Intervals : \A q \in opposing : i \in {q[1], q[2]}
    IN CASE pattern = "incomplete" -> <<"not_applicable", None>>
         [] pattern # "incomplete" /\ opposing = {} -> <<"none", None>>
         [] pattern # "incomplete" /\ counts = <<3, 2>> -> <<"isolated_interval", isolated>>
         [] pattern # "incomplete" /\ counts = <<2, 1>> -> <<"single_pair", None>>
         [] OTHER -> <<"raises", None>>

-----------------------------------------------------------------------------
\* validated_synthesis: what a synthesis has to satisfy whoever made it; every derived fact is derived again.
ValidTimeframes(s) ==
    \A i \in Intervals :
        LET f == s.frames[i]
        IN IF f.missing # None
           THEN f.direction = "unavailable" /\ f.state = None /\ f.end = None /\ f.age = None
           ELSE /\ f.state \in States /\ f.direction = StateDirection(f.state)
                /\ f.end <= s.asOf /\ f.age = s.asOf - f.end
\* Mutant: the pattern is derived again, the relations and the counts are taken as they are.
ValidAlignment_PatternOnly(s) == s.alignment.pattern = Alignment(s.frames).pattern
ValidAlignment(s) == s.relations = Relations(s.frames) /\ s.alignment = Alignment(s.frames)
ValidReferences(s) ==
    s.market # None =>
        LET refs == s.market.references
        IN /\ s.market.asOf <= s.asOf /\ s.market.age = s.asOf - s.market.asOf
           /\ \A x, y \in refs : x.reference = y.reference /\ x.basis = y.basis => x = y
           /\ {x.basis : x \in {y \in refs : y.reference = "self"}} = MarketBases
           /\ s.market.relations = {[interval |-> i, reference |-> x.reference, basis |-> x.basis,
                                     relation |-> ContextRelation(s.frames[i].direction, x.sign)] :
                                        i \in Intervals, x \in refs}
ValidNewsFacts(s) ==
    LET n == s.news
    IN /\ (n.count > 0) = (n.status = "available")
       /\ SumFunction(n.families) = n.count /\ Cardinality(n.sources) = n.count
       /\ n.stamps # None => /\ n.stamps.oldest <= n.stamps.newest /\ n.stamps.newest <= s.asOf
                             /\ n.stamps.age = s.asOf - n.stamps.newest
       /\ n.days # None => /\ n.days.oldest <= n.days.newest /\ n.days.newest < DayOfInstant(s.asOf)
                           /\ n.days.age = DayOfInstant(s.asOf) - n.days.newest
ValidCompleteness(s) ==
    LET present == {i \in Intervals : s.frames[i].missing = None}
    IN /\ s.completeness.technical = (IF present = Intervals THEN "available"
                                      ELSE IF present = {} THEN "unavailable" ELSE "partial")
       /\ s.completeness.market = (IF s.market = None THEN "unavailable" ELSE "available")
       /\ s.completeness.news = s.news.status
       /\ s.completeness.missing = Intervals \ present
ValidSynthesis(s) ==
    /\ s.sealed
    /\ ValidTimeframes(s) /\ ValidAlignment(s) /\ ValidReferences(s) /\ ValidNewsFacts(s) /\ ValidCompleteness(s)
    /\ s.contradictions = Contradictions(s.news.status, s.frames, s.market)

\* validated_pair: two different syntheses of one symbol, the previous one earlier.
ValidPair(current, previous) ==
    /\ ValidSynthesis(current) /\ ValidSynthesis(previous) /\ previous # current
    /\ previous.symbol = current.symbol /\ previous.asOf < current.asOf

-----------------------------------------------------------------------------
\* _coverage, _structure and _alignment
Coverage(s) ==
    [available |-> {i \in Intervals : s.frames[i].missing = None /\ s.frames[i].state # "insufficient_data"},
     unavailable |-> {<<i, s.frames[i].missing>> : i \in {j \in Intervals : s.frames[j].missing # None}},
     insufficient |-> {i \in Intervals : s.frames[i].state = "insufficient_data"},
     references |-> IF s.market = None THEN {} ELSE {r \in s.market.references : r.sign # "unavailable"},
     missing |-> IF s.market = None THEN {} ELSE {r \in s.market.references : r.sign = "unavailable"},
     statuses |-> s.completeness]
Structure(s) ==
    LET shape == OppositionShape(s.alignment.pattern, s.frames, s.relations)
        of(D) == {i \in Intervals : s.frames[i].direction \in D}
    IN [pattern |-> s.alignment.pattern, shape |-> shape[1], isolated |-> shape[2],
        directional |-> of(Directional), nonDirectional |-> of({"non_directional"}),
        unavailable |-> of({"unavailable"}), opposing |-> {q \in Pairs : s.relations[q] = "oppose"}]
\* Own returns and returns relative to a benchmark are profiled apart.
ContextAlignment(s) ==
    IF s.market = None THEN [own |-> "unavailable", relative |-> "unavailable", tally |-> <<>>]
    ELSE LET signs(own) == {r.sign : r \in {x \in s.market.references : (x.reference = "self") = own}}
             rows(i, q) == {r \in s.market.relations : r.interval = i /\ r.relation = q}
         IN [own |-> SignProfile(signs(TRUE)), relative |-> SignProfile(signs(FALSE)),
             tally |-> [i \in Intervals |-> [q \in {"agree", "oppose", "non_directional", "unavailable"} |->
                                                Cardinality(rows(i, q))]]]

\* _conflicts and _attention: the opposition contradictions, and the conditions a reviewer should look at.
Conflicts(s) == {c \in s.contradictions : c[1] \in ConflictCodes}
Attention(s) ==
    LET of(code) == {c[2] : c \in {x \in s.contradictions : x[1] = code}}
        tally == ContextAlignment(s).tally
        opposed == {i \in DOMAIN tally : tally[i]["oppose"] > 0}
        incomplete == {r \in (IF s.market = None THEN {} ELSE s.market.references) :
                          r.sign = "unavailable" /\ "misaligned" \notin r.unavailable}
    IN {<<"timeframe_opposition_present", q>> : q \in of("timeframe_opposition")}
       \cup {<<"market_context_opposition_present", <<i>>>> : i \in opposed}
       \cup {<<"evidence_incomplete", <<"technical", i>>>> :
                i \in {j \in Intervals : s.frames[j].direction = "unavailable"}}
       \cup (IF s.market = None THEN {<<"evidence_incomplete", <<"market_context">>>>} ELSE {})
       \cup {<<"evidence_incomplete", <<"market_context", r.reference, r.basis>>>> : r \in incomplete}
       \cup {<<"comparison_misaligned", q>> : q \in of("comparison_misaligned")}
       \cup {<<"context_session_mismatch", q>> : q \in of("context_session_mismatch")}
       \cup (IF s.market # None /\ s.market.freshness \in NotCurrent
             THEN {<<"market_context_not_current", <<"market_context", s.market.freshness>>>>} ELSE {})
       \cup {<<"news_unavailable", q>> : q \in of("news_unavailable")}
       \cup (IF "sec" \in DOMAIN s.news.families THEN {<<"sec_filing_present", <<"sec">>>>} ELSE {})

-----------------------------------------------------------------------------
\* _transitions: differences by stable identity, never by list position.
FrameTransitions(p, c) ==
    {<<"timeframe_state_changed", <<i, p.frames[i].state, c.frames[i].state>>>> :
        i \in {j \in Intervals : /\ p.frames[j].missing = None /\ c.frames[j].missing = None
                                 /\ p.frames[j].state # c.frames[j].state}}
    \cup {<<"timeframe_direction_changed", <<i, p.frames[i].direction, c.frames[i].direction>>>> :
             i \in {j \in Intervals : p.frames[j].direction # c.frames[j].direction}}
\* Mutant: an alignment is entered from the other one too.
PatternTransitions_EnteredAgain(p, c) ==
    LET change == <<p.alignment.pattern, c.alignment.pattern>>
    IN IF change[1] = change[2] THEN {}
       ELSE {<<"pattern_changed", change>>}
            \cup (IF change[2] \in Aligned THEN {<<"entered_alignment", change>>} ELSE {})
            \cup (IF change[1] \in Aligned /\ change[2] \notin Aligned THEN {<<"exited_alignment", change>>} ELSE {})
PatternTransitions(p, c) ==
    LET change == <<p.alignment.pattern, c.alignment.pattern>>
    IN IF change[1] = change[2] THEN {}
       ELSE {<<"pattern_changed", change>>}
            \cup (IF change[2] \in Aligned /\ change[1] \notin Aligned THEN {<<"entered_alignment", change>>} ELSE {})
            \cup (IF change[1] \in Aligned /\ change[2] \notin Aligned THEN {<<"exited_alignment", change>>} ELSE {})
Named(c, opposition, gap) == <<IF c[1] \in ConflictCodes THEN opposition ELSE gap, <<c[1]>> \o c[2]>>
DomainTransitions(p, c) ==
    LET lost(a, b) == {d \in Domains : a.completeness[d] # "unavailable" /\ b.completeness[d] = "unavailable"}
        change(d) == <<d, p.completeness[d], c.completeness[d]>>
    IN {<<"domain_became_available", change(d)>> : d \in lost(c, p)}
       \cup {<<"domain_became_unavailable", change(d)>> : d \in lost(p, c)}
SignTransitions(p, c) ==
    LET refs(s) == IF s.market = None THEN {} ELSE s.market.references
    IN {<<"reference_sign_changed", <<x[1].reference, x[1].basis, x[1].sign, x[2].sign>>>> :
           x \in {y \in refs(p) \X refs(c) : /\ y[1].reference = y[2].reference /\ y[1].basis = y[2].basis
                                             /\ y[1].sign # y[2].sign}}
NewsTransitions(p, c) ==
    LET change(code, ids) == IF ids = {} THEN {} ELSE {<<code, <<Cardinality(ids), ids>>>>}
    IN change("news_identities_added", c.news.sources \ p.news.sources)
       \cup change("news_identities_removed", p.news.sources \ c.news.sources)
Transitions(p, c) ==
    FrameTransitions(p, c) \cup PatternTransitions(p, c)
    \cup {Named(x, "opposition_appeared", "gap_appeared") : x \in c.contradictions \ p.contradictions}
    \cup {Named(x, "opposition_resolved", "gap_resolved") : x \in p.contradictions \ c.contradictions}
    \cup DomainTransitions(p, c) \cup SignTransitions(p, c) \cup NewsTransitions(p, c)

\* build; the previous synthesis (None: not supplied) changes no block about the current one.
Refused == [status |-> "refused"]
Build(current, previous) ==
    IF ~(IF previous = None THEN ValidSynthesis(current) ELSE ValidPair(current, previous)) THEN Refused
    ELSE [status |-> "built", synthesis |-> current, symbol |-> current.symbol, asOf |-> current.asOf,
          coverage |-> Coverage(current), structure |-> Structure(current),
          alignment |-> ContextAlignment(current), events |-> current.news, conflicts |-> Conflicts(current),
          elapsed |-> IF previous = None THEN None ELSE current.asOf - previous.asOf,
          transitions |-> IF previous = None THEN {} ELSE Transitions(previous, current),
          attention |-> Attention(current)]

Directions == Directional \cup {"non_directional", "unavailable"}
RelationValues == {"agree", "oppose", "non_directional", "unavailable"}
Patterns == Aligned \cup {"all_non_directional", "opposed", "partially_directional", "incomplete"}
\* s with one derived fact changed to any value of its kind, the right one included.
FrameEdits(s) == UNION {{[s EXCEPT !.frames[i].direction = d] : d \in Directions}
                        \cup {[s EXCEPT !.frames[i].age = a] : a \in {None} \cup 0..s.asOf} : i \in Intervals}
                 \cup {[s EXCEPT !.relations[q] = v] : q \in Pairs, v \in RelationValues}
                 \cup {[s EXCEPT !.alignment.pattern = p] : p \in Patterns}
                 \cup {[s EXCEPT !.alignment.count[d] = n] : d \in Directions, n \in 0..3}
MarketEdits(s) == IF s.market = None THEN {}
                  ELSE {[s EXCEPT !.market.age = a] : a \in 0..s.asOf}
                       \cup {[s EXCEPT !.market.relations = @ \ {r}] : r \in s.market.relations}
                       \cup {[s EXCEPT !.market.relations = (@ \ {r}) \cup {[r EXCEPT !.relation = v]}] :
                                 r \in s.market.relations, v \in RelationValues}
NewsEdits(s) == {[s EXCEPT !.news.count = n] : n \in 0..3} \cup {[s EXCEPT !.news.sources = @ \ {x}] : x \in s.news.sources}
                \cup {[s EXCEPT !.news.families[f] = @ + 1] : f \in DOMAIN s.news.families}
                \cup (IF s.news.stamps = None THEN {} ELSE {[s EXCEPT !.news.stamps.age = a] : a \in 0..s.asOf})
                \cup (IF s.news.days = None THEN {} ELSE {[s EXCEPT !.news.days.age = a] : a \in 0..s.asOf})
SummaryEdits(s) ==
    LET present == {i \in Intervals : s.frames[i].missing = None}
    IN {[s EXCEPT !.completeness[d] = v] : d \in Domains, v \in {"available", "available_empty", "partial", "unavailable"}}
       \cup {[s EXCEPT !.completeness.missing = M] : M \in SUBSET Intervals}
       \cup {[s EXCEPT !.contradictions = @ \ {c}] : c \in s.contradictions}
       \cup {[s EXCEPT !.contradictions = @ \cup {c}] :
                 c \in {<<"timeframe_opposition", q>> : q \in Pairs} \cup {<<"timeframe_unavailable", <<i>>>> : i \in Intervals}
                       \cup {<<"news_unavailable", <<"news">>>>, <<"market_context_unavailable", <<"market_context">>>>}}
       \cup {[s EXCEPT !.sealed = FALSE]}
       \cup (IF present = {} /\ s.market = None THEN {} ELSE {[s EXCEPT !.asOf = @ + 1]})
Edited(s) == FrameEdits(s) \cup MarketEdits(s) \cup NewsEdits(s) \cup SummaryEdits(s)
\* s with a fact changed that only the packet could contradict: what the items of a family count to, the oldest item and
\* the excluded ones.
Copied(s) ==
    {[s EXCEPT !.news.families = g] : g \in {h \in UNION {[F -> 1..s.news.count] : F \in SUBSET SupportedFamilies} :
                                                SumFunction(h) = s.news.count}}
    \cup (IF s.news.stamps = None THEN {} ELSE {[s EXCEPT !.news.stamps.oldest = @ - 1]})
    \cup {[s EXCEPT !.news.excluded = [r \in {"symbol_mismatch"} |-> 1]]}
(* Every synthesis of a valid packet is accepted, whatever the evidence.  The validator has no packet, so it refuses exactly
   what contradicts the rest of the synthesis: one fact that follows from the others - a direction, a relation, the pattern and
   its counts, an age, a total, the completeness, a contradiction - edited and resealed is never accepted, one that was counted
   or copied from the packet always.  And the opposition among three timeframes always has a shape, whose isolated interval is
   the one against the other two. *)
IntelligenceSound(s) ==
    LET shape == OppositionShape(s.alignment.pattern, s.frames, s.relations)
        against(i) == {j \in Intervals : s.frames[j].direction # s.frames[i].direction} = Intervals \ {i}
    IN /\ ValidSynthesis(s)
       /\ \A t \in Edited(s) : t = s \/ ~ValidSynthesis(t)
       /\ \A t \in Copied(s) : ValidSynthesis(t)
       /\ shape[1] # "raises"
       /\ shape[1] = "isolated_interval" => against(shape[2])
       /\ s.alignment.pattern = "opposed" <=> shape[1] \in {"isolated_interval", "single_pair"}
       /\ s.alignment.pattern # "incomplete" => (Conflicts(s) # {} => \E a \in Attention(s) :
              a[1] \in {"timeframe_opposition_present", "market_context_opposition_present"})

Codes(T, codes) == {t[2] : t \in {x \in T : x[1] \in codes}}
Undone(T, B, before, now) ==
    LET appeared == {"opposition_appeared", "gap_appeared"}
        resolved == {"opposition_resolved", "gap_resolved"}
    IN /\ (before \ Codes(T, resolved)) \cup Codes(T, appeared) = now
       /\ Codes(T, appeared) = Codes(B, resolved) /\ Codes(T, resolved) = Codes(B, appeared)
       /\ Codes(T, {"entered_alignment"}) = {<<x[2], x[1]>> : x \in Codes(B, {"exited_alignment"})}
       /\ Codes(T, {"domain_became_unavailable"}) = {<<x[1], x[3], x[2]>> : x \in Codes(B, {"domain_became_available"})}
       /\ Codes(T, {"news_identities_added"}) = Codes(B, {"news_identities_removed"})
OnlyAddsTransitions(pair, alone) == pair.elapsed > 0 /\ \A b \in DOMAIN alone \ {"elapsed", "transitions"} : pair[b] = alone[b]
(* The transitions are exactly the difference: what was contradictory, less what is resolved, with what appeared,
   is what is contradictory now; looked at from the other side every one of them is undone; and a previous
   synthesis changes nothing that is said about the current one. *)
TransitionsSound(previous, current) ==
    LET named(s) == {<<c[1]>> \o c[2] : c \in s.contradictions}
    IN ValidPair(current, previous) =>
         /\ Undone(Transitions(previous, current), Transitions(current, previous), named(previous), named(current))
         /\ OnlyAddsTransitions(Build(current, previous), Build(current, None))
         /\ Build(previous, current) = Refused
=============================================================================
