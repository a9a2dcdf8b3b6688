---------------------------- MODULE EvidenceSynthesis ----------------------------
(***************************************************************************)
(* The evidence synthesis: one valid packet in, descriptive facts out -    *)
(* directions per timeframe, how they and the market context relate, and   *)
(* the contradictions between them.  Nothing is weighed or scored.         *)
(*                                                                         *)
(* A content hash is modelled by its effect: `sealed` says that the id of  *)
(* an artifact recomputes from its body.                                   *)
(***************************************************************************)
EXTENDS EvidencePacket

Pairs == {<<"1d", "1h">>, <<"1h", "5m">>, <<"1d", "5m">>}
MarketBases == {"prev_close", "open"}
Rank == [i \in Intervals |-> CASE i = "1d" -> 0 [] i = "1h" -> 1 [] i = "5m" -> 2]
Bulls == {"bullish_setup", "bullish_momentum", "breakout_watch"}
Bears == {"bearish_setup", "bearish_momentum", "breakdown_watch"}
States == Bulls \cup Bears \cup {"range", "mixed", "insufficient_data"}

StateDirection(state) ==
    CASE state \in {None, "insufficient_data"} -> "unavailable"
      [] state \in Bulls -> "bullish"
      [] state \in Bears -> "bearish"
      [] OTHER -> "non_directional"

\* pair_relation, and context_relation with a sign read as a direction.
PairRelation(a, b) ==
    CASE "unavailable" \in {a, b} -> "unavailable"
      [] "unavailable" \notin {a, b} /\ "non_directional" \in {a, b} -> "non_directional"
      [] OTHER -> IF a = b THEN "agree" ELSE "oppose"
\* Mutant: a return of zero is positive.
Sign_ZeroIsUp(v) == IF v = None THEN "unavailable" ELSE IF v >= 0 THEN "positive" ELSE "negative"
Sign(v) == CASE v = None -> "unavailable" [] v # None /\ v > 0 -> "positive" [] v # None /\ v < 0 -> "negative"
             [] OTHER -> "zero"
SignDirection == [positive |-> "bullish", negative |-> "bearish", zero |-> "non_directional",
                  unavailable |-> "unavailable"]
ContextRelation(direction, sign) == PairRelation(direction, SignDirection[sign])

\* timeframe_pattern: a fixed precedence over the three directions.
Pattern(directions) ==
    CASE "unavailable" \in directions -> "incomplete"
      [] "unavailable" \notin directions /\ {"bullish", "bearish"} \subseteq directions -> "opposed"
      [] directions = {"bullish"} -> "all_bullish"
      [] directions = {"bearish"} -> "all_bearish"
      [] directions = {"non_directional"} -> "all_non_directional"
      [] OTHER -> "partially_directional"

-----------------------------------------------------------------------------
\* _technical of the validator: a frame has a row or a reason, and no bar ends after as_of.
ValidTechnical(p) ==
    LET t == p.technical
        present == {i \in Intervals : t.frames[i].row # None}
    IN /\ \A i \in Intervals :
             /\ (t.frames[i].row = None) # (t.frames[i].missing = None)
             /\ i \in present => LET row == t.frames[i].row IN
                   /\ row.end <= p.asOf /\ row.symbol = p.symbol /\ row.interval = i /\ row.state \in States
       /\ t.status = IF present = Intervals THEN "available" ELSE IF present = {} THEN "unavailable" ELSE "partial"

\* _market_context of the validator; "self" is reserved for the symbol's own returns.
ValidMarket(p) ==
    LET c == p.market.context
    IN /\ p.market.status \in {"available", "unavailable"}
       /\ (p.market.status = "available") = (c # None)
       /\ c # None => /\ c.symbol = p.symbol /\ c.asOf <= p.asOf
                      /\ \A x \in c.comparisons : /\ x.benchmark # "self" /\ x.basis \in MarketBases
                                                  /\ x.aligned \in BOOLEAN \cup {None}
                      /\ \A x, y \in c.comparisons : x.benchmark = y.benchmark /\ x.basis = y.basis => x = y

\* _news of the validator.
ValidNews(p) ==
    LET n == p.news
    IN /\ n.status \in {"available", "available_empty", "partial", "unavailable"}
       /\ (n.items # <<>>) = (n.status = "available")
       /\ \A i \in DOMAIN n.items :
             /\ n.items[i].family \in SupportedFamilies
             /\ \A j \in DOMAIN n.items : Identity(n.items[i]) = Identity(n.items[j]) => i = j
             /\ n.items[i].observed <= p.asOf
             /\ Precision(n.items[i]) = "second" => n.items[i].published <= p.asOf
             /\ Precision(n.items[i]) = "date" => n.items[i].published < DayOfInstant(p.asOf)
       /\ \A r \in DOMAIN n.excluded : n.excluded[r] >= 1

ValidPacket(p) == p.sealed /\ ValidMarket(p) /\ ValidTechnical(p) /\ ValidNews(p)

-----------------------------------------------------------------------------
\* _timeframes, _relations, _alignment
Frames(p) ==
    [i \in Intervals |->
        LET row == p.technical.frames[i].row
        IN IF row = None
           THEN [direction |-> "unavailable", state |-> None, end |-> None, age |-> None,
                 missing |-> p.technical.frames[i].missing]
           ELSE [direction |-> StateDirection(row.state), state |-> row.state, end |-> row.end,
                 age |-> p.asOf - row.end, missing |-> None]]
Relations(frames) == [q \in Pairs |-> PairRelation(frames[q[1]].direction, frames[q[2]].direction)]
Alignment(frames) ==
    [pattern |-> Pattern({frames[i].direction : i \in Intervals}),
     count |-> [d \in {"bullish", "bearish", "non_directional", "unavailable"} |->
                   Cardinality({i \in Intervals : frames[i].direction = d})]]

\* _market_context: the symbol's own returns and every comparison become references; each meets each timeframe.
MarketFacts(p, frames) ==
    LET c == p.market.context
        own == {[reference |-> "self", basis |-> b, sign |-> Sign(c.returns[b]), aligned |-> None,
                 unavailable |-> {}] : b \in MarketBases}
        others == {[reference |-> x.benchmark, basis |-> x.basis, sign |-> Sign(x.relative), aligned |-> x.aligned,
                    unavailable |-> x.unavailable] : x \in c.comparisons}
    IN IF c = None THEN None
       ELSE [session |-> c.session, freshness |-> c.freshness, asOf |-> c.asOf, age |-> p.asOf - c.asOf,
             references |-> own \cup others,
             relations |-> {[interval |-> i, reference |-> r.reference, basis |-> r.basis,
                             relation |-> ContextRelation(frames[i].direction, r.sign)] :
                               i \in Intervals, r \in own \cup others}]

\* _news: counts and publication extremes; no direction is read into a headline.
NewsFacts(p) ==
    LET items == ToSet(p.news.items)
        stamps == {n.published : n \in {m \in items : Precision(m) = "second"}}
        days == {n.published : n \in {m \in items : Precision(m) = "date"}}
        extreme(S, now) == IF S = {} THEN None ELSE [newest |-> Max(S), oldest |-> Min(S), age |-> now - Max(S)]
    IN [status |-> p.news.status, count |-> Cardinality(items),
        families |-> [f \in {n.family : n \in items} |-> Cardinality({n \in items : n.family = f})],
        stamps |-> extreme(stamps, p.asOf), days |-> extreme(days, DayOfInstant(p.asOf)), excluded |-> p.news.excluded,
        sources |-> {Identity(n) : n \in items}]

\* _contradictions: opposition between directional evidence, and evidence that is missing or out of step.
Contradictions(news, frames, market) ==
    LET relations == Relations(frames)
        ends == {i \in Intervals : frames[i].end # None}
        latest == CHOOSE i \in ends : \A j \in ends : \/ frames[j].end < frames[i].end
                                                      \/ frames[j].end = frames[i].end /\ Rank[i] <= Rank[j]
    IN {<<"timeframe_unavailable", <<i>>>> : i \in {j \in Intervals : frames[j].direction = "unavailable"}}
       \cup {<<"timeframe_opposition", q>> : q \in {r \in Pairs : relations[r] = "oppose"}}
       \cup (IF news = "unavailable" THEN {<<"news_unavailable", <<"news">>>>} ELSE {})
       \cup (IF market = None THEN {<<"market_context_unavailable", <<"market_context">>>>}
             ELSE {<<"market_context_opposes_timeframe", <<r.interval, r.reference, r.basis>>>> :
                      r \in {x \in market.relations : x.relation = "oppose"}}
                  \cup {<<"comparison_misaligned", <<r.reference, r.basis>>>> :
                          r \in {x \in market.references : "misaligned" \in x.unavailable}}
                  \cup (IF /\ market.session # None /\ ends # {}
                           /\ DayOfInstant(frames[latest].end) # market.session
                        THEN {<<"context_session_mismatch", <<"market_context", latest>>>>} ELSE {}))

\* synthesize; only for a packet that ValidPacket accepts.
Synthesize(p) ==
    LET frames == Frames(p)
        market == MarketFacts(p, frames)
    IN [sealed |-> TRUE, packet |-> p, symbol |-> p.symbol, asOf |-> p.asOf,
        completeness |-> [market |-> p.market.status, technical |-> p.technical.status, news |-> p.news.status,
                          missing |-> {i \in Intervals : frames[i].missing # None}],
        frames |-> frames, relations |-> Relations(frames), alignment |-> Alignment(frames),
        market |-> market, news |-> NewsFacts(p), contradictions |-> Contradictions(p.news.status, frames, market)]

TurnState == [bullish_setup |-> "bearish_setup", bullish_momentum |-> "bearish_momentum", breakout_watch |-> "breakdown_watch",
              bearish_setup |-> "bullish_setup", bearish_momentum |-> "bullish_momentum", breakdown_watch |-> "breakout_watch",
              range |-> "range", mixed |-> "mixed", insufficient_data |-> "insufficient_data"]
TurnValue(v) == IF v = None THEN None ELSE -v
Turned(p) ==
    [p EXCEPT !.technical.frames = [i \in Intervals |-> IF @[i].row = None THEN @[i] ELSE [@[i] EXCEPT !.row.state = TurnState[@]]],
              !.market.context = IF @ = None THEN None
                                 ELSE [@ EXCEPT !.returns = [b \in MarketBases |-> TurnValue(@[b])],
                                                !.comparisons = {[x EXCEPT !.relative = TurnValue(@)] : x \in @}]]
Alike(s, t) ==
    /\ s.relations = t.relations /\ s.contradictions = t.contradictions /\ s.news = t.news
    /\ s.alignment.count["bullish"] = t.alignment.count["bearish"]
    /\ (s.alignment.pattern = "all_bullish") = (t.alignment.pattern = "all_bearish")
    /\ s.market # None => s.market.relations = t.market.relations
(* The assembler and the synthesis validator agree: whatever evidence is supplied, the packet is a valid input.
   Bullish and bearish are treated alike: turning every state and every sign round turns the directions round and
   leaves every relation and every contradiction as it was. *)
SynthesisSound(p) == /\ ValidPacket(p) /\ ValidPacket(Turned(p))
                     /\ Alike(Synthesize(p), Synthesize(Turned(p)))
=============================================================================
