-------------------------------- MODULE MCOptions --------------------------------
(***************************************************************************)
(* A vendor, a market and policies for the option modules: what TLC        *)
(* enumerates.  Four instants make a day; the snapshot is of instant 10.   *)
(***************************************************************************)
EXTENDS SetupEvaluation, AlertContent

F(v, o) == [value |-> v, observed |-> o, date |-> None]
Q(b, a) == [bid |-> b, ask |-> a]
NoFacts == [g \in FactGroups |-> None]
Item(sym, facts) == [symbol |-> sym, kind |-> IF sym = None THEN None ELSE sym.kind, strike |-> None,
   expiration |-> IF sym = None THEN None ELSE sym.expiration, underlying |-> None, shares |-> 100, facts |-> facts @@ NoFacts]
C1 == [root |-> "X", expiration |-> 4, kind |-> "call", strike |-> 10]
P1 == [C1 EXCEPT !.kind = "put"]
C2 == [C1 EXCEPT !.strike = 12, !.expiration = 2]
Full == [quote |-> F(Q(3, 4), 9), trade |-> F(3, None), day |-> F(7, 8), open_interest |-> [value |-> 5, observed |-> None, date |-> 2],
         implied_volatility |-> F(30, None), greeks |-> F(50, None)]
Stale == [Full EXCEPT !["day"] = F(6, 5), !["quote"] = F(Q(5, 4), 9), !["greeks"] = F(-120, 3),
                      !["open_interest"] = [value |-> 0, observed |-> None, date |-> 3]]
Late == [Full EXCEPT !["day"] = F(6, 11), !["quote"] = F(Q(0, 0), 12), !["implied_volatility"] = None]
Items == {Item(C1, Full), Item(C1, Stale), Item(P1, Stale), Item(P1, Late), Item(C2, Late), Item(C2, Full), [Item(C1, Full) EXCEPT !.underlying = "Y"],
          Item(None, Full), [Item(P1, Full) EXCEPT !.kind = "other"], [Item(P1, Full) EXCEPT !.kind = None],
          [Item(C1, Full) EXCEPT !.shares = Bad], [Item(C1, Full) EXCEPT !.strike = 11],
          Item([C1 EXCEPT !.expiration = 1], Full), Item([C1 EXCEPT !.strike = 0], Full), [Item(C2, Full) EXCEPT !.facts["day"] = Bad],
          Item([C1 EXCEPT !.expiration = 7], Full), Item(C1, [quote |-> F(Q(3, None), 9)])}
Few == {Item(C1, Full), Item(P1, Late), Item(C2, Stale)}
Vendors == {<<[items |-> <<a, b>>, next |-> n]>> : a \in Items, b \in Items, n \in {"none", "foreign"}}
     \cup {<<[items |-> <<a>>, next |-> "same"], [items |-> <<b, c>>, next |-> n]>> : a \in Items, b \in Few, c \in Items, n \in {"none", "same"}}
     \cup {<<[items |-> <<a>>, next |-> "same"], [items |-> Bad, next |-> "none"]>> : a \in Items}
MarketRefs == {None, [id |-> "m", symbol |-> "X", asOf |-> 9], [id |-> "m", symbol |-> "X", asOf |-> 11]}
Prices == {None, [value |-> 11, observed |-> 9], [value |-> 11, observed |-> 11]}

\* The snapshot of a finished retrieval is valid, adds up, and verifies.
ChainSound == Retrieved => /\ PartialIsMarked /\ SealedChain
                           /\ \A p \in Prices : SnapshotSound(Records, UnavailableGroups, p)
DerivationSound == chain = "complete" => /\ ActivityAddsUp(Snapshot)
                                         /\ \A m \in MarketRefs : DerivedFromSnapshot(Snapshot, m)
-----------------------------------------------------------------------------
\* Setups: snapshots of up to three of these records, every market and policy that differs in one respect.
Wide == [Full EXCEPT !["quote"] = F(Q(2, 6), 9)]
Locked == [Full EXCEPT !["quote"] = F(Q(4, 4), 9)]
Bare == [Full EXCEPT !["implied_volatility"] = None, !["greeks"] = None, !["open_interest"] = None]
Today == [C1 EXCEPT !.expiration = 2]
SetupRecords == {<<Item(C1, Full)>>, <<Item(C1, Full), Item(C2, Wide)>>, <<Item(C1, Locked), Item(P1, Full)>>,
                 <<Item(C1, Stale), Item(P1, Wide)>>, <<Item(Today, Full), [Item(P1, Bare) EXCEPT !.shares = None]>>,
                 <<Item(C1, Bare), Item(C2, Late), Item(P1, Late)>>, <<>>}
Base == [sides |-> {"call", "put"}, minDte |-> 0, maxDte |-> 3, sameDay |-> TRUE, locked |-> TRUE, maxSpread |-> None,
         minDelta |-> None, maxDelta |-> None, requireIv |-> FALSE, unverified |-> TRUE, currentDay |-> FALSE,
         completeChain |-> FALSE, minVolume |-> None, minInterest |-> None, maxPremium |-> None,
         blockOpposition |-> FALSE, blockNotCurrent |-> FALSE, maxGap |-> 2]
Policies == {Base, [Base EXCEPT !.sides = {"put"}], [Base EXCEPT !.sides = {}], [Base EXCEPT !.maxDte = 1], [Base EXCEPT !.maxSpread = 50],
             [Base EXCEPT !.minDelta = 40, !.maxDelta = 60], [Base EXCEPT !.minDelta = 40], [Base EXCEPT !.requireIv = TRUE],
             [Base EXCEPT !.requireIv = TRUE, !.unverified = FALSE], [Base EXCEPT !.minDelta = 40, !.maxDelta = 60, !.unverified = FALSE],
             [Base EXCEPT !.currentDay = TRUE, !.completeChain = TRUE], [Base EXCEPT !.minVolume = 1, !.minInterest = 5],
             [Base EXCEPT !.maxPremium = 450], [Base EXCEPT !.maxGap = 0], [Base EXCEPT !.locked = FALSE, !.sameDay = FALSE],
             [Base EXCEPT !.blockOpposition = TRUE, !.blockNotCurrent = TRUE]}
Market(i, p, t, when, flags) == [id |-> i, symbol |-> "X", asOf |-> when, pattern |-> p, technical |-> t, attention |-> flags]
Markets == {Market("m1", p, t, when, {}) : p \in MarketPatterns, t \in {"available", "partial"}, when \in {9, 10}}
           \cup {Market("m1", "all_bullish", "available", 10, {f}) : f \in {"market_context_opposition_present", "market_context_not_current"}}
           \cup {[Market("m1", "all_bullish", "available", 10, {}) EXCEPT !.symbol = "Y"]}
LaterMarkets == {Market("m2", p, t, when, {}) : p \in MarketPatterns, t \in {"available", "partial"}, when \in {9, 10, 11, 17}}
AlertMarkets == {Market("m2", p, "available", 11, {}) : p \in MarketPatterns \ {"all_non_directional"}}
                \cup {Market("m2", "opposed", "partial", 11, {}), Market("m2", "opposed", "available", 9, {})}
OptionsOf(c) == BuildOptions(AssembleSnapshot(c.records, {}, None, c.truncated), None)
AlertsOf(c, options) == \A later \in AlertMarkets : AlertsSound(c.market, options, c.policy, later)
AlertsHold(c) == AlertsOf(c, OptionsOf(c))
-----------------------------------------------------------------------------
\* Evaluations: a setup of instant 2, 4, 5 (an open) or 6, marked in a snapshot of instant 9, 10 or 11.
Snap(t) == INSTANCE SetupEvaluation WITH AsOf <- t
Near == [C1 EXCEPT !.expiration = 1, !.strike = 9]
Early == [quote |-> F(Q(3, 4), 1)]
EarlyZero == [quote |-> F(Q(0, 0), 1)]
Assessed(t, when) ==
    LET s == Snap(t)!AssembleSnapshot(<<Item(C1, Early), [Item(C2, EarlyZero) EXCEPT !.shares = None], Item(Near, Early)>>, {}, None, FALSE)
    IN Assess(Market("m1", "all_bullish", "available", when, {}), BuildOptions(s, None), [Base EXCEPT !.maxDte = 9, !.maxGap = 9])
Setups == {Assessed(t, when) : t \in {2, 4, 6}, when \in {1, 5}}
LaterItems == {<<Item(C1, [quote |-> F(q, when)])>> : q \in {Q(5, 6), Q(0, 1), Q(4, 3), Q(2, None)}, when \in {None, 9, 10, 11}}
              \cup {<<[Item(C1, [quote |-> F(Q(5, 6), 10)]) EXCEPT !.shares = 10], Item(C2, [quote |-> F(Q(1, 1), 10)])>>, <<>>,
                    <<[Item(C1, [quote |-> F(Q(2, 2), 10)]) EXCEPT !.shares = None]>>, <<Item(C1, NoFacts)>>}
LaterSnapshots == {Snap(10)!AssembleSnapshot(rs, {}, None, truncated) : rs \in LaterItems, truncated \in BOOLEAN}
                  \cup {Snap(t)!AssembleSnapshot(<<>>, {}, None, FALSE) : t \in {9, 11}}
Schedules == {SubSeq(Calendar, i, j) : i \in 1..2, j \in 2..4}
             \cup {<<Calendar[1], Calendar[3], Calendar[4]>>, [Calendar EXCEPT ![3].close = 10], <<Calendar[2], Calendar[1]>>}
LaterChecks(a) == {{CheckInvalidation(a, Market(i, p, "available", when, {})) : i \in ids} :
                      ids \in {{}, {"m2"}, {"m2", "m3"}}, p \in {"all_bullish", "opposed"}, when \in {9, 12}}
\* Only a policy that asks for a complete chain looks at truncation.
SetupCases == {c \in [records : SetupRecords, market : Markets, policy : Policies, truncated : BOOLEAN] : c.truncated => c.policy.completeChain}
SetupOf(c, options) == /\ SetupSound(c.market, options, c.policy)
                       /\ \A later \in LaterMarkets : CheckSound(c.market, options, c.policy, later)
SetupHolds(c) == SetupOf(c, OptionsOf(c))
EvaluationCases == [setup : Setups, later : LaterSnapshots, schedule : Schedules, protocol : Protocols, n : {1, 2}]
EvaluationHolds(c) ==
    LET a == c.setup
        mixed == {CheckInvalidation(a, Market("m2", "opposed", "available", 9, {})), CheckInvalidation(a, Market("m3", "all_bullish", "available", 10, {}))}
    IN \A checks \in LaterChecks(a) \cup {mixed} : EvaluationSound(a, c.later, c.schedule, c.protocol, c.n, checks)
==================================================================================
