--------------------------- MODULE MCAlertStateStore ---------------------------
(* An instance of AlertStateStore: one setup with an available alert and two *)
(* competing invalidations, one symbol with two pattern changes.             *)
EXTENDS AlertStateStore, TLC

CONSTANTS av, inv1, inv2, mp1, mp2, setup, symbol, bull, bear

MCAlert   == {av, inv1, inv2, mp1, mp2}
MCSubject == {setup, symbol}
MCSetup   == {setup}
MCPattern == {bull, bear}

MCSubjectOf == [a \in MCAlert |-> IF a \in {mp1, mp2} THEN symbol ELSE setup]
MCCodeOf == [a \in MCAlert |-> CASE a = av -> "setup_available"
                                 [] a \in {inv1, inv2} -> "setup_invalidated"
                                 [] OTHER -> "market_pattern_changed"]
MCPatternOf == [a \in MCAlert |-> IF a = mp2 THEN bear ELSE bull]

MCSymmetry == Permutations(Runner) \cup Permutations({inv1, inv2})
===============================================================================
