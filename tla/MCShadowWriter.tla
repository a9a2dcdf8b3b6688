--------------------------- MODULE MCShadowWriter ---------------------------
(* Three versions of one release published in order, one of them with a    *)
(* second set of outcomes, and a version whose publication time is unknown.*)
EXTENDS ShadowWriter, TLC

CONSTANTS w1, w2, first, second, third, undated, scored, enriched

MCVersion == {first, second, third, undated}
MCFacts == [v \in MCVersion |-> "release"]
MCMaterial == [v \in MCVersion |-> v]
MCTime == first :> 1 @@ second :> 2 @@ third :> 3 @@ undated :> None
Snap(v, o, m) == [version |-> v, outcome |-> o, make_current |-> m]
MCSubmitted == {Snap(first, scored, TRUE), Snap(second, scored, TRUE), Snap(second, enriched, FALSE),
                Snap(third, scored, TRUE), Snap(undated, scored, TRUE)}
Symmetry == Permutations(Writer)
=============================================================================
