-------------------------- MODULE MCArtifactStore --------------------------
(* Three artifacts of one kind that the query selects, two of them at the   *)
(* same instant; pages of one entry.                                        *)
EXTENDS ArtifactStore

CONSTANT setups

ArtifactDef == 1..3
KindDef == <<setups, setups, setups>>
AsOfDef == <<5, 7, 5>>
KindNamesDef == <<setups>>
QueryDef == {1, 2, 3}
Symmetry == Permutations(Publisher) \cup Permutations(Refresher)
=============================================================================
