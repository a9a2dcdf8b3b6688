--------------------------- MODULE EventRepository ---------------------------
(***************************************************************************)
(* One event in the PostgreSQL event store: its immutable versions, the    *)
(* outcome rows (provenance and score/decision/AI history) of every        *)
(* version, and the pointer to the current one, with the promotion policy  *)
(* of the shadow adapters.  What a transaction does is an operator on the  *)
(* committed state it reads; ShadowWriter runs the transactions.           *)
(***************************************************************************)
EXTENDS Naturals

CONSTANTS
    Version,   \* normalized contents, each with a version key of its own
    Outcome,   \* sets of provenance and history rows a snapshot can carry
    Facts,     \* [Version -> the fields that identify the release]
    Material,  \* [Version -> the facts that make a version materially different]
    Time,      \* [Version -> publication time, None when its precision is unknown]
    None

ASSUME VersionAssumption == None \notin Version

\* A submitted snapshot; make_current is FALSE for events that were skipped by age.
Snapshot == [version : Version, outcome : Outcome, make_current : BOOLEAN]
Store == [versions : SUBSET Version, outcomes : SUBSET (Version \X Outcome), current : Version \cup {None}]
EmptyStore == [versions |-> {}, outcomes |-> {}, current |-> None]

\* What the policy answers for a candidate while `current` is the current version.
Verdict(current, candidate) ==
    IF Facts[current] # Facts[candidate] THEN "ambiguous"
    ELSE IF Material[current] = Material[candidate] THEN "cosmetic"
    ELSE IF Time[current] = None \/ Time[candidate] = None \/ Time[current] = Time[candidate] THEN "ambiguous"
    ELSE IF Time[candidate] < Time[current] THEN "older"
    ELSE "newer_material"

\* The first version becomes current; another one only at the caller's wish and by policy.
Promotes(current, s) ==
    current = None \/ (s.make_current /\ Verdict(current, s.version) = "newer_material")

\* The rows one snapshot adds to a store and whether the pointer moves to its version.
Writes(store, s) ==
    LET new == s.version \notin store.versions
        row == <<s.version, s.outcome>>
    IN [versions |-> IF new THEN {s.version} ELSE {},
        outcomes |-> {row} \ store.outcomes,
        current |-> IF new /\ Promotes(store.current, s) THEN s.version ELSE None]

NoWrites == [versions |-> {}, outcomes |-> {}, current |-> None]
\* inserted_count > 0: some row was really new.
Inserted(w) == w.versions # {} \/ w.outcomes # {}

\* A commit applies all rows of a transaction; uq_event_versions_key allows no second copy.
Committable(store, w) == w.versions \cap store.versions = {}
Committed(store, w) == [versions |-> store.versions \cup w.versions,
                        outcomes |-> store.outcomes \cup w.outcomes,
                        current |-> IF w.current = None THEN store.current ELSE w.current]
=============================================================================
