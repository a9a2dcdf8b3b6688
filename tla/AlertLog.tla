------------------------------- MODULE AlertLog -------------------------------
(***************************************************************************)
(* What the alert-state component promises, with no store, cache or        *)
(* runners: alerts are accepted one at a time into a history in which no   *)
(* alert occurs twice and nothing about a setup follows the first accepted *)
(* invalidation of that setup.                                             *)
(***************************************************************************)
EXTENDS Integers, Sequences

CONSTANTS Alert, SubjectOf, CodeOf

VARIABLE log

Accepted == {log[i] : i \in DOMAIN log}

(* The subject has an accepted setup_invalidated alert.                    *)
Closed(s) == \E a \in Accepted : SubjectOf[a] = s /\ CodeOf[a] = "setup_invalidated"

Acceptable(a) == a \notin Accepted /\ ~Closed(SubjectOf[a])

Init == log = <<>>

Accept(a) == Acceptable(a) /\ log' = Append(log, a)

Next == \E a \in Alert : Accept(a)

Spec == Init /\ [][Next]_log
===============================================================================
