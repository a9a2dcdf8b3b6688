----------------------------- MODULE EvidencePacket -----------------------------
(***************************************************************************)
(* The evidence packet: already-produced evidence and an information       *)
(* cutoff in, one packet out.  Every piece of evidence is kept or counted  *)
(* under exactly one reason.  The adapters only classify and copy.         *)
(***************************************************************************)
EXTENDS Absence, Integers, Sequences, SequencesExt, FiniteSetsExt

CONSTANT DayOfInstant(_)  \* the exchange (New York) date of an instant

Intervals == {"1d", "1h", "5m"}
SupportedFamilies == {"news", "sec"}

-----------------------------------------------------------------------------
\* _market_section: another symbol's context or a later one is refused whole.
MarketSection(symbol, asOf, context) ==
    LET reasons == CASE context = None -> {"not_supplied"}
                     [] context # None /\ context.symbol # symbol -> {"symbol_mismatch"}
                     [] context # None /\ context.symbol = symbol /\ context.asOf > asOf -> {"after_as_of"}
                     [] OTHER -> {}
    IN [status |-> IF reasons = {} THEN "available" ELSE "unavailable", reasons |-> reasons,
        context |-> IF reasons = {} THEN context ELSE None]

\* adapt_technical_row: the first check that fails names the reason; "ok" otherwise.
RowReason(row, symbol, interval) ==
    CASE ~row.complete -> "invalid_row"                           \* a missing field, or not JSON
      [] row.complete /\ ~row.sealed -> "content_hash_mismatch"
      [] row.complete /\ row.sealed /\ ~row.valid -> "invalid_row"  \* validate_row
      [] row.complete /\ row.sealed /\ row.valid /\ row.symbol # symbol -> "symbol_mismatch"
      [] OTHER -> IF row.interval = interval THEN "ok" ELSE "invalid_row"

\* _technical_section: rows is a function on a subset of Intervals, or None.
TechnicalSection(symbol, asOf, rows) ==
    LET reason(i) == IF rows = None \/ i \notin DOMAIN rows THEN "not_supplied"
                     ELSE IF RowReason(rows[i], symbol, i) = "ok" /\ rows[i].end > asOf THEN "after_as_of"
                     ELSE RowReason(rows[i], symbol, i)
        missing == {i \in Intervals : reason(i) # "ok"}
    IN [status |-> IF missing = {} THEN "available" ELSE IF missing = Intervals THEN "unavailable" ELSE "partial",
        reasons |-> IF rows = None THEN {"not_supplied"} ELSE {<<i, reason(i)>> : i \in missing},
        frames |-> [i \in Intervals |-> IF i \in missing THEN [row |-> None, missing |-> reason(i)]
                                        ELSE [row |-> rows[i], missing |-> None]]]

-----------------------------------------------------------------------------
\* adapt_news_event: what keeps an event out before any of its times is looked at.  `valid` stands for the field
\* checks: a mapping with a headline, an aware observed_at, the family's event type, its identity and its score.
AdapterReason(n) ==
    CASE n.family \notin SupportedFamilies -> "unsupported_family"
      [] n.family \in SupportedFamilies /\ n.outcome = "near_duplicate_suppressed" -> "near_duplicate_suppressed"
      [] OTHER -> IF n.valid /\ n.outcome = "processed" THEN "ok" ELSE "invalid_event"

\* The publication a family can have: RSS to the second or unknown, SEC the filing date or unknown.
Precision(n) == IF n.published = None THEN "unknown" ELSE IF n.family = "sec" THEN "date" ELSE "second"

\* _time_reason: a date-only publication counts from the day after its own.
\* Mutant: when an item was observed is not looked at.
TimeReason_AsPublished(n, asOf) ==
    CASE Precision(n) = "unknown" -> "unknown_publication_time"
      [] Precision(n) = "second" /\ n.published > asOf -> "after_as_of"
      [] Precision(n) = "date" /\ n.published >= DayOfInstant(asOf) -> "after_as_of"
      [] OTHER -> "ok"
TimeReason(n, asOf) ==
    CASE Precision(n) = "unknown" -> "unknown_publication_time"
      [] Precision(n) = "second" /\ n.published > asOf -> "after_as_of"
      [] Precision(n) = "date" /\ n.published >= DayOfInstant(asOf) -> "after_as_of"
      [] OTHER -> IF n.observed > asOf THEN "observed_after_as_of" ELSE "ok"

Reason(symbol, asOf, n) ==
    IF AdapterReason(n) # "ok" THEN AdapterReason(n)
    ELSE IF symbol \notin n.symbols THEN "symbol_mismatch" ELSE TimeReason(n, asOf)

Identity(n) == <<n.family, n.key>>
Content(n) == [f \in DOMAIN n \ {"observed"} |-> n[f]]

\* _order_key: newest exchange date first; timed items before dated ones, latest first; then family and key.
OrderKey(n) == IF Precision(n) = "second"
               THEN <<-DayOfInstant(n.published), 0, -n.published, IF n.family = "news" THEN 0 ELSE 1, n.key>>
               ELSE <<-n.published, 1, 0, IF n.family = "news" THEN 0 ELSE 1, n.key>>
Before(a, b) == \E i \in 1..5 : /\ OrderKey(a)[i] < OrderKey(b)[i]
                                /\ \A j \in 1..(i - 1) : OrderKey(a)[j] = OrderKey(b)[j]
InOrder(S) == [i \in 1..Cardinality(S) |-> CHOOSE x \in S : Cardinality({y \in S : Before(y, x)}) = i - 1]

\* _news_section: one record per identity, none when its records disagree, and a count for everything left out.
NewsListed(items, excluded) ==
    [status |-> IF items = <<>> THEN "available_empty" ELSE "available",
     reasons |-> IF items = <<>> THEN {"no_matching_items"} ELSE {},
     items |-> items, excluded |-> [r \in ToSet(excluded) |-> Cardinality({i \in DOMAIN excluded : excluded[i] = r})]]
NewsFrom(inputs, reason) ==
    LET passed == {i \in DOMAIN inputs : reason[i] = "ok"}
        records(i) == {j \in passed : Identity(inputs[j]) = Identity(inputs[i])}
        conflict(i) == \E j \in records(i) : Content(inputs[j]) # Content(inputs[i])
        firsts == {i \in passed : ~conflict(i) /\ i = Min(records(i))}
        kept(i) == [inputs[i] EXCEPT !.observed = Min({inputs[j].observed : j \in records(i)})]
    IN NewsListed(InOrder({kept(i) : i \in firsts}),
                  [i \in DOMAIN inputs \ firsts |-> IF reason[i] # "ok" THEN reason[i]
                                                    ELSE IF conflict(i) THEN "identity_conflict" ELSE "duplicate_identical"])
NewsSection(symbol, asOf, collection) ==
    IF collection = None THEN [status |-> "unavailable", reasons |-> {"not_supplied"}, items |-> <<>>, excluded |-> <<>>]
    ELSE IF ~collection.succeeded
    THEN [status |-> "unavailable", reasons |-> {"source_error"}, items |-> <<>>, excluded |-> <<>>]
    ELSE NewsFrom(collection.inputs, [i \in DOMAIN collection.inputs |-> Reason(symbol, asOf, collection.inputs[i])])

\* assemble; the content hash that names the packet stands for the packet itself.
Assemble(symbol, asOf, context, rows, collection) ==
    [sealed |-> TRUE, symbol |-> symbol, asOf |-> asOf, market |-> MarketSection(symbol, asOf, context),
     technical |-> TechnicalSection(symbol, asOf, rows), news |-> NewsSection(symbol, asOf, collection)]

ListsFairly(section, inputs, ok) ==
    /\ Len(section.items) + SumFunction(section.excluded) = Len(inputs)
    /\ \A i, j \in ok : /\ Identity(inputs[i]) = Identity(inputs[j])
                        /\ Content(inputs[i]) # Content(inputs[j])
                        => \A n \in ToSet(section.items) : Identity(n) # Identity(inputs[i])
(* Nothing is lost and nothing is counted twice: every input of a collection is an item or is counted under one
   reason; the section does not depend on the order the inputs came in; two records that disagree about one item
   keep neither; and an item was published and observed by as_of. *)
NewsAccounted(symbol, asOf, collection) ==
    LET inputs == collection.inputs
    IN /\ ListsFairly(NewsSection(symbol, asOf, collection), inputs, {i \in DOMAIN inputs : Reason(symbol, asOf, inputs[i]) = "ok"})
       /\ NewsSection(symbol, asOf, collection) = NewsSection(symbol, asOf, [collection EXCEPT !.inputs = Reverse(inputs)])
       /\ \A n \in ToSet(NewsSection(symbol, asOf, collection).items) :
             n.observed <= asOf /\ (Precision(n) = "second" => n.published <= asOf)
=============================================================================
