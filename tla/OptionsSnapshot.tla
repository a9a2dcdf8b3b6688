----------------------------- MODULE OptionsSnapshot -----------------------------
(***************************************************************************)
(* One option chain, retrieved page by page and sealed as a snapshot of    *)
(* source facts at one cutoff.  Every record is a contract or is counted   *)
(* under one reason; no fact observed after the cutoff is kept.            *)
(***************************************************************************)
EXTENDS Integers, Sequences, SequencesExt, FiniteSetsExt, Functions

CONSTANTS
    DayOfInstant(_),        \* the exchange (New York) date of an instant
    Underlying, AsOf,       \* the symbol, and the clock read once less the delay
    Types, From, Through,   \* ChainScope: option types and expiration bounds (None: open)
    MaxPages, MaxRequests,  \* pages followed and attempts sent, at most
    MaxRetries,
    None, Bad               \* absent; present and not readable

VARIABLES
    pages,      \* what the vendor will answer: [items, next: "none" | "same" | "foreign"]
    fetched,    \* pages read
    requests, attempt,
    chain,      \* "fetching", "complete", "truncated" or the kind of the error
    received    \* the items of the pages read
optionsVars == <<pages, fetched, requests, attempt, chain, received>>

\* FACT_GROUPS; map_contract gives only the first three an instant, and open interest no date.
GroupOrder == <<"quote", "trade", "day", "open_interest", "implied_volatility", "greeks">>
FactGroups == Range(GroupOrder)
MappedTimes == {"quote", "trade", "day"}
RecordExclusions == {"malformed_record", "unsupported_option_type", "invalid_strike", "identity_mismatch",
                     "expired_before_as_of", "identity_conflict", "duplicate_identical"}

-----------------------------------------------------------------------------
\* An item or record: [symbol: None (unreadable) or [root, expiration, kind, strike], kind, strike, expiration, underlying:
\* the stated cross-checks or None, shares: None, Bad or a number, facts: [group -> None, Bad or [value, observed, date]]].
MapContract(item) ==
    [item EXCEPT !.facts = [g \in FactGroups |->
        IF g \in MappedTimes \/ item.facts[g] \in {None, Bad} THEN item.facts[g]
        ELSE [item.facts[g] EXCEPT !.observed = None, !.date = None]]]

\* _in_scope looks at the stated type and expiration: an item that states neither passes.
InScope(item) ==
    /\ item.kind \in {"call", "put"} => item.kind \in Types
    /\ item.expiration \notin {None, Bad} => /\ From # None => item.expiration >= From
                                             /\ Through # None => item.expiration <= Through

\* _contract: the first reason that keeps a record out; "ok" otherwise.
IdentityReason(r) ==
    IF r.symbol = None THEN "malformed_record"
    ELSE IF r.kind # None /\ r.kind \notin {"call", "put"} THEN "unsupported_option_type"
    ELSE IF r.kind # None /\ r.kind # r.symbol.kind THEN "identity_mismatch"
    ELSE IF Bad \in {r.strike, r.expiration} THEN "malformed_record"
    ELSE IF r.symbol.strike <= 0 \/ (r.strike # None /\ r.strike <= 0) THEN "invalid_strike"
    ELSE IF \/ r.strike \notin {None, r.symbol.strike} \/ r.expiration \notin {None, r.symbol.expiration}
            \/ r.underlying \notin {None, Underlying} THEN "identity_mismatch"
    ELSE "ok"
RecordReason(r) ==
    IF IdentityReason(r) # "ok" THEN IdentityReason(r)
    ELSE IF r.shares = Bad \/ \E g \in FactGroups : r.facts[g] = Bad THEN "malformed_record"
    ELSE IF r.symbol.expiration < DayOfInstant(AsOf) THEN "expired_before_as_of" ELSE "ok"

\* _group
After(f) == (f.observed # None /\ f.observed > AsOf) \/ (f.date # None /\ f.date > DayOfInstant(AsOf))
Basis(f) == IF f.observed # None THEN "observed_at"
            ELSE IF f.date # None THEN "provider_as_of_date" ELSE "provider_snapshot_unverified"
Blank(status) == [status |-> status, value |-> None, observed |-> None, date |-> None, basis |-> "unavailable"]
Fact(g, f, unavailable) ==
    IF g \in unavailable THEN Blank("unavailable")
    ELSE IF f = None THEN Blank("missing")
    ELSE IF f.value = None THEN Blank("missing")
    ELSE IF After(f) THEN Blank("excluded_after_as_of")
    ELSE [status |-> "present", value |-> f.value, observed |-> f.observed, date |-> f.date, basis |-> Basis(f)]
Contract(r, unavailable) ==
    [id |-> r.symbol, shares |-> r.shares, facts |-> [g \in FactGroups |-> Fact(g, r.facts[g], unavailable)]]
Excluded(c) == Cardinality({g \in FactGroups : c.facts[g].status = "excluded_after_as_of"})

\* SnapshotAssemblyError: data for a group declared unavailable, met before the record is found malformed.
AssemblyRaises(records, unavailable) ==
    \E i \in DOMAIN records : LET r == records[i] IN
        /\ IdentityReason(r) = "ok" /\ r.shares # Bad
        /\ \E k \in DOMAIN GroupOrder : /\ GroupOrder[k] \in unavailable /\ r.facts[GroupOrder[k]] # None
                                        /\ \A j \in 1..(k - 1) : r.facts[GroupOrder[j]] # Bad

\* _underlying_price
PriceBlock(price) == IF price = None \/ price.observed > AsOf THEN [status |-> "unavailable", value |-> None, observed |-> None]
                     ELSE [status |-> "present", value |-> price.value, observed |-> price.observed]

\* assemble: identical copies keep one, conflicting copies none.  The canonical order makes contracts a set.
BuiltContracts(records, unavailable) ==
    [i \in {k \in DOMAIN records : RecordReason(records[k]) = "ok"} |-> Contract(records[i], unavailable)]
Agreed(built) == {i \in DOMAIN built : \A j \in DOMAIN built : built[j].id = built[i].id => built[j] = built[i]}
SealedSnapshot(records, unavailable, price, truncated, built, agreed) ==
    LET contracts == {built[i] : i \in agreed}
        count(reason) ==
            CASE reason = "identity_conflict" -> Cardinality(DOMAIN built \ agreed)
              [] reason = "duplicate_identical" -> Cardinality(agreed) - Cardinality(contracts)
              [] reason = "fact_after_as_of" -> SumFunction([c \in contracts |-> Excluded(c)])
              [] OTHER -> Cardinality({i \in DOMAIN records : RecordReason(records[i]) = reason})
        reasons == {r \in RecordExclusions \cup {"fact_after_as_of"} : count(r) > 0}
    IN [sealed |-> TRUE, underlying |-> Underlying, asOf |-> AsOf, session |-> DayOfInstant(AsOf),
        price |-> PriceBlock(price), contracts |-> contracts, exclusions |-> [r \in reasons |-> count(r)],
        received |-> Len(records), truncated |-> truncated, unavailable |-> unavailable]
AssembleBuilt(records, unavailable, price, truncated, built) ==
    SealedSnapshot(records, unavailable, price, truncated, built, Agreed(built))
AssembleSnapshot(records, unavailable, price, truncated) ==
    AssembleBuilt(records, unavailable, price, truncated, BuiltContracts(records, unavailable))

\* validated_snapshot
ValidFact(f, unavailable) ==
    /\ (f.status = "unavailable") = unavailable
    /\ f.status # "present" => f = Blank(f.status)
    /\ f.status = "present" =>
         /\ f.value # None /\ (f.observed # None) = (f.basis = "observed_at")
         /\ f.observed # None => f.observed <= AsOf
         /\ f.basis = "provider_as_of_date" => f.date # None
         /\ f.basis = "provider_snapshot_unverified" => f.date = None
         /\ f.date # None => f.date <= DayOfInstant(AsOf)
ValidSnapshot(s) ==
    /\ s.sealed /\ s.session = DayOfInstant(s.asOf)
    /\ s.price.status = "present" => s.price.value > 0 /\ s.price.observed <= s.asOf
    /\ \A c \in s.contracts : /\ c.id.strike > 0 /\ c.id.expiration >= s.session
                              /\ \A g \in FactGroups : ValidFact(c.facts[g], g \in s.unavailable)
    /\ Cardinality({c.id : c \in s.contracts}) = Cardinality(s.contracts)
    /\ \A r \in DOMAIN s.exclusions : s.exclusions[r] >= 1
    /\ LET count(r) == IF r \in DOMAIN s.exclusions THEN s.exclusions[r] ELSE 0
       IN /\ count("fact_after_as_of") = SumFunction([c \in s.contracts |-> Excluded(c)])
          /\ s.received = Cardinality(s.contracts) + SumFunction([r \in RecordExclusions |-> count(r)])

-----------------------------------------------------------------------------
OptionsInit(vendors) ==
    /\ pages \in vendors
    /\ fetched = 0 /\ requests = 0 /\ attempt = 0 /\ chain = "fetching" /\ received = <<>>

Stop(why) == chain' = why /\ UNCHANGED <<pages, received, attempt>>

\* get_json: the budget is looked at before every attempt.  One that runs out after a page leaves a partial chain.
BudgetSpent == /\ chain = "fetching" /\ requests = MaxRequests
               /\ Stop(IF fetched > 0 THEN "truncated" ELSE "budget")
               /\ UNCHANGED <<fetched, requests>>
SendRequest == chain = "fetching" /\ requests < MaxRequests /\ requests' = requests + 1

\* Mutant: the last page allowed ends the chain, whatever its link says.
PageRead_LimitCompletes ==
    /\ SendRequest /\ UNCHANGED pages
    /\ fetched' = fetched + 1
    /\ received' = received \o pages[fetched + 1].items
    /\ attempt' = 0
    /\ chain' = IF pages[fetched + 1].next = "none" \/ fetched + 1 >= MaxPages THEN "complete" ELSE "fetching"
\* get_chain on a 200: payload, scope, then the link; a foreign link fails even on the last page allowed.
PageRead ==
    /\ SendRequest
    /\ fetched' = fetched + 1
    /\ LET page == pages[fetched + 1] IN
       IF page.items = Bad THEN Stop("payload")
       ELSE IF \E i \in DOMAIN page.items : ~InScope(page.items[i]) THEN Stop("scope")
       ELSE /\ received' = received \o page.items
            /\ attempt' = 0 /\ UNCHANGED pages
            /\ chain' = IF page.next = "none" THEN "complete"
                        ELSE IF page.next = "foreign" THEN "pagination"
                        ELSE IF fetched + 1 >= MaxPages THEN "truncated" ELSE "fetching"
PageRetried == /\ SendRequest /\ attempt < MaxRetries
               /\ attempt' = attempt + 1 /\ UNCHANGED <<pages, fetched, chain, received>>
PageRefused == /\ SendRequest /\ UNCHANGED fetched
               /\ \E kind \in {"auth", "http"} \cup (IF attempt = MaxRetries THEN {"transport", "rate_limit"} ELSE {}) : Stop(kind)
OptionsNext == BudgetSpent \/ PageRead \/ PageRetried \/ PageRefused

\* The ChainResult of a finished retrieval, and the snapshot the runner writes.
Retrieved == chain \in {"complete", "truncated"}
Records == [i \in DOMAIN received |-> MapContract(received[i])]
UnavailableGroups == {g \in {"quote", "trade"} : \A i \in DOMAIN received : received[i].facts[g] = None}
Snapshot == AssembleSnapshot(Records, UnavailableGroups, None, chain = "truncated")

(* A written snapshot is complete or says so: it claims the whole chain only when the vendor's last page
   was read, within the page limit and the budget; and a chain outside the host or the scope is never one. *)
PartialIsMarked ==
    Retrieved => /\ IF Snapshot.truncated THEN pages[fetched].next = "same"
                    ELSE fetched > 0 /\ pages[fetched].next = "none"
                 /\ received = FlattenSeq([i \in 1..fetched |-> pages[i].items])
                 /\ fetched <= MaxPages /\ requests <= MaxRequests
                 /\ \A i \in DOMAIN received : InScope(received[i])

KeepsNoConflict(records, unavailable, s) ==
    /\ ValidSnapshot(s)
    /\ \A i, j \in DOMAIN records :
          /\ RecordReason(records[i]) = "ok" /\ RecordReason(records[j]) = "ok" /\ records[i].symbol = records[j].symbol
          /\ Contract(records[i], unavailable) # Contract(records[j], unavailable)
          => records[i].symbol \notin {c.id : c \in s.contracts}
(* assemble agrees with its own validator on everything a vendor can send, and what is kept does not depend on
   the order of the records; two records that disagree about one contract keep none of it. *)
SnapshotSound(records, unavailable, price) ==
    ~AssemblyRaises(records, unavailable) =>
       /\ KeepsNoConflict(records, unavailable, AssembleSnapshot(records, unavailable, price, FALSE))
       /\ AssembleSnapshot(records, unavailable, price, FALSE) = AssembleSnapshot(Reverse(records), unavailable, price, FALSE)
SealedChain == Retrieved => ~AssemblyRaises(Records, UnavailableGroups) /\ SnapshotSound(Records, UnavailableGroups, None)
==================================================================================
