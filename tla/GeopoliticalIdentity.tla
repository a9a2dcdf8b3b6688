-------------------------- MODULE GeopoliticalIdentity --------------------------
(***************************************************************************)
(* Which policy action a document belongs to.  The collectors resolve its  *)
(* identity over Redis aliases that expire, with a bounded look at the     *)
(* durable anchor registry when they have; the shadow writers store the    *)
(* versions and register the anchors; and the operator's tools backfill    *)
(* the registry, correct the current versions and audit for divergence.    *)
(*                                                                         *)
(* A digest is the tuple it is taken of.  The processing and delivery      *)
(* leases of one event are EventState's.                                   *)
(***************************************************************************)
EXTENDS Integers, FiniteSets, FiniteSetsExt, Functions

CONSTANTS
    Resolvers,      \* collector processes
    Authoritative,  \* anchors (numbers, in their sorting order) that the registry accepts
    Nothing,        \* no value
    MaxTakes, MaxLosses, MaxMishaps  \* bounds: documents taken, losses of Redis keys, failures

VARIABLES
    documents,   \* what the sources publish
    aliases,     \* in Redis: aliases, policy records and processed events
    resolver,    \* per collector: where it is with which document
    queued,      \* events submitted to the shadow writers
    policies,    \* event history: [root -> its versions, provenance and current version]
    tooOld,      \* versions that were stored without the wish to become current
    registry,    \* [<<anchor, stage>> -> [root, others]]; `others` not empty is status "conflicted"
    mishaps,     \* what went wrong (for the properties)
    correction,  \* the change report of disclosure-correct
    moved,       \* how the corrections moved current versions (for the properties)
    baseline,    \* the groups of a saved audit snapshot, Nothing before it
    used         \* how much of the bounds is used
identityVars == <<documents, aliases, resolver, queued, policies, tooOld, registry, mishaps, correction, moved, baseline, used>>

-----------------------------------------------------------------------------
\* resolve_identity: keys and the candidate root; the first anchor in sorting order names it.
Aliases(d) == {<<"alias", a, d.stage>> : a \in d.anchors} \cup {<<"alias", d.id, d.anchors, d.stage>>}
Candidate(d) == <<Min(d.anchors), d.stage>>
Policy(root) == <<"policy", root>>
Analyzed(root) == <<"processed", root>>
Roots(d) == {aliases[k] : k \in Aliases(d) \cap DOMAIN aliases}

\* normalize_anchor: an anchor the registry does not know how to read is skipped.
Keys(d) == {<<a, d.stage>> : a \in d.anchors \cap Authoritative}
\* AnchorRegistryRepository.lookup: exactly one active root, or nothing.
Looked(d) ==
    LET rows == {registry[k] : k \in Keys(d) \cap DOMAIN registry}
    IN IF rows = {} THEN "miss"
       ELSE IF \E p, q \in rows : p.others # {} \/ p.root # q.root THEN "conflict" ELSE "hit"
LookedRoot(d) == (CHOOSE r \in {registry[k] : k \in Keys(d) \cap DOMAIN registry} : TRUE).root

\* AnchorRegistryRepository.register: a registered root is never rewritten; another one marks the row.
Registered(d, root) ==
    [k \in DOMAIN registry \cup Keys(d) |->
        IF k \notin DOMAIN registry THEN [root |-> root, others |-> {}]
        ELSE IF k \in Keys(d) THEN [registry[k] EXCEPT !.others = @ \cup ({root} \ {registry[k].root})] ELSE registry[k]]

-----------------------------------------------------------------------------
\* geopolitical_promotion.  A version is a document as analyzed, with the publication time its action was known to have.
SameDocument(v, w) == v.doc.id = w.doc.id
SubstantivelyEqual(v, w) == v.doc.action = w.doc.action /\ (SameDocument(v, w) => v.doc.text = w.doc.text)
Disclosed(v, w) == v.doc.precision = w.doc.precision /\ Nothing \notin {v.published, w.published}
Comparable(vs) == \A v, x \in vs : SubstantivelyEqual(v, x) /\ Disclosed(v, x) /\ v.doc.kind = x.doc.kind
Verdict(current, v) ==
    IF current.doc.kind # v.doc.kind THEN "ambiguous"
    ELSE IF SubstantivelyEqual(current, v)
         THEN IF <<current.doc.precision, current.published>> = <<v.doc.precision, v.published>> THEN "cosmetic"
              ELSE IF ~Disclosed(current, v) THEN "ambiguous"
              ELSE IF v.published < current.published THEN "earlier_disclosure" ELSE "disclosure_only"
    ELSE IF ~SameDocument(current, v) \/ ~Disclosed(current, v) \/ v.published = current.published THEN "ambiguous"
    ELSE IF v.published < current.published THEN "older" ELSE "newer_material"
Promotes(current, v) == Verdict(current, v) \in {"earlier_disclosure", "newer_material"}

\* persist_geopolitical: the version, one provenance row per document, and the pointer.
Version(e) == [doc |-> e.doc, published |-> e.published]
Recorded(e) ==
    LET v == Version(e)
        old == policies[e.root]
        moves == v \notin old.versions /\ e.make_current /\ Promotes(old.current, v)
    IN IF e.root \notin DOMAIN policies
       THEN [versions |-> {v}, current |-> v, provenance |-> {v} \X e.provenance]
       ELSE [versions |-> old.versions \cup {v}, current |-> IF moves THEN v ELSE old.current,
             provenance |-> old.provenance \cup ({v} \X e.provenance)]

-----------------------------------------------------------------------------
Free == [pc |-> "idle", doc |-> Nothing, candidate |-> Nothing, event |-> Nothing]
\* worlds: what the sources publish; the events recorded before, the version of each that is current, and whether the Redis
\* keys of all of them are still there.
RedisKeys(e) == Aliases(e.doc) \cup {Policy(e.root), Analyzed(e.root)}
RedisOf(earlier) ==
    [k \in UNION {RedisKeys(e) : e \in earlier} |->
        LET e == CHOOSE x \in earlier : k \in RedisKeys(x)
        IN IF k[1] = "policy" THEN [published |-> e.published, provenance |-> e.provenance]
           ELSE IF k[1] = "processed" THEN e.doc ELSE e.root]
\* What the sources publish has a place in time and numbered anchors; every earlier event is named after one of its action and
\* stage, one action has one root so far, and its current version is the earliest if all can be compared.
Akin(p, q) == p.stage = q.stage /\ p.anchors \cap q.anchors # {}
EventsOf(earlier, root) == {e \in earlier : e.root = root}
WorldsAssumption(worlds) ==
    \A world \in worlds : LET earlier == world.earlier IN
      /\ IsFiniteSet(earlier)
      /\ \A d \in world.documents \cup {e.doc : e \in earlier} : d.anchors \in SUBSET Nat /\ d.published \in Int \cup {Nothing}
      /\ \A e \in earlier : /\ e.published \in Int \cup {Nothing}
                            /\ \E x \in earlier : e.root = Candidate(x.doc) /\ Akin(x.doc, e.doc)
                            /\ \A x \in earlier : Akin(x.doc, e.doc) => x.root = e.root
      /\ \A r \in {e.root : e \in earlier} : LET vs == {Version(e) : e \in EventsOf(earlier, r)} IN
           /\ world.current[r] \in vs
           /\ Comparable(vs) /\ (\A e \in EventsOf(earlier, r) : e.make_current) => \A v \in vs : world.current[r].published <= v.published
IdentityInit(worlds) ==
    /\ \E world \in worlds :
         LET earlier == world.earlier  of(root) == EventsOf(earlier, root)
         IN /\ documents = world.documents
            /\ policies = [r \in {e.root : e \in earlier} |->
                              [versions |-> {Version(e) : e \in of(r)}, current |-> world.current[r],
                               provenance |-> UNION {{Version(e)} \X e.provenance : e \in of(r)}]]
            /\ registry = [k \in UNION {Keys(e.doc) : e \in earlier} |->
                              [root |-> (CHOOSE e \in earlier : k \in Keys(e.doc)).root, others |-> {}]]
            /\ tooOld = {<<e.root, e.doc, e.published>> : e \in {x \in earlier : ~x.make_current}}
            /\ aliases = RedisOf(IF world.live THEN earlier ELSE {})
            /\ mishaps = IF world.live THEN {} ELSE {"expired"}
    /\ resolver = [w \in Resolvers |-> Free]
    /\ queued = {} /\ correction = {} /\ moved = {} /\ baseline = Nothing
    /\ used = [takes |-> 0, losses |-> 0, faults |-> 0, corrections |-> 0]

Proceed(w, pc) == resolver' = [resolver EXCEPT ![w].pc = pc]
Spend(what, bound) == used[what] < bound /\ used' = [used EXCEPT ![what] = @ + 1]
Mishap(kinds) == Spend("faults", MaxMishaps) /\ mishaps' = mishaps \cup kinds
Untroubled == UNCHANGED <<used, mishaps>>
toolVars == <<correction, moved, baseline>>
durableVars == <<policies, tooOld, registry, toolVars>>

\* A relevant, fresh document is taken; one without an anchor stays unresolved and is withheld.
Take(w) == /\ resolver[w].pc = "idle"
           /\ \E d \in documents : d.anchors # {} /\ resolver' = [resolver EXCEPT ![w] = [Free EXCEPT !.pc = "check", !.doc = d]]
           /\ Spend("takes", MaxTakes)
           /\ UNCHANGED <<documents, aliases, queued, mishaps, durableVars>>

\* _durable_candidate: Redis first; the registry is asked only when no alias is there.
Check(w) == /\ resolver[w].pc = "check"
            /\ LET d == resolver[w].doc
               IN resolver' = [resolver EXCEPT ![w].candidate = Candidate(d), ![w].pc = IF Roots(d) # {} THEN "resolve" ELSE "lookup"]
            /\ Untroubled /\ UNCHANGED <<documents, aliases, queued, durableVars>>

\* The documents whose events are stored, and those whose events are on their way to the history.
Persisted == UNION {{v.doc : v \in policies[r].versions} : r \in DOMAIN policies}
Carried == {e.doc : e \in queued \cup {resolver[x].event : x \in {y \in Resolvers : resolver[y].pc = "process"}}}
\* DurableIdentityLookup.lookup: a timeout, an error, a busy executor and a conflict all leave the candidate as it is.
Lookup(w) ==
    /\ resolver[w].pc = "lookup"
    /\ LET d == resolver[w].doc
           hidden(p) == Akin(p, d) /\ Keys(p) \cap Keys(d) = {}
           noted == (IF Looked(d) = "conflict" THEN {"conflict"} ELSE {})
                    \cup (IF \E p \in Carried : Keys(p) \cap Keys(d) # {} THEN {"lag"} ELSE {})
                    \cup (IF \E p \in Carried \cup Persisted : hidden(p) THEN {"unknown"} ELSE {})
       IN \/ /\ Looked(d) = "hit"
             /\ resolver' = [resolver EXCEPT ![w].candidate = LookedRoot(d), ![w].pc = "resolve"] /\ Untroubled
          \/ /\ Looked(d) # "hit" /\ Proceed(w, "resolve") /\ UNCHANGED used
             /\ mishaps' = mishaps \cup noted
          \/ Proceed(w, "resolve") /\ Mishap({"lookup"})
    /\ UNCHANGED <<documents, aliases, queued, durableVars>>

\* The RESOLVE script: atomic; a policy record keeps the earliest publication known and every document;
Merged(d, root) ==
    LET known == Policy(root) \in DOMAIN aliases
        old == aliases[Policy(root)]
    IN [published |-> IF ~known THEN d.published ELSE IF Nothing \in {old.published, d.published}
                      THEN (IF old.published = Nothing THEN d.published ELSE old.published) ELSE Min({old.published, d.published}),
        provenance |-> {d.id} \cup IF known THEN old.provenance ELSE {}]
Named(d, root) ==
    [k \in DOMAIN aliases \cup Aliases(d) \cup {Policy(root)} |->
        IF k = Policy(root) THEN Merged(d, root) ELSE IF k \in Aliases(d) THEN root ELSE aliases[k]]
EventOf(d, root) == [doc |-> d, root |-> root, published |-> Merged(d, root).published,
                     provenance |-> Merged(d, root).provenance, make_current |-> TRUE]
\* aliases that name two roots withhold the document.
Resolve(w) ==
    /\ resolver[w].pc = "resolve"
    /\ LET d == resolver[w].doc
           root == IF Roots(d) = {} THEN resolver[w].candidate ELSE CHOOSE r \in Roots(d) : TRUE
       IN IF \E p, q \in Roots(d) : p # q
          THEN resolver' = [resolver EXCEPT ![w] = Free] /\ UNCHANGED aliases
          ELSE /\ aliases' = Named(d, root)
               /\ resolver' = [resolver EXCEPT ![w].pc = "process", ![w].event = EventOf(d, root)]
    /\ Untroubled /\ UNCHANGED <<documents, queued, durableVars>>

\* _process: an action whose earliest publication is too old is only copied; a processed one keeps its first analysis;
\* another process may be at it, or Redis may fail: nothing is copied.
Process(w) ==
    /\ resolver[w].pc = "process" /\ resolver' = [resolver EXCEPT ![w] = Free]
    /\ LET e == resolver[w].event
           cached == Analyzed(e.root) \in DOMAIN aliases
       IN \/ queued' = queued \cup {[e EXCEPT !.make_current = FALSE]} /\ UNCHANGED aliases
          \/ cached /\ queued' = queued \cup {[e EXCEPT !.doc = aliases[Analyzed(e.root)]]} /\ UNCHANGED aliases
          \/ /\ ~cached /\ queued' = queued \cup {e}
             /\ aliases' = [k \in DOMAIN aliases \cup {Analyzed(e.root)} |-> IF k = Analyzed(e.root) THEN e.doc ELSE aliases[k]]
          \/ UNCHANGED <<queued, aliases>>
       /\ mishaps' = mishaps \cup IF queued' = queued THEN {"unsaved"} ELSE {}
    /\ UNCHANGED <<documents, used, durableVars>>

\* Keys expire, one or all of them.
Lose == /\ Spend("losses", MaxLosses)
        /\ mishaps' = mishaps \cup {"expired"} \cup {"window" : w \in {x \in Resolvers : resolver[x].pc = "resolve"}}
        /\ \E gone \in {{k} : k \in DOMAIN aliases} \cup {DOMAIN aliases} :
             gone # {} /\ aliases' = [k \in DOMAIN aliases \ gone |-> aliases[k]]
        /\ UNCHANGED <<documents, resolver, queued, durableVars>>

-----------------------------------------------------------------------------
\* A shadow writer's transaction; the registry is written in a savepoint whose failure loses only that.
Persist ==
    /\ \E e \in queued :
         /\ queued' = queued \ {e}
         /\ policies' = [r \in DOMAIN policies \cup {e.root} |-> IF r = e.root THEN Recorded(e) ELSE policies[r]]
         /\ tooOld' = tooOld \cup
              IF ~e.make_current /\ (e.root \in DOMAIN policies => Version(e) \notin policies[e.root].versions)
              THEN {<<e.root, e.doc, e.published>>} ELSE {}
         /\ \/ registry' = Registered(e.doc, e.root) /\ Untroubled
            \/ UNCHANGED registry /\ Mishap({"registry", "unrecorded"})
    /\ UNCHANGED <<documents, aliases, resolver, toolVars>>
\* The queue was full, the database away, the process gone.
Drop == /\ \E e \in queued : queued' = queued \ {e}
        /\ Mishap({"unsaved"})
        /\ UNCHANGED <<documents, aliases, resolver, durableVars>>

\* backfill_geopolitical_anchor_registry: every version's anchors under its own root, in the order the events were first `seen`.
Backfilled(seen) ==
    LET roots(k) == {r \in DOMAIN policies : \E v \in policies[r].versions : k \in Keys(v.doc)}
        eldest(k) == CHOOSE r \in roots(k) : \A q \in roots(k) : seen[r] <= seen[q]
        row(k) == IF k \in DOMAIN registry THEN registry[k] ELSE [root |-> eldest(k), others |-> {}]
    IN [k \in DOMAIN registry \cup UNION {Keys(d) : d \in Persisted} |-> [row(k) EXCEPT !.others = @ \cup (roots(k) \ {row(k).root})]]
Backfill == /\ "unrecorded" \in mishaps /\ mishaps' = mishaps \ {"unrecorded"}
            /\ \E seen \in Injection(DOMAIN policies, 1..Cardinality(DOMAIN policies)) : registry' = Backfilled(seen)
            /\ UNCHANGED <<documents, aliases, resolver, queued, policies, tooOld, toolVars, used>>

\* audit_disclosure_pointers: events whose current version is not the earliest disclosure of the same substance.
Earlier(root) ==
    LET c == policies[root].current
    IN {v \in policies[root].versions \ {c} : SubstantivelyEqual(c, v) /\ Disclosed(c, v) /\ v.published < c.published}
Flagged == {[root |-> r, from |-> policies[r].current,
             to |-> CHOOSE v \in Earlier(r) : \A o \in Earlier(r) : v.published <= o.published, outcome |-> "proposed"] :
            r \in {x \in DOMAIN policies : Earlier(x) # {}}}
AuditPointers == /\ correction = {} /\ Flagged # {} /\ correction' = Flagged
                 /\ Spend("corrections", 1)
                 /\ UNCHANGED <<documents, aliases, resolver, queued, policies, tooOld, registry, mishaps, moved, baseline>>
\* _compare_and_set, under the event's row lock.
\* Mutant: the pointer is set without reading it again.
CompareAndSet_Blind(c, from, to, by) ==
    /\ policies' = [policies EXCEPT ![c.root].current = to]
    /\ moved' = moved \cup {[root |-> c.root, from |-> policies[c.root].current, to |-> to, by |-> by]}
    /\ correction' = (correction \ {c}) \cup {[c EXCEPT !.outcome = by]}
CompareAndSet(c, from, to, by) ==
    LET now == policies[c.root].current
        outcome == IF now = to THEN "already" ELSE IF now # from THEN "skipped_changed" ELSE by
    IN /\ policies' = IF outcome = by THEN [policies EXCEPT ![c.root].current = to] ELSE policies
       /\ moved' = moved \cup IF outcome = by THEN {[root |-> c.root, from |-> now, to |-> to, by |-> by]} ELSE {}
       /\ correction' = (correction \ {c}) \cup {[c EXCEPT !.outcome = outcome]}
Correct == /\ \E c \in correction : c.outcome = "proposed" /\ CompareAndSet(c, c.from, c.to, "changed")
           /\ Untroubled /\ UNCHANGED <<documents, aliases, resolver, queued, tooOld, registry, baseline>>
Revert == /\ \E c \in correction : c.outcome = "changed" /\ CompareAndSet(c, c.to, c.from, "reverted")
          /\ Untroubled /\ UNCHANGED <<documents, aliases, resolver, queued, tooOld, registry, baseline>>

\* _groups: events that share an anchor or a document within a stage, or across stages only.
Stages(r) == {v.doc.stage : v \in policies[r].versions}
AnchorsOf(r) == UNION {v.doc.anchors : v \in policies[r].versions}
DocumentsOf(r) == {v.doc.id : v \in policies[r].versions} \cup {p[2] : p \in policies[r].provenance}
Sharing(value, facts, stage) == {r \in DOMAIN facts : value \in facts[r] /\ (stage # Nothing => stage \in Stages(r))}
AllStages == UNION {Stages(r) : r \in DOMAIN policies}
GroupsBy(facts, exact) ==
    LET values == UNION {facts[r] : r \in DOMAIN facts} IN
    {[classification |-> exact, events |-> Sharing(x, facts, s)] : x \in values, s \in AllStages}
    \cup {[classification |-> "informational_only", events |-> g] :
            g \in {h \in {Sharing(x, facts, Nothing) : x \in values} : ~\E s \in AllStages : \A r \in h : s \in Stages(r)}}
Rank == [exact_authoritative_anchor |-> 1, shared_document_id |-> 2, informational_only |-> 3]
Groups ==
    LET all == {g \in GroupsBy([r \in DOMAIN policies |-> AnchorsOf(r)], "exact_authoritative_anchor")
                      \cup GroupsBy([r \in DOMAIN policies |-> DocumentsOf(r)], "shared_document_id") : \E r, q \in g.events : r # q}
    IN {g \in all : \A h \in all : h.events = g.events => Rank[g.classification] <= Rank[h.classification]}
SaveSnapshot == /\ baseline = Nothing /\ DOMAIN policies # {} /\ baseline' = Groups
                /\ Untroubled /\ UNCHANGED <<documents, aliases, resolver, queued, policies, tooOld, registry, correction, moved>>
\* compare_identity_audits
Acceptable == ~\E g \in Groups \ baseline : g.classification = "exact_authoritative_anchor"

IdentityNext == \/ \E w \in Resolvers : Take(w) \/ Check(w) \/ Lookup(w) \/ Resolve(w) \/ Process(w)
                \/ Lose \/ Persist \/ Drop \/ Backfill \/ AuditPointers \/ Correct \/ Revert \/ SaveSnapshot

-----------------------------------------------------------------------------
Diverged(r, q, anchors) ==
    r # q /\ \E v \in policies[r].versions, x \in policies[q].versions :
                v.doc.stage = x.doc.stage /\ v.doc.anchors \cap x.doc.anchors \cap anchors # {}

(* One action has one root: two events of a stage that share an instrument only after Redis lost a key and then either the
   registry could not say (a failed lookup; a registration that failed, was never submitted, was dropped or still queued), or
   the key went between the check and the script, or the two shared only instruments the registry cannot read, or a document
   named those of two established actions. *)
Bridged == \E d, p, q \in documents \cup Persisted : p.anchors \cap q.anchors = {} /\ d.anchors \cap p.anchors # {} /\ d.anchors \cap q.anchors # {}
OneRoot ==
    \A r, q \in DOMAIN policies : Diverged(r, q, Authoritative) =>
       "expired" \in mishaps /\ (mishaps \cap {"lookup", "registry", "unsaved", "lag", "window", "unknown"} # {} \/ Bridged)

(* Wherever the history has diverged the registry knows: the anchor's row is conflicted, so that no lookup answers with
   either root, unless a registration has failed and has not been backfilled; and an active row names the only root. *)
ConflictsRecorded ==
    "unrecorded" \notin mishaps =>
      \A r \in DOMAIN policies : \A v \in policies[r].versions : \A k \in Keys(v.doc) :
        k \in DOMAIN registry /\ (registry[k].root = r \/ r \in registry[k].others)

(* The earliest known disclosure wins whatever the order of observation, as long as all versions say the same and can be
   compared, and none was stored as already too old. *)
EarliestWins ==
    \A r \in DOMAIN policies : LET vs == policies[r].versions IN
      (/\ Comparable(vs)
       /\ \A v \in vs : <<r, v.doc, v.published>> \notin tooOld
       /\ ~\E m \in moved : m.root = r /\ m.by = "reverted")
      => \A v \in vs : policies[r].current.published <= v.published

(* A correction only ever moves an event to an earlier disclosure of the same substance than the one it had at that moment,
   whatever was stored since the audit, and a revert only undoes a correction that still stands. *)
CorrectionsGuarded ==
    \A m \in moved : /\ m.by = "changed" => SubstantivelyEqual(m.from, m.to) /\ Disclosed(m.from, m.to) /\ m.to.published < m.from.published
                     /\ m.by = "reverted" => [m EXCEPT !.from = m.to, !.to = m.from, !.by = "changed"] \in moved

(* An accepted comparison means no new divergence: every pair that shares an anchor within a stage is in some exact group,
   which an event of another stage cannot mask, and no such pair is new since the snapshot. *)
InExact(groups, r, q) == \E g \in groups : g.classification = "exact_authoritative_anchor" /\ {r, q} \subseteq g.events
AcceptanceTrue ==
    \A r, q \in DOMAIN policies : LET all == AnchorsOf(r) \cup AnchorsOf(q) IN
      Diverged(r, q, all) => /\ InExact(Groups, r, q)
                             /\ baseline # Nothing => (Acceptable => InExact(baseline, r, q))
IdentitySound == OneRoot /\ ConflictsRecorded /\ EarliestWins /\ CorrectionsGuarded /\ AcceptanceTrue
=============================================================================
