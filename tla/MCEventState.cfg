\* Two overlapping workers, an event published before or after the first cycle, and a
\* clock that runs past the expiry of every marker.
SPECIFICATION Spec
CONSTANTS
    w1 = w1
    w2 = w2
    plain = plain
    enriched = enriched
    Worker = {w1, w2}
    Collectors = {"macro", "bls", "treasury", "geopolitical"}
    Published = {0, 1}
    Texts = {plain, enriched}
    MaxAge = 2
    DedupTtl = 1
    Lease = 1
    RetryAfter = 2
    MaxAttempts = 2
    MaxTime = 5
    MaxFaults = 2
    Quiet = Quiet
    Set = Set
    None = None
SYMMETRY Symmetry
INVARIANTS
    DuplicateNeedsExcuse
    OneAnalysis
    CleanCycleDelivers
PROPERTIES
    QueriesSpaced
