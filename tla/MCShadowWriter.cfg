SPECIFICATION Spec
CONSTANTS
    w1 = w1
    w2 = w2
    first = first
    second = second
    third = third
    undated = undated
    scored = scored
    enriched = enriched
    None = None
    Writer = {w1, w2}
    Version <- MCVersion
    Outcome = {scored, enriched}
    Facts <- MCFacts
    Material <- MCMaterial
    Time <- MCTime
    Submitted <- MCSubmitted
    Capacity = 1
    MaxSubmits = 3
SYMMETRY Symmetry
INVARIANTS
    StoreWhole
    Accounted
PROPERTY HistoryForward
