SPECIFICATION Spec
CONSTANTS
    Artifact <- ArtifactDef
    Kind <- KindDef
    AsOf <- AsOfDef
    KindNames <- KindNamesDef
    Query <- QueryDef
    Limit = 1
    Publisher = {p1, p2}
    Refresher = {r1, r2}
    MaxFaults = 1
    MaxCrashes = 1
    None = None
    setups = setups
INVARIANTS
    PagesJoin
    PublicationSound
SYMMETRY Symmetry
PROPERTIES
    IndexGrows
