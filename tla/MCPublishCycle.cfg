SPECIFICATION Spec
CONSTANTS
    Service = service
    Manual = manual
    Batch = 2
    MaxCycles = 2
    MaxFaults = 2
    None = None
INVARIANTS
    UpOnlyOwned
    RecordsTrue
