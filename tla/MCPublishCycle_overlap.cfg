SPECIFICATION Spec
CONSTANTS
    Service = service
    Manual = manual
    Batch = 2
    MaxCycles = 1
    MaxFaults = 0
    None = None
INVARIANT CyclesDoNotOverlap
