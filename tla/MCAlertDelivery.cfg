\* Three invocations on one alert: receipt sequences and guard keys are per
\* alert.  Every process runs once, so the system stops when all have ended.
SPECIFICATION Spec
CONSTANTS
    Process = {p1, p2, p3}
    Alert = {a}
    None = None
    Failed = Failed
    MaxAttempts = 1
    MaxRaces = 2
    MaxLosses = 1
SYMMETRY Symmetry
CHECK_DEADLOCK FALSE
INVARIANTS
    DuplicateNeedsExcuse
    LeaseProtects
    MarkerProven
    ReportsTrue
PROPERTY RestoreComplete
