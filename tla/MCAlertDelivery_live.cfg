\* Two invocations with a provider call that may be tried twice.  No symmetry:
\* a liveness property is checked.  The system stops when all have ended.
SPECIFICATION FairSpec
CONSTANTS
    Process = {p1, p2}
    Alert = {a}
    None = None
    Failed = Failed
    MaxAttempts = 2
    MaxRaces = 1
    MaxLosses = 1
CHECK_DEADLOCK FALSE
PROPERTY Terminates
