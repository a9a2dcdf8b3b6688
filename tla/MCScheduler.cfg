\* No symmetry: the collectors differ in their offset and in forking.  The scheduler
\* stops for good after a shutdown.
SPECIFICATION Spec
CONSTANTS
    fed = fed
    news = news
    Collector = {fed, news}
    Forking = {news}
    Interval <- MCInterval
    Timeout <- MCTimeout
    Offset <- MCOffset
    KillGrace = 1
    ShutdownGrace = 1
    Period = 2
    MaxLate = 2
    None = None
CHECK_DEADLOCK FALSE
INVARIANTS
    RunsAccounted
    NoDrift
    NoChildOutlives
PROPERTY EverythingEnds
