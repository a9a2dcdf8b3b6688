\* docs/phase3-scheduler-orchestration.md:180 says that no grandchild outlives
\* a shutdown.
SPECIFICATION Spec
CONSTANTS
    fed = fed
    news = news
    Collector = {fed, news}
    Forking = {news}
    Interval <- MCInterval
    Timeout <- MCTimeout
    Offset <- MCOffset
    KillGrace = 1
    ShutdownGrace = 1
    Period = 2
    MaxLate = 2
    None = None
CHECK_DEADLOCK FALSE
INVARIANT NoOrphans
