SPECIFICATION Spec
CONSTANTS
 DayLength = 24
 Hours <- MCHours
 PreOpen = 4
 PostLength = 4
 LastOffer = 20
 Fine = 2
 None = None
 Bad = Bad
 Torn = Torn
 Quantum = 100
 Primary = meta
 Benchmark = spy
 Delay = 1
 MaxRetries = 1
 MinInterval = 1
 Backoff = 1
 Fallback = 2
 MaxWait = 3
 MaxPages = 2
 PageSize = 5
 Latency = 1
 Runs = {"a", "b"}
 Symbols <- TwoRuns
 Labels <- Frozen
 WarmupSessions <- Warm
 FreezeTime = 36
 StartTimes = {63, 106}
 Restatable <- Restated
 Writers = {"a", "b", "c"}
 Paths = {"p", "q"}
 Outputs <- TwoFiles
 Overwrite = {"c"}
 NoRun = NoRun
 Workers = {"a", "b"}
 Undated = None
 Recent = 0
 DedupTtl = 1
 HeadlineTtl = 1
 FedMaxAge = 1
 MaxSends = 2
 AlertAt = 70
 DisplayAt = 40
 Penalties = {15}
 LastSecond = 2
 MaxFaults = 2
 MaxCycles = 2
 Resolvers = {"a", "b"}
 Authoritative = {1, 2}
 Nothing = None
 MaxTakes = 2
 MaxLosses = 1
 MaxMishaps = 1
 Symbol = "X"
 AsOf = 2
 Lookback = 3
 Horizon = 3
 MaxObserved = 2
 MaxWrites = 3
 DayOfInstant <- PacketDay
 Event <- PacketEvent
 Snapshots0 <- PacketSnapshots
 MatrixSymbols = {"X"}
 PeriodLabels = {"A", "B"}
 MatrixIntervals = {"1d"}
 PivotWindows = {2}
 Split = "A"
 HalfLabel <- TwoHalves
 MaxMatrixRequests = 3
 MaxAttempts = 2
 Arguments <- FourWays
INVARIANTS FeedSound LoaderSound OptionsSound EvidenceSound SetupsSound ProtocolSound StatisticsSound
 OutputsSound EngineSound LedgerSound CollectorsSound IdentitySound MatrixSound
CHECK_DEADLOCK FALSE
