SPECIFICATION DSpec
CONSTANTS
    NoJob = NoJob
    Gauges = {"Alloc"}
    MemGauges = {}
    CoreGauges = {"CPUutilization1"}
    RateLimit = 1
    QueueCap = 2
    MaxRetries = 1
    MaxPolls = 0
    MaxReports = 1
    MaxSysTicks = 2
\* The agent stops, or hangs (see MCAgent_hang.cfg).
CHECK_DEADLOCK FALSE
INVARIANTS DTypeOK DuplicatesBounded
PROPERTIES NeverStale
