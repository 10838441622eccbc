SPECIFICATION FairSpec
CONSTANTS
    NoJob = NoJob
    Gauges = {"Alloc"}
    MemGauges = {}
    CoreGauges = {"CPUutilization1"}
    RateLimit = 2
    QueueCap = 2
    MaxRetries = 1
    MaxPolls = 1
    MaxReports = 1
    MaxSysTicks = 0
\* The agent stops, or hangs (see MCAgent_hang.cfg).
CHECK_DEADLOCK FALSE
INVARIANTS TypeOK SafeShutdown JobsAccounted
PROPERTIES EveryJobEnds StopsUnlessFull
