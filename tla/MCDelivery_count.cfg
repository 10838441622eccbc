SPECIFICATION DSpec
CONSTANTS
    NoJob = NoJob
    Gauges = {"Alloc"}
    MemGauges = {}
    CoreGauges = {}
    RateLimit = 1
    QueueCap = 2
    MaxRetries = 0
    MaxPolls = 1
    MaxReports = 2
    MaxSysTicks = 0
\* The agent stops, or hangs (see MCAgent_hang.cfg).
CHECK_DEADLOCK FALSE
INVARIANTS CounterCountsPolls
