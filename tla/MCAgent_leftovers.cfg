SPECIFICATION Spec
CONSTANTS
    NoJob = NoJob
    Gauges = {"Alloc"}
    MemGauges = {}
    CoreGauges = {}
    RateLimit = 1
    QueueCap = 2
    MaxRetries = 0
    MaxPolls = 0
    MaxReports = 1
    MaxSysTicks = 0
\* The agent stops, or hangs (see MCAgent_hang.cfg).
CHECK_DEADLOCK FALSE
INVARIANTS LeftoversSent
