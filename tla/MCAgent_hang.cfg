SPECIFICATION FairSpec
CONSTANTS
    NoJob = NoJob
    Gauges = {"Alloc"}
    MemGauges = {}
    CoreGauges = {}
    RateLimit = 1
    QueueCap = 1
    MaxRetries = 0
    MaxPolls = 1
    MaxReports = 1
    MaxSysTicks = 0
\* The agent stops, or hangs (see MCAgent_hang.cfg).
CHECK_DEADLOCK FALSE
PROPERTIES AgentStops
