SPECIFICATION FairSpec
CONSTANTS
    Cap = 2
    MaxSize = 2
    MaxRetries = 1
    MaxAdds = 4
\* Run returns once the channel is closed.
CHECK_DEADLOCK FALSE
INVARIANTS TypeOK InOrder HandledOnce GrowthBounded ExitFlushes
PROPERTIES EveryMetricLeaves
