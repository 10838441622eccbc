SPECIFICATION FairSpec
CONSTANTS
    A = A
    B = B
    v = v
    Names = {A, B}
    Values = {v}
    Half = 4
    Absent = Absent
    Nil = Nil
    NoHandler = NoHandler
    MaxRetries = 1
    Handlers = {h1, h2}
    Requests <- AllRequests
    Sinks <- BothSinks
\* Every handler has served its request.
CHECK_DEADLOCK FALSE
INVARIANTS TypeOK CountersAddUp StatusTellsEffect RowsReleased
PROPERTIES ImplementsFallibleStorage EveryRequestAnswered
