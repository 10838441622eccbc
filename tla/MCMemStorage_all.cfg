SPECIFICATION FairSpec
CONSTANTS
    A = A
    v0 = v0
    v1 = v1
    Names = {A}
    Values = {v0, v1}
    Half = 2
    Absent = Absent
    Nil = Nil
    NoClient = NoClient
    Clients = {c1, c2}
    Requests <- AllRequests
INVARIANTS TypeOK MapsExclusive SnapshotOfOneInstant
PROPERTIES ImplementsStorage EveryCallReturns
