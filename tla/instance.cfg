SPECIFICATION FairSpec
CONSTANTS
    Writes = {w1, w2}
    Reads = {r1}
    Consumers = {c1}
    Jobs = {j1}
    WriteConcurrency = 1
    Reserved = 0
    PoolSize = 3
    MaxFaults = 1
CHECK_DEADLOCK FALSE
INVARIANTS
    BudgetHolds
    AcceptedFindsAll
    CleanExit
PROPERTIES
    EveryStopEnds
    EveryTaskEnds
