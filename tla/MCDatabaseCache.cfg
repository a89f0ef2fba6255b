CONSTANTS
    k1 = k1
    t1 = t1
    t2 = t2
    Keys <- MCKeys
    Threads <- MCThreads
    Text = Text
    MinInt <- MCMinInt
    MaxInt = 1
    Inputs <- MCInputs
    TTLs <- MCTTLs
    Deltas <- MCDeltas
    Drivers <- MCDrivers
    PoolSizes <- MCPoolSizes
    MaxClock = 2
    MaxWrites = 2
SPECIFICATION Spec
INVARIANTS TypeOK TakeOnce NoLostUpdate
PROPERTY OperationsEnd
