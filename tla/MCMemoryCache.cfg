CONSTANTS
    k1 = k1
    t1 = t1
    t2 = t2
    Keys <- MCKeys
    Threads <- MCThreads
    Text = Text
    MinInt <- MCMinInt
    MaxInt = 1
    Inputs <- MCInputs
    TTLs <- MCTTLs
    Deltas <- MCDeltas
    MaxClock = 3
    MaxWrites = 2
SYMMETRY Symmetry
SPECIFICATION Spec
INVARIANTS TypeOK TakeOnce ServedBeforeExpired
PROPERTY ImplementsContract
