CONSTANTS
    k1 = k1
    t1 = t1
    t2 = t2
    Keys <- MCKeys
    Threads <- MCThreads
    Text = Text
    MinInt <- MCMinInt
    MaxInt = 5
    Inputs <- MCInputs
    TTLs <- MCTTLs
    Windows <- MCWindows
    Limit = 2
    MaxClock = 2
    MaxWrites = 3
SYMMETRY Symmetry
SPECIFICATION Spec
INVARIANT LimitEnforced
