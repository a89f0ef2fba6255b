CONSTANTS
    t1 = t1
    t2 = t2
    x1 = x1
    c1 = c1
    Keys <- MCKeys
    Threads <- MCThreads
    Tokens <- MCTokens
    Clients <- MCClients
    Text = Text
    MinInt <- MCMinInt
    MaxInt = 1
    Prefix <- MCPrefix
    Milli = 3
    Second = 6
    ServiceTTLs <- MCServiceTTLs
    Requested <- MCRequested
    Inputs <- MCInputs
    TTLs <- MCTTLs
    Deltas <- MCDeltas
    MaxClock = 14
SYMMETRY Symmetry
SPECIFICATION Spec
INVARIANTS TypeOK DeadStaysDead TokenLifetime
PROPERTY RedisImplementsContract
