CONSTANTS
    k1 = k1
    t1 = t1
    t2 = t2
    Keys <- MCKeys
    Threads <- MCThreads
    Text = Text
    MinInt <- MCMinInt
    MaxInt = 1
    Inputs <- MCInputs
    Present <- Both
    Faulty <- Both
    MaxWrites = 3
SPECIFICATION Spec
SYMMETRY Symmetry
INVARIANTS TypeOK SettledAgree OncePerStore
