CONSTANTS
    t1 = t1
    t2 = t2
    Threads <- MCThreads
    Timed <- MCThreads
    Hello = 2
    ReplyKinds <- MCReplyKinds
    MaxRequests = 3
    MaxConns = 3
SPECIFICATION Spec
INVARIANTS TypeOK ReplyMatches NoLeak
PROPERTY DoReturns
