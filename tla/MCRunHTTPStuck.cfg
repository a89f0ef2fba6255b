CONSTANTS
    Kinds <- CtxKind
    NumServices = 1
    NumClosers = 3
    NilClosers <- MCNilClosers
    MaxHandlers = 0
SPECIFICATION HTTPSpec
PROPERTY FailureReturns
