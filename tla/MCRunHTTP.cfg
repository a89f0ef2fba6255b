CONSTANTS
    Kinds <- AllKinds
    NumServices = 3
    NumClosers = 3
    NilClosers <- MCNilClosers
    MaxHandlers = 1
SPECIFICATION HTTPSpec
INVARIANTS HTTPTypeOK CloseAfterWork ReleasedInReverse NilMeansClean
PROPERTIES SignalReturns StoppableReturns
