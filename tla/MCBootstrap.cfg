CONSTANTS
    Inputs <- MCInputs
    Names <- MCNames
    Extras <- MCExtras
    Runnable <- MCRunnable
    Closable <- MCClosable
    MaxCalls = 2
SPECIFICATION Spec
INVARIANTS TypeOK LoadedAsLayered NothingLeaks ClosedOnceInOrder
CHECK_DEADLOCK FALSE
