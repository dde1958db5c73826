SPECIFICATION Spec
CONSTANTS
    N = 4
    Handles <- MCHandles
    Key <- MCKey
    Septs <- MCSepts
    Null = 0
    Wild = 99
    NoHandle = 0
    Loads <- MCLoads
    MaxOps = 3
INVARIANT ReserveSuffices
INVARIANT WellFormed
INVARIANT FindsMembers
PROPERTY ImplementsSet
CHECK_DEADLOCK FALSE
