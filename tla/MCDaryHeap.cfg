SPECIFICATION HeapSpec
CONSTANTS
    h1 = h1
    h2 = h2
    h3 = h3
    h4 = h4
    h5 = h5
    h6 = h6
    N = 2
    MaxSize = 8
    Handles <- SixHandles
    Prios <- ThreePrios
SYMMETRY HandleSymmetry
INVARIANTS
    IndexAccurate
    RoomReserved
PROPERTIES
    OrderKept
    ImplementsPrioQueue
