CONSTANTS
    FdWatchers = {w1}
    BidiWatchers = {b1}
    SigWatchers = {s1}
    Backends <- Both
    Readiness <- NoneOrBoth
    MultiThreaded = TRUE
    Client <- Careful
    None = None
SPECIFICATION FairSpec
INVARIANTS NoStrandedWatch EnabledIsOwned SignalsContained
PROPERTIES WatchedIsReported
