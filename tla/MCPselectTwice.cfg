CONSTANTS
    FdWatchers = {}
    BidiWatchers = {}
    SigWatchers = {s1}
    Backends <- Pselect
    Readiness <- NoneOrBoth
    MultiThreaded = FALSE
    Client <- RaisesAgain
    None = None
SPECIFICATION Spec
INVARIANT OneOutstanding
