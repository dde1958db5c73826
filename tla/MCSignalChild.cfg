SPECIFICATION FairSpec
CONSTANTS
    s1 = s1
    c1 = c1
    c2 = c2
    p1 = p1
    p2 = p2
    None = None
    SigWatchers <- OneSignal
    ChildWatchers <- OneChild
    Pids <- TwoPids
    MaxForks = 2
    RelockSafe = TRUE
    Client <- Careful
INVARIANT OneOutstanding
INVARIANT RemovedIsQuiet
INVARIANT StatusIsOwn
INVARIANT SignalsOwnChild
PROPERTY ForkedIsReported
PROPERTY RaisedIsReported
