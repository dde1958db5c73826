SPECIFICATION FairSpec
CONSTANTS
    Hangup = FALSE
    DisablesInPoll = FALSE
    Threads = 3
INVARIANTS
    HalfOnce
    RemovedIsGone
    RemovedHalfIsQuiet
PROPERTIES
    ImplementsContract
    DeregisterCompletes
