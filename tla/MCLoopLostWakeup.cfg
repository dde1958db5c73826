SPECIFICATION Spec
CONSTANTS
    t1 = t1
    t2 = t2
    w1 = w1
    w2 = w2
    NoThread = NoThread
    NoWatcher = NoWatcher
    Threads <- TwoThreads
    Watchers <- OneFile
    Emulated <- OneFile
    Hangup <- NoneOf
    Limit <- Unlimited
    MaxNodes = 2
    Client <- NoneOf
INVARIANT
    NoStrandedEvent
