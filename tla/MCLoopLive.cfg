SPECIFICATION FairSpec
CONSTANTS
    t1 = t1
    t2 = t2
    w1 = w1
    w2 = w2
    NoThread = NoThread
    NoWatcher = NoWatcher
    Threads <- TwoThreads
    Watchers <- OneWatcher
    Emulated <- NoneOf
    Hangup <- NoneOf
    Limit <- Unlimited
    MaxNodes = 2
    Client <- NoneOf
PROPERTY
    DeregisterCompletes
