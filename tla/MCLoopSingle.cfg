SPECIFICATION Spec
CONSTANTS
    t1 = t1
    t2 = t2
    w1 = w1
    w2 = w2
    NoThread = NoThread
    NoWatcher = NoWatcher
    Threads <- OneThread
    Watchers <- FdAndFile
    Emulated <- OneFile
    Hangup <- NoneOf
    Limit <- OneEvent
    MaxNodes = 2
    Client <- DeletesItself
INVARIANT
    NoStrandedEvent
