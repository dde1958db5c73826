SPECIFICATION FairSpec
CONSTANTS
    w1 = w1
    w2 = w2
    w3 = w3
    Handles <- ThreeTimers
    Prios <- AllTimes
    N = 4
    Arms <- MCArms
    Calls <- MCCalls
    Client <- NoHabits
    MaxTime = 3
    Horizon = 5
    MaxIntervals = 1
    MaxLost = 0
    Threads = 2
    Second = 6
    MaxSeconds = 7
INVARIANTS
    TimerfdCovers
    OneOutstanding
    RemovedIsGone
PROPERTIES
    PeriodKept
    ImplementsContract
    DueIsProcessed
