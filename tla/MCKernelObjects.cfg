CONSTANTS
    t1 = t1
    t2 = t2
    m1 = m1
    s1 = s1
    e1 = e1
    c1 = c1
    Threads <- MCThreads
    Mutexes <- MCMutexes
    Semaphores <- MCSemaphores
    Events <- MCEvents
    Timers <- MCTimers
    None = None
    ThreadPrioLowest = 3
    InitPriority <- MCInitPriority
    Priorities = {0}
    NumCores = 1
    CoreOf <- MCCoreOf
    ProcessOf <- MCProcessOf
    ThreadList <- MCThreadList
    MutexOrder <- MCMutexOrder
    ResetType <- MCResetType
    MaxCount <- MCMaxCount
    WaitTargets <- MCWaitTargets
    SelfWait = FALSE
    HandleLists <- MCHandleLists
    MaxLock = 2
SPECIFICATION Spec
CHECK_DEADLOCK FALSE
INVARIANTS
    NoLostWakeup
    ResultMatchesOwnership
    AssertionsHold
