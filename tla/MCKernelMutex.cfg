CONSTANTS
    t1 = t1
    t2 = t2
    t3 = t3
    m1 = m1
    m2 = m2
    e1 = e1
    Threads <- MCThreads
    Mutexes <- MCMutexes
    Semaphores = {}
    Events = {}
    Timers = {}
    None = None
    ThreadPrioLowest = 3
    InitPriority <- MCInitPriority
    Priorities = {1}
    NumCores = 2
    CoreOf <- MCCoreOf
    ProcessOf <- MCProcessOf
    ThreadList <- MCThreadList
    MutexOrder <- MCMutexOrder
    ResetType <- MCResetType
    MaxCount <- MCMaxCount
    WaitTargets <- MCMutexes
    SelfWait = FALSE
    HandleLists <- MCMutexLists
    MaxLock = 1
SPECIFICATION Spec
CHECK_DEADLOCK FALSE
INVARIANTS
    NoLostWakeup
    WaitListsMatch
    MutexOwnership
    PriorityExact
    DirectInheritance
