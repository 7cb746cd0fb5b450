CONSTANTS
    t1 = t1
    t2 = t2
    Threads <- MCThreads
    None = None
    NumQueues = 3
SPECIFICATION Spec
PROPERTY YieldGivesTurn
