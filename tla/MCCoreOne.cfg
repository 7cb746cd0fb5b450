CONSTANTS
    app = app
    sys = sys
    Threads <- MCThreads
    None = None
    Priority <- MCPriority
    ProcessOf <- MCProcessOf
    Category <- MCCategory
    Addresses = {"x", "y"}
    MaxUpdates = 1
SPECIFICATION Spec
CHECK_DEADLOCK FALSE
INVARIANTS
    ArbiterListExact
    OrderKept
    SleepHasWaker
    OneWakeupOnItsWay
    QuietWhenNoAsync
    FailureExplained
PROPERTIES
    SleepsEnd
