CONSTANTS
    NumCores = 2
    MaxSlice = 2
    MinDelay = 1
    Overshoot = 1
    Events = {"e"}
    Periodic = {"vblank"}
    Interval = 2
    Delays = {0, 3}
    Slots = {1}
    MaxLoads = 1
SPECIFICATION LoopSpec
INVARIANTS
    NoEventInsideSlice
    ClocksTogether
    HostEventInTime
PROPERTIES
    RequestAnswered
    EventsFire
