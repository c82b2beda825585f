SPECIFICATION Spec
CONSTANTS
    Reload = 9
    Window = 3
    Latency = 2
    Pause = 9
    MaxNow = 34
    Range64 = 64
CHECK_DEADLOCK FALSE
PROPERTIES
    ReadsTheClock
    DelayLongEnough
