SPECIFICATION DeviceSpec
CONSTANTS
    Causes = {"power", "pin", "brownout"}
    Failing = {"rng", "spi"}
    Word = 4
    Memory = 12
    MaxBase = 3
    MaxSize = 8
    Length = 4
    Idle = {0}
    Ready = {0, 1, 2, 3}
INVARIANTS
    FilledExactly
    WatchdogReported
    RequestReported
    LampShows
PROPERTIES
    DeviceErrorsPass
