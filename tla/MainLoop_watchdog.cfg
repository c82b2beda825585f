SPECIFICATION FairSpec
CONSTANTS
    Period = 3
    Timeout = 10
    BootTime = 1
    LineTime = 2
    StepTime = 4
    UsbTime = 0
    PollTime = 1
    WfiTime = 1
    PacketLines = 1
    BurstLines = 3
    StreamLines = 3
    MaxLines = 5
    MaxClock = 10
INVARIANTS
    FedInTime
    BiteNeedsBurst
PROPERTIES
    HangRecovers
    CatchesUp
