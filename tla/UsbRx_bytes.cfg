SPECIFICATION Spec
CONSTANTS
    Plain = {"a"}
    Input = {"a", "T", "nl", "bs"}
    PacketLen = 2
    StreamSize = 4
    LineSize = 3
    RingSize = 3
    FlushPolls = 1
    AfterPolls = 2
    MaxBytes = 6
INVARIANTS
    FreshSession
    GapReported
    CommandsComplete
    LinesAsParsed
    OverflowNeedsBurst
