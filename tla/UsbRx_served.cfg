SPECIFICATION ServedSpec
CONSTANTS
    Plain = {"a"}
    Input = {"T", "nl"}
    PacketLen = 2
    StreamSize = 3
    LineSize = 3
    RingSize = 2
    FlushPolls = 1
    AfterPolls = 2
    MaxBytes = 6
INVARIANTS
    WholePacketsInOrder
PROPERTIES
    StreamServed
