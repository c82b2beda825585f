SPECIFICATION RunningSpec
CONSTANTS
    PacketLen = 2
    MaxPackets = 4
    MaxSessions = 3
INVARIANTS
    WholeAndInOrder
    LateOnlyFull
PROPERTIES
    OnePlace
    Received
