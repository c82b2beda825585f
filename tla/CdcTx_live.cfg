SPECIFICATION RunningSpec
CONSTANTS
    MaxLen = 3
    BufSize = 2
    RetryNum = 5
    EnumPolls = 3
    Lengths = {1, 2, 3}
    MaxMsgs = 2
    MaxSessions = 2
INVARIANTS
    IInv
PROPERTIES
    NoOverwriteInFlight
    ConsoleReturns
    RecordSettles
