SPECIFICATION Spec
CONSTANTS
    MaxLen = 4
    BufSize = 2
    RetryNum = 5
    EnumPolls = 3
    Lengths = {1, 3, 4}
    MaxMsgs = 3
    MaxSessions = 2
INVARIANTS
    ReportedIsDelivered
    ConsoleOnce
    RecordTwiceNeedsConsole
    ConsoleInOrder
    FreedOnlyAfterReconnect
