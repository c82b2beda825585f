SPECIFICATION Spec
CONSTANTS
    MaxLen = 3
    BufSize = 2
    RetryNum = 5
    EnumPolls = 3
    Lengths = {1, 2, 3}
    MaxMsgs = 3
    MaxSessions = 2
INVARIANTS
    AnswerArrives
