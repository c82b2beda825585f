SPECIFICATION Spec
CHECK_DEADLOCK FALSE
CONSTANTS
    Bytes = {"00", "FF"}
    Divs = {2, 32}
    OtherDivs = {3}
    StdoutSize = 2
    MaxLines = 3
    MaxPolls = 2
INVARIANTS
    SettingsAsAcknowledged
    FrameAsSet
    AnsweredOnce
    OnlyErrorsOvertake
