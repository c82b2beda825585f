SPECIFICATION Spec
CONSTANTS
    Messages <- AllMessages
    MaxBytes = 8
    MaxDown = 1
CHECK_DEADLOCK FALSE
INVARIANTS
    EngagesAtFirst
    StreamIntact
