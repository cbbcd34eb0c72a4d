CONSTANT
    MaxUnread = 1
SPECIFICATION Spec
INVARIANTS
    TypeOK
    ExitLeavesNoGeth
PROPERTY
    StopsTogether
CHECK_DEADLOCK FALSE
