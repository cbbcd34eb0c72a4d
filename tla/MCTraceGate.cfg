CONSTANTS
    c1 = c1
    c2 = c2
    c3 = c3
    c4 = c4
    Callers <- MCCallers
    MaxTraceConcurrency = 2
SPECIFICATION GateSpec
INVARIANTS
    GateTypeOK
    UnitsAccounted
    QueueIsBlocked
    NoLostWakeup
PROPERTIES
    NoOvertaking
    BlockedIsServed
