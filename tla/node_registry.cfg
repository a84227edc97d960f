SPECIFICATION Spec
CONSTANTS
    m = m
    r = r
    Members = {m}
    Readers = {r}
    NodeIdOf <- Ids
    NoId = NoId
    MaxNodes = 2
    ScanArgs = {0, 1, 3}
    Offset <- Skew
    Timeout = 3
    Interval = 1
    MaxTime = 6
INVARIANTS TypeOK ScanBetween IInv
PROPERTIES NoFalseDeath DeadDetected LeftIsNotAlive
