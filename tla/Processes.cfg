CONSTANTS
    Copies = {c1, c2}
    Workers = {w1, w2}
    NoProc = NoProc
    FirstBackoff = 2
    MaxBackoff = 60
SPECIFICATION Spec
INVARIANT OneDriver
PROPERTIES LeavesInOrder Driven StopEnds
CHECK_DEADLOCK FALSE
