CONSTANTS
    RebindAfter = 3
    MaxFailures = 3
    MaxOrphans = 1
    MaxFlaps = 0
SPECIFICATION Spec
INVARIANT RefsBalanced
PROPERTIES Served StopEndsSearch
CHECK_DEADLOCK FALSE
