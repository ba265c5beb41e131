CONSTANTS
    IlmLength = 5
    DlmLength = 4
    IlmOffset = 2
    DlmOffset = 9
    ChunkSize = 2
    MaxFailures = 3
SPECIFICATION Spec
INVARIANTS StartedWhole ReadyMeansSetUp
PROPERTIES ResetFirst Recovers
CHECK_DEADLOCK FALSE
