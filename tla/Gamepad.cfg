CONSTANTS
    MaxPuts = 3
    SeqMod = 3
    Requested = {"on"}
SPECIFICATION GSpec
INVARIANTS NumbersInOrder OffIsLast ReadyIsComplete NoRace NothingLost
PROPERTIES Implements Delivered Destroyed
CHECK_DEADLOCK FALSE
