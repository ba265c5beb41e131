CONSTANTS
    NumWcid = 2
    Addrs = {a1, a2}
    NoAddr = NoAddr
    Threads = {ep4, ep5}
    NoThread = NoThread
SPECIFICATION Safety
SYMMETRY Symmetry
INVARIANTS TablesAgree ToOwner AllAsleep
PROPERTY ImplementsSeats
CHECK_DEADLOCK FALSE
