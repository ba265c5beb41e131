CONSTANTS
    NumWcid = 1
    Addrs = {a1}
    NoAddr = NoAddr
    Threads = {ep4, ep5}
    NoThread = NoThread
SPECIFICATION Spec
PROPERTY LostCloses
CHECK_DEADLOCK FALSE
