SPECIFICATION Spec
CONSTANTS
    Servers = {s}
    Conns = {c1}
    Timers = {}
    NAccepts = 1
    NWrites = 1
    RecvMayFail = TRUE
    AcceptMayFail = FALSE
    ReadsRestart = TRUE
    AllocMayStop = FALSE
    Unrefable = {}
INVARIANTS
    NeverQueuedTwice
CHECK_DEADLOCK FALSE
