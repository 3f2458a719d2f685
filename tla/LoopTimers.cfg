SPECIFICATION Spec
CONSTANTS
    Servers = {s}
    Conns = {c1}
    Timers = {t1}
    NAccepts = 1
    NWrites = 0
    RecvMayFail = FALSE
    AcceptMayFail = TRUE
    ReadsRestart = TRUE
    AllocMayStop = FALSE
    Unrefable = {t1}
PROPERTIES
    ImplementsStreams
CHECK_DEADLOCK FALSE
