SPECIFICATION FairSpec
CONSTANTS
    Servers = {s}
    Conns = {c1}
    Timers = {}
    NAccepts = 1
    NWrites = 1
    RecvMayFail = TRUE
    AcceptMayFail = TRUE
    ReadsRestart = FALSE
    AllocMayStop = FALSE
    Unrefable = {}
INVARIANTS
    TypeOK
    NoAssertionFails
    ActiveHandlesIsExact
    EndgameListIsExact
    CountersAreExact
    LoopGoesOn
PROPERTIES
    ImplementsStreams
    ClosesComplete
CHECK_DEADLOCK FALSE
