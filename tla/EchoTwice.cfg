SPECIFICATION Spec
CONSTANTS
    pServer = pServer
    pFlushTmr = pFlushTmr
    pStopTmr = pStopTmr
    Servers = {pServer}
    Conns = {c1, c2}
    Timers = {pFlushTmr, pStopTmr}
    MaxEchoes = 2
    AcceptMayFail = FALSE
    PeerMayVanish = FALSE
    StopsAtFailure = TRUE
INVARIANTS
    NeverClosesTwice
CHECK_DEADLOCK FALSE
