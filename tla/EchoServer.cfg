SPECIFICATION FairSpec
CONSTANTS
    pServer = pServer
    pFlushTmr = pFlushTmr
    pStopTmr = pStopTmr
    Servers = {pServer}
    Conns = {c1, c2}
    Timers = {pFlushTmr, pStopTmr}
    MaxEchoes = 2
    AcceptMayFail = TRUE
    PeerMayVanish = TRUE
    StopsAtFailure = FALSE
INVARIANTS
    EndsClean
    ClientsAreCounted
PROPERTIES
    ComesToItsEnd
CHECK_DEADLOCK FALSE
