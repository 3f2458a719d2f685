SPECIFICATION MCSpec
CONSTANTS
    ServerPtr_ = server
    Servers = {server}
    Conns = {c1, c2, c3}
    Timers = {t}
    MaxWrites = 1
    Created = {server, c1, t}
    AsksIsRunning = TRUE
INVARIANTS
    WrappersAreSafe
    SessionsAreRight
PROPERTIES
    DestructionEndsTheLoop
CHECK_DEADLOCK FALSE
