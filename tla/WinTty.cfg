SPECIFICATION Spec
CONSTANTS
    udp = udp
    fast = fast
    slow = slow
    async = async
    signal = signal
    dir = dir
    child = child
    prep1 = prep1
    prep2 = prep2
    check = check
    idle = idle
    server = server
    pipe = pipe
    sync = sync
    tin = tin
    tout = tout
    timer1 = timer1
    timer2 = timer2
    Udps = {udp}
    Polls = {fast, slow}
    SlowPolls = {slow}
    Asyncs = {async}
    Signals = {signal}
    FsEvents = {dir}
    Processes = {child}
    Prepares = {prep1, prep2}
    Checks = {check}
    Idles = {idle}
    PipeServers = {server}
    Pipes = {pipe, sync}
    SyncPipes = {sync}
    EofTimer <- EofTimerDef
    Ttys = {tin, tout}
    TtyInputs = {tin}
    NInstances = 1
    Events = {"readable", "writable", "disconnect"}
    NReqs = 2
    Programs <- TtyProgram
    OneShots = {signal}
    RecvMayFail = FALSE
    SignalsMeet = FALSE
    ModesMeet = TRUE
INVARIANTS
    LockIsGivenBack
CHECK_DEADLOCK FALSE
