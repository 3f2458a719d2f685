SPECIFICATION FairSpec
CONSTANTS
    server = server
    tcp = tcp
    pipe = pipe
    ipc = ipc
    udp = udp
    file = file
    async1 = async1
    async2 = async2
    sig1 = sig1
    sig2 = sig2
    child1 = child1
    child2 = child2
    dir1 = dir1
    dir2 = dir2
    timer1 = timer1
    timer2 = timer2
    prep1 = prep1
    prep2 = prep2
    check = check
    idle = idle
    Servers = {server}
    Streams = {tcp, pipe, ipc}
    Pipes = {pipe, ipc}
    IpcPipes = {ipc}
    Udps = {udp}
    Polls = {file}
    Asyncs = {async1, async2}
    Signals = {sig1, sig2}
    Processes = {child1, child2}
    FsEvents = {dir1, dir2}
    Timers = {timer1, timer2}
    Prepares = {prep1, prep2}
    Checks = {check}
    Idles = {idle}
    PollFd <- PollFdDef
    MaxFd = 5
    NReqs = 2
    PollEvents = {{}, {"IN"}, {"IN", "OUT"}}
    Timeouts = {0, 1, 2}
    Repeats = {0, 1}
    Programs <- ProgramsDef
    OneShots = {sig2}
    Meets = {}
INVARIANTS
    NoAssertionFails
    CountersAreExact
    EventsAreWaitedFor
    ClosedHandlesAreForgotten
PROPERTIES
    CallbacksAreDue
    ClosesComplete
CHECK_DEADLOCK FALSE
