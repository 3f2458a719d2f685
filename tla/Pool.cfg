\* The thread pool with two workers: each kind of request, and a poll handle; and the
\* primitives, with three threads.
SPECIFICATION MCSpec
CONSTANTS
    w1 = w1
    w2 = w2
    work1 = work1
    work2 = work2
    work3 = work3
    write1 = write1
    resolve1 = resolve1
    ctx1 = ctx1
    ctx2 = ctx2
    t1 = t1
    t2 = t2
    t3 = t3
    Threads = {t1, t2, t3}
    Free = Free
    Uses <- UsesDef
    Workers = {w1, w2}
    Works = {work1, work2, work3}
    Writes = {write1}
    Resolves = {resolve1}
    Contexts = {ctx1, ctx2}
    Errors = {"ENOENT", "EACCES"}
    Nobody = Nobody
    LoopThread = LoopThread
    ExitMessage = ExitMessage
    Programs <- ProgramsDef
INVARIANTS
    RequestsAreHeldOnce
    MemoryIsOwned
    PrimitivesHold
PROPERTIES
    ChangesAreReported
    RequestsAreCalledBack
    ThreadsMeet
CHECK_DEADLOCK FALSE
