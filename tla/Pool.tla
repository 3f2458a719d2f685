-------------------------------- MODULE Pool --------------------------------
(***************************************************************************)
(* The thread pool of libuv (threadpool.c) with the requests it serves:    *)
(* uv_queue_work, file system requests (the life of the request; what each *)
(* operation does is in Files), uv_getaddrinfo and uv_getnameinfo.  The     *)
(* loop's thread submits, cancels and calls back; the workers take, run    *)
(* and report.  A critical section that takes no other lock is one step.   *)
(***************************************************************************)
EXTENDS Naturals, FiniteSets, SequencesExt

CONSTANTS Workers,                       \* threads[], nthreads of them
          Works, Writes, Resolves,       \* the user's requests: uv_work_t, uv_getnameinfo_t and
                                         \* others with nothing of their own; reads and writes
                                         \* of many buffers; uv_getaddrinfo_t
          Contexts,                      \* the poll_ctx uv_fs_poll_start may allocate
          Programs,                      \* what the client of a behaviour uses
          Nobody, LoopThread, ExitMessage

VARIABLES program,
          started,          \* once
          mutex, wq_mutex,  \* who holds the pool's mutex, and the loop's
          wq, idle_threads, \* the pool's
          pc, job,          \* of each worker: where it is, what it runs
          work,             \* w->work: "work", "NULL" or "uv__cancelled"
          single,           \* the requests whose wq is QUEUE_INITed: they execute
          loop_wq, async,   \* loop->wq, and a wake-up of wq_async on its way
          batch,            \* the queue local to uv__work_done
          active,           \* loop->active_reqs
          lpc, subject,     \* where the loop's thread is, the request whose callback runs
          target,           \* the request uv_cancel is called with
          result, memory,   \* of each request: what it ended with, what is malloced for it
          ran, called,      \* history: times work ran and done was called since submitted
          calls

poolVars == <<program, started, mutex, wq_mutex, wq, idle_threads, pc, job, work, single, loop_wq,
              async, batch, active, lpc, subject, target, result, memory, ran, called, calls>>

Requests == Works \cup Writes \cup Resolves
AllRequests == Requests \cup Contexts
ASSUME PoolAssumption ==
    /\ IsFiniteSet(Workers)
    /\ Requests \cap Contexts = {} /\ Writes \cap Resolves = {}
    /\ {Nobody, ExitMessage} \cap AllRequests = {}
    /\ \A p \in Programs : "ECANCELED" \notin p.file

Asynchronous == UNCHANGED <<program, calls>>

PoolInit ==
    /\ program \in Programs
    /\ started = FALSE
    /\ mutex = Nobody /\ wq_mutex = Nobody
    /\ wq = << >> /\ idle_threads = 0
    /\ pc = [w \in Workers |-> "none"] /\ job = [w \in Workers |-> Nobody]
    /\ work = [r \in AllRequests |-> "NULL"] /\ single = {}
    /\ loop_wq = << >> /\ async = FALSE /\ batch = << >>
    /\ active = {} /\ lpc = "idle" /\ subject = Nobody /\ target = Nobody
    /\ result = [r \in AllRequests |-> "none"] /\ memory = [r \in AllRequests |-> {}]
    /\ ran = [r \in AllRequests |-> 0] /\ called = [r \in AllRequests |-> 0]
    /\ calls = 0

-----------------------------------------------------------------------------
(* The queue of the pool. *)

Asleep(p) == {w \in Workers : p[w] = "asleep"}

\* uv_cond_signal: one of those who wait, whichever the system picks.
CondSignal(p) == IF Asleep(p) = {} THEN {p} ELSE {[p EXCEPT ![w] = "awake"] : w \in Asleep(p)}

InitThreads == [w \in Workers |-> "start"]

\* p is where the threads are before it.
Post(q, p) ==
    /\ mutex = Nobody
    /\ wq' = Append(wq, q)
    /\ pc' \in (IF idle_threads > 0 THEN CondSignal(p) ELSE {p})
    /\ UNCHANGED <<mutex, idle_threads>>

\* What is malloced for a request until it is cleaned up.
Owned(r) ==
    CASE r \in Resolves -> {"input"}
      [] r \in Writes -> {"bufs"}
      [] r \in Contexts -> {"path"}
      [] OTHER -> {}

\* uv__work_submit, with what its callers set up and register before.  The first makes the
\* threads, the mutex, the condition and the queue, which was empty; it does not set
\* idle_threads, which in the child of a fork still counts the threads of the parent.
WorkSubmit(r) ==
    /\ Post(r, IF started THEN pc ELSE InitThreads)
    /\ started' = TRUE
    /\ active' = active \cup {r}
    /\ work' = [work EXCEPT ![r] = "work"]
    /\ single' = single \ {r}
    /\ result' = [result EXCEPT ![r] = "none"]
    /\ memory' = [memory EXCEPT ![r] = Owned(r)]
    /\ ran' = [ran EXCEPT ![r] = 0]
    /\ called' = [called EXCEPT ![r] = 0]

\* The user's code runs before uv_run, in other callbacks of the loop, and in the
\* callback of a request, where it may call anything about the other requests.
InClient == lpc \in {"idle", "callback"}

Calls == InClient /\ calls < program.calls /\ calls' = calls + 1

Submit(r) ==
    /\ Calls /\ r \in program.requests \ active
    /\ memory[r] = {}
    /\ WorkSubmit(r)
    /\ UNCHANGED <<program, wq_mutex, job, loop_wq, async, batch, lpc, subject, target>>

-----------------------------------------------------------------------------
(* A worker. *)

FallAsleep(w) ==
    /\ pc[w] = "start" /\ mutex = Nobody /\ wq = << >>
    /\ pc' = [pc EXCEPT ![w] = "asleep"]
    /\ idle_threads' = idle_threads + 1
    /\ UNCHANGED <<wq, job, single>>

\* Awake again it counts itself out and looks at the queue once more.
Reacquire(w) ==
    /\ pc[w] = "awake" /\ mutex = Nobody
    /\ pc' = [pc EXCEPT ![w] = "start"]
    /\ idle_threads' = idle_threads - 1
    /\ UNCHANGED <<wq, job, single>>

Spurious(w) ==
    /\ pc[w] = "asleep"
    /\ pc' = [pc EXCEPT ![w] = "awake"]
    /\ UNCHANGED <<wq, idle_threads, job, single>>

Take(w) ==
    /\ pc[w] = "start" /\ mutex = Nobody /\ wq # << >> /\ Head(wq) # ExitMessage
    /\ wq' = Tail(wq)
    /\ single' = single \cup {Head(wq)}
    /\ job' = [job EXCEPT ![w] = Head(wq)]
    /\ pc' = [pc EXCEPT ![w] = "works"]
    /\ UNCHANGED idle_threads

\* Mutant: the worker that finds the exit message tells nobody.
TakeExitQuietly(w) ==
    /\ pc[w] = "start" /\ mutex = Nobody /\ wq # << >> /\ Head(wq) = ExitMessage
    /\ pc' = [pc EXCEPT ![w] = "gone"]
    /\ UNCHANGED <<wq, idle_threads, job, single>>

\* The exit message stays in the queue for the next worker.
TakeExit(w) ==
    /\ pc[w] = "start" /\ mutex = Nobody /\ wq # << >> /\ Head(wq) = ExitMessage
    /\ \E p \in CondSignal(pc) : pc' = [p EXCEPT ![w] = "gone"]
    /\ UNCHANGED <<wq, idle_threads, job, single>>

\* What is malloced for r once the pool's thread has run it: uv__fs_buf_iter frees the
\* buffers on Unix; Windows answers uv_getaddrinfo with wide strings.
AfterWork(r) ==
    CASE r \in Resolves /\ program.windows -> memory[r] \cup {"addrinfow"}
      [] r \in Writes /\ ~program.windows -> memory[r] \ {"bufs"}
      [] OTHER -> memory[r]

\* What a stat finds, or whether the call succeeds, which only a resolver's request shows.
Outcomes(r) ==
    IF r \in Contexts THEN program.file
    ELSE IF r \in Resolves THEN {"ok", "error"}
    ELSE {"ok"}

Run(w) ==
    LET r == job[w]
    IN  /\ pc[w] = "works"
        /\ \E o \in Outcomes(r) :
              /\ result' = [result EXCEPT ![r] = o]
              /\ memory' = [memory EXCEPT ![r] = IF o = "error" THEN memory[r] \ (Owned(r) \ AfterWork(r))
                                                 ELSE AfterWork(r)]
        /\ ran' = [ran EXCEPT ![r] = @ + 1]
        /\ pc' = [pc EXCEPT ![w] = "worked"]

LockLoop(w) ==
    /\ pc[w] = "worked" /\ wq_mutex = Nobody
    /\ wq_mutex' = w
    /\ pc' = [pc EXCEPT ![w] = "reports"]

Report(w) ==
    LET r == job[w]
    IN  /\ pc[w] = "reports"
        /\ work' = [work EXCEPT ![r] = "NULL"]
        /\ single' = single \ {r}
        /\ loop_wq' = Append(loop_wq, r)
        /\ async' = TRUE
        /\ wq_mutex' = Nobody
        /\ job' = [job EXCEPT ![w] = Nobody]
        /\ pc' = [pc EXCEPT ![w] = "start"]

LoopUntouched == UNCHANGED <<batch, active, lpc, subject, target, called, started>>

WorkerStep(w) ==
    /\ Asynchronous /\ LoopUntouched
    /\ \/ /\ FallAsleep(w) \/ Reacquire(w) \/ Take(w) \/ TakeExit(w)
          /\ UNCHANGED <<mutex, wq_mutex, work, loop_wq, async, result, memory, ran>>
       \/ /\ Run(w)
          /\ UNCHANGED <<mutex, wq_mutex, wq, idle_threads, job, work, single, loop_wq, async>>
       \/ /\ LockLoop(w)
          /\ UNCHANGED <<mutex, wq, idle_threads, job, work, single, loop_wq, async, result, memory, ran>>
       \/ /\ Report(w)
          /\ UNCHANGED <<mutex, wq, idle_threads, result, memory, ran>>

WorkerSpuriouslyWakes(w) ==
    /\ Spurious(w) /\ Asynchronous /\ LoopUntouched
    /\ UNCHANGED <<mutex, wq_mutex, work, loop_wq, async, result, memory, ran>>

-----------------------------------------------------------------------------
(* uv_cancel. *)

\* QUEUE_REMOVE of the node of r, whichever queue it is in.
Without(s, r) ==
    IF \E i \in DOMAIN s : s[i] = r THEN RemoveAt(s, CHOOSE i \in DOMAIN s : s[i] = r) ELSE s

\* What a call of the library leaves alone when it deals with no worker.
WorkersUntouched == UNCHANGED <<started, idle_threads, pc, job, result, memory, ran>>

\* The call locks the pool's mutex first.  The request of a callback that runs is no
\* longer the library's, and its owner does not cancel it.
Cancel(r) ==
    /\ Calls /\ r \in active \cap Requests /\ mutex = Nobody
    /\ mutex' = LoopThread
    /\ lpc' = IF lpc = "idle" THEN "cancels" ELSE "cancels in callback"
    /\ target' = r
    /\ WorkersUntouched
    /\ UNCHANGED <<program, wq_mutex, wq, work, single, loop_wq, async, batch, active, subject, called>>

BackToClient(there) == IF there \in {"cancels", "requeues"} THEN "idle" ELSE "callback"

\* Mutant: whether the request executes is not asked.
CancelTestExecuting ==
    LET r == target
    IN  /\ lpc \in {"cancels", "cancels in callback"} /\ wq_mutex = Nobody
        /\ mutex' = Nobody
        /\ IF work[r] # "NULL"
           THEN /\ wq' = Without(wq, r) /\ loop_wq' = Without(loop_wq, r) /\ batch' = Without(batch, r)
                /\ lpc' = IF lpc = "cancels" THEN "requeues" ELSE "requeues in callback"
                /\ UNCHANGED target
           ELSE /\ lpc' = BackToClient(lpc) /\ target' = Nobody
                /\ UNCHANGED <<wq, loop_wq, batch>>
        /\ WorkersUntouched /\ Asynchronous
        /\ UNCHANGED <<wq_mutex, work, single, async, active, subject, called>>

\* QUEUE_EMPTY(&w->wq) is true only of a request that executes.
CancelTest ==
    LET r == target
        cancelled == r \notin single /\ work[r] # "NULL"
    IN  /\ lpc \in {"cancels", "cancels in callback"} /\ wq_mutex = Nobody
        /\ mutex' = Nobody
        /\ IF cancelled
           THEN /\ wq' = Without(wq, r) /\ loop_wq' = Without(loop_wq, r) /\ batch' = Without(batch, r)
                /\ lpc' = IF lpc = "cancels" THEN "requeues" ELSE "requeues in callback"
                /\ UNCHANGED target
           ELSE /\ lpc' = BackToClient(lpc) /\ target' = Nobody      \* UV_EBUSY
                /\ UNCHANGED <<wq, loop_wq, batch>>
        /\ WorkersUntouched /\ Asynchronous
        /\ UNCHANGED <<wq_mutex, work, single, async, active, subject, called>>

CancelRequeue ==
    LET r == target
    IN  /\ lpc \in {"requeues", "requeues in callback"} /\ wq_mutex = Nobody
        /\ work' = [work EXCEPT ![r] = "uv__cancelled"]
        /\ loop_wq' = Append(loop_wq, r)
        /\ async' = TRUE
        /\ lpc' = BackToClient(lpc) /\ target' = Nobody
        /\ WorkersUntouched /\ Asynchronous
        /\ UNCHANGED <<mutex, wq_mutex, wq, single, batch, active, subject, called>>

-----------------------------------------------------------------------------
(* uv__work_done, the callback of wq_async. *)

\* The wake-up is taken back before its callback looks at the queue.
AsyncWakes ==
    /\ lpc = "idle" /\ async
    /\ async' = FALSE
    /\ lpc' = "work done"
    /\ WorkersUntouched /\ Asynchronous
    /\ UNCHANGED <<mutex, wq_mutex, wq, work, single, loop_wq, batch, active, subject, target, called>>

MoveQueue ==
    /\ lpc = "work done" /\ wq_mutex = Nobody
    /\ batch' = loop_wq /\ loop_wq' = << >>
    /\ lpc' = "drains"
    /\ WorkersUntouched /\ Asynchronous
    /\ UNCHANGED <<mutex, wq_mutex, wq, work, single, async, active, subject, target, called>>

\* What is malloced for r when its callback is called: the answer of uv_getaddrinfo is
\* the user's.
AfterDone(r, o) ==
    CASE r \in Resolves /\ o = "ok" -> {"answer"}
      [] r \in Resolves -> {}
      [] OTHER -> memory[r]

\* Windows copies the answer it found, for which there may be no memory.  (The system's
\* names are assumed to convert: one that does not is left at once, and its answer too.)
Converted(r) ==
    IF r \in Resolves /\ program.windows /\ result[r] = "ok" THEN {"ok", "error"} ELSE {result[r]}

\* uv__queue_done, uv__fs_done, uv__getaddrinfo_done, uv__getnameinfo_done.
DoneRequest ==
    LET r == Head(batch)
        ended == IF work[r] = "uv__cancelled" THEN {"ECANCELED"} ELSE Converted(r)
    IN  /\ lpc = "drains" /\ batch # << >> /\ r \in Requests
        /\ batch' = Tail(batch)
        /\ active' = active \ {r}
        /\ called' = [called EXCEPT ![r] = @ + 1]
        /\ \E o \in ended : /\ result' = [result EXCEPT ![r] = o]
                            /\ memory' = [memory EXCEPT ![r] = AfterDone(r, o)]
        /\ lpc' = "callback" /\ subject' = r
        /\ Asynchronous
        /\ UNCHANGED <<started, mutex, wq_mutex, wq, idle_threads, pc, job, work, single, loop_wq, async, target, ran>>

Drained ==
    /\ lpc = "drains" /\ batch = << >>
    /\ lpc' = "idle"
    /\ WorkersUntouched /\ Asynchronous
    /\ UNCHANGED <<mutex, wq_mutex, wq, work, single, loop_wq, async, batch, active, subject, target, called>>

\* uv_fs_req_cleanup and uv_freeaddrinfo: what the user owes a request it is done with,
\* here in its callback.
Cleaned(r) ==
    CASE r \in Writes /\ ~program.windows -> memory[r]
      [] r \in Resolves -> memory[r] \ {"answer"}
      [] OTHER -> {}

CallbackReturns ==
    /\ lpc = "callback" /\ subject \in Requests
    /\ memory' = [memory EXCEPT ![subject] = Cleaned(subject)]
    /\ lpc' = "drains" /\ subject' = Nobody
    /\ Asynchronous
    /\ UNCHANGED <<started, mutex, wq_mutex, wq, idle_threads, pc, job, work, single, loop_wq, async,
                   batch, active, target, result, ran, called>>

-----------------------------------------------------------------------------
(* The end of the process, and fork. *)

\* The static of that name: threads were made once, here or in the parent of a fork.
Initialized == \A w \in Workers : pc[w] # "none"

\* cleanup(): the destructor posts the exit message and joins every thread.
Exit ==
    /\ lpc = "idle" /\ ~program.windows /\ Initialized
    /\ Post(ExitMessage, pc)
    /\ lpc' = "joins"
    /\ Asynchronous
    /\ UNCHANGED <<started, wq_mutex, job, work, single, loop_wq, async, batch, active, subject, target, result, memory,
                   ran, called>>

Joined ==
    /\ lpc = "joins" /\ \A w \in Workers : pc[w] = "gone"
    /\ lpc' = "ended"
    /\ WorkersUntouched /\ Asynchronous
    /\ UNCHANGED <<mutex, wq_mutex, wq, work, single, loop_wq, async, batch, active, subject, target, called>>

\* reset_once, in the child of a fork: it has none of the threads, and the first request
\* submitted makes them anew, but `initialized' stays set.  A request on its way at the
\* fork would be lost, so the client forks when it has none.
Fork ==
    /\ Calls /\ lpc = "idle" /\ ~program.windows /\ started /\ active = {}
    /\ started' = FALSE
    /\ pc' = [w \in Workers |-> "lost"]
    /\ UNCHANGED <<program, mutex, wq_mutex, wq, idle_threads, job, work, single, loop_wq, async, batch, active, lpc, subject, target,
                   result, memory, ran, called>>

PoolClient == Fork \/ \E r \in Requests : Submit(r) \/ Cancel(r)

PoolLoop == \/ CancelTest \/ CancelRequeue \/ AsyncWakes \/ MoveQueue \/ DoneRequest \/ Drained
            \/ CallbackReturns \/ Joined
=============================================================================
