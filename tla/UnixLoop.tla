------------------------------ MODULE UnixLoop ------------------------------
(***************************************************************************)
(* The event loop of libuv on Unix (unix/core.c) with its handles: one     *)
(* thread runs it, the system reports events, and other threads and the    *)
(* handlers of signals write to its pipes.                                 *)
(*                                                                         *)
(* A program is the handles a client uses, those of them it only opens,    *)
(* accepts and closes, its requests, the modes it calls uv_run with and    *)
(* the backend of the build.                                               *)
(***************************************************************************)
EXTENDS UnixWatchers

CONSTANTS
    Programs,  \* records [backend, handles, kept, requests, modes]
    OneShots,  \* signals started with uv_signal_start_oneshot
    Meets      \* the meetings below that the code does not stand

\* filters:  kqueue reports two filters of a descriptor together
\* sends:    a uv_udp_t is closed by its recv_cb with its socket writable and sends queued
\* connects: a stream is shut down while it connects
\* exits:    a process is closed by the exit_cb of another that ended with it
\* allocs:   a stream or a uv_udp_t is stopped or closed by its alloc_cb
\* fork:     uv_loop_fork is called with watchers to be changed, signals or asyncs about
Meetings == {"filters", "sends", "connects", "exits", "allocs", "fork"}

Backends == {"epoll", "kqueue", "ports", "pollset", "poll"}
Modes    == {"DEFAULT", "ONCE", "NOWAIT"}

ASSUME ProgramsAssumption ==
    /\ Programs \subseteq [backend : Backends, handles : SUBSET Handles,
                           kept : SUBSET Handles, requests : SUBSET UserReqs, modes : SUBSET Modes]
    /\ OneShots \subseteq Signals /\ Meets \subseteq Meetings

VARIABLES
    loop,     \* the uv_loop_t, its handles, and the system's side of them
    pc,       \* where uv_run is
    mode,     \* the uv_run_mode
    ran,      \* ran_pending
    timeout,  \* of the poll, -1 for none
    todo,     \* the frames to go on with, the innermost first
    cb,       \* the callback in progress
    request,  \* what has become of each request a client owns
    program   \* what the client uses

vars == <<loop, pc, mode, ran, timeout, todo, cb, request, program>>

\* uv_loop_init starts the watchers of uv_async_send and of the signal pipe.
LoopInitFor(backend) ==
    LET A == [LoopRecord EXCEPT !.backend = backend,
                                !.fd[AsyncIo] = AsyncFd, !.fd[SignalIo] = SignalFd]
    IN  IoStart(IoStart(A, SignalIo, {"IN"}), AsyncIo, {"IN"})

Init ==
    /\ program \in Programs
    /\ loop = LoopInitFor(program.backend)
    /\ pc = "outside" /\ mode = "DEFAULT" /\ ran = FALSE /\ timeout = 0
    /\ todo = << >> /\ cb = NoCallback
    /\ request = [r \in UserReqs |-> "free"]

-----------------------------------------------------------------------------
\* What each frame stands for.

IoCallback(L, w, revents) ==
    CASE w \in L.listening -> {ServerIo(L, w, revents)}
      [] w \in (Servers \cup Streams) \ L.listening -> StreamIo(L, w, revents)
      [] w \in Udps    -> {UdpIo(L, w, revents)}
      [] w \in Polls   -> {PollIo(L, w, revents)}
      [] w = AsyncIo   -> {AsyncRead(L)}
      [] w = SignalIo  -> {SignalEvent(L)}
      [] w = InotifyIo -> {Outcome(L, NoCallback, <<Frame("inotify", w, InotifyReads)>>)}

Then(outcomes, frames) == {[o EXCEPT !.then = @ \o frames] : o \in outcomes}

\* uv__run_pending
NextPending(L) ==
    LET w == Head(L.pq)
    IN  IF L.pq = << >> THEN {Quiet(L)}
        ELSE Then(IoCallback([L EXCEPT !.pq = Tail(@)], w, {"OUT"}),
                  <<Frame("pending", "none", 0)>>)

\* The loop of uv__io_poll over the events; "Run signal watchers last."
NextEvent(L) ==
    LET e    == Head(L.batch)
        w    == L.watchers[e.fd]
        A    == [L EXCEPT !.batch = Tail(@)]
        told == Filtered(A, w, e)
        B    == [Squelched(A, w, e) EXCEPT !.nevents = TRUE]
        more == <<Frame("events", "none", 0)>>
        rearm == IF L.backend = "ports" THEN <<Frame("rearm", w, e.fd)>> ELSE << >>
    IN  IF L.batch = << >> THEN {Outcome(L, NoCallback, <<Frame("signal watcher", SignalIo, 0)>>)}
        ELSE IF e.fd = -1 THEN {Outcome(A, NoCallback, more)}
        ELSE IF w = "none" THEN {Outcome(Disarm(A, e), NoCallback, more)}
        ELSE IF told = {} THEN {Outcome(Squelched(A, w, e), NoCallback, more)}
        ELSE IF w = SignalIo
        THEN {Outcome([B EXCEPT !.have_signals = TRUE], NoCallback, rearm \o more)}
        ELSE Then(IoCallback(B, w, told), rearm \o more)

SignalsLast(L) == IF L.have_signals THEN SignalEvent(L) ELSE Quiet(L)

\* uv__finish_close
FinishClose(L, h) ==
    LET A == Check(L, "finish_close: closing", IsClosing(L, h))
        B == Check(A, "finish_close: not closed", ~Has(L, h, "UV_CLOSED"))
        C == SetFlags(B, h, {"UV_CLOSED"})
        destroyed == CASE h \in Servers \cup Streams -> StreamDestroy(C, h)
                       [] h \in Udps -> UdpFinishClose(C, h)
                       [] OTHER      -> Quiet(C)
    IN  Then({destroyed}, <<Frame("closed", h, 0)>>)

\* Its end, close_cb.
Closed(L, h) ==
    Calling("close", [HandleUnref(L, h) EXCEPT !.handle_queue = @ \ {h}], h, << >>)

Perform(L, f) ==
    LET h == f.handle
    IN  CASE f.do = "timers"          -> {NextTimer(L)}
          [] f.do = "pending"         -> NextPending(L)
          [] f.do = "watchers"        -> {NextWatcher(L, f.arg)}
          [] f.do = "events"          -> NextEvent(L)
          [] f.do = "rearm"           -> {Quiet(Rearm(L, h, f.arg))}
          [] f.do = "signal watcher"  -> {SignalsLast(L)}
          [] f.do = "finish"          -> FinishClose(L, h)
          [] f.do = "closed"          -> {Closed(L, h)}
          [] f.do = "flush"           -> {FlushFailed(L, h)}
          [] f.do = "write callbacks" -> {WriteCallbacks(L, h)}
          [] f.do = "accept"          -> AcceptNext(L, h, f.arg)
          [] f.do = "accepted"        -> {Accepted(L, h, f.arg)}
          [] f.do = "read"            -> {Read(L, h, f.arg)}
          [] f.do = "read into"       -> ReadInto(L, h, f.arg)
          [] f.do = "read eof"        -> {Quiet(Clear(L, h, {"READING"}))}
          [] f.do = "read partial"    -> {Quiet(SetFlags(L, h, {"READ_PARTIAL"}))}
          [] f.do = "read error"      -> {Quiet(ReadStop(L, h))}
          [] f.do = "hangup"          -> {Hangup(L, h, f.arg)}
          [] f.do = "writable"        -> Writable(L, h, f.arg)
          [] f.do = "drain"           -> Drained(L, h)
          [] f.do = "destroy writes"  -> {DestroyWrites(L, h)}
          [] f.do = "destroy shutdown" -> {DestroyShutdown(L, h)}
          [] f.do = "recvmsg"         -> {Recvmsg(L, h, f.arg)}
          [] f.do = "recvmsg into"    -> RecvmsgInto(L, h, f.arg)
          [] f.do = "sendmsg"         -> SendmsgThenCallbacks(L, h)
          [] f.do = "run completed"   -> {RunCompleted(L, h)}
          [] f.do = "completed"       -> {Completed(L, h)}
          [] f.do = "udp closed"      -> {UdpClosed(L, h)}
          [] f.do = "async"           -> {NextAsync(L)}
          [] f.do = "signals"         -> {NextSignal(L, f.arg)}
          [] f.do = "signal done"     -> {SignalDone(L, h)}
          [] f.do = "exit"            -> {NextExit(L, h)}
          [] f.do = "inotify"         -> {InotifyRead(L, f.arg)}
          [] f.do = "fs_event"        -> {NextFsEvent(L)}

-----------------------------------------------------------------------------
\* uv_run

\* How far the clock may be on when an iteration begins.
MaxElapsed == 1

UserCallbacks == {"send", "write", "connect", "shutdown"}

Idle == todo = << >> /\ cb = NoCallback

\* The phase p, with the frames it begins with.
Enter(p, L, frames) ==
    /\ pc' = p /\ loop' = L /\ todo' = frames
    /\ UNCHANGED <<mode, cb, request, program>>

\* The test of the loop, and the return from it.
NextIteration(stays) ==
    /\ UNCHANGED <<ran, timeout>>
    /\ IF stays /\ Alive(loop)
       THEN \E n \in IF loop.heap = << >> THEN {0} ELSE 0..MaxElapsed :
               pc' = "timers" /\ loop' = UpdateTime(loop, n)
               /\ todo' = IF loop.heap = << >> THEN << >> ELSE <<Frame("timers", "none", 0)>>
       ELSE pc' = "outside" /\ UNCHANGED <<loop, todo>>

RunBegin ==
    /\ pc = "outside"
    /\ mode' \in program.modes
    /\ NextIteration(TRUE)
    /\ UNCHANGED <<cb, request, program>>

\* The request of a callback is the client's again.
Performs ==
    /\ todo # << >> /\ cb = NoCallback
    /\ \E o \in Perform(loop, Head(todo)) :
          /\ loop' = o.loop /\ cb' = o.cb /\ todo' = o.then \o Tail(todo)
          /\ request' = IF o.cb.kind \in UserCallbacks
                        THEN [request EXCEPT ![o.cb.req] = "called"] ELSE request
    /\ UNCHANGED <<pc, mode, ran, timeout, program>>

CallbackReturns ==
    /\ cb # NoCallback
    /\ cb' = NoCallback
    /\ UNCHANGED <<loop, pc, mode, ran, timeout, todo, request, program>>

TimersEnd ==
    /\ pc = "timers" /\ Idle
    /\ ran' = (loop.pending # << >>)
    /\ Enter("pending", [loop EXCEPT !.pq = loop.pending, !.pending = << >>],
             IF loop.pending = << >> THEN << >> ELSE <<Frame("pending", "none", 0)>>)
    /\ UNCHANGED timeout

\* uv__run_idle, uv__run_prepare and, after the poll, uv__run_check
Follows(p) == [pending |-> "idle", idle |-> "prepare", polled |-> "check"][p]

RunNext(p) ==
    LET o == RunWatchers(loop, Follows(p))
    IN  /\ pc = p /\ Idle
        /\ Enter(Follows(p), o.loop, IF loop.lists[Follows(p)] = << >> THEN << >> ELSE o.then)
        /\ UNCHANGED <<ran, timeout>>

\* Mutant: a handle that is closing does not keep the poll from waiting.
BackendTimeoutClosing(L) ==
    IF \/ L.active_handles = 0 /\ L.active_reqs = {}
       \/ L.lists["idle"] # << >> \/ L.pending # << >>
    THEN 0 ELSE NextTimeout(L)

\* uv_backend_timeout
BackendTimeout(L) ==
    IF \/ L.active_handles = 0 /\ L.active_reqs = {}
       \/ L.lists["idle"] # << >> \/ L.pending # << >> \/ L.closing # << >>
    THEN 0 ELSE NextTimeout(L)

PollBegin ==
    /\ pc = "prepare" /\ Idle
    /\ timeout' = IF mode = "DEFAULT" \/ (mode = "ONCE" /\ ~ran) THEN BackendTimeout(loop) ELSE 0
    /\ Enter("poll", RegisterAll(loop), << >>)
    /\ UNCHANGED ran

\* The wait ends with events, then or at its end, or without any at its end.
PollReturns ==
    /\ pc = "poll"
    /\ UNCHANGED ran
    /\ \/ \E n \in {0, IF timeout > 0 THEN timeout ELSE 0}, batch \in Batches(loop, Meets) :
             /\ timeout' = timeout - n
             /\ Enter("events", Deliver(UpdateTime(loop, n), batch),
                      <<Frame("events", "none", 0)>>)
       \/ /\ timeout # -1
          /\ timeout' = 0
          /\ Enter("polled", UpdateTime(loop, timeout), << >>)

\* Events nobody was told of do not end the wait.
EventsEnd ==
    /\ pc = "events" /\ Idle
    /\ Enter(IF loop.nevents \/ timeout = 0 THEN "polled" ELSE "poll", PollEnds(loop), << >>)
    /\ UNCHANGED <<ran, timeout>>

\* uv__run_closing_handles
RunClosingHandles ==
    /\ pc = "check" /\ Idle
    /\ Enter("closing", [loop EXCEPT !.closing = << >>],
             [i \in DOMAIN loop.closing |-> Frame("finish", loop.closing[i], 0)])
    /\ UNCHANGED <<ran, timeout>>

ClosingEnds ==
    /\ pc = "closing" /\ Idle
    /\ IF mode = "ONCE"
       THEN /\ UNCHANGED <<ran, timeout>>
            /\ pc' = "timers again"
            /\ todo' = IF loop.heap = << >> THEN << >> ELSE <<Frame("timers", "none", 0)>>
            /\ \E n \in IF loop.heap = << >> THEN {0} ELSE 0..MaxElapsed :
                  loop' = UpdateTime(loop, n)
       ELSE NextIteration(mode = "DEFAULT")
    /\ UNCHANGED <<mode, cb, request, program>>

OnceEnds ==
    /\ pc = "timers again" /\ Idle
    /\ pc' = "outside"
    /\ UNCHANGED <<loop, mode, ran, timeout, todo, cb, request, program>>

LibraryStep ==
    \/ RunBegin
    \/ Performs
    \/ CallbackReturns
    \/ TimersEnd
    \/ \E p \in {"pending", "idle", "polled"} : RunNext(p)
    \/ PollBegin
    \/ PollReturns
    \/ EventsEnd
    \/ RunClosingHandles
    \/ ClosingEnds
    \/ OnceEnds

=============================================================================
