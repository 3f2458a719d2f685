------------------------------- MODULE WinLoop -------------------------------
(***************************************************************************)
(* The event loop of win/core.c with all the handles of libuv on Windows   *)
(* but TCP (see Loop): one thread runs it, and the system and its threads  *)
(* complete requests beside it.  A step of the library runs to the next    *)
(* callback, or to the next test of the loop.                              *)
(*                                                                         *)
(* A program is the handles a client uses, the requests it has and the     *)
(* modes it calls uv_run with, chosen once: handles of different kinds     *)
(* share only what the loop shares, and a run checks one small set of them *)
(* after the other.                                                        *)
(***************************************************************************)
EXTENDS WinUdp, WinWatchers, WinPipe, WinTty

CONSTANTS
    Programs,    \* records [handles, requests, modes]
    OneShots,    \* signals started with uv_signal_start_oneshot
    RecvMayFail, \* WSARecvFrom may refuse an overlapped receive at once
    SignalsMeet, \* a signal may arrive while the callback of one runs
    ModesMeet    \* a console may leave the raw mode with a raw read out, or keys left

Modes == {"DEFAULT", "ONCE", "NOWAIT"}

ASSUME ProgramsAssumption ==
    /\ Programs \subseteq [handles : SUBSET AllHandles, requests : SUBSET UserReqs, modes : SUBSET Modes]
    /\ {RecvMayFail, SignalsMeet, ModesMeet} \subseteq BOOLEAN

VARIABLES
    loop,     \* the uv_loop_t, its handles, and the system's side of them
    pc,       \* where uv_run is
    mode,     \* the uv_run_mode
    ran,      \* ran_pending
    due,      \* timers uv_process_timers has still to run
    work,     \* requests uv_process_reqs has still to process
    cb,       \* the callback in progress, or where a handler goes on without one
    request,  \* what has become of each request a client owns
    program   \* what the client uses

vars == <<loop, pc, mode, ran, due, work, cb, request, program>>

Init ==
    /\ loop = Init0
    /\ pc = "outside" /\ mode = "DEFAULT" /\ ran = FALSE
    /\ due = {} /\ work = << >>
    /\ cb = NoCallback
    /\ request = [r \in UserReqs |-> "free"]
    /\ program \in Programs

-----------------------------------------------------------------------------
\* uv_run

ActiveEofTimers(L) == {t \in EofTimers : Has(L, t, "ACTIVE")}

\* The test of the loop, and the return from it.
NextIteration(stays) ==
    IF stays /\ LoopAlive(loop)
    THEN pc' = "timers" /\ due' \in SUBSET ActiveEofTimers(loop)
    ELSE pc' = "outside" /\ UNCHANGED due

RunBegin ==
    /\ pc = "outside"
    /\ mode' \in program.modes
    /\ NextIteration(TRUE)
    /\ UNCHANGED <<loop, ran, work, cb, request, program>>

FireEofTimer(t) ==
    /\ pc \in {"timers", "timers again"} /\ cb = NoCallback
    /\ t \in due /\ Has(loop, t, "ACTIVE")
    /\ \E o \in EofTimerFires(loop, t) : loop' = o.loop /\ cb' = o.cb
    /\ due' = due \ {t}
    /\ UNCHANGED <<pc, mode, ran, work, request, program>>

TimersAreRun == cb = NoCallback /\ \A t \in due : ~Has(loop, t, "ACTIVE")

\* uv_process_reqs takes the whole queue; what is inserted from now on waits.
TimersEnd ==
    /\ pc = "timers" /\ TimersAreRun
    /\ pc' = "reqs" /\ due' = {}
    /\ work' = loop.pending
    /\ ran' = (loop.pending # << >>)
    /\ loop' = [loop EXCEPT !.pending = << >>]
    /\ UNCHANGED <<mode, cb, request, program>>

\* The handler of each type of request.
Processed(p) ==
    CASE p.req.type = "RECV"     -> UdpProcessRecv(loop, p)
      [] p.req.type = "SEND"     -> UdpProcessSend(loop, p)
      [] p.req.type = "WAKEUP"   -> AsyncProcess(loop, p)
      [] p.req.type = "SIGNAL"   -> SignalProcess(loop, p)
      [] p.req.type = "POLL"     -> PollProcess(loop, p)
      [] p.req.type = "FS_EVENT" -> FsEventProcess(loop, p)
      [] p.req.type = "EXIT"     -> ProcExit(loop, p)
      [] p.req.type = "CONNECT"  -> PipeProcessConnect(loop, p)
      [] p.req.type = "ACCEPT"   -> PipeProcessAccept(loop, p)
      [] p.req.type = "WRITE"    -> ProcessWrite(loop, p)
      [] p.req.type = "SHUTDOWN" -> PipeProcessShutdown(loop, p)
      [] p.req.type = "READ" /\ p.req.handle \in Pipes -> PipeProcessRead(loop, p)
      [] p.req.type = "READ" /\ p.req.handle \in Ttys  -> TtyProcessRead(loop, p)

UserCallbacks == {"send", "write", "connect", "shutdown"}

\* The request of a callback is the client's again.
Ends(o) ==
    /\ loop' = o.loop
    /\ cb' = o.cb
    /\ request' = IF o.cb.kind \in UserCallbacks
                  THEN [request EXCEPT ![o.cb.req] = "called"] ELSE request

ProcessReq ==
    /\ pc = "reqs" /\ cb = NoCallback /\ work # << >>
    /\ \E o \in Processed(Head(work)) : Ends(o)
    /\ work' = Tail(work)
    /\ UNCHANGED <<pc, mode, ran, due, program>>

\* uv_idle_invoke, uv_prepare_invoke and, after the poll, uv_check_invoke.
NextWatcher(k) == [idle |-> "prepare", prepare |-> "poll", check |-> "endgames"][k]

ReqsEnd ==
    /\ pc = "reqs" /\ cb = NoCallback /\ work = << >>
    /\ pc' = "idle"
    /\ loop' = InvokeBegin(loop, "idle")
    /\ UNCHANGED <<mode, ran, due, work, cb, request, program>>

InvokeWatcher(k) ==
    /\ pc = k /\ cb = NoCallback /\ loop.next[k] # "none"
    /\ Ends(InvokeNext(loop, k))
    /\ UNCHANGED <<pc, mode, ran, due, work, program>>

WatchersEnd(k) ==
    /\ pc = k /\ cb = NoCallback /\ loop.next[k] = "none"
    /\ pc' = NextWatcher(k)
    /\ loop' = IF k = "idle" THEN InvokeBegin(loop, "prepare") ELSE loop
    /\ UNCHANGED <<mode, ran, due, work, cb, request, program>>

\* uv_backend_timeout, and how uv_run uses it: whether the poll has no timeout.
BackendWaits(L) ==
    /\ L.active_handles > 0 \/ L.active_reqs # {}
    /\ L.pending = << >> /\ L.endgame = << >> /\ L.watchers["idle"] = << >>
    /\ ActiveEofTimers(L) = {}

PollWaits == BackendWaits(loop) /\ (mode = "DEFAULT" \/ (mode = "ONCE" /\ ~ran))

\* uv_poll dequeues one packet, uv_poll_ex what has arrived.
Poll ==
    /\ pc = "poll"
    /\ loop.iocp # << >> \/ ~PollWaits
    /\ \E n \in {Len(loop.iocp)} \cup (IF loop.iocp = << >> THEN {} ELSE {1}) :
          LET Got   == SubSeq(loop.iocp, 1, n)
              fresh == \A i \in DOMAIN loop.pending, j \in DOMAIN Got :
                          loop.pending[i].req # Got[j].req
              L     == Check(loop, "pending: not queued", fresh)
          IN  loop' = InvokeBegin([L EXCEPT !.pending = @ \o Got,
                                            !.iocp = SubSeq(@, n + 1, Len(@))], "check")
    /\ pc' = "check"
    /\ UNCHANGED <<mode, ran, due, work, cb, request, program>>

\* The endgame of each kind of handle.
Endgame(L, h) ==
    CASE h \in Udps      -> UdpEndgame(L, h)
      [] h \in Polls     -> PollEndgame(L, h)
      [] h \in Asyncs    -> AsyncEndgame(L, h)
      [] h \in Signals   -> SignalEndgame(L, h)
      [] h \in FsEvents  -> FsEventEndgame(L, h)
      [] h \in Processes -> ProcessEndgame(L, h)
      [] h \in Prepares \cup Checks \cup Idles -> WatcherEndgame(L, h)
      [] h \in PipeServers \cup Pipes -> PipeEndgame(L, h)
      [] h \in EofTimers -> {Quiet(CloseEnd(L, h))}
      [] h \in Ttys      -> TtyEndgame(L, h)

\* uv_process_endgames takes one handle off its list.
NextEndgame ==
    /\ pc = "endgames" /\ cb = NoCallback /\ loop.endgame # << >>
    /\ \E o \in Endgame(PopEndgame(loop), Head(loop.endgame)) : Ends(o)
    /\ UNCHANGED <<pc, mode, ran, due, work, program>>

\* UV_RUN_ONCE runs the timers once more, "which satisfies the forward progress".
EndgamesEnd ==
    /\ pc = "endgames" /\ cb = NoCallback /\ loop.endgame = << >>
    /\ IF mode = "ONCE"
       THEN pc' = "timers again" /\ due' \in SUBSET ActiveEofTimers(loop)
       ELSE NextIteration(mode = "DEFAULT")
    /\ UNCHANGED <<loop, mode, ran, work, cb, request, program>>

OnceEnds ==
    /\ pc = "timers again" /\ TimersAreRun
    /\ pc' = "outside" /\ due' = {}
    /\ UNCHANGED <<loop, mode, ran, work, cb, request, program>>

RecvAnswers == {"bypass", "queued"} \cup IF RecvMayFail THEN {"failed"} ELSE {}

\* What a handler does when its callback has returned.
Continued ==
    LET h == cb.handle
        Each(S) == {Quiet(L) : L \in S}
    IN  CASE cb.next = "return"        -> {Quiet(loop)}
          [] cb.next = "decrease"      -> {Quiet(DecreasePendingReqCount(loop, h))}
          [] cb.next = "recv done"     -> Each(UdpRecvDone(loop, h, RecvAnswers))
          [] cb.next = "poll done"     -> Each(PollDone(loop, h))
          [] cb.next = "signal done"   -> {Quiet(SignalDone(loop, h))}
          [] cb.next = "fs_event done" -> Each(FsEventDone(loop, h, {"queued", "failed"}))
          [] cb.next = "fs_event more" -> FsEventMore(loop, cb)
          [] cb.next = "read done"     -> Each(PipeReadDone(loop, h))
          [] cb.next = "write done"    -> {Quiet(WriteDone(loop, h))}
          [] cb.next = "tty done"      -> TtyReadDone(loop, h)
          [] cb.next = "tty more"      -> TtyReadMore(loop, cb)
          [] cb.next = "tty shutdown"  -> {Quiet(ShutdownEnd(loop, h))}

Continues ==
    /\ cb # NoCallback
    /\ \E o \in Continued : loop' = o.loop /\ cb' = o.cb
    /\ UNCHANGED <<pc, mode, ran, due, work, request, program>>

LibraryStep ==
    \/ RunBegin
    \/ \E t \in EofTimers : FireEofTimer(t)
    \/ TimersEnd
    \/ ProcessReq
    \/ ReqsEnd
    \/ \E k \in {"idle", "prepare", "check"} : InvokeWatcher(k) \/ WatchersEnd(k)
    \/ Poll
    \/ NextEndgame
    \/ EndgamesEnd
    \/ OnceEnds
    \/ Continues

-----------------------------------------------------------------------------
\* The system and its threads

Beside == UNCHANGED <<pc, mode, ran, due, work, cb, request, program>>

\* The requests whose handler looks at their status.
Statuses(r) ==
    IF r.type \in {"FS_EVENT", "ACCEPT", "READ"} \/ (r.type = "POLL" /\ ~Slow(r.handle))
    THEN BOOLEAN ELSE {TRUE}

KernelCompletes(r) ==
    /\ r \in loop.kernel
    /\ \/ /\ r.type # "CONNECT" /\ r.handle \notin Ttys
          /\ \E ok \in Statuses(r) : loop' = Post([loop EXCEPT !.kernel = @ \ {r}], r, ok)
       \/ /\ r.type = "CONNECT"
          /\ \E ok \in BOOLEAN : loop' \in PipeConnectThread(loop, r, ok)
       \/ /\ r.handle \in Ttys \ loop.line              \* uv_tty_post_raw_read
          /\ loop' = Post([loop EXCEPT !.kernel = @ \ {r}], r, TRUE)
       \/ /\ r.handle \in loop.line \ loop.in_console
          /\ loop' = LineThreadBegins(loop, r.handle)
       \/ /\ r.handle \in loop.line \cap loop.in_console
          /\ \E ok \in BOOLEAN : loop' = LineThreadEnds(loop, r.handle, ok)
    /\ Beside

SignalArrives(signum) ==
    /\ SignalsMeet \/ cb.kind # "signal"
    /\ \E h \in Signals : loop.signum[h] = signum
    /\ loop' = SignalDispatch(loop, signum)
    /\ Beside

ProcessExits(h) ==
    /\ h \in loop.waiting
    /\ loop' = ExitWaitCallback(loop, h)
    /\ Beside

Opened(h) == h \in loop.handle_queue
Open(h)   == Opened(h) /\ ~Has(loop, h, "CLOSING")

\* Another thread; it must not send to a handle that is closing.
OtherThreadSends(h) ==
    /\ Open(h)
    /\ loop' = AsyncSend(loop, h)
    /\ Beside

SystemStep ==
    \/ \E r \in loop.kernel : KernelCompletes(r)
    \/ \E signum \in Signums : SignalArrives(signum)
    \/ \E h \in Processes : ProcessExits(h)
    \/ \E h \in Asyncs : OtherThreadSends(h)

-----------------------------------------------------------------------------
\* The client

Calls ==
    /\ pc = "outside" \/ cb.kind # "none"
    /\ UNCHANGED <<pc, mode, ran, due, work, cb, program>>

Quietly == Calls /\ UNCHANGED request

ClientOpens(h) ==
    /\ Quietly /\ loop.flags[h] = {}
    /\ loop' \in
         CASE h \in Udps      -> UdpInits(loop, h)
           [] h \in Polls     -> {PollInit(loop, h)}
           [] h \in Asyncs    -> {AsyncInit(loop, h)}
           [] h \in Processes -> {Spawn(loop, h), SpawnFailed(loop, h)}
           [] h \in Ttys      -> {TtyInit(loop, h)}
           [] OTHER           -> {HandleInit(loop, h)}

\* A uv_udp_t: bind, open, join a group, receive, send at once.
ClientUsesUdp(h) ==
    /\ Quietly /\ Open(h)
    /\ \/ \E f \in Families : loop' \in UdpBinds(loop, h, f)
       \/ loop' \in UdpOpens(loop, h)
       \/ loop' \in RecvStarts(loop, h, RecvAnswers)
       \/ loop' = RecvStop(loop, h)
       \/ loop' \in UdpTrySends(loop, h)

ClientPolls(h) ==
    /\ Quietly /\ Open(h)
    /\ \E events \in SUBSET EventsOf(h) : loop' \in PollSets(loop, h, events)

ClientUsesSignal(h) ==
    /\ Quietly /\ Open(h)
    /\ \/ \E signum \in Signums : loop' = SignalStart(loop, h, signum, h \in OneShots)
       \/ loop' = SignalStop(loop, h)

\* A uv_fs_event_t is not stopped in its own callback, nor started while the request
\* of its last start is out.
ClientUsesFsEvent(h) ==
    /\ Quietly /\ Open(h)
    /\ \/ ~loop.req_pending[h] /\ cb.handle # h /\ loop' = FsEventStart(loop, h)
       \/ cb.handle # h /\ loop' = FsEventStop(loop, h)

ClientUsesWatcher(h) ==
    /\ Quietly /\ Open(h)
    /\ loop' \in {WatcherStart(loop, h), WatcherStop(loop, h)}

\* uv_pipe_bind and uv_pipe_listen; a second listen is not made.
ClientListens(s) ==
    /\ Quietly /\ Open(s) /\ ~Has(loop, s, "LISTENING")
    /\ loop' \in PipeBinds(loop, s) \cup PipeListens(loop, s)

ClientAccepts(s, c) ==
    /\ Quietly /\ Open(s) /\ Open(c)
    /\ loop.pending_accepts[s] # << >>
    /\ ~Has(loop, c, "CONNECTION") /\ request[ConnectReq(c)] = "free" /\ c \notin loop.open
    /\ loop' \in PipeAccepts(loop, s, c)

\* uv_pipe_open
ClientOpensPipe(c) ==
    /\ Quietly /\ Open(c)
    /\ c \notin loop.open /\ ~Has(loop, c, "CONNECTION") /\ request[ConnectReq(c)] = "free"
    /\ \E d \in Duplexes : loop' = ConnectionInit(SetPipeHandle(loop, c, d), c)

ClientConnects(c) ==
    /\ Calls /\ Open(c) /\ ConnectReq(c) \in program.requests
    /\ request[ConnectReq(c)] = "free" /\ ~Has(loop, c, "CONNECTION")
    /\ loop' \in PipeConnects(loop, ConnectReq(c))
    /\ request' = [request EXCEPT ![ConnectReq(c)] = "issued"]

ClientReads(c) ==
    /\ Quietly /\ Open(c) /\ Has(loop, c, "CONNECTION")
    /\ IF c \in Pipes THEN loop' \in PipeReadStarts(loop, c) \cup {ReadStop(loop, c)}
       ELSE loop' \in TtyReadStarts(loop, c) \cup TtyReadStops(loop, c, FALSE)

ClientSetsMode(h) ==
    /\ Quietly /\ Open(h)
    /\ \/ ModesMeet \/ ~Has(loop, h, "TTY_RAW")
       \/ loop.flags[h] \cap {"READING", "READ_PENDING"} = {} /\ h \notin loop.key_left
    /\ loop' \in TtySetsMode(loop, h)

\* Calls that take a request: uv_udp_send, and uv_write and uv_shutdown of a stream
\* that is connected.
Taken(r) ==
    CASE r.type = "SEND"                        -> UdpSends(loop, r)
      [] r.type = "WRITE" /\ r.handle \in Pipes -> PipeWrites(loop, r)
      [] r.type = "WRITE" /\ r.handle \in Ttys  -> TtyWrites(loop, r)
      [] r.type = "SHUTDOWN"                    -> {Shutdown(loop, r.handle)}

ClientRequests(r) ==
    /\ Calls /\ Open(r.handle) /\ request[r] = "free"
    /\ r.handle \in Streams => Has(loop, r.handle, "CONNECTION")
    /\ loop' \in Taken(r)
    /\ request' = [request EXCEPT ![r] = IF r \in loop'.active_reqs THEN "issued" ELSE @]

\* uv_close
Closes(L, h) ==
    CASE h \in Udps      -> {UdpClose(L, h)}
      [] h \in Polls     -> {PollClose(L, h)}
      [] h \in Asyncs    -> {AsyncClose(L, h)}
      [] h \in Signals   -> {SignalClose(L, h)}
      [] h \in FsEvents  -> {FsEventClose(L, h)}
      [] h \in Processes -> {ProcessClose(L, h)}
      [] h \in Prepares \cup Checks \cup Idles -> {WatcherClose(L, h)}
      [] h \in PipeServers \cup Pipes -> {PipeClose(L, h)}
      [] h \in Ttys      -> TtyCloses(L, h)

ClientCloses(h) ==
    /\ Quietly /\ Open(h)
    /\ loop' \in Closes(loop, h)

ClientStep ==
    \/ \E h \in program.handles : ClientOpens(h) \/ ClientCloses(h)
    \/ \E h \in program.handles \cap Udps : ClientUsesUdp(h)
    \/ \E h \in program.handles \cap Polls : ClientPolls(h)
    \/ \E h \in program.handles \cap Signals : ClientUsesSignal(h)
    \/ \E h \in program.handles \cap FsEvents : ClientUsesFsEvent(h)
    \/ \E h \in program.handles \cap (Prepares \cup Checks \cup Idles) : ClientUsesWatcher(h)
    \/ \E s \in program.handles \cap PipeServers : ClientListens(s)
    \/ \E s \in program.handles \cap PipeServers, c \in program.handles \cap Pipes : ClientAccepts(s, c)
    \/ \E c \in program.handles \cap Pipes : ClientOpensPipe(c) \/ ClientConnects(c)
    \/ \E c \in program.handles \cap Streams : ClientReads(c)
    \/ \E h \in program.handles \cap TtyInputs : ClientSetsMode(h)
    \/ \E r \in program.requests : r.type # "CONNECT" /\ ClientRequests(r)

Next == LibraryStep \/ SystemStep \/ ClientStep

Spec == Init /\ [][Next]_vars

=============================================================================
