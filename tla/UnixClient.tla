----------------------------- MODULE UnixClient -----------------------------
(***************************************************************************)
(* What a client of UnixLoop calls, from outside uv_run or from a callback, *)
(* and what the system and other threads do beside it.                      *)
(***************************************************************************)
EXTENDS UnixLoop

CONSTANTS
    PollEvents,  \* the sets of events uv_poll_start is asked for
    Timeouts,    \* those of uv_timer_start
    Repeats      \* those of uv_timer_start and uv_timer_set_repeat

Beside == UNCHANGED <<pc, mode, ran, timeout, todo, cb, request, program>>

Opened(h) == h \in loop.handle_queue
Open(h)   == Opened(h) /\ ~IsClosing(loop, h)

\* A signal nothing watches would end the process; what it writes finds room in the pipe.
SignalArrives(s) ==
    /\ loop.action[s] # "default" /\ s # SIGCHLD
    /\ Len(loop.signal_pipe) + Cardinality(WatchersOf(loop, s)) <= SignalPipe
    /\ loop' = SignalHandler(loop, s)
    /\ Beside

\* A child ends, and SIGCHLD finds room too.
ProcessExits(h) ==
    LET A == [loop EXCEPT !.children[h] = "zombie"]
    IN  /\ loop.children[h] = "running" /\ Len(loop.signal_pipe) < SignalPipe
        /\ loop' = IF loop.action[SIGCHLD] = "default" THEN A ELSE SignalHandler(A, SIGCHLD)
        /\ Beside

\* Another thread; it must not send to a handle that is closing.
OtherThreadSends(h) ==
    /\ Open(h) /\ h \notin loop.async_pending
    /\ loop' = AsyncSend(loop, h)
    /\ Beside

FileChanges ==
    /\ loop.inotify_list # "none" /\ ~loop.inotify_events
    /\ loop' = [loop EXCEPT !.inotify_events = TRUE]
    /\ Beside

SystemStep ==
    \/ \E s \in Signums : SignalArrives(s)
    \/ \E h \in Processes : ProcessExits(h)
    \/ \E h \in Asyncs : OtherThreadSends(h)
    \/ FileChanges

-----------------------------------------------------------------------------
Calls ==
    /\ pc = "outside" \/ cb # NoCallback
    /\ UNCHANGED <<pc, mode, ran, timeout, todo, cb, program>>

Quietly == Calls /\ UNCHANGED request

ClientOpens(h) ==
    /\ Quietly /\ loop.flags[h] = {} /\ ~Opened(h)
    /\ h \in Polls => PollFd[h] \notin loop.open
    /\ loop' \in
         CASE h \in Servers \cup Streams ->
                  {StreamInit(loop, h)} \cup (IF h \in Pipes THEN {} ELSE {TcpInitEx(loop, h)})
           [] h \in Udps      -> UdpInits(loop, h)
           [] h \in Polls     -> {PollInit(loop, h)}
           [] h \in Asyncs    -> {AsyncInit(loop, h)}
           [] h \in Processes -> Spawns(loop, h)
           [] OTHER           -> {HandleInit(loop, h)}

\* uv_tcp_bind, uv_pipe_bind and uv_listen, which is called once.
ClientListens(s) ==
    /\ Quietly /\ Open(s) /\ s \notin loop.listening
    /\ loop' \in Binds(loop, s) \cup Listens(loop, s)

\* Of a pipe that passes descriptors too.
ClientAccepts(s, c) ==
    /\ Quietly /\ Open(s) /\ Open(c) /\ s # c
    /\ s \in Streams => s \in IpcPipes
    /\ loop.accepted_fd[s] # -1 /\ loop.fd[c] = -1 /\ c \notin loop.connect_req
    /\ loop' = Accept(loop, s, c)

ClientOpensStream(c) ==
    /\ Quietly /\ Open(c) /\ loop.fd[c] = -1 /\ c \notin loop.connect_req /\ FreeFds(loop) # {}
    /\ loop' = StreamOpen(loop, c)

\* A stream is connected before anything else is done with it.
Fresh(c) ==
    /\ ~Has(loop, c, "READING") /\ c \notin loop.shutdown_req
    /\ loop.write_queue[c] = << >> /\ loop.completed[c] = << >>
    /\ ~InSeq(loop.pending \o loop.pq, c) /\ \A i \in DOMAIN todo : todo[i].handle # c

ClientConnects(c) ==
    /\ Calls /\ Open(c) /\ ConnectReq(c) \in program.requests
    /\ request[ConnectReq(c)] = "free"
    /\ Fresh(c)
    /\ loop' \in Connects(loop, c)
    /\ request' = [request EXCEPT ![ConnectReq(c)] =
                       IF ConnectReq(c) \in loop'.active_reqs THEN "issued" ELSE @]

\* Whether reading may end: not in alloc_cb, the buffer of which is used without a test.
MayStop(h) == "allocs" \in Meets \/ cb # Callback("alloc", h, NoReq)

\* uv_read_start, uv_read_stop, uv_try_write
ClientUsesStream(c) ==
    /\ Quietly /\ Open(c) /\ loop.fd[c] # -1
    /\ loop' \in {ReadStart(loop, c)} \cup TryWrites(loop, c)
                 \cup (IF MayStop(c) THEN {ReadStop(loop, c)} ELSE {})

ClientUsesUdp(h) ==
    /\ Quietly /\ Open(h)
    /\ loop' \in UdpBinds(loop, h) \cup UdpRecvStarts(loop, h) \cup UdpTrySends(loop, h)
                 \cup (IF MayStop(h) THEN {UdpRecvStop(loop, h)} ELSE {})
                 \cup (IF FreeFds(loop) = {} THEN {} ELSE {UdpOpen(loop, h)})

\* Whether the descriptor of a uv_poll_t is still the client's file.
HasFile(h) ==
    LET n == loop.fd[h]
    IN  /\ n \in loop.open /\ loop.emfile_fd # n
        /\ \A w \in Watchers \ {h} : loop.fd[w] # n
        /\ \A s \in Servers \cup Streams : loop.accepted_fd[s] # n /\ ~InSeq(loop.queued_fds[s], n)

ClientPolls(h) ==
    /\ Quietly /\ Open(h) /\ HasFile(h)
    /\ \E E \in PollEvents : loop' = PollStart(loop, h, E)

\* Its file is closed when uv_close has been called: once another handle has the
\* descriptor, uv_poll_stop of this one would fail its assertion.
ClientClosesFd(h) ==
    /\ Quietly /\ Opened(h) /\ IsClosing(loop, h) /\ HasFile(h)
    /\ loop' = CloseFd(loop, loop.fd[h])

ClientUsesSignal(h) ==
    /\ Quietly /\ Open(h)
    /\ \/ \E s \in Signums \ {SIGCHLD} : loop' = SignalStart(loop, h, s, h \in OneShots)
       \/ loop' = SignalStop(loop, h)

\* A timer is not started with no timeout by the callback of a timer.
ClientUsesTimer(t) ==
    /\ Quietly /\ Open(t)
    /\ \/ \E n \in Timeouts, r \in Repeats :
             /\ cb.kind = "timer" => n > 0
             /\ loop' = TimerStart(loop, t, n, r)
       \/ loop' \in {TimerStop(loop, t), TimerAgain(loop, t)}
       \/ \E r \in Repeats : loop' = [loop EXCEPT !.repeat[t] = r]

ClientUsesWatcher(h) ==
    /\ Quietly /\ Open(h)
    /\ loop' \in {WatcherStart(loop, h), WatcherStop(loop, h)}

ClientUsesFsEvent(h) ==
    /\ Quietly /\ Open(h)
    /\ loop' \in {FsEventStop(loop, h)} \cup FsEventStarts(loop, h)

\* Calls that take a request; a stream has a descriptor by then.
Taken(r) ==
    CASE r.type = "SEND"     -> UdpSends(loop, r)
      [] r.type = "WRITE"    -> Writes(loop, r)
      [] r.type = "SHUTDOWN" -> {StreamShutdown(loop, r.handle)}

ClientRequests(r) ==
    /\ Calls /\ Open(r.handle) /\ request[r] = "free"
    /\ r.handle \in Streams => loop.fd[r.handle] # -1
    /\ "connects" \in Meets \/ r.type # "SHUTDOWN" \/ r.handle \notin loop.connect_req
    /\ loop' \in Taken(r)
    /\ request' = [request EXCEPT ![r] = IF r \in loop'.active_reqs THEN "issued" ELSE @]

\* uv_close
CloseHandle(L, h) ==
    LET A == Check(L, "close: not closing", ~IsClosing(L, h))
        B == SetFlags(A, h, {"UV_CLOSING"})
        Pend(M) == MakeClosePending(M, h)
    IN  CASE h \in Servers \cup Streams -> Pend(StreamClose(B, h))
          [] h \in Udps      -> Pend(UdpClose(B, h))
          [] h \in Polls     -> Pend(PollStop(B, h))
          [] h \in Asyncs    -> Pend(AsyncClose(B, h))
          [] h \in Timers    -> Pend(TimerStop(B, h))
          [] h \in Processes -> Pend(ProcessClose(B, h))
          [] h \in FsEvents  -> Pend(FsEventStop(B, h))
          [] h \in Signals   -> SignalClose(B, h)
          [] h \in Prepares \cup Checks \cup Idles -> Pend(WatcherStop(B, h))

\* Whether none of the meetings would come of it.
MayClose(h) ==
    /\ MayStop(h)
    /\ \A u \in {h} \cap Udps :
          \/ "sends" \in Meets \/ loop.write_queue[u] = << >>
          \/ \A i \in DOMAIN todo : todo[i].do # "sendmsg" \/ todo[i].handle # u
    /\ "exits" \in Meets \/ ~InSeq(loop.exited, h)

ClientCloses(h) ==
    /\ Quietly /\ Open(h) /\ MayClose(h)
    /\ loop' = CloseHandle(loop, h)

\* uv_loop_fork, in a child; not from a callback.
ClientForks ==
    /\ Quietly /\ pc = "outside"
    /\ \/ "fork" \in Meets
       \/ /\ \A i \in DOMAIN loop.watcher_queue : loop.events[loop.watcher_queue[i]] = {}
          /\ loop.signal_pipe = << >> /\ loop.async_pending = {}
    /\ loop' = LoopFork(loop)

Uses(h) ==
    \/ h \in Servers /\ ClientListens(h)
    \/ h \in Servers \cup IpcPipes /\ \E c \in program.handles \cap (Streams \cup Udps) :
          ClientAccepts(h, c)
    \/ h \in Streams /\ (ClientOpensStream(h) \/ ClientConnects(h) \/ ClientUsesStream(h))
    \/ h \in Udps /\ ClientUsesUdp(h)
    \/ h \in Polls /\ (ClientPolls(h) \/ ClientClosesFd(h))
    \/ h \in Signals /\ ClientUsesSignal(h)
    \/ h \in Timers /\ ClientUsesTimer(h)
    \/ h \in FsEvents /\ ClientUsesFsEvent(h)
    \/ h \in Prepares \cup Checks \cup Idles /\ ClientUsesWatcher(h)

ClientStep ==
    \/ \E h \in program.handles : ClientOpens(h) \/ ClientCloses(h)
    \/ \E h \in program.handles \ program.kept : Uses(h)
    \/ \E r \in program.requests : r.type # "CONNECT" /\ ClientRequests(r)
    \/ ClientForks

Next == LibraryStep \/ SystemStep \/ ClientStep

Spec == Init /\ [][Next]_vars

=============================================================================
