----------------------------- MODULE UnixStream -----------------------------
(***************************************************************************)
(* Streams on Unix (unix/stream.c, tcp.c, pipe.c): connecting, listening    *)
(* and accepting, reading, writing, shutting down and closing.  What read,  *)
(* write, accept and connect return is the system's choice; how many        *)
(* descriptors there are decides which calls fail for want of one.          *)
(***************************************************************************)
EXTENDS UnixIo

\* The bounds of the loops of one event: uv__read reads at most 32 times, uv__server_io
\* as long as there are connections to accept.
ReadCount == 2
Backlog   == 2

NoSize(L, h) == L.write_queue[h] = << >>
                /\ \A i \in DOMAIN L.completed[h] : ~L.completed[h][i].error

StopIfIdle(L, h, E) == IF IoActive(L, h, E) THEN L ELSE HandleStop(L, h)

\* uv__stream_init; the spare descriptor is opened by the first one that can.
StreamInit(L, h) ==
    LET A == HandleInit(L, h)
    IN  IF L.emfile_fd = -1 /\ FreeFds(L) # {}
        THEN [OpenFd(A) EXCEPT !.emfile_fd = LowestFd(L)] ELSE A

\* uv__socket and uv__stream_open of its descriptor.
NewSocket(L, h, F) == [OpenFd(SetFlags(L, h, F)) EXCEPT !.fd[h] = LowestFd(L)]

\* maybe_new_socket, when it succeeds
MaybeNewSocket(L, h, F) == IF L.fd[h] # -1 THEN SetFlags(L, h, F) ELSE NewSocket(L, h, F)

HasSocket(L, h) == L.fd[h] # -1 \/ FreeFds(L) # {}

Duplex == {"READABLE", "WRITABLE"}

\* uv_tcp_init_ex with a domain
TcpInitEx(L, h) ==
    LET A == StreamInit(L, h)
    IN  IF FreeFds(A) = {} THEN [A EXCEPT !.handle_queue = @ \ {h}, !.flags[h] = {}]
        ELSE NewSocket(A, h, {})

\* uv__tcp_bind: EADDRINUSE is kept for connect or listen.
TcpBinds(L, h) ==
    LET A == MaybeNewSocket(L, h, Duplex)
        B == SetFlags(A, h, {"BOUND"})
    IN  IF ~HasSocket(L, h) THEN {L}
        ELSE {A, [B EXCEPT !.delayed_error = @ \ {h}], [B EXCEPT !.delayed_error = @ \cup {h}]}

PipeBinds(L, h) ==
    {L} \cup (IF L.fd[h] = -1 /\ FreeFds(L) # {} THEN {NewSocket(L, h, {"BOUND"})} ELSE {})

Binds(L, h) == IF h \in Pipes THEN PipeBinds(L, h) ELSE TcpBinds(L, h)

\* uv_listen, of uv_tcp_listen or uv_pipe_listen
Listens(L, h) ==
    LET A == IF h \in Pipes THEN L ELSE MaybeNewSocket(L, h, {"READABLE"})
        B == [SetFlags(A, h, IF h \in Pipes THEN {} ELSE {"BOUND"}) EXCEPT !.listening = @ \cup {h}]
    IN  IF h \in L.delayed_error \/ ~HasSocket(L, h) \/ (h \in Pipes /\ L.fd[h] = -1) THEN {L}
        ELSE {A, HandleStart(IoStart(B, h, {"IN"}), h)}

\* uv_tcp_open, uv_pipe_open of a descriptor the client has just opened
StreamOpen(L, h) == NewSocket(L, h, Duplex)

-----------------------------------------------------------------------------
\* Connecting

TakesConnect(L, h) ==
    [ReqRegister(L, ConnectReq(h)) EXCEPT !.connect_req = @ \cup {h}]

\* uv__tcp_connect: refused at once is reported by the next tick, another failure at once.
TcpConnects(L, h) ==
    LET A == [MaybeNewSocket(L, h, Duplex) EXCEPT !.delayed_error = @ \ {h}]
        B == IoStart(TakesConnect(A, h), h, {"OUT"})
    IN  IF h \in L.connect_req \/ ~HasSocket(L, h) THEN {L}
        ELSE {A, B, IoFeed([B EXCEPT !.delayed_error = @ \cup {h}], h)}

\* uv_pipe_connect, which has no other way to report a failure.
PipeConnects(L, h) ==
    LET A == IF L.fd[h] = -1 THEN [OpenFd(L) EXCEPT !.fd[h] = LowestFd(L)] ELSE L
        B == IF L.fd[h] = -1 THEN SetFlags(A, h, Duplex) ELSE A
        C == IoStart(B, h, {"IN", "OUT"})
        Failed(M) == IoFeed(TakesConnect([M EXCEPT !.delayed_error = @ \cup {h}], h), h)
    IN  IF ~HasSocket(L, h) THEN {Failed(L)}
        ELSE {Failed(A), TakesConnect([C EXCEPT !.delayed_error = @ \ {h}], h)}

Connects(L, h) == IF h \in Pipes THEN PipeConnects(L, h) ELSE TcpConnects(L, h)

\* uv__stream_connect
StreamConnect(L, h) ==
    LET delayed == h \in L.delayed_error
        A == Check([L EXCEPT !.delayed_error = @ \ {h}], "connect: fd >= 0",
                   delayed \/ L.fd[h] >= 0)
        B == ReqUnregister([A EXCEPT !.connect_req = @ \ {h}], ConnectReq(h))
        Ends(ok) ==
            Outcome(IF ok /\ L.write_queue[h] # << >> THEN B ELSE IoStop(B, h, {"OUT"}),
                    Callback("connect", h, ConnectReq(h)),
                    IF ok THEN << >> ELSE <<Frame("flush", h, 0), Frame("write callbacks", h, 0)>>)
    IN  IF delayed THEN {Ends(FALSE)}
        ELSE {Ends(TRUE), Ends(FALSE), Quiet(A)}              \* EINPROGRESS

\* uv__stream_flush_write_queue
Flush(L, h) ==
    [L EXCEPT !.write_queue[h] = << >>,
              !.completed[h] = @ \o [i \in DOMAIN L.write_queue[h] |->
                                        [req |-> L.write_queue[h][i], error |-> TRUE]]]

\* What follows the callback of a connect that failed.
FlushFailed(L, h) == Quiet(IF L.fd[h] = -1 THEN L ELSE Flush(L, h))

-----------------------------------------------------------------------------
\* Listening and accepting

\* uv__server_io
ServerIo(L, h, revents) ==
    LET A == Check(L, "server_io: POLLIN", "IN" \in revents)
        B == Check(A, "server_io: accepted_fd = -1", L.accepted_fd[h] = -1)
        C == Check(B, "server_io: not closing", ~IsClosing(L, h))
    IN  Outcome(IoStart(C, h, {"IN"}), NoCallback, <<Frame("accept", h, Backlog)>>)

\* What uv__emfile_trick leaves: the spare descriptor is given up, what there is accepted
\* and closed, and the spare taken again if it can be.
Tricked(L) ==
    IF L.emfile_fd = -1 THEN {} ELSE {L, [CloseFd(L, L.emfile_fd) EXCEPT !.emfile_fd = -1]}

\* One turn of its loop.  EMFILE or ENFILE is met with the trick, which ends in EAGAIN or
\* in another error; that, or the one there is no trick for, is what connection_cb is told.
AcceptNext(L, h, n) ==
    LET A == Check(L, "accept: accepted_fd = -1", L.accepted_fd[h] = -1)
        Told(M) == Calling("connection", M, h, <<Frame("accept", h, n - 1)>>)
    IN  IF L.fd[h] = -1 THEN {Quiet(L)}
        ELSE {Quiet(A)}                                        \* EAGAIN
             \cup (IF n = 0 THEN {}
                   ELSE {Quiet(M) : M \in Tricked(A)} \cup {Told(M) : M \in {A} \cup Tricked(A)})
             \cup (IF n = 0 \/ FreeFds(L) = {} THEN {}
                   ELSE {Calling("connection", [OpenFd(A) EXCEPT !.accepted_fd[h] = LowestFd(L)],
                                 h, <<Frame("accepted", h, n)>>)})

\* Mutant: the watcher of a server goes on though a connection waits to be accepted.
AcceptedOn(L, h, n) == Outcome(L, NoCallback, <<Frame("accept", h, n - 1)>>)

\* "The user hasn't yet accepted called uv_accept()"
Accepted(L, h, n) ==
    IF L.accepted_fd[h] # -1 THEN Quiet(IoStop(L, h, {"IN"}))
    ELSE Outcome(L, NoCallback, <<Frame("accept", h, n - 1)>>)

\* uv_accept; the client is a stream or, of a pipe that passes descriptors, a uv_udp_t.
Accept(L, s, c) ==
    LET n  == L.accepted_fd[s]
        ok == L.fd[c] = -1
        A  == IF ok THEN SetFlags([L EXCEPT !.fd[c] = n], c,
                                  IF c \in Udps THEN {"BOUND"} ELSE Duplex \cup {"BOUND"})
              ELSE CloseFd(L, n)
        B  == [A EXCEPT !.accepted_fd[s] = -1]
    IN  IF n = -1 THEN L
        ELSE IF L.queued_fds[s] # << >>
        THEN [A EXCEPT !.accepted_fd[s] = Head(L.queued_fds[s]), !.queued_fds[s] = Tail(@)]
        ELSE IF ok THEN IoStart(B, s, {"IN"}) ELSE B

-----------------------------------------------------------------------------
\* Reading

ReadStart(L, h) ==
    LET A == Check(SetFlags(L, h, {"READING"}), "read_start: fd >= 0", L.fd[h] >= 0)
    IN  IF IsClosing(L, h) THEN L ELSE HandleStart(IoStart(A, h, {"IN"}), h)

StopReading(L, h) ==
    StopIfIdle(IoStop(Clear(L, h, {"READING"}), h, {"IN"}), h, {"OUT"})

ReadStop(L, h) == IF Has(L, h, "READING") THEN StopReading(L, h) ELSE L

\* uv__stream_eof
StreamEof(L, h) ==
    LET A == IoStop(SetFlags(L, h, {"READ_EOF"}), h, {"IN"})
    IN  Calling("read", StopIfIdle(A, h, {"OUT"}), h, <<Frame("read eof", h, 0)>>)

\* uv__stream_recv_cmsg of one descriptor
RecvFd(L, h) ==
    LET n == LowestFd(L)
    IN  IF L.accepted_fd[h] = -1 THEN [OpenFd(L) EXCEPT !.accepted_fd[h] = n]
        ELSE [OpenFd(L) EXCEPT !.queued_fds[h] = Append(@, n)]

\* One turn of the loop of uv__read begins with alloc_cb.
Read(L, h, n) ==
    IF ~Has(L, h, "READING") \/ n = 0 THEN Quiet(L)
    ELSE Calling("alloc", L, h, <<Frame("read into", h, n)>>)

\* What it does with the buffer; read_cb, which uv_read_stop takes away, is called
\* whatever comes of it.
ReadInto(L, h, n) ==
    LET B    == Check(L, "read: read_cb", Has(L, h, "READING"))
        A    == Check(B, "read: fd >= 0", L.fd[h] >= 0)
        Got  == {A} \cup (IF h \in IpcPipes /\ FreeFds(L) # {} THEN {RecvFd(A, h)} ELSE {})
        More(M) == Calling("read", M, h, <<Frame("read", h, n - 1)>>)
        Part(M) == Calling("read", M, h, <<Frame("read partial", h, 0)>>)
    IN  {Calling("read", B, h, << >>),                             \* UV_ENOBUFS
         Calling("read", IF Has(A, h, "READING") THEN IoStart(A, h, {"IN"}) ELSE A,
                 h, << >>),                                        \* EAGAIN
         Calling("read", A, h, <<Frame("read error", h, 0)>>),
         StreamEof(A, h)}
        \cup {More(M) : M \in Got} \cup {Part(M) : M \in Got}

-----------------------------------------------------------------------------
\* Writing

Finish(L, h, error) ==
    IoFeed([L EXCEPT !.completed[h] = Append(@, [req |-> Head(L.write_queue[h]), error |-> error]),
                     !.write_queue[h] = Tail(@)], h)

\* uv__write
Write(L, h) ==
    LET A == Check(L, "write: fd >= 0", L.fd[h] >= 0)
    IN  IF L.write_queue[h] = << >> THEN {A}
        ELSE {Finish(A, h, FALSE),
              IoStart(A, h, {"OUT"}),                              \* EAGAIN, or not all of it
              StopIfIdle(IoStop(Finish(A, h, TRUE), h, {"OUT"}), h, {"IN"})}

\* uv_write2
Writes(L, r) ==
    LET h == r.handle
        A == [ReqRegister(L, r) EXCEPT !.write_queue[h] = Append(@, r)]
    IN  IF L.fd[h] < 0 THEN {L}
        ELSE IF h \in L.connect_req THEN {A}
        ELSE IF NoSize(L, h) THEN Write(A, h)
        ELSE {IoStart(A, h, {"OUT"})}

\* uv_try_write: its request is off the queues again, whatever came of it, but the watcher
\* is fed if the request was finished.
TryWrites(L, h) ==
    LET Back(M) == IF IoActive(L, h, {"OUT"}) THEN M ELSE IoStop(M, h, {"OUT"})
    IN  IF h \in L.connect_req \/ ~NoSize(L, h) \/ L.fd[h] < 0 THEN {L}
        ELSE {Back(IoFeed(L, h)),
              Back(IoStart(L, h, {"OUT"})),
              Back(StopIfIdle(IoStop(IoFeed(L, h), h, {"OUT"}), h, {"IN"}))}

\* uv__write_callbacks
WriteCallbacks(L, h) ==
    LET r == Head(L.completed[h]).req
    IN  IF L.completed[h] = << >> THEN Quiet(L)
        ELSE Outcome(ReqUnregister([L EXCEPT !.completed[h] = Tail(@)], r),
                     Callback("write", h, r), <<Frame("write callbacks", h, 0)>>)

\* uv_shutdown
StreamShutdown(L, h) ==
    LET A == Check(L, "shutdown: fd >= 0", L.fd[h] >= 0)
        B == [ReqRegister(A, ShutdownReq(h)) EXCEPT !.shutdown_req = @ \cup {h}]
    IN  IF ~Has(L, h, "WRITABLE") \/ L.flags[h] \cap {"SHUT", "SHUTTING", "UV_CLOSING"} # {}
        THEN L ELSE IoStart(SetFlags(B, h, {"SHUTTING"}), h, {"OUT"})

\* uv__drain, called when the write queue is empty; shutdown(2) may fail.
Drain(L, h) ==
    LET A == IoStop(L, h, {"OUT"})
        B == Check(A, "drain: shutdown_req", h \in L.shutdown_req)
        C == ReqUnregister(Clear([B EXCEPT !.shutdown_req = @ \ {h}], h, {"SHUTTING"}),
                           ShutdownReq(h))
        Called(M) == Outcome(M, Callback("shutdown", h, ShutdownReq(h)), << >>)
    IN  IF ~Has(L, h, "SHUTTING") \/ L.flags[h] \cap {"UV_CLOSING", "SHUT"} # {} THEN {Quiet(A)}
        ELSE {Called(SetFlags(C, h, {"SHUT"})), Called(C)}

-----------------------------------------------------------------------------
\* uv__stream_io, and where it goes on.

StreamIo(L, h, revents) ==
    LET A == Check(L, "stream_io: not closing", ~IsClosing(L, h))
        B == Check(A, "stream_io: fd >= 0", L.fd[h] >= 0)
        reads == IF revents \cap {"IN", "ERR", "HUP"} # {}
                 THEN <<Frame("read", h, ReadCount)>> ELSE << >>
        C == IF reads = << >> THEN B ELSE Clear(B, h, {"READ_PARTIAL"})
    IN  IF h \in L.connect_req THEN StreamConnect(A, h)
        ELSE {Outcome(C, NoCallback,
                      reads \o <<Frame("hangup", h, revents), Frame("writable", h, revents)>>)}

\* "Short-circuit iff POLLHUP is set, the user is still interested in read events and
\* uv__read() reported a partial read but not EOF."
Hangup(L, h, revents) ==
    IF L.fd[h] # -1 /\ "HUP" \in revents /\ {"READING", "READ_PARTIAL"} \subseteq L.flags[h]
       /\ ~Has(L, h, "READ_EOF")
    THEN StreamEof(L, h) ELSE Quiet(L)

Writable(L, h, revents) ==
    IF L.fd[h] = -1 \/ revents \cap {"OUT", "ERR", "HUP"} = {} THEN {Quiet(L)}
    ELSE {Outcome(M, NoCallback, <<Frame("write callbacks", h, 0), Frame("drain", h, 0)>>) :
             M \in Write(L, h)}

Drained(L, h) == IF L.write_queue[h] = << >> THEN Drain(L, h) ELSE {Quiet(L)}

-----------------------------------------------------------------------------
\* Closing

\* uv__stream_close
StreamClose(L, h) ==
    LET A == HandleStop(ReadStop(IoClose(L, h), h), h)
        B == IF L.fd[h] = -1 THEN A ELSE [CloseFd(A, L.fd[h]) EXCEPT !.fd[h] = -1]
        C == IF L.accepted_fd[h] = -1 THEN B
             ELSE [CloseFd(B, L.accepted_fd[h]) EXCEPT !.accepted_fd[h] = -1]
        D == [FoldLeft(CloseFd, C, L.queued_fds[h]) EXCEPT !.queued_fds[h] = << >>]
    IN  Check(D, "stream_close: not active", ~IoActive(D, h, {"IN", "OUT"}))

\* Mutant: a connect that is cancelled stays counted.
StreamDestroyCounted(L, h) ==
    LET after == <<Frame("destroy writes", h, 0), Frame("write callbacks", h, 0),
                   Frame("destroy shutdown", h, 0)>>
    IN  IF h \in L.connect_req
        THEN Outcome(L, Callback("connect", h, ConnectReq(h)), after)
        ELSE Outcome(L, NoCallback, after)

\* uv__stream_destroy: the requests that are left are cancelled.
StreamDestroy(L, h) ==
    LET A == Check(L, "destroy: not active", ~IoActive(L, h, {"IN", "OUT"}))
        after == <<Frame("destroy writes", h, 0), Frame("write callbacks", h, 0),
                   Frame("destroy shutdown", h, 0)>>
    IN  IF h \in L.connect_req
        THEN Outcome(ReqUnregister(A, ConnectReq(h)),
                     Callback("connect", h, ConnectReq(h)), after)
        ELSE Outcome(A, NoCallback, after)

DestroyWrites(L, h) == Quiet(Flush([L EXCEPT !.connect_req = @ \ {h}], h))

DestroyShutdown(L, h) ==
    LET A == Check(L, "destroy: write_queue_size = 0", NoSize(L, h))
    IN  IF h \in L.shutdown_req
        THEN Outcome(ReqUnregister([A EXCEPT !.shutdown_req = @ \ {h}], ShutdownReq(h)),
                     Callback("shutdown", h, ShutdownReq(h)), << >>)
        ELSE Quiet(A)

=============================================================================
