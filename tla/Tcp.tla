-------------------------------- MODULE Tcp --------------------------------
(***************************************************************************)
(* TCP streams and timers of libuv on Windows: the functions of            *)
(* win/stream.c, win/tcp.c, win/timer.c and win/handle.c that a server     *)
(* reaches, as operators over the loop record of Handles.                  *)
(*                                                                         *)
(* What the operating system answers is a parameter.  An overlapped        *)
(* operation is "bypass"ed (it succeeded at once and, the socket having    *)
(* SYNC_BYPASS_IOCP, no packet will come), "queued" (a packet will come)   *)
(* or "failed" at once.  uv_active_tcp_streams_threshold is 0, so reads    *)
(* are always zero-byte reads followed by non-blocking ones, and the count  *)
(* of active streams, compared with nothing else, is left out.             *)
(***************************************************************************)
EXTENDS Handles

Answers == {"bypass", "queued", "failed"}

-----------------------------------------------------------------------------
\* Opening

\* uv_tcp_init: AF_UNSPEC, so that no socket is made yet.
TcpInit(L, h) ==
    [HandleInit(L, h) EXCEPT !.activecnt[h] = 0, !.reqs_pending[h] = 0]

\* uv_tcp_queue_accept for each request of the domain of `how`; those that get no
\* packet from the kernel are pending at once, in the order of soon.
QueueAccepts(L, s, how, soon) ==
    LET A == Check(L, "queue_accept: listening", Has(L, s, "LISTENING"))
        B == Check(A, "queue_accept: no socket", DOMAIN how \cap L.accept_socket = {})
    IN  [B EXCEPT
           !.accept_socket   = @ \cup {r \in DOMAIN how : how[r] # "failed"},
           !.kernel          = @ \cup {r \in DOMAIN how : how[r] = "queued"},
           !.pending         = @ \o [i \in DOMAIN soon |->
                                        Packet(soon[i], how[soon[i]] = "bypass")],
           !.reqs_pending[s] = @ + Cardinality(DOMAIN how)]

QueueAccept(L, r, how) ==
    QueueAccepts(L, r.handle, [x \in {r} |-> how], IF how = "queued" THEN << >> ELSE <<r>>)

\* The sequence of the requests of R by their index in accept_reqs.
InOrder(R) ==
    {q \in [1..Cardinality(R) -> R] :
        \A i, j \in 1..Cardinality(R) : i < j => q[i].id < q[j].id}

AcceptReqsOf(s) == {r \in AcceptReqs : r.handle = s}

\* uv_tcp_listen when bind, listen and the lookup of AcceptEx succeed.  (When one
\* fails the call returns its error and changes nothing.)
TcpListen(L, s, how, soon) ==
    QueueAccepts(IncreaseActiveCount(SetFlags(L, s, {"LISTENING"}), s), s, how, soon)

\* uv_tcp_accept of the newest pending connection of s as c; sockOk says whether
\* uv_tcp_set_socket took the accepted socket.
TcpAccept(L, s, c, sockOk, how) ==
    LET r == Head(L.pending_accepts[s])
        A == IF ~sockOk THEN L
             ELSE [SetFlags(L, c, {"CONNECTION", "READABLE", "WRITABLE"}) EXCEPT
                     !.write_reqs_pending[c] = 0, !.shutdown_req = @ \ {c}]
        B == [A EXCEPT !.pending_accepts[s] = Tail(@), !.accept_socket = @ \ {r}]
    IN  IF Has(L, s, "CLOSING") THEN B ELSE QueueAccept(B, r, how)

-----------------------------------------------------------------------------
\* Reading

\* Mutant: a read that succeeds at once is taken for one whose packet will come.
QueueReadLost(L, c, how) ==
    LET A == SetFlags(L, c, {"ZERO_READ"} \cup IF how = "failed" THEN {} ELSE {"READ_PENDING"})
        B == IncreasePendingReqCount(A, c, 1)
    IN  IF how = "queued" THEN [B EXCEPT !.kernel = @ \cup {ReadReq(c)}]
        ELSE IF how = "bypass" THEN B ELSE InsertPendingReq(B, ReadReq(c), FALSE)

\* uv_tcp_queue_read.  A read that fails at once is pending without READ_PENDING.
QueueRead(L, c, how) ==
    LET A == Check(L, "queue_read: reading", Has(L, c, "READING"))
        B == Check(A, "queue_read: no read pending", ~Has(L, c, "READ_PENDING"))
        C == SetFlags(B, c, {"ZERO_READ"} \cup IF how = "failed" THEN {} ELSE {"READ_PENDING"})
        D == IncreasePendingReqCount(C, c, 1)
    IN  IF how = "queued" THEN [D EXCEPT !.kernel = @ \cup {ReadReq(c)}]
        ELSE InsertPendingReq(D, ReadReq(c), how = "bypass")

CanReadStart(L, c) == ~Has(L, c, "READING") /\ Has(L, c, "READABLE")

\* uv_read_start and uv_tcp_read_start; EALREADY or ENOTCONN when ~CanReadStart.
ReadStart(L, c, how) ==
    LET A == IncreaseActiveCount(SetFlags(L, c, {"READING"}), c)
    IN  IF ~CanReadStart(L, c) THEN L
        ELSE IF Has(L, c, "READ_PENDING") THEN A ELSE QueueRead(A, c, how)

\* uv_read_stop, and how the other functions stop reading or listening.
StopIf(L, h, f) ==
    IF Has(L, h, f) THEN DecreaseActiveCount(Clear(L, h, {f}), h) ELSE L

ReadStop(L, c) == StopIf(L, c, "READING")

\* uv_process_tcp_read_req: its start, and the read_cb of an error is due iff ErrorIsRead.
ReadReqDone(L, c) == Clear(L, c, {"READ_PENDING"})

ErrorIsRead(L, c) == Has(L, c, "READING") \/ ~Has(L, c, "ZERO_READ")

\* Mutant: READING stays set.
ReadFailedReading(L, c) == DecreaseActiveCount(L, c)

ReadFailed(L, c) == DecreaseActiveCount(Clear(L, c, {"READING"}), c)

ReadEof(L, c) == DecreaseActiveCount(Clear(L, c, {"READING", "READABLE"}), c)

\* "done:" and the end of uv_process_tcp_read_req.
ReadReqEnd(L, c, how) ==
    LET A == IF Has(L, c, "READING") /\ ~Has(L, c, "READ_PENDING")
             THEN QueueRead(L, c, how) ELSE L
    IN  DecreasePendingReqCount(A, c)

-----------------------------------------------------------------------------
\* Writing

\* uv_write and uv_tcp_write.  EPIPE unless WRITABLE; else 0, however it went.
Write(L, r, how) ==
    LET c == r.handle
        A == [IncreasePendingReqCount(L, c, 1) EXCEPT !.write_reqs_pending[c] = @ + 1]
        B == RegisterHandleReq(A, c, r)
    IN  IF ~Has(L, c, "WRITABLE") THEN L
        ELSE IF how = "queued" THEN [B EXCEPT !.kernel = @ \cup {r}]
        ELSE InsertPendingReq(B, r, how = "bypass")

\* Mutant: the request stays counted.
WriteReqEndCounted(L, c) ==
    LET A == [L EXCEPT !.write_reqs_pending[c] = @ - 1]
    IN  IF c \in A.shutdown_req /\ A.write_reqs_pending[c] = 0 THEN WantEndgame(A, c) ELSE A

\* uv_process_tcp_write_req after the callback.
WriteReqEnd(L, c) ==
    LET A == [L EXCEPT !.write_reqs_pending[c] = @ - 1]
        B == IF c \in A.shutdown_req /\ A.write_reqs_pending[c] = 0
             THEN WantEndgame(A, c) ELSE A
    IN  DecreasePendingReqCount(B, c)

\* Mutant: the shutdown is given to the kernel as if it were overlapped.
ShutdownOverlapped(L, c) ==
    LET A == [Clear(L, c, {"WRITABLE"}) EXCEPT !.shutdown_req = @ \cup {c},
                                               !.kernel = @ \cup {ShutdownReq(c)}]
    IN  IF Has(L, c, "WRITABLE")
        THEN RegisterHandleReq(IncreasePendingReqCount(A, c, 1), c, ShutdownReq(c)) ELSE L

\* uv_shutdown.  EPIPE unless WRITABLE.
Shutdown(L, c) ==
    LET A == [Clear(L, c, {"WRITABLE"}) EXCEPT !.shutdown_req = @ \cup {c}]
        B == RegisterHandleReq(IncreasePendingReqCount(A, c, 1), c, ShutdownReq(c))
    IN  IF Has(L, c, "WRITABLE") THEN WantEndgame(B, c) ELSE L

-----------------------------------------------------------------------------
\* Accepting: uv_process_tcp_accept_req, up to the connection callback.

AcceptStored(L, r) == [L EXCEPT !.pending_accepts[r.handle] = <<r>> \o @]

AcceptRefused(L, r, how) ==
    LET A == [L EXCEPT !.accept_socket = @ \ {r}]
    IN  IF Has(L, r.handle, "LISTENING") THEN QueueAccept(A, r, how) ELSE A

-----------------------------------------------------------------------------
\* Timers, but for the times themselves: uv_timer_stop and uv_timer_start.

TimerStop(L, t)  == IF Has(L, t, "ACTIVE") THEN HandleStop(L, t) ELSE L
TimerStart(L, t) == HandleStart(TimerStop(L, t), t)

-----------------------------------------------------------------------------
\* Closing

\* uv_tcp_close of a socket no other process shares.
TcpClose(L, h) ==
    LET A == StopIf(StopIf(L, h, "READING"), h, "LISTENING")
        B == HandleClosing(Clear(SetFlags(A, h, {"SOCKET_CLOSED"}), h,
                                 {"READABLE", "WRITABLE"}), h)
    IN  IF L.reqs_pending[h] = 0 THEN WantEndgame(B, h) ELSE B

TimerClose(L, t) == WantEndgame(HandleClosing(TimerStop(L, t), t), t)

\* uv_close: assert(0) of a handle that is closing already.
Close(L, h) ==
    IF Has(L, h, "CLOSING") THEN Check(L, "close: not closing", FALSE)
    ELSE IF h \in Timers THEN TimerClose(L, h) ELSE TcpClose(L, h)

\* Mutant: the shutdown does not wait for the writes.
ShutdownIsDueNow(L, h) == Has(L, h, "CONNECTION") /\ h \in L.shutdown_req

\* The three things uv_tcp_endgame may find to do.
ShutdownIsDue(L, h) ==
    /\ Has(L, h, "CONNECTION")
    /\ h \in L.shutdown_req
    /\ L.write_reqs_pending[h] = 0

CloseIsDue(L, h) ==
    /\ Has(L, h, "CLOSING")
    /\ h \in Timers \/ L.reqs_pending[h] = 0

ShutdownEnd(L, c) ==
    DecreasePendingReqCount([L EXCEPT !.shutdown_req = @ \ {c}], c)

\* uv_tcp_endgame and uv_timer_endgame of a handle whose close is due.
CloseEnd(L, h) ==
    HandleClose(Check(L, "endgame: not closed", ~Has(L, h, "CLOSED")), h)

=============================================================================
