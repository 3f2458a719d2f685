------------------------------- MODULE UnixUdp -------------------------------
(***************************************************************************)
(* Datagram sockets on Unix (unix/udp.c).                                  *)
(***************************************************************************)
EXTENDS UnixStream

\* uv__udp_recvmsg goes on while its count of 32 lasts.
RecvCount == 1

\* uv_udp_init_ex, without a domain or with one
UdpInits(L, h) ==
    {HandleInit(L, h)}
    \cup (IF FreeFds(L) = {} THEN {L} ELSE {NewSocket(HandleInit(L, h), h, {})})

\* uv__udp_bind: the socket stays when bind(2) fails.
UdpBinds(L, h) ==
    LET A == IF L.fd[h] = -1 THEN NewSocket(L, h, {}) ELSE L
    IN  IF HasSocket(L, h) THEN {A, SetFlags(A, h, {"BOUND"})} ELSE {L}

\* uv__udp_maybe_deferred_bind, when it succeeds and when it fails
Bound(L, h)   == IF L.fd[h] = -1 THEN NewSocket(L, h, {"BOUND"}) ELSE L
CanBind(L, h) == HasSocket(L, h)
Unbound(L, h) ==
    IF L.fd[h] # -1 THEN {} ELSE IF CanBind(L, h) THEN {NewSocket(L, h, {})} ELSE {L}

\* uv_udp_open of a socket of the client's
UdpOpen(L, h) == IF L.fd[h] = -1 THEN NewSocket(L, h, {}) ELSE L

-----------------------------------------------------------------------------
\* Sending

NoneQueued(L, h) == L.write_queue[h] = << >> /\ L.completed[h] = << >>

\* uv__udp_sendmsg sends until the socket takes no more; the first n are sent.
Sent(L, h, n) ==
    LET q == L.write_queue[h]
        A == [L EXCEPT !.write_queue[h] = SubSeq(q, n + 1, Len(q)),
                       !.completed[h] = @ \o [i \in 1..n |-> [req |-> q[i], error |-> FALSE]]]
    IN  IF n = 0 THEN L ELSE IoFeed(A, h)

Sendmsg(L, h) ==
    {Sent(L, h, n) : n \in IF L.fd[h] = -1 THEN {Len(L.write_queue[h])}
                           ELSE 0..Len(L.write_queue[h])}

\* uv__udp_send
UdpSends(L, r) ==
    LET h == r.handle
        A == [ReqRegister(Bound(L, h), r) EXCEPT !.write_queue[h] = Append(@, r)]
        B == HandleStart(A, h)
        Starts(M) == IF M.write_queue[h] = << >> THEN M ELSE IoStart(M, h, {"OUT"})
    IN  Unbound(L, h)
        \cup (IF ~CanBind(L, h) THEN {}
              ELSE IF NoneQueued(L, h) /\ h \notin L.processing
              THEN {Starts(M) : M \in Sendmsg(B, h)}
              ELSE {IoStart(B, h, {"OUT"})})

\* uv__udp_try_send; so far as the loop can tell, it only binds.
UdpTrySends(L, h) ==
    IF ~NoneQueued(L, h) THEN {L}
    ELSE Unbound(L, h) \cup (IF CanBind(L, h) THEN {Bound(L, h)} ELSE {})

-----------------------------------------------------------------------------
\* Receiving

UdpRecvStarts(L, h) ==
    LET A == IoStart([Bound(L, h) EXCEPT !.recv_cb = @ \cup {h}], h, {"IN"})
    IN  IF IoActive(L, h, {"IN"}) THEN {L}
        ELSE Unbound(L, h) \cup (IF CanBind(L, h) THEN {HandleStart(A, h)} ELSE {})

UdpRecvStop(L, h) ==
    [StopIfIdle(IoStop(L, h, {"IN"}), h, {"OUT"}) EXCEPT !.recv_cb = @ \ {h}]

\* Mutant: without "recv_cb callback may decide to pause or close the handle".
RecvmsgOn(L, h, n) ==
    Calling("alloc", L, h, <<Frame("recvmsg into", h, n)>>)

\* A turn of uv__udp_recvmsg begins with alloc_cb.
Recvmsg(L, h, n) ==
    IF L.fd[h] = -1 \/ h \notin L.recv_cb THEN Quiet(L)
    ELSE Calling("alloc", L, h, <<Frame("recvmsg into", h, n)>>)

\* Without a buffer, a datagram, or the count the turn is the last.
RecvmsgInto(L, h, n) ==
    LET A == Check(L, "recvmsg: recv_cb", h \in L.recv_cb)
    IN  {Calling("recv", A, h, << >>)}
        \cup (IF n = 0 \/ L.fd[h] = -1 THEN {}
              ELSE {Calling("recv", A, h, <<Frame("recvmsg", h, n - 1)>>)})

-----------------------------------------------------------------------------
\* uv__udp_run_completed

RunCompleted(L, h) ==
    LET A == Check(L, "run_completed: not processing", h \notin L.processing)
    IN  Outcome([A EXCEPT !.processing = @ \cup {h}], NoCallback, <<Frame("completed", h, 0)>>)

Completed(L, h) ==
    LET A == IF L.write_queue[h] # << >> THEN L
             ELSE StopIfIdle(IoStop(L, h, {"OUT"}), h, {"IN"})
        r == Head(L.completed[h]).req
    IN  IF L.completed[h] = << >> THEN Quiet([A EXCEPT !.processing = @ \ {h}])
        ELSE Outcome(ReqUnregister([L EXCEPT !.completed[h] = Tail(@)], r),
                     Callback("send", h, r), <<Frame("completed", h, 0)>>)

\* uv__udp_io; what is to be sent is, whatever the callbacks of what was received did.
UdpIo(L, h, revents) ==
    LET A == Check(L, "recvmsg: recv_cb", "IN" \in revents => h \in L.recv_cb)
    IN  Outcome(A, NoCallback,
                (IF "IN" \in revents THEN <<Frame("recvmsg", h, RecvCount)>> ELSE << >>)
                \o (IF "OUT" \in revents THEN <<Frame("sendmsg", h, 0)>> ELSE << >>))

SendmsgThenCallbacks(L, h) ==
    {Outcome(M, NoCallback, <<Frame("run completed", h, 0)>>) : M \in Sendmsg(L, h)}

-----------------------------------------------------------------------------
\* Closing

UdpClose(L, h) ==
    LET A == HandleStop(IoClose(L, h), h)
    IN  IF L.fd[h] = -1 THEN A ELSE [CloseFd(A, L.fd[h]) EXCEPT !.fd[h] = -1]

\* uv__udp_finish_close: what was not sent is cancelled.
UdpFinishClose(L, h) ==
    LET A == Check(L, "finish_close: not active", ~IoActive(L, h, {"IN", "OUT"}))
        B == Check(A, "finish_close: fd = -1", L.fd[h] = -1)
    IN  Outcome(Flush(B, h), NoCallback,
                <<Frame("run completed", h, 0), Frame("udp closed", h, 0)>>)

UdpClosed(L, h) ==
    LET A == Check(L, "finish_close: nothing queued", NoneQueued(L, h))
    IN  Quiet([A EXCEPT !.recv_cb = @ \ {h}])

=============================================================================
