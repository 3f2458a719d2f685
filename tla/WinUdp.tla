------------------------------- MODULE WinUdp -------------------------------
(***************************************************************************)
(* win/udp.c over the record of Win.  uv_active_udp_streams_threshold is 0, *)
(* so every receive is a zero-byte one with MSG_PEEK, followed by a         *)
(* non-blocking WSARecvFrom.                                               *)
(***************************************************************************)
EXTENDS Win

Families == {"AF_INET", "AF_INET6"}

\* uv_udp_set_socket
SetSocket(L, h, family) ==
    LET A == [L EXCEPT !.socket[h] = family]
    IN  IF family = "AF_INET6" THEN SetFlags(A, h, {"IPV6"})
        ELSE Check(A, "udp: not IPV6", ~Has(L, h, "IPV6"))

\* uv_udp_init_ex: with a family the socket is made at once.  One that fails takes
\* the handle off the queue again.
UdpInits(L, h) ==
    {HandleInit(L, h)} \cup {SetSocket(HandleInit(L, h), h, f) : f \in Families}

\* uv_udp_maybe_bind: each place it may stop at, and whether it succeeded.  Whatever
\* fails, the socket it made and the IPV6 flag it set stay.
MaybeBind(L, h, family) ==
    LET A == IF L.socket[h] = "none" THEN SetSocket(L, h, family) ELSE L
        B == IF family = "AF_INET6" THEN SetFlags(A, h, {"IPV6"}) ELSE A
    IN  IF Has(L, h, "BOUND") THEN {[loop |-> L, ok |-> TRUE]}
        ELSE {[loop |-> L, ok |-> FALSE], [loop |-> A, ok |-> FALSE], [loop |-> B, ok |-> FALSE]}
             \cup IF A.socket[h] # family THEN {}
                  ELSE {[loop |-> SetFlags(B, h, {"BOUND"}), ok |-> TRUE]}

\* uv__udp_bind, uv__udp_set_membership4 and 6: what they may leave behind.
UdpBinds(L, h, family) == {b.loop : b \in MaybeBind(L, h, family)}

\* uv_udp_open
UdpOpens(L, h) ==
    IF L.socket[h] = "none" THEN {SetSocket(L, h, f) : f \in Families} ELSE {L}

-----------------------------------------------------------------------------
\* Receiving

\* uv_udp_queue_recv
QueueRecv(L, h, how) ==
    LET A == Check(L, "udp: reading", Has(L, h, "READING"))
        B == Check(A, "udp: no read pending", ~Has(L, h, "READ_PENDING"))
        C == SetFlags(B, h, {"ZERO_READ"} \cup IF how = "failed" THEN {} ELSE {"READ_PENDING"})
    IN  Issue(IncreasePendingReqCount(C, h, 1), RecvReq(h), how)

\* uv__udp_recv_start.
RecvStarts(L, h, answers) ==
    LET Started(b) == IncreaseActiveCount(SetFlags(b.loop, h, {"READING"}), h)
    IN  IF Has(L, h, "READING") THEN {L}
        ELSE {b.loop : b \in {x \in MaybeBind(L, h, "AF_INET") : ~x.ok}}
             \cup UNION {IF Has(L, h, "READ_PENDING") THEN {Started(b)}
                         ELSE {QueueRecv(Started(b), h, how) : how \in answers} :
                            b \in {x \in MaybeBind(L, h, "AF_INET") : x.ok}}

RecvStop(L, h) == StopIf(L, h, "READING")

\* uv_process_udp_recv_req up to recv_cb: an error that is only the echo of a failed
\* send, or a message too long for the buffer, is followed by the receive all the
\* same.  alloc_cb may refuse a buffer, and the receive may fail for good.
UdpProcessRecv(L, p) ==
    LET h == p.req.handle
        A == Clear(L, h, {"READ_PENDING"})
        Recv(M) == Outcome(M, Callback("recv", h, p.req, "recv done"))
    IN  IF ~Has(A, h, "READING") THEN {Quiet(DecreasePendingReqCount(A, h))}
        ELSE {Recv(RecvStop(A, h)), Recv(A)}

\* "done:"
UdpRecvDone(L, h, answers) ==
    IF Has(L, h, "READING") /\ ~Has(L, h, "READ_PENDING")
    THEN {DecreasePendingReqCount(QueueRecv(L, h, how), h) : how \in answers}
    ELSE {DecreasePendingReqCount(L, h)}

-----------------------------------------------------------------------------
\* Sending

\* uv__send: what could not be sent at once and is not queued is an error of the call.
Send(L, r, how) ==
    LET h == r.handle
        A == [IncreasePendingReqCount(L, h, 1) EXCEPT !.sends[h] = @ + 1]
    IN  IF how = "failed" THEN L
        ELSE Issue(RegisterHandleReq(A, h, r), r, how)

\* uv__udp_send binds a socket that is not bound to the family of the address.
UdpSends(L, r) ==
    UNION {IF b.ok THEN {Send(b.loop, r, how) : how \in {"bypass", "queued", "failed"}}
           ELSE {b.loop} : b \in UNION {MaybeBind(L, r.handle, f) : f \in Families}}

\* uv__udp_try_send: EAGAIN while a send is queued, so that it cannot overtake one.
UdpTrySends(L, h) ==
    IF L.sends[h] # 0 THEN {L} ELSE UNION {UdpBinds(L, h, f) : f \in Families}

\* uv_process_udp_send_req up to the callback.
UdpProcessSend(L, p) ==
    LET h == p.req.handle
        A == Check(L, "udp: send_queue_count >= 1", L.sends[h] >= 1)
        B == UnregisterHandleReq([A EXCEPT !.sends[h] = @ - 1], h, p.req)
    IN  {Outcome(B, Callback("send", h, p.req, "decrease"))}

-----------------------------------------------------------------------------
\* Closing

UdpClose(L, h) ==
    LET A == HandleClosing([RecvStop(L, h) EXCEPT !.socket[h] = "none"], h)
    IN  WantEndgameIf(A, h, L.reqs_pending[h] = 0)

UdpEndgame(L, h) ==
    IF Has(L, h, "CLOSING") /\ L.reqs_pending[h] = 0 THEN {Closed(L, h)} ELSE {Quiet(L)}

=============================================================================
