------------------------------- MODULE WinPipe -------------------------------
(***************************************************************************)
(* Named pipes: win/pipe.c over the record of Win, without the framing of  *)
(* an ipc pipe; the thread that reads a pipe opened without                *)
(* FILE_FLAG_OVERLAPPED is a request of the system like any other.         *)
(***************************************************************************)
EXTENDS Win

Sync(h) == h \in SyncPipes

-----------------------------------------------------------------------------
\* The timer that waits for the other end to close after a shutdown

\* eof_timer_init
EofTimerInit(L, h) ==
    LET A == Check(L, "eof_timer: none yet", h \notin L.eof_timer)
        B == HandleInit([A EXCEPT !.eof_timer = @ \cup {h}], EofTimer[h])
    IN  HandleUnref(B, EofTimer[h])

EofTimerStart(L, h) ==
    LET A == Check(L, "eof_timer: a connection", Has(L, h, "CONNECTION"))
    IN  IF h \in L.eof_timer THEN TimerStart(A, EofTimer[h]) ELSE A

EofTimerStop(L, h) == IF h \in L.eof_timer THEN TimerStop(L, EofTimer[h]) ELSE L

\* eof_timer_destroy
EofTimerDestroy(L, h) ==
    IF h \in L.eof_timer THEN TimerClose([L EXCEPT !.eof_timer = @ \ {h}], EofTimer[h]) ELSE L

PipeOf(t) == CHOOSE h \in Pipes : EofTimer[h] = t

-----------------------------------------------------------------------------
\* Opening

\* uv_pipe_connection_init
ConnectionInit(L, h) ==
    SetFlags(Check(L, "pipe: no server", ~Has(L, h, "PIPESERVER")), h, {"CONNECTION"})

FirstInstance(s) == CHOOSE r \in AcceptReqsOf(s) : r.id = 1

\* uv_pipe_bind; an error leaves nothing but memory behind.
PipeBinds(L, s) ==
    LET A == SetFlags(L, s, {"PIPESERVER", "BOUND"})
    IN  {L} \cup IF Has(L, s, "BOUND") THEN {}
                 ELSE {[A EXCEPT !.accept_socket = @ \cup {FirstInstance(s)}]}

\* uv_pipe_open and, when the pipe is there at once, uv_pipe_connect: the handle and
\* what the access to it allows.
Duplexes == {{"READABLE"}, {"WRITABLE"}, {"READABLE", "WRITABLE"}}

SetPipeHandle(L, h, duplex) == SetFlags([L EXCEPT !.open = @ \cup {h}], h, duplex)

\* uv_pipe_connect: "busy" leaves it to a thread to wait for the server; otherwise
\* the request is pending at once, with what open_named_pipe and uv_set_pipe_handle
\* gave (UV_EBUSY when the handle is open already).
PipeConnects(L, r) ==
    LET h == r.handle
        Asked(M) == RegisterHandleReq(IncreasePendingReqCount(M, h, 1), h, r)
    IN  {Asked(Submit(L, r)), Asked(InsertPendingReq(L, r, FALSE))}
        \cup IF h \in L.open THEN {}
             ELSE {Asked(InsertPendingReq(SetPipeHandle(L, h, d), r, TRUE)) : d \in Duplexes}

\* The end of pipe_connect_thread_proc: the thread itself sets the handle.
PipeConnectThread(L, r, ok) ==
    LET A == [L EXCEPT !.kernel = @ \ {r}]
    IN  IF ok /\ r.handle \notin L.open
        THEN {Post(SetPipeHandle(A, r.handle, d), r, TRUE) : d \in Duplexes}
        ELSE {Post(A, r, FALSE)}

\* uv_process_pipe_connect_req up to its callback.
PipeProcessConnect(L, p) ==
    LET h == p.req.handle
        A == UnregisterHandleReq(L, h, p.req)
    IN  {Outcome(IF p.ok THEN ConnectionInit(A, h) ELSE A,
                 Callback("connect", h, p.req, "decrease"))}

-----------------------------------------------------------------------------
\* Accepting

InstanceAnswers == {"no instance", "failed", "bypass", "queued"}

\* uv_pipe_queue_accept: "bypass" is ERROR_PIPE_CONNECTED, which gets no packet.
PipeQueueAccept(L, r, first, how) ==
    LET s == r.handle
        A == Check(L, "queue_accept: listening", Has(L, s, "LISTENING"))
        B == Check(A, "queue_accept: no socket", first <=> r \in L.accept_socket)
        C == [B EXCEPT !.accept_socket = IF how \in {"bypass", "queued"} THEN @ \cup {r} ELSE @ \ {r}]
    IN  Issue(IncreasePendingReqCount(C, s, 1), r, how)

\* uv_pipe_listen with one instance pending; how answers for each.
PipeListens(L, s) ==
    LET A == IncreaseActiveCount(SetFlags(L, s, {"LISTENING"}), s)
    IN  IF ~Has(L, s, "BOUND") THEN {L}
        ELSE {PipeQueueAccept(A, FirstInstance(s), TRUE, how) : how \in InstanceAnswers \ {"no instance"}}

\* uv_process_pipe_accept_req up to the connection callback.  An instance that failed
\* is made anew, for as long as making it fails.
PipeProcessAccept(L, p) ==
    LET r == p.req
        s == r.handle
        A == Check(L, "accept: closed by uv_pipe_cleanup", r \notin L.accept_socket)
        B == Check(L, "accept: an instance", r \in L.accept_socket)
        C == [L EXCEPT !.accept_socket = @ \ {r}]
    IN  IF Has(L, s, "CLOSING") THEN {Quiet(DecreasePendingReqCount(A, s))}
        ELSE IF p.ok THEN {Outcome(AcceptStored(B, r), Callback("connection", s, r, "decrease"))}
        ELSE {Quiet(DecreasePendingReqCount(PipeQueueAccept(C, r, FALSE, how), s)) :
                  how \in InstanceAnswers}

\* uv_pipe_accept: the connections come out last in, first out.
PipeAccepts(L, s, c) ==
    LET r == Head(L.pending_accepts[s])
        A == SetPipeHandle(ConnectionInit(L, c), c, {"READABLE", "WRITABLE"})
        B == [A EXCEPT !.pending_accepts[s] = Tail(@), !.accept_socket = @ \ {r}]
    IN  IF Has(L, s, "CLOSING") THEN {B}
        ELSE {PipeQueueAccept(B, r, FALSE, how) : how \in InstanceAnswers}

-----------------------------------------------------------------------------
\* Reading

\* Mutant: a read refused at once is not counted.
PipeQueueReadUncounted(L, h, how) ==
    LET A == SetFlags(L, h, {"READ_PENDING"})
    IN  IF how = "failed" THEN InsertPendingReq(A, ReadReq(h), FALSE)
        ELSE EofTimerStart(Submit(IncreasePendingReqCount(A, h, 1), ReadReq(h)), h)

\* uv_pipe_queue_read
PipeQueueRead(L, h, how) ==
    LET A == Check(L, "queue_read: reading", Has(L, h, "READING"))
        B == Check(A, "queue_read: no read pending", ~Has(L, h, "READ_PENDING"))
        C == Check(B, "queue_read: open", h \in L.open)
        D == IncreasePendingReqCount(SetFlags(C, h, {"READ_PENDING"}), h, 1)
    IN  IF how = "failed" THEN InsertPendingReq(D, ReadReq(h), FALSE)
        ELSE EofTimerStart(Submit(D, ReadReq(h)), h)

ReadIssues == {"queued", "failed"}

\* uv_read_start and uv_pipe_read_start
PipeReadStarts(L, h) ==
    LET A == IncreaseActiveCount(SetFlags(L, h, {"READING"}), h)
    IN  IF ~CanReadStart(L, h) THEN {L}
        ELSE IF Has(L, h, "READ_PENDING") THEN {A}
        ELSE {PipeQueueRead(A, h, how) : how \in ReadIssues}

\* uv_pipe_read_eof and uv_pipe_read_error, up to read_cb.
PipeReadEof(L, h)   == ReadStop(Clear(EofTimerDestroy(L, h), h, {"READABLE"}), h)
PipeReadError(L, h) == ReadStop(EofTimerDestroy(L, h), h)

\* uv_process_pipe_read_req up to read_cb.  After a zero-byte read that failed no other
\* is queued, and one that was aborted is not even reported.  After one that succeeded
\* the pipe is read once: the loop is left after its first read_cb, as a read never
\* returns more bytes than the buffer holds.
PipeProcessRead(L, p) ==
    LET h == p.req.handle
        A == EofTimerStop(Clear(L, h, {"READ_PENDING"}), h)
        Read(M, next) == Outcome(M, Callback("read", h, p.req, next))
        Over(next) == {Read(PipeReadEof(A, h), next), Read(PipeReadError(A, h), next)}
        Nothing == Outcome(A, Callback("none", h, p.req, "read done"))
    IN  IF ~Has(A, h, "READING")
        THEN {Quiet(DecreasePendingReqCount(A, h))}
        ELSE IF p.ok THEN Over("read done") \cup {Nothing, Read(A, "read done")}
        ELSE Over("decrease") \cup {Quiet(DecreasePendingReqCount(A, h))}

\* "Post another 0-read if still reading and not closing."
PipeReadDone(L, h) ==
    {DecreasePendingReqCount(M, h) :
        M \in IF Has(L, h, "READING") /\ ~Has(L, h, "READ_PENDING")
              THEN {PipeQueueRead(L, h, how) : how \in ReadIssues} ELSE {L}}

\* eof_timer_cb, after uv_process_timers has stopped the timer.  It does nothing when
\* the read has completed and waits to be processed, which it takes from the overlapped
\* of read_req; that of a non-overlapped pipe is never set.
EofTimerFires(L, t) ==
    LET h == PipeOf(t)
        A == Check(HandleStop(L, t), "eof_timer: a read is pending", Has(L, h, "READ_PENDING"))
        B == ReadStop([A EXCEPT !.open = @ \ {h}], h)
        Eof == Outcome(PipeReadEof(B, h), Callback("read", h, NoReq, "return"))
    IN  (IF ReadReq(h) \notin L.kernel \/ Sync(h) THEN {Quiet(A)} ELSE {})
        \cup (IF ReadReq(h) \in L.kernel \/ Sync(h) THEN {Eof} ELSE {})

-----------------------------------------------------------------------------
\* Writing

\* uv_queue_non_overlapped_write: the first of the writes that wait goes to a thread.
QueueNonOverlappedWrite(L, h) ==
    IF L.unwritten[h] = << >> THEN L
    ELSE Submit([L EXCEPT !.unwritten[h] = Tail(@)], Head(L.unwritten[h]))

\* uv_write and uv_pipe_write_impl of a pipe that is not ipc, and its request when it is
\* not refused.  A non-overlapped pipe has one write at a time with a thread.
PipeWrites(L, r) ==
    LET h == r.handle
        A == [L EXCEPT !.unwritten[h] = Append(@, r)]
        B == IF L.write_reqs_pending[h] = 0 THEN QueueNonOverlappedWrite(A, h) ELSE A
        C == [IncreasePendingReqCount(IF Sync(h) THEN B ELSE Submit(L, r), h, 1)
                 EXCEPT !.write_reqs_pending[h] = @ + 1]
        D == Check(RegisterHandleReq(C, h, r), "write: open", h \in L.open)
    IN  IF ~Has(L, h, "WRITABLE") THEN {L} ELSE IF Sync(h) THEN {D} ELSE {L, D}

\* uv_process_pipe_write_req and uv_process_tty_write_req up to the callback.
ProcessWrite(L, p) ==
    {Outcome(UnregisterHandleReq(L, p.req.handle, p.req),
             Callback("write", p.req.handle, p.req, "write done"))}

\* Mutant: a write that waits is given to a thread only when none is pending.
PipeWriteDoneIdle(L, h) ==
    WriteReqEnd(IF h \in Pipes /\ Sync(h) /\ L.write_reqs_pending[h] = 1
                THEN QueueNonOverlappedWrite(L, h) ELSE L, h)

\* Their end.
WriteDone(L, h) ==
    LET A == Check(L, "write: one is pending", L.write_reqs_pending[h] > 1)
    IN  WriteReqEnd(IF h \in Pipes /\ Sync(h) /\ L.unwritten[h] # << >>
                    THEN QueueNonOverlappedWrite(A, h) ELSE L, h)

-----------------------------------------------------------------------------
\* Shutting down and closing

\* Mutant: shutdown_req is kept while the buffers are flushed.
PipeEndgameKept(L, h) ==
    LET r == ShutdownReq(h)
        A == UnregisterHandleReq(L, h, r)
    IN  IF ~ShutdownIsDue(L, h)
        THEN IF Has(L, h, "CLOSING") /\ L.reqs_pending[h] = 0 THEN {Closed(L, h)} ELSE {Quiet(L)}
        ELSE IF Has(L, h, "CLOSING") THEN {Outcome(A, Callback("shutdown", h, r, "decrease"))}
        ELSE {Quiet(InsertPendingReq(L, r, TRUE))}

\* uv_pipe_endgame.  A shutdown is cancelled by a close; fails; is pending at once, as
\* nothing is left to be read by the other end; or waits in a thread for that.
PipeEndgame(L, h) ==
    LET r == ShutdownReq(h)
        A == [L EXCEPT !.shutdown_req = @ \ {h}]
        Answered(M) == Outcome(UnregisterHandleReq(M, h, r), Callback("shutdown", h, r, "decrease"))
    IN  IF ~ShutdownIsDue(L, h)
        THEN IF Has(L, h, "CLOSING") /\ L.reqs_pending[h] = 0 THEN {Closed(L, h)} ELSE {Quiet(L)}
        ELSE IF Has(L, h, "CLOSING") THEN {Answered(A)}
        ELSE {Answered(SetFlags(A, h, {"WRITABLE"})),
              Quiet(InsertPendingReq(A, r, TRUE)), Quiet(Submit(A, r))}

\* uv_process_pipe_shutdown_req up to the callback: the timer for the end of file, or
\* the pipe is closed when there is nothing to read any more.
PipeProcessShutdown(L, p) ==
    LET h == p.req.handle
        A == UnregisterHandleReq(L, h, p.req)
        B == EofTimerInit(A, h)
        C == IF Has(L, h, "READ_PENDING") THEN EofTimerStart(B, h) ELSE B
    IN  {Outcome(IF Has(L, h, "READABLE") THEN C ELSE [A EXCEPT !.open = @ \ {h}],
                 Callback("shutdown", h, p.req, "decrease"))}

\* uv_pipe_close with uv_pipe_cleanup, which closes the handle of a connection only.
PipeClose(L, h) ==
    LET A == StopIf(StopIf(L, h, "READING"), h, "LISTENING")
        B == IF Has(L, h, "CONNECTION")
             THEN [EofTimerDestroy(A, h) EXCEPT !.open = @ \ {h}]
             ELSE [A EXCEPT !.accept_socket = @ \ AcceptReqsOf(h)]
        C == WantEndgameIf(B, h, L.reqs_pending[h] = 0)
    IN  HandleClosing(Clear(C, h, {"READABLE", "WRITABLE"}), h)

=============================================================================
