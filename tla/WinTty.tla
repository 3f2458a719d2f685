------------------------------- MODULE WinTty -------------------------------
(***************************************************************************)
(* The requests of win/tty.c over the record of Win.  A console is read    *)
(* raw, by waiting for an input event, or by the line, by a thread in      *)
(* ReadConsoleW.  To stop the latter the loop's thread traps it: it takes  *)
(* the lock of the output, and the reading thread gives it back.           *)
(***************************************************************************)
EXTENDS Win

\* uv_tty_init
TtyInit(L, h) ==
    SetFlags(HandleInit(L, h), h,
             {"CONNECTION", "BOUND"}
                \cup IF h \in TtyInputs THEN {"TTY_READABLE", "READABLE"} ELSE {"WRITABLE"})

-----------------------------------------------------------------------------
\* The thread that reads a line

\* uv_tty_line_read_thread, up to ReadConsoleW; it returns at once if it was trapped.
LineThreadBegins(L, h) ==
    LET A == [L EXCEPT !.console = "IN_PROGRESS"]
    IN  IF L.console = "TRAP_REQUESTED"
        THEN Post([A EXCEPT !.kernel = @ \ {ReadReq(h)}], ReadReq(h), TRUE)
        ELSE [A EXCEPT !.in_console = @ \cup {h}]

\* The rest of it.
LineThreadEnds(L, h, ok) ==
    LET A == [L EXCEPT !.console = "COMPLETED",
                       !.output_lock = IF L.console = "TRAP_REQUESTED" THEN "free" ELSE @,
                       !.in_console = @ \ {h}, !.kernel = @ \ {ReadReq(h)}]
    IN  Post(A, ReadReq(h), ok)

\* uv_sem_wait(&uv_tty_output_lock) on the loop's thread: what holds it is the thread
\* in ReadConsoleW, which ends meanwhile.
AwaitLock(L) ==
    IF L.output_lock = "free" THEN {L}
    ELSE {LineThreadEnds(L, h, ok) : h \in L.in_console, ok \in BOOLEAN}

-----------------------------------------------------------------------------
\* Starting and stopping

\* The asserts that uv_tty_queue_read_raw and uv_tty_queue_read_line begin with.
TtyMayQueue(L, h) ==
    Check(Check(L, "queue_read: reading", Has(L, h, "READING")),
          "queue_read: no read pending", ~Has(L, h, "READ_PENDING"))

\* uv_tty_queue_read, when alloc_cb gives a buffer: the wait or the thread is had, or is
\* refused and the request is pending with the error.  (Bound: no second wait is refused
\* to a stream whose first left it uncounted, which would only count on.)
TtyQueueRead(L, h) ==
    LET A == IncreasePendingReqCount(SetFlags(TtyMayQueue(L, h), h, {"READ_PENDING"}), h, 1)
        B == IF Has(L, h, "TTY_RAW") THEN [A EXCEPT !.line = @ \ {h}]
             ELSE [A EXCEPT !.line = @ \cup {h}, !.console = "NOT_STARTED"]
    IN  {Submit(B, ReadReq(h))}
        \cup IF h \in L.uncounted THEN {} ELSE {InsertPendingReq(B, ReadReq(h), FALSE)}

\* uv_tty_queue_read_line, when alloc_cb gives none: read_cb is called with UV_ENOBUFS,
\* and the stream is left reading with nothing to wait for.
TtyNoBuffer(L, h) ==
    IF Has(L, h, "TTY_RAW") THEN {}
    ELSE {[TtyMayQueue(L, h) EXCEPT !.line = @ \ {h}]}

\* uv_read_start and uv_tty_read_start: keys left from the last read are there at once.
TtyReadStarts(L, h) ==
    LET A == IncreaseActiveCount(SetFlags(L, h, {"READING"}), h)
        B == IncreasePendingReqCount(SetFlags(A, h, {"READ_PENDING"}), h, 1)
    IN  IF ~CanReadStart(L, h) THEN {L}
        ELSE IF Has(L, h, "READ_PENDING") THEN {A}
        ELSE IF h \in L.key_left THEN {InsertPendingReq(B, ReadReq(h), TRUE)}
        ELSE TtyQueueRead(A, h) \cup TtyNoBuffer(A, h)

\* uv__cancel_read_console
CancelReadConsole(L, h) ==
    [L EXCEPT !.console = "TRAP_REQUESTED",
              !.output_lock = IF L.console = "IN_PROGRESS" THEN "held" ELSE @]

\* uv_read_stop and uv_tty_read_stop.  After uv_tty_close has closed the console a
\* thread in ReadConsoleW cannot be woken, and the cancellation is not noted.
TtyReadStops(L, h, closing) ==
    LET Pending(M) == IF closing /\ L.console = "IN_PROGRESS" THEN M
                      ELSE SetFlags(M, h, {"CANCELLATION_PENDING"})
        ByLine == ~Has(L, h, "TTY_RAW") /\ ~Has(L, h, "CANCELLATION_PENDING")
        A == ReadStop(L, h)
    IN  IF ~Has(L, h, "READING") \/ ~Has(L, h, "READ_PENDING") \/ ~ByLine THEN {A}
        ELSE {Pending(CancelReadConsole(M, h)) : M \in AwaitLock(A)}

\* uv_tty_set_mode to the other of raw and line, which restarts a stream that reads.
TtySetsMode(L, h) ==
    LET Toggled(M) ==
            LET A == IF Has(M, h, "TTY_RAW") THEN Clear(M, h, {"TTY_RAW"})
                     ELSE SetFlags(M, h, {"TTY_RAW"})
            IN  IF Has(L, h, "READING") THEN TtyReadStarts(A, h) ELSE {A}
    IN  IF ~Has(L, h, "TTY_READABLE") THEN {L}
        ELSE UNION {Toggled(N) :
                       N \in UNION {AwaitLock(M) : M \in TtyReadStops(L, h, FALSE)}}

-----------------------------------------------------------------------------
\* Reading

\* The loop of uv_process_tty_read_raw_req to its next read_cb, or to its end: the
\* events are read; none is a key; the buffer is full, or there is none, with keys left.
TtyRawReads(L, h, p) ==
    LET Kept == [L EXCEPT !.key_left = @ \cup {h}]
        None == [L EXCEPT !.key_left = @ \ {h}]
        Read(M, next) == Outcome(M, Callback("read", h, p, next))
    IN  {Outcome(None, Callback("none", h, p, "tty done")), Read(None, "tty done"),
         Read(Kept, "tty done"), Read(Kept, "tty more"), Read(ReadStop(L, h), "tty done")}

\* uv_process_tty_read_raw_req up to its first read_cb.  When the wait was refused the
\* stream stops reading, but without DECREASE_ACTIVE_COUNT.
TtyProcessRaw(L, p) ==
    LET h == p.req.handle
        A == Clear(L, h, {"READ_PENDING"})
        Refused == [Clear(A, h, {"READING"}) EXCEPT !.uncounted = @ \cup {h}]
    IN  IF ~Has(L, h, "READING") \/ ~Has(L, h, "TTY_RAW")
        THEN {Outcome(A, Callback("none", h, p.req, "tty done"))}
        ELSE IF ~p.ok THEN {Outcome(Refused, Callback("read", h, p.req, "tty done"))}
        ELSE TtyRawReads(A, h, p.req)

TtyReadMore(L, cb) ==
    IF Has(L, cb.handle, "READING") THEN TtyRawReads(L, cb.handle, cb.req)
    ELSE {Outcome(L, [cb EXCEPT !.kind = "none", !.next = "tty done"])}

\* uv_process_tty_read_line_req up to read_cb, which it calls also for a stream that
\* does not read any more, without bytes if the read was cancelled.
TtyProcessLine(L, p) ==
    LET h == p.req.handle
        A == [Clear(L, h, {"READ_PENDING"}) EXCEPT !.line = @ \ {h}]
        B == IF p.ok THEN Clear(A, h, {"CANCELLATION_PENDING"}) ELSE ReadStop(A, h)
    IN  {Outcome(B, Callback("read", h, p.req, "tty done"))}

\* uv_process_tty_read_req
TtyProcessRead(L, p) ==
    IF p.req.handle \in L.line THEN TtyProcessLine(L, p) ELSE TtyProcessRaw(L, p)

\* The end of both.
TtyReadDone(L, h) ==
    LET Ended(S) == {Quiet(DecreasePendingReqCount(M, h)) : M \in S}
    IN  IF ~Has(L, h, "READING") \/ Has(L, h, "READ_PENDING") THEN Ended({L})
        ELSE Ended(TtyQueueRead(L, h))
                \cup {Outcome(M, Callback("read", h, ReadReq(h), "decrease")) :
                          M \in TtyNoBuffer(L, h)}

-----------------------------------------------------------------------------
\* Writing, shutting down and closing

\* uv_write and uv_tty_write: the bytes are written before it returns.
TtyWrites(L, r) ==
    LET h == r.handle
        A == [IncreasePendingReqCount(L, h, 1) EXCEPT !.write_reqs_pending[h] = @ + 1]
    IN  IF ~Has(L, h, "WRITABLE") THEN {L}
        ELSE {InsertPendingReq(M, r, ok) :
                 M \in AwaitLock(RegisterHandleReq(A, h, r)), ok \in BOOLEAN}

\* uv_tty_endgame; shutdown_req is reset after its callback (ShutdownEnd).
TtyEndgame(L, h) ==
    LET r == ShutdownReq(h)
    IN  IF h \in L.shutdown_req /\ L.write_reqs_pending[h] = 0
        THEN {Outcome(UnregisterHandleReq(L, h, r), Callback("shutdown", h, r, "tty shutdown"))}
        ELSE IF Has(L, h, "CLOSING") /\ L.reqs_pending[h] = 0
        THEN {Closed(Check(L, "tty: no raw wait", ReadReq(h) \notin L.kernel), h)}
        ELSE {Quiet(L)}

\* uv_tty_close
TtyCloses(L, h) ==
    {WantEndgameIf(HandleClosing(Clear(M, h, {"READABLE", "WRITABLE"}), h), h, L.reqs_pending[h] = 0) :
        M \in TtyReadStops(L, h, TRUE)}

=============================================================================
