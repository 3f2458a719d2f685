-------------------------------- MODULE Win --------------------------------
(***************************************************************************)
(* The loop record of libuv on Windows for the handles other than TCP and  *)
(* timers: what Handles keeps for every handle, and the fields of uv_udp_t, *)
(* uv_pipe_t, uv_poll_t and the rest that the library decides by.          *)
(*                                                                         *)
(* Each kind of handle has a module of operators over this record.  A      *)
(* function that ends at a callback into the client gives an Outcome: the  *)
(* record, the callback, and where the library goes on when it returns.    *)
(***************************************************************************)
EXTENDS Integers, Sequences, FiniteSets, TLC

CONSTANTS
    Udps, Polls, SlowPolls, Asyncs, Signals, FsEvents, Processes,
    Prepares, Checks, Idles,
    PipeServers, Pipes,
    SyncPipes,   \* the pipes whose handle was opened without FILE_FLAG_OVERLAPPED
    EofTimer,    \* for each pipe the uv_timer_t that eof_timer_init allocates
    Ttys,
    TtyInputs,   \* those of them uv_tty_init opens for reading
    NInstances,  \* pending_instances of a pipe server
    Events,      \* what a uv_poll_t may watch: UV_READABLE, UV_WRITABLE, UV_DISCONNECT
    NReqs        \* requests of each type a client has for one handle

EofTimers == {EofTimer[p] : p \in Pipes}

AllHandles ==
    UNION {Udps, Polls, Asyncs, Signals, FsEvents, Processes, Prepares, Checks, Idles,
           PipeServers, Pipes, EofTimers, Ttys}

Streams == Pipes \cup Ttys

\* A pipe server keeps its accept requests, and a stream its writes and its shutdown,
\* in the fields a TCP handle keeps them in; accept_socket are the accept requests
\* with a valid pipeHandle.
INSTANCE Tcp WITH Servers <- PipeServers, Conns <- Streams,
                  Timers <- AllHandles \ (PipeServers \cup Streams),
                  NAccepts <- NInstances, NWrites <- NReqs

-----------------------------------------------------------------------------
\* Requests

Req(type, h, id) == [type |-> type, handle |-> h, id |-> id]

NoReq == Req("NONE", "none", 0)

RecvReq(h)    == Req("RECV", h, 0)
WakeupReq(h)  == Req("WAKEUP", h, 0)
SignalReq(h)  == Req("SIGNAL", h, 0)
PollReq(h, i) == Req("POLL", h, i)
FsEventReq(h) == Req("FS_EVENT", h, 0)
ExitReq(h)    == Req("EXIT", h, 0)
ConnectReq(h) == Req("CONNECT", h, 0)

\* The requests that belong to the client and are called back.
UserReqs ==
    {Req("SEND", h, i) : h \in Udps, i \in 1..NReqs}
        \cup ClientReqs
        \cup {ConnectReq(h) : h \in Pipes}

Signums == {1, 2}

\* The fields beyond those of Handles, as the _init functions leave them.
WinInit ==
    [socket      |-> [h \in Udps |-> "none"],          \* family of the socket
     sends       |-> [h \in Udps |-> 0],               \* send_queue_count
     async_sent  |-> [h \in Asyncs |-> FALSE],
     signum      |-> [h \in Signals |-> 0],
     pending_signum |-> [h \in Signals |-> 0],
     events      |-> [h \in Polls |-> {}],
     submitted   |-> [h \in Polls |-> <<{}, {}>>],      \* submitted_events_1, _2
     mask        |-> [h \in Polls |-> <<{}, {}>>],      \* mask_events_1, _2
     req_pending |-> [h \in FsEvents |-> FALSE],
     dir_handle  |-> {},                               \* FsEvents with an open dir_handle
     exit_pending |-> [h \in Processes |-> FALSE],
     waiting     |-> {},                               \* Processes with a wait_handle
     watchers    |-> [k \in {"prepare", "check", "idle"} |-> << >>],
     next        |-> [k \in {"prepare", "check", "idle"} |-> "none"],
     open        |-> {},                               \* pipes whose handle is valid
     unwritten   |-> [h \in Streams |-> << >>],        \* the non-overlapped writes
     eof_timer   |-> {},                               \* pipes with an eof_timer
     line        |-> {},                               \* ttys with a read_line_buffer
     in_console  |-> {},                               \* ttys a thread reads a line of
     key_left    |-> {},                               \* ttys with last_key_len > 0
     uncounted   |-> {},                               \* ttys with a READING never given back
     console     |-> "NOT_STARTED",                    \* uv__read_console_status
     output_lock |-> "free"]                           \* uv_tty_output_lock

\* uv_loop_init and no handle open.
Init0 == WinInit @@ LoopInit

-----------------------------------------------------------------------------
\* Callbacks

Callback(kind, h, req, next) == [kind |-> kind, handle |-> h, req |-> req, next |-> next]

NoCallback == Callback("none", "none", NoReq, "none")

Outcome(L, cb) == [loop |-> L, cb |-> cb]
Quiet(L)       == Outcome(L, NoCallback)

-----------------------------------------------------------------------------
\* win/req-inl.h

\* POST_COMPLETION_FOR_REQ
Post(L, r, ok) == [L EXCEPT !.iocp = Append(@, Packet(r, ok))]

Submit(L, r) == [L EXCEPT !.kernel = @ \cup {r}]

\* A request given to the system that was refused, or that will get no packet, is
\* pending at once; how is "queued", "bypass" or "failed".
Issue(L, r, how) ==
    IF how = "queued" THEN Submit(L, r) ELSE InsertPendingReq(L, r, how = "bypass")

\* The close of a handle whose endgame waits for its requests.
WantEndgameIf(L, h, due) == IF due THEN WantEndgame(L, h) ELSE L

\* The end of every _endgame function.
Closed(L, h) ==
    Outcome(HandleClose(Check(L, "endgame: not closed", ~Has(L, h, "CLOSED")), h),
            Callback("close", h, NoReq, "return"))

=============================================================================
