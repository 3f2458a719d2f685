-------------------------------- MODULE Loop --------------------------------
(***************************************************************************)
(* The event loop: uv_run of win/core.c over the handles and requests of   *)
(* Tcp, one thread running it, the operating system completing overlapped  *)
(* operations beside it, and the clients that call the library.            *)
(*                                                                         *)
(* A step of the library runs from where a callback returned, or from a    *)
(* test of the loop, to the next callback it makes or the next such test.  *)
(* While a callback runs, and outside uv_run, the client makes any number  *)
(* of calls; each is a step of its own.                                    *)
(***************************************************************************)
EXTENDS Tcp

CONSTANTS
    RecvMayFail,   \* WSARecv may refuse an overlapped read at once
    AcceptMayFail, \* socket or AcceptEx may refuse to queue an accept
    ReadsRestart,  \* a client may start reading a connection again
    AllocMayStop,  \* an alloc_cb may stop reading or close the connection it gives memory to
    Unrefable      \* handles a client may uv_unref

ASSUME EnvironmentAssumption ==
    /\ {RecvMayFail, AcceptMayFail, ReadsRestart, AllocMayStop} \subseteq BOOLEAN
    /\ Unrefable \subseteq Handles

VARIABLES
    loop,     \* the uv_loop_t, its handles, and the kernel's side of them
    pc,       \* where uv_run is
    due,      \* timers uv_process_timers has still to run in this iteration
    work,     \* requests uv_process_reqs has still to process
    cb,       \* the callback in progress
    request   \* what has become of each request a client owns

vars == <<loop, pc, due, work, cb, request>>

Phases == {"outside", "timers", "reqs", "poll", "endgames"}

\* Callbacks into the client, and "readloop": uv_process_tcp_read_req is at the
\* test of its loop.
Callbacks == {"timer", "connection", "alloc", "read", "write", "shutdown", "close"}
Statuses  == {"ok", "data", "empty", "nobufs", "eof", "error"}

Callback(kind, h, req, status, next) ==
    [kind |-> kind, handle |-> h, req |-> req, status |-> status, next |-> next]

NoReq == [type |-> "NONE", handle |-> "none", id |-> 0]

CallbackType ==
    [kind   : Callbacks \cup {"none", "readloop"},
     handle : Handles \cup {"none"},
     req    : IoReqs \cup ShutdownReqs \cup {NoReq},
     status : Statuses,
     next   : {"return", "again", "done", "end"}]

NoCallback == Callback("none", "none", NoReq, "ok", "return")

\* Every variable has a value of its type: requests, handles and packets are where
\* the C types put them, and a client's request is free, issued or called back.
TypeOK ==
    /\ loop \in LoopType
    /\ pc \in Phases
    /\ due \subseteq Timers
    /\ work \in Seq(Packets)
    /\ cb \in CallbackType
    /\ request \in [ClientReqs -> {"free", "issued", "called"}]

Init ==
    /\ loop = LoopInit
    /\ pc = "outside"
    /\ due = {}
    /\ work = << >>
    /\ cb = NoCallback
    /\ request = [r \in ClientReqs |-> "free"]

-----------------------------------------------------------------------------
\* uv_run

ActiveTimers(L) == {t \in Timers : Has(L, t, "ACTIVE")}

\* The test of uv_run's while loop, and its return.
NextIteration ==
    IF LoopAlive(loop) /\ ~loop.stop_flag
    THEN /\ pc' = "timers"
         /\ due' \in SUBSET ActiveTimers(loop)
         /\ UNCHANGED loop
    ELSE /\ pc' = "outside"
         /\ loop' = [loop EXCEPT !.stop_flag = FALSE]
         /\ UNCHANGED due

RunBegin ==
    /\ pc = "outside"
    /\ NextIteration
    /\ UNCHANGED <<work, cb, request>>

\* Mutant: a timer that was due and has been stopped since is called.
FireStoppedTimer(t) ==
    /\ pc = "timers" /\ cb = NoCallback
    /\ loop' = TimerStop(loop, t)
    /\ due' = due \ {t}
    /\ cb' = Callback("timer", t, NoReq, "ok", "return")
    /\ UNCHANGED <<pc, work, request>>

\* uv_process_timers; a repeating timer is armed again before its callback.
FireTimer(t) ==
    /\ pc = "timers" /\ cb = NoCallback /\ t \in due
    /\ loop' \in {TimerStop(loop, t), TimerStart(TimerStop(loop, t), t)}
    /\ due' = due \ {t}
    /\ cb' = Callback("timer", t, NoReq, "ok", "return")
    /\ UNCHANGED <<pc, work, request>>

\* uv_process_reqs takes the whole queue; what is inserted from now on waits.
TimersEnd ==
    /\ pc = "timers" /\ cb = NoCallback /\ due = {}
    /\ pc' = "reqs"
    /\ work' = loop.pending
    /\ loop' = [loop EXCEPT !.pending = << >>]
    /\ UNCHANGED <<due, cb, request>>

NextReq(type) ==
    /\ pc = "reqs" /\ cb = NoCallback /\ work # << >>
    /\ Head(work).req.type = type
    /\ work' = Tail(work)
    /\ UNCHANGED <<pc, due>>

ReadAnswers   == IF RecvMayFail THEN Answers ELSE Answers \ {"failed"}
AcceptAnswers == IF AcceptMayFail THEN Answers ELSE Answers \ {"failed"}

\* uv_process_tcp_read_req up to its loop, or to the read_cb of an error.
ProcessReadReq ==
    /\ NextReq("READ")
    /\ LET r == Head(work).req
           c == r.handle
           L == ReadReqDone(loop, c)
       IN  \/ /\ Head(work).ok
              /\ loop' = L
              /\ cb' = Callback("readloop", c, r, "ok", "return")
           \/ /\ ~Head(work).ok /\ ErrorIsRead(L, c)
              /\ loop' = ReadFailed(L, c)
              /\ cb' = Callback("read", c, r, "error", "end")
           \/ /\ ~Head(work).ok /\ ~ErrorIsRead(L, c)
              /\ loop' = DecreasePendingReqCount(L, c)
              /\ cb' = NoCallback
    /\ UNCHANGED request

\* The loop of non-blocking reads: alloc_cb, and after it, whatever it has done, WSARecv.
ReadMore ==
    /\ cb.kind = "readloop" /\ Has(loop, cb.handle, "READING")
    /\ cb' = Callback("alloc", cb.handle, cb.req, "ok", "return")
    /\ UNCHANGED <<loop, pc, due, work, request>>

\* alloc_cb returns, and what it and WSARecv give is the read_cb's.
Recv ==
    /\ cb.kind = "alloc"
    /\ \/ \E status \in {"data", "empty", "nobufs"}, next \in {"again", "done"} :
             /\ next = "again" => status = "data"
             /\ cb' = Callback("read", cb.handle, cb.req, status, next)
             /\ UNCHANGED loop
       \/ /\ cb' = Callback("read", cb.handle, cb.req, "eof", "done")
          /\ loop' = ReadEof(loop, cb.handle)
       \/ /\ cb' = Callback("read", cb.handle, cb.req, "error", "done")
          /\ loop' = ReadFailed(loop, cb.handle)
    /\ UNCHANGED <<pc, due, work, request>>

ReadLoopEnd ==
    /\ cb.kind = "readloop" /\ ~Has(loop, cb.handle, "READING")
    /\ loop' = DecreasePendingReqCount(loop, cb.handle)
    /\ cb' = NoCallback
    /\ UNCHANGED <<pc, due, work, request>>

ProcessWriteReq ==
    /\ NextReq("WRITE")
    /\ LET r == Head(work).req IN
          /\ loop' = UnregisterHandleReq(loop, r.handle, r)
          /\ cb' = Callback("write", r.handle, r, IF Head(work).ok THEN "ok" ELSE "error", "return")
          /\ request' = [request EXCEPT ![r] = "called"]

\* uv_process_tcp_accept_req: no socket, a connection, or a refused one (the accept
\* failed, or SO_UPDATE_ACCEPT_CONTEXT did, as it must when the listening socket is closed).
ProcessAcceptReq ==
    /\ NextReq("ACCEPT")
    /\ LET r == Head(work).req
           s == r.handle
       IN  \/ /\ r \notin loop.accept_socket /\ Has(loop, s, "LISTENING")
              /\ loop' = StopIf(loop, s, "LISTENING")
              /\ cb' = Callback("connection", s, r, "error", "return")
           \/ /\ r \notin loop.accept_socket /\ ~Has(loop, s, "LISTENING")
              /\ loop' = DecreasePendingReqCount(loop, s)
              /\ cb' = NoCallback
           \/ /\ r \in loop.accept_socket /\ Head(work).ok /\ ~Has(loop, s, "SOCKET_CLOSED")
              /\ loop' = AcceptStored(loop, r)
              /\ cb' = Callback("connection", s, r, "ok", "return")
           \/ /\ r \in loop.accept_socket
              /\ \E how \in AcceptAnswers :
                    loop' = DecreasePendingReqCount(AcceptRefused(loop, r, how), s)
              /\ cb' = NoCallback
    /\ UNCHANGED request

ReqsEnd ==
    /\ pc = "reqs" /\ cb = NoCallback /\ work = << >>
    /\ pc' = "poll"
    /\ UNCHANGED <<loop, due, work, cb, request>>

\* uv_backend_timeout: how long uv_poll may wait.
WaitsForever(L) ==
    /\ ~L.stop_flag
    /\ L.active_handles > 0 \/ L.active_reqs # {}
    /\ L.pending = << >>
    /\ L.endgame = << >>
    /\ ActiveTimers(L) = {}

\* uv_poll_ex dequeues what has arrived.
Poll ==
    /\ pc = "poll"
    /\ loop.iocp # << >> \/ ~WaitsForever(loop)
    /\ LET fresh == \A p \in DOMAIN loop.pending, q \in DOMAIN loop.iocp :
                       loop.pending[p].req # loop.iocp[q].req
           L == Check(loop, "pending: not queued", fresh)
       IN  loop' = [L EXCEPT !.pending = @ \o L.iocp, !.iocp = << >>]
    /\ pc' = "endgames"
    /\ UNCHANGED <<due, work, cb, request>>

\* uv_process_endgames takes one handle off its list.
ProcessEndgame ==
    /\ pc = "endgames" /\ cb = NoCallback /\ loop.endgame # << >>
    /\ LET h == Head(loop.endgame)
           L == PopEndgame(loop)
           r == ShutdownReq(h)
       IN  \/ /\ h \in Conns /\ ShutdownIsDue(L, h)
              /\ loop' = UnregisterHandleReq(L, h, r)
              /\ cb' = Callback("shutdown", h, r, IF Has(L, h, "CLOSING") THEN "error" ELSE "ok", "return")
              /\ request' = [request EXCEPT ![r] = "called"]
           \/ /\ ~(h \in Conns /\ ShutdownIsDue(L, h)) /\ CloseIsDue(L, h)
              /\ loop' = CloseEnd(L, h)
              /\ cb' = Callback("close", h, NoReq, "ok", "return")
              /\ UNCHANGED request
           \/ /\ ~(h \in Conns /\ ShutdownIsDue(L, h)) /\ ~CloseIsDue(L, h)
              /\ loop' = L
              /\ UNCHANGED <<cb, request>>
    /\ UNCHANGED <<pc, due, work>>

EndgamesEnd ==
    /\ pc = "endgames" /\ cb = NoCallback /\ loop.endgame = << >>
    /\ NextIteration
    /\ UNCHANGED <<work, cb, request>>

\* A callback returns into the library, which finishes what it was doing.
CallbackReturns ==
    /\ \/ /\ cb.kind \in {"timer", "close"}
          /\ cb' = NoCallback
          /\ UNCHANGED loop
       \/ /\ cb.kind = "connection"
          /\ cb' = NoCallback
          /\ loop' = DecreasePendingReqCount(loop, cb.handle)
       \/ /\ cb.kind = "write"
          /\ cb' = NoCallback
          /\ loop' = WriteReqEnd(loop, cb.handle)
       \/ /\ cb.kind = "shutdown"
          /\ cb' = NoCallback
          /\ loop' = ShutdownEnd(loop, cb.handle)
       \/ /\ cb.kind = "read" /\ cb.next = "again"
          /\ cb' = Callback("readloop", cb.handle, cb.req, "ok", "return")
          /\ UNCHANGED loop
       \/ /\ cb.kind = "read" /\ cb.next = "done"
          /\ cb' = NoCallback
          /\ \E how \in ReadAnswers : loop' = ReadReqEnd(loop, cb.handle, how)
       \/ /\ cb.kind = "read" /\ cb.next = "end"
          /\ cb' = NoCallback
          /\ loop' = DecreasePendingReqCount(loop, cb.handle)
    /\ UNCHANGED <<pc, due, work, request>>

LibraryStep ==
    \/ RunBegin
    \/ \E t \in Timers : FireTimer(t)
    \/ TimersEnd
    \/ ProcessReadReq
    \/ ReadMore
    \/ Recv
    \/ ReadLoopEnd
    \/ ProcessWriteReq
    \/ ProcessAcceptReq
    \/ ReqsEnd
    \/ Poll
    \/ ProcessEndgame
    \/ EndgamesEnd
    \/ CallbackReturns

-----------------------------------------------------------------------------
\* The operating system completes an overlapped operation, at any time.
KernelCompletes(r) ==
    /\ r \in loop.kernel
    /\ \E ok \in BOOLEAN :
          loop' = [loop EXCEPT !.kernel = @ \ {r}, !.iocp = Append(@, Packet(r, ok))]
    /\ UNCHANGED <<pc, due, work, cb, request>>

-----------------------------------------------------------------------------
\* The clients.  They may do what the library allows and no more: open a handle
\* once, close it once, use it until its close_cb, and leave a request alone from
\* the call that takes it to its callback.

MayCall == pc = "outside" \/ cb.kind \in Callbacks

Opened(h) == h \in loop.handle_queue
Open(h)   == Opened(h) /\ ~Has(loop, h, "CLOSING")

Calls == MayCall /\ UNCHANGED <<pc, work, cb>>

\* Bound: an alloc_cb leaves the stream it gives memory to reading (see AllocMayStop).
Allocating(h) == cb.kind = "alloc" /\ cb.handle = h
MayStop(h) == AllocMayStop \/ ~Allocating(h)

ClientOpens(h) ==
    /\ Calls /\ ~Opened(h) /\ loop.flags[h] = {}
    /\ loop' = IF h \in Timers THEN HandleInit(loop, h) ELSE TcpInit(loop, h)
    /\ UNCHANGED <<due, request>>

ClientListens(s) ==
    /\ Calls /\ Open(s) /\ loop.accept_socket \cap AcceptReqsOf(s) = {} /\ loop.reqs_pending[s] = 0
    /\ ~Has(loop, s, "LISTENING")
    /\ \E how \in [AcceptReqsOf(s) -> AcceptAnswers] :
          \E soon \in InOrder({r \in AcceptReqsOf(s) : how[r] # "queued"}) :
             loop' = TcpListen(loop, s, how, soon)
    /\ UNCHANGED <<due, request>>

ClientAccepts(s, c) ==
    /\ Calls /\ Opened(s) /\ Open(c) /\ ~Has(loop, c, "CONNECTION")
    /\ loop.pending_accepts[s] # << >>
    /\ \E sockOk \in BOOLEAN, how \in AcceptAnswers : loop' = TcpAccept(loop, s, c, sockOk, how)
    /\ UNCHANGED <<due, request>>

ClientStartsReading(c) ==
    /\ Calls /\ Opened(c) /\ (ReadsRestart \/ ~Has(loop, c, "ZERO_READ"))
    /\ \E how \in ReadAnswers : loop' = ReadStart(loop, c, how)
    /\ UNCHANGED <<due, request>>

ClientStopsReading(c) ==
    /\ Calls /\ Opened(c) /\ MayStop(c)
    /\ loop' = ReadStop(loop, c)
    /\ UNCHANGED <<due, request>>

ClientWrites(r) ==
    /\ Calls /\ Opened(r.handle) /\ request[r] = "free"
    /\ \E how \in Answers : loop' = Write(loop, r, how)
    /\ request' = [request EXCEPT ![r] = IF Has(loop, r.handle, "WRITABLE") THEN "issued" ELSE @]
    /\ UNCHANGED due

ClientShutsDown(c) ==
    /\ Calls /\ Opened(c) /\ request[ShutdownReq(c)] = "free"
    /\ loop' = Shutdown(loop, c)
    /\ request' = [request EXCEPT ![ShutdownReq(c)] = IF Has(loop, c, "WRITABLE") THEN "issued" ELSE @]
    /\ UNCHANGED due

\* A timer started without timeout while uv_process_timers runs is due at once.
ClientStartsTimer(t) ==
    /\ Calls /\ Open(t)
    /\ loop' = TimerStart(loop, t)
    /\ due' \in {due \ {t}, due \cup IF pc = "timers" THEN {t} ELSE {}}
    /\ UNCHANGED request

ClientStopsTimer(t) ==
    /\ Calls /\ Opened(t)
    /\ loop' = TimerStop(loop, t)
    /\ due' = due \ {t}
    /\ UNCHANGED request

ClientCloses(h) ==
    /\ Calls /\ Open(h) /\ MayStop(h)
    /\ loop' = Close(loop, h)
    /\ due' = due \ {h}
    /\ UNCHANGED request

ClientRefs(h) ==
    /\ Calls /\ Opened(h)
    /\ loop' \in {HandleRef(loop, h), HandleUnref(loop, h)}
    /\ UNCHANGED <<due, request>>

ClientStops ==
    /\ Calls
    /\ loop' = [loop EXCEPT !.stop_flag = TRUE]
    /\ UNCHANGED <<due, request>>

ClientStep ==
    \/ \E h \in Handles : ClientOpens(h) \/ ClientCloses(h)
    \/ \E h \in Unrefable : ClientRefs(h)
    \/ \E s \in Servers : ClientListens(s)
    \/ \E s \in Servers, c \in Conns : ClientAccepts(s, c)
    \/ \E c \in Conns : ClientStartsReading(c) \/ ClientStopsReading(c) \/ ClientShutsDown(c)
    \/ \E r \in WriteReqs : ClientWrites(r)
    \/ \E t \in Timers : ClientStartsTimer(t) \/ ClientStopsTimer(t)
    \/ ClientStops

Next ==
    \/ LibraryStep
    \/ \E r \in IoReqs : KernelCompletes(r)
    \/ ClientStep

Spec == Init /\ [][Next]_vars

=============================================================================
