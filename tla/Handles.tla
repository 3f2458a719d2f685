------------------------------ MODULE Handles ------------------------------
(***************************************************************************)
(* The bookkeeping every libuv handle and request goes through on Windows: *)
(* the macros of win/handle-inl.h, win/req-inl.h and uv-common.h.  The     *)
(* loop and its handles are one record L, and each macro is an operator    *)
(* from such a record to the next, so that a handler of the library is the *)
(* composition of the macros it expands, in the order it expands them.     *)
(*                                                                         *)
(* assert(e) is Check(L, name, e): a false e adds the name to L.failed and *)
(* execution goes on, as in a build with NDEBUG.  That no assertion fails  *)
(* is then an invariant, and what a failed one leads to is still visible.  *)
(***************************************************************************)
EXTENDS Integers, Sequences, FiniteSets

CONSTANTS
    Servers,   \* uv_tcp_t handles used as listening sockets
    Conns,     \* uv_tcp_t handles used for accepted connections
    Timers,    \* uv_timer_t handles
    NAccepts,  \* uv_simultaneous_server_accepts
    NWrites    \* uv_write_t requests a client has for one connection

Handles == Servers \cup Conns \cup Timers

ASSUME HandlesAssumption ==
    /\ IsFiniteSet(Handles)
    /\ Servers \cap Conns = {} /\ Servers \cap Timers = {} /\ Conns \cap Timers = {}

ASSUME CountsAssumption == NAccepts \in Nat \ {0} /\ NWrites \in Nat

-----------------------------------------------------------------------------
\* Requests.  A connection embeds one read request (uv_tcp_t.read_req), a
\* server allocates its accept requests in uv_tcp_listen; write and shutdown
\* requests belong to the client.

ReadReq(c)     == [type |-> "READ",     handle |-> c, id |-> 0]
ShutdownReq(c) == [type |-> "SHUTDOWN", handle |-> c, id |-> 0]

AcceptReqs   == [type : {"ACCEPT"}, handle : Servers, id : 1..NAccepts]
WriteReqs    == [type : {"WRITE"}, handle : Conns, id : 1..NWrites]
ShutdownReqs == [type : {"SHUTDOWN"}, handle : Conns, id : {0}]
ReadReqs     == [type : {"READ"}, handle : Conns, id : {0}]
ClientReqs   == WriteReqs \cup ShutdownReqs
IoReqs       == ReadReqs \cup AcceptReqs \cup WriteReqs

\* A request the completion port has reported, with the status of its overlapped.
Packets == [req : IoReqs, ok : BOOLEAN]

Packet(r, ok) == [req |-> r, ok |-> ok]

Flags == {"REF", "ACTIVE", "CLOSING", "CLOSED", "ENDGAME_QUEUED",
          "LISTENING", "CONNECTION", "READABLE", "WRITABLE",
          "READING", "READ_PENDING", "ZERO_READ", "SOCKET_CLOSED"}

\* The assertions of the functions modelled.
Assertions ==
    {"start: not closing", "stop: not closing", "closing: not closing",
     "activecnt > 0", "activecnt >= 0", "reqs_pending > 0",
     "unregister: has active reqs", "pending: not queued",
     "queue_accept: listening", "queue_accept: no socket",
     "queue_read: reading", "queue_read: no read pending",
     "close: not closing", "endgame: not closed"}

LoopType ==
    [flags              : [Handles -> SUBSET Flags],
     activecnt          : [Handles -> Int],
     reqs_pending       : [Handles -> Int],
     write_reqs_pending : [Handles -> Int],
     shutdown_req       : SUBSET Conns,       \* those whose shutdown_req is not NULL
     handle_queue       : SUBSET Handles,
     active_handles     : Int,
     active_reqs        : SUBSET ClientReqs,
     endgame            : Seq(Handles),       \* endgame_handles, the head first
     pending            : Seq(Packets),       \* pending_reqs, the oldest first
     pending_accepts    : [Handles -> Seq(AcceptReqs)],
     accept_socket      : SUBSET AcceptReqs,  \* those whose accept_socket is valid
     kernel             : SUBSET IoReqs,      \* overlapped operations in progress
     iocp               : Seq(Packets),       \* packets on the completion port
     stop_flag          : BOOLEAN,
     failed             : SUBSET Assertions]  \* those that have failed

\* uv_loop_init
LoopInit ==
    [flags              |-> [h \in Handles |-> {}],
     activecnt          |-> [h \in Handles |-> 0],
     reqs_pending       |-> [h \in Handles |-> 0],
     write_reqs_pending |-> [h \in Handles |-> 0],
     shutdown_req       |-> {},
     handle_queue       |-> {},
     active_handles     |-> 0,
     active_reqs        |-> {},
     endgame            |-> << >>,
     pending            |-> << >>,
     pending_accepts    |-> [h \in Handles |-> << >>],
     accept_socket      |-> {},
     kernel             |-> {},
     iocp               |-> << >>,
     stop_flag          |-> FALSE,
     failed             |-> {}]

-----------------------------------------------------------------------------
Has(L, h, f)      == f \in L.flags[h]
SetFlags(L, h, F) == [L EXCEPT !.flags[h] = @ \cup F]
Clear(L, h, F)    == [L EXCEPT !.flags[h] = @ \ F]

Check(L, name, e) == IF e THEN L ELSE [L EXCEPT !.failed = @ \cup {name}]

\* uv-common.h: the loop counts the handles that keep it alive.
ActiveHandleAdd(L) == [L EXCEPT !.active_handles = @ + 1]
ActiveHandleRm(L)  == [L EXCEPT !.active_handles = @ - 1]

HandleInit(L, h) ==
    [L EXCEPT !.flags[h] = {"REF"}, !.handle_queue = @ \cup {h}]

HandleStart(L, h) ==
    LET A == Check(L, "start: not closing", ~Has(L, h, "CLOSING"))
        B == SetFlags(A, h, {"ACTIVE"})
    IN  IF Has(L, h, "ACTIVE") THEN A
        ELSE IF Has(L, h, "REF") THEN ActiveHandleAdd(B) ELSE B

HandleStop(L, h) ==
    LET A == Check(L, "stop: not closing", ~Has(L, h, "CLOSING"))
        B == Clear(A, h, {"ACTIVE"})
    IN  IF ~Has(L, h, "ACTIVE") THEN A
        ELSE IF Has(L, h, "REF") THEN ActiveHandleRm(B) ELSE B

HandleRef(L, h) ==
    LET A == SetFlags(L, h, {"REF"})
    IN  IF Has(L, h, "REF") THEN L
        ELSE IF ~Has(L, h, "CLOSING") /\ Has(L, h, "ACTIVE") THEN ActiveHandleAdd(A) ELSE A

HandleUnref(L, h) ==
    LET A == Clear(L, h, {"REF"})
    IN  IF ~Has(L, h, "REF") THEN L
        ELSE IF ~Has(L, h, "CLOSING") /\ Has(L, h, "ACTIVE") THEN ActiveHandleRm(A) ELSE A

ReqRegister(L, r) == [L EXCEPT !.active_reqs = @ \cup {r}]

ReqUnregister(L, r) ==
    LET A == Check(L, "unregister: has active reqs", L.active_reqs # {})
    IN  [A EXCEPT !.active_reqs = @ \ {r}]

-----------------------------------------------------------------------------
\* win/handle-inl.h

IncreaseActiveCount(L, h) ==
    LET A == [L EXCEPT !.activecnt[h] = @ + 1]
        B == IF L.activecnt[h] = 0 THEN HandleStart(A, h) ELSE A
    IN  Check(B, "activecnt > 0", B.activecnt[h] > 0)

DecreaseActiveCount(L, h) ==
    LET A == [L EXCEPT !.activecnt[h] = @ - 1]
        B == IF A.activecnt[h] = 0 /\ ~Has(L, h, "CLOSING") THEN HandleStop(A, h) ELSE A
    IN  Check(B, "activecnt >= 0", B.activecnt[h] >= 0)

\* Mutant: without the test of ENDGAME_QUEUED.
WantEndgameAgain(L, h) ==
    [SetFlags(L, h, {"ENDGAME_QUEUED"}) EXCEPT !.endgame = <<h>> \o @]

\* uv_want_endgame: a handle is on the list once, however often it is wanted.
WantEndgame(L, h) ==
    IF Has(L, h, "ENDGAME_QUEUED") THEN L
    ELSE [SetFlags(L, h, {"ENDGAME_QUEUED"}) EXCEPT !.endgame = <<h>> \o @]

\* uv_process_endgames takes the head of the list.
PopEndgame(L) ==
    [Clear(L, Head(L.endgame), {"ENDGAME_QUEUED"}) EXCEPT !.endgame = Tail(@)]

IncreasePendingReqCount(L, h, n) == [L EXCEPT !.reqs_pending[h] = @ + n]

\* Mutant: the last request of a closing handle does not want its endgame.
DecreasePendingReqCountOnly(L, h) == [L EXCEPT !.reqs_pending[h] = @ - 1]

DecreasePendingReqCount(L, h) ==
    LET A == Check(L, "reqs_pending > 0", L.reqs_pending[h] > 0)
        B == [A EXCEPT !.reqs_pending[h] = @ - 1]
    IN  IF Has(B, h, "CLOSING") /\ B.reqs_pending[h] = 0 THEN WantEndgame(B, h) ELSE B

\* Mutant: the closing handle is counted, counted already or not.
HandleClosingCounted(L, h) ==
    Clear(SetFlags(ActiveHandleAdd(L), h, {"CLOSING"}), h, {"ACTIVE"})

\* uv__handle_closing: a closing handle is counted as active, referenced or not.
HandleClosing(L, h) ==
    LET A == Check(L, "closing: not closing", ~Has(L, h, "CLOSING"))
        B == IF Has(L, h, "ACTIVE") /\ Has(L, h, "REF") THEN A ELSE ActiveHandleAdd(A)
    IN  Clear(SetFlags(B, h, {"CLOSING"}), h, {"ACTIVE"})

\* uv__handle_close, up to the call of close_cb, which is the client's.
HandleClose(L, h) ==
    LET A == [L EXCEPT !.handle_queue = @ \ {h}]
    IN  SetFlags(ActiveHandleRm(A), h, {"CLOSED"})

-----------------------------------------------------------------------------
\* win/req-inl.h

RegisterHandleReq(L, h, r)   == ReqRegister(IncreaseActiveCount(L, h), r)
UnregisterHandleReq(L, h, r) == ReqUnregister(DecreaseActiveCount(L, h), r)

\* uv_insert_pending_req, with the check a _DEBUG build makes.
InsertPendingReq(L, r, ok) ==
    LET A == Check(L, "pending: not queued", \A i \in DOMAIN L.pending : L.pending[i].req # r)
    IN  [A EXCEPT !.pending = Append(@, Packet(r, ok))]

\* uv__loop_alive
LoopAlive(L) == L.active_handles > 0 \/ L.active_reqs # {} \/ L.endgame # << >>

=============================================================================
