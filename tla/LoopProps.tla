----------------------------- MODULE LoopProps -----------------------------
(***************************************************************************)
(* What the event loop promises its clients, and the bookkeeping that      *)
(* makes it keep the promise.                                              *)
(***************************************************************************)
EXTENDS Loop

\* No assert() of the code modelled is false (tcp.c, handle-inl.h, req-inl.h,
\* uv-common.h): in a debug build the program never stops there.  It does where an alloc_cb
\* stops or closes its stream, which clients do not (AllocMayStop).
NoAssertionFails == loop.failed = {}

\* The read request of a stream is in the queue of pending requests once: "Ensure
\* the request is not already in the queue, or the queue will get corrupted"
\* (uv_insert_pending_req, win/req-inl.h).
NeverQueuedTwice == "pending: not queued" \notin loop.failed

\* An accept is queued only on a stream that listens (the first assertion of
\* uv_tcp_queue_accept, win/tcp.c).
QueuesAcceptsOnlyWhileListening == "queue_accept: listening" \notin loop.failed

-----------------------------------------------------------------------------
\* The counters

\* The handles the loop stays alive for: active and referenced, or closing.
Counted(L) == {h \in Handles : \/ {"ACTIVE", "REF"} \subseteq L.flags[h]
                               \/ Has(L, h, "CLOSING") /\ ~Has(L, h, "CLOSED")}

\* active_handles, kept by increments and decrements spread over all of the
\* library, is the number of those handles: uv_run neither returns while one is
\* left nor waits for one that is not.
ActiveHandlesIsExact == loop.active_handles = Cardinality(Counted(loop))

\* A stream is active exactly while it reads, listens or has a client's request,
\* and activecnt counts which of these.  After an alloc_cb that stops or closes its stream
\* (AllocMayStop) it may count one too few: an end of file or an error is counted again
\* (tcp.c:1029, 1042).
Activities(L, h) == (IF Has(L, h, "READING") THEN 1 ELSE 0)
                  + (IF Has(L, h, "LISTENING") THEN 1 ELSE 0)
                  + Cardinality({r \in L.active_reqs : r.handle = h})

ActiveCountIsExact ==
    \A h \in Servers \cup Conns :
        /\ loop.activecnt[h] = Activities(loop, h)
        /\ ~Has(loop, h, "CLOSING") => (Has(loop, h, "ACTIVE") <=> loop.activecnt[h] > 0)

PacketsOf(q, h) == Cardinality({i \in DOMAIN q : q[i].req.handle = h})

\* Requests of h with the kernel, on the port, or queued in the loop.
Outstanding(h) ==
    Cardinality({r \in loop.kernel : r.handle = h})
    + PacketsOf(loop.iocp, h) + PacketsOf(loop.pending, h) + PacketsOf(work, h)

BeingProcessed(h) ==
    /\ cb.handle = h
    /\ cb.kind \in {"connection", "alloc", "read", "readloop", "write"}

\* reqs_pending counts every request that will still touch the handle: those
\* outstanding, the one whose callback runs, and a shutdown.  The memory of a
\* handle is given back to the client only when it is 0.
ReqsPendingIsExact ==
    \A h \in Servers \cup Conns :
        loop.reqs_pending[h] = Outstanding(h)
                             + (IF BeingProcessed(h) THEN 1 ELSE 0)
                             + (IF h \in loop.shutdown_req THEN 1 ELSE 0)

\* The counts libuv closes and deactivates streams by.
CountersAreExact == ActiveCountIsExact /\ ReqsPendingIsExact

\* endgame_handles is threaded through the handles themselves: a handle is on it
\* iff ENDGAME_QUEUED, and never twice, or the list would be cut or made a cycle.
EndgameListIsExact ==
    /\ \A h \in Handles : Has(loop, h, "ENDGAME_QUEUED") <=>
                              \E i \in DOMAIN loop.endgame : loop.endgame[i] = h
    /\ \A i, j \in DOMAIN loop.endgame : loop.endgame[i] = loop.endgame[j] => i = j

-----------------------------------------------------------------------------
\* Closing

\* A handle that is closing and not yet closed is on its way: on the list of
\* endgames, or held by a request that will put it there.
ClosingIsUnderWay ==
    \A h \in Handles :
        Has(loop, h, "CLOSING") /\ ~Has(loop, h, "CLOSED") =>
            Has(loop, h, "ENDGAME_QUEUED") \/ loop.reqs_pending[h] > 0

-----------------------------------------------------------------------------
\* The loop

\* When uv_poll waits without a timeout something can still wake it: an operation
\* of the kernel.  The exception is a listening socket all of whose connections
\* the client has left unaccepted.
NeverStuckInPoll ==
    pc = "poll" /\ WaitsForever(loop) /\ loop.iocp = << >> =>
        \/ loop.kernel # {}
        \/ \E s \in Servers : loop.pending_accepts[s] # << >>

\* Closing handles go on, and so does a loop that waits.
LoopGoesOn == ClosingIsUnderWay /\ NeverStuckInPoll

-----------------------------------------------------------------------------
\* Progress

\* The thread that calls uv_run goes on, and runs the loop again when it returned.
\* The kernel completes what was in progress on a socket that is closed; of others
\* nothing is assumed.  The peer does not fill every buffer it is offered for ever:
\* uv_process_tcp_read_req would then never leave its loop.
Fairness ==
    /\ WF_vars(LibraryStep)
    /\ \A r \in IoReqs : WF_vars(KernelCompletes(r) /\ Has(loop, r.handle, "SOCKET_CLOSED"))
    /\ SF_vars(Recv /\ cb'.next = "done")

FairSpec == Spec /\ Fairness

\* Every uv_close ends in its close_cb, whatever was outstanding on the handle,
\* unless the client calls uv_stop again and again.
ClosesComplete ==
    <>[](~loop.stop_flag) =>
        \A h \in Handles : Has(loop, h, "CLOSING") ~> Has(loop, h, "CLOSED")

-----------------------------------------------------------------------------
\* The loop implements the promises of Streams.

StateOf(h) ==
    CASE Has(loop, h, "CLOSED")  -> "closed"
      [] Has(loop, h, "CLOSING") /\ ~Has(loop, h, "CLOSED") -> "closing"
      [] h \in loop.handle_queue /\ ~Has(loop, h, "CLOSING") -> "open"
      [] OTHER -> "unborn"

IsActive(h) ==
    \/ h \in Servers /\ Has(loop, h, "LISTENING")
    \/ h \in Conns /\ Has(loop, h, "READING")
    \/ h \in Timers /\ Has(loop, h, "ACTIVE")

\* What a client sees of the loop.
Seen ==
    [state     |-> [h \in Handles |-> StateOf(h)],
     refs      |-> {h \in Handles : Has(loop, h, "REF")},
     active    |-> {h \in Handles : IsActive(h)},
     backlog   |-> [s \in Servers |-> Len(loop.pending_accepts[s])],
     connected |-> {c \in Conns : Has(loop, c, "CONNECTION")},
     writable  |-> {c \in Conns : Has(loop, c, "WRITABLE")},
     readable  |-> {c \in Conns : Has(loop, c, "READABLE")},
     writes    |-> [c \in Conns |-> Cardinality({r \in WriteReqs : r.handle = c /\ request[r] = "issued"})],
     shutting  |-> {c \in Conns : request[ShutdownReq(c)] = "issued"},
     running   |-> pc # "outside",
     stopped   |-> loop.stop_flag,
     cb        |-> [kind   |-> IF cb.kind = "readloop" THEN "none" ELSE cb.kind,
                    handle |-> IF cb.kind = "readloop" THEN "none" ELSE cb.handle,
                    status |-> IF cb.kind = "readloop" THEN "ok" ELSE cb.status]]

Promised == INSTANCE Streams WITH uv <- Seen

\* Every step of the library and of its clients is, to a client, one that Streams
\* allows or no step at all; but for an alloc_cb that stops or closes its stream, whose
\* read_cb comes nevertheless (AllocMayStop).
ImplementsStreams == Promised!StreamsSpec

=============================================================================
