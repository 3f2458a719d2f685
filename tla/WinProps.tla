------------------------------ MODULE WinProps ------------------------------
(***************************************************************************)
(* What the loop promises for the handles of WinLoop.                      *)
(***************************************************************************)
EXTENDS WinLoop

\* No assert() of the code modelled is false: nothing is queued, posted, submitted or
\* given back twice, whatever the order in which the system, its threads and the
\* client come (win/async.c, signal.c, poll.c, fs-event.c, process.c, udp.c, pipe.c).
NoAssertionFails == loop.failed = {}

Counted(L) == {h \in AllHandles : \/ {"ACTIVE", "REF"} \subseteq L.flags[h]
                                  \/ Has(L, h, "CLOSING") /\ ~Has(L, h, "CLOSED")}

Activities(L, h) == (IF Has(L, h, "READING") THEN 1 ELSE 0)
                  + (IF Has(L, h, "LISTENING") THEN 1 ELSE 0)
                  + Cardinality({r \in L.active_reqs : r.handle = h})

PacketsOf(q, h) == Cardinality({i \in DOMAIN q : q[i].req.handle = h})

\* The requests of h that something will still touch: with the system or a thread, on
\* the port, in the queues of the loop, or waiting for another write to end.
Outstanding(h) ==
    Cardinality({r \in loop.kernel : r.handle = h})
    + PacketsOf(loop.iocp, h) + PacketsOf(loop.pending, h) + PacketsOf(work, h)
    + (IF h \in Streams THEN Len(loop.unwritten[h]) ELSE 0)

BeingProcessed(h) ==
    cb.handle = h /\ cb.next \in {"decrease", "recv done", "read done", "write done",
                                  "tty done", "tty more"}

\* The counters uv_run and uv_close go by: the loop lives exactly as long as a handle
\* is active or closing, a handle is active exactly as long as it reads, listens or has
\* a request of the client, and reqs_pending counts what will still touch it.  One case
\* is the exception: a console refused a wait for its input (RegisterWaitForSingleObject,
\* win/tty.c:443-450) stops reading without DECREASE_ACTIVE_COUNT (688-696), and counts
\* as active once too often from then on.
CountersAreExact ==
    /\ loop.active_handles = Cardinality(Counted(loop))
    /\ \A h \in Udps \cup PipeServers \cup Streams :
          /\ loop.activecnt[h] = Activities(loop, h) + (IF h \in loop.uncounted THEN 1 ELSE 0)
          /\ ~Has(loop, h, "CLOSING") => (Has(loop, h, "ACTIVE") <=> loop.activecnt[h] > 0)
          /\ loop.reqs_pending[h] =
                Outstanding(h) + (IF BeingProcessed(h) THEN 1 ELSE 0)
                + (IF h \in Streams /\ h \in loop.shutdown_req THEN 1 ELSE 0)

\* The memory of a handle is the client's again when its close_cb is called: no request
\* of it is out, no thread waits for it, no list of the loop has it.
ClosedHandlesAreForgotten ==
    \A h \in AllHandles : Has(loop, h, "CLOSED") =>
        /\ Outstanding(h) = 0
        /\ h \notin loop.waiting \cup loop.in_console
        /\ \A i \in DOMAIN loop.endgame : loop.endgame[i] # h
        /\ \A k \in DOMAIN loop.watchers :
              loop.next[k] # h /\ \A i \in DOMAIN loop.watchers[k] : loop.watchers[k][i] # h

\* A client's request is called back once, before the close_cb of its handle.
RequestsAreCalledOnce ==
    [][cb' # cb =>
          /\ cb'.kind \in UserCallbacks => request[cb'.req] = "issued"
          /\ cb'.kind = "close" =>
                \A r \in UserReqs : r.handle = cb'.handle => request[r] # "issued"]_vars

\* What a uv_poll_t is to report is out in one of its two requests, or both are out
\* and the next to come back will ask for it: no event is waited for in vain, in
\* whatever order the two come back (win/poll.c).
EventsAreWaitedFor ==
    \A h \in Polls : cb.handle # h =>
        Covered(loop, h) \/ (~Slow(h) /\ \A i \in 1..2 : loop.submitted[h][i] # {})

\* The lock of the console's output is held for a cancelled read only while the thread
\* that will give it back is in ReadConsoleW: else every write to a console would wait
\* for ever ("It will be the ReadConsole thread's responsibility to release the lock",
\* uv__cancel_read_console, win/tty.c).
LockIsGivenBack == loop.output_lock = "held" => loop.in_console # {}

-----------------------------------------------------------------------------
\* The loop's thread goes on and calls uv_run again; the system completes what is out
\* on a handle that is closing, whose socket, pipe or directory is closed.  A thread
\* reading a console cannot be woken by then: someone presses a key.
Fairness ==
    /\ WF_vars(LibraryStep)
    /\ WF_vars(\E r \in loop.kernel : Has(loop, r.handle, "CLOSING") /\ KernelCompletes(r))

FairSpec == Spec /\ Fairness

\* A one-shot signal watcher that was started again after its first signal: the flag of
\* that first dispatch is never cleared, so the next signal sets pending_signum and posts
\* no packet (uv__signal_dispatch, win/signal.c:93-97).
SignalSwallowed(h) ==
    /\ h \in Signals /\ Has(loop, h, "ONE_SHOT_DISPATCHED")
    /\ loop.pending_signum[h] # 0 /\ Outstanding(h) = 0

\* Every uv_close ends in its close_cb, whatever is out on the handle: again and again
\* there is no handle that is closing and not yet closed.  (A handle is closed once, so
\* one that never is would be left.)  The exception is exact: a one-shot watcher that
\* swallowed a signal waits for a packet nobody has posted (uv_signal_close,
\* win/signal.c:261-263), and its close_cb never comes.
ClosesComplete ==
    []<>(\A h \in AllHandles :
            Has(loop, h, "CLOSING") => Has(loop, h, "CLOSED") \/ SignalSwallowed(h))

=============================================================================
