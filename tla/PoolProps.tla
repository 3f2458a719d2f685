------------------------------ MODULE PoolProps ------------------------------
(***************************************************************************)
(* What the thread pool promises those who submit to it, and a poll handle *)
(* those who start it.                                                     *)
(***************************************************************************)
EXTENDS FsPoll

Count(s, r) == Cardinality({i \in DOMAIN s : s[i] = r})

\* The places a request may be in: the two queues, the one local to uv__work_done, a
\* worker's hands, and uv_cancel's, between the locks.
Places(r) ==
    Count(wq, r) + Count(loop_wq, r) + Count(batch, r) + Cardinality({w \in Workers : job[w] = r})
    + (IF lpc \in {"requeues", "requeues in callback"} /\ target = r THEN 1 ELSE 0)

\* A request submitted is in one place until it is called back and in none afterwards; it
\* is called back once, having run at most once, and as cancelled exactly when it never
\* ran, whichever worker takes it while uv_cancel looks for it (threadpool.c: the two
\* mutexes and the signals to uv_cancel in worker).
RequestsAreHeldOnce ==
    \A r \in AllRequests :
        /\ Places(r) = IF r \in active THEN 1 ELSE 0
        /\ ran[r] <= 1 /\ called[r] <= 1
        /\ r \in active => called[r] = 0
        /\ called[r] = 1 => (result[r] = "ECANCELED" <=> ran[r] = 0)

\* A context of a poll handle is freed by one path only and never under a stat or a timer
\* of its own: while it lives it has just one of a stat on its way, a timer that runs, a
\* timer that closes or the user's callback, and it belongs to the handle exactly while
\* the handle is active with it (fs-poll.c: stops from callbacks, with a stat on its way,
\* restarts before the old context is gone).
ContextsAreOwned ==
    /\ failed = {}
    /\ \A c \in Contexts :
          /\ ctx[c].parent_handle <=> handle.active /\ handle.poll_ctx = c
          /\ (c \in active \/ subject = c) <=> ctx[c].timer = "off"
          /\ ctx[c].alloc <=> ctx[c].timer # "none"

\* The step that takes the stat of c off the batch tells the user if and only if it
\* differs from the one before, and the first if and only if it failed.
TellsChange(c) ==
    (lpc = "drains" /\ batch # << >> /\ Head(batch) = c /\ batch' = Tail(batch) /\ ctx[c].parent_handle)
    => ((lpc' = "callback") <=> IF seen[c] = "none" THEN result[c] \in Errors ELSE result[c] # seen[c])

\* Of a handle that is polled on, each stat is told to the user if and only if it differs
\* from the one before, a file that appears, changes back or fails with another error
\* included; the first is told only if it fails (fs-poll.c: poll_cb).
ChangesAreReported == [][\A c \in Contexts : TellsChange(c)]_vars

\* The buffers of a read or write that uv_cancel took before a thread of Unix ran it stay:
\* uv__fs_buf_iter frees them, and neither uv__fs_done nor uv_fs_req_cleanup does.
LeftByCancel(r) == r \in Writes /\ ~program.windows /\ result[r] = "ECANCELED"

\* What libuv mallocs for a request is gone once the request has been called back and
\* cleaned up, whether it ran, failed or was cancelled (uv_fs_req_cleanup, uv_freeaddrinfo
\* and the callbacks of getaddrinfo.c and fs-poll.c), but for the one leak above.
MemoryIsReleased ==
    \A r \in AllRequests : r \notin active /\ subject # r => memory[r] = {} \/ LeftByCancel(r)

\* What is allocated has one owner, who frees it.
MemoryIsOwned == ContextsAreOwned /\ MemoryIsReleased

Ending == lpc \in {"joins", "ended"}

\* The child of a fork that has made no threads of its own: cleanup() joins those of the
\* parent, which it does not have, as reset_once does not clear `initialized'
\* (threadpool.c:108, 169-172).
JoinsTheParents == \E w \in Workers : pc[w] = "lost"

\* Every request submitted is called back, or the process ends first, and a process that
\* ends joins all its threads: no wake-up is lost between a worker that goes to sleep, one
\* on its way back and those who post, and the exit message reaches every worker.  The
\* exception is exact: the child of a fork that submitted nothing does not come to an end.
RequestsAreCalledBack ==
    /\ \A r \in AllRequests : r \in active ~> (r \notin active \/ Ending)
    /\ lpc = "joins" ~> lpc = "ended" \/ JoinsTheParents
=============================================================================
