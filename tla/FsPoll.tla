------------------------------- MODULE FsPoll -------------------------------
(***************************************************************************)
(* A file system poll handle (fs-poll.c): each uv_fs_poll_start allocates a *)
(* context with a timer and a stat request of the thread pool, and the     *)
(* context outlives the handle's interest in it.                           *)
(***************************************************************************)
EXTENDS Pool

CONSTANTS Errors    \* what a stat may fail with; the other results are versions of the file

\* Errors are negative numbers.
ASSUME FsPollAssumption ==
    /\ {"0", "1"} \cap Errors = {}
    /\ \A p \in Programs : "none" \notin p.file

VARIABLES handle,   \* [active, closing, poll_ctx]
          ctx,      \* of each context: [alloc, parent_handle, timer, busy_polling, statbuf]
          seen,     \* history: the result of the last stat of each context
          failed    \* the assertions that did not hold

vars == <<poolVars, handle, ctx, seen, failed>>

NoContext == [alloc |-> FALSE, parent_handle |-> FALSE, timer |-> "none", busy_polling |-> "0",
              statbuf |-> "zero"]

Init ==
    /\ PoolInit
    /\ handle = [active |-> FALSE, closing |-> FALSE, poll_ctx |-> Nobody]
    /\ ctx = [c \in Contexts |-> NoContext]
    /\ seen = [c \in Contexts |-> "none"]
    /\ failed = {}

Check(holds, where) == failed' = IF holds THEN failed ELSE failed \cup {where}

\* uv_close of the timer of a context; its callback frees the context.
CloseTimer(c, x) ==
    /\ ctx' = [ctx EXCEPT ![c] = [x EXCEPT !.timer = "closing"]]
    /\ Check(x.timer # "closing" /\ x.alloc, "uv_close")

FsPollStart(c) ==
    /\ Calls /\ program.polls /\ ~handle.active /\ ~handle.closing
    /\ ~ctx[c].alloc
    /\ ctx' = [ctx EXCEPT ![c] = [NoContext EXCEPT !.alloc = TRUE, !.parent_handle = TRUE, !.timer = "off"]]
    /\ WorkSubmit(c)
    /\ handle' = [handle EXCEPT !.active = TRUE, !.poll_ctx = c]
    /\ seen' = [seen EXCEPT ![c] = "none"]
    /\ UNCHANGED <<program, wq_mutex, job, loop_wq, async, batch, lpc, subject, target, failed>>

Detached(c) == [ctx[c] EXCEPT !.parent_handle = FALSE]

\* Mutant: the timer is closed whether it is active or not.
StopCloses(closing) ==
    LET c == handle.poll_ctx
    IN  /\ handle' = [active |-> FALSE, closing |-> closing, poll_ctx |-> Nobody]
        /\ IF ~handle.active THEN UNCHANGED <<ctx, failed>> ELSE CloseTimer(c, Detached(c))

\* uv_fs_poll_stop: an inactive timer means a stat on its way, and poll_cb cleans up.
Stop(closing) ==
    LET c == handle.poll_ctx
    IN  /\ handle' = [active |-> FALSE, closing |-> closing, poll_ctx |-> Nobody]
        /\ IF ~handle.active
           THEN UNCHANGED <<ctx, failed>>
           ELSE IF ctx[c].timer = "on" THEN CloseTimer(c, Detached(c))
           ELSE ctx' = [ctx EXCEPT ![c] = Detached(c)] /\ Check(ctx[c].parent_handle, "uv_fs_poll_stop")

PoolUntouched == UNCHANGED <<started, mutex, wq_mutex, wq, idle_threads, pc, job, work, single, loop_wq,
                             async, result, memory, ran, called, active, program>>

FsPollStop ==
    /\ Calls /\ program.polls /\ ~handle.closing
    /\ Stop(FALSE)
    /\ PoolUntouched /\ UNCHANGED <<batch, lpc, subject, target, seen>>

\* uv_close: uv__fs_poll_close stops, and the handle's own callback waits for nothing.
FsPollClose ==
    /\ Calls /\ program.polls /\ ~handle.closing
    /\ Stop(TRUE)
    /\ PoolUntouched /\ UNCHANGED <<batch, lpc, subject, target, seen>>

TimerFires(c) ==
    /\ lpc = "idle" /\ ctx[c].timer = "on"
    /\ WorkSubmit(c)
    /\ ctx' = [ctx EXCEPT ![c].timer = "off"]
    /\ Check(ctx[c].parent_handle /\ handle.poll_ctx = c, "timer_cb")
    /\ UNCHANGED <<program, calls, wq_mutex, job, loop_wq, async, batch, lpc, subject, target, handle, seen>>

TimerCloses(c) ==
    /\ lpc = "idle" /\ ctx[c].timer = "closing"
    /\ ctx' = [ctx EXCEPT ![c] = NoContext]
    /\ PoolUntouched /\ UNCHANGED <<calls, batch, lpc, subject, target, handle, seen, failed>>

-----------------------------------------------------------------------------
(* poll_cb. *)

\* Mutant: a file that is there again is not remembered as there.
RememberError(x, r) ==
    IF r \in Errors THEN [x EXCEPT !.busy_polling = r]
    ELSE [x EXCEPT !.busy_polling = IF @ = "0" THEN "1" ELSE @, !.statbuf = r]

\* What poll_cb remembers of a stat, an error by its number and a file by its contents.
Remember(x, r) ==
    IF r \in Errors THEN [x EXCEPT !.busy_polling = r] ELSE [x EXCEPT !.busy_polling = "1", !.statbuf = r]

IsNews(x, r) ==
    IF r \in Errors THEN x.busy_polling # r
    ELSE x.busy_polling # "0" /\ (x.busy_polling \in Errors \/ x.statbuf # r)

\* "out:" of poll_cb: the request is cleaned up; the timer goes on unless the handle was
\* stopped.
Out(c, x) ==
    IF x.parent_handle
    THEN ctx' = [ctx EXCEPT ![c] = [x EXCEPT !.timer = "on"]] /\ UNCHANGED failed
    ELSE CloseTimer(c, x)

DonePoll ==
    LET c == Head(batch)
        r == result[c]
        x == Remember(ctx[c], r)
    IN  /\ lpc = "drains" /\ batch # << >> /\ c \in Contexts
        /\ batch' = Tail(batch)
        /\ active' = active \ {c}
        /\ called' = [called EXCEPT ![c] = @ + 1]
        /\ seen' = [seen EXCEPT ![c] = r]
        /\ IF ctx[c].parent_handle /\ IsNews(ctx[c], r)
           THEN /\ ctx' = [ctx EXCEPT ![c] = x]
                /\ lpc' = "callback" /\ subject' = c
                /\ UNCHANGED <<failed, memory>>
           ELSE /\ Out(c, IF ctx[c].parent_handle THEN x ELSE ctx[c])
                /\ memory' = [memory EXCEPT ![c] = {}]
                /\ UNCHANGED <<lpc, subject>>
        /\ UNCHANGED <<handle, started, mutex, wq_mutex, wq, idle_threads, pc, job, work, single, loop_wq,
                       async, target, result, ran, program, calls>>

PollReturns ==
    /\ lpc = "callback" /\ subject \in Contexts
    /\ Out(subject, ctx[subject])
    /\ memory' = [memory EXCEPT ![subject] = {}]
    /\ lpc' = "drains" /\ subject' = Nobody
    /\ UNCHANGED <<handle, started, mutex, wq_mutex, wq, idle_threads, pc, job, work, single, loop_wq,
                   async, batch, active, target, result, ran, called, program, calls, seen>>

-----------------------------------------------------------------------------

PollUntouched == UNCHANGED <<handle, ctx, seen, failed>>

LoopStep == \/ PoolLoop /\ PollUntouched
            \/ DonePoll \/ PollReturns
            \/ \E c \in Contexts : TimerCloses(c)

ClientStep == \/ PoolClient /\ PollUntouched
              \/ FsPollStop \/ FsPollClose
              \/ \E c \in Contexts : FsPollStart(c)

Next ==
    \/ LoopStep \/ ClientStep
    \/ Exit /\ PollUntouched
    \/ \E c \in Contexts : TimerFires(c)
    \/ \E w \in Workers : (WorkerStep(w) \/ WorkerSpuriouslyWakes(w)) /\ PollUntouched

\* The loop's thread goes on with what it does, and every thread of the pool runs.
FairSpec ==
    /\ Init /\ [][Next]_vars
    /\ WF_vars(LoopStep)
    /\ \A w \in Workers : SF_vars(WorkerStep(w) /\ PollUntouched)
=============================================================================
