---------------------------- MODULE WinWatchers ----------------------------
(***************************************************************************)
(* The handles of libuv on Windows that another thread wakes, or the loop  *)
(* itself: win/async.c, win/signal.c, win/fs-event.c, the end of a process *)
(* in win/process.c, win/loop-watcher.c, and those that wait for events of *)
(* a socket, win/poll.c, over the record of Win.                           *)
(***************************************************************************)
EXTENDS Win, SequencesExt

-----------------------------------------------------------------------------
\* uv_async_t

AsyncInit(L, h) == HandleStart([HandleInit(L, h) EXCEPT !.async_sent[h] = FALSE], h)

\* Mutant: the flag is read and then set, and every send posts a packet.
AsyncSendAgain(L, h) == Post([L EXCEPT !.async_sent[h] = TRUE], WakeupReq(h), TRUE)

\* uv_async_send, by any thread; the exchange makes it one step.
AsyncSend(L, h) ==
    LET A == Check(L, "async: not closing", ~Has(L, h, "CLOSING"))
    IN  IF L.async_sent[h] THEN A
        ELSE Post([A EXCEPT !.async_sent[h] = TRUE], WakeupReq(h), TRUE)

\* uv_process_async_wakeup_req
AsyncProcess(L, p) ==
    LET h == p.req.handle
        A == [L EXCEPT !.async_sent[h] = FALSE]
    IN  IF Has(L, h, "CLOSING") THEN {Quiet(WantEndgame(A, h))}
        ELSE {Outcome(A, Callback("async", h, p.req, "return"))}

AsyncClose(L, h) == HandleClosing(WantEndgameIf(L, h, ~L.async_sent[h]), h)

AsyncEndgame(L, h) ==
    IF Has(L, h, "CLOSING") /\ ~L.async_sent[h] THEN {Closed(L, h)} ELSE {Quiet(L)}

-----------------------------------------------------------------------------
\* uv_signal_t.  The tree is the set of handles whose signum is not 0.

\* uv_signal_stop
SignalStop(L, h) ==
    IF L.signum[h] = 0 THEN L ELSE HandleStop([L EXCEPT !.signum[h] = 0], h)

\* uv__signal_start.  ONE_SHOT is set and never cleared again.
SignalStart(L, h, signum, oneshot) ==
    LET A == [SignalStop(L, h) EXCEPT !.signum[h] = signum]
        B == IF oneshot THEN SetFlags(A, h, {"ONE_SHOT"}) ELSE A
    IN  IF signum = L.signum[h] THEN L ELSE HandleStart(B, h)

\* One turn of the loop of uv__signal_dispatch: pending_signum is exchanged before
\* the test of a one-shot watcher that has been served.
DispatchTo1(L, h, signum) ==
    LET A == [L EXCEPT !.pending_signum[h] = signum]
        B == IF L.pending_signum[h] = 0 THEN Post(A, SignalReq(h), TRUE) ELSE A
    IN  IF Has(L, h, "ONE_SHOT_DISPATCHED") THEN A
        ELSE IF Has(L, h, "ONE_SHOT") THEN SetFlags(B, h, {"ONE_SHOT_DISPATCHED"}) ELSE B

\* uv__signal_dispatch, on the thread of the console's control handler, under
\* uv__signal_lock: every watcher of signum in the tree.
SignalDispatch(L, signum) ==
    FoldSet(LAMBDA h, M : DispatchTo1(M, h, signum), L, {h \in Signals : L.signum[h] = signum})

\* The end of uv_process_signal_req.
SignalDone(L, h) ==
    LET A == IF Has(L, h, "ONE_SHOT") THEN SignalStop(L, h) ELSE L
    IN  IF Has(A, h, "CLOSING")
        THEN WantEndgame(Check(A, "signal: stopped", A.signum[h] = 0), h)
        ELSE A

\* uv_process_signal_req up to the callback, or without one when the watcher has
\* been stopped or given another signal since.
SignalProcess(L, p) ==
    LET h == p.req.handle
        A == Check(L, "signal: dispatched", L.pending_signum[h] # 0)
        B == [A EXCEPT !.pending_signum[h] = 0]
    IN  IF L.pending_signum[h] = L.signum[h]
        THEN {Outcome(B, Callback("signal", h, p.req, "signal done"))}
        ELSE {Quiet(SignalDone(B, h))}

SignalClose(L, h) ==
    WantEndgameIf(HandleClosing(SignalStop(L, h), h), h, L.pending_signum[h] = 0)

SignalEndgame(L, h) ==
    LET A == Check(L, "signal: nothing pending", L.signum[h] = 0 /\ L.pending_signum[h] = 0)
    IN  {Closed(A, h)}

-----------------------------------------------------------------------------
\* uv_fs_event_t

\* uv_fs_event_start, when it succeeds; else it leaves the handle as it was (but
\* for a path that is not UTF-8: the handle then stays active with nothing asked).
FsEventStart(L, h) ==
    LET A == [HandleStart(L, h) EXCEPT !.dir_handle = @ \cup {h}, !.req_pending[h] = TRUE]
    IN  IF Has(L, h, "ACTIVE") THEN L ELSE Submit(A, FsEventReq(h))

FsEventStop(L, h) ==
    IF ~Has(L, h, "ACTIVE") THEN L
    ELSE HandleStop([L EXCEPT !.dir_handle = @ \ {h}], h)

\* uv_fs_event_queue_readdirchanges
QueueReadDirChanges(L, h, how) ==
    LET A == Check(L, "fs_event: dir_handle", h \in L.dir_handle)
        B == Check(A, "fs_event: no request", ~L.req_pending[h])
    IN  Issue([B EXCEPT !.req_pending[h] = TRUE], FsEventReq(h), how)

\* uv_process_fs_event_req up to its callback.  One packet may carry several changes,
\* and each is a callback of its own.
FsEventProcess(L, p) ==
    LET h == p.req.handle
        A == Check(L, "fs_event: a request", L.req_pending[h])
        B == [A EXCEPT !.req_pending[h] = FALSE]
        Changed(next) == Outcome(B, Callback("fs_event", h, p.req, next))
    IN  IF ~Has(L, h, "ACTIVE") THEN {Quiet(WantEndgameIf(B, h, Has(L, h, "CLOSING")))}
        ELSE {Changed("fs_event done"), Outcome(B, Callback("none", h, p.req, "fs_event done"))}
             \cup IF p.ok THEN {Changed("fs_event more")} ELSE {}

\* The next change of the packet, unless the callback has closed the handle.
FsEventMore(L, cb) ==
    {Outcome(L, [cb EXCEPT !.kind = "none", !.next = "fs_event done"])}
        \cup IF Has(L, cb.handle, "CLOSING") THEN {}
             ELSE {Outcome(L, [cb EXCEPT !.next = n]) : n \in {"fs_event done", "fs_event more"}}

FsEventDone(L, h, answers) ==
    IF Has(L, h, "CLOSING") THEN {WantEndgame(L, h)}
    ELSE {QueueReadDirChanges(L, h, how) : how \in answers}

FsEventClose(L, h) ==
    WantEndgameIf(HandleClosing(FsEventStop(L, h), h), h, ~L.req_pending[h])

FsEventEndgame(L, h) ==
    IF Has(L, h, "CLOSING") /\ ~L.req_pending[h] THEN {Closed(L, h)} ELSE {Quiet(L)}

-----------------------------------------------------------------------------
\* uv_process_t.  Waiting are the processes whose wait_handle is registered; the
\* thread that waits posts the exit.

\* uv_spawn: it fails before anything is registered, or the child runs.
SpawnFailed(L, h) == HandleInit(L, h)
Spawn(L, h) == HandleStart([HandleInit(L, h) EXCEPT !.waiting = @ \cup {h}], h)

\* exit_wait_callback, on a thread of the system; the wait is for one exit only.
ExitWaitCallback(L, h) ==
    LET A == Check(L, "process: no exit pending", ~L.exit_pending[h])
    IN  Post([A EXCEPT !.exit_pending[h] = TRUE, !.waiting = @ \ {h}], ExitReq(h), TRUE)

\* uv_process_proc_exit up to exit_cb.
ProcExit(L, p) ==
    LET h == p.req.handle
        A == Check(L, "process: exit pending", L.exit_pending[h])
        B == [A EXCEPT !.exit_pending[h] = FALSE]
    IN  IF Has(L, h, "CLOSING") THEN {Quiet(WantEndgame(B, h))}
        ELSE {Outcome(HandleStop(B, h), Callback("exit", h, p.req, "return"))}

\* Mutant: the wait goes on after uv_close.
ProcessCloseWaiting(L, h) ==
    WantEndgameIf(HandleClosing(L, h), h, ~L.exit_pending[h])

\* uv_process_close: UnregisterWaitEx returns when the wait is cancelled or its
\* callback has run, so the callback either has posted or never will.
ProcessClose(L, h) ==
    WantEndgameIf([HandleClosing(L, h) EXCEPT !.waiting = @ \ {h}], h, ~L.exit_pending[h])

ProcessEndgame(L, h) ==
    {Closed(Check(L, "process: no exit pending", ~L.exit_pending[h]), h)}

-----------------------------------------------------------------------------
\* uv_prepare_t, uv_check_t and uv_idle_t: UV_LOOP_WATCHER_DEFINE.  The list of a
\* kind is L.watchers[kind], its head first, and next where uv_*_invoke goes on.

KindOf(h) == CASE h \in Prepares -> "prepare" [] h \in Checks -> "check" [] OTHER -> "idle"

WatcherStart(L, h) ==
    IF Has(L, h, "ACTIVE") THEN L
    ELSE HandleStart([L EXCEPT !.watchers[KindOf(h)] = <<h>> \o @], h)

FirstOf(s) == IF s = << >> THEN "none" ELSE Head(s)

\* The handle after h in the list it is on.
NextOf(L, h) ==
    LET s == L.watchers[KindOf(h)]
    IN  FirstOf(SubSeq(s, 1 + CHOOSE i \in DOMAIN s : s[i] = h, Len(s)))

WatcherStop(L, h) ==
    LET k == KindOf(h)
        A == [L EXCEPT !.watchers[k] = Remove(@, h),
                       !.next[k] = IF @ = h THEN NextOf(L, h) ELSE @]
    IN  IF Has(L, h, "ACTIVE") THEN HandleStop(A, h) ELSE L

\* uv_*_invoke: its first assignment, and one turn of its loop.
InvokeBegin(L, k) == [L EXCEPT !.next[k] = FirstOf(L.watchers[k])]

InvokeNext(L, k) ==
    LET h == L.next[k]
    IN  Outcome([L EXCEPT !.next[k] = NextOf(L, h)], Callback(k, h, NoReq, "return"))

WatcherClose(L, h) == WantEndgame(HandleClosing(WatcherStop(L, h), h), h)

WatcherEndgame(L, h) == {Closed(L, h)}

-----------------------------------------------------------------------------
\* uv_poll_t.  It has two requests, each for the events wanted when it was submitted:
\* a fast one polls the AFD driver, a slow one selects on a thread.  A new submission
\* masks what the other request may still report.

Slow(h) == h \in SlowPolls

\* What uv_poll_start may ask of it; select knows nothing of UV_DISCONNECT.
EventsOf(h) == IF Slow(h) THEN Events \ {"disconnect"} ELSE Events

\* uv_poll_init_socket; the handle stays initialised if getsockopt then fails.
PollInit(L, h) ==
    [HandleInit(L, h) EXCEPT !.submitted[h] = <<{}, {}>>, !.events[h] = {}]

Covered(L, h)   == L.events[h] \subseteq L.submitted[h][1] \cup L.submitted[h][2]
NoneOut(L, h)   == L.submitted[h] = <<{}, {}>>

\* uv__fast_poll_submit_poll_req and uv__slow_poll_submit_poll_req: the first request
\* that is not out; a fast poll with both out waits for one to come back.
PollSubmit(L, h, how) ==
    LET i == IF L.submitted[h][1] = {} THEN 1 ELSE 2
        A == [L EXCEPT !.submitted[h][i] = L.events[h],
                       !.mask[h] = [j \in 1..2 |-> IF j = i THEN {} ELSE L.events[h]]]
    IN  IF L.submitted[h][i] # {} THEN Check(L, "poll: a request is free", ~Slow(h))
        ELSE Issue(A, PollReq(h, i), how)

PollAnswers == {"queued", "failed"}

\* Mutant: uv_poll_start leaves what is out alone, also when it does not cover events.
PollSetsOnce(L, h, events) ==
    LET A == Check([L EXCEPT !.events[h] = events], "poll: not closing", ~Has(L, h, "CLOSING"))
        B == IF events # {} THEN HandleStart(A, h) ELSE HandleStop(A, h)
    IN  IF ~NoneOut(B, h) \/ events = {} THEN {B} ELSE {PollSubmit(B, h, how) : how \in PollAnswers}

\* uv__fast_poll_set and uv__slow_poll_set, with events for uv_poll_start and none
\* for uv_poll_stop.
PollSets(L, h, events) ==
    LET A == Check([L EXCEPT !.events[h] = events], "poll: not closing", ~Has(L, h, "CLOSING"))
        B == IF events # {} THEN HandleStart(A, h) ELSE HandleStop(A, h)
    IN  IF Covered(B, h) THEN {B} ELSE {PollSubmit(B, h, how) : how \in PollAnswers}

\* uv__slow_poll_thread_proc reads what to select for from the handle when it comes to run.
SlowReports(h) == SUBSET EventsOf(h)

\* uv__fast_poll_process_poll_req and uv__slow_poll_process_poll_req up to poll_cb.
\* A fast request reports what it was submitted for, and may report that the socket
\* was closed under it.  An error of either thread of a slow one is written to the first
\* request, so what a slow request holds may be an error or anything.
PollProcess(L, p) ==
    LET h == p.req.handle
        i == p.req.id
        A == [L EXCEPT !.submitted[h][i] = {}]
        Calls(M, events) == IF events = {} THEN Outcome(M, Callback("none", h, p.req, "poll done"))
                            ELSE Outcome(M, Callback("poll", h, p.req, "poll done"))
        Reported == IF Slow(h) THEN SlowReports(h) ELSE SUBSET L.submitted[h][i]
        Seen(R) == (R \cap L.events[h]) \ L.mask[h][i]
        Failed == IF L.events[h] = {} THEN Calls(A, {})
                  ELSE Outcome([A EXCEPT !.events[h] = {}],
                               Callback("poll error", h, p.req, "poll done"))
        LocalClose(R) == Calls(IF Has(A, h, "ACTIVE") THEN HandleStop([A EXCEPT !.events[h] = {}], h)
                               ELSE [A EXCEPT !.events[h] = {}], Seen(R))
    IN  (IF p.ok \/ Slow(h) THEN {Calls(A, Seen(R)) : R \in Reported} ELSE {})
        \cup (IF ~p.ok \/ Slow(h) THEN {Failed} ELSE {})
        \cup (IF p.ok /\ ~Slow(h) THEN {LocalClose(R) : R \in Reported} ELSE {})
        \cup (IF ~p.ok /\ ~Slow(h) THEN {Calls(A, {})} ELSE {})       \* WSAEINTR

\* The end of both: ask again for what is wanted and not out.
PollDone(L, h) ==
    IF ~Covered(L, h) THEN {PollSubmit(L, h, how) : how \in PollAnswers}
    ELSE {WantEndgameIf(L, h, Has(L, h, "CLOSING") /\ NoneOut(L, h))}

\* uv__fast_poll_close and uv__slow_poll_close; a fast one makes what is out return.
PollClose(L, h) ==
    WantEndgameIf(HandleClosing([L EXCEPT !.events[h] = {}], h), h, NoneOut(L, h))

PollEndgame(L, h) == {Closed(Check(L, "poll: nothing is out", NoneOut(L, h)), h)}

=============================================================================
