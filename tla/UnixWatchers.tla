---------------------------- MODULE UnixWatchers ----------------------------
(***************************************************************************)
(* The handles of libuv on Unix that are not sockets: poll, async, timer,  *)
(* prepare, check, idle, signal, process and fs_event handles (unix/poll.c, *)
(* async.c, timer.c, loop-watcher.c, signal.c, process.c, linux-inotify.c). *)
(***************************************************************************)
EXTENDS UnixUdp

\* uv_poll_init: uv__io_check_fd adds the descriptor and deletes it again.
PollInit(L, h) ==
    LET n == PollFd[h]
        A == IF L.backend = "poll" THEN L ELSE [L EXCEPT !.interest[n] = {}]
    IN  [HandleInit(A, h) EXCEPT !.fd[h] = n, !.open = @ \cup {n}]

\* uv__poll_stop
PollStop(L, h) == InvalidateFd(HandleStop(IoStop(L, h, Polled), h), L.fd[h])

PollStart(L, h, E) ==
    LET A == Check(L, "poll_start: not closing", ~IsClosing(L, h))
        B == PollStop(A, h)
    IN  IF E = {} THEN B ELSE HandleStart(IoStart(B, h, E), h)

\* uv__poll_io: an error that is not the POLLERR|POLLPRI of a file of sysfs stops it.
PollIo(L, h, revents) ==
    LET broken == "ERR" \in revents /\ "PRI" \notin revents
        A == HandleStop(IoStop(L, h, Polled), h)
    IN  Calling("poll", IF broken THEN A ELSE L, h, << >>)

-----------------------------------------------------------------------------
\* uv_async_t

AsyncInit(L, h) ==
    HandleStart([HandleInit(L, h) EXCEPT !.async_queue = Append(@, h)], h)

\* uv_async_send, of any thread
AsyncSend(L, h) ==
    IF h \in L.async_pending THEN L
    ELSE [L EXCEPT !.async_pending = @ \cup {h}, !.async_woken = TRUE]

\* uv__async_io
AsyncRead(L) ==
    Outcome([L EXCEPT !.async_woken = FALSE,
                      !.async_left = L.async_queue, !.async_queue = << >>],
            NoCallback, <<Frame("async", AsyncIo, 0)>>)

NextAsync(L) ==
    LET h == Head(L.async_left)
        A == [L EXCEPT !.async_left = Tail(@), !.async_queue = Append(@, h),
                       !.async_pending = @ \ {h}]
        next == <<Frame("async", AsyncIo, 0)>>
    IN  IF L.async_left = << >> THEN Quiet(L)
        ELSE IF h \notin L.async_pending THEN Outcome(A, NoCallback, next)
        ELSE Calling("async", A, h, next)

AsyncClose(L, h) ==
    HandleStop([L EXCEPT !.async_queue = Without(@, h), !.async_left = Without(@, h)], h)

-----------------------------------------------------------------------------
\* uv_timer_t; the heap is ordered by timeout, then by start_id.

TimerStop(L, t) ==
    IF Has(L, t, "ACTIVE") THEN HandleStop([L EXCEPT !.heap = Without(@, t)], t) ELSE L

TimerStart(L, t, timeout, repeat) ==
    LET A == TimerStop(L, t)
    IN  HandleStart([A EXCEPT !.due[t] = timeout, !.repeat[t] = repeat,
                              !.heap = Append(@, t)], t)

\* uv_timer_again, of a timer that has a callback
TimerAgain(L, t) ==
    IF L.repeat[t] = 0 THEN L ELSE TimerStart(TimerStop(L, t), t, L.repeat[t], L.repeat[t])

\* heap_min, of a heap that is not empty
HeapMin(L) ==
    LET first == CHOOSE i \in DOMAIN L.heap :
                    \A j \in DOMAIN L.heap :
                        \/ L.due[L.heap[i]] < L.due[L.heap[j]]
                        \/ L.due[L.heap[i]] = L.due[L.heap[j]] /\ i <= j
    IN  L.heap[first]

\* uv__next_timeout
NextTimeout(L) ==
    IF L.heap = << >> THEN -1
    ELSE IF L.due[HeapMin(L)] <= 0 THEN 0 ELSE L.due[HeapMin(L)]

\* uv__update_time, n later
UpdateTime(L, n) ==
    [L EXCEPT !.due = [t \in Timers |-> IF Has(L, t, "ACTIVE") THEN @[t] - n ELSE @[t]]]

\* uv__run_timers
NextTimer(L) ==
    LET t == HeapMin(L)
    IN  IF L.heap = << >> \/ L.due[t] > 0 THEN Quiet(L)
        ELSE Calling("timer", TimerAgain(TimerStop(L, t), t), t, <<Frame("timers", t, 0)>>)

-----------------------------------------------------------------------------
\* uv_prepare_t, uv_check_t, uv_idle_t

KindOf(h) == IF h \in Prepares THEN "prepare" ELSE IF h \in Checks THEN "check" ELSE "idle"

WatcherStart(L, h) ==
    IF Has(L, h, "ACTIVE") THEN L
    ELSE HandleStart([L EXCEPT !.lists[KindOf(h)] = <<h>> \o @], h)

WatcherStop(L, h) ==
    LET k == KindOf(h)
    IN  IF ~Has(L, h, "ACTIVE") THEN L
        ELSE HandleStop([L EXCEPT !.lists[k] = Without(@, h), !.left[k] = Without(@, h)], h)

\* uv__run_idle and its like
RunWatchers(L, k) ==
    Outcome([L EXCEPT !.left[k] = L.lists[k], !.lists[k] = << >>], NoCallback,
            <<Frame("watchers", "none", k)>>)

NextWatcher(L, k) ==
    LET h == Head(L.left[k])
    IN  IF L.left[k] = << >> THEN Quiet(L)
        ELSE Calling(k, [L EXCEPT !.left[k] = Tail(@), !.lists[k] = Append(@, h)], h,
                     <<Frame("watchers", "none", k)>>)

-----------------------------------------------------------------------------
\* uv_signal_t.  The tree is walked in the order of uv__signal_compare; the pipe has
\* room for SignalPipe messages.

SignalPipe == 2

WatchersOf(L, s) == {h \in SignalHandles : L.signum[h] = s}

OneShot(L, h) == Has(L, h, "ONE_SHOT")

AllOneShot(L, s) == \A h \in WatchersOf(L, s) : OneShot(L, h)

\* uv__signal_handler, of each handle of the signal; nothing is written to a full pipe.
Catch(L, h) ==
    IF Len(L.signal_pipe) = SignalPipe THEN L
    ELSE [L EXCEPT !.signal_pipe = Append(@, [handle |-> h, signum |-> L.signum[h]]),
                   !.trapped[h] = @ + 1]

\* The first of a tree is a one-shot handle only when all are.
SignalHandler(L, s) ==
    LET all == WatchersOf(L, s)
        once == {h \in all : OneShot(L, h)}
        A == IF L.action[s] = "reset" THEN [L EXCEPT !.action[s] = "default"] ELSE L
    IN  FoldLeft(Catch, A, SetToSeq(all \ once) \o SetToSeq(once))

\* uv__signal_stop
SignalStop(L, h) ==
    LET s == L.signum[h]
        A == [L EXCEPT !.signum[h] = 0]
        B == IF WatchersOf(A, s) = {} THEN [A EXCEPT !.action[s] = "default"]
             ELSE IF AllOneShot(A, s) /\ ~OneShot(L, h) THEN [A EXCEPT !.action[s] = "reset"]
             ELSE A
    IN  IF s = 0 THEN L ELSE HandleStop(B, h)

\* uv__signal_start
SignalStart(L, h, s, oneshot) ==
    LET A == Check(L, "signal_start: not closing", ~IsClosing(L, h))
        B == SignalStop(A, h)
        C == IF WatchersOf(B, s) = {} \/ (~oneshot /\ AllOneShot(B, s))
             THEN [B EXCEPT !.action[s] = IF oneshot THEN "reset" ELSE "handler"] ELSE B
        D == [C EXCEPT !.signum[h] = s]
    IN  IF L.signum[h] = s THEN A
        ELSE HandleStart(IF oneshot THEN SetFlags(D, h, {"ONE_SHOT"}) ELSE D, h)

\* uv__signal_close
SignalClose(L, h) ==
    LET A == SignalStop(L, h)
    IN  IF A.trapped[h] = 0 THEN MakeClosePending(A, h) ELSE A

\* uv__signal_event takes what is in the pipe.
SignalEvent(L) ==
    Outcome([L EXCEPT !.signal_pipe = << >>], NoCallback,
            <<Frame("signals", SignalIo, L.signal_pipe)>>)

\* uv__chld reaps the children that have exited, then calls back for each.
Chld(L) ==
    LET Zombie(p) == L.children[p] = "zombie"
    IN  [L EXCEPT !.exited = SelectSeq(L.process_queue, Zombie),
                  !.process_queue = SelectSeq(@, LAMBDA p : ~Zombie(p)),
                  !.children = [p \in Processes |->
                      IF InSeq(L.process_queue, p) /\ Zombie(p) THEN "reaped" ELSE @[p]]]

\* One message: its callback, then what is done with the handle.
NextSignal(L, msgs) ==
    LET m == Head(msgs)
        then == <<Frame("signal done", m.handle, 0), Frame("signals", SignalIo, Tail(msgs))>>
        A == Check(L, "signal_event: not closing", ~IsClosing(L, m.handle))
        B == Chld(A)
    IN  IF msgs = << >> THEN Quiet(L)
        ELSE IF m.signum # L.signum[m.handle] THEN Outcome(L, NoCallback, then)
        ELSE IF m.handle # ChildWatcher THEN Calling("signal", A, m.handle, then)
        ELSE Outcome(B, NoCallback,
                     <<Frame("exit", IF B.exited = << >> THEN "none" ELSE Head(B.exited), 0)>>
                     \o then)

SignalDone(L, h) ==
    LET A == [L EXCEPT !.trapped[h] = @ - 1]
        B == IF OneShot(A, h) THEN SignalStop(A, h) ELSE A
    IN  Quiet(IF IsClosing(B, h) /\ B.trapped[h] = 0 THEN MakeClosePending(B, h) ELSE B)

-----------------------------------------------------------------------------
\* uv_process_t

\* A turn of the second loop of uv__chld: the next one is taken before the callback.  Of
\* one a callback has closed meanwhile, the last of at most two, none is left.
NextExit(L, p) ==
    LET at   == CHOOSE i \in DOMAIN L.exited : L.exited[i] = p
        next == IF InSeq(L.exited, p) /\ at < Len(L.exited) THEN L.exited[at + 1] ELSE "none"
        A    == HandleStop([L EXCEPT !.exited = Without(@, p)], p)
    IN  IF p = "none" THEN Quiet(Check(L, "chld: pending empty", L.exited = << >>))
        ELSE Calling("exit", A, p, <<Frame("exit", next, 0)>>)

\* uv_spawn: without stdio, without a child, without a program, and with one.
Spawns(L, h) ==
    LET A == HandleInit(L, h)
        B == SignalStart(A, ChildWatcher, SIGCHLD, FALSE)
        C == [B EXCEPT !.process_queue = Append(@, h), !.children[h] = "running"]
    IN  {A, B, HandleStart(C, h)}

\* Mutant: a process closed while others run ends the watch for their exits.
ProcessCloseStops(L, h) ==
    SignalStop(HandleStop([L EXCEPT !.process_queue = Without(@, h),
                                    !.exited = Without(@, h)], h), ChildWatcher)

\* uv__process_close
ProcessClose(L, h) ==
    LET A == HandleStop([L EXCEPT !.process_queue = Without(@, h), !.exited = Without(@, h)], h)
    IN  IF A.process_queue = << >> THEN SignalStop(A, ChildWatcher) ELSE A

-----------------------------------------------------------------------------
\* uv_fs_event_t, with inotify: the handles of one path share a watcher_list.

\* init_inotify, when it succeeds
InitInotify(L) ==
    IF L.fd[InotifyIo] # -1 THEN L
    ELSE IoStart([OpenFd(L) EXCEPT !.fd[InotifyIo] = LowestFd(L)], InotifyIo, {"IN"})

FsEventStarts(L, h) ==
    LET A == InitInotify(L)
        B == [HandleStart(A, h) EXCEPT !.inotify = Append(@, h),
                  !.inotify_list = IF @ = "none" THEN "kept" ELSE @]
    IN  IF Has(L, h, "ACTIVE") \/ ~HasSocket(L, InotifyIo) THEN {L} ELSE {A, B}

\* maybe_free_watcher_list; the watch removed leaves an event of its own.
MaybeFree(L) ==
    IF L.inotify_list = "kept" /\ L.inotify = << >>
    THEN [L EXCEPT !.inotify_list = "none", !.inotify_events = TRUE] ELSE L

FsEventStop(L, h) ==
    LET A == Check(L, "fs_event_stop: watcher_list", L.inotify_list # "none")
    IN  IF ~Has(L, h, "ACTIVE") THEN L
        ELSE MaybeFree(HandleStop([A EXCEPT !.inotify = Without(@, h),
                                            !.inotify_left = Without(@, h)], h))

\* uv__inotify_read reads while there is something to read, here n times.
InotifyReads == 1

InotifyRead(L, n) ==
    LET A == [L EXCEPT !.inotify_events = FALSE]
        more == <<Frame("inotify", InotifyIo, n - 1)>>
    IN  IF n = 0 \/ ~L.inotify_events THEN Quiet(L)
        ELSE IF L.inotify_list = "none" THEN Outcome(A, NoCallback, more)
        ELSE Outcome([A EXCEPT !.inotify_list = "iterating",
                               !.inotify_left = L.inotify, !.inotify = << >>],
                     NoCallback, <<Frame("fs_event", InotifyIo, 0)>> \o more)

NextFsEvent(L) ==
    LET h == Head(L.inotify_left)
    IN  IF L.inotify_left = << >> THEN Quiet(MaybeFree([L EXCEPT !.inotify_list = "kept"]))
        ELSE Calling("fs_event",
                     [L EXCEPT !.inotify_left = Tail(@), !.inotify = Append(@, h)], h,
                     <<Frame("fs_event", InotifyIo, 0)>>)

=============================================================================
