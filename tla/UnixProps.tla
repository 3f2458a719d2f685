------------------------------ MODULE UnixProps ------------------------------
(***************************************************************************)
(* What the loop promises on Unix.                                         *)
(***************************************************************************)
EXTENDS UnixClient

\* No assert() and no abort() of the code modelled is reached and no callback that was
\* taken away is called: the queues, watchers and descriptors agree in any order of events,
\* callbacks, signals and closes but those of Meetings (unix/core.c, stream.c, udp.c,
\* poll.c, signal.c, process.c, linux-inotify.c).  With "allocs" the assertion of uv__read
\* on its descriptor fails (stream.c:1155), with "fork" that of epoll_ctl.
NoAssertionFails == loop.failed = {}

Queued(h) == IF h \in Streams \cup Udps
             THEN loop.write_queue[h] \o [i \in DOMAIN loop.completed[h] |-> loop.completed[h][i].req]
             ELSE << >>

Held == UNION {ToSet(Queued(h)) : h \in Streams \cup Udps}
        \cup {ConnectReq(h) : h \in {h \in loop.connect_req : ~Has(loop, h, "UV_CLOSED")}}
        \cup {ShutdownReq(h) : h \in loop.shutdown_req}

\* What uv_run lives by is exact: the handles counted are those active and referenced,
\* and the requests counted are those some queue still holds, each once (uv-common.h;
\* a request left in no queue would keep uv_run from ever returning).
CountersAreExact ==
    /\ loop.active_handles = Cardinality({h \in Handles : {"ACTIVE", "REF"} \subseteq loop.flags[h]})
    /\ loop.active_reqs = Held
    /\ \A h \in Streams \cup Udps : IsInjective(Queued(h))

Acceptors == {h \in Servers \cup Streams : ~IsClosing(loop, h)}

Holders(n) ==
    {<<"watcher", w>> : w \in {w \in Watchers \ Polls : loop.fd[w] = n}}
    \cup {<<"accepted", h>> : h \in {h \in Acceptors : loop.accepted_fd[h] = n}}
    \cup UNION {{<<"queued", h, i>> : i \in {i \in DOMAIN loop.queued_fds[h] : loop.queued_fds[h][i] = n}} :
                    h \in Acceptors}
    \cup (IF loop.emfile_fd = n THEN {<<"spare">>} ELSE {})

\* Every descriptor libuv has open is held in one place, and what it holds is open: none
\* is leaked or closed twice when a stream is closed with connections nobody accepted,
\* descriptors nobody took, or none left to open (unix/stream.c, core.c).
DescriptorsAreOwned ==
    \A n \in Fds :
        /\ Cardinality(Holders(n)) <= (IF n \in loop.open THEN 1 ELSE 0)
        /\ n \in loop.open /\ Holders(n) = {} => \E h \in Polls : loop.fd[h] = n

\* An event still to be dispatched is told only to a watcher the descriptor was of when
\* the system reported it, however many callbacks have closed and opened since
\* (uv__platform_invalidate_fd).
StaleEventsAreDropped ==
    \A i \in DOMAIN loop.batch :
        LET e == loop.batch[i]
        IN  e.fd # -1 => loop.watchers[e.fd] \in e.owner \cup {"none"}

\* What a stream or a socket still has to do when its descriptor is writable.
Unfinished(h) == loop.write_queue[h] # << >> \/ h \in loop.connect_req \/ h \in loop.shutdown_req

\* When the loop waits, nothing is waited for in vain: what a watcher wants is registered
\* for its descriptor and leads to it, and a stream or socket that reads, connects, has
\* something to write or to shut down wants the event that goes on with it (uv__io_start,
\* uv__io_stop, the short cuts between them and each backend; stream.c, udp.c).
WatchersAreRegistered ==
    pc = "poll" =>
        /\ \A w \in Watchers : loop.pevents[w] # {} =>
              /\ loop.watchers[loop.fd[w]] = w
              /\ loop.pevents[w] \subseteq loop.interest[loop.fd[w]]
        /\ \A h \in Streams \cup Udps : ~IsClosing(loop, h) =>
              /\ Unfinished(h) => IoActive(loop, h, {"OUT"}) \/ InSeq(loop.pending, h)
              /\ loop.completed[h] # << >> => InSeq(loop.pending, h) \/ IoActive(loop, h, {"OUT"})
              /\ Has(loop, h, "READING") => IoActive(loop, h, {"IN"})

\* The messages of SIGCHLD that uv__signal_event has taken and not looked at.
Carries(f) == f.do = "signals" /\ InSeq(f.arg, [handle |-> ChildWatcher, signum |-> SIGCHLD])

\* A child that has ended is noticed: while its process has not been reaped the message
\* of a SIGCHLD is on its way, whatever is spawned, stopped and closed meanwhile
\* (uv_spawn, uv__process_close, uv__chld).
ChildrenAreNoticed ==
    \A i \in DOMAIN loop.process_queue :
        loop.children[loop.process_queue[i]] = "zombie" =>
            \/ InSeq(loop.signal_pipe, [handle |-> ChildWatcher, signum |-> SIGCHLD])
            \/ \E j \in DOMAIN todo : Carries(todo[j])

\* What is to happen is waited for: nothing is registered, sent or reaped too late.
EventsAreWaitedFor == WatchersAreRegistered /\ ChildrenAreNoticed

\* After its close_cb the memory of a handle is the client's: no queue, descriptor, list,
\* signal or frame of the loop leads to it.
NothingLeadsToClosed ==
    \A h \in Handles : Has(loop, h, "UV_CLOSED") /\ ~Opened(h) =>
        /\ \A n \in AllFds : loop.watchers[n] # h
        /\ \A q \in {loop.watcher_queue, loop.pending, loop.pq, loop.closing, loop.heap,
                     loop.async_queue, loop.async_left, loop.process_queue, loop.exited,
                     loop.inotify, loop.inotify_left} : ~InSeq(q, h)
        /\ \A k \in DOMAIN loop.lists : ~InSeq(loop.lists[k] \o loop.left[k], h)
        /\ \A i \in DOMAIN loop.signal_pipe : loop.signal_pipe[i].handle # h
        /\ \A i \in DOMAIN todo : todo[i].handle # h
        /\ h \in SignalHandles => loop.signum[h] = 0
        /\ ~\E r \in loop.active_reqs : r.handle = h

\* What has been closed is gone: a handle, its descriptors, and the events told for them.
ClosedHandlesAreForgotten == NothingLeadsToClosed /\ DescriptorsAreOwned /\ StaleEventsAreDropped

HandleCallbacks == {"alloc", "read", "recv", "connection", "poll", "async", "timer", "prepare", "check",
                    "idle", "signal", "exit", "fs_event"}

\* A request is called back once, before the close_cb of its handle; a handle is not
\* called once uv_close has been, whatever was dispatched, queued or due for it.  The
\* exceptions are "allocs", where what alloc_cb has closed is read all the same (udp.c:180),
\* and "exits", where exit_cb comes to what that of another process has closed.
CallbacksAreDue ==
    [][cb' # cb =>
          /\ cb'.kind \in UserCallbacks => request[cb'.req] = "issued"
          /\ cb'.kind = "close" =>
                \A r \in UserReqs : r.handle = cb'.handle => request[r] # "issued"
          /\ cb'.kind \in HandleCallbacks => ~IsClosing(loop', cb'.handle)]_vars

-----------------------------------------------------------------------------
\* The loop's thread goes on, and calls uv_run again when it has returned.
Fairness == WF_vars(LibraryStep)

FairSpec == Spec /\ Fairness

\* A signal handle closed with messages of it in the pipe is in no queue of the loop, which
\* looks at the pipe only while something else keeps it alive.
LeftInThePipe(h) == h \in Signals /\ loop.trapped[h] > 0 /\ ~Alive(loop)

\* Every uv_close ends in its close_cb, though requests, events and signals of the handle
\* are still on their way; but that of a signal handle waits, where the last of the loop's
\* handles is closed, for messages that uv_run does not read any more (uv__signal_close).
\* A uv_udp_t and a process are not closed in the meetings "sends" and "exits".
ClosesComplete ==
    []<>(\A h \in Handles : IsClosing(loop, h) =>
            (Has(loop, h, "UV_CLOSED") /\ ~Opened(h)) \/ LeftInThePipe(h))

=============================================================================
