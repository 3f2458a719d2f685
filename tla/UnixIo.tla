------------------------------- MODULE UnixIo -------------------------------
(***************************************************************************)
(* io watchers (unix/core.c) and the five ways libuv asks the system for    *)
(* their events: epoll (linux-core.c), kqueue (kqueue.c), event ports       *)
(* (sunos.c), pollset (aix.c) and poll (posix-poll.c).                      *)
(***************************************************************************)
EXTENDS Unix, SequencesExt

Polled == {"IN", "OUT", "PRI", "RDHUP"}

\* A descriptor the system hands out is the lowest one free.
FreeFds(L) == Fds \ L.open

LowestFd(L) == CHOOSE n \in FreeFds(L) : \A m \in FreeFds(L) : n <= m

OpenFd(L) == [L EXCEPT !.open = @ \cup {LowestFd(L)}]

-----------------------------------------------------------------------------
\* unix/core.c

IoActive(L, w, E) == L.pevents[w] \cap E # {}

Queue(L, w) ==
    IF InSeq(L.watcher_queue, w) THEN L ELSE [L EXCEPT !.watcher_queue = Append(@, w)]

IoStart(L, w, E) ==
    LET A == Check([L EXCEPT !.pevents[w] = @ \cup E], "io_start: fd >= 0", L.fd[w] >= 0)
        B == Queue(A, w)
        n == L.fd[w]
    IN  IF n < 0 \/ (L.backend # "ports" /\ A.events[w] = A.pevents[w]) THEN A
        ELSE IF B.watchers[n] = "none"
        THEN [B EXCEPT !.watchers[n] = w, !.nfds = @ + 1] ELSE B

IoStop(L, w, E) ==
    LET A == [L EXCEPT !.pevents[w] = @ \ E]
        B == [A EXCEPT !.watcher_queue = Without(@, w)]
        n == L.fd[w]
        C == Check(B, "io_stop: own watcher", B.watchers[n] = w)
        D == Check(C, "io_stop: nfds > 0", C.nfds > 0)
    IN  IF n = -1 THEN L
        ELSE IF A.pevents[w] # {} THEN Queue(A, w)
        ELSE IF A.watchers[n] = "none" THEN B
        ELSE [D EXCEPT !.watchers[n] = "none", !.nfds = @ - 1, !.events[w] = {}]

\* An element QUEUE_REMOVE took off pending_queue still points into it: QUEUE_EMPTY is
\* false of it, and it is not inserted again.
IoFeed(L, w) ==
    IF InSeq(L.pending \o L.pq, w) \/ w \in L.stale THEN L
    ELSE [L EXCEPT !.pending = Append(@, w)]

-----------------------------------------------------------------------------
\* uv__platform_invalidate_fd

Forget(q, n) == [i \in DOMAIN q |-> IF q[i].fd = n THEN [q[i] EXCEPT !.fd = -1] ELSE q[i]]

\* uv__pollfds_del takes the first slot of n out, the last one into its place.
PollfdsDel(L, n) ==
    LET used == Len(L.poll_fds)
        i    == CHOOSE j \in 1..used :
                   L.poll_fds[j] = n /\ \A k \in 1..(j - 1) : L.poll_fds[k] # n
        A    == IF n = -1 THEN L ELSE [L EXCEPT !.interest[n] = {}]
    IN  IF ~InSeq(L.poll_fds, n) THEN L
        ELSE [A EXCEPT !.poll_fds = SubSeq([@ EXCEPT ![i] = L.poll_fds[used]], 1, used - 1)]

\* Mutant: the events of the descriptor still to be dispatched are left.
InvalidateFdKept(L, n) ==
    IF L.backend \in {"epoll", "pollset"} /\ n # -1 THEN [L EXCEPT !.interest[n] = {}]
    ELSE IF L.backend = "poll" THEN PollfdsDel(L, n) ELSE L

InvalidateFd(L, n) ==
    LET A == [L EXCEPT !.batch = Forget(@, n)]
        B == IF n = -1 THEN A ELSE [A EXCEPT !.interest[n] = {}]
    IN  CASE L.backend \in {"epoll", "pollset"} -> B
          [] L.backend \in {"kqueue", "ports"}  -> A
          [] L.backend = "poll" /\ ~L.iterating -> PollfdsDel(L, n)
          [] OTHER ->
               [B EXCEPT !.poll_fds = [i \in DOMAIN @ |-> IF @[i] = n THEN -1 ELSE @[i]]]

IoClose(L, w) ==
    LET A == IoStop(L, w, Polled)
        B == [A EXCEPT !.pending = Without(@, w), !.pq = Without(@, w),
                       !.stale = IF InSeq(L.pending \o L.pq, w) THEN @ \cup {w} ELSE @]
    IN  InvalidateFd(B, L.fd[w])

\* uv__close; what the system has registered for the file goes with it, except that a
\* pollset keeps the entry and the array of poll is the library's own.
CloseFd(L, n) ==
    LET A == Check([L EXCEPT !.open = @ \ {n}], "close: open", n \in L.open)
    IN  IF L.backend \in {"epoll", "kqueue", "ports"} THEN [A EXCEPT !.interest[n] = {}] ELSE A

-----------------------------------------------------------------------------
\* uv__io_poll: the watchers queued are registered.

Registered(L, w, n) ==
    CASE L.backend = "kqueue" -> L.interest[n] \cup (L.pevents[w] \ L.events[w])
      [] OTHER                -> L.pevents[w]

\* EPOLL_CTL_MOD and PS_DELETE fail of a descriptor that is not registered.
CtlSucceeds(L, w, n) ==
    L.backend \in {"epoll", "pollset"} /\ L.events[w] # {} => L.interest[n] # {}

RegisterWatcher(L, w) ==
    LET n == L.fd[w]
        A == Check(L, "io_poll: pevents != 0", L.pevents[w] # {})
        B == Check(A, "io_poll: fd >= 0", n >= 0)
        C == Check(B, "io_poll: ctl", n >= 0 => CtlSucceeds(L, w, n))
        D == [C EXCEPT !.interest[n] = Registered(L, w, n), !.events[w] = L.pevents[w]]
    IN  IF n < 0 THEN B
        ELSE IF L.backend = "poll" /\ ~InSeq(L.poll_fds, n)
        THEN [D EXCEPT !.poll_fds = Append(@, n)] ELSE D

RegisterAll(L) ==
    FoldLeft(RegisterWatcher,
             Check([L EXCEPT !.watcher_queue = << >>], "io_poll: watcher_queue empty",
                   L.nfds = 0 => L.watcher_queue = << >>),
             L.watcher_queue)

-----------------------------------------------------------------------------
\* The events the system reports.

Event(L, n, revents) == [fd |-> n, revents |-> revents,
                         owner |-> {w \in Watchers : L.fd[w] = n}]

\* The loop's own descriptors are readable as long as there is something to read; any
\* other may be what it is asked for, and a connected stream or a descriptor of the
\* client may report an error or a hangup unasked.
Readable(L, n) ==
    CASE n = AsyncFd  -> L.async_woken
      [] n = SignalFd -> L.signal_pipe # << >>
      [] n = L.fd[InotifyIo] -> L.inotify_events
      [] OTHER -> TRUE

MayFail(L, n) == \E w \in (Streams \cup Polls) : L.fd[w] = n /\ w \notin L.listening

\* What a kqueue event tells besides its filter: EV_EOF, EV_ERROR.
Reports(L, n) ==
    IF ~Readable(L, n) THEN {}
    ELSE IF L.backend = "kqueue"
    THEN {{f} \cup more : f \in L.interest[n] \cap {"IN", "OUT", "PRI"},
                          more \in {{}} \cup (IF MayFail(L, n) THEN {{"RDHUP"}, {"ERR"}} ELSE {})}
    ELSE {E \cup more : E \in SUBSET L.interest[n],
                        more \in {{}} \cup (IF MayFail(L, n) THEN {{"HUP"}, {"ERR"}} ELSE {})} \ {{}}

ReadyFds(L) == {n \in AllFds : L.interest[n] # {} /\ Reports(L, n) # {}
                               /\ (n \in Fds => n \in L.open)}

\* A batch of at most MaxBatch events, in any order; poll reports the slots of its array.
MaxBatch == 2

InOrder(L, q) ==
    L.backend # "poll" \/
        \A i, j \in DOMAIN q : i < j =>
            \E k, l \in DOMAIN L.poll_fds :
                k < l /\ L.poll_fds[k] = q[i].fd /\ L.poll_fds[l] = q[j].fd

\* With "filters", kqueue may report two filters of one descriptor together.
Batches(L, meets) ==
    LET One  == UNION {{Event(L, n, E) : E \in Reports(L, n)} : n \in ReadyFds(L)}
        Apart(d, e) ==
            \/ d.fd # e.fd
            \/ /\ "filters" \in meets /\ L.backend = "kqueue"
               /\ d.revents \cap e.revents = {}
    IN  {<<e>> : e \in One}
        \cup {q \in {<<d, e>> : d \in One, e \in One} : Apart(q[1], q[2]) /\ InOrder(L, q)}

\* Event ports forget the descriptors they report.
Deliver(L, batch) ==
    LET reported == {batch[i].fd : i \in DOMAIN batch}
        A == [L EXCEPT !.batch = batch, !.iterating = TRUE,
                       !.have_signals = FALSE, !.nevents = FALSE]
    IN  IF L.backend = "ports"
        THEN [A EXCEPT !.interest = [n \in AllFds |-> IF n \in reported THEN {} ELSE @[n]]]
        ELSE A

-----------------------------------------------------------------------------
\* The dispatch of an event.

\* "File descriptor that we've stopped watching, disarm it."
Disarm(L, e) ==
    CASE L.backend \in {"epoll", "pollset"} -> [L EXCEPT !.interest[e.fd] = {}]
      [] L.backend = "kqueue" -> [L EXCEPT !.interest[e.fd] = @ \ e.revents]
      [] L.backend = "ports"  -> L
      [] L.backend = "poll"   -> InvalidateFd(L, e.fd)

\* What of it the watcher w is told.
Filtered(L, w, e) ==
    LET wanted == L.pevents[w]
        Masked == e.revents \cap (wanted \cup {"ERR", "HUP"})
    IN  CASE L.backend = "epoll" ->
               IF Masked \in {{"ERR"}, {"HUP"}}
               THEN Masked \cup (wanted \cap {"IN", "OUT", "PRI"}) ELSE Masked
          [] L.backend = "poll" -> Masked
          [] L.backend = "kqueue" ->
               e.revents \cap ((wanted \ {"HUP"}) \cup {"ERR"})
          [] OTHER -> e.revents

\* kqueue: a filter the watcher has lost interest in is deleted.
Squelched(L, w, e) ==
    LET filter == e.revents \cap {"IN", "OUT", "PRI"}
    IN  IF L.backend = "kqueue" /\ filter \cap L.pevents[w] = {}
        THEN [L EXCEPT !.interest[e.fd] = @ \ filter] ELSE L

\* Event ports: what was not disabled by its callback is armed again by the next poll.
Rearm(L, w, n) ==
    IF L.watchers[n] = w /\ L.pevents[w] # {} THEN Queue(L, w) ELSE L

\* The end of a poll; that of poll.c purges one of the slots invalidated.
PollEnds(L) ==
    LET A == [L EXCEPT !.iterating = FALSE, !.have_signals = FALSE]
    IN  IF L.backend = "poll" THEN PollfdsDel(A, -1) ELSE A

-----------------------------------------------------------------------------
\* uv_loop_fork: the child has a backend, an async watcher and a signal pipe of its own,
\* and of the other watchers those that are not queued are queued again.  What was in the
\* pipes is the parent's.
LoopFork(L) ==
    LET Own     == {AsyncIo, SignalIo}
        rearmed == Own \cup {w \in Watchers : /\ \E n \in AllFds : L.watchers[n] = w
                                              /\ ~InSeq(L.watcher_queue, w)}
    IN  [L EXCEPT !.interest = [n \in AllFds |-> {}], !.poll_fds = << >>,
                  !.events = [w \in Watchers |-> IF w \in rearmed THEN {} ELSE @[w]],
                  !.watcher_queue =
                      SelectSeq(@, LAMBDA w : w \notin Own) \o SetToSeq(rearmed),
                  !.async_woken = FALSE, !.signal_pipe = << >>]

=============================================================================
