-------------------------------- MODULE Unix --------------------------------
(***************************************************************************)
(* The loop record of libuv on Unix (unix/core.c, unix/internal.h): handles *)
(* and requests are counted by the macros of uv-common.h, which Handles     *)
(* models, and everything that has a descriptor is an io watcher.           *)
(*                                                                          *)
(* UV__HANDLE_CLOSING is 0 on Unix, so that the macros never see a closing  *)
(* handle; uv_close sets UV_CLOSING, a flag of its own.                     *)
(*                                                                          *)
(* A function of the library runs to its next callback into the client.     *)
(* What it does then, and what its callers do when it has returned, are     *)
(* frames: an Outcome is the record, the callback, and the frames to go on  *)
(* with, the innermost first.                                               *)
(***************************************************************************)
EXTENDS Integers, Sequences, FiniteSets, TLC

CONSTANTS
    Servers, Streams,  \* uv_tcp_t and uv_pipe_t that listen, and those that do not
    Pipes,             \* those of them that are uv_pipe_t
    IpcPipes,          \* the streams that pass descriptors
    Udps, Polls, Asyncs, Signals, Processes, FsEvents, Timers,
    Prepares, Checks, Idles,
    PollFd,            \* the client's descriptor each uv_poll_t watches
    MaxFd,             \* the limit of descriptors
    NReqs              \* requests of each type a client has for one handle

\* uv_loop_t.child_watcher, and the watchers the loop keeps for itself.
ChildWatcher == "child_watcher"
AsyncIo   == "async_io_watcher"
SignalIo  == "signal_io_watcher"
InotifyIo == "inotify_read_watcher"

SignalHandles == Signals \cup {ChildWatcher}

INSTANCE Handles WITH Conns <- Streams, NAccepts <- 1, NWrites <- NReqs,
    Timers <- UNION {Udps, Polls, Asyncs, SignalHandles, Processes, FsEvents, Timers,
                     Prepares, Checks, Idles}

IoHandles == UNION {Servers, Streams, Udps, Polls}
Watchers  == IoHandles \cup {AsyncIo, SignalIo, InotifyIo}

\* The descriptors of the two watchers uv_loop_init starts, and those a program opens.
AsyncFd == 1
SignalFd == 2
Fds == 3..MaxFd
AllFds == 1..MaxFd

ASSUME FdsAssumption == MaxFd \in Nat /\ MaxFd > 3 /\ \A h \in Polls : PollFd[h] \in Fds

-----------------------------------------------------------------------------
\* Requests, frames, callbacks

Req(type, h, id) == [type |-> type, handle |-> h, id |-> id]

NoReq == Req("NONE", "none", 0)

ConnectReq(h) == Req("CONNECT", h, 0)

UserReqs == {Req("SEND", h, i) : h \in Udps, i \in 1..NReqs}
            \cup ClientReqs \cup {ConnectReq(h) : h \in Streams}

Frame(do, h, arg) == [do |-> do, handle |-> h, arg |-> arg]

Callback(kind, h, req) == [kind |-> kind, handle |-> h, req |-> req]

NoCallback == Callback("none", "none", NoReq)

Outcome(L, cb, then) == [loop |-> L, cb |-> cb, then |-> then]
Quiet(L)             == Outcome(L, NoCallback, << >>)
Calling(kind, L, h, then) == Outcome(L, Callback(kind, h, NoReq), then)

-----------------------------------------------------------------------------
\* The record

SIGCHLD == 9
Signums == {1, 2, SIGCHLD}

LoopRecord ==
    [backend        |-> "epoll",
     flags          |-> [h \in Handles |-> {}],
     active_handles |-> 0,
     active_reqs    |-> {},
     handle_queue   |-> {},
     failed         |-> {},
     closing        |-> << >>,                        \* closing_handles, the head first
     \* io watchers
     fd             |-> [w \in Watchers |-> -1],
     pevents        |-> [w \in Watchers |-> {}],
     events         |-> [w \in Watchers |-> {}],
     watchers       |-> [n \in AllFds |-> "none"],
     nfds           |-> 0,
     watcher_queue  |-> << >>,
     pending        |-> << >>,                        \* pending_queue
     pq             |-> << >>,                        \* what uv__run_pending took of it
     stale          |-> {},                           \* removed from it and not initialised
     \* the system and its backend
     open           |-> {},                           \* open descriptors of Fds
     interest       |-> [n \in AllFds |-> {}],        \* what is registered for each
     poll_fds       |-> << >>,                        \* the array of posix-poll.c
     batch          |-> << >>,                        \* events still to dispatch
     iterating      |-> FALSE,
     have_signals   |-> FALSE,
     nevents        |-> FALSE,                        \* whether nevents is not zero
     \* streams
     listening      |-> {},                           \* io_watcher.cb = uv__server_io
     connect_req    |-> {},
     shutdown_req   |-> {},
     delayed_error  |-> {},
     accepted_fd    |-> [h \in Servers \cup Streams |-> -1],
     queued_fds     |-> [h \in Servers \cup Streams |-> << >>],
     emfile_fd      |-> -1,
     write_queue    |-> [h \in IoHandles \ Polls |-> << >>],
     completed      |-> [h \in IoHandles \ Polls |-> << >>],   \* [req, error]
     recv_cb        |-> {},                           \* Udps with a recv_cb
     processing     |-> {},                           \* UV_UDP_PROCESSING
     \* the other handles
     async_pending  |-> {},
     async_woken    |-> FALSE,                        \* the eventfd or pipe is readable
     async_queue    |-> << >>,
     async_left     |-> << >>,
     signum         |-> [h \in SignalHandles |-> 0],
     trapped        |-> [h \in SignalHandles |-> 0],  \* caught_signals - dispatched_signals
     signal_pipe    |-> << >>,
     action         |-> [s \in Signums |-> "default"],
     children       |-> [h \in Processes |-> "none"],
     process_queue  |-> << >>,                        \* process_handles
     exited         |-> << >>,                        \* what uv__chld has reaped
     inotify        |-> << >>,                        \* handles of the watcher_list
     inotify_left   |-> << >>,
     inotify_list   |-> "none",                       \* "none", "kept" or "iterating"
     inotify_events |-> FALSE,
     due            |-> [t \in Timers |-> 0],         \* timeout - loop->time
     repeat         |-> [t \in Timers |-> 0],
     heap           |-> << >>,                        \* active timers, in order of start_id
     lists          |-> [k \in {"prepare", "check", "idle"} |-> << >>],
     left           |-> [k \in {"prepare", "check", "idle"} |-> << >>]]

-----------------------------------------------------------------------------
Without(q, x) == SelectSeq(q, LAMBDA y : y # x)

InSeq(q, x) == \E i \in DOMAIN q : q[i] = x

IsClosing(L, h) == Has(L, h, "UV_CLOSING")

\* uv__make_close_pending
MakeClosePending(L, h) ==
    LET A == Check(L, "make_close_pending: closing", IsClosing(L, h))
        B == Check(A, "make_close_pending: not closed", ~Has(L, h, "UV_CLOSED"))
    IN  [B EXCEPT !.closing = <<h>> \o @]

\* uv__loop_alive
Alive(L) == L.active_handles > 0 \/ L.active_reqs # {} \/ L.closing # << >>

=============================================================================
