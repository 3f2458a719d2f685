# NetFoundation: a verification project

NetFoundation is a small C++ layer (`uvpp`) over libuv, whose sources are kept in
the repository (`depends/libuv`), with a base class for TCP servers
(`ServerBase`) and an echo server (`TestServer.cpp`). It is a Visual C++
project, so the libuv that runs is the one in `depends/libuv/src/win`; the sources
for Unix lie beside it and are modelled too.

The program itself has one thread, which calls `uv_run`. What makes it
hard is a kernel that completes operations at any time and in
any order, callbacks from which a client may call anything, handles that are
closed while operations on them are outstanding, and C++ objects that embed those
handles and are deleted by their `close_cb`. libuv adds threads of its own: a pool
for files and names, threads that read consoles and pipes, signals that arrive
anywhere, and primitives it builds for systems that lack them.

## 1. Inventory

| Part | State it keeps | Operations | Uses | What makes it correct |
|---|---|---|---|---|
| **Handle and request bookkeeping** `win/handle-inl.h`, `win/req-inl.h`, `uv-common.h` | flags of a handle, `activecnt`, `reqs_pending`; of the loop: `active_handles`, `active_reqs`, `handle_queue`, the intrusive list `endgame_handles`, the circular queue `pending_reqs` | `uv__handle_start/stop/ref/unref/closing/close`, `INCREASE/DECREASE_ACTIVE_COUNT`, `DECREASE_PENDING_REQ_COUNT`, `uv_want_endgame`, `REGISTER/UNREGISTER_HANDLE_REQ`, `uv_insert_pending_req` | nothing | counters equal what they count; a handle is on the list once; no assertion fails |
| **TCP streams of Windows** `win/tcp.c`, `win/stream.c`, `win/handle.c` | `READING`, `READ_PENDING`, `LISTENING`, `WRITABLE`..., `shutdown_req`, `write_reqs_pending`, `pending_accepts` | listen, accept, read start and stop, write, shutdown, close; the processing of each completion; the endgame | the bookkeeping, the kernel | at most one read and each accept queued once; shutdown after writes; close after everything |
| **Timers** `win/timer.c`, `unix/timer.c`, `heap-inl.h` | the loop's time, due times, the tree or the heap | start, stop, again, set and get repeat, running what is due, the wait of the loop | the bookkeeping | called in the order of due time and start; never early; the heap stays one; the loop waits for the earliest |
| **Event loop of Windows** `win/core.c`, `uv-common.c`, `win/loop-watcher.c` | `stop_flag`, `time`, lists of watchers | `uv_run` in three modes, `uv_poll_ex`, `uv_backend_timeout`, `uv_stop`, `uv_walk`, `uv_loop_close` | all of the above; calls the client back | never sleeps without something to wake it; returns exactly when done; each close is called back, last |
| **Other handles of Windows** `win/async.c`, `signal.c`, `process.c`, `fs-event.c`, `poll.c`, `udp.c` | `async_sent`, pending signal numbers, the wait and its callback, the request of a directory, two poll requests and their masks, receive and send requests | start, stop, send, spawn, close; packets of other threads | the bookkeeping, threads of the system | nothing submitted or posted twice; no event waited for in vain; nothing left when closed |
| **Pipes of Windows** `win/pipe.c` | instances, accept requests, the eof timer, non-overlapped writes | bind, listen, accept, connect, read, write, shutdown, close | the bookkeeping, a reading thread | as TCP; the eof timer ends with its pipe |
| **Consoles of Windows** `win/tty.c` | the read in progress, the lock of the output, the parser's state and the console | raw and line reads, mode changes, writes with escape sequences | a reading thread, the console | a cancelled read gives back the lock; a text cut anywhere looks the same |
| **Files of Windows** `win/fs.c` | descriptors, the volume | each `fs__` function | the thread pool, the kernel | what a failing call made is undone; appends lose nothing; nothing leaks |
| **Names and spawning of Windows** `win/process.c`, `win/fs.c` | buffers | quoting, environment, program search, targets of links | - | what a child parses is what was given; the buffer fits |
| **Addresses** `inet.c`, `uv-common.c`, `uvpp.cpp` (`UvMisc`) | - | formatting, reading | - | a written address reads as itself; texts that are none are refused |
| **Event loop and handles of Unix** `unix/core.c`, `stream.c`, `tcp.c`, `pipe.c`, `udp.c`, `poll.c`, `async.c`, `signal.c`, `process.c`, `loop-watcher.c`, `linux-*.c`, `kqueue.c`, `sunos.c`, `aix.c`, `posix-poll.c` | `watchers`, `watcher_queue`, `pending_queue`, `closing_handles`, descriptors, queues of writes, the signal tree and its pipe | `uv_run`, `uv__io_start/stop/close/feed/poll` with five backends, every handle's calls | epoll, kqueue, event ports, pollset, poll | what is wanted is registered; events told late go nowhere; every descriptor has one owner; children are reaped |
| **Files of Unix** `unix/fs.c` | a request and its buffers | read, write, sendfile and its emulation, copyfile, open, the others as one call | the thread pool | bytes are transferred once and in place; a failure leaves nothing and is reported |
| **Thread pool** `threadpool.c`, `unix/getaddrinfo.c`, `win/getaddrinfo.c`... | `wq`, `idle_threads`, `loop->wq`, `wq_async` | submit, work, cancel, done, exit, fork | mutexes, a condition, an async | a request is in one place, runs and is called back once; no wake-up is lost; memory is freed |
| **File system polls** `fs-poll.c` | contexts with a timer and a stat | start, stop, close, timer and stat callbacks | pool, timers | a context is freed once and not in use; a change is told |
| **Synchronisation primitives** `win/thread.c`, `unix/thread.c` | fields of each | once, read-write lock, condition variable, barriers | locks, events, semaphores | exclusion; nobody waits for ever; one serial thread |
| **uvpp** `uvpp/uvpp.cpp` | `UvLoop::IsRunning_`; a `std::function` per kind of callback in each `UvStream`; the objects themselves | `Run`, `Stop`, `Walk`, `DelayDelete`, `~UvLoop`; forwarding calls | libuv through calls and static lambdas | no object is deleted while the loop links its handle; none is used after its deletion; the loop can be closed at the end |
| **UvBuf** `uvpp/uvpp.cpp` | a growing buffer | `Alloc`, `Free` | - | a buffer is not reused while it is sent |
| **SharedUniquePtr** `common/SharedUniquePtr.h` | a pointer | copying moves | used by the lambdas of the test server | one owner, and the one that is called |
| **ServerBase, SessionBase** `uvpp/ServerBase.cpp` | `SessionMap_`, the server's `UvTCP`, each session's `UvTCP` and `ReadBuf_` | `Start`, `NotifyNewSession`, `Write`, `Disconnect`, destruction, virtual functions of a subclass | uvpp | sessions and connections are the same; no destroyed session is called; destruction lets the loop end |
| **Test server** `TestServer.cpp` | `numClients`, two timers | the lambdas of `ServerLoop` | uvpp | clients are counted; the exit comes to an end |
| Logger `TestServer.cpp` | a file | format, write, flush | - | - (output only) |
| Rest of libuv | - | queries of the system, error names, tables of functions | - | - (no state that decides anything) |

The parts interact by calls downwards and callbacks upwards; no two share state
otherwise, but for the handles, which libuv links and uvpp owns, and the queues
that the pool's threads and the loop share under their mutexes.

The behaviours that are hard to test are listed one by one, at their lines, as
"hazards" in `PROJECT.json`.

## 2. Modules

```
Handles --> Tcp --> Loop --> LoopProps                                     libuv: TCP, Windows
                                  | +-- INSTANCE Streams                   refinement
                                  +--> LoopProofs --> CounterProofs
                                                  --> StreamProofs         theorems
Streams --> Uvpp --> Programs ---+
                 --> ServerBase -+--> MCPrograms                           uvpp
                 --> EchoServer                                            TestServer.cpp
                 --> UvppProofs                                            lemmas
MCPrograms, UvppProofs --> ProgramProofs                                   theorems
EchoServer, UvppProofs --> EchoProofs                                      theorems

Win --> WinUdp, WinWatchers, WinPipe, WinTty
                              --> WinLoop --> WinProps --> MCWin           libuv: Windows
Unix --> UnixIo --> UnixStream --> UnixUdp --> UnixWatchers
                 --> UnixLoop --> UnixClient --> UnixProps --> MCUnix      libuv: Unix
Pool --> FsPoll --> PoolProps, Threads --> MCPool                          libuv: threads
                                       --> PoolProofs                      theorems
Terminal, Names, Files, UnixFiles, Timers --> MCData                       libuv: data and requests
                Files, UnixFiles --> FileProofs                            theorems
```

### TCP on Windows, and what libuv promises

**Handles** is the bookkeeping. The loop with all its handles is one record;
each macro or inline function is an operator from such a record to the next, so
that a handler is the composition of the macros it expands. A C `assert(e)` is
`Check(L, name, e)`: when `e` is false its name is added to `L.failed` and
execution goes on, as with `NDEBUG`. The flags are those of the code without
their prefixes. The fields `kernel` (overlapped operations in progress) and `iocp`
(packets on the completion port) are the system's side of the same record.

**Tcp** gives the functions a server reaches, with the system's answer a parameter:
an overlapped operation is *bypass*ed (it succeeded at once and, because the
socket skips the port on success, is inserted in `pending_reqs`), *queued* (a packet
will come) or *failed* at once.

**Loop** is `uv_run`. `pc` says which part of an iteration is next; `due` and
`work` are what remains of `uv_process_timers` and `uv_process_reqs`; `cb` is the
callback in progress. A step of the library runs from the return of a callback, or
from a test of a loop, to the next callback or test. `alloc_cb` is a callback like the others: `ReadMore` begins it,
`Recv` is what `WSARecv` and the rest of the handler make of whatever it has done. `KernelCompletes` is the
system. The clients make any call whenever a callback runs or `uv_run` does not, each call a step
(but for `AllocMayStop`, see Bounds);
they keep to the rules of the API (a handle is opened, listened on and closed
once; a request is the library's from its call to its callback) and to nothing else.

| Code | Action |
|---|---|
| `uv_run`'s test and return | `RunBegin`, `EndgamesEnd` |
| `uv_process_timers` | `FireTimer`, `TimersEnd` |
| `uv_process_reqs` | `ProcessReadReq`, `ReadMore`, `Recv`, `ReadLoopEnd`, `ProcessWriteReq`, `ProcessAcceptReq`, `ReqsEnd` |
| `uv_poll_ex` | `Poll` |
| `uv_process_endgames` | `ProcessEndgame` |
| the rest of a handler, after the callback | `CallbackReturns` |
| calls of a client | `ClientOpens` ... `ClientStops` |

**LoopProps** states the properties of the loop and is the module TLC runs, **LoopProofs** and
**CounterProofs** prove its invariants, **StreamProofs** that it implements Streams.

**Streams** says what libuv promises its clients, with the flags, counters, queues
and the kernel gone: for each handle its state, whether it is active and
referenced, for each connection what it can still do and what is unanswered, and which
callback may begin when. **LoopProps** maps the state of Loop to that of Streams
(`Seen`) and states that Loop implements it (`ImplementsStreams`).

### The other handles of Windows

**Win** is the record of Handles for the other kinds of handles, with the fields
libuv decides by; **WinUdp**, **WinWatchers** (asyncs, signals, processes, directory
watches, prepare, check and idle handles, polled sockets), **WinPipe** and **WinTty** are
the functions of one source file or a few, as operators over it. A function that
calls the client in its middle is an `Outcome`: the record, the callback and where the
library goes on (`cb.next`). **WinLoop** is again `uv_run`, in its three modes, with
the system (`KernelCompletes`, `SignalArrives`, `ProcessExits`, `OtherThreadSends`)
and the clients. (The `alloc_cb` of these handles, at pipe.c:1641, udp.c:292 and 509, tty.c:567 and 875, is taken to
answer only: with a buffer, or for a line of a console with none. What it may call between the test of `READING`
and the read is modelled for TCP and for Unix.) A behaviour is about one *program*: the handles a client
uses, its requests and the modes it calls `uv_run` with, chosen in `Init`, so that
one run goes through small sets of handles one after the other.

### Unix

**Unix** is the loop's record, with the macros of `uv-common.h` and `internal.h`.
A function of the library that calls the client, `alloc_cb` included, is cut there, and what remains of it
and of its callers is a stack of *frames* in `todo`; `Perform` says what each does.
**UnixIo** is `uv__io_*` with the backends: what each registers, how it reports, and what
`uv__platform_invalidate_fd` makes of events already told. A descriptor is a number, the lowest one free
is given out, and a set of open ones shows who leaks or closes twice. **UnixStream**,
**UnixUdp** and **UnixWatchers** are the handles; **UnixLoop** is `uv_run`;
**UnixClient** the calls of a client, signals, other threads, children, peers and
`uv_loop_fork`.

| Code | Action of UnixLoop |
|---|---|
| `uv_run`'s test and return | `RunBegin`, `ClosingEnds`, `OnceEnds` |
| `uv__run_timers`, `uv__run_pending` | the frames of `RunBegin` and `TimersEnd`, performed by `Performs` |
| `uv__run_idle`, `_prepare`, `_check` | `RunNext` |
| `uv__io_poll` | `PollBegin`, `PollReturns`, `EventsEnd` |
| `uv__run_closing_handles` | `RunClosingHandles` |

### Threads

**Pool** is `threadpool.c`: a critical section that takes no other lock is one step,
and `uv__work_cancel`, which takes two, is three. Workers sleep, wake, run and post; the loop's thread
submits, cancels, drains its queue and calls back; the process may end or fork. The requests are
those of the user, of files and of names, with the memory each holds. **FsPoll**
adds a poll handle, whose contexts each own a timer and a stat in the pool.
**Threads** has the primitives libuv builds itself, one step per call of the system or access to
a field. **MCPool** composes them: a behaviour is about the pool or about one primitive.

### Data and requests

Each behaviour of **MCData** is about one of five parts. **Terminal**: the UTF-8 decoder and ANSI
parser of `tty.c`, byte by byte, the console calls they make, and the user who sizes the window between;
`whole` runs beside it the same text as one write. A console with virtual terminal support is given each buffer
converted by itself (`EndBuffer`), and `cut` tells that a character was cut between two. **Names**: one question per behaviour (an argument list, an
environment, a search, a link), its answer compared with a reference: `CommandLineToArgvW`
of what was quoted, the sorted and completed environment, the order in which cmd.exe
searches; and the formatting and reading of addresses, against the grammar of their texts.
**Files**: each `fs__` function as its kernel calls, two threads on one volume,
faults anywhere; of each node it keeps as history which writes were appended to it (`appended`) and which
call gave it its name (`by`). **UnixFiles**: one request from its call to `uv_fs_req_cleanup`,
bytes known by their places. **Timers**: the calls and the loops of both
`timer.c`, a clock of few bits, and `heap-inl.h` node by node, with each node's three
pointers.

### The users

**Uvpp** adds the wrappers: which objects are alive, `IsRunning_`, and the
assertions and uses of deleted objects that have happened (`failed`). Calls made
through a deleted wrapper are recorded and execution goes on. `DelayDelete` of many handles, as
`Walk` and the destructors call it, is written as what comes of it in any order (`DelayDeleteEach`), since
no call touches the handle of another. **Programs** is any
program that owns wrappers, uses them and gives each to `DelayDelete` once.
**ServerBase** is the base
class with any subclass: `hooks` is the stack of virtual functions that run, in
which the subclass writes, disconnects sessions (nested) and, from a timer of the owner,
destroys the server. **MCPrograms** composes the two: a behaviour is about one of them.
**EchoServer** is `ServerLoop`, one action per lambda.


## 3. Runs

| Run | Instance | Shows |
|---|---|---|
| `loop` | 1 server, 1 connection, 1 accept, 1 write; every answer of the system | the counters, the list, the callbacks and the loop are right; Loop implements Streams; every close completes |
| `loop_timers` | a timer, referenced and unreferenced at will, a server and a connection whose reading restarts at will | timers, the return of `uv_run` and accepts as Streams promises |
| `win` | 12 programs of 1 to 3 handles (`ProgramsDef` of MCWin) | nothing submitted twice, counters exact, closed handles forgotten, polled events waited for, requests called back once, closes complete |
| `unix` | 26 programs (`ProgramsDef` of MCUnix), five backends | descriptors have one owner, events told late go nowhere, nothing is waited for in vain, callbacks are due, closes complete |
| `pool` | 2 workers; requests of each kind; a poll handle; each primitive with 3 threads | a request is in one place and called back; memory is freed; changes are told; threads exclude each other and meet |
| `data` | every input of MCData's sets; two threads of files; one fault anywhere | the console, names, transfers, clean-ups, appends and timers are right |
| `programs` | 1 server, 1 connection, 1 timer for a program; 3 sessions for a `ServerBase` | "`DelayDelete` once, while `IsRunning()`" protects wrappers; sessions are the connections; destruction leaves nothing and ends the loop |
| `echo` | 2 clients, 2 echoes each, every failure | clients are counted until the exit, no wrapper is misused, the exit ends |
| `loop_queued_twice` | violation | `uv_tcp_queue_read` queues a request twice after a refused read |
| `echo_twice` | violation | the test server closes a handle twice |
| `win_tty` | violation | the lock of the consoles is taken for a thread that does not exist |
| `copy_error` | violation | a copy that fails reports success |

A property with several parts is a conjunction of named ones, each with its own comment:
`CountersAreExact`, `LoopGoesOn` (LoopProps), `EndsClean` (EchoServer),
`SessionsAreRight` (MCPrograms), `ClosedHandlesAreForgotten`, `EventsAreWaitedFor`
(UnixProps), `MemoryIsOwned` (PoolProps), and those of the data modules. A counterexample names the part by
the state it ends in.

### Bounds

No run has a state constraint: handles, requests and descriptors are finite sets, a handle
is opened and closed once, and other bounds stand in the guards.

* **Loop.** `NAccepts`, `NWrites`. One connection is enough for the counters, which are
  per handle; the list of endgames and `active_handles` are shared, and a server, a
  connection and a timer are three handles that meet there (their invariants are
  proved for any number). `ReadsRestart` and `RecvMayFail` exclude each other,
  which is what `loop_queued_twice` is about. `AllocMayStop` is `FALSE`: an `alloc_cb` calls what it
  likes, but does not stop, nor close, the stream it gives memory to. The `alloc_cb`s of this repository only give
  memory. With `TRUE` TLC finds `NoAssertionFails`, `CountersAreExact` and `ImplementsStreams` violated: an end
  of file or an error then decrements `activecnt` a second time (tcp.c:1030, 1043), and `read_cb` comes for a
  stream that does not read or is closing. Instances with two accepts or two
  writes take longer than a run should; two accepts of which one fails are
  what `QueuesAcceptsOnlyWhileListening` is about (see below).
* **Win.** `NInstances = 1` pipe instance, `NReqs = 2` sends; no more than three handles meet, those
  that share something. `SignalsMeet`, `RecvMayFail` and `ModesMeet` are `FALSE`: a signal dispatched between the
  exchange of `pending_signum` and `uv_close` (signal.c:272), a receive refused and restarted, and a console that
  leaves the raw mode with a raw read out or keys left (tty.c:320-382, 1065) are
  hazards noted at their lines. A console whose wait was refused once (`uncounted`) has no second one refused.
  A one-shot signal watcher may be started again, and a directory watch is closed, not stopped, in its own callback.
* **Unix.** `MaxFd = 5` descriptors and `Backlog = 2`, so that the spare descriptor
  is needed; `SignalPipe = 2` messages, so that the pipe fills;
  `ReadCount = 2` (32 in the code), `RecvCount = 1`, `MaxBatch = 2` (1024) and `InotifyReads = 1` so that
  the limits are met; `Meets = {}` (below); `NReqs = 2`; `MaxElapsed = 1` tick a sleep beyond what it was asked for. `uv_listen`
  once a server, one path watched, at most two children, forks only outside
  `uv_run`, streams connected before they are used otherwise; a timer is not
  started with timeout 0 in a timer's callback (it would be called for ever).
  `Meets` names the meetings that clients, or the system, are kept from because the code does not stand them:

  | Meeting | What happens | What TLC finds when it is allowed |
  |---|---|---|
  | `allocs` | a stream or a `uv_udp_t` is stopped or closed by its `alloc_cb` (stream.c:1147, udp.c:172) | the assertion at stream.c:1155 is false; `CallbacksAreDue` violated: `recvmsg` of descriptor -1 and a callback on a closing handle, or a call of a callback that is `NULL` |
  | `sends` | a `uv_udp_t` is closed by its `recv_cb` with its socket writable and sends queued; `uv__udp_io` goes on to send (udp.c:141-146) | `ClosedHandlesAreForgotten` violated |
  | `exits` | a process is closed by the `exit_cb` of another that ended with it (process.c:90-111) | `CallbacksAreDue` violated |
  | `connects` | a stream is shut down while it connects | nothing in this instance; with nothing to write its shutdown is never answered |
  | `filters` | kqueue reports two filters of a descriptor together (kqueue.c:268, 293) | `EventsAreWaitedFor` violated by a pipe that connects and writes |
  | `fork` | `uv_loop_fork` with watchers to be changed, or signals or asyncs about (linux-core.c:238) | `EventsAreWaitedFor` violated |
* **Pool.** Two workers: one more than the one that signals. A fork happens with no request in the pool,
  two rounds of the condition variable with as many broadcasts, one timeout a behaviour, names that convert, barriers of as many rounds as their
  implementation survives.
* **Data.** A text of `MaxPhrases = 3` characters or control sequences on a console of
  4 by 4 cells, cut anywhere (those of `VtermWords` on a console with virtual terminal support too, which parses
  control sequences itself); `MaxCalls = 4` calls of two threads with `MaxFaults = 1`
  failure; no call uses a descriptor that another closes (proved about for any number of calls, threads,
  names, descriptors and failures, under the same rule). Requests of Unix: `IovMax`, `BufsMl` and
  `EmulBuf` are 2 so that three buffers pass each limit, `MaxErrors = 2` errors or
  interruptions, files that do not change meanwhile. Clocks have `Bits = 4`
  bits, so that due times overflow, and six timers make a heap of three levels.
* **Programs, ServerBase, EchoServer.** `MaxWrites = 1`, `MaxEchoes = 2`; three sessions allow a
  disconnection nested in another with a third beside.

### Fairness

* Loop: the thread in `uv_run` goes on (weak fairness of the library's steps, callbacks
  returning included); the kernel completes operations on sockets that are closed,
  which Winsock does by cancelling them, and no others; and the inner loop of
  `uv_process_tcp_read_req` ends infinitely often (strong fairness of `Recv` with
  `next = "done"`), which the code does not enforce: it depends on the peer. `ClosesComplete` is
  conditional on `uv_stop` not being called for ever.
* WinLoop: the same two, the second for every request of a handle that is closing (its
  operation is cancelled, or its descriptor closed). UnixLoop: the thread goes on; the kernel owes it nothing.
* Pool: the loop's thread weakly; workers strongly, since a worker can take a
  mutex only while another does not hold it. Threads: each thread weakly,
  and the one that signals strongly, since the mutex it needs is taken again and again by those that look.
* ServerBase and EchoServer: callbacks that are due are made, which Loop
  implements, and functions of the program return; connections and data need never arrive.

### Mutants, deadlock

The operators marked *Mutant* stand beside the definition they vary; each property of a
passing run has one that breaks it. Deadlock is not checked: a program whose loop has
returned, or that sleeps for a peer, has really stopped. `NeverStuckInPoll`,
`EventsAreWaitedFor`, `RequestsAreCalledBack`, `EveryThreadEnds` and the other liveness properties say what deadlock
checking could not.

### Disagreements without a run of their own

These were found with TLC on the way; the models exclude the situation by a constant or a guard, or the property
names it as its exception, and the hazards say so at their lines. An exception is exact: it holds of the
state the situation leads to and of no other.

* An `alloc_cb` that stops or closes its stream, and the other meetings of the table above (constants).
* A one-shot signal watcher of Windows that is started again: the next signal sets `pending_signum` and posts no
  packet (signal.c:93-97), and the watcher's close waits for one (`SignalSwallowed` in `ClosesComplete` of WinProps).
* A signal watcher of Unix closed with messages of it in the pipe when nothing else keeps the loop alive: nobody
  reads them, and `close_cb` never comes (signal.c:327; `LeftInThePipe` in `ClosesComplete` of UnixProps).
* A console whose `RegisterWaitForSingleObject` was refused: its failed read clears `READING` without counting
  (tty.c:449-453, 688-697), and `activecnt` is one too high (`uncounted` in `CountersAreExact` of WinProps).
* The condition variable of old Windows loses a broadcast: the last waiter of one resets the event that a second has
  just set for a thread that does not wait yet (thread.c:535-548), which the comment at 528-530 says cannot happen
  (`BroadcastIsLost` in `EveryThreadEnds`).
* A forked child that exits without having used the pool joins threads it does not have: `cleanup` tests
  `initialized`, which `reset_once` leaves set (threadpool.c:108, 169-172; `JoinsTheParents` in `RequestsAreCalledBack`).
* With virtual terminal support a character cut between two buffers is not one (tty.c:1666-1698; `cut` in
  `ChunksMakeNoDifference`).
* `uv_fs_read` and `uv_fs_write` of no buffers and `uv_fs_copyfile` with unknown flags return `-EINVAL` after `INIT` has
  registered the request, which stays in the loop for ever (fs.c:1323, 1462, 1517; the case `Refused` of `RequestsLetGo`).
* An accept that fails clears `LISTENING`, and `uv_accept` of another then queues an accept
  for a server that no longer listens (`QueuesAcceptsOnlyWhileListening` of LoopProps, with `NAccepts = 2`).
* `DelayDelete` after `Run` has returned: `~UvLoop` asserts (`LoopIsClosedClean`,
  with `AsksIsRunning = FALSE`).
* An echo is sent from a buffer that is being read into (`EchoIsWhatWasRead`).
* With kqueue, the filter that is deleted for a one-shot event may be the one a callback has just asked for.
* A `SIGCHLD` that does not fit in the signal pipe is lost, and a child with it.
* `uv__fs_buf_iter` (more than `IOV_MAX` buffers) places a chunk after a short one at its own buffers; the
  fallback for `EIO` in `uv__fs_sendfile_emul` reads at the file's position.
* `uv__next_timeout` of Windows is wrong for a due time more than 2^63 away.
* On Unix the buffers of a read or write that `uv_cancel` takes before a thread runs it stay
  allocated when there are more than `bufsml` holds: only `uv__fs_buf_iter` frees them (`LeftByCancel` of PoolProps).
* A cancelled echo decrements `*numClients` after the server that owns it was deleted; the
  error path of `Accept` asks for a peer; the callback of a write outlives its session in ServerBase
  (recorded in `uv.failed`, reachable, contradicted by no line of the repository).

## 4. Proofs

`LoopProofs` proves, for every finite set of servers, connections and timers and every
number of accepts and writes:

* `TypeCorrect` - `Spec => []TypeOK`.
* `EndgameList` - `Spec => []EndgameListIsExact`: a handle is on the intrusive list
  iff its flag says so, and once.
* `ActiveHandles` - `Spec => [](NoAssertionFails => ActiveHandlesIsExact)`:
  `active_handles` is the number of handles that are active and referenced, or
  closing. The condition is needed: starting a handle that is closing, which the
  code asserts never happens, would count it twice.

The assumptions are `HandlesAssumption` (the sets are finite and disjoint),
`CountsAssumption` and `EnvironmentAssumption`, which TLC evaluates in every run.

The inductive invariant is `IInv == TypeOK /\ Fits(cb) /\ LoopOK(loop)`. `Fits`
says which handle and request a callback of each kind has (a read's handle is a
connection), without which the typing of what follows a callback cannot be shown.
`LoopOK` of a record is its type, `Threaded` (the list of endgames against the flags) and
`Accounted` (the count, unless an assertion has failed). The proof goes up as the
code is built: one lemma that each macro of Handles keeps `LoopOK`, then
each function of Tcp as a composition of those, then each action of Loop, then
`NextInv`. Most operators do not touch what `Threaded` and `Accounted` speak of; they
are dispatched by one lemma about records that agree on it (`Same`). The rest is
arithmetic on cardinalities: adding or removing one handle of a finite set.

`CounterProofs` goes on from there. Under

    Spared == ~(RecvMayFail /\ ReadsRestart) /\ (AcceptMayFail => NAccepts = 1) /\ ~AllocMayStop

it proves

* `AssertionsHold` - `Spared => (Spec => []NoAssertionFails)`: no `assert` of the code
  modelled is ever false, so the condition of `ActiveHandles` is one that always holds;
* `CountersExact` - `Spared => (Spec => []CountersAreExact)`: `activecnt` and `reqs_pending` are exact;
* `ActiveHandlesExact` - `Spared => (Spec => []ActiveHandlesIsExact)`;
* `LoopProgresses` - `Spared => (Spec => []LoopGoesOn)`: a closing handle is on its way, and
  `uv_poll` does not wait for what cannot come.

`Spared` leaves out exactly the three situations in which the properties are false:
reads that may be refused at once *and* be started again (`NeverQueuedTwice`, the run `loop_queued_twice`), accepts
that may fail *beside* others (`QueuesAcceptsOnlyWhileListening`), and an `alloc_cb` that stops or closes
its own stream (Bounds). Every other call is allowed in `alloc_cb`. Either half of each alone is allowed, with any number of handles, accepts and
writes. The runs `loop` and `loop_timers` have constants of the first and of the second kind.

The invariant is `IInv /\ CInv`. `reqs_pending` cannot be shown to be a sum over the kernel, the port and
two queues of packets step by step without knowing that no request is in two of those
places; so `CInv` says that first (`Placed`: each request is in at most one place, and once), and calls the
set of those that are somewhere `Queued`. Then, for each handle (`HandleInv`), `Counts` ties `activecnt` and
`reqs_pending` to cardinalities of subsets of `Queued` and of `active_reqs`; `Reads` says when the one read
request of a connection is queued, by its flags and by the callback in progress, and is what
makes the assertions about `READ_PENDING` hold, and that a stream given memory reads until it is told what came; `Listens` that an accept request is queued, held with its
socket in `pending_accepts`, or in hand; `Shuts` that a shutdown is pending iff its stream still has a write
or is wanted for its endgame; `Lives` what closing implies. `Stages` says in which parts of an
iteration each callback can be. The proof has again a lemma per macro, which says how one handle
changes (`Becomes`) and that all others are `Alike`; then one per function and one per action. The last lemmas
turn cardinalities of sets of requests into the sums over indices of queues that `ReqsPendingIsExact` is written with
(`OutstandingIs`), and derive `NeverStuck` from `Placed` and `Reads`. TLC was given `IInv` and `CInv` as invariants,
on the constants of `loop` and `loop_timers` and on those of `loop` with two accepts that do not fail,
before they were proved.

`StreamProofs` proves the refinement, under the same `Spared`:

* `ImplementsPromises` - `Spared => (Spec => ImplementsStreams)`: each step of the library, of the
  kernel and of a client is a step of Streams under the mapping `Seen`, or does not change `Seen`.

So what Programs, ServerBase and EchoServer are checked on top of is what the code of libuv does,
for any numbers of handles and requests. The ground is `IInv /\ CInv`; the invariant added to it, `SInv`, says
of each handle that it is wanted for its endgame because it is closing or has a shutdown that is not answered
(`Wanted`: without it the list of endgames could keep a loop alive that has nothing left to tell its clients),
and that the socket of a closing stream is closed (`Shut`: `uv_process_tcp_accept_req` calls a
server back unless its socket is closed, Streams unless the server is). The argument goes up as in LoopProofs. First what a client can see of a handle is its *face*, the flags
without the four (`Hidden`) that only the library can tell; a macro either changes nothing a client sees
(`Unseen`) or the face of one handle (`Turns`), and one lemma a macro says which. These compose into the same for each
function of Tcp, and those into one lemma an action (`...S`) that names the action of Streams it maps to
and shows each field of `Seen'` to be what that action makes of it (`View` is `Seen` with its fields for
parameters). Where counters decide what a client sees, `CountersTell` says that a connection whose `write_reqs_pending` or
`reqs_pending` is 0 owes its client no callback of a write, or none at all; and
`AliveIs` that `uv__loop_alive` of the code, which asks `active_handles`, `active_reqs` and the list of endgames, is
the `Alive` of Streams, which asks what the client has called and been told. `uv_run` returning too early, or calling back for a handle
already closed, would be steps that Streams does not have.

`UvppProofs` has what the proofs about users of the wrappers share: one lemma for each call
and each callback of Streams and of Uvpp, for any servers, connections and timers. All of them keep `Sound(uv)`: what the
loop links is alive and no deleted wrapper has been used; only what is open is active,
read or written; a stream that owes its client a callback is a connection the loop still links. `Begun` says
what a callback that has just begun tells of its handle, `ClosesThem` what becomes of the handles
that `DelayDelete` closes, and that the others stay as they are.

`ProgramProofs` proves, for any servers, connections and timers and any program
that gives each wrapper to `DelayDelete` once while `IsRunning()`
(`ProgramAssumption` and `AsksIsRunning` of Programs):

* `WrappersLive` - `ProgramSpec => []WrappersAreSafe`: no object is deleted whose handle
  the loop links, and none is used afterwards.
* `HandlesAreClosedOnce`: such a program never reaches the `assert(0)` of `uv_close`.
* `ProgramTypeCorrect`.

Its invariant is `IInv == WrappersOK(uv) /\ OwnedAreOpen /\ deleted \subseteq Created /\
destroyed \in BOOLEAN`: what the wrapper, the handle and the callback of an
object say of each other, and that a wrapper the program still owns is neither closing nor deleted.

The same module proves of `MCSpec`, in which a `ServerBase` with any finite number of clients
(`ServerAssumption`) takes the place of the program:

* `SessionsStayRight` - `AsksIsRunning => (MCSpec => []SessionsAreRight)`: between callbacks the sessions are
  the open connections, and each reads; no handle is closed twice, no destroyed session read; what is left when the
  server has been destroyed lets the loop end.
* `WrappersStaySafe` - `AsksIsRunning => (MCSpec => []WrappersAreSafe)`.

(`AsksIsRunning` is a constant about the program; a `ServerBase` is destroyed in a callback.)
`SessionsAreTheConnections` speaks of the instants between callbacks, and what may be wrong happens inside them. So
`ServerInv` says what holds while virtual functions are nested in one another: `HooksAreRight`, that
only the outermost may be anything but the end of a session, and the others end different sessions that the server
still owns - this is what makes `TypeOK`'s bound on the nesting one of the number of clients (by the
cardinality of an injection), and why no session is destroyed twice; `SessionsFollow`, that sessions are the
open connections, that the one the server does not own is the one whose `Accept` has failed and of which
`OnError` tells, and that a session that does not read is being ended or about to be told so; `ServerFollows`
and `CallbackFollows`, what is open before, during and after the life of the server, and that a callback ends
with its virtual functions. TLC checked `ServerInv` on the instance of `programs` before it was proved.

`EchoProofs` proves of the test server, for any finite number of connections (`EchoAssumption`):

* `ServerEndsClean` - `Spec => []EndsClean`: types, `WrappersAreSafe`, and that the assertion of `~UvLoop` holds;
* `ServerCountsItsClients` - `Spec => []ClientsAreCounted`.

The invariant, `EchoInv`, adds to `Sound` and `Begun` where `ServerLoop` is and what the loop does meanwhile
(`LoopFollowsMain`), and `EndIsClean`: until the operator ends the server both timers are open, active and
referenced, so that `uv_run` cannot return; from then on nothing is open, and nothing can be
opened, because the server that would accept is closing; so `uv_run` returns only when nothing is queued and no request
is unanswered, which is what `uv_loop_close` asks. It holds although the walk of the stop timer
closes handles twice (`echo_twice`): a second `uv_close` fails its assertion and changes nothing.

`PoolProofs` proves, for any finite set of workers and any requests and contexts
(`PoolAssumption`, `FsPollAssumption`: the sets are apart, and the results of a
stat, the markers of the model and `busy_polling`'s values are different):

* `RequestsHeldOnce` - `Spec => []RequestsAreHeldOnce`;
* `MemoryHasOneOwner` - `Spec => []MemoryIsOwned`;
* `ChangesReported` - `Spec => ChangesAreReported`, an action property.

`InvariantHolds` gives them their ground: `IInv == Typed /\ JobsInv /\ PlacesInv /\ HistoryInv /\ LoopInv /\
PollInv`. `RequestsAreHeldOnce` counts places; the invariant says instead that
each place excludes the others (`PlacesInv`, with each queue free of repetitions) and what
`work`, `ran` and `single` are in each, since that is what `uv_cancel` decides by: a request it finds
in a queue with `work` set has not been taken by a worker, because the one that takes it empties
its node under the same mutex (`JobsInv`). `LoopInv` says which request the
loop's thread has in its hands; `PollInv` gives a context exactly one of a stat, a running timer and a closing one. `MemoryInv`
and `SeenInv` are proved on top: what is allocated for a request in each of its
states, and that `busy_polling` and `statbuf` of a context in use hold the stat its user knows.

The same module proves `PrimitivesAlwaysHold` -
`ThreadsSpec => []((use.primitive = "pthread_barrier" => use.rounds \in {0, 1}) => PrimitivesHold)` -
for any number of threads and rounds, the threads forming a finite set that `Free` is not of
(`ThreadsAssumption`). `OnceInv` follows the event that `uv_once` makes and
throws away again; `RwInv` says that `num_readers` is the number of readers between their two
critical sections, counted as a cardinality, and that the write semaphore is taken when one
of them reads or a writer writes. `BarrierInv` says that the barrier of two turnstiles is always in one of two
phases: `Gathering`, the first turnstile shut, those of the last round still passing the second one at a time, or
`Leaving`, the second shut and everyone in the same round; the thread that closes a turnstile finds all the others
before it, because the count is the cardinality of those between the two critical sections. The barrier of Unix systems without
one has no generation, so that `PthreadInv` holds through one round only: with a second, a waiter that wakes late finds
`in` counting again and goes back to sleep. That is why the theorem, like the run, has the condition on `rounds`.

`FileProofs` proves, of the requests for Unix (`UnixFilesSpec`), for any buffers, offsets, sizes of the file,
`IovMax`, `BufsMl`, `EmulBuf` and number of failures:

* `TransfersAlwaysExact` - `UnixFilesSpec => []TransfersAreExact`;
* `RequestsAlwaysLetGo` - `UnixFilesSpec => []RequestsLetGo`, the part of `FailuresLeaveNothing` that holds of any failure;
* `FailuresAlwaysLeaveNothing` - `UnixFilesSpec => []FailuresLeaveNothing`, provided `EPERM \notin ChmodErrors`.

All three are of every request, those included that are refused with `-EINVAL`, of which `RequestsLetGo` says that they
stay registered: the ground, `UnixFilesInvariant`, is `[](UnixFilesInv \/ RefusedInv)`.

The assumption, `RequestsAssumption`, says what a request is: the ends of its buffers (if it has any) do not decrease, a pipe has no
positions, and no chunk of `IovMax` buffers is of empty buffers only - with such a chunk the loop that
emulates `preadv` returns 1 for nothing transferred, because the return of an empty buffer's `pread` ends it.
The condition on `EPERM` is needed: `uv__fs_work` takes the `-1` that `uv__fs_copyfile` returns for
`EPERM` to mean that `errno` holds the error (the run `copy_error`).

`UnixFilesInv` says, for each kind of request, where its bytes are at each system call (`Places(n, a, b)`: `n`
bytes from place `a` of one thing at place `b` of another, in order), because the properties speak of the end
only: `TransferInv` that the chunks before `first` have been transferred and that `total` is what they were;
`SendInv` that what the emulation has read and not yet written are the next bytes of the source; `CopyInv` that
the rest of the copy begins where the last `sendfile` ended, and what is to be removed when it fails; `OpenInv` and `PlainInv` which
descriptor and memory the others hold. `Common` says what is held in any of them. Two exceptions are
disagreements of section 3 and are part of the invariant, as they are of the properties: `Whole` (the bytes of a
transfer are promised if it is one chunk, or the file has positions and the kernel `preadv`) and `misread` (the fallback for `EIO` in the
emulation has read at the file's position). Where the first buffer that is not empty is chosen, a least element
of a set of numbers is needed; it comes from the library's theorem that `Nat` is well-founded.

And of the calls of Windows (`FilesSpec`), for any finite sets of names, descriptors and threads and any calls with any
parameters (`FilesAssumption`):

* `CallsAlwaysCleanUp` - `FilesSpec => []CallsCleanUp`;
* `AppendsAlwaysKept` - `FilesSpec => []AppendsLoseNothing`.

`FilesInv` has four parts. `Good` of the volume, the descriptors and the handles of calls: what has a name or a handle
exists, nothing else does, and what was appended to a node is in its data. The two inclusions carry each other: a new file
needs a free node, and there is one because fewer nodes are taken than there are names, descriptors
and threads together (`NodeIsFree`, on cardinalities of images); and no access of a descriptor may be both
`append` and `write` (`FdType`), which is what `fs__open` does at its line 434 and without which a write at a
place would overwrite what was appended. `CallOk` of each call: at which of its
steps it holds a handle, which memory (`HasHandle`, `HasMemory`), and that nothing of either is left when it is idle.
`Undone`: a directory made for a junction that is neither one nor to be deleted is in the hands of a call that is about
to make it one or to remove it. It is this that speaks of several calls: another may open the directory
meanwhile, rename it or mark it for deletion. `FdsInUse`: the
descriptor a call is in the middle of stays open, by the rule of the client. The lemmas say first what the kernel does to a
volume that is `Good`, then which fields a step changes of a call (`Same`, `Is`), then, with `StepKeeps` and its
variants (a call goes on, ends, closes its handle), one for each function of `fs.c`. TLC checked `FilesInv` on the
instance of `data` before it was proved. The attempt showed where an earlier form of the model was wrong: the history of a
node outlived the node, `sendfile` wrote at a place what may only be appended, and a call could begin on a descriptor
that another was closing.

Only model-checked: everything of Win and Unix, Terminal, Names and Timers; and of the condition variable, of which
`PrimitivesHold` says nothing, that its threads meet. Out of the prover's reach: liveness under fairness, and so
`ClosesComplete`, `RequestsAreCalledBack`, `ThreadsMeet`, `ComesToItsEnd` and
`DestructionEndsTheLoop`; what a recursive definition computes for every input, and so the functions
of Names and Terminal, whose inputs are enumerated instead, and Timers, whose heap is walked by RECURSIVE operators.

## 5. Not modelled

* **TCP on Windows**: `uv_tcp_connect`, sockets shared between processes, emulated completion,
  `uv_tcp_simultaneous_accepts`, a second `uv_listen`, memory of requests that a
  failing call leaks, the sockets of connections never accepted.
* **The other handles of Windows**: calls made by an `alloc_cb` (see section 2).
* **Pipes on Windows**: the frames of an ipc pipe and the handles sent through it.
* **Consoles**: what keys are turned into (`get_vt100_fn_key`): a table.
* **UDP**: membership and multicast options: calls of the system without state in libuv.
* **Spawning**: the stdio a child is given (`process-stdio.c`, the first half of
  `uv_spawn` of Unix).
* **Unix**: `uv_stop`; the directory watches of systems other than Linux (`fsevents.c`
  and the rest); the thread with `select` that macOS streams fall back on.
* **Files**: what `stat` fills in.
* **Addresses**: zones (`%eth0`).
* **uvpp**: the `std::function` slots of `UvStream` and their replacement while they run,
  `SharedUniquePtr` (copies of C++ objects, of which a model has none), `UvBuf` (a growing array), `Again`,
  `SetRepeat`, `GetSockName` (forwarded calls; libuv's side is in Timers).
* **Test server**: the logger.
* `Disconnect` called again from the `OnDisconnected` of the same session, which recurses without end.
* The rest of libuv: queries of the system (`util.c`), tables, declarations. `win/winapi.h` and
  `uv.h` declare what the modelled functions call and are.

## 6. Plan

Done, in this order: Handles, Tcp, Loop, LoopProps and their proofs; Streams and the
refinement; Uvpp, Programs, EchoServer, ServerBase; Win and its handles; Unix and its
handles; Pool, FsPoll, Threads; the data modules; the proofs of Programs, Threads, Pool and FsPoll,
of the counters of the loop, of the refinement of Streams, of ServerBase and of EchoServer; of the files of Unix
and of Windows.

Next:

1. Proofs: the counters of Win and of Unix along the lines of CounterProofs; that no descriptor of Unix has two owners.
2. The frames of ipc pipes on Windows, whose reader is a state machine over a stream cut anywhere.
3. The stdio of `uv_spawn`, as descriptors with one owner.
4. **Slots**: `UvStream`'s callbacks as owned functions and a slot replaced while its function runs.
5. A second `uv_listen`, and `uv_stop` in UnixLoop.
