------------------------------ MODULE Streams ------------------------------
(***************************************************************************)
(* What libuv promises a single-threaded server of TCP connections and     *)
(* timers: which calls do what, which callbacks may come when, and when    *)
(* uv_run may return.  Flags, counters, queues and the kernel are gone;    *)
(* the module Loop is the library that keeps these promises, and the       *)
(* modules about uvpp and the servers rely on nothing else.                *)
(***************************************************************************)
EXTENDS Integers, FiniteSets

CONSTANTS
    Servers,   \* uv_tcp_t handles used as listening sockets
    Conns,     \* uv_tcp_t handles used for connections
    Timers     \* uv_timer_t handles

Handles == Servers \cup Conns \cup Timers

VARIABLE uv   \* what a client can tell of the loop, its handles and requests

Kinds == {"connection", "alloc", "read", "write", "shutdown", "timer", "close"}

None == [kind |-> "none", handle |-> "none", status |-> "ok"]

UvType ==
    [state     : [Handles -> {"unborn", "open", "closing", "closed"}],
     refs      : SUBSET Handles,     \* those uv_run waits for
     active    : SUBSET Handles,     \* listening servers, reading connections, armed timers
     backlog   : [Servers -> Nat],   \* connections reported and not accepted yet
     connected : SUBSET Conns,
     writable  : SUBSET Conns,       \* those neither shut down nor closing
     readable  : SUBSET Conns,       \* those neither at their end nor closing
     writes    : [Conns -> Nat],     \* write requests not called back yet
     shutting  : SUBSET Conns,       \* those with a shutdown request not called back yet
     running   : BOOLEAN,            \* a thread is in uv_run
     stopped   : BOOLEAN,            \* uv_stop has been called and not honoured
     cb        : [kind : Kinds \cup {"none"}, handle : Handles \cup {"none"},
                  status : {"ok", "data", "empty", "nobufs", "eof", "error"}]]

UvInit ==
    [state     |-> [h \in Handles |-> "unborn"],
     refs      |-> {},
     active    |-> {},
     backlog   |-> [s \in Servers |-> 0],
     connected |-> {},
     writable  |-> {},
     readable  |-> {},
     writes    |-> [c \in Conns |-> 0],
     shutting  |-> {},
     running   |-> FALSE,
     stopped   |-> FALSE,
     cb        |-> None]

-----------------------------------------------------------------------------
\* The calls.  Each leaves a handle it may not be used on as it is.

Open(U, h) == U.state[h] = "open"

UvOpen(U, h) ==
    [U EXCEPT !.state[h] = "open", !.refs = @ \cup {h}]

UvListen(U, s) == [U EXCEPT !.active = @ \cup {s}]

\* uv_accept takes a connection of s away even when it fails to make it c.
UvAccept(U, s, c, ok) ==
    LET V == [U EXCEPT !.backlog[s] = @ - 1]
    IN  IF ~ok THEN V
        ELSE [V EXCEPT !.connected = @ \cup {c}, !.writable = @ \cup {c}, !.readable = @ \cup {c}]

CanRead(U, c) == c \in U.readable /\ c \notin U.active

UvReadStart(U, c) == IF CanRead(U, c) THEN [U EXCEPT !.active = @ \cup {c}] ELSE U

UvReadStop(U, c) == [U EXCEPT !.active = @ \ {c}]

UvWrite(U, c) == IF c \in U.writable THEN [U EXCEPT !.writes[c] = @ + 1] ELSE U

UvShutdown(U, c) ==
    IF c \in U.writable
    THEN [U EXCEPT !.writable = @ \ {c}, !.shutting = @ \cup {c}] ELSE U

UvTimerStart(U, t) == [U EXCEPT !.active = @ \cup {t}]
UvTimerStop(U, t)  == [U EXCEPT !.active = @ \ {t}]

UvClose(U, h) ==
    [U EXCEPT !.state[h] = "closing", !.active = @ \ {h},
              !.writable = @ \ {h}, !.readable = @ \ {h}]

UvStop(U) == [U EXCEPT !.stopped = TRUE]

-----------------------------------------------------------------------------
\* The callbacks.  One runs at a time, inside uv_run, and none for a closed handle.

Begins(U, kind, h, status) ==
    [U EXCEPT !.cb = [kind |-> kind, handle |-> h, status |-> status]]

InLoop == uv.running /\ uv.cb = None

\* A listening server has a connection, or cannot listen any longer.
Connection(s) ==
    /\ InLoop /\ Open(uv, s)
    /\ \/ uv' = Begins([uv EXCEPT !.backlog[s] = @ + 1], "connection", s, "ok")
       \/ /\ s \in uv.active
          /\ uv' = Begins([uv EXCEPT !.active = @ \ {s}], "connection", s, "error")

\* A connection that reads is given memory to read into.
Alloc(c) ==
    /\ InLoop /\ Open(uv, c) /\ c \in uv.active
    /\ uv' = Begins(uv, "alloc", c, "ok")

\* Reading ends with an end of file or an error, and only then by itself.
ReadCallback(c) ==
    /\ Open(uv, c) /\ c \in uv.active
    /\ \/ \E status \in {"data", "empty", "nobufs"} : uv' = Begins(uv, "read", c, status)
       \/ uv' = Begins([uv EXCEPT !.active = @ \ {c}, !.readable = @ \ {c}], "read", c, "eof")
       \/ uv' = Begins([uv EXCEPT !.active = @ \ {c}], "read", c, "error")

Read(c) == InLoop /\ ReadCallback(c)

\* What has been read into the memory follows it.
Received(c) == uv.running /\ uv.cb.kind = "alloc" /\ uv.cb.handle = c /\ ReadCallback(c)

\* Every write is called back, closed handle or not, in no particular order.
Written(c) ==
    /\ InLoop /\ uv.writes[c] > 0
    /\ \E status \in {"ok", "error"} :
          uv' = Begins([uv EXCEPT !.writes[c] = @ - 1], "write", c, status)

\* A shutdown waits for the writes before it.
ShutDown(c) ==
    /\ InLoop /\ c \in uv.shutting /\ uv.writes[c] = 0
    /\ uv' = Begins([uv EXCEPT !.shutting = @ \ {c}], "shutdown", c,
                    IF uv.state[c] = "closing" THEN "error" ELSE "ok")

\* A timer without repeat is not armed any longer when it is called.
Tick(t) ==
    /\ InLoop /\ Open(uv, t) /\ t \in uv.active
    /\ \E A \in {uv.active, uv.active \ {t}} :
          uv' = Begins([uv EXCEPT !.active = A], "timer", t, "ok")

Answered(U, h) == h \in Conns => U.writes[h] = 0 /\ h \notin U.shutting

\* close_cb is the last thing that happens to a handle.
Closed(h) ==
    /\ InLoop /\ uv.state[h] = "closing" /\ Answered(uv, h)
    /\ uv' = Begins([uv EXCEPT !.state[h] = "closed"], "close", h, "ok")

Return ==
    /\ uv.cb # None
    /\ uv' = [uv EXCEPT !.cb = None]

-----------------------------------------------------------------------------
\* uv_run

Alive(U) == \/ \E h \in Handles : U.state[h] = "closing" \/ h \in U.active \cap U.refs
            \/ \E c \in Conns : ~Answered(U, c)

RunBegins ==
    /\ ~uv.running
    /\ uv' = IF Alive(uv) /\ ~uv.stopped THEN [uv EXCEPT !.running = TRUE]
             ELSE [uv EXCEPT !.stopped = FALSE]

RunEnds ==
    /\ InLoop /\ (uv.stopped \/ ~Alive(uv))
    /\ uv' = [uv EXCEPT !.running = FALSE, !.stopped = FALSE]

Callbacks ==
    \/ \E s \in Servers : Connection(s)
    \/ \E c \in Conns : Alloc(c) \/ Read(c) \/ Received(c) \/ Written(c) \/ ShutDown(c)
    \/ \E t \in Timers : Tick(t)
    \/ \E h \in Handles : Closed(h)

-----------------------------------------------------------------------------
\* Any client that keeps to the rules.

MayCall == ~uv.running \/ uv.cb # None

Call ==
    /\ MayCall
    /\ \/ \E h \in Handles : uv.state[h] = "unborn" /\ uv' = UvOpen(uv, h)
       \/ \E h \in Handles : Open(uv, h) /\ uv' = UvClose(uv, h)
       \/ \E h \in Handles : uv.state[h] \in {"open", "closing"}
                             /\ uv' \in {[uv EXCEPT !.refs = @ \cup {h}], [uv EXCEPT !.refs = @ \ {h}]}
       \/ \E s \in Servers : Open(uv, s) /\ uv' = UvListen(uv, s)
       \/ \E s \in Servers, c \in Conns, ok \in BOOLEAN :
             /\ uv.backlog[s] > 0 /\ Open(uv, c) /\ c \notin uv.connected
             /\ uv' = UvAccept(uv, s, c, ok)
       \/ \E c \in Conns : uv' \in {UvReadStart(uv, c), UvReadStop(uv, c),
                                    UvWrite(uv, c), UvShutdown(uv, c)}
       \/ \E t \in Timers : Open(uv, t) /\ uv' = UvTimerStart(uv, t)
       \/ \E t \in Timers : uv' = UvTimerStop(uv, t)
       \/ uv' = UvStop(uv)

StreamsInit == uv = UvInit

StreamsNext == Callbacks \/ Return \/ RunBegins \/ RunEnds \/ Call

StreamsSpec == StreamsInit /\ [][StreamsNext]_uv

=============================================================================
