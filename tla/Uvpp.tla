-------------------------------- MODULE Uvpp --------------------------------
(***************************************************************************)
(* The C++ wrappers of uvpp.cpp over the library of Streams: objects that  *)
(* embed a uv_tcp_t or a uv_timer_t, and the UvLoop that deletes them.     *)
(*                                                                         *)
(* The record uv of Streams gets three more fields:                        *)
(*   alive      the UvTCP and UvTimer objects created and not deleted,     *)
(*   isRunning  UvLoop::IsRunning_,                                        *)
(*   failed     the assertions that have failed, and the names of accesses *)
(*              to a deleted object; execution goes on, as with NDEBUG.    *)
(***************************************************************************)
EXTENDS Streams

Faults == {"uv_close: not closing",     \* handle.c, uv_close: assert(0)
           "loop_close: not busy",      \* uvpp.cpp, ~UvLoop: assert(status == 0)
           "getpeername: succeeds",     \* uvpp.cpp, GetPeerName: assert(status == 0)
           "deleted wrapper", "deleted counter",
           "read of a deleted session", "write of a deleted session"}

Added == [alive |-> {}, isRunning |-> FALSE, failed |-> {}]

UvppInit ==
    [f \in DOMAIN UvInit \cup DOMAIN Added |-> IF f \in DOMAIN Added THEN Added[f] ELSE UvInit[f]]

UvppTypeOK ==
    /\ [f \in DOMAIN UvInit |-> uv[f]] \in UvType
    /\ uv.alive \subseteq Handles
    /\ uv.isRunning \in BOOLEAN
    /\ uv.failed \subseteq Faults

Check(U, name, e) == IF e THEN U ELSE [U EXCEPT !.failed = @ \cup {name}]

\* A call made through a pointer to the wrapper of h.
Using(U, h) == Check(U, "deleted wrapper", h \in U.alive)

-----------------------------------------------------------------------------
\* new UvTCP or new UvTimer, and its Init.
New(U, h) == UvOpen([U EXCEPT !.alive = @ \cup {h}], h)

\* delete, and ~UvTimer, which stops the timer.
Delete(U, h) ==
    LET V == IF h \in Timers THEN UvTimerStop(U, h) ELSE U
    IN  [V EXCEPT !.alive = @ \ {h}]

\* Mutant: the wrapper is deleted when uv_close has been called, not by close_cb.
DelayDeleteAtOnce(U, h) == Delete(IF Open(U, h) THEN UvClose(U, h) ELSE U, h)

\* UvLoop::DelayDelete
DelayDelete(U, h) ==
    LET V == Using(U, h)
    IN  IF ~V.isRunning THEN Delete(V, h)
        ELSE IF Open(V, h) THEN UvClose(V, h)
        ELSE Check(V, "uv_close: not closing", FALSE)

\* DelayDelete of each wrapper of S: none of them touches another, so that this is what
\* comes of it in any order.
DelayDeleteEach(U, S) ==
    LET V == Check(U, "deleted wrapper", S \subseteq U.alive)
        O == {h \in S : Open(U, h)}
    IN  IF ~V.isRunning THEN [V EXCEPT !.alive = @ \ S, !.active = @ \ (S \cap Timers)]
        ELSE Check([V EXCEPT !.state = [h \in Handles |-> IF h \in O THEN "closing" ELSE @[h]],
                             !.active = @ \ O, !.writable = @ \ O, !.readable = @ \ O],
                   "uv_close: not closing", O = S)

\* UvLoop::Walk with DelayDelete: uv_walk visits the handles of the loop's queue,
\* closing ones as well.
Queued(U) == {h \in Handles : U.state[h] \in {"open", "closing"}}

\* Mutant: the timers are left out.
WalkDelayDeleteStreams(U) == DelayDeleteEach(U, Queued(U) \ Timers)

WalkDelayDelete(U) == DelayDeleteEach(U, Queued(U))

\* UvLoop::Run, up to the first iteration of uv_run.
Run ==
    /\ ~uv.running
    /\ uv' = LET U == [uv EXCEPT !.isRunning = TRUE]
             IN  IF Alive(U) /\ ~U.stopped THEN [U EXCEPT !.running = TRUE]
                 ELSE [U EXCEPT !.stopped = FALSE]

\* UvLoop::Stop
Stop(U) == [UvStop(U) EXCEPT !.isRunning = FALSE]

\* ~UvLoop: uv_loop_close refuses a loop with a handle or a request left.
LoopCloses(U) == Queued(U) = {} /\ \A c \in Conns : Answered(U, c)

DestroyLoop(U) == Check(Stop(U), "loop_close: not busy", LoopCloses(U))

\* The close_cb of DelayDelete deletes the wrapper.
OnClose ==
    /\ uv.cb.kind = "close"
    /\ uv' = [Delete(Using(uv, uv.cb.handle), uv.cb.handle) EXCEPT !.cb = None]

-----------------------------------------------------------------------------
\* A handle embedded in a deleted object is memory the library still links and uses.
NoHandleIsFreedInUse == Queued(uv) \subseteq uv.alive

\* No call, and no callback, goes through a pointer to a deleted wrapper.
NoDeletedWrapperIsUsed == "deleted wrapper" \notin uv.failed

\* Both, of a program that calls DelayDelete once for each wrapper (uvpp.cpp).
WrappersAreSafe == NoHandleIsFreedInUse /\ NoDeletedWrapperIsUsed

\* uv_close is called once for each handle: assert(0) in handle.c is not reached.
NeverClosesTwice == "uv_close: not closing" \notin uv.failed

=============================================================================
