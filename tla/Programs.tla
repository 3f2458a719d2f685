------------------------------ MODULE Programs ------------------------------
(***************************************************************************)
(* Any program with one UvLoop: it creates wrappers, uses them, runs and   *)
(* stops the loop, deletes each wrapper once with DelayDelete and, when it *)
(* has deleted them all, destroys the loop.                                *)
(***************************************************************************)
EXTENDS Uvpp

CONSTANTS
    Created,       \* the handles it may have wrappers for
    AsksIsRunning  \* it calls DelayDelete only while UvLoop::IsRunning()

ASSUME ProgramAssumption == Created \subseteq Handles /\ AsksIsRunning \in BOOLEAN

VARIABLES
    deleted,   \* the wrappers given to DelayDelete
    destroyed  \* the UvLoop is destroyed

programVars == <<deleted, destroyed>>

\* Every variable has a value of its type; no write is called back that was not made.
ProgramTypeOK == UvppTypeOK /\ deleted \subseteq Created /\ destroyed \in BOOLEAN

ProgramInit == uv = UvppInit /\ deleted = {} /\ destroyed = FALSE

Calls == MayCall /\ ~destroyed /\ UNCHANGED destroyed

Creates(h) ==
    /\ Calls /\ h \in Created /\ uv.state[h] = "unborn"
    /\ uv' = New(uv, h)
    /\ UNCHANGED deleted

Owns(h) == h \in uv.alive \ deleted

Uses(h) ==
    /\ Calls /\ Owns(h)
    /\ \/ h \in Servers /\ uv' = UvListen(uv, h)
       \/ h \in Timers /\ uv' \in {UvTimerStart(uv, h), UvTimerStop(uv, h)}
       \/ h \in Conns /\ uv' \in {UvReadStart(uv, h), UvReadStop(uv, h), UvShutdown(uv, h)}
       \/ h \in Conns /\ uv.writes[h] = 0 /\ uv' = UvWrite(uv, h)
    /\ UNCHANGED deleted

Accepts(s, c) ==
    /\ Calls /\ Owns(s) /\ Owns(c) /\ uv.backlog[s] > 0 /\ c \notin uv.connected
    /\ \E ok \in BOOLEAN : uv' = UvAccept(uv, s, c, ok)
    /\ UNCHANGED deleted

Deletes(h) ==
    /\ Calls /\ Owns(h) /\ (AsksIsRunning => uv.isRunning)
    /\ uv' = DelayDelete(uv, h)
    /\ deleted' = deleted \cup {h}

Stops ==
    /\ Calls
    /\ uv' = Stop(uv)
    /\ UNCHANGED deleted

Runs == ~destroyed /\ Run /\ UNCHANGED programVars

Destroys ==
    /\ ~uv.running /\ ~destroyed
    /\ uv.alive \subseteq deleted
    /\ uv' = DestroyLoop(uv)
    /\ destroyed' = TRUE
    /\ UNCHANGED deleted

\* The library, to which at most one connection per server is waiting.
Library ==
    /\ \/ \E s \in Servers : uv.backlog[s] = 0 /\ Connection(s)
       \/ \E c \in Conns : Read(c) \/ Written(c) \/ ShutDown(c)
       \/ \E t \in Timers : Tick(t)
       \/ \E h \in Handles : Closed(h)
       \/ RunEnds
       \/ uv.cb.kind # "close" /\ Return
       \/ OnClose
    /\ UNCHANGED programVars

ProgramNext ==
    \/ \E h \in Handles : Creates(h) \/ Uses(h) \/ Deletes(h)
    \/ \E s \in Servers, c \in Conns : Accepts(s, c)
    \/ Stops
    \/ Runs
    \/ Destroys
    \/ Library

ProgramSpec == ProgramInit /\ [][ProgramNext]_<<uv, programVars>>

\* ~UvLoop asserts that uv_loop_close succeeds (uvpp.cpp): a program that has deleted
\* every wrapper has left nothing in the loop.
LoopIsClosedClean == "loop_close: not busy" \notin uv.failed

=============================================================================
