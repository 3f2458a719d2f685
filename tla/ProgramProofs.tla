--------------------------- MODULE ProgramProofs ---------------------------
(***************************************************************************)
(* Proofs about the wrappers of uvpp and any program that owns them, for   *)
(* every set of servers, connections and timers.                           *)
(***************************************************************************)
EXTENDS MCPrograms, UvppProofs, FiniteSetTheorems

-----------------------------------------------------------------------------
\* Any program: the inductive invariant

\* What the loop links is alive, so is the wrapper whose close_cb runs, and neither a
\* wrapper was used after its deletion nor a handle closed twice.
WrappersOK(U) ==
    /\ U \in UvppType
    /\ Queued(U) \subseteq U.alive /\ U.alive \subseteq Created
    /\ U.failed \cap {"deleted wrapper", "uv_close: not closing", "read of a deleted session"} = {}
    /\ U.cb.kind = "close" => U.cb.handle \in U.alive /\ U.state[U.cb.handle] = "closed"

\* A wrapper that the program still owns has an open handle.
OwnedAreOpen == \A h \in Handles : Owns(h) => Open(uv, h)

IInv == WrappersOK(uv) /\ OwnedAreOpen /\ deleted \subseteq Created /\ destroyed \in BOOLEAN

\* What the invariant looks at stays as it is, from U to V, but for the callback.
Same(U, V) ==
    /\ V \in UvppType
    /\ V.state = U.state /\ V.alive = U.alive /\ V.failed = U.failed

LEMMA SameOK ==
    ASSUME NEW U, WrappersOK(U), NEW V, Same(U, V), V.cb = U.cb \/ V.cb.kind # "close"
    PROVE  WrappersOK(V)
  BY DEF WrappersOK, Same, Queued

-----------------------------------------------------------------------------
\* The calls that neither open nor close a handle

LEMMA StreamCallsAreSame ==
    ASSUME NEW U \in UvppType, NEW c \in Conns,
           NEW V \in {UvReadStart(U, c), UvReadStop(U, c), UvShutdown(U, c), UvWrite(U, c)}
    PROVE  Same(U, V) /\ V.cb = U.cb
<1>0. c \in Handles
  BY DEF Handles
<1>1. CASE V = UvReadStart(U, c)
  BY <1>0, <1>1 DEF UvReadStart, Same, UvppType
<1>2. CASE V = UvReadStop(U, c)
  BY <1>0, <1>2 DEF UvReadStop, Same, UvppType
<1>3. CASE V = UvShutdown(U, c)
  BY <1>0, <1>3 DEF UvShutdown, Same, UvppType
<1>4. CASE V = UvWrite(U, c)
  BY <1>0, <1>4 DEF UvWrite, Same, UvppType
<1> QED
  BY <1>1, <1>2, <1>3, <1>4

LEMMA ListenIsSame ==
    ASSUME NEW U \in UvppType, NEW s \in Servers
    PROVE  Same(U, UvListen(U, s)) /\ UvListen(U, s).cb = U.cb
<1>1. s \in Handles
  BY DEF Handles
<1> QED
  BY <1>1 DEF UvListen, Same, UvppType

LEMMA AcceptIsSame ==
    ASSUME NEW U \in UvppType, NEW s \in Servers, NEW c \in Conns, NEW ok \in BOOLEAN,
           U.backlog[s] > 0
    PROVE  Same(U, UvAccept(U, s, c, ok)) /\ UvAccept(U, s, c, ok).cb = U.cb
<1>1. U.backlog[s] - 1 \in Nat
  BY DEF UvppType
<1> QED
  BY <1>1 DEF UvAccept, Same, UvppType

LEMMA TimerCallsAreSame ==
    ASSUME NEW U \in UvppType, NEW t \in Timers, NEW V \in {UvTimerStart(U, t), UvTimerStop(U, t)}
    PROVE  Same(U, V) /\ V.cb = U.cb
<1>0. t \in Handles
  BY DEF Handles
<1> QED
  BY <1>0 DEF UvTimerStart, UvTimerStop, Same, UvppType

LEMMA StopIsSame ==
    ASSUME NEW U \in UvppType
    PROVE  Same(U, Stop(U)) /\ Stop(U).cb = U.cb
  BY DEF Stop, UvStop, Same, UvppType

-----------------------------------------------------------------------------
\* The actions of the program

LEMMA SameKeepsInv ==
    ASSUME IInv, Same(uv, uv'), uv'.cb = uv.cb \/ uv'.cb.kind # "close",
           deleted' = deleted, destroyed' \in BOOLEAN
    PROVE  IInv'
<1>1. WrappersOK(uv')
  BY SameOK DEF IInv
<1> QED
  BY <1>1 DEF IInv, OwnedAreOpen, Owns, Open, Same

LEMMA CreatesKeepsInv ==
    ASSUME IInv, NEW h \in Handles, Creates(h)
    PROVE  IInv'
<1> DEFINE U == [uv EXCEPT !.alive = @ \cup {h}]
<1>1. uv' = [U EXCEPT !.state[h] = "open", !.refs = @ \cup {h}]
  BY DEF Creates, New, UvOpen
<1>2. uv' \in UvppType
  BY <1>1 DEF IInv, WrappersOK, UvppType, States
<1>3. /\ uv'.state = [uv.state EXCEPT ![h] = "open"]
      /\ uv'.alive = uv.alive \cup {h}
      /\ uv'.failed = uv.failed /\ uv'.cb = uv.cb
  BY <1>1 DEF IInv, WrappersOK, UvppType
<1>4. uv.state \in [Handles -> States]
  BY DEF IInv, WrappersOK, UvppType
<1>5. uv.state[h] = "unborn" /\ h \in Created /\ deleted' = deleted /\ destroyed' = destroyed
  BY DEF Creates, Calls
<1>6. WrappersOK(uv')
  <2>1. Queued(uv') \subseteq uv'.alive /\ uv'.alive \subseteq Created
    BY <1>3, <1>4, <1>5 DEF IInv, WrappersOK, Queued
  <2>2. uv'.cb.kind = "close" => uv'.cb.handle \in uv'.alive /\ uv'.state[uv'.cb.handle] = "closed"
    <3>1. uv.alive \subseteq Handles
      BY DEF IInv, WrappersOK, UvppType
    <3> QED
      BY <1>3, <1>4, <1>5, <3>1 DEF IInv, WrappersOK
  <2> QED
    BY <1>2, <1>3, <2>1, <2>2 DEF IInv, WrappersOK
<1>7. OwnedAreOpen'
  BY <1>3, <1>4, <1>5 DEF IInv, OwnedAreOpen, Owns, Open
<1> QED
  BY <1>5, <1>6, <1>7 DEF IInv

LEMMA UsesKeepsInv ==
    ASSUME IInv, NEW h \in Handles, Uses(h)
    PROVE  IInv'
<1>1. uv \in UvppType /\ deleted' = deleted /\ destroyed' \in BOOLEAN
  BY DEF IInv, WrappersOK, Uses, Calls
<1>2. Same(uv, uv') /\ uv'.cb = uv.cb
  <2>1. CASE h \in Servers /\ uv' = UvListen(uv, h)
    BY <1>1, <2>1, ListenIsSame
  <2>2. CASE h \in Timers /\ uv' \in {UvTimerStart(uv, h), UvTimerStop(uv, h)}
    BY <1>1, <2>2, TimerCallsAreSame
  <2>3. CASE h \in Conns /\ uv' \in {UvReadStart(uv, h), UvReadStop(uv, h), UvShutdown(uv, h)}
    BY <1>1, <2>3, StreamCallsAreSame
  <2>4. CASE h \in Conns /\ uv' = UvWrite(uv, h)
    BY <1>1, <2>4, StreamCallsAreSame
  <2> QED
    BY <2>1, <2>2, <2>3, <2>4 DEF Uses
<1> QED
  BY <1>1, <1>2, SameKeepsInv

LEMMA AcceptsKeepsInv ==
    ASSUME IInv, NEW s \in Servers, NEW c \in Conns, Accepts(s, c)
    PROVE  IInv'
<1>1. uv \in UvppType /\ deleted' = deleted /\ destroyed' \in BOOLEAN
  BY DEF IInv, WrappersOK, Accepts, Calls
<1>2. Same(uv, uv') /\ uv'.cb = uv.cb
  BY <1>1, AcceptIsSame DEF Accepts
<1> QED
  BY <1>1, <1>2, SameKeepsInv

\* A wrapper the program owns has an open handle: uv_close is called for it, and
\* neither assertion nor destructor is reached.
LEMMA DeletesKeepsInv ==
    ASSUME IInv, AsksIsRunning, NEW h \in Handles, Deletes(h)
    PROVE  IInv'
<1>1. uv \in UvppType /\ Owns(h) /\ Open(uv, h) /\ uv.isRunning
  BY DEF IInv, WrappersOK, OwnedAreOpen, Deletes
<1>2. Using(uv, h) = uv
  BY <1>1 DEF Using, Check, Owns
<1>3. uv' = UvClose(uv, h)
  BY <1>1, <1>2 DEF Deletes, DelayDelete
<1>4. uv' \in UvppType
  BY <1>1, <1>3 DEF UvClose, UvppType, States
<1>5. /\ uv'.state = [uv.state EXCEPT ![h] = "closing"]
      /\ uv'.alive = uv.alive /\ uv'.failed = uv.failed /\ uv'.cb = uv.cb
  BY <1>1, <1>3 DEF UvClose, UvppType
<1>6. uv.state \in [Handles -> States] /\ uv.state[h] = "open" /\ h \in uv.alive
  BY <1>1 DEF UvppType, Open, Owns
<1>7. deleted' = deleted \cup {h} /\ destroyed' = destroyed
  BY DEF Deletes, Calls
<1>8. WrappersOK(uv')
  <2>1. Queued(uv') \subseteq uv'.alive /\ uv'.alive \subseteq Created
    BY <1>5, <1>6 DEF IInv, WrappersOK, Queued
  <2>2. uv'.cb.kind = "close" => uv'.cb.handle \in uv'.alive /\ uv'.state[uv'.cb.handle] = "closed"
    <3>1. uv.alive \subseteq Handles
      BY <1>1 DEF UvppType
    <3> QED
      BY <1>5, <1>6, <3>1 DEF IInv, WrappersOK
  <2> QED
    BY <1>4, <1>5, <2>1, <2>2 DEF IInv, WrappersOK
<1>9. OwnedAreOpen'
  BY <1>5, <1>6, <1>7 DEF IInv, OwnedAreOpen, Owns, Open
<1> QED
  BY <1>6, <1>7, <1>8, <1>9 DEF IInv, WrappersOK

LEMMA StopsKeepsInv ==
    ASSUME IInv, Stops
    PROVE  IInv'
  BY SameKeepsInv, StopIsSame DEF Stops, Calls, IInv, WrappersOK

LEMMA RunsKeepsInv ==
    ASSUME IInv, Runs
    PROVE  IInv'
<1>1. Same(uv, uv') /\ uv'.cb = uv.cb
  BY DEF Runs, Run, IInv, WrappersOK, UvppType, Same
<1> QED
  BY <1>1, SameKeepsInv DEF Runs, programVars, IInv

LEMMA DestroysKeepsInv ==
    ASSUME IInv, Destroys
    PROVE  IInv'
<1> DEFINE U == Stop(uv)
<1>1. Same(uv, U) /\ U.cb = uv.cb
  BY StopIsSame DEF IInv, WrappersOK
<1>2. WrappersOK(U) /\ U \in UvppType
  BY <1>1, SameOK DEF IInv, WrappersOK
<1> HIDE DEF U
<1>3. /\ uv' \in UvppType
      /\ uv'.state = U.state /\ uv'.alive = U.alive /\ uv'.cb = U.cb
      /\ uv'.failed \subseteq U.failed \cup {"loop_close: not busy"}
  <2>1. uv' = Check(U, "loop_close: not busy", LoopCloses(uv))
    BY DEF Destroys, DestroyLoop, U
  <2> QED
    BY <1>2, <2>1 DEF Check, UvppType, Faults
<1>4. WrappersOK(uv')
  BY <1>2, <1>3 DEF WrappersOK, Queued
<1> QED
  BY <1>1, <1>3, <1>4 DEF IInv, OwnedAreOpen, Owns, Open, Same, Destroys

-----------------------------------------------------------------------------
\* The library

\* A callback begins, and the record stays as it is but for what a client may do next.
LEMMA BeginsIsSame ==
    ASSUME NEW U \in UvppType, NEW kind \in Kinds \ {"close"}, NEW h \in Handles,
           NEW status \in {"ok", "data", "empty", "nobufs", "eof", "error"}
    PROVE  Same(U, Begins(U, kind, h, status)) /\ Begins(U, kind, h, status).cb.kind # "close"
  BY DEF Begins, Same, UvppType, CallbackType, Statuses

LEMMA SameIsTransitive ==
    ASSUME NEW U, NEW V, NEW W, Same(U, V), Same(V, W)
    PROVE  Same(U, W)
  BY DEF Same

LEMMA ConnectionIsSame ==
    ASSUME uv \in UvppType, NEW s \in Servers, Connection(s)
    PROVE  Same(uv, uv') /\ uv'.cb.kind # "close"
<1>1. s \in Handles /\ "connection" \in Kinds \ {"close"}
  BY DEF Handles, Kinds
<1>2. ASSUME NEW U \in {[uv EXCEPT !.backlog[s] = @ + 1], [uv EXCEPT !.active = @ \ {s}]}
      PROVE  Same(uv, U) /\ U \in UvppType
  <2>1. uv.backlog[s] + 1 \in Nat
    BY DEF UvppType
  <2> QED
    BY <1>1, <1>2, <2>1 DEF Same, UvppType
<1>3. PICK U \in {[uv EXCEPT !.backlog[s] = @ + 1], [uv EXCEPT !.active = @ \ {s}]},
           status \in {"ok", "error"} : uv' = Begins(U, "connection", s, status)
  BY DEF Connection
<1>4. Same(uv, U) /\ U \in UvppType
  BY <1>2
<1>5. Same(U, uv') /\ uv'.cb.kind # "close"
  BY <1>1, <1>3, <1>4, BeginsIsSame
<1> QED
  BY <1>4, <1>5, SameIsTransitive

LEMMA ConnIsSame ==
    ASSUME uv \in UvppType, NEW c \in Conns, Read(c) \/ Written(c) \/ ShutDown(c)
    PROVE  Same(uv, uv') /\ uv'.cb.kind # "close"
<1>1. c \in Handles /\ {"read", "write", "shutdown"} \subseteq Kinds \ {"close"}
  BY DEF Handles, Kinds
<1>2. CASE Read(c)
  <2>1. ASSUME NEW U \in {uv, [uv EXCEPT !.active = @ \ {c}, !.readable = @ \ {c}],
                          [uv EXCEPT !.active = @ \ {c}]}
        PROVE  Same(uv, U) /\ U \in UvppType
    <3>1. \A x : uv.active \ {x} \subseteq uv.active /\ uv.readable \ {x} \subseteq uv.readable
      OBVIOUS
    <3>2. CASE U = uv
      BY <3>2 DEF Same
    <3>3. CASE U = [uv EXCEPT !.active = @ \ {c}, !.readable = @ \ {c}]
      BY <3>1, <3>3 DEF Same, UvppType
    <3>4. CASE U = [uv EXCEPT !.active = @ \ {c}]
      BY <3>1, <3>4 DEF Same, UvppType
    <3> QED
      BY <2>1, <3>2, <3>3, <3>4
  <2>2. PICK U \in {uv, [uv EXCEPT !.active = @ \ {c}, !.readable = @ \ {c}],
                    [uv EXCEPT !.active = @ \ {c}]},
             status \in {"data", "empty", "nobufs", "eof", "error"} :
                 uv' = Begins(U, "read", c, status)
    BY <1>2 DEF Read, ReadCallback
  <2>3. Same(uv, U) /\ U \in UvppType
    BY <2>1
  <2>4. Same(U, uv') /\ uv'.cb.kind # "close"
    BY <1>1, <2>2, <2>3, BeginsIsSame
  <2> QED
    BY <2>3, <2>4, SameIsTransitive
<1>3. CASE Written(c)
  <2> DEFINE U == [uv EXCEPT !.writes[c] = @ - 1]
  <2>1. uv.writes[c] - 1 \in Nat
    BY <1>3 DEF Written, UvppType
  <2>2. Same(uv, U) /\ U \in UvppType
    BY <2>1 DEF Same, UvppType
  <2>3. PICK status \in {"ok", "error"} : uv' = Begins(U, "write", c, status)
    BY <1>3 DEF Written
  <2> QED
    BY <1>1, <2>2, <2>3, BeginsIsSame, SameIsTransitive
<1>4. CASE ShutDown(c)
  <2> DEFINE U == [uv EXCEPT !.shutting = @ \ {c}]
  <2>1. Same(uv, U) /\ U \in UvppType
    BY DEF Same, UvppType
  <2>2. PICK status \in {"ok", "error"} : uv' = Begins(U, "shutdown", c, status)
    BY <1>4 DEF ShutDown
  <2> QED
    BY <1>1, <2>1, <2>2, BeginsIsSame, SameIsTransitive
<1> QED
  BY <1>2, <1>3, <1>4

LEMMA TickIsSame ==
    ASSUME uv \in UvppType, NEW t \in Timers, Tick(t)
    PROVE  Same(uv, uv') /\ uv'.cb.kind # "close"
<1>1. t \in Handles /\ "timer" \in Kinds \ {"close"}
  BY DEF Handles, Kinds
<1>2. PICK A \in {uv.active, uv.active \ {t}} : uv' = Begins([uv EXCEPT !.active = A], "timer", t, "ok")
  BY DEF Tick
<1>3. Same(uv, [uv EXCEPT !.active = A]) /\ [uv EXCEPT !.active = A] \in UvppType
  BY DEF Same, UvppType
<1> QED
  BY <1>1, <1>2, <1>3, BeginsIsSame, SameIsTransitive

\* close_cb begins for a handle that was closing, hence linked, hence alive.
LEMMA ClosedKeepsInv ==
    ASSUME IInv, NEW h \in Handles, Closed(h), UNCHANGED programVars
    PROVE  IInv'
<1>1. uv \in UvppType /\ uv.state[h] = "closing" /\ h \in uv.alive
  BY DEF IInv, WrappersOK, Queued, Closed
<1>2. uv' = [[uv EXCEPT !.state[h] = "closed"] EXCEPT
                !.cb = [kind |-> "close", handle |-> h, status |-> "ok"]]
  BY DEF Closed, Begins
<1>3. uv' \in UvppType
  BY <1>1, <1>2 DEF UvppType, States, CallbackType, Statuses, Kinds
<1>4. /\ uv'.state = [uv.state EXCEPT ![h] = "closed"]
      /\ uv'.alive = uv.alive /\ uv'.failed = uv.failed
      /\ uv'.cb.handle = h
  BY <1>1, <1>2 DEF UvppType
<1>5. uv.state \in [Handles -> States] /\ uv.alive \subseteq Handles
  BY <1>1 DEF UvppType
<1>6. WrappersOK(uv')
  BY <1>1, <1>3, <1>4, <1>5 DEF IInv, WrappersOK, Queued
<1>7. OwnedAreOpen'
  BY <1>1, <1>4, <1>5 DEF IInv, OwnedAreOpen, Owns, Open, programVars
<1> QED
  BY <1>6, <1>7 DEF IInv, programVars

\* The wrapper that close_cb deletes is alive, and the loop has let go of it.
LEMMA OnCloseKeepsInv ==
    ASSUME IInv, OnClose, UNCHANGED programVars
    PROVE  IInv'
<1> DEFINE h == uv.cb.handle
           V == IF h \in Timers THEN UvTimerStop(uv, h) ELSE uv
<1>1. uv \in UvppType /\ h \in uv.alive /\ uv.state[h] = "closed"
  BY DEF IInv, WrappersOK, OnClose
<1>2. Using(uv, h) = uv
  BY <1>1 DEF Using, Check
<1>3. uv' = [[V EXCEPT !.alive = @ \ {h}] EXCEPT !.cb = None]
  BY <1>2 DEF OnClose, Delete
<1>4. Same(uv, V) /\ V \in UvppType
  BY <1>1, TimerCallsAreSame DEF Same
<1> HIDE DEF V
<1>5. /\ uv' \in UvppType
      /\ uv'.state = uv.state /\ uv'.alive = uv.alive \ {h} /\ uv'.failed = uv.failed
      /\ uv'.cb.kind = "none"
  BY <1>3, <1>4 DEF Same, UvppType, CallbackType, Statuses, None
<1>6. WrappersOK(uv')
  BY <1>1, <1>5 DEF IInv, WrappersOK, Queued
<1>7. OwnedAreOpen'
  BY <1>5 DEF IInv, OwnedAreOpen, Owns, Open, programVars
<1> QED
  BY <1>6, <1>7 DEF IInv, programVars

LEMMA LibraryKeepsInv ==
    ASSUME IInv, Library
    PROVE  IInv'
<1>1. uv \in UvppType /\ deleted' = deleted /\ destroyed' \in BOOLEAN
  BY DEF IInv, WrappersOK, Library, programVars
<1>2. CASE \E s \in Servers : Connection(s)
  BY <1>1, <1>2, ConnectionIsSame, SameKeepsInv
<1>3. CASE \E c \in Conns : Read(c) \/ Written(c) \/ ShutDown(c)
  BY <1>1, <1>3, ConnIsSame, SameKeepsInv
<1>4. CASE \E t \in Timers : Tick(t)
  BY <1>1, <1>4, TickIsSame, SameKeepsInv
<1>5. CASE \E h \in Handles : Closed(h)
  BY <1>5, ClosedKeepsInv DEF Library
<1>6. CASE RunEnds
  <2>1. Same(uv, uv') /\ uv'.cb = uv.cb
    BY <1>1, <1>6 DEF RunEnds, Same, UvppType
  <2> QED
    BY <1>1, <2>1, SameKeepsInv
<1>7. CASE Return
  <2>1. Same(uv, uv') /\ uv'.cb.kind # "close"
    BY <1>1, <1>7 DEF Return, Same, UvppType, CallbackType, Statuses, None
  <2> QED
    BY <1>1, <2>1, SameKeepsInv
<1>8. CASE OnClose
  BY <1>8, OnCloseKeepsInv DEF Library
<1> QED
  BY <1>2, <1>3, <1>4, <1>5, <1>6, <1>7, <1>8 DEF Library

-----------------------------------------------------------------------------
\* The theorems

LEMMA InitInv == ProgramInit => IInv
<1> SUFFICES ASSUME ProgramInit PROVE IInv
  OBVIOUS
<1>1. uv = UvppInit /\ deleted = {} /\ destroyed = FALSE
  BY DEF ProgramInit
<1>2. uv.state = [h \in Handles |-> "unborn"] /\ uv.cb.kind = "none" /\ uv.alive = {} /\ uv.failed = {}
  BY <1>1, InitIs DEF StreamsFields, UvppFields, Added, UvInit, None
<1>3. WrappersOK(uv)
  BY <1>1, <1>2, InitTyped DEF WrappersOK, Queued
<1> QED
  BY <1>1, <1>2, <1>3 DEF IInv, OwnedAreOpen, Owns

LEMMA NextInv ==
    ASSUME AsksIsRunning, IInv, [ProgramNext]_<<uv, programVars>>
    PROVE  IInv'
<1>1. CASE UNCHANGED <<uv, programVars>>
  BY <1>1 DEF IInv, OwnedAreOpen, Owns, Open, programVars
<1>2. CASE ProgramNext
  BY <1>2, CreatesKeepsInv, UsesKeepsInv, DeletesKeepsInv, AcceptsKeepsInv, StopsKeepsInv,
     RunsKeepsInv, DestroysKeepsInv, LibraryKeepsInv DEF ProgramNext
<1> QED
  BY <1>1, <1>2

LEMMA Invariant ==
    ASSUME AsksIsRunning
    PROVE  ProgramSpec => []IInv
<1>1. IInv /\ [ProgramNext]_<<uv, programVars>> => IInv'
  BY NextInv
<1> QED
  BY <1>1, InitInv, PTL DEF ProgramSpec

\* A program that gives each wrapper to DelayDelete once, and only while
\* UvLoop::IsRunning(), deletes no object whose handle the loop links and uses none that
\* is deleted, whatever callbacks come and however Run and Stop alternate (uvpp.cpp).
THEOREM WrappersLive ==
    ASSUME AsksIsRunning
    PROVE  ProgramSpec => []WrappersAreSafe
<1>1. IInv => WrappersAreSafe
  BY DEF IInv, WrappersOK, WrappersAreSafe, NoHandleIsFreedInUse, NoDeletedWrapperIsUsed
<1> QED
  BY <1>1, Invariant, PTL

\* Nor does it close a handle twice: assert(0) of uv_close in win/handle.c is not reached.
THEOREM HandlesAreClosedOnce ==
    ASSUME AsksIsRunning
    PROVE  ProgramSpec => []NeverClosesTwice
<1>1. IInv => NeverClosesTwice
  BY DEF IInv, WrappersOK, NeverClosesTwice
<1> QED
  BY <1>1, Invariant, PTL

\* Every variable of such a program, and every field of its loop, keeps its type.
THEOREM ProgramTypeCorrect ==
    ASSUME AsksIsRunning
    PROVE  ProgramSpec => []ProgramTypeOK
<1>1. IInv => ProgramTypeOK
  BY Typed DEF IInv, WrappersOK, ProgramTypeOK
<1> QED
  BY <1>1, Invariant, PTL

-----------------------------------------------------------------------------
\* ServerBase: the inductive invariant

OpenConns(U) == {c \in Conns : Open(U, c)}

\* The virtual function i of those that run ends a session.
Ends(i) == hooks[i].name \in {"OnDisconnected", "OnDelSession"}

\* Only the function that a Notify* called may do anything else than end a session, and
\* each of the others ends another session that the server still owns.
HooksAreRight ==
    /\ hooks \in Seq(Hooks)
    /\ \A i \in DOMAIN hooks : i # 1 => Ends(i)
    /\ \A i \in DOMAIN hooks : Ends(i) => hooks[i].session \in SessionMap_
    /\ \A i, j \in DOMAIN hooks : Ends(i) /\ Ends(j) /\ i # j => hooks[i].session # hooks[j].session

\* A session that the server does not own is one whose Accept has failed, of which OnError tells.
Unowned == {c \in Conns : ~Idle /\ hooks[1] = Hook("OnError", c)}

\* A read of session c has ended it, which NotifyRead has not heard of.
ReadEnds(c) == Idle /\ uv.cb.kind = "read" /\ uv.cb.handle = c /\ uv.cb.status \notin {"data", "empty"}

\* Sessions are the open connections; each reads that is not coming to its end.
SessionsFollow ==
    /\ sessions = OpenConns(uv)
    /\ SessionMap_ = sessions \ Unowned /\ Unowned \subseteq sessions
    /\ \A c \in SessionMap_ :
          \/ c \in uv.active
          \/ \E i \in DOMAIN hooks : Ends(i) /\ hooks[i].session = c
          \/ ReadEnds(c)

\* Before, during and after the life of the server.
ServerFollows ==
    /\ server \in {"none", "alive", "destroyed"}
    /\ server = "none" => uv = UvppInit /\ Idle
    /\ server = "alive" => Open(uv, ServerPtr_) /\ \A t, u \in Timers : Open(uv, t) /\ Open(uv, u) => t = u
    /\ server = "destroyed" => Opened(uv) = {} /\ (uv.running \/ LoopCloses(uv))

\* The virtual functions run in a callback, and the callback ends with them.
CallbackFollows ==
    /\ ~uv.running => uv.cb = None
    /\ uv.running => uv.isRunning
    /\ ~uv.stopped
    /\ Idle => Begun(uv) /\ (uv.cb.kind = "connection" /\ uv.cb.status = "ok" => Fresh # {})
    /\ ~Idle => /\ uv.cb.kind \in {"connection", "read", "write", "timer"}
                /\ hooks[1].name = "OnTimer" =>
                      uv.cb.handle \in Timers /\ (server = "alive" => Open(uv, uv.cb.handle))

NoSessionFails ==
    uv.failed \cap {"uv_close: not closing", "read of a deleted session"} = {}

ServerInv ==
    /\ Sound(uv)
    /\ HooksAreRight /\ SessionsFollow /\ ServerFollows /\ CallbackFollows /\ NoSessionFails

-----------------------------------------------------------------------------
\* What a virtual function leaves below it

LEMMA HookIs ==
    ASSUME NEW name, NEW c
    PROVE  Hook(name, c).name = name /\ Hook(name, c).session = c
  BY DEF Hook

LEMMA BelowIs ==
    ASSUME hooks \in Seq(Hooks), ~Idle
    PROVE  /\ Len(hooks) \in Nat \ {0} /\ DOMAIN hooks = 1..Len(hooks) /\ Len(hooks) \in DOMAIN hooks
           /\ Below \in Seq(Hooks) /\ DOMAIN Below = 1..(Len(hooks) - 1)
           /\ Below = << >> <=> Len(hooks) = 1
           /\ \A i \in DOMAIN Below : Below[i] = hooks[i] /\ i \in DOMAIN hooks /\ i # Len(hooks)
           /\ Top \in Hooks
<1>1. Len(hooks) \in Nat \ {0} /\ DOMAIN hooks = 1..Len(hooks) /\ Len(hooks) \in DOMAIN hooks
  BY DEF Idle
<1>2. Top \in Hooks
  BY <1>1 DEF Top
<1>3. Below \in Seq(Hooks) /\ Len(Below) = Len(hooks) - 1
  BY <1>1 DEF Below
<1>4. \A i \in 1..(Len(hooks) - 1) : Below[i] = hooks[i]
  BY <1>1 DEF Below
<1>5. DOMAIN Below = 1..(Len(hooks) - 1) /\ (Below = << >> <=> Len(hooks) = 1)
  BY <1>1, <1>3
<1> QED
  BY <1>1, <1>2, <1>3, <1>4, <1>5

LEMMA AppendIs ==
    ASSUME NEW s \in Seq(Hooks), NEW h \in Hooks, NEW t, t = Append(s, h)
    PROVE  /\ t \in Seq(Hooks) /\ DOMAIN t = 1..(Len(s) + 1) /\ t # << >> /\ t[Len(s) + 1] = h
           /\ \A i \in 1..Len(s) : t[i] = s[i]
           /\ Len(s) \in Nat /\ DOMAIN s = 1..Len(s)
  OBVIOUS

\* A function that ends no session is the only one.
LEMMA OthersAreAlone ==
    ASSUME HooksAreRight, ~Idle, Top.name \notin {"OnDisconnected", "OnDelSession"}
    PROVE  Len(hooks) = 1 /\ Below = << >> /\ DOMAIN hooks = {1} /\ Top = hooks[1] /\ ~Ends(1)
<1>1. /\ Len(hooks) \in Nat \ {0} /\ DOMAIN hooks = 1..Len(hooks) /\ Len(hooks) \in DOMAIN hooks
      /\ Below = << >> <=> Len(hooks) = 1
  BY BelowIs DEF HooksAreRight
<1>2. Len(hooks) = 1
  BY <1>1 DEF HooksAreRight, Ends, Top
<1> QED
  BY <1>1, <1>2 DEF Top, Ends

\* A session that is being ended, or whose Accept has failed, is open.
LEMMA TopIsOpen ==
    ASSUME ServerInv, ~Idle,
           Top.name \in {"OnDisconnected", "OnDelSession"} \/ (Top.name = "OnError" /\ Top.session # "none")
    PROVE  Top.session \in sessions /\ Top.session \in Conns /\ Open(uv, Top.session)
<1>1. hooks \in Seq(Hooks) /\ Len(hooks) \in DOMAIN hooks /\ Top \in Hooks
  BY BelowIs DEF ServerInv, HooksAreRight
<1>2. CASE Top.name \in {"OnDisconnected", "OnDelSession"}
  BY <1>1, <1>2 DEF ServerInv, HooksAreRight, SessionsFollow, OpenConns, Ends, Top
<1>3. CASE Top.name = "OnError" /\ Top.session # "none"
  <2>1. Top = hooks[1]
    BY <1>3, OthersAreAlone DEF ServerInv
  <2>2. Top.session \in Conns /\ Top = Hook("OnError", Top.session)
    BY <1>1, <1>3 DEF Hooks, Hook
  <2> QED
    BY <2>1, <2>2 DEF ServerInv, SessionsFollow, Unowned, OpenConns
<1> QED
  BY <1>2, <1>3

LEMMA IdleFacts ==
    ASSUME ServerInv, Idle
    PROVE  /\ Sound(uv) /\ Begun(uv) /\ Unowned = {} /\ SessionMap_ = sessions /\ sessions = OpenConns(uv)
           /\ \A c \in sessions : c \in uv.active \/ ReadEnds(c)
<1>1. Unowned = {}
  BY DEF Unowned
<1>2. DOMAIN hooks = {}
  BY DEF Idle
<1> QED
  BY <1>1, <1>2 DEF ServerInv, SessionsFollow, CallbackFollows

LEMMA HookFacts ==
    ASSUME ServerInv, uv.cb.kind # "none"
    PROVE  uv.cb # None /\ uv.running /\ uv.isRunning /\ ~uv.stopped /\ server # "none"
<1>1. uv.cb # None
  BY DEF None
<1>2. uv.running
  BY <1>1 DEF ServerInv, CallbackFollows
<1>3. ~UvppInit.running
  BY InitIs DEF StreamsFields, UvppFields, Added, UvInit
<1> QED
  BY <1>1, <1>2, <1>3 DEF ServerInv, CallbackFollows, ServerFollows

LEMMA InHookFacts ==
    ASSUME ServerInv, ~Idle
    PROVE  uv.cb.kind # "none"
  BY DEF ServerInv, CallbackFollows

-----------------------------------------------------------------------------
\* ServerBase: the library calls back

LEMMA CallbackKeepsServerInv ==
    ASSUME ServerInv, NEW kind, NEW h, Told(uv, uv', kind, h),
           UNCHANGED <<server, sessions, SessionMap_, hooks>>,
           kind = "connection" /\ uv'.cb.status = "ok" => Fresh # {},
           \A c \in Conns : c \in uv.active =>
               c \in uv'.active \/ (kind = "read" /\ h = c /\ uv'.cb.status \notin {"data", "empty"}),
           kind = "close" => uv.state[h] = "closing"
    PROVE  ServerInv'
<1>1. /\ uv.running /\ uv.cb = None /\ Sound(uv') /\ Begun(uv') /\ Went(uv, uv')
      /\ uv'.cb.kind = kind /\ uv'.cb.handle = h /\ uv'.failed = uv.failed
      /\ \A g \in Handles : uv'.state[g] = IF kind = "close" /\ g = h THEN "closed" ELSE uv.state[g]
  BY DEF Told
<1>2. uv.cb.kind = "none"
  BY <1>1 DEF None
<1>3. Idle /\ Idle' /\ hooks = << >> /\ hooks' = << >>
  BY <1>2 DEF ServerInv, CallbackFollows, Idle
<1>4. \A g \in Handles : /\ Open(uv', g) <=> Open(uv, g)
                         /\ uv'.state[g] = "unborn" <=> uv.state[g] = "unborn"
  BY <1>1 DEF Open
<1>5. Opened(uv') = Opened(uv) /\ OpenConns(uv') = OpenConns(uv) /\ Fresh' = Fresh
  BY <1>4, KindsOfHandles DEF Opened, OpenConns, Fresh
<1>6. HooksAreRight'
  BY DEF ServerInv, HooksAreRight, Ends
<1>7. SessionsFollow'
  <2>1. Unowned' = {} /\ SessionMap_ = sessions /\ sessions = OpenConns(uv) /\ sessions \subseteq Conns
    BY <1>3, IdleFacts DEF Unowned, OpenConns
  <2>2. ASSUME NEW c \in SessionMap_ PROVE c \in uv'.active \/ ReadEnds(c)'
    <3>1. c \in uv.active /\ c \in Conns
      BY <1>2, <1>3, <2>1, IdleFacts DEF ReadEnds
    <3> QED
      BY <1>1, <1>3, <3>1 DEF ReadEnds
  <2> QED
    BY <1>5, <2>1, <2>2 DEF SessionsFollow
<1>8. ServerFollows'
  <2>1. uv # UvppInit
    BY <1>1, InitIs DEF StreamsFields, UvppFields, Added, UvInit
  <2>2. uv'.running
    BY <1>1 DEF Went
  <2> QED
    BY <1>4, <1>5, <2>1, <2>2, KindsOfHandles, ServerAssumption DEF ServerInv, ServerFollows
<1>9. CallbackFollows'
  BY <1>1, <1>3, <1>5 DEF ServerInv, CallbackFollows, Went
<1> QED
  BY <1>1, <1>6, <1>7, <1>8, <1>9 DEF ServerInv, NoSessionFails

LEMMA ConnectsKeepsServerInv ==
    ASSUME ServerInv, Connects
    PROVE  ServerInv'
<1>1. ServerPtr_ \in Servers /\ ServerPtr_ \notin Conns
  BY ServerAssumption
<1>2. Told(uv, uv', "connection", ServerPtr_)
  BY <1>1, ConnectionTold DEF Connects, ServerInv
<1>3. \A c \in Conns : c \in uv.active => c \in uv'.active
  BY <1>1, <1>2 DEF Told
<1> QED
  BY <1>2, <1>3, CallbackKeepsServerInv DEF Connects

LEMMA ReceivesKeepsServerInv ==
    ASSUME ServerInv, Receives
    PROVE  ServerInv'
<1>1. PICK c \in Conns : Read(c)
  BY DEF Receives
<1>2. /\ Told(uv, uv', "read", c)
      /\ uv'.cb.status \in {"data", "empty"} => uv'.active = uv.active
  BY <1>1, ReadTold DEF ServerInv
<1>3. \A d \in Conns : d \in uv.active =>
          d \in uv'.active \/ (c = d /\ uv'.cb.status \notin {"data", "empty"})
  BY <1>2 DEF Told
<1> QED
  BY <1>2, <1>3, CallbackKeepsServerInv DEF Receives

LEMMA RunEndsKeepsServerInv ==
    ASSUME ServerInv, RunEnds, UNCHANGED <<server, sessions, SessionMap_, hooks>>
    PROVE  ServerInv'
<1>1. /\ Sound(uv') /\ Begun(uv') /\ Kept(uv, uv') /\ uv'.cb = None /\ uv.cb = None
      /\ uv'.active = uv.active /\ uv'.shutting = uv.shutting /\ uv'.writes = uv.writes
      /\ ~uv'.running /\ ~uv'.stopped /\ uv.running /\ ~Alive(uv)
  BY RunEndsSound DEF ServerInv, CallbackFollows
<1>2. uv.cb.kind = "none" /\ uv'.cb.kind = "none"
  BY <1>1 DEF None
<1>3. Idle /\ Idle' /\ hooks = << >> /\ hooks' = << >>
  BY <1>2 DEF ServerInv, CallbackFollows, Idle
<1>4. \A g : Open(uv', g) <=> Open(uv, g)
  BY <1>1 DEF Open, Kept
<1>5. Opened(uv') = Opened(uv) /\ OpenConns(uv') = OpenConns(uv)
  BY <1>4 DEF Opened, OpenConns
<1>6. HooksAreRight'
  BY DEF ServerInv, HooksAreRight, Ends
<1>7. SessionsFollow'
  <2>1. Unowned' = {} /\ SessionMap_ = sessions /\ sessions = OpenConns(uv)
    BY <1>3, IdleFacts DEF Unowned
  <2>2. \A c \in SessionMap_ : c \in uv'.active
    BY <1>1, <1>2, <1>3, <2>1, IdleFacts DEF ReadEnds
  <2> QED
    BY <1>5, <2>1, <2>2 DEF SessionsFollow
<1>8. ServerFollows'
  <2>1. uv # UvppInit
    BY <1>1, InitIs DEF StreamsFields, UvppFields, Added, UvInit
  <2>2. ASSUME Opened(uv) = {} PROVE LoopCloses(uv')
    <3>1. Queued(uv') = {}
      BY <1>1, <2>2 DEF Alive, Queued, Opened, Open, Kept
    <3>2. \A c \in Conns : Answered(uv', c)
      BY <1>1 DEF Alive, Answered
    <3> QED
      BY <3>1, <3>2 DEF LoopCloses
  <2> QED
    BY <1>4, <1>5, <2>1, <2>2 DEF ServerInv, ServerFollows
<1>9. CallbackFollows'
  BY <1>1, <1>2, <1>3 DEF CallbackFollows
<1> QED
  BY <1>1, <1>6, <1>7, <1>8, <1>9 DEF ServerInv, NoSessionFails, Kept

LEMMA CallsBackKeepsServerInv ==
    ASSUME ServerInv, CallsBack
    PROVE  ServerInv'
<1>1. Sound(uv) /\ UNCHANGED <<server, sessions, SessionMap_, hooks>>
  BY DEF ServerInv, CallsBack
<1>2. ASSUME NEW c \in Conns, Written(c) PROVE ServerInv'
  <2>1. Told(uv, uv', "write", c) /\ uv'.active = uv.active
    BY <1>1, <1>2, WrittenTold
  <2> QED
    BY <1>1, <2>1, CallbackKeepsServerInv
<1>3. ASSUME NEW t \in Timers, Tick(t) PROVE ServerInv'
  <2>1. Told(uv, uv', "timer", t)
    BY <1>1, <1>3, TickTold
  <2>2. \A c \in Conns : c \in uv.active => c \in uv'.active
    BY <2>1, ServerAssumption DEF Told
  <2> QED
    BY <1>1, <2>1, <2>2, CallbackKeepsServerInv
<1>4. ASSUME NEW h \in Handles, Closed(h) PROVE ServerInv'
  <2>1. Told(uv, uv', "close", h) /\ uv'.active = uv.active /\ uv.state[h] = "closing"
    BY <1>1, <1>4, ClosedTold
  <2> QED
    BY <1>1, <2>1, CallbackKeepsServerInv
<1> QED
  BY <1>1, <1>2, <1>3, <1>4, RunEndsKeepsServerInv DEF CallsBack

-----------------------------------------------------------------------------
\* Notify*

\* A virtual function begins that ends no session but that of a read that has ended it.
LEMMA EnterKeepsServerInv ==
    ASSUME ServerInv, Idle, uv.cb.kind \in {"connection", "read", "write", "timer"},
           NEW name, NEW c, Hook(name, c) \in Hooks, hooks' = Append(hooks, Hook(name, c)),
           UNCHANGED <<uv, server, sessions, SessionMap_>>,
           name = "OnError" => c = "none",
           name \in {"OnDisconnected", "OnDelSession"} => c \in SessionMap_,
           name = "OnTimer" => uv.cb.kind = "timer",
           \A d \in Conns : ReadEnds(d) => name = "OnDisconnected" /\ c = d
    PROVE  ServerInv'
<1>1. hooks' = << Hook(name, c) >> /\ ~Idle' /\ hooks' \in Seq(Hooks) /\ DOMAIN hooks' = {1}
      /\ hooks'[1] = Hook(name, c)
  BY DEF Idle
<1>2. hooks'[1].name = name /\ hooks'[1].session = c
  BY <1>1, HookIs
<1>3. Sound(uv) /\ Begun(uv) /\ SessionMap_ = sessions /\ sessions = OpenConns(uv)
      /\ \A d \in sessions : d \in uv.active \/ ReadEnds(d)
  BY IdleFacts
<1>4. Unowned' = {}
  <2>1. ASSUME NEW d \in Conns, Hook(name, c) = Hook("OnError", d) PROVE FALSE
    <3>1. name = "OnError" /\ c = d
      BY <2>1, HookIs
    <3> QED
      BY <3>1, ServerAssumption
  <2> QED
    BY <1>1, <2>1 DEF Unowned
<1>5. HooksAreRight'
  BY <1>1, <1>2 DEF HooksAreRight, Ends
<1>6. SessionsFollow'
  <2>1. ASSUME NEW d \in SessionMap_
        PROVE  d \in uv.active \/ \E i \in DOMAIN hooks' : Ends(i)' /\ hooks'[i].session = d
    <3>1. d \in Conns
      BY <1>3 DEF OpenConns
    <3> QED
      BY <1>1, <1>2, <1>3, <3>1 DEF Ends
  <2> QED
    BY <1>3, <1>4, <2>1 DEF SessionsFollow, OpenConns, Open
<1>7. ServerFollows'
  BY HookFacts, InitIs DEF ServerInv, ServerFollows, StreamsFields, UvppFields, Added, UvInit
<1>8. CallbackFollows'
  <2>1. name = "OnTimer" => uv.cb.handle \in Timers /\ Open(uv, uv.cb.handle)
    BY <1>3 DEF Begun
  <2> QED
    BY <1>1, <1>2, <2>1 DEF ServerInv, CallbackFollows
<1> QED
  BY <1>3, <1>5, <1>6, <1>7, <1>8 DEF ServerInv, NoSessionFails

\* A connection is made a session, of which a virtual function tells.
LEMMA AddsKeepsServerInv ==
    ASSUME ServerInv, Idle, uv.cb.kind = "connection", NEW c \in Conns, uv.state[c] = "unborn",
           NEW name \in {"OnAddSession", "OnError"}, hooks' = Append(hooks, Hook(name, c)),
           NEW V, Admitted(uv, V, c),
           Sound(uv'), Kept(V, uv'), Went(V, uv'), uv'.cb = V.cb, V.active \subseteq uv'.active,
           name = "OnAddSession" => c \in uv'.active,
           UNCHANGED server, sessions' = sessions \cup {c},
           SessionMap_' = IF name = "OnAddSession" THEN SessionMap_ \cup {c} ELSE SessionMap_
    PROVE  ServerInv'
<1>1. hooks' = << Hook(name, c) >> /\ ~Idle' /\ hooks' \in Seq(Hooks) /\ DOMAIN hooks' = {1}
      /\ hooks'[1] = Hook(name, c)
  BY DEF Idle, Hooks, Hook
<1>2. hooks'[1].name = name /\ hooks'[1].session = c
  BY <1>1, HookIs
<1>3. Sound(uv) /\ Begun(uv) /\ SessionMap_ = sessions /\ sessions = OpenConns(uv)
      /\ \A d \in sessions : d \in uv.active \/ ReadEnds(d)
  BY IdleFacts
<1>4. /\ \A g \in Handles : uv'.state[g] = IF g = c THEN "open" ELSE uv.state[g]
      /\ uv.active \subseteq uv'.active /\ uv'.failed = uv.failed /\ uv'.cb = uv.cb /\ Went(uv, uv')
  BY DEF Admitted, Kept, Went
<1>5. OpenConns(uv') = OpenConns(uv) \cup {c} /\ c \notin OpenConns(uv)
  BY <1>4, KindsOfHandles DEF OpenConns, Open
<1>6. Unowned' = IF name = "OnError" THEN {c} ELSE {}
  <2>1. \A d : Hook(name, c) = Hook("OnError", d) <=> name = "OnError" /\ c = d
    BY HookIs
  <2> QED
    BY <1>1, <2>1 DEF Unowned
<1>7. HooksAreRight'
  BY <1>1, <1>2 DEF HooksAreRight, Ends
<1>8. SessionsFollow'
  <2>1. \A d \in sessions : d \in uv.active
    BY <1>3 DEF ReadEnds
  <2>2. SessionMap_' = sessions' \ Unowned' /\ Unowned' \subseteq sessions'
    BY <1>3, <1>5, <1>6
  <2>3. \A d \in SessionMap_' : d \in uv'.active
    BY <1>3, <1>4, <2>1
  <2> QED
    BY <1>3, <1>5, <2>2, <2>3 DEF SessionsFollow
<1>9. server = "alive"
  <2>1. server # "none"
    BY HookFacts
  <2>2. server # "destroyed"
    BY <1>3 DEF ServerInv, ServerFollows, Begun, Opened, Open, Handles
  <2> QED
    BY <2>1, <2>2 DEF ServerInv, ServerFollows
<1>10. ServerFollows'
  <2>1. \A h \in Servers \cup Timers : Open(uv', h) <=> Open(uv, h)
    BY <1>4, KindsOfHandles, ServerAssumption DEF Open
  <2> QED
    BY <1>9, <2>1, ServerAssumption DEF ServerInv, ServerFollows
<1>11. CallbackFollows'
  BY <1>1, <1>2, <1>4, HookFacts DEF ServerInv, CallbackFollows, Went
<1> QED
  BY <1>4, <1>7, <1>8, <1>10, <1>11 DEF ServerInv, NoSessionFails

LEMMA NotifyNewSessionKeepsServerInv ==
    ASSUME ServerInv, NotifyNewSession
    PROVE  ServerInv'
<1> DEFINE c == CHOOSE x \in Fresh : TRUE
           U == New(uv, c)
<1>1. uv.cb.kind = "connection" /\ Idle /\ server' = server /\ Sound(uv) /\ Begun(uv)
  BY IdleFacts DEF NotifyNewSession
<1>2. /\ ServerPtr_ \in Servers /\ ServerPtr_ \in uv.alive
      /\ uv.cb.status = "ok" => uv.backlog[ServerPtr_] > 0
  BY <1>1, KindsOfHandles, ServerAssumption DEF Begun, Queued, Open, Sound
<1>3. Using(uv, ServerPtr_) = uv
  BY <1>2, UsingIs
<1>4. CASE uv.cb.status # "ok"
  <2>1. UNCHANGED <<uv, sessions, SessionMap_>> /\ hooks' = Append(hooks, Hook("OnError", "none"))
    BY <1>3, <1>4 DEF NotifyNewSession, Enters
  <2>2. Hook("OnError", "none") \in Hooks
    BY DEF Hook, Hooks
  <2> QED
    BY <1>1, <2>1, <2>2, EnterKeepsServerInv DEF ReadEnds
<1>5. CASE uv.cb.status = "ok"
  <2>1. c \in Fresh
    BY <1>1, <1>5 DEF ServerInv, CallbackFollows
  <2>2. c \in Conns /\ uv.state[c] = "unborn" /\ c \in Handles
    BY <2>1, KindsOfHandles DEF Fresh
  <2> HIDE DEF c
  <2>3. ASSUME uv' = UvReadStart(UvAccept(New(uv, c), ServerPtr_, c, TRUE), c),
               sessions' = sessions \cup {c}, SessionMap_' = SessionMap_ \cup {c},
               hooks' = Append(hooks, Hook("OnAddSession", c))
        PROVE  ServerInv'
    <3> DEFINE V == UvAccept(New(uv, c), ServerPtr_, c, TRUE)
    <3>1. Admitted(uv, V, c) /\ c \in V.readable
      BY <1>1, <1>2, <1>5, <2>2, AdmitSound
    <3> HIDE DEF V
    <3>2. Sound(V) /\ c \notin V.active
      BY <1>1, <2>2, <3>1 DEF Admitted, Sound, Opened, Open
    <3>3. uv' = UvReadStart(V, c)
      BY <2>3 DEF V
    <3>4. /\ Sound(uv') /\ Kept(V, uv') /\ Went(V, uv') /\ uv'.cb = V.cb
          /\ uv'.active = IF CanRead(V, c) THEN V.active \cup {c} ELSE V.active
      BY <2>2, <3>2, <3>3, ReadStartSound
    <3>5. V.active \subseteq uv'.active /\ c \in uv'.active
      BY <3>1, <3>2, <3>4 DEF CanRead
    <3> QED
      BY <1>1, <2>2, <2>3, <3>1, <3>4, <3>5, AddsKeepsServerInv
  <2>4. ASSUME uv' = UvAccept(New(uv, c), ServerPtr_, c, FALSE),
               sessions' = sessions \cup {c}, UNCHANGED SessionMap_,
               hooks' = Append(hooks, Hook("OnError", c))
        PROVE  ServerInv'
    <3>1. Admitted(uv, uv', c)
      BY <1>1, <1>2, <1>5, <2>2, <2>4, AdmitSound
    <3>2. Sound(uv') /\ Kept(uv', uv') /\ Went(uv', uv')
      BY <3>1 DEF Admitted, Kept, Went
    <3> QED
      BY <1>1, <2>2, <2>4, <3>1, <3>2, AddsKeepsServerInv
  <2> QED
    BY <1>3, <1>5, <2>3, <2>4 DEF NotifyNewSession, Enters, c
<1> QED
  BY <1>4, <1>5

LEMMA NotifyReadKeepsServerInv ==
    ASSUME ServerInv, NotifyRead
    PROVE  ServerInv'
<1> DEFINE c == uv.cb.handle
<1>1. uv.cb.kind = "read" /\ Idle /\ UNCHANGED <<server, sessions, SessionMap_>> /\ Sound(uv) /\ Begun(uv)
      /\ SessionMap_ = sessions /\ sessions = OpenConns(uv)
  BY IdleFacts DEF NotifyRead
<1>2. c \in Conns /\ c \in sessions /\ c \in uv.alive
  BY <1>1, KindsOfHandles DEF Begun, OpenConns, Queued, Open, Sound
<1>3. uv' = uv
  BY <1>2, UsingIs DEF NotifyRead, Check
<1>4. Hook("OnRead", c) \in Hooks /\ Hook("OnDisconnected", c) \in Hooks
  BY <1>2 DEF Hook, Hooks
<1>5. CASE uv.cb.status \in {"data", "empty"}
  <2>1. hooks' = Append(hooks, Hook("OnRead", c))
    BY <1>5 DEF NotifyRead, Enters
  <2> QED
    BY <1>1, <1>3, <1>4, <1>5, <2>1, EnterKeepsServerInv DEF ReadEnds
<1>6. CASE uv.cb.status \notin {"data", "empty"}
  <2>1. hooks' = Append(hooks, Hook("OnDisconnected", c))
    BY <1>6 DEF NotifyRead, Enters
  <2> QED
    BY <1>1, <1>2, <1>3, <1>4, <1>6, <2>1, EnterKeepsServerInv DEF ReadEnds
<1> QED
  BY <1>5, <1>6

\* A step in a virtual function that leaves the handles and what reads as they are.
LEMMA InHookKeepsServerInv ==
    ASSUME ServerInv, ~Idle, Sound(uv'), Kept(uv, uv'), Went(uv, uv'), uv'.cb = uv.cb,
           uv.active \subseteq uv'.active, UNCHANGED <<server, sessions, SessionMap_>>,
           HooksAreRight', ~Idle', Unowned' = Unowned,
           hooks'[1].name = "OnTimer" => hooks[1].name = "OnTimer",
           \A i \in DOMAIN hooks : Ends(i) =>
               \E j \in DOMAIN hooks' : Ends(j)' /\ hooks'[j].session = hooks[i].session
    PROVE  ServerInv'
<1>1. \A g : Open(uv', g) <=> Open(uv, g)
  BY DEF Open, Kept
<1>2. Opened(uv') = Opened(uv) /\ OpenConns(uv') = OpenConns(uv) /\ uv'.failed = uv.failed
  BY <1>1 DEF Opened, OpenConns, Kept
<1>3. uv.running /\ uv'.running /\ uv'.isRunning /\ ~uv'.stopped /\ server # "none"
  BY HookFacts, InHookFacts DEF Went
<1>4. SessionsFollow'
  <2>1. \A c \in SessionMap_ : \/ c \in uv'.active
                               \/ \E j \in DOMAIN hooks' : Ends(j)' /\ hooks'[j].session = c
    BY DEF ServerInv, SessionsFollow, ReadEnds
  <2> QED
    BY <1>2, <2>1 DEF ServerInv, SessionsFollow
<1>5. ServerFollows'
  BY <1>1, <1>2, <1>3 DEF ServerInv, ServerFollows
<1>6. CallbackFollows'
  BY <1>1, <1>3 DEF ServerInv, CallbackFollows
<1> QED
  BY <1>2, <1>4, <1>5, <1>6 DEF ServerInv, NoSessionFails

\* The last virtual function and the callback return, with or without a session less.
LEMMA ReturningKeepsServerInv ==
    ASSUME ServerInv, uv.cb.kind # "none", hooks' = << >>, UNCHANGED server,
           Sound(uv'), Begun(uv'), Went(uv, uv'), uv'.cb = None,
           NoSessionFails',
           \A g \in Servers \cup Timers : Open(uv', g) <=> Open(uv, g),
           Opened(uv') \subseteq Opened(uv),
           SessionMap_' = sessions', sessions' = OpenConns(uv'), sessions' \subseteq uv'.active
    PROVE  ServerInv'
<1>1. Idle' /\ DOMAIN hooks' = {} /\ hooks' \in Seq(Hooks) /\ Unowned' = {}
  <2>1. \A s : s = << >> => DOMAIN s = {} /\ s \in Seq(Hooks)
    OBVIOUS
  <2>2. Idle'
    BY DEF Idle
  <2> QED
    BY <2>1, <2>2 DEF Unowned
<1>2. uv'.cb.kind = "none"
  <2>1. \A r : r = None => r.kind = "none"
    BY DEF None
  <2> QED
    BY <2>1
<1>3. uv.running /\ uv'.running /\ uv'.isRunning /\ ~uv'.stopped /\ server # "none"
  BY HookFacts DEF Went
<1>4. HooksAreRight'
  BY <1>1 DEF HooksAreRight, Ends
<1>5. SessionsFollow'
  BY <1>1 DEF SessionsFollow, OpenConns, Open
<1>6. ServerFollows'
  BY <1>3, ServerAssumption DEF ServerInv, ServerFollows
<1>7. CallbackFollows'
  BY <1>1, <1>2, <1>3 DEF CallbackFollows
<1> QED
  BY <1>4, <1>5, <1>6, <1>7 DEF ServerInv

LEMMA NotifyWriteKeepsServerInv ==
    ASSUME ServerInv, NotifyWrite
    PROVE  ServerInv'
<1> DEFINE c == uv.cb.handle
           U == Fails(uv, "write of a deleted session")
<1>1. uv.cb.kind = "write" /\ Idle /\ UNCHANGED <<server, sessions, SessionMap_>> /\ Sound(uv) /\ Begun(uv)
      /\ SessionMap_ = sessions /\ sessions = OpenConns(uv)
  BY IdleFacts DEF NotifyWrite
<1>2. c \in Conns /\ c \in uv.alive
  BY <1>1 DEF Begun, Sound
<1>3. Using(uv, c) = uv
  BY <1>2, UsingIs
<1>4. CASE c \in sessions
  <2>1. uv' = uv /\ hooks' = Append(hooks, Hook("OnWrite", c))
    BY <1>3, <1>4 DEF NotifyWrite, Enters
  <2>2. Hook("OnWrite", c) \in Hooks
    BY <1>2 DEF Hook, Hooks
  <2> QED
    BY <1>1, <2>1, <2>2, EnterKeepsServerInv DEF ReadEnds
<1>5. CASE c \notin sessions
  <2>1. uv' = [U EXCEPT !.cb = None] /\ hooks' = hooks
    BY <1>3, <1>5 DEF NotifyWrite, Check, Fails, Returning
  <2>2. /\ Sound(U) /\ Went(uv, U) /\ U.state = uv.state /\ U.active = uv.active
        /\ U.failed = uv.failed \cup {"write of a deleted session"}
    BY <1>1, FailSound DEF Faults
  <2> HIDE DEF U
  <2>3. Sound(uv') /\ Begun(uv') /\ Still(U, uv') /\ uv'.cb = None
    BY <2>1, <2>2, ReturnSound
  <2>4. /\ Went(uv, uv') /\ uv'.state = uv.state /\ uv'.active = uv.active
        /\ uv'.failed = uv.failed \cup {"write of a deleted session"}
    BY <2>2, <2>3 DEF Still, Kept, Went
  <2>5. /\ \A g : Open(uv', g) <=> Open(uv, g)
        /\ Opened(uv') = Opened(uv) /\ OpenConns(uv') = OpenConns(uv)
    BY <2>4 DEF Open, Opened, OpenConns
  <2>6. NoSessionFails'
    BY <2>4 DEF ServerInv, NoSessionFails
  <2>7. sessions \subseteq uv'.active
    BY <1>1, <2>4, IdleFacts DEF ReadEnds
  <2>8. hooks' = << >>
    BY <1>1, <2>1 DEF Idle
  <2> QED
    BY <1>1, <2>3, <2>4, <2>5, <2>6, <2>7, <2>8, ReturningKeepsServerInv
<1> QED
  BY <1>4, <1>5

LEMMA OnTimerKeepsServerInv ==
    ASSUME ServerInv, OnTimer
    PROVE  ServerInv'
<1>1. uv.cb.kind = "timer" /\ Idle /\ UNCHANGED <<server, sessions, SessionMap_>> /\ Sound(uv) /\ Begun(uv)
      /\ hooks' = Append(hooks, Hook("OnTimer", "none"))
  BY IdleFacts DEF OnTimer, Enters
<1>2. uv.cb.handle \in uv.alive
  BY <1>1, KindsOfHandles DEF Begun, Queued, Open, Sound
<1>3. uv' = uv
  BY <1>2, UsingIs DEF OnTimer
<1>4. Hook("OnTimer", "none") \in Hooks
  BY DEF Hook, Hooks
<1> QED
  BY <1>1, <1>3, <1>4, EnterKeepsServerInv DEF ReadEnds

LEMMA OnClosedKeepsServerInv ==
    ASSUME ServerInv, OnClosed
    PROVE  ServerInv'
<1>1. uv.cb.kind = "close" /\ OnClose /\ UNCHANGED <<server, sessions, SessionMap_, hooks>>
  BY DEF OnClosed, OnClose
<1>2. Idle /\ hooks = << >>
  BY <1>1 DEF ServerInv, CallbackFollows, Idle
<1>3. Sound(uv) /\ Begun(uv) /\ SessionMap_ = sessions /\ sessions = OpenConns(uv) /\ sessions \subseteq uv.active
  BY <1>1, <1>2, IdleFacts DEF ReadEnds
<1>4. /\ Sound(uv') /\ Begun(uv') /\ Went(uv, uv') /\ uv'.cb = None
      /\ uv'.state = uv.state /\ uv'.failed = uv.failed /\ uv'.active = uv.active
  BY <1>1, <1>3, OnCloseSound
<1>5. /\ \A g : Open(uv', g) <=> Open(uv, g)
      /\ Opened(uv') = Opened(uv) /\ OpenConns(uv') = OpenConns(uv)
  BY <1>4 DEF Open, Opened, OpenConns
<1> QED
  BY <1>1, <1>2, <1>3, <1>4, <1>5, ReturningKeepsServerInv DEF ServerInv, NoSessionFails

-----------------------------------------------------------------------------
\* In a virtual function

LEMMA WritesKeepsServerInv ==
    ASSUME ServerInv, NEW c \in Conns, Writes(c)
    PROVE  ServerInv'
<1>1. ~Idle /\ ~Idle' /\ UNCHANGED <<server, sessions, SessionMap_, hooks>> /\ c \in sessions
  BY DEF Writes, Idle
<1>2. c \in uv.alive /\ Sound(uv)
  BY <1>1, KindsOfHandles DEF ServerInv, SessionsFollow, OpenConns, Open, Queued, Sound
<1>3. uv' = UvWrite(uv, c)
  BY <1>2, UsingIs DEF Writes
<1>4. Sound(uv') /\ Kept(uv, uv') /\ Went(uv, uv') /\ uv'.cb = uv.cb /\ uv'.active = uv.active
  BY <1>2, <1>3, WriteSound
<1>5. HooksAreRight' /\ Unowned' = Unowned /\ \A i : Ends(i)' <=> Ends(i)
  BY <1>1 DEF ServerInv, HooksAreRight, Unowned, Ends, Idle
<1> QED
  BY <1>1, <1>4, <1>5, InHookKeepsServerInv

LEMMA DisconnectsKeepsServerInv ==
    ASSUME ServerInv, NEW c \in Conns, Disconnects(c)
    PROVE  ServerInv'
<1> DEFINE h == Hook("OnDisconnected", c)
<1>0. PICK n : n = Len(hooks)
  OBVIOUS
<1>1. ~Idle /\ UNCHANGED <<uv, server, sessions, SessionMap_>> /\ c \in SessionMap_
      /\ hooks' = Append(hooks, h) /\ hooks \in Seq(Hooks)
      /\ \A i \in DOMAIN hooks : Ends(i) => hooks[i].session # c
  BY DEF Disconnects, Enters, Ends, ServerInv, HooksAreRight
<1>2. h \in Hooks /\ h.name = "OnDisconnected" /\ h.session = c
  BY DEF Hook, Hooks
<1> HIDE DEF h
<1>3. /\ hooks' \in Seq(Hooks) /\ DOMAIN hooks' = 1..(n + 1) /\ hooks' # << >> /\ hooks'[n + 1] = h
      /\ \A i \in 1..n : hooks'[i] = hooks[i]
      /\ n \in Nat /\ DOMAIN hooks = 1..n
  BY <1>0, <1>1, <1>2, AppendIs
<1>4. n # 0
  BY <1>0, <1>1 DEF Idle
<1>5. ~Idle' /\ hooks'[1] = hooks[1]
  BY <1>3, <1>4 DEF Idle
<1>6. Ends(n + 1)' /\ \A i \in 1..n : (Ends(i)' <=> Ends(i)) /\ hooks'[i].session = hooks[i].session
  BY <1>2, <1>3 DEF Ends
<1>7. HooksAreRight'
  <2>1. \A i \in DOMAIN hooks' : i = n + 1 \/ i \in DOMAIN hooks
    BY <1>3
  <2>2. hooks'[n + 1].session = c
    BY <1>2, <1>3
  <2>3. \A i \in DOMAIN hooks' : i # 1 => Ends(i)'
    BY <1>3, <1>6, <2>1 DEF ServerInv, HooksAreRight
  <2>4. \A i \in DOMAIN hooks' : Ends(i)' => hooks'[i].session \in SessionMap_'
    BY <1>1, <1>3, <1>6, <2>1, <2>2 DEF ServerInv, HooksAreRight
  <2>5. ASSUME NEW i \in DOMAIN hooks', NEW j \in DOMAIN hooks', Ends(i)', Ends(j)', i # j
        PROVE  hooks'[i].session # hooks'[j].session
    <3>1. CASE i = n + 1
      BY <1>1, <1>3, <1>6, <2>1, <2>2, <2>5, <3>1
    <3>2. CASE j = n + 1
      BY <1>1, <1>3, <1>6, <2>1, <2>2, <2>5, <3>2
    <3>3. CASE i \in DOMAIN hooks /\ j \in DOMAIN hooks
      BY <1>3, <1>6, <2>5, <3>3 DEF ServerInv, HooksAreRight
    <3> QED
      BY <2>1, <3>1, <3>2, <3>3
  <2> QED
    BY <1>3, <2>3, <2>4, <2>5 DEF HooksAreRight
<1>8. Unowned' = Unowned
  BY <1>1, <1>5 DEF Unowned
<1>9. \A i \in DOMAIN hooks : Ends(i) =>
          \E j \in DOMAIN hooks' : Ends(j)' /\ hooks'[j].session = hooks[i].session
  BY <1>3, <1>6
<1>10. Sound(uv') /\ Kept(uv, uv') /\ Went(uv, uv') /\ uv'.cb = uv.cb /\ uv'.active = uv.active
  BY <1>1 DEF ServerInv, Kept, Went
<1> QED
  BY <1>1, <1>5, <1>7, <1>8, <1>9, <1>10, InHookKeepsServerInv

\* ~SessionBase closes the connection of an open session, once.
LEMMA EndSessionSound ==
    ASSUME NEW U, Sound(U), U.isRunning, NEW c \in Conns, Open(U, c)
    PROVE  LET V == EndSession(U, c)
           IN  /\ Sound(V) /\ Went(U, V) /\ V.cb = U.cb /\ V.failed = U.failed
               /\ V.active = U.active \ {c}
               /\ \A h \in Handles : V.state[h] = IF h = c THEN "closing" ELSE U.state[h]
<1> DEFINE W == UvReadStop(U, c)
           V == DelayDelete(W, c)
<1>1. c \in U.alive /\ c \in Handles
  BY KindsOfHandles DEF Sound, Queued, Open
<1>2. Using(U, c) = U
  BY <1>1, UsingIs
<1>3. Sound(W) /\ Kept(U, W) /\ Went(U, W) /\ W.cb = U.cb /\ W.active = U.active \ {c}
  BY ReadStopSound
<1> HIDE DEF W
<1>4. W.isRunning /\ c \in W.alive /\ Open(W, c) /\ {c} \cap Opened(W) = {c}
  BY <1>1, <1>3 DEF Kept, Went, Open, Opened
<1>5. ClosesThem(W, V, {c}) /\ V.failed = W.failed
  BY <1>3, <1>4, DelayDeleteSound
<1>6. EndSession(U, c) = V
  BY <1>2 DEF EndSession, W
<1> HIDE DEF V
<1>7. \A h \in Handles : V.state[h] = IF h = c THEN "closing" ELSE U.state[h]
  BY <1>3, <1>5 DEF ClosesThem, Kept
<1>8. Went(U, V) /\ V.cb = U.cb /\ V.failed = U.failed /\ V.active = U.active \ {c} /\ Sound(V)
  BY <1>3, <1>5 DEF ClosesThem, Kept, Went
<1> QED
  BY <1>6, <1>7, <1>8

\* A virtual function that ended a session returns and the session is destroyed.
LEMMA EndsSessionKeepsServerInv ==
    ASSUME ServerInv, ~Idle, NEW c, c = Top.session,
           Top.name = "OnDelSession" \/ (Top.name = "OnError" /\ c # "none"),
           uv' = Leaving(EndSession(uv, c)), UNCHANGED server,
           sessions' = sessions \ {c}, SessionMap_' = SessionMap_ \ {c}, hooks' = Below
    PROVE  ServerInv'
<1> DEFINE U == EndSession(uv, c)
<1>1. /\ Len(hooks) \in Nat \ {0} /\ DOMAIN hooks = 1..Len(hooks) /\ Len(hooks) \in DOMAIN hooks
      /\ Below \in Seq(Hooks) /\ DOMAIN Below = 1..(Len(hooks) - 1)
      /\ Below = << >> <=> Len(hooks) = 1
      /\ \A i \in DOMAIN Below : Below[i] = hooks[i] /\ i \in DOMAIN hooks /\ i # Len(hooks)
  BY BelowIs DEF ServerInv, HooksAreRight
<1>2. c \in sessions /\ c \in Conns /\ Open(uv, c) /\ c \in Handles
  BY TopIsOpen, KindsOfHandles
<1>3. uv.cb.kind # "none" /\ uv.running /\ uv.isRunning /\ ~uv.stopped /\ server # "none" /\ Sound(uv)
  BY HookFacts, InHookFacts DEF ServerInv
<1>4. /\ Sound(U) /\ Went(uv, U) /\ U.cb = uv.cb /\ U.failed = uv.failed /\ U.active = uv.active \ {c}
      /\ \A h \in Handles : U.state[h] = IF h = c THEN "closing" ELSE uv.state[h]
  BY <1>2, <1>3, EndSessionSound
<1>5. uv' = IF Below = << >> THEN [U EXCEPT !.cb = None] ELSE U
  BY DEF Leaving, Returning
<1> HIDE DEF U
<1>6. CASE Below = << >>
  <2>1. uv' = [U EXCEPT !.cb = None] /\ hooks' = << >> /\ DOMAIN hooks = {1} /\ Top = hooks[1]
    BY <1>1, <1>5, <1>6 DEF Top
  <2>2. Sound(uv') /\ Begun(uv') /\ Still(U, uv') /\ uv'.cb = None
    BY <1>4, <2>1, ReturnSound
  <2>3. /\ Went(uv, uv') /\ uv'.failed = uv.failed /\ uv'.active = uv.active \ {c}
        /\ \A h \in Handles : uv'.state[h] = IF h = c THEN "closing" ELSE uv.state[h]
    BY <1>4, <2>2 DEF Still, Kept, Went
  <2>4. \A h \in Handles : Open(uv', h) <=> h # c /\ Open(uv, h)
    BY <2>3 DEF Open
  <2>5. OpenConns(uv') = OpenConns(uv) \ {c} /\ Opened(uv') \subseteq Opened(uv)
    BY <2>4, KindsOfHandles DEF OpenConns, Opened
  <2>6. \A g \in Servers \cup Timers : Open(uv', g) <=> Open(uv, g)
    BY <1>2, <2>4, KindsOfHandles, ServerAssumption
  <2>7. Unowned \subseteq {c} /\ \A i \in DOMAIN hooks : hooks[i].session = c
    <3>1. \A d : hooks[1] = Hook("OnError", d) => d = c
      BY <2>1, HookIs
    <3> QED
      BY <2>1, <3>1 DEF Unowned
  <2>8. SessionMap_' = sessions'
    BY <2>7 DEF ServerInv, SessionsFollow
  <2>9. sessions' \subseteq uv'.active
    BY <2>3, <2>7, <2>8 DEF ServerInv, SessionsFollow, ReadEnds
  <2>10. sessions' = OpenConns(uv')
    BY <2>5 DEF ServerInv, SessionsFollow
  <2>11. NoSessionFails'
    BY <2>3 DEF ServerInv, NoSessionFails
  <2> QED
    BY <1>3, <2>1, <2>2, <2>3, <2>5, <2>6, <2>8, <2>9, <2>10, <2>11, ReturningKeepsServerInv
<1>7. CASE Below # << >>
  <2>1. /\ uv' = U /\ hooks' = Below /\ hooks' \in Seq(Hooks) /\ ~Idle' /\ 1 \in DOMAIN hooks'
        /\ hooks'[1] = hooks[1] /\ Ends(Len(hooks))
    <3>1. Top.name = "OnDelSession"
      BY <1>7, OthersAreAlone DEF ServerInv
    <3> QED
      BY <1>1, <1>5, <1>7, <3>1 DEF Idle, Ends, Top
  <2>2. \A i \in DOMAIN hooks' : /\ i \in DOMAIN hooks /\ hooks'[i] = hooks[i] /\ i # Len(hooks)
                                 /\ Ends(i)' <=> Ends(i)
    BY <1>1, <2>1 DEF Ends
  <2>3. c \in SessionMap_ /\ \A i \in DOMAIN hooks' : Ends(i) => hooks[i].session # c
    BY <1>1, <2>1, <2>2 DEF ServerInv, HooksAreRight, Top
  <2>4. HooksAreRight'
    <3>1. \A i \in DOMAIN hooks' : i # 1 => Ends(i)'
      BY <2>2 DEF ServerInv, HooksAreRight
    <3>2. \A i \in DOMAIN hooks' : Ends(i)' => hooks'[i].session \in SessionMap_'
      BY <2>2, <2>3 DEF ServerInv, HooksAreRight
    <3>3. \A i, j \in DOMAIN hooks' : Ends(i)' /\ Ends(j)' /\ i # j => hooks'[i].session # hooks'[j].session
      BY <2>2 DEF ServerInv, HooksAreRight
    <3> QED
      BY <2>1, <3>1, <3>2, <3>3 DEF HooksAreRight
  <2>5. \A h \in Handles : Open(uv', h) <=> h # c /\ Open(uv, h)
    BY <1>4, <2>1 DEF Open
  <2>6. OpenConns(uv') = OpenConns(uv) \ {c} /\ Opened(uv') \subseteq Opened(uv)
    BY <2>5, KindsOfHandles DEF OpenConns, Opened
  <2>7. \A g \in Servers \cup Timers : Open(uv', g) <=> Open(uv, g)
    BY <1>2, <2>5, KindsOfHandles, ServerAssumption
  <2>8. Unowned' = Unowned
    BY <2>1 DEF Unowned
  <2>9. SessionsFollow'
    <3>1. sessions' = OpenConns(uv')
      BY <2>6 DEF ServerInv, SessionsFollow
    <3>2. SessionMap_' = sessions' \ Unowned' /\ Unowned' \subseteq sessions'
      BY <2>3, <2>8 DEF ServerInv, SessionsFollow
    <3>3. ASSUME NEW d \in SessionMap_', d \notin uv'.active
          PROVE  \E i \in DOMAIN hooks' : Ends(i)' /\ hooks'[i].session = d
      <4>1. d \in SessionMap_ /\ d # c /\ d \notin uv.active
        BY <1>4, <2>1, <3>3
      <4>2. PICK i \in DOMAIN hooks : Ends(i) /\ hooks[i].session = d
        BY <4>1 DEF ServerInv, SessionsFollow, ReadEnds
      <4>3. i # Len(hooks)
        BY <4>1, <4>2 DEF Top
      <4>4. i \in DOMAIN hooks'
        BY <1>1, <2>1, <4>2, <4>3
      <4> QED
        BY <2>2, <4>2, <4>4
    <3> QED
      BY <3>1, <3>2, <3>3 DEF SessionsFollow
  <2>10. uv'.running /\ uv'.isRunning /\ ~uv'.stopped /\ uv'.cb = uv.cb /\ uv'.failed = uv.failed
    BY <1>3, <1>4, <2>1 DEF Went
  <2>11. ServerFollows'
    BY <1>3, <2>6, <2>7, <2>10, ServerAssumption DEF ServerInv, ServerFollows
  <2>12. CallbackFollows'
    BY <2>1, <2>7, <2>10 DEF ServerInv, CallbackFollows
  <2> QED
    BY <1>4, <2>1, <2>4, <2>9, <2>10, <2>11, <2>12 DEF ServerInv, NoSessionFails
<1> QED
  BY <1>6, <1>7

\* Disconnect goes on to DelSession.
LEMMA DisconnectedKeepsServerInv ==
    ASSUME ServerInv, ~Idle, Top.name = "OnDisconnected",
           hooks' = Append(Below, Hook("OnDelSession", Top.session)),
           UNCHANGED <<uv, server, sessions, SessionMap_>>
    PROVE  ServerInv'
<1> DEFINE h == Hook("OnDelSession", Top.session)
<1>0. PICK n : n = Len(hooks)
  OBVIOUS
<1>1. /\ n \in Nat \ {0} /\ DOMAIN hooks = 1..n
      /\ Below \in Seq(Hooks) /\ DOMAIN Below = 1..(n - 1)
      /\ \A i \in DOMAIN Below : Below[i] = hooks[i]
      /\ Top \in Hooks /\ Top = hooks[n]
  BY <1>0, BelowIs DEF ServerInv, HooksAreRight, Top
<1>2. h \in Hooks /\ h.name = "OnDelSession" /\ h.session = Top.session
  BY <1>1 DEF Hook, Hooks
<1> HIDE DEF h
<1>3. /\ hooks' \in Seq(Hooks) /\ DOMAIN hooks' = 1..n /\ hooks' # << >> /\ hooks'[n] = h
      /\ \A i \in 1..(n - 1) : hooks'[i] = hooks[i]
  <2>1. Len(Below) = n - 1
    BY <1>1
  <2>2. hooks' = Append(Below, h)
    BY DEF h
  <2>3. /\ hooks' \in Seq(Hooks) /\ DOMAIN hooks' = 1..(Len(Below) + 1) /\ hooks' # << >>
        /\ hooks'[Len(Below) + 1] = h /\ \A i \in 1..Len(Below) : hooks'[i] = Below[i]
    BY <1>1, <1>2, <2>2, AppendIs
  <2> QED
    BY <1>1, <2>1, <2>3
<1>4. \A i \in 1..n : (Ends(i)' <=> Ends(i)) /\ hooks'[i].session = hooks[i].session
  <2>1. \A i \in 1..n : i = n \/ i \in 1..(n - 1)
    BY <1>1
  <2> QED
    BY <1>1, <1>2, <1>3, <2>1 DEF Ends
<1>5. ~Idle'
  BY <1>3 DEF Idle
<1>6. HooksAreRight'
  BY <1>1, <1>3, <1>4 DEF ServerInv, HooksAreRight
<1>7. 1 \in 1..n /\ (hooks'[1] = hooks[1] \/ (hooks'[1].name = "OnDelSession" /\ hooks[1].name = "OnDisconnected"))
  BY <1>1, <1>2, <1>3
<1>8. Unowned' = Unowned
  BY <1>5, <1>7, HookIs DEF Unowned
<1>9. hooks'[1].name = "OnTimer" => hooks[1].name = "OnTimer"
  BY <1>7
<1>10. Sound(uv') /\ Kept(uv, uv') /\ Went(uv, uv') /\ uv'.cb = uv.cb /\ uv'.active = uv.active
  BY DEF ServerInv, Kept, Went
<1> QED
  BY <1>1, <1>3, <1>4, <1>5, <1>6, <1>8, <1>9, <1>10, InHookKeepsServerInv

LEMMA HookReturnsKeepsServerInv ==
    ASSUME ServerInv, HookReturns
    PROVE  ServerInv'
<1>1. ~Idle /\ UNCHANGED server
  BY DEF HookReturns
<1>2. CASE /\ Top.name = "OnDisconnected"
           /\ hooks' = Append(Below, Hook("OnDelSession", Top.session))
           /\ UNCHANGED <<uv, sessions, SessionMap_>>
  BY <1>1, <1>2, DisconnectedKeepsServerInv
<1>3. CASE /\ Top.name = "OnDelSession" \/ (Top.name = "OnError" /\ Top.session # "none")
           /\ uv' = Leaving(EndSession(uv, Top.session))
           /\ sessions' = sessions \ {Top.session}
           /\ SessionMap_' = SessionMap_ \ {Top.session}
           /\ hooks' = Below
  BY <1>1, <1>3, EndsSessionKeepsServerInv
<1>4. CASE /\ Top.name \notin {"OnDisconnected", "OnDelSession"}
           /\ ~(Top.name = "OnError" /\ Top.session # "none")
           /\ uv' = Leaving(uv)
           /\ hooks' = Below
           /\ UNCHANGED <<sessions, SessionMap_>>
  <2>1. Below = << >> /\ DOMAIN hooks = {1} /\ Top = hooks[1] /\ ~Ends(1)
    BY <1>1, <1>4, OthersAreAlone DEF ServerInv
  <2>2. uv' = [uv EXCEPT !.cb = None] /\ hooks' = << >>
    BY <1>4, <2>1 DEF Leaving, Returning
  <2>3. Sound(uv') /\ Begun(uv') /\ Still(uv, uv') /\ uv'.cb = None
    BY <2>2, ReturnSound DEF ServerInv
  <2>4. Went(uv, uv') /\ uv'.state = uv.state /\ uv'.failed = uv.failed /\ uv'.active = uv.active
    BY <2>3 DEF Still, Kept
  <2>5. /\ \A g : Open(uv', g) <=> Open(uv, g)
        /\ Opened(uv') = Opened(uv) /\ OpenConns(uv') = OpenConns(uv)
    BY <2>4 DEF Open, Opened, OpenConns
  <2>6. Unowned = {}
    <3>1. \A d \in Conns : hooks[1] # Hook("OnError", d)
      BY <1>4, <2>1, HookIs, ServerAssumption
    <3> QED
      BY <3>1 DEF Unowned
  <2>7. SessionMap_ = sessions /\ sessions = OpenConns(uv) /\ sessions \subseteq uv.active
    BY <1>1, <2>1, <2>6 DEF ServerInv, SessionsFollow, ReadEnds
  <2>8. NoSessionFails'
    BY <2>4 DEF ServerInv, NoSessionFails
  <2> QED
    BY <1>1, <1>4, <2>2, <2>3, <2>4, <2>5, <2>7, <2>8, InHookFacts, ReturningKeepsServerInv
<1> QED
  BY <1>2, <1>3, <1>4 DEF HookReturns

\* The owner destroys the server while only the function of its timer runs, which no
\* session is being ended below.
LEMMA DestroysServerKeepsServerInv ==
    ASSUME ServerInv, DestroysServer
    PROVE  ServerInv'
<1> DEFINE t == uv.cb.handle
           S == SessionMap_
           V1 == DelayDelete(uv, ServerPtr_)
           W == [V1 EXCEPT !.active = @ \ S]
           V2 == DelayDeleteEach(W, S)
           V3 == DelayDelete(V2, t)
<1>1. /\ hooks = << Hook("OnTimer", "none") >> /\ server = "alive" /\ server' = "destroyed"
      /\ sessions' = sessions \ SessionMap_ /\ SessionMap_' = {} /\ hooks' = hooks
      /\ uv' = DelayDelete(EndServer(uv), t)
  BY DEF DestroysServer
<1>2. ~Idle /\ ~Idle' /\ DOMAIN hooks = {1} /\ hooks[1] = Hook("OnTimer", "none")
      /\ hooks[1].name = "OnTimer"
  BY <1>1, HookIs DEF Idle
<1>3. Unowned = {} /\ Unowned' = {}
  <2>1. \A d : Hook("OnTimer", "none") # Hook("OnError", d)
    BY HookIs
  <2> QED
    BY <1>1, <1>2, <2>1 DEF Unowned
<1>4. S = OpenConns(uv) /\ sessions = S /\ S \subseteq Conns
  BY <1>3 DEF ServerInv, SessionsFollow, OpenConns
<1>5. /\ t \in Timers /\ Open(uv, t) /\ Open(uv, ServerPtr_)
      /\ \A u \in Timers : Open(uv, u) => u = t
  BY <1>1, <1>2 DEF ServerInv, CallbackFollows, ServerFollows
<1>6. Sound(uv) /\ uv.running /\ uv.isRunning /\ ~uv.stopped
  BY <1>2, HookFacts, InHookFacts DEF ServerInv
<1>7. /\ t \in Handles /\ ServerPtr_ \in Handles /\ Servers = {ServerPtr_}
      /\ t # ServerPtr_ /\ t \notin S /\ ServerPtr_ \notin S
  BY <1>4, <1>5, KindsOfHandles, ServerAssumption
<1> HIDE DEF t, S
<1>8. ClosesThem(uv, V1, {ServerPtr_}) /\ V1.failed = uv.failed
  <2>1. ServerPtr_ \in uv.alive /\ {ServerPtr_} \cap Opened(uv) = {ServerPtr_}
    BY <1>5, <1>6, <1>7 DEF Sound, Queued, Open, Opened
  <2> QED
    BY <1>5, <1>6, <2>1, DelayDeleteSound
<1> HIDE DEF V1
<1>9. /\ Sound(V1) /\ V1.isRunning /\ V1.running /\ ~V1.stopped /\ V1.cb = uv.cb /\ V1.alive = uv.alive
      /\ \A h \in Handles : Open(V1, h) <=> h # ServerPtr_ /\ Open(uv, h)
  BY <1>6, <1>8 DEF ClosesThem, Went, Open
<1>10. \A c \in S : c \in Handles /\ Open(V1, c)
  BY <1>4, <1>7, <1>9, KindsOfHandles DEF OpenConns
<1>11. S \subseteq V1.alive
  BY <1>9, <1>10 DEF Sound, Queued, Open
<1>12. Sound(W) /\ Kept(V1, W) /\ Went(V1, W) /\ W.cb = V1.cb
  <2>1. V1 \in UvppType
    BY <1>9 DEF Sound
  <2>2. /\ W \in UvppType /\ Kept(V1, W) /\ Went(V1, W) /\ W.cb = V1.cb
        /\ W.connected = V1.connected /\ W.readable = V1.readable /\ W.writable = V1.writable
        /\ W.writes = V1.writes /\ W.shutting = V1.shutting /\ W.active = V1.active \ S
    BY <2>1 DEF UvppType, Kept, Went
  <2> HIDE DEF W
  <2>3. /\ W.active \subseteq Opened(V1) /\ W.active \cap Conns \subseteq W.connected
        /\ W.readable \cup W.writable \subseteq Opened(V1) \cap W.connected
        /\ \A d \in Conns : ~Answered(W, d) => d \in Queued(V1) /\ d \in W.connected
    BY <1>9, <2>2 DEF Sound, Answered
  <2> QED
    BY <1>9, <2>2, <2>3, KeptSound
<1>13. EndServer(uv) = V2
  BY <1>11 DEF EndServer, EndSessions, Check, V1, W, V2, S
<1> HIDE DEF W
<1>14. S \in SUBSET W.alive /\ W.isRunning /\ S \cap Opened(W) = S
       /\ \A h \in Handles : Open(W, h) <=> Open(V1, h)
  BY <1>9, <1>10, <1>11, <1>12 DEF Kept, Went, Open, Opened
<1>15. ClosesThem(W, V2, S) /\ V2.failed = W.failed
  BY <1>12, <1>14, DelayDeleteEachSound
<1> HIDE DEF V2
<1>16. /\ Sound(V2) /\ V2.isRunning /\ V2.cb = uv.cb /\ V2.running /\ ~V2.stopped /\ V2.failed = uv.failed
       /\ \A h \in Handles : Open(V2, h) <=> h \notin S /\ Open(V1, h)
  BY <1>8, <1>9, <1>12, <1>14, <1>15 DEF ClosesThem, Kept, Went, Open
<1>17. Open(V2, t)
  BY <1>5, <1>7, <1>9, <1>16
<1>18. t \in V2.alive /\ {t} \cap Opened(V2) = {t}
  BY <1>7, <1>16, <1>17 DEF Sound, Queued, Open, Opened
<1>19. ClosesThem(V2, V3, {t}) /\ V3.failed = V2.failed
  BY <1>16, <1>17, <1>18, DelayDeleteSound
<1>20. uv' = V3
  BY <1>1, <1>13 DEF V3
<1> HIDE DEF V3
<1>21. /\ Sound(uv') /\ uv'.isRunning /\ uv'.running /\ ~uv'.stopped /\ uv'.cb = uv.cb /\ uv'.failed = uv.failed
       /\ \A h \in Handles : Open(uv', h) <=> h # t /\ Open(V2, h)
  BY <1>16, <1>19, <1>20 DEF ClosesThem, Went, Open
<1>22. \A h \in Handles : ~Open(uv', h)
  <2>1. ASSUME NEW h \in Handles, Open(uv', h) PROVE FALSE
    <3>1. h # t /\ h \notin S /\ h # ServerPtr_ /\ Open(uv, h)
      BY <1>9, <1>16, <1>21, <2>1
    <3>2. h \notin Timers /\ h \notin Conns /\ h \notin Servers
      BY <1>4, <1>5, <1>7, <3>1 DEF OpenConns
    <3> QED
      BY <3>2 DEF Handles
  <2> QED
    BY <2>1
<1>23. Opened(uv') = {} /\ OpenConns(uv') = {}
  BY <1>22, KindsOfHandles DEF Opened, OpenConns
<1>24. HooksAreRight'
  BY <1>1, <1>2 DEF ServerInv, HooksAreRight, Ends
<1>25. SessionsFollow'
  BY <1>1, <1>3, <1>4, <1>23 DEF SessionsFollow, S
<1>26. ServerFollows'
  BY <1>1, <1>21, <1>23 DEF ServerFollows
<1>27. CallbackFollows'
  BY <1>1, <1>2, <1>5, <1>21 DEF ServerInv, CallbackFollows, t
<1> QED
  BY <1>21, <1>24, <1>25, <1>26, <1>27 DEF ServerInv, NoSessionFails

-----------------------------------------------------------------------------
\* Before and between runs of the loop

LEMMA InitFacts ==
    /\ Sound(UvppInit) /\ Begun(UvppInit)
    /\ UvppInit.state = [h \in Handles |-> "unborn"] /\ UvppInit.cb = None /\ UvppInit.cb.kind = "none"
    /\ UvppInit.failed = {} /\ ~UvppInit.running /\ ~UvppInit.stopped
    /\ \A h \in Handles : ~Open(UvppInit, h)
<1>1. /\ UvppInit.state = [h \in Handles |-> "unborn"] /\ UvppInit.cb = None
      /\ UvppInit.failed = {} /\ ~UvppInit.running /\ ~UvppInit.stopped
  BY InitIs DEF StreamsFields, UvppFields, Added, UvInit
<1>2. \A h \in Handles : ~Open(UvppInit, h)
  BY <1>1 DEF Open
<1>3. UvppInit.cb.kind = "none"
  BY <1>1 DEF None
<1> QED
  BY <1>1, <1>2, <1>3, InitSound

\* No virtual function runs, and no session exists.
LEMMA QuietKeepsServerInv ==
    ASSUME hooks' = << >>, Sound(uv'), uv'.cb = None, ~uv'.running, ~uv'.stopped, uv'.failed = {},
           OpenConns(uv') = {}, sessions' = {}, SessionMap_' = {}, ServerFollows'
    PROVE  ServerInv'
<1>1. Idle' /\ DOMAIN hooks' = {} /\ hooks' \in Seq(Hooks) /\ Unowned' = {}
  <2>1. \A s : s = << >> => DOMAIN s = {} /\ s \in Seq(Hooks)
    OBVIOUS
  <2>2. Idle'
    BY DEF Idle
  <2> QED
    BY <2>1, <2>2 DEF Unowned
<1>2. uv'.cb.kind = "none"
  <2>1. \A r : r = None => r.kind = "none"
    BY DEF None
  <2> QED
    BY <2>1
<1>3. HooksAreRight'
  BY <1>1 DEF HooksAreRight, Ends
<1>4. SessionsFollow'
  BY <1>1 DEF SessionsFollow, OpenConns, Open
<1>5. CallbackFollows'
  BY <1>1, <1>2 DEF CallbackFollows, Begun
<1>6. NoSessionFails'
  BY DEF NoSessionFails
<1> QED
  BY <1>3, <1>4, <1>5, <1>6 DEF ServerInv

LEMMA ConstructKeepsServerInv ==
    ASSUME ServerInv, Construct
    PROVE  ServerInv'
<1>1. /\ uv = UvppInit /\ Idle /\ server' = "alive" /\ UNCHANGED <<sessions, SessionMap_, hooks>>
      /\ hooks' = << >>
  BY DEF Construct, ServerInv, ServerFollows, Idle
<1>2. /\ Sound(uv) /\ uv.cb = None /\ uv.state = [h \in Handles |-> "unborn"]
      /\ uv.failed = {} /\ ~uv.running /\ ~uv.stopped /\ \A h \in Handles : ~Open(uv, h)
  BY <1>1, InitFacts
<1>3. sessions = {} /\ SessionMap_ = {}
  BY <1>1, <1>2, IdleFacts, KindsOfHandles DEF OpenConns
<1>4. PICK t \in Timers : uv' \in {New(UvTimerStart(New(uv, t), t), ServerPtr_),
                                   UvListen(New(UvTimerStart(New(uv, t), t), ServerPtr_), ServerPtr_)}
  BY DEF Construct
<1> DEFINE U1 == New(uv, t)
           U2 == UvTimerStart(U1, t)
           U3 == New(U2, ServerPtr_)
<1>5. /\ t \in Handles /\ t \notin Conns /\ ServerPtr_ \in Handles /\ ServerPtr_ \in Servers
      /\ ServerPtr_ \notin Conns \cup Timers
  BY KindsOfHandles, ServerAssumption
<1>6. /\ Sound(U1) /\ Went(uv, U1) /\ U1.cb = uv.cb /\ U1.state = [uv.state EXCEPT ![t] = "open"]
      /\ U1.failed = uv.failed
  BY <1>2, <1>5, NewSound
<1> HIDE DEF U1
<1>7. U1.state[t] = "open" /\ U1.state \in [Handles -> States]
      /\ \A h \in Handles : h # t => U1.state[h] = "unborn"
  BY <1>2, <1>5, <1>6 DEF States
<1>8. /\ Sound(U2) /\ Kept(U1, U2) /\ Went(U1, U2) /\ U2.cb = U1.cb
  <2>1. Open(U1, t) /\ t \in Servers \cup Timers
    BY <1>7 DEF Open
  <2> QED
    BY <1>5, <1>6, <2>1, StartSound
<1> HIDE DEF U2
<1>9. U2.state[ServerPtr_] = "unborn" /\ U2.state = U1.state /\ U2.failed = U1.failed
  BY <1>5, <1>7, <1>8 DEF Kept
<1>10. /\ Sound(U3) /\ Went(U2, U3) /\ U3.cb = U2.cb /\ U3.state = [U2.state EXCEPT ![ServerPtr_] = "open"]
       /\ U3.failed = U2.failed /\ U3.state[ServerPtr_] = "open"
  BY <1>5, <1>8, <1>9, NewSound
<1>11. uv' \in {U3, UvListen(U3, ServerPtr_)}
  BY <1>4 DEF U1, U2, U3
<1> HIDE DEF U3
<1>12. Sound(uv') /\ Kept(U3, uv') /\ Went(U3, uv') /\ uv'.cb = U3.cb
  <2>1. CASE uv' = U3
    BY <1>10, <2>1 DEF Kept, Went
  <2>2. CASE uv' = UvListen(U3, ServerPtr_)
    <3>1. uv' = UvTimerStart(U3, ServerPtr_)
      BY <2>2, ListenIs
    <3>2. Open(U3, ServerPtr_) /\ ServerPtr_ \in Servers \cup Timers
      BY <1>5, <1>10 DEF Open
    <3> QED
      BY <1>5, <1>10, <3>1, <3>2, StartSound
  <2> QED
    BY <1>11, <2>1, <2>2
<1>13. uv'.cb = None /\ uv'.failed = {} /\ ~uv'.running /\ ~uv'.stopped
  BY <1>2, <1>6, <1>8, <1>9, <1>10, <1>12 DEF Kept, Went
<1>14. \A h \in Handles : Open(uv', h) <=> h \in {t, ServerPtr_}
  <2>1. uv'.state = [U1.state EXCEPT ![ServerPtr_] = "open"]
    BY <1>9, <1>10, <1>12 DEF Kept
  <2> QED
    BY <1>5, <1>7, <2>1 DEF Open
<1>15. OpenConns(uv') = {}
  BY <1>5, <1>14, KindsOfHandles DEF OpenConns
<1>16. ServerFollows'
  BY <1>1, <1>5, <1>14, KindsOfHandles DEF ServerFollows
<1> QED
  BY <1>1, <1>3, <1>12, <1>13, <1>15, <1>16, QuietKeepsServerInv

LEMMA RunLoopKeepsServerInv ==
    ASSUME ServerInv, RunLoop
    PROVE  ServerInv'
<1>1. server # "none" /\ Run /\ ~uv.running /\ UNCHANGED <<server, sessions, SessionMap_, hooks>>
  BY DEF RunLoop, Run
<1>2. uv.cb = None /\ uv.cb.kind = "none" /\ ~uv.stopped
  <2>1. uv.cb = None /\ ~uv.stopped
    BY <1>1 DEF ServerInv, CallbackFollows
  <2> QED
    BY <2>1 DEF None
<1>3. Idle /\ Idle'
  BY <1>1, <1>2, InHookFacts DEF Idle
<1>4. Sound(uv) /\ Begun(uv)
  BY <1>3, IdleFacts
<1>5. /\ Sound(uv') /\ Begun(uv') /\ Kept(uv, uv') /\ uv'.cb = uv.cb /\ uv'.active = uv.active
      /\ uv'.shutting = uv.shutting /\ uv'.writes = uv.writes
      /\ uv'.isRunning /\ ~uv'.stopped
  BY <1>1, <1>2, <1>4, RunSound
<1>6. /\ \A g : Open(uv', g) <=> Open(uv, g)
      /\ Opened(uv') = Opened(uv) /\ OpenConns(uv') = OpenConns(uv) /\ uv'.failed = uv.failed
      /\ Queued(uv') = Queued(uv)
  BY <1>5 DEF Open, Opened, OpenConns, Queued, Kept
<1>7. HooksAreRight'
  BY <1>1 DEF ServerInv, HooksAreRight, Ends
<1>8. Unowned' = Unowned
  BY <1>1 DEF Unowned, Idle
<1>9. SessionsFollow'
  <2>1. \A c \in SessionMap_ : \/ c \in uv'.active
                               \/ \E i \in DOMAIN hooks' : Ends(i)' /\ hooks'[i].session = c
    BY <1>1, <1>2, <1>5 DEF ServerInv, SessionsFollow, ReadEnds, Ends
  <2> QED
    BY <1>1, <1>6, <1>8, <2>1 DEF ServerInv, SessionsFollow
<1>10. ServerFollows'
  <2>1. LoopCloses(uv) => LoopCloses(uv')
    BY <1>5, <1>6 DEF LoopCloses, Answered
  <2> QED
    BY <1>1, <1>6, <2>1 DEF ServerInv, ServerFollows
<1>11. CallbackFollows'
  BY <1>2, <1>3, <1>5 DEF CallbackFollows
<1> QED
  BY <1>5, <1>6, <1>7, <1>9, <1>10, <1>11 DEF ServerInv, NoSessionFails

LEMMA InitServerInv == Init => ServerInv
<1> SUFFICES ASSUME Init PROVE ServerInv
  OBVIOUS
<1>1. uv = UvppInit /\ server = "none" /\ sessions = {} /\ SessionMap_ = {} /\ hooks = << >> /\ Idle
  BY DEF Init, Idle
<1>2. DOMAIN hooks = {} /\ hooks \in Seq(Hooks) /\ Unowned = {}
  BY <1>1 DEF Unowned
<1>3. HooksAreRight
  BY <1>2 DEF HooksAreRight
<1>4. OpenConns(uv) = {}
  BY <1>1, InitFacts, KindsOfHandles DEF OpenConns
<1>5. SessionsFollow
  BY <1>1, <1>2, <1>4 DEF SessionsFollow
<1>6. ServerFollows
  BY <1>1 DEF ServerFollows
<1>7. CallbackFollows
  BY <1>1, InitFacts DEF CallbackFollows
<1> QED
  BY <1>1, <1>3, <1>5, <1>6, <1>7, InitFacts DEF ServerInv, NoSessionFails

LEMMA NextServerInv ==
    ASSUME ServerInv, Next
    PROVE  ServerInv'
<1>1. CASE Construct \/ RunLoop
  BY <1>1, ConstructKeepsServerInv, RunLoopKeepsServerInv
<1>2. CASE Connects \/ Receives \/ CallsBack
  BY <1>2, ConnectsKeepsServerInv, ReceivesKeepsServerInv, CallsBackKeepsServerInv
<1>3. CASE Notify
  BY <1>3, NotifyNewSessionKeepsServerInv, NotifyReadKeepsServerInv, NotifyWriteKeepsServerInv,
     OnTimerKeepsServerInv, OnClosedKeepsServerInv DEF Notify
<1>4. ASSUME NEW c \in Conns, Writes(c) \/ Disconnects(c) PROVE ServerInv'
  BY <1>4, WritesKeepsServerInv, DisconnectsKeepsServerInv
<1>5. CASE DestroysServer \/ HookReturns
  BY <1>5, DestroysServerKeepsServerInv, HookReturnsKeepsServerInv
<1> QED
  BY <1>1, <1>2, <1>3, <1>4, <1>5 DEF Next

-----------------------------------------------------------------------------
\* ServerBase: the theorems

\* The functions that run above the first one end different sessions.
LEMMA HooksAreFew ==
    ASSUME ServerInv
    PROVE  Len(hooks) <= 1 + Cardinality(Conns)
<1> DEFINE n == Len(hooks)
           f == [i \in 2..n |-> hooks[i].session]
<1>1. hooks \in Seq(Hooks) /\ n \in Nat /\ DOMAIN hooks = 1..n
  BY DEF ServerInv, HooksAreRight
<1>2. IsFiniteSet(Conns) /\ Cardinality(Conns) \in Nat
  BY ServerAssumption, FS_CardinalityType
<1>3. \A i \in 2..n : i \in DOMAIN hooks /\ i # 1 /\ Ends(i) /\ hooks[i].session \in Conns
  BY <1>1 DEF ServerInv, HooksAreRight, SessionsFollow, OpenConns
<1>4. \A i, j \in 2..n : i # j => hooks[i].session # hooks[j].session
  BY <1>3 DEF ServerInv, HooksAreRight
<1>5. f \in [2..n -> Conns] /\ \A i, j \in 2..n : f[i] = f[j] => i = j
  BY <1>3, <1>4
<1>6. f \in Injection(2..n, Conns)
  BY <1>5 DEF Injection, IsInjective
<1>7. Cardinality(2..n) <= Cardinality(Conns)
  BY <1>2, <1>6, FS_Injection
<1>8. Cardinality(2..n) = IF 2 > n THEN 0 ELSE n - 2 + 1
  BY <1>1, FS_Interval
<1> HIDE DEF n
<1>9. n <= 1 + Cardinality(Conns)
  BY <1>1, <1>2, <1>7, <1>8
<1> QED
  BY <1>9 DEF n

\* Either user, while it alone acts.
MCInv ==
    \/ /\ part = "any program" /\ IInv
       /\ server = "none" /\ sessions = {} /\ SessionMap_ = {} /\ hooks = << >>
    \/ /\ part = "ServerBase" /\ ServerInv
       /\ deleted = {} /\ destroyed = FALSE

LEMMA InitMCInv == MCInit => MCInv
  BY InitInv, InitServerInv DEF MCInit, MCInv, ProgramInit, Init

LEMMA NextMCInv ==
    ASSUME AsksIsRunning, MCInv, [MCNext]_allVars
    PROVE  MCInv'
<1>1. CASE UNCHANGED allVars
  <2>1. UNCHANGED <<uv, server, sessions, SessionMap_, hooks, deleted, destroyed, part>>
    BY <1>1 DEF allVars, vars, programVars
  <2>2. IInv => IInv'
    BY <2>1, NextInv DEF programVars
  <2>3. ServerInv => ServerInv'
    <3>1. HooksAreRight => HooksAreRight'
      BY <2>1 DEF HooksAreRight, Ends
    <3>2. SessionsFollow => SessionsFollow'
      BY <2>1 DEF SessionsFollow, OpenConns, Unowned, Idle, ReadEnds, Ends
    <3>3. ServerFollows => ServerFollows'
      BY <2>1 DEF ServerFollows, Idle
    <3>4. CallbackFollows => CallbackFollows'
      BY <2>1 DEF CallbackFollows, Idle, Fresh
    <3> QED
      BY <2>1, <3>1, <3>2, <3>3, <3>4 DEF ServerInv, NoSessionFails
  <2> QED
    BY <2>1, <2>2, <2>3 DEF MCInv
<1>2. CASE ProgramNext /\ AProgram
  <2>1. IInv => IInv'
    BY <1>2, NextInv
  <2> QED
    BY <1>2, <2>1 DEF MCInv, AProgram
<1>3. CASE Next /\ TheServer
  <2>1. ServerInv => ServerInv'
    BY <1>3, NextServerInv
  <2> QED
    BY <1>3, <2>1 DEF MCInv, TheServer, programVars
<1> QED
  BY <1>1, <1>2, <1>3 DEF MCNext

LEMMA MCInvariant ==
    ASSUME AsksIsRunning
    PROVE  MCSpec => []MCInv
<1>1. MCInv /\ [MCNext]_allVars => MCInv'
  BY NextMCInv
<1> QED
  BY <1>1, InitMCInv, PTL DEF MCSpec

LEMMA MCInvTyped ==
    ASSUME MCInv
    PROVE  ProgramTypeOK /\ TypeOK
<1>1. uv \in UvppType
  BY DEF MCInv, IInv, WrappersOK, ServerInv, Sound
<1>2. deleted \subseteq Created /\ destroyed \in BOOLEAN
  BY DEF MCInv, IInv
<1>3. /\ server \in {"none", "alive", "destroyed"}
      /\ sessions \subseteq Conns /\ SessionMap_ \subseteq sessions /\ hooks \in Seq(Hooks)
  <2>1. CASE ServerInv
    BY <2>1 DEF ServerInv, ServerFollows, SessionsFollow, OpenConns, HooksAreRight
  <2>2. CASE server = "none" /\ sessions = {} /\ SessionMap_ = {} /\ hooks = << >>
    BY <2>2
  <2> QED
    BY <2>1, <2>2 DEF MCInv
<1>4. Len(hooks) <= 1 + Cardinality(Conns)
  <2>1. CASE ServerInv
    BY <2>1, HooksAreFew
  <2>2. CASE hooks = << >>
    BY <2>2, ServerAssumption, FS_CardinalityType
  <2> QED
    BY <2>1, <2>2 DEF MCInv
<1> QED
  BY <1>1, <1>2, <1>3, <1>4, Typed DEF ProgramTypeOK, TypeOK

\* ServerBase.cpp owns a session for each open connection, which reads, and for no other,
\* whichever virtual functions disconnect sessions inside one another; it closes no handle
\* twice and reads no session it has destroyed, and when it is destroyed in the middle of
\* anything the loop it leaves can be closed in the end.
THEOREM SessionsStayRight ==
    ASSUME AsksIsRunning
    PROVE  MCSpec => []SessionsAreRight
<1>1. MCInv => SessionsAreRight
  <2> SUFFICES ASSUME MCInv PROVE SessionsAreRight
    OBVIOUS
  <2>1. NeverClosesTwice /\ NoDeletedSessionIsRead
    BY DEF MCInv, IInv, WrappersOK, ServerInv, NoSessionFails, NeverClosesTwice, NoDeletedSessionIsRead
  <2>2. SessionsAreTheConnections
    <3>1. CASE ServerInv
      <4> SUFFICES ASSUME Idle, uv.cb = None
                   PROVE  /\ SessionMap_ = sessions
                          /\ sessions = {c \in Conns : Open(uv, c)}
                          /\ sessions = uv.active \cap Conns
        BY DEF SessionsAreTheConnections
      <4>1. uv.cb.kind = "none"
        BY DEF None
      <4>2. Sound(uv) /\ SessionMap_ = sessions /\ sessions = OpenConns(uv) /\ sessions \subseteq uv.active
        BY <3>1, <4>1, IdleFacts DEF ReadEnds
      <4>3. uv.active \cap Conns \subseteq OpenConns(uv)
        BY <4>2 DEF Sound, Opened, OpenConns
      <4> QED
        BY <4>2, <4>3 DEF OpenConns
    <3>2. CASE server = "none"
      BY <3>2 DEF SessionsAreTheConnections
    <3> QED
      BY <3>1, <3>2 DEF MCInv
  <2>3. NothingIsLeftOfTheServer
    BY DEF MCInv, ServerInv, ServerFollows, NothingIsLeftOfTheServer
  <2> QED
    BY <2>1, <2>2, <2>3, MCInvTyped DEF SessionsAreRight
<1> QED
  BY <1>1, MCInvariant, PTL

\* Neither such a program nor a ServerBase deletes a wrapper whose handle the loop still links,
\* or uses one that is deleted (uvpp.cpp, ServerBase.cpp).
THEOREM WrappersStaySafe ==
    ASSUME AsksIsRunning
    PROVE  MCSpec => []WrappersAreSafe
<1>1. MCInv => WrappersAreSafe
  BY DEF MCInv, IInv, WrappersOK, ServerInv, Sound, WrappersAreSafe, NoHandleIsFreedInUse,
     NoDeletedWrapperIsUsed
<1> QED
  BY <1>1, MCInvariant, PTL

=============================================================================
