----------------------------- MODULE ServerBase -----------------------------
(***************************************************************************)
(* ServerBase.cpp: a listening server that makes a session of each         *)
(* connection and owns it in SessionMap_, and a subclass that overrides    *)
(* the virtual functions and from them writes to sessions, disconnects     *)
(* them and destroys the server.                                           *)
(*                                                                         *)
(* A session is named by the handle of its SessionPtr_.  The library       *)
(* begins a callback; Notify* handles it up to a virtual function; while   *)
(* that runs the subclass calls what it likes, which may run another       *)
(* virtual function inside; HookReturns leaves the innermost one and does  *)
(* what its caller does next.                                              *)
(***************************************************************************)
EXTENDS Uvpp, Sequences

CONSTANTS
    ServerPtr_,
    MaxWrites          \* writes of one session in progress at once

ASSUME ServerAssumption ==
    /\ Servers = {ServerPtr_} /\ MaxWrites \in Nat
    /\ IsFiniteSet(Conns) /\ "none" \notin Conns
    /\ Conns \cap (Servers \cup Timers) = {} /\ Servers \cap Timers = {}

VARIABLES
    server,      \* the ServerBase: not constructed yet, constructed, or destroyed
    sessions,    \* the SessionBase objects constructed and not destroyed
    SessionMap_, \* the sessions the server owns
    hooks        \* the virtual functions that run, the innermost last

vars == <<uv, server, sessions, SessionMap_, hooks>>

Hooks == [name : {"OnError", "OnAddSession", "OnRead", "OnWrite", "OnDisconnected",
                  "OnDelSession", "OnTimer"},
          session : Conns \cup {"none"}]

Hook(name, c) == [name |-> name, session |-> c]

\* Every variable has a value of its type; virtual functions are nested no deeper
\* than the sessions that are being disconnected, and one more.
TypeOK ==
    /\ UvppTypeOK
    /\ server \in {"none", "alive", "destroyed"}
    /\ sessions \subseteq Conns /\ SessionMap_ \subseteq sessions
    /\ hooks \in Seq(Hooks) /\ Len(hooks) <= 1 + Cardinality(Conns)

Init ==
    /\ uv = UvppInit
    /\ server = "none"
    /\ sessions = {} /\ SessionMap_ = {}
    /\ hooks = << >>

Idle == hooks = << >>
Top == hooks[Len(hooks)]
Below == SubSeq(hooks, 1, Len(hooks) - 1)

Returning(U) == [U EXCEPT !.cb = None]

\* The callback returns when the virtual function it called has.
Leaving(U) == IF Below = << >> THEN Returning(U) ELSE U

-----------------------------------------------------------------------------
\* Objects

\* Mutant: the destructor leaves the handle open.
EndSessionOpen(U, c) == UvReadStop(Using(U, c), c)

\* ~SessionBase: Stop, DelayDelete.  (ReadBuf_ is freed; no read uses it meanwhile.)
EndSession(U, c) == DelayDelete(UvReadStop(Using(U, c), c), c)

\* The same of each session of S, in any order.
EndSessions(U, S) == LET V == Check(U, "deleted wrapper", S \subseteq U.alive)
                     IN  DelayDeleteEach([V EXCEPT !.active = @ \ S], S)

\* Mutant: the server's wrapper is not deleted.
EndSessionsOnly(U) == EndSessions(U, SessionMap_)

\* ~ServerBase: Stop does nothing to a listening socket, which neither reads nor can
\* be shut down; the server's wrapper goes first, then what SessionMap_ owns.
EndServer(U) == EndSessions(DelayDelete(U, ServerPtr_), SessionMap_)

\* The owner constructs a server and a timer of its own, and starts both before Run.
Construct ==
    /\ server = "none"
    /\ \E t \in Timers :
          LET U == New(UvTimerStart(New(uv, t), t), ServerPtr_)
          IN  uv' \in {U, UvListen(U, ServerPtr_)}
    /\ server' = "alive"
    /\ UNCHANGED <<sessions, SessionMap_, hooks>>

RunLoop ==
    /\ server # "none" /\ Run
    /\ UNCHANGED <<server, sessions, SessionMap_, hooks>>

-----------------------------------------------------------------------------
\* The library calls back.  At most as many clients connect as there are Conns.

Fresh == {c \in Conns : uv.state[c] = "unborn"}

Connects ==
    /\ Connection(ServerPtr_)
    /\ uv'.cb.status = "ok" => Fresh # {}
    /\ UNCHANGED <<server, sessions, SessionMap_, hooks>>

Receives ==
    /\ \E c \in Conns : Read(c)
    /\ UNCHANGED <<server, sessions, SessionMap_, hooks>>

CallsBack ==
    /\ \/ \E c \in Conns : Written(c)
       \/ \E t \in Timers : Tick(t) /\ t \in uv'.active   \* the timer repeats
       \/ \E h \in Handles : Closed(h)
       \/ RunEnds
    /\ UNCHANGED <<server, sessions, SessionMap_, hooks>>

-----------------------------------------------------------------------------
\* Notify*, as far as the virtual function

Enters(name, c) == hooks' = Append(hooks, Hook(name, c))

\* A session whose Accept fails is destroyed when OnError has returned.
NotifyNewSession ==
    /\ uv.cb.kind = "connection" /\ Idle
    /\ LET c == CHOOSE x \in Fresh : TRUE
           U == New(Using(uv, ServerPtr_), c)
       IN  \/ /\ uv.cb.status # "ok"
              /\ uv' = Using(uv, ServerPtr_)
              /\ Enters("OnError", "none")
              /\ UNCHANGED <<sessions, SessionMap_>>
           \/ /\ uv.cb.status = "ok"
              /\ uv' = UvReadStart(UvAccept(U, ServerPtr_, c, TRUE), c)
              /\ sessions' = sessions \cup {c}
              /\ SessionMap_' = SessionMap_ \cup {c}
              /\ Enters("OnAddSession", c)
           \/ /\ uv.cb.status = "ok"
              /\ uv' = UvAccept(U, ServerPtr_, c, FALSE)
              /\ sessions' = sessions \cup {c}
              /\ Enters("OnError", c)
              /\ UNCHANGED SessionMap_
    /\ UNCHANGED server

\* SessionBase::NotifyRead: an error disconnects the session.
NotifyRead ==
    /\ uv.cb.kind = "read" /\ Idle
    /\ LET c == uv.cb.handle IN
          /\ uv' = Check(Using(uv, c), "read of a deleted session", c \in sessions)
          /\ IF uv.cb.status \in {"data", "empty"} THEN Enters("OnRead", c)
                                                  ELSE Enters("OnDisconnected", c)
    /\ UNCHANGED <<server, sessions, SessionMap_>>

\* NotifyWrite is bound to the session, which may be gone when the write is called back.
NotifyWrite ==
    /\ uv.cb.kind = "write" /\ Idle
    /\ LET c == uv.cb.handle IN
          IF c \in sessions
          THEN uv' = Using(uv, c) /\ Enters("OnWrite", c)
          ELSE /\ uv' = Returning(Check(Using(uv, c), "write of a deleted session", FALSE))
               /\ UNCHANGED hooks
    /\ UNCHANGED <<server, sessions, SessionMap_>>

OnTimer ==
    /\ uv.cb.kind = "timer" /\ Idle
    /\ uv' = Using(uv, uv.cb.handle)
    /\ Enters("OnTimer", "none")
    /\ UNCHANGED <<server, sessions, SessionMap_>>

OnClosed == OnClose /\ UNCHANGED <<server, sessions, SessionMap_, hooks>>

Notify == NotifyNewSession \/ NotifyRead \/ NotifyWrite \/ OnTimer \/ OnClosed

-----------------------------------------------------------------------------
\* The subclass, in a virtual function, and the owner, in the function of its timer

\* SessionBase::Write
Writes(c) ==
    /\ ~Idle /\ c \in sessions /\ uv.writes[c] < MaxWrites
    /\ uv' = UvWrite(Using(uv, c), c)
    /\ UNCHANGED <<server, sessions, SessionMap_, hooks>>

\* SessionBase::Disconnect, of a session that is not being disconnected already.
Disconnects(c) ==
    /\ ~Idle /\ c \in SessionMap_
    /\ \A i \in DOMAIN hooks :
          hooks[i].session = c => hooks[i].name \notin {"OnDisconnected", "OnDelSession"}
    /\ Enters("OnDisconnected", c)
    /\ UNCHANGED <<uv, server, sessions, SessionMap_>>

\* The owner destroys the server, and deletes its timer.
DestroysServer ==
    /\ hooks = <<Hook("OnTimer", "none")>> /\ server = "alive"
    /\ uv' = DelayDelete(EndServer(uv), uv.cb.handle)
    /\ server' = "destroyed"
    /\ sessions' = sessions \ SessionMap_
    /\ SessionMap_' = {}
    /\ UNCHANGED hooks

\* The virtual function returns: Disconnect goes on to DelSession, which erases the
\* session from SessionMap_ and so destroys it; NotifyNewSession destroys one it
\* has not added; the others have nothing more to do.
HookReturns ==
    /\ ~Idle
    /\ LET c == Top.session IN
          \/ /\ Top.name = "OnDisconnected"
             /\ hooks' = Append(Below, Hook("OnDelSession", c))
             /\ UNCHANGED <<uv, sessions, SessionMap_>>
          \/ /\ Top.name = "OnDelSession" \/ (Top.name = "OnError" /\ c # "none")
             /\ uv' = Leaving(EndSession(uv, c))
             /\ sessions' = sessions \ {c}
             /\ SessionMap_' = SessionMap_ \ {c}
             /\ hooks' = Below
          \/ /\ Top.name \notin {"OnDisconnected", "OnDelSession"}
             /\ ~(Top.name = "OnError" /\ c # "none")
             /\ uv' = Leaving(uv)
             /\ hooks' = Below
             /\ UNCHANGED <<sessions, SessionMap_>>
    /\ UNCHANGED server

Next ==
    \/ Construct \/ RunLoop
    \/ Connects \/ Receives \/ CallsBack
    \/ Notify
    \/ \E c \in Conns : Writes(c) \/ Disconnects(c)
    \/ DestroysServer
    \/ HookReturns

Spec == Init /\ [][Next]_vars

-----------------------------------------------------------------------------
\* Properties

\* Between callbacks the server owns a session for each connection it has accepted
\* and not closed, and for no other, and each of them reads: none is leaked, none is
\* forgotten with its socket open, none is left deaf.
SessionsAreTheConnections ==
    server # "none" /\ Idle /\ uv.cb = None =>
        /\ SessionMap_ = sessions
        /\ sessions = {c \in Conns : Open(uv, c)}
        /\ sessions = uv.active \cap Conns

\* NotifyRead is never called on a destroyed session, though the callback that is
\* bound to it outlives it in the wrapper.
NoDeletedSessionIsRead == "read of a deleted session" \notin uv.failed

\* When the server has been destroyed and the loop has come to its end, no handle
\* and no request of its sessions is left in the loop, which can be closed.
NothingIsLeftOfTheServer ==
    server = "destroyed" /\ ~uv.running => LoopCloses(uv)

\* The library makes the callbacks that are due, and the virtual functions return.
Fairness == WF_vars(CallsBack) /\ WF_vars(Notify) /\ WF_vars(HookReturns)

\* The destruction of a server in the middle of anything, sessions writing and
\* callbacks queued, lets uv_run return.
DestructionEndsTheLoop == server = "destroyed" ~> ~uv.running

=============================================================================
