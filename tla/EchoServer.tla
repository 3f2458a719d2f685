----------------------------- MODULE EchoServer -----------------------------
(***************************************************************************)
(* TestServer.cpp: ServerLoop, an echo server that closes a connection     *)
(* when its first echo has been written, and ends when the operator has    *)
(* it delete every handle of the loop.                                     *)
(*                                                                         *)
(* The library begins a callback; the next step is the whole lambda that   *)
(* handles it, and its return.                                             *)
(***************************************************************************)
EXTENDS Uvpp

CONSTANTS
    pServer, pFlushTmr, pStopTmr,
    MaxEchoes,       \* echoes of one connection in progress at once
    AcceptMayFail,   \* pServer->Accept may fail
    PeerMayVanish,   \* getpeername may fail for a connection just accepted
    StopsAtFailure   \* assertions are compiled in: the program ends at the first that fails

ASSUME EchoAssumption ==
    /\ Servers = {pServer} /\ Timers = {pFlushTmr, pStopTmr} /\ pFlushTmr # pStopTmr
    /\ IsFiniteSet(Conns) /\ Conns \cap (Servers \cup Timers) = {} /\ Servers \cap Timers = {}
    /\ MaxEchoes \in Nat \ {0}
    /\ {AcceptMayFail, PeerMayVanish, StopsAtFailure} \subseteq BOOLEAN

VARIABLES
    main,        \* where ServerLoop is
    numClients,  \* the counter the listener's lambda owns
    overwritten, \* connections whose buffer was read into while an echo of it was being sent
    exiting      \* the operator has answered y

vars == <<uv, main, numClients, overwritten, exiting>>

\* Every variable has a value of its type.
TypeOK ==
    /\ UvppTypeOK
    /\ main \in {"start", "ready", "running", "returned", "ended"}
    /\ numClients \in Int
    /\ overwritten \subseteq Conns
    /\ exiting \in BOOLEAN

Init ==
    /\ uv = UvppInit
    /\ main = "start"
    /\ numClients = 0
    /\ overwritten = {}
    /\ exiting = FALSE

-----------------------------------------------------------------------------
\* ServerLoop

GoesOn == StopsAtFailure => uv.failed = {}

\* Up to loop.Run(): what Bind and Listen return is logged and ignored.
Setup ==
    /\ main = "start"
    /\ LET U == UvTimerStart(UvTimerStart(
                  New(New(New(uv, pServer), pFlushTmr), pStopTmr), pFlushTmr), pStopTmr)
       IN  uv' \in {U, UvListen(U, pServer)}
    /\ main' = "ready"
    /\ UNCHANGED <<numClients, overwritten, exiting>>

RunLoop ==
    /\ main = "ready" /\ Run
    /\ main' = "running"
    /\ UNCHANGED <<numClients, overwritten, exiting>>

RunReturns ==
    /\ main = "running" /\ GoesOn /\ RunEnds
    /\ main' = "returned"
    /\ UNCHANGED <<numClients, overwritten, exiting>>

\* loop goes out of scope.
Leave ==
    /\ main = "returned"
    /\ uv' = DestroyLoop(uv)
    /\ main' = "ended"
    /\ UNCHANGED <<numClients, overwritten, exiting>>

-----------------------------------------------------------------------------
\* The library calls back.  At most as many clients connect as there are Conns.

Fresh == {c \in Conns : uv.state[c] = "unborn"}

Connects ==
    /\ GoesOn /\ Connection(pServer)
    /\ uv'.cb.status = "ok" => Fresh # {}
    /\ UNCHANGED <<main, numClients, overwritten, exiting>>

\* Data is received into the buffer of the connection, whose earlier contents an
\* echo in progress may still be sending.
Receives(c) ==
    /\ GoesOn /\ Read(c)
    /\ uv'.cb.status \in {"data", "empty"} => uv.writes[c] < MaxEchoes
    /\ overwritten' = IF uv'.cb.status = "data" /\ uv.writes[c] > 0
                      THEN overwritten \cup {c} ELSE overwritten
    /\ UNCHANGED <<main, numClients, exiting>>

CallsBack ==
    /\ GoesOn
    /\ \/ \E c \in Conns : Written(c) \/ ShutDown(c)
       \/ \E t \in Timers : Tick(t) /\ t \in uv'.active   \* both timers repeat
       \/ \E h \in Handles : Closed(h)
    /\ UNCHANGED <<main, numClients, overwritten, exiting>>

-----------------------------------------------------------------------------
\* The lambdas

Returning(U) == [U EXCEPT !.cb = None]

\* *numClients, by reference: the lambda of pServer that owns it may be deleted.
Counting(U) == Check(U, "deleted counter", pServer \in U.alive)

\* The peer's name of a connection it has lost, or never had, is an error.
GetPeerName(U, ok) == Check(U, "getpeername: succeeds", ok)

OnConnection ==
    /\ uv.cb.kind = "connection"
    /\ \/ /\ uv.cb.status # "ok"
          /\ uv' = Returning(Using(uv, pServer))
          /\ UNCHANGED numClients
       \/ /\ uv.cb.status = "ok"
          /\ LET c == CHOOSE x \in Fresh : TRUE
                 U == New(Using(uv, pServer), c)
             IN  \/ /\ \E named \in {TRUE, ~PeerMayVanish} :
                          uv' = Returning(UvReadStart(
                                  GetPeerName(UvAccept(U, pServer, c, TRUE), named), c))
                    /\ numClients' = numClients + 1
                 \/ /\ AcceptMayFail
                    /\ uv' = Returning(DelayDelete(
                               GetPeerName(UvAccept(U, pServer, c, FALSE), FALSE), c))
                    /\ UNCHANGED numClients
    /\ UNCHANGED <<main, overwritten, exiting>>

\* Mutant: the client that is gone is still counted.
OnReadErrorCounted ==
    /\ uv.cb.kind = "read" /\ uv.cb.status \in {"nobufs", "eof", "error"}
    /\ LET c == uv.cb.handle
       IN  uv' = Returning(DelayDelete(UvShutdown(Using(uv, c), c), c))
    /\ UNCHANGED <<main, numClients, overwritten, exiting>>

\* nread < 0: the client is gone.
OnReadError ==
    /\ uv.cb.kind = "read" /\ uv.cb.status \in {"nobufs", "eof", "error"}
    /\ LET c == uv.cb.handle
           U == Counting(Using(uv, c))
       IN  uv' = Returning(DelayDelete(UvShutdown(U, c), c))
    /\ numClients' = numClients - 1
    /\ UNCHANGED <<main, overwritten, exiting>>

OnRead ==
    /\ uv.cb.kind = "read" /\ uv.cb.status \in {"data", "empty"}
    /\ LET c == uv.cb.handle IN uv' = Returning(UvWrite(Using(uv, c), c))
    /\ UNCHANGED <<main, numClients, overwritten, exiting>>

\* The echo has been written, or not: that is the end of the connection.
OnWrite ==
    /\ uv.cb.kind = "write"
    /\ LET c == uv.cb.handle
           U == Counting(Using(uv, c))
       IN  uv' = Returning(DelayDelete(UvReadStop(U, c), c))
    /\ numClients' = numClients - 1
    /\ UNCHANGED <<main, overwritten, exiting>>

OnShutdown ==
    /\ uv.cb.kind = "shutdown"
    /\ uv' = Returning(Using(uv, uv.cb.handle))
    /\ UNCHANGED <<main, numClients, overwritten, exiting>>

\* Mutant: the loop is stopped when its handles have been walked.
OnTimerStops ==
    /\ uv.cb.kind = "timer"
    /\ uv' = Returning(Stop(WalkDelayDelete(Using(uv, uv.cb.handle))))
    /\ exiting' = TRUE
    /\ UNCHANGED <<main, numClients, overwritten>>

OnTimer ==
    /\ uv.cb.kind = "timer"
    /\ \/ /\ uv' = Returning(Using(uv, uv.cb.handle))
          /\ UNCHANGED exiting
       \/ /\ uv.cb.handle = pStopTmr
          /\ uv' = Returning(WalkDelayDelete(Using(uv, pStopTmr)))
          /\ exiting' = TRUE
    /\ UNCHANGED <<main, numClients, overwritten>>

OnClosed == OnClose /\ UNCHANGED <<main, numClients, overwritten, exiting>>

Handlers == OnConnection \/ OnReadError \/ OnRead \/ OnWrite \/ OnShutdown \/ OnTimer \/ OnClosed

Next ==
    \/ Setup \/ RunLoop \/ RunReturns \/ Leave
    \/ Connects
    \/ \E c \in Conns : Receives(c)
    \/ CallsBack
    \/ Handlers

Spec == Init /\ [][Next]_vars

-----------------------------------------------------------------------------
\* Properties

\* The number the server logs is the number of connections it has accepted and not
\* begun to delete, until an assertion fails or the operator ends it.
ClientsAreCounted ==
    uv.failed = {} /\ ~exiting =>
        numClients = Cardinality({c \in Conns : Open(uv, c) /\ c \in uv.connected})

\* When loop.Run() has returned every handle has been closed and deleted, so the
\* assertion of ~UvLoop that uv_loop_close succeeds holds.
LoopIsClosedClean == "loop_close: not busy" \notin uv.failed

\* The server deletes its wrappers when nothing uses them any more and leaves a loop that
\* can be closed, whichever of its callbacks deletes them.
EndsClean == TypeOK /\ WrappersAreSafe /\ LoopIsClosedClean

\* An echo sends what was read: nothing is received into its buffer meanwhile.
EchoIsWhatWasRead == overwritten = {}

\* The library makes the callbacks that are due, and the lambdas return.
Fairness ==
    /\ WF_vars(RunReturns)
    /\ WF_vars(Leave)
    /\ WF_vars(CallsBack)
    /\ WF_vars(Handlers)

FairSpec == Spec /\ Fairness

\* Once the operator ends it, the server comes to its end: deleting every handle,
\* those already closing and those with echoes in progress included, lets uv_run return.
ComesToItsEnd == exiting ~> main = "ended"

=============================================================================
