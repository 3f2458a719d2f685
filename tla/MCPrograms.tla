----------------------------- MODULE MCPrograms -----------------------------
(***************************************************************************)
(* The users of the wrappers of uvpp: any program with one of each, and a  *)
(* ServerBase with its sessions.                                           *)
(***************************************************************************)
EXTENDS Programs, ServerBase

VARIABLE part    \* the user a behaviour is about

allVars == <<vars, programVars, part>>

MCInit == part \in {"any program", "ServerBase"} /\ ProgramInit /\ Init

AProgram == part = "any program" /\ UNCHANGED <<server, sessions, SessionMap_, hooks, part>>
TheServer == part = "ServerBase" /\ UNCHANGED <<programVars, part>>

MCNext ==
    \/ ProgramNext /\ AProgram
    \/ Next /\ TheServer

MCSpec == MCInit /\ [][MCNext]_allVars /\ Fairness

\* Whatever virtual function a session is disconnected in, and whenever the server is
\* destroyed: sessions and open connections stay the same set, no handle is closed twice, no
\* destroyed session is read, and a destroyed server leaves nothing in the loop (uvpp.cpp,
\* ServerBase.cpp).
SessionsAreRight ==
    /\ ProgramTypeOK /\ TypeOK
    /\ NeverClosesTwice
    /\ SessionsAreTheConnections
    /\ NoDeletedSessionIsRead
    /\ NothingIsLeftOfTheServer

=============================================================================
