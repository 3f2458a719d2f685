-------------------------------- MODULE MCWin --------------------------------
(***************************************************************************)
(* Small instances of WinLoop for TLC: every kind of handle by itself, and *)
(* those that meet each other.                                             *)
(***************************************************************************)
EXTENDS WinProps

CONSTANTS udp, fast, slow, async, signal, dir, child, prep1, prep2, check, idle,
          server, pipe, sync, tin, tout, timer1, timer2

EofTimerDef == pipe :> timer1 @@ sync :> timer2

Uses(handles, requests, modes) == [handles |-> handles, requests |-> requests, modes |-> modes]

Always == {"DEFAULT"}
Sends  == {Req("SEND", udp, i) : i \in 1..2}
Writes(h, n) == {Req("WRITE", h, i) : i \in 1..n} \cup {ShutdownReq(h)}

ProgramsDef ==
    {Uses({udp}, Sends, Always),
     Uses({fast}, {}, Always), Uses({slow}, {}, Always),
     Uses({async, signal}, {}, Modes), Uses({dir, child}, {}, Modes),
     Uses({prep1, prep2, idle}, {}, Modes), Uses({check}, {}, Modes),
     Uses({server, pipe}, {}, Always),
     Uses({pipe}, Writes(pipe, 1) \cup {ConnectReq(pipe)}, Always),
     Uses({sync}, Writes(sync, 2), {"ONCE"}),
     Uses({tin}, {}, Always), Uses({tin, tout}, Writes(tout, 1), Always)}

\* A console is read and its mode changed while the thread that reads a line begins.
TtyProgram == {Uses({tin}, {}, Always)}

=============================================================================
