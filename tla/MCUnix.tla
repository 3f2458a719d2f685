------------------------------- MODULE MCUnix -------------------------------
(***************************************************************************)
(* Small instances of UnixLoop for TLC: every kind of handle by itself, and *)
(* those that meet each other, with each backend.                          *)
(***************************************************************************)
EXTENDS UnixProps

CONSTANTS server, tcp, pipe, ipc, udp, file, async1, async2, sig1, sig2, child1, child2, dir1, dir2,
          timer1, timer2, prep1, prep2, check, idle

PollFdDef == file :> 3

Using(backend, handles, requests, modes) ==
    [backend |-> backend, handles |-> handles, kept |-> {}, requests |-> requests, modes |-> modes]

Keeping(p, handles) == [p EXCEPT !.kept = handles]

Always == {"DEFAULT"}

Writing(h, n) == {Req("WRITE", h, i) : i \in 1..n} \cup {ShutdownReq(h)}

Sending(n) == {Req("SEND", udp, i) : i \in 1..n}

ProgramsDef ==
    {Using(b, {file}, {}, Always) : b \in Backends}
    \cup {Using(b, {udp}, Sending(1), Always) : b \in Backends}
    \cup {Using(b, {tcp}, {Req("WRITE", tcp, 1)}, Always) : b \in {"kqueue", "ports"}}
    \cup {Using("epoll", h, {}, Modes) : h \in {{async1, async2}, {timer1}, {prep1, prep2}, {check, idle}}}
    \cup {Using("epoll", h, {}, Always) :
              h \in {{sig1, sig2}, {child1, child2}, {dir1, dir2}}}
    \cup {Using("epoll", {timer1, timer2}, {}, {"ONCE"}),
          Using("epoll", {async1, udp, file}, {}, Always),
          Using("epoll", {tcp}, {ConnectReq(tcp)}, Always),
          Using("epoll", {pipe}, {ConnectReq(pipe), Req("WRITE", pipe, 1)}, Always),
          Using("epoll", {tcp}, Writing(tcp, 1), Always),
          Keeping(Using("epoll", {server, tcp}, {}, Always), {tcp}),
          Keeping(Using("epoll", {ipc, udp}, {}, Always), {udp})}

=============================================================================
