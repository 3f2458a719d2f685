------------------------------- MODULE MCData -------------------------------
(***************************************************************************)
(* The terminal, the names, the files of Windows and the file requests of  *)
(* Unix, and the timers, each with inputs small enough to try them all and *)
(* rich enough for every branch.                                           *)
(***************************************************************************)
EXTENDS Terminal, Names, Files, UnixFiles, Timers

CONSTANT Parts          \* those of them that are checked
VARIABLE part           \* the one a behaviour is about

Strings(chars, n) == UNION {[1..k -> chars] : k \in 0..n}

-----------------------------------------------------------------------------
(* The terminal: bytes. *)

Csi(s) == <<ESC, 91>> \o s
Texts == {<<97>>, <<LF>>, <<CR>>, <<195, 169>>, <<240, 159, 152, 128>>, <<128>>, <<195>>, <<255>>}
Styles == {Csi(<<109>>), <<ESC, 99>>}
          \cup {Csi(s \o <<109>>) : s \in {<<55>>, <<50, 55>>, <<49>>, <<51, 49>>, <<52, 50, 59, 53>>,
                                           <<57, 51>>, <<51, 57>>, <<50>>, <<49, 48, 50, 59, 52, 57>>}}
Moves == {<<97>>, <<LF>>, <<ESC, 55>>, <<ESC, 56>>}
         \cup {Csi(s) : s \in {<<65>>, <<50, 66>>, <<67>>, <<51, 68>>, <<51, 59, 50, 72>>, <<69>>, <<70>>, <<50, 71>>,
                               <<115>>, <<117>>}}
Erasures == {<<97>>, <<LF>>, <<ESC, 99>>}
            \cup {Csi(s) : s \in {<<50, 66>>, <<67>>, <<51, 59, 50, 72>>, <<74>>, <<49, 74>>, <<49, 75>>}}
Sequences == {<<ESC, 93, 34, 92, 34, 34, BEL>>, <<ESC, 80, ESC, 92>>, <<ESC, ESC, 61, 97>>, <<194, 155, 65>>, <<97>>}
             \cup {Csi(s) : s \in {<<63, 50, 53, 108>>, <<50, 53, 104>>, <<59, 59, 59, 59, 49, 109>>,
                                   <<54, 53, 53, 51, 53, 48, 109>>, <<32, 97>>}}
VocabulariesDef == [texts |-> Texts, styles |-> Styles, moves |-> Moves, erasures |-> Erasures, sequences |-> Sequences]
DefaultStyleDef == [fg |-> 0, bg |-> 0, fg_bright |-> FALSE, bg_bright |-> FALSE, inverse |-> FALSE]

-----------------------------------------------------------------------------
(* The names: characters. *)

Blanks == {"a", " ", B, Q}
ArgumentListsDef == [1..1 -> Strings(Blanks, 4)] \cup [1..2 -> Strings(Blanks, 2)]

Var(key, upper, value) == [key |-> key, upper |-> upper, value |-> value]
EnvironmentsDef == Strings({Var(0, TRUE, "a"), Var(1, TRUE, "a"), Var(2, FALSE, "a"), Var(4, TRUE, "b"),
                            Var(4, FALSE, "a"), Var(6, TRUE, "b")}, 3)
RequiredDef == <<2, 4, 5>>
ParentsDef == SUBSET {2, 4, 5}

DirectoriesDef == {<<"d">>, <<"d", ";", "g">>, <<B, B, "s">>, <<"D", ":", "g">>, <<"C", ":", "d">>, <<B, "d", B>>, << >>}
SearchPathsDef == Strings(DirectoriesDef, 2)
FilesDef == {<<"f">>, <<"f", ".", "c">>, <<"f", ".">>, <<"d", "/", "f">>, <<"C", ":", "f">>, << >>, <<".">>}
Candidates == UNION {ToSet(PathSearchWalkExt(d, f, TRUE)) : d \in DirectoriesDef, f \in {<<"f">>, <<"f", ".", "c">>}}
ExistingDef == {{}, Candidates} \cup {{c} : c \in Candidates}

TargetsDef == {prefix \o tail : prefix \in {<<"C", ":">>, LongPrefix \o <<"C", ":">>, << >>}, tail \in Strings({B, "/", "x"}, 3)}
              \cup {<<B, B, "s", B, "x">>}

\* The texts are those of a few addresses, with a token left out, changed or put in, of the
\* shortest two.
Numeral(hex, dec, digits, padded) == [hex |-> hex, dec |-> dec, digits |-> digits, padded |-> padded]
NumeralsDef == ("0" :> Numeral(0, 0, 1, FALSE)) @@ ("1" :> Numeral(1, 1, 1, FALSE)) @@ ("255" :> Numeral(597, 255, 3, FALSE))
               @@ ("ffff" :> Numeral(65535, -1, 4, FALSE)) @@ ("256" :> Numeral(598, 256, 3, FALSE))
               @@ ("00" :> Numeral(0, 0, 2, TRUE)) @@ ("00001" :> Numeral(1, 1, 5, TRUE))
WordsDef == [1..8 -> {0, 1, 65535}]

Tokens == {":", "."} \cup DOMAIN NumeralsDef
Edited(text) == {RemoveAt(text, i) : i \in DOMAIN text}
                \cup {ReplaceAt(text, i, c) : i \in DOMAIN text, c \in Tokens}
                \cup {InsertAt(text, i, c) : i \in 1..Len(text) + 1, c \in Tokens}
Full == <<"1", ":", "0", ":", "1", ":", "0", ":", "1", ":", "0", ":", "1", ":", "0">>
V4 == <<"1", ".", "0", ".", "255", ".", "1">>
Bases == {<<":", ":">> \o V4, <<":", ":", "ffff", ":">> \o V4, Full, SubSeq(Full, 1, 12) \o V4, <<":">> \o SubSeq(Full, 2, 15),
          SubSeq(Full, 1, 14) \o <<":">>, SubSeq(Full, 1, 6) \o SubSeq(Full, 8, 15), SubSeq(Full, 1, 4) \o <<":", "1", ":">> \o V4}
Apart(text) == \A i \in 1..Len(text) - 1 : {text[i], text[i + 1]} \cap {":", "."} # {}
TextsDef == {text \in UNION {Edited(b) : b \in Bases \cup Edited(<<"1", ":", ":", "1">>)} : Apart(text)}

-----------------------------------------------------------------------------
(* The files: calls. *)

At1(op, p) == [op |-> op, path |-> p]
To1(op, p, new) == [op |-> op, path |-> p, new |-> new]
OpenWith(p, flags) == [op |-> "open", path |-> p, flags |-> flags, readonly |-> FALSE]
OnFd(op, fd) == [op |-> op, fd |-> fd, new |-> fd]
Io(op, fd, offset, nbufs) == [op |-> op, fd |-> fd, new |-> fd, offset |-> offset, nbufs |-> nbufs]

Appends == {OpenWith("a", {"WRONLY", "APPEND", "CREAT"}), Io("write", "fd1", -1, 2), Io("write", "fd2", -1, 1),
            Io("write", "fd1", 0, 1), Io("read", "fd2", 0, 2), OpenWith("a", {"RDWR", "APPEND"})}
Descriptors == {OpenWith("a", {"CREAT", "EXCL", "RDWR"}), OpenWith("a", {"CREAT", "TRUNC", "WRONLY"}),
                OpenWith("a", {"TRUNC", "RDWR"}), OpenWith("a", {"WRONLY", "RDWR"}), OpenWith("a", {}),
                Io("write", "fd1", 1, 2), Io("read", "fd1", -1, 2), [OnFd("fchmod", "fd1") EXCEPT !.op = "ftruncate"],
                OnFd("close", "fd1"), OnFd("fstat", "fd1"), [readonly |-> TRUE] @@ OnFd("fchmod", "fd1")}
NamesOf == {[OpenWith("a", {"CREAT"}) EXCEPT !.readonly = TRUE], At1("unlink", "a"), At1("mkdir", "a"),
            At1("rmdir", "a"), To1("rename", "a", "b"), To1("link", "a", "b"), At1("utime", "a"), OnFd("close", "fd1"),
            [flags |-> {"COPYFILE_EXCL"}] @@ To1("copyfile", "a", "b"), [flags |-> {"W_OK"}] @@ At1("access", "a"),
            [readonly |-> TRUE] @@ At1("chmod", "a")}
Links == {At1("mkdtemp", "b"), At1("scandir", "a"), At1("stat", "a"), At1("lstat", "m"), To1("rename", "m", "b"),
          At1("readlink", "a"), At1("realpath", "a"), At1("unlink", "a"), At1("rmdir", "a"), [flags |-> {}] @@ At1("symlink", "a"),
          [flags |-> {"SYMLINK_JUNCTION"}] @@ At1("symlink", "a")}
Sends == {OpenWith("a", {"CREAT", "RDWR"}), OpenWith("b", {"CREAT", "WRONLY"}), Io("write", "fd1", -1, 2),
          [Io("sendfile", "fd1", 0, 2) EXCEPT !.new = "fd2"], OnFd("close", "fd1")}
MenusDef == [appends |-> Appends, descriptors |-> Descriptors, names |-> NamesOf, links |-> Links, sends |-> Sends]

-----------------------------------------------------------------------------
(* The file requests of Unix. *)

\* kernel is "none" where sendfile is emulated from the start, old where the kernel has neither
\* preadv, pwritev nor O_CLOEXEC.
RequestTo(op) == [op |-> op, ends |-> << >>, off |-> 0, len |-> 0, size |-> 3, pipe |-> FALSE, old |-> FALSE,
                  async |-> FALSE, kernel |-> "own", excl |-> FALSE, exists |-> FALSE, badflags |-> FALSE]

Ends(bufs) == [i \in DOMAIN bufs |-> FoldLeft(+, 0, SubSeq(bufs, 1, i))]

Transfers == {[RequestTo(op) EXCEPT !.ends = Ends(bufs), !.off = off, !.size = size, !.old = old, !.async = async] :
                 op \in {"read", "write"}, off \in {-1, 0, 1}, size \in {0, 3, 6}, old \in BOOLEAN, async \in BOOLEAN,
                 bufs \in {<<1>>, <<2, 1>>, <<1, 0, 2>>, <<0, 2, 1, 1>>, <<1, 1, 1, 1, 1>>, <<2, 2, 2>>}}
PipeTransfers == {[RequestTo(op) EXCEPT !.ends = Ends(bufs), !.off = -1, !.pipe = TRUE] :
                     op \in {"read", "write"}, bufs \in {<<2>>, <<2, 1>>}}
SendRequests == {[RequestTo("sendfile") EXCEPT !.off = off, !.len = len, !.async = TRUE, !.kernel = kernel] :
                    off \in {0, 1}, len \in {0, 2, 5}, kernel \in {"own", "none"}}
                \cup {[RequestTo("sendfile") EXCEPT !.len = len, !.pipe = TRUE, !.kernel = "none"] : len \in {2, 5}}
CopyRequests == {[RequestTo("copyfile") EXCEPT !.size = size, !.excl = excl, !.exists = exists, !.kernel = kernel,
                                               !.async = async] :
                    size \in {0, 3}, excl \in BOOLEAN, exists \in BOOLEAN, kernel \in {"own", "none"}, async \in BOOLEAN}
OtherRequests == {[RequestTo(op) EXCEPT !.async = async, !.old = old] :
                     op \in {"open", "close", "stat", "readlink", "scandir"}, async \in BOOLEAN, old \in BOOLEAN}
InvalidRequests == {[RequestTo(op) EXCEPT !.async = async, !.badflags = (op = "copyfile")] :
                       op \in {"read", "write", "copyfile"}, async \in BOOLEAN}
RequestsDef ==
    Transfers \cup PipeTransfers \cup SendRequests \cup CopyRequests \cup OtherRequests \cup InvalidRequests

-----------------------------------------------------------------------------
(* The timers. *)

Starting(systems, timeouts, repeats, starts, last) ==
    [systems |-> systems, timeouts |-> timeouts, repeats |-> repeats, starts |-> starts, once |-> FALSE, time |-> last]

Removals == [Starting({"unix"}, [t \in 1..6 |-> {1, 2}], {0}, 6, 0) EXCEPT !.once = TRUE]
TimerUsesDef ==
    [two |-> Starting({"win", "unix"}, [t \in 1..2 |-> {0, 1}], {0, 1}, 3, 2),
     three |-> Starting({"win", "unix"}, [t \in 1..3 |-> {1, 2}], {0}, 3, 2),
     late |-> Starting({"win", "unix"}, [t \in {1} |-> {0, 4, 5, 7, 8, 15}], {0, 5}, 2, 14),
     removals |-> [Starting({"unix"}, [t \in 1..6 |-> {1, 2}], {0}, 6, 0) EXCEPT !.once = TRUE]]

-----------------------------------------------------------------------------

\* Only what the part is about varies.
Init ==
    /\ part \in Parts
    /\ TerminalInit /\ NamesInit /\ FilesInit /\ UnixFilesInit /\ TimersInit
    /\ part # "terminal" => words = "texts" /\ ~tty.vterm
    /\ part # "files" => menu = "links"
    /\ part # "requests" => request = RequestTo("stat")
    /\ part # "timers" => uses = "removals" /\ system = "unix"

Next ==
    \/ /\ part = "terminal" /\ TerminalNext
       /\ UNCHANGED <<part, asked, filesVars, unixFilesVars, timersVars>>
    \/ /\ part = "names" /\ Ask
       /\ UNCHANGED <<part, terminalVars, filesVars, unixFilesVars, timersVars>>
    \/ /\ part = "files" /\ FilesNext
       /\ UNCHANGED <<part, terminalVars, asked, unixFilesVars, timersVars>>
    \/ /\ part = "requests" /\ UnixFilesNext
       /\ UNCHANGED <<part, terminalVars, asked, filesVars, timersVars>>
    \/ /\ part = "timers" /\ TimersNext
       /\ UNCHANGED <<part, terminalVars, asked, filesVars, unixFilesVars>>

Spec == Init /\ [][Next]_<<part, terminalVars, asked, filesVars, unixFilesVars, timersVars>>
=============================================================================
