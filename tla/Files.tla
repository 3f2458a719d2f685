------------------------------- MODULE Files -------------------------------
(***************************************************************************)
(* The file operations of libuv for Windows (win/fs.c).  Each is a series  *)
(* of calls of the kernel that a thread of the pool makes, and between two *)
(* of them come those of the other threads.  Any of them may fail.         *)
(***************************************************************************)
EXTENDS Integers, SequencesExt

CONSTANTS Paths,          \* names in one directory
          Fds,            \* descriptors of the C runtime
          FsThreads,      \* threads of the pool at work on files
          Menus,          \* by their names, sets of calls, one of which a behaviour makes its calls from
          MountPoint,     \* a name that is a reparse point and not a link
          TempPaths,      \* what the template of mkdtemp may become
          TMP_MAX,
          MaxCalls, MaxFaults

\* What a call is given: names, descriptors, flags, places and numbers of buffers.
Parameters(c) ==
    /\ c.op \in {"open", "unlink", "rmdir", "mkdir", "rename", "link", "copyfile", "access", "chmod", "utime", "stat",
                  "lstat", "readlink", "realpath", "symlink"} => "path" \in DOMAIN c /\ c.path \in Paths
    /\ c.op \in {"rename", "link", "copyfile"} => "new" \in DOMAIN c /\ c.new \in Paths
    /\ c.op \in {"close", "read", "write", "ftruncate", "fchmod", "fsync", "fstat", "futime", "sendfile"} =>
          "fd" \in DOMAIN c /\ c.fd \in Fds
    /\ c.op = "sendfile" => "new" \in DOMAIN c /\ c.new \in Fds
    /\ c.op \in {"read", "write", "sendfile"} => {"offset", "nbufs"} \subseteq DOMAIN c
                                               /\ c.offset \in Nat \cup {-1} /\ c.nbufs \in Nat
    /\ c.op \in {"open", "copyfile", "access", "symlink"} => "flags" \in DOMAIN c
    /\ c.op \in {"open", "chmod", "fchmod"} => "readonly" \in DOMAIN c /\ c.readonly \in BOOLEAN

ASSUME FilesAssumption ==
    /\ IsFiniteSet(Paths) /\ IsFiniteSet(Fds) /\ IsFiniteSet(FsThreads)
    /\ Fds \cap FsThreads = {} /\ "none" \notin Fds \cup FsThreads
    /\ MountPoint \in Paths /\ TempPaths \subseteq Paths
    /\ \A m \in DOMAIN Menus : \A c \in Menus[m] :
          /\ "op" \in DOMAIN c
          /\ DOMAIN c \subseteq {"op", "path", "new", "fd", "flags", "readonly", "offset", "nbufs"}
          /\ Parameters(c)

VARIABLES fs,             \* the volume: names, and the nodes they are of
          fds,            \* open descriptors: a node, the access to it, and the position
          calls,          \* what each thread is at
          usermode,       \* uv__file_symlink_usermode_flag
          menu, made, faults

filesVars == <<fs, fds, calls, usermode, menu, made, faults>>

Nodes == 1..Cardinality(Paths) + Cardinality(Fds) + Cardinality(FsThreads)
NoFd == [node |-> 0, access |-> {}, pos |-> 0]
\* appended and by are history: the writes appended to the data and not undone, and the call
\* that gave the node its name.
NoNode == [kind |-> "none", readonly |-> FALSE, data |-> << >>, deleting |-> FALSE, appended |-> {}, by |-> "none"]
NoCall == [op |-> "none", pc |-> "idle", h |-> 0, again |-> 0, mem |-> 0, ptr |-> FALSE, free |-> FALSE,
           saved |-> -1, index |-> 0, bytes |-> 0, rest |-> {}, dir |-> FALSE, tries |-> 0, result |-> "none"]

-----------------------------------------------------------------------------
(* The kernel. *)

NodeOf(p) == fs.names[p]
Node(p) == fs.nodes[NodeOf(p)]
Exists(p) == NodeOf(p) # 0
HoldersOf(n) == {fd \in Fds : fds[fd].node = n} \cup {t \in FsThreads : calls[t].h = n}

\* A node that has neither name nor handle is no more.
Collected(f, held) ==
    [f EXCEPT !.nodes = [n \in Nodes |-> IF n \in held \/ \E p \in Paths : f.names[p] = n THEN @[n] ELSE NoNode]]

Held(except) == {n \in Nodes : HoldersOf(n) \ {except} # {}}

\* The last handle closes: the name goes if it is to be deleted.
Closed(holder, n) ==
    LET gone == n # 0 /\ fs.nodes[n].deleting /\ n \notin Held(holder)
        kept == [fs EXCEPT !.names = [p \in Paths |-> IF gone /\ @[p] = n THEN 0 ELSE @[p]]]
    IN  Collected(kept, Held(holder))

Fresh == CHOOSE n \in Nodes : fs.nodes[n].kind = "none" /\ n \notin Held("none")

With(p, kind, readonly, by) ==
    [fs EXCEPT !.names[p] = Fresh,
               !.nodes[Fresh] = [NoNode EXCEPT !.kind = kind, !.readonly = readonly, !.by = by]]

Truncated(n) == [fs EXCEPT !.nodes[n].data = << >>, !.nodes[n].appended = {}]

CanOpen(p) == Exists(p) /\ ~Node(p).deleting

\* What CreateFileW does for each disposition; READONLY keeps data from being written.
CreateFileFails(p, access, disposition) ==
    \/ disposition \in {"OPEN_EXISTING", "TRUNCATE_EXISTING"} /\ ~Exists(p)
    \/ disposition = "CREATE_NEW" /\ Exists(p)
    \/ disposition = "CREATE_ALWAYS" /\ Exists(p) /\ Node(p).kind # "file"
    \/ disposition = "TRUNCATE_EXISTING" /\ "write" \notin access
    \/ Exists(p) /\ Node(p).deleting
    \/ Exists(p) /\ Node(p).readonly /\ (access \cap {"write", "append"} # {} \/ disposition = "CREATE_ALWAYS")

CreateFile(p, disposition, readonly) ==
    IF ~Exists(p) THEN With(p, "file", readonly, "open")
    ELSE IF disposition \in {"TRUNCATE_EXISTING", "CREATE_ALWAYS"} THEN Truncated(NodeOf(p))
    ELSE fs

-----------------------------------------------------------------------------
(* How a call goes on. *)

At(t, op, pc) == calls[t].op = op /\ calls[t].pc = pc
Now(t, c) == calls' = [calls EXCEPT ![t] = c]
Goto(t, pc) == Now(t, [calls[t] EXCEPT !.pc = pc])
Finished(c, result) == [NoCall EXCEPT !.h = c.h, !.again = c.again, !.mem = c.mem, !.ptr = c.ptr, !.free = c.free,
                                      !.dir = c.dir, !.result = result]
Finish(t, result) == Now(t, Finished(calls[t], result))
Fault == faults < MaxFaults /\ faults' = faults + 1
NoFault == UNCHANGED faults

SameVolume == UNCHANGED <<fs, fds>>
SameClient == UNCHANGED <<menu, made, usermode>>

\* CloseHandle, and what was kept in memory is freed.
CloseAndFinish(t, result) ==
    /\ fs' = Closed(t, calls[t].h)
    /\ Now(t, [Finished(calls[t], result) EXCEPT !.h = 0, !.mem = 0])
    /\ UNCHANGED <<fds, faults>>

\* CreateFileW of what exists, for its attributes or its data.
OpenExisting(t, p, next) ==
    \/ CanOpen(p) /\ NoFault /\ Now(t, [calls[t] EXCEPT !.h = NodeOf(p), !.pc = next])
    \/ ~CanOpen(p) /\ NoFault /\ Finish(t, "error")
    \/ CanOpen(p) /\ Fault /\ Finish(t, "error")

\* A call on the handle that may fail, after which the handle is closed.
Query(t, next) ==
    \/ NoFault /\ Goto(t, next)
    \/ Fault /\ Goto(t, "fail")

Fails(t, op) == At(t, op, "fail") /\ CloseAndFinish(t, "error") /\ SameClient

\* A call that is one call of the kernel: it fails, or does what it does to the volume.
AtOnce(t, ok, result) ==
    \/ ok /\ NoFault /\ fs' = result /\ Finish(t, "ok") /\ UNCHANGED fds
    \/ ~ok /\ NoFault /\ Finish(t, "error") /\ SameVolume
    \/ ok /\ Fault /\ Finish(t, "error") /\ SameVolume

-----------------------------------------------------------------------------
(* Descriptors. *)

\* Mutant: data may be written to a file opened to append.
AccessToWrite(flags) ==
    (IF "WRONLY" \in flags THEN {"write"} ELSE IF "RDWR" \in flags THEN {"read", "write"} ELSE {"read"})
    \cup (IF "APPEND" \in flags THEN {"append"} ELSE {})

Access(flags) ==
    LET access == IF "WRONLY" \in flags THEN {"write"} ELSE IF "RDWR" \in flags THEN {"read", "write"} ELSE {"read"}
    IN  IF "APPEND" \in flags THEN (access \ {"write"}) \cup {"append"} ELSE access

Disposition(flags) ==
    LET f == flags \cap {"CREAT", "EXCL", "TRUNC"}
    IN  CASE "CREAT" \notin f /\ "TRUNC" \notin f -> "OPEN_EXISTING"
          [] f = {"CREAT"} -> "OPEN_ALWAYS"
          [] {"CREAT", "EXCL"} \subseteq f -> "CREATE_NEW"
          [] "CREAT" \notin f /\ "TRUNC" \in f -> "TRUNCATE_EXISTING"
          [] f = {"CREAT", "TRUNC"} -> "CREATE_ALWAYS"

\* CreateFileW, then a descriptor for the handle, which is closed when there is none.
Open(t) ==
    LET c == calls[t]
        disposition == Disposition(c.flags)
        failed == CreateFileFails(c.path, Access(c.flags), disposition)
        volume == CreateFile(c.path, disposition, "CREAT" \in c.flags /\ c.readonly)
        free == {fd \in Fds : fds[fd] = NoFd}
    IN  /\ c.op = "open"
        /\ \/ /\ c.pc = "start" /\ {"WRONLY", "RDWR"} \subseteq c.flags
              /\ Finish(t, "EINVAL") /\ SameVolume /\ NoFault
           \/ /\ c.pc = "start" /\ ~({"WRONLY", "RDWR"} \subseteq c.flags)
              /\ Finish(t, IF failed /\ Exists(c.path) /\ "CREAT" \in c.flags /\ "EXCL" \notin c.flags
                              /\ Node(c.path).kind = "dir" THEN "EISDIR" ELSE "error")
              /\ SameVolume /\ (IF failed THEN NoFault ELSE Fault)
           \/ /\ c.pc = "start" /\ ~({"WRONLY", "RDWR"} \subseteq c.flags) /\ ~failed
              /\ fs' = volume
              /\ Now(t, [c EXCEPT !.h = volume.names[c.path], !.pc = "descriptor"])
              /\ UNCHANGED fds /\ NoFault
           \/ /\ c.pc = "descriptor" /\ free # {}
              /\ \E fd \in free :
                    /\ fds' = [fds EXCEPT ![fd] = [node |-> c.h, access |-> Access(c.flags), pos |-> 0]]
                    /\ Now(t, [Finished(c, "ok") EXCEPT !.h = 0])
              /\ UNCHANGED fs /\ NoFault
           \/ c.pc = "descriptor" /\ free = {} /\ CloseAndFinish(t, "EMFILE")
        /\ SameClient

\* VERIFY_FD, and uv__get_osfhandle of a descriptor that is not open.
BadFd(t) ==
    /\ calls[t].op \in {"close", "read", "write", "ftruncate", "fchmod", "fsync", "fstat", "futime", "sendfile"}
    /\ calls[t].pc = "start" /\ fds[calls[t].fd] = NoFd
    /\ Finish(t, "EBADF")
    /\ SameVolume /\ SameClient /\ NoFault

GoodFd(t, op, pc) == At(t, op, pc) /\ fds[calls[t].fd] # NoFd

Close(t) ==
    /\ GoodFd(t, "close", "start")
    /\ fds' = [fds EXCEPT ![calls[t].fd] = NoFd]
    /\ fs' = Closed(calls[t].fd, fds[calls[t].fd].node)
    /\ Finish(t, "ok")
    /\ SameClient /\ NoFault

\* A read or write at a place goes back to the position afterwards.
Seek(t) ==
    /\ calls[t].op \in {"read", "write"} /\ GoodFd(t, calls[t].op, "start")
    /\ Now(t, [calls[t] EXCEPT !.pc = "io", !.saved = IF calls[t].offset = -1 THEN -1 ELSE fds[calls[t].fd].pos])
    /\ SameVolume /\ SameClient /\ NoFault

\* After a buffer: the next one, unless it was the last or failed.
AfterBuffer(c, ok, n) ==
    [c EXCEPT !.index = @ + 1, !.bytes = @ + n, !.pc = IF ok /\ c.index + 1 < c.nbufs THEN "io" ELSE "restore"]

\* ReadFile reads what there is, from the place or the position.
Read(t) ==
    LET c == calls[t]
        d == fds[c.fd]
        from == IF c.offset = -1 THEN d.pos ELSE c.offset + c.bytes
        n == IF from < Len(fs.nodes[d.node].data) THEN 1 ELSE 0
        ok == "read" \in d.access /\ (c.offset = -1 \/ n = 1)
    IN  /\ GoodFd(t, "read", "io")
        /\ \/ /\ fds' = [fds EXCEPT ![c.fd].pos = IF ok THEN from + n ELSE @]
              /\ Now(t, AfterBuffer(c, ok, IF ok THEN n ELSE 0)) /\ NoFault
           \/ Fault /\ Now(t, AfterBuffer(c, FALSE, 0)) /\ UNCHANGED fds
        /\ UNCHANGED fs /\ SameClient

\* WriteFile writes over what there is at the place, after zeros when it lies beyond the end.
Written(data, at, x) ==
    LET zeros == [i \in 1..IF at > Len(data) THEN at - Len(data) ELSE 0 |-> 0]
    IN  SubSeq(data \o zeros, 1, at) \o <<x>> \o SubSeq(data, at + 2, Len(data))

\* What may only be appended is written at the end, wherever the place is.
WriteAt(d, at, x) ==
    LET node == fs.nodes[d.node]
        appends == "write" \notin d.access
    IN  [fs EXCEPT !.nodes[d.node].data = Written(node.data, IF appends THEN Len(node.data) ELSE at, x),
                   !.nodes[d.node].appended = IF "append" \in d.access THEN @ \cup {x} ELSE {}]
PosAfter(d, at) == IF "write" \in d.access THEN at + 1 ELSE Len(fs.nodes[d.node].data) + 1

Write(t) ==
    LET c == calls[t]
        d == fds[c.fd]
        at == IF c.offset = -1 THEN d.pos ELSE c.offset + c.bytes
        ok == d.access \cap {"write", "append"} # {}
    IN  /\ GoodFd(t, "write", "io")
        /\ \/ /\ ok
              /\ fs' = WriteAt(d, at, c.id)
              /\ fds' = [fds EXCEPT ![c.fd].pos = PosAfter(d, at)]
              /\ Now(t, AfterBuffer(c, TRUE, 1)) /\ NoFault
           \/ /\ (ok /\ Fault) \/ (~ok /\ NoFault)
              /\ Now(t, AfterBuffer(c, FALSE, 0)) /\ SameVolume
        /\ SameClient

Restore(t) ==
    LET c == calls[t]
    IN  /\ c.op \in {"read", "write"} /\ c.pc = "restore"
        /\ fds' = IF c.saved # -1 THEN [fds EXCEPT ![c.fd].pos = c.saved] ELSE fds
        /\ Finish(t, "ok")
        /\ UNCHANGED fs /\ SameClient /\ NoFault

Ftruncate(t) ==
    LET n == fds[calls[t].fd].node
        ok == fds[calls[t].fd].access \cap {"write"} # {}
    IN  /\ GoodFd(t, "ftruncate", "start")
        /\ \/ /\ ok /\ NoFault
              /\ fs' = Truncated(n)
              /\ Finish(t, "ok") /\ UNCHANGED fds
           \/ ~ok /\ NoFault /\ Finish(t, "error") /\ SameVolume
        /\ SameClient

\* Attributes of a descriptor are read, changed, and written back.
Fchmod(t) ==
    LET n == fds[calls[t].fd].node
    IN  /\ GoodFd(t, "fchmod", calls[t].pc)
        /\ \/ calls[t].pc = "start" /\ ((NoFault /\ Goto(t, "set")) \/ (Fault /\ Finish(t, "error"))) /\ SameVolume
           \/ calls[t].pc = "set" /\ NoFault /\ fs' = [fs EXCEPT !.nodes[n].readonly = calls[t].readonly]
              /\ Finish(t, "ok") /\ UNCHANGED fds
           \/ calls[t].pc = "set" /\ Fault /\ Finish(t, "error") /\ SameVolume
        /\ SameClient

\* fs__fsync, fs__fdatasync, fs__fstat and fs__futime: one call on the handle.
OnHandle(t) ==
    /\ \E op \in {"fsync", "fstat", "futime"} : GoodFd(t, op, "start")
    /\ (NoFault /\ Finish(t, "ok")) \/ (Fault /\ Finish(t, "error"))
    /\ SameVolume /\ SameClient

-----------------------------------------------------------------------------
(* Names. *)

\* Opened, looked at, made writable and marked: a name that is a directory stays, unless
\* it is a link.  What was made writable stays so when the mark fails.
Unlink(t) ==
    LET c == calls[t]
        node == fs.nodes[c.h]
    IN  /\ c.op = "unlink"
        /\ \/ c.pc = "start" /\ OpenExisting(t, c.path, "info") /\ SameVolume
           \/ c.pc = "info" /\ node.kind \notin {"dir", "mount"} /\ SameVolume
              /\ Query(t, IF node.readonly THEN "clear" ELSE "mark")
           \/ c.pc = "info" /\ node.kind \in {"dir", "mount"} /\ SameVolume /\ NoFault /\ Goto(t, "fail")
           \/ c.pc = "clear" /\ NoFault /\ fs' = [fs EXCEPT !.nodes[c.h].readonly = FALSE] /\ Goto(t, "mark")
              /\ UNCHANGED fds
           \/ c.pc = "clear" /\ Fault /\ Goto(t, "fail") /\ SameVolume
           \/ c.pc = "mark" /\ ~node.readonly /\ NoFault /\ fs' = [fs EXCEPT !.nodes[c.h].deleting = TRUE]
              /\ Goto(t, "close") /\ UNCHANGED fds
           \/ c.pc = "mark" /\ node.readonly /\ NoFault /\ Goto(t, "fail") /\ SameVolume
           \/ c.pc = "mark" /\ Fault /\ Goto(t, "fail") /\ SameVolume
           \/ c.pc = "close" /\ CloseAndFinish(t, "ok")
        /\ SameClient

RmdirNow(p) == IF HoldersOf(NodeOf(p)) = {} THEN Collected([fs EXCEPT !.names[p] = 0], Held("none"))
               ELSE [fs EXCEPT !.nodes[NodeOf(p)].deleting = TRUE]

Rmdir(t) ==
    /\ At(t, "rmdir", "start") /\ SameClient
    /\ AtOnce(t, CanOpen(calls[t].path) /\ Node(calls[t].path).kind = "dir", RmdirNow(calls[t].path))

Mkdir(t) ==
    /\ At(t, "mkdir", "start") /\ SameClient
    /\ AtOnce(t, ~Exists(calls[t].path), With(calls[t].path, "dir", FALSE, "mkdir"))

\* A name is drawn until it is not taken, for TMP_MAX times; any other failure ends it.
Mkdtemp(t) ==
    LET c == calls[t]
        Another == IF c.tries + 1 = TMP_MAX THEN Finished(c, "error") ELSE [c EXCEPT !.tries = @ + 1]
    IN  /\ At(t, "mkdtemp", "start") /\ SameClient /\ UNCHANGED fds
        /\ \/ \E p \in TempPaths :
                 \/ ~Exists(p) /\ NoFault /\ fs' = With(p, "dir", FALSE, "mkdtemp") /\ Finish(t, "ok")
                 \/ Exists(p) /\ NoFault /\ Now(t, Another) /\ UNCHANGED fs
           \/ Fault /\ Finish(t, "error") /\ UNCHANGED fs

\* MoveFileExW puts a name in the place of another, but not of a directory.
Rename(t) ==
    LET c == calls[t]
        ok == /\ CanOpen(c.path)
              /\ Exists(c.new) => c.new = c.path \/ (Node(c.new).kind # "dir" /\ ~Node(c.new).readonly
                                                     /\ HoldersOf(NodeOf(c.new)) = {})
    IN  /\ At(t, "rename", "start") /\ SameClient
        /\ AtOnce(t, ok, Collected([fs EXCEPT !.names = [p \in Paths |-> CASE p = c.new -> NodeOf(c.path)
                                                                  [] p # c.new /\ p = c.path -> 0
                                                                  [] OTHER -> @[p]],
                                              !.nodes[NodeOf(c.path)].by = "rename"], Held("none")))

Link(t) ==
    /\ At(t, "link", "start") /\ SameClient
    /\ AtOnce(t, CanOpen(calls[t].path) /\ Node(calls[t].path).kind = "file" /\ ~Exists(calls[t].new),
              [fs EXCEPT !.names[calls[t].new] = NodeOf(calls[t].path)])

Copyfile(t) ==
    LET c == calls[t]
        ok == /\ CanOpen(c.path) /\ Node(c.path).kind = "file"
              /\ Exists(c.new) => "COPYFILE_EXCL" \notin c.flags /\ Node(c.new).kind = "file"
                                  /\ ~Node(c.new).readonly /\ ~Node(c.new).deleting
        target == IF Exists(c.new) THEN fs ELSE With(c.new, "file", Node(c.path).readonly, "copyfile")
    IN  /\ At(t, "copyfile", "start") /\ SameClient
        /\ AtOnce(t, ok, [target EXCEPT !.nodes[target.names[c.new]].data = Node(c.path).data,
                                !.nodes[target.names[c.new]].appended = {}])

\* fs__access and fs__utime by path; fs__chmod.
FsAccess(t) ==
    /\ At(t, "access", "start") /\ SameClient
    /\ AtOnce(t, Exists(calls[t].path) /\ ("W_OK" \in calls[t].flags =>
                                              ~Node(calls[t].path).readonly \/ Node(calls[t].path).kind = "dir"), fs)

Chmod(t) ==
    /\ At(t, "chmod", "start") /\ SameClient
    /\ AtOnce(t, CanOpen(calls[t].path), [fs EXCEPT !.nodes[NodeOf(calls[t].path)].readonly = calls[t].readonly])

Utime(t) ==
    /\ calls[t].op = "utime" /\ SameClient
    /\ \/ calls[t].pc = "start" /\ OpenExisting(t, calls[t].path, "set") /\ SameVolume
       \/ calls[t].pc = "set" /\ Query(t, "close") /\ SameVolume
       \/ calls[t].pc = "close" /\ CloseAndFinish(t, "ok")

-----------------------------------------------------------------------------
(* What is at a name. *)

\* fs__stat_impl: what lstat opens and is no link it opens again, to follow it, while the
\* first handle is still open.
Stat(t) ==
    LET c == calls[t]
        unread == c.op = "lstat" /\ fs.nodes[c.h].kind = "mount"
    IN  /\ c.op \in {"stat", "lstat"} /\ SameClient
        /\ \/ c.pc = "start" /\ OpenExisting(t, c.path, "query") /\ SameVolume
           \/ c.pc = "query" /\ ~unread /\ Query(t, "close") /\ SameVolume
           \/ c.pc = "query" /\ unread /\ NoFault /\ Goto(t, "again") /\ SameVolume
           \/ c.pc = "again" /\ CanOpen(c.path) /\ NoFault /\ SameVolume
              /\ Now(t, [c EXCEPT !.again = NodeOf(c.path), !.pc = "requery"])
           \/ c.pc = "again" /\ (IF CanOpen(c.path) THEN Fault ELSE NoFault)
              /\ Goto(t, "fail") /\ SameVolume
           \/ c.pc = "requery" /\ SameVolume
              /\ \E r \in {"close", "fail"} : /\ IF r = "fail" THEN Fault ELSE NoFault
                                              /\ Now(t, [c EXCEPT !.again = 0, !.pc = r])
           \/ c.pc = "close" /\ CloseAndFinish(t, "ok")

\* A result allocated for the request is freed with it, when its flag says so.
GiveResult(t) ==
    /\ fs' = Closed(t, calls[t].h)
    /\ Now(t, [Finished(calls[t], "ok") EXCEPT !.h = 0, !.mem = 0, !.ptr = TRUE, !.free = TRUE])
    /\ UNCHANGED fds /\ NoFault

FsReadlink(t) ==
    /\ calls[t].op = "readlink" /\ SameClient
    /\ \/ calls[t].pc = "start" /\ OpenExisting(t, calls[t].path, "read") /\ SameVolume
       \/ calls[t].pc = "read" /\ fs.nodes[calls[t].h].kind \in {"link", "junction"} /\ Query(t, "close") /\ SameVolume
       \/ calls[t].pc = "read" /\ fs.nodes[calls[t].h].kind \notin {"link", "junction"} /\ NoFault
          /\ Goto(t, "fail") /\ SameVolume
       \/ calls[t].pc = "close" /\ GiveResult(t)

\* fs__realpath_handle: the length of the path, memory for it, the path and its conversion.
FsRealpath(t) ==
    /\ calls[t].op = "realpath" /\ SameClient
    /\ \/ calls[t].pc = "start" /\ OpenExisting(t, calls[t].path, "length") /\ SameVolume
       \/ calls[t].pc = "length" /\ Query(t, "memory") /\ SameVolume
       \/ calls[t].pc = "memory" /\ SameVolume
          /\ \/ NoFault /\ Now(t, [calls[t] EXCEPT !.mem = 1, !.pc = "path"])
             \/ Fault /\ Goto(t, "fail")
       \/ calls[t].pc = "path" /\ Query(t, "convert") /\ SameVolume
       \/ calls[t].pc = "convert" /\ Query(t, "close") /\ SameVolume
       \/ calls[t].pc = "close" /\ GiveResult(t)

\* Mutant: an error of a later chunk leaves the entries of the earlier ones.
ScandirEndsKeeping(t) == Now(t, [Finished(calls[t], "error") EXCEPT !.dir = FALSE])

\* cleanup: the handle is closed and the entries are freed, each and the array.
ScandirEnds(t) == Now(t, [Finished(calls[t], "error") EXCEPT !.dir = FALSE, !.mem = 0])

\* The names are read one after the other, of those there are when it comes to them; "."
\* and ".." are not kept.  Opening, reading, converting and allocating may each fail.
Scandir(t) ==
    LET c == calls[t]
    IN  /\ c.op = "scandir" /\ SameVolume /\ SameClient
        /\ \/ c.pc = "start" /\ NoFault /\ Now(t, [c EXCEPT !.pc = "chunk", !.rest = Paths, !.dir = TRUE])
           \/ c.pc = "start" /\ Fault /\ Finish(t, "error")
           \/ c.pc = "chunk" /\ NoFault
              /\ \E p \in c.rest : Exists(p) /\ Now(t, [c EXCEPT !.rest = @ \ {p}, !.mem = @ + 1])
           \/ c.pc = "chunk" /\ Fault /\ Goto(t, "cleanup")
           \/ c.pc = "chunk" /\ (\A p \in c.rest : ~Exists(p)) /\ NoFault
              /\ Now(t, [Finished(c, "ok") EXCEPT !.dir = FALSE, !.mem = 0, !.ptr = c.mem > 0, !.free = c.mem > 0])
           \/ c.pc = "cleanup" /\ ScandirEnds(t) /\ NoFault

\* A file is copied to another through a buffer; what is read counts, not what is written.
Sendfile(t) ==
    LET c == calls[t]
        in == fds[c.fd]
        out == fds[c.new]
        data == fs.nodes[in.node].data
        writes == out # NoFd /\ out.access \cap {"write", "append"} # {}
    IN  /\ GoodFd(t, "sendfile", c.pc) /\ SameClient
        /\ \/ c.pc = "start" /\ NoFault /\ UNCHANGED fs
              /\ fds' = [fds EXCEPT ![c.fd].pos = IF c.offset = -1 THEN @ ELSE c.offset]
              /\ Now(t, [c EXCEPT !.pc = "read", !.mem = 1])
           \/ c.pc = "read" /\ in.pos < Len(data) /\ "read" \in in.access /\ c.bytes < c.nbufs /\ NoFault
              /\ fds' = [fds EXCEPT ![c.fd].pos = @ + 1] /\ UNCHANGED fs
              /\ Now(t, [c EXCEPT !.saved = data[in.pos + 1], !.pc = "write"])
           \/ c.pc = "read" /\ (in.pos >= Len(data) \/ c.bytes >= c.nbufs) /\ NoFault /\ SameVolume
              /\ Now(t, [Finished(c, "ok") EXCEPT !.mem = 0])
           \/ c.pc = "write" /\ writes /\ NoFault
              /\ fs' = WriteAt(out, out.pos, c.saved)
              /\ fds' = [fds EXCEPT ![c.new].pos = PosAfter(out, @)]
              /\ Now(t, [c EXCEPT !.bytes = @ + 1, !.pc = "read"])
           \/ c.pc \in {"read", "write"} /\ SameVolume
              /\ \/ c.pc = "read" /\ "read" \notin in.access /\ NoFault
                 \/ c.pc = "write" /\ ~writes /\ NoFault
                 \/ Fault
              /\ Now(t, [Finished(c, "error") EXCEPT !.mem = 0])

-----------------------------------------------------------------------------
(* Links. *)

\* A system without user-mode symlinks refuses the flag: it is given up, for all, and the
\* call made again.
Symlink(t) ==
    LET c == calls[t]
        asks == usermode /\ "SYMLINK_DIR" \notin c.flags
    IN  /\ At(t, "symlink", "start") /\ "SYMLINK_JUNCTION" \notin c.flags
        /\ \/ asks /\ usermode' = FALSE /\ NoFault /\ SameVolume /\ UNCHANGED <<calls, menu, made>>
           \/ AtOnce(t, ~Exists(c.path), With(c.path, "link", FALSE, "symlink")) /\ SameClient

\* A directory is made, opened, and made a junction; when that fails it is removed.
FsJunction(t) ==
    LET c == calls[t]
    IN  /\ c.op = "symlink" /\ "SYMLINK_JUNCTION" \in c.flags /\ SameClient
        /\ \/ c.pc = "start" /\ NoFault /\ SameVolume /\ Now(t, [c EXCEPT !.mem = 1, !.pc = "mkdir"])
           \/ c.pc = "mkdir" /\ ~Exists(c.path) /\ NoFault /\ UNCHANGED fds
              /\ fs' = With(c.path, "dir", FALSE, "junction") /\ Goto(t, "open")
           \/ c.pc = "mkdir" /\ (IF Exists(c.path) THEN NoFault ELSE Fault) /\ SameVolume
              /\ Now(t, [Finished(c, "error") EXCEPT !.mem = 0])
           \/ c.pc = "open" /\ CanOpen(c.path) /\ NoFault /\ SameVolume
              /\ Now(t, [c EXCEPT !.h = NodeOf(c.path), !.pc = "set"])
           \/ c.pc = "open" /\ (IF CanOpen(c.path) THEN Fault ELSE NoFault) /\ SameVolume
              /\ Now(t, [c EXCEPT !.mem = 0, !.pc = "remove"])
           \/ c.pc = "set" /\ NoFault /\ fs' = [fs EXCEPT !.nodes[c.h].kind = "junction"] /\ Goto(t, "close")
              /\ UNCHANGED fds
           \/ c.pc = "set" /\ Fault /\ UNCHANGED fds
              /\ fs' = Closed(t, c.h) /\ Now(t, [c EXCEPT !.h = 0, !.mem = 0, !.pc = "remove"])
           \/ c.pc = "remove" /\ NoFault /\ UNCHANGED fds /\ Finish(t, "error")
              /\ fs' = IF CanOpen(c.path) /\ Node(c.path).kind = "dir" THEN RmdirNow(c.path) ELSE fs
           \/ c.pc = "close" /\ CloseAndFinish(t, "ok")

-----------------------------------------------------------------------------

Idle(t) == calls[t].pc = "idle"

FilesInit ==
    /\ menu \in DOMAIN Menus
    /\ fs = [names |-> [p \in Paths |-> IF p = MountPoint THEN 1 ELSE 0],
             nodes |-> [n \in Nodes |-> IF n = 1 THEN [NoNode EXCEPT !.kind = "mount"] ELSE NoNode]]
    /\ fds = [fd \in Fds |-> NoFd]
    /\ calls = [t \in FsThreads |-> NoCall]
    /\ usermode = TRUE /\ made = 0 /\ faults = 0

Used(c) == IF "fd" \in DOMAIN c THEN {c[x] : x \in {"fd", "new"} \cap DOMAIN c} ELSE {}

\* A call that begins, with what it is given.
Given(c, id) ==
    [x \in {"id"} \cup DOMAIN c \cup DOMAIN NoCall |->
        IF x = "id" THEN id ELSE IF x \in DOMAIN c THEN c[x] ELSE [NoCall EXCEPT !.pc = "start"][x]]

\* The client hands a call to an idle thread, whichever (they are alike).  No
\* call uses a descriptor that another closes.
Call(t) ==
    /\ Idle(t) /\ made < MaxCalls
    /\ t = CHOOSE u \in FsThreads : Idle(u)
    /\ \E c \in Menus[menu] :
          /\ \A u \in FsThreads : ~Idle(u) /\ "close" \in {c.op, calls[u].op} => Used(c) \cap Used(calls[u]) = {}
          /\ Now(t, Given(c, made + 1))
    /\ made' = made + 1
    /\ UNCHANGED <<fs, fds, usermode, menu, faults>>

FsFails(t) == \E op \in {"unlink", "utime", "stat", "lstat", "readlink", "realpath"} : Fails(t, op)

\* uv__fs_work: what a thread does for the call it was given.
FsWork(t) ==
    \/ Open(t) \/ Close(t) \/ BadFd(t) \/ Seek(t) \/ Read(t) \/ Write(t) \/ Restore(t)
    \/ Ftruncate(t) \/ Fchmod(t) \/ OnHandle(t) \/ Unlink(t) \/ Rmdir(t) \/ Mkdir(t)
    \/ Mkdtemp(t) \/ Rename(t) \/ Link(t) \/ Copyfile(t) \/ FsAccess(t) \/ Chmod(t)
    \/ Utime(t) \/ Stat(t) \/ FsReadlink(t) \/ FsRealpath(t) \/ Scandir(t) \/ Sendfile(t)
    \/ Symlink(t) \/ FsJunction(t) \/ FsFails(t)

FilesNext == \E t \in FsThreads : Call(t) \/ FsWork(t)

FilesSpec == FilesInit /\ [][FilesNext]_filesVars

-----------------------------------------------------------------------------

\* However a call ends, at whichever of its steps, it has closed the handles it opened and
\* freed the memory it took, but for a result the request frees; and the directory for a
\* junction that was not made is gone, or goes when another lets go of it.
CallsCleanUp ==
    /\ \A t \in FsThreads : Idle(t) => calls[t].h = 0 /\ calls[t].again = 0 /\ ~calls[t].dir
                                       /\ calls[t].mem = 0 /\ (calls[t].ptr <=> calls[t].free)
    /\ (\A t \in FsThreads : Idle(t)) =>
          \A p \in Paths : Exists(p) /\ Node(p).kind = "dir" /\ Node(p).by = "junction" => Node(p).deleting

\* What was written to a file opened to append is in it, whatever others have written to it
\* at the same time, until it is truncated or written to at a place.
AppendsLoseNothing == \A n \in Nodes : fs.nodes[n].appended \subseteq ToSet(fs.nodes[n].data)
=============================================================================
