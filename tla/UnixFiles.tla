----------------------------- MODULE UnixFiles ------------------------------
(***************************************************************************)
(* The file requests of libuv for Unix (unix/fs.c): one request, from its  *)
(* call through the pool's thread, or at once, to its cleanup.  A step is  *)
(* a system call and what the code does until the next one.                *)
(*                                                                         *)
(* Bytes are known by their places: in the buffers of the request, in the  *)
(* file, in what has been written.  Files do not change meanwhile.         *)
(***************************************************************************)
EXTENDS Integers, SequencesExt

CONSTANTS
    Requests,       \* the requests, one of which a behaviour is about
    IovMax,         \* uv__getiovmax
    BufsMl,         \* ARRAY_SIZE(req->bufsml)
    EmulBuf,        \* sizeof(buf) in uv__fs_sendfile_emul
    ChmodErrors,    \* what fchmod may fail with
    MaxErrors       \* bound on the system calls that fail

VARIABLES
    request,        \* one of Requests
    work               \* what it has come to

unixFilesVars == <<request, work>>

\* Error numbers: only that EPERM is 1 matters.
EPERM == 1  EINTR == 4  EIO == 5  EAGAIN == 11  ENOMEM == 12  EEXIST == 17  EINVAL == 22
ENOSPC == 28  ESPIPE == 29  ENOSYS == 38  ECANCELED == 125

Least(a, b) == IF a < b THEN a ELSE b

\* The buffers of a request are known by the places in memory where they end, one after the
\* other; buffer i begins where the one before it ends.
Start(i) == IF i = 1 THEN 0 ELSE request.ends[i - 1]
Empty(i) == request.ends[i] = Start(i)

\* What the calls are given.  No chunk of a read or write is of empty buffers only; a pipe has
\* no positions, and is never the source of sendfile's own.
ASSUME RequestsAssumption ==
    /\ {IovMax, EmulBuf} \subseteq Nat \ {0} /\ {BufsMl, MaxErrors} \subseteq Nat
    /\ ChmodErrors \subseteq Nat \ {0}
    /\ \A q \in Requests :
          /\ q.ends \in Seq(Nat) /\ q.off \in Int /\ q.len \in Nat /\ q.size \in Nat
          /\ {q.pipe, q.old, q.async, q.excl, q.exists, q.badflags} \subseteq BOOLEAN
          /\ \A i, j \in DOMAIN q.ends : i <= j => q.ends[i] <= q.ends[j]
          /\ IF q.op \in {"read", "write"}
             THEN \A i \in DOMAIN q.ends : (i - 1) % IovMax = 0 =>
                     (IF i = 1 THEN 0 ELSE q.ends[i - 1]) < q.ends[Least(i + IovMax - 1, Len(q.ends))]
             ELSE q.ends = << >>
          /\ q.op = "sendfile" => q.off \in Nat
          /\ q.op = "copyfile" => q.off = 0 /\ ~q.pipe
          /\ q.pipe => IF q.op = "sendfile" THEN q.kernel = "none" ELSE q.off < 0

-----------------------------------------------------------------------------
\* uv__fs_work

\* The next chunk of at most iovmax buffers, not all of which are empty; index is the first
\* that is not.
Chunk(s) ==
    LET n == Least(s.left, IovMax)
        full == {i \in 0..n - 1 : ~Empty(s.first + i + 1)}
    IN  [s EXCEPT !.pc = "transfer", !.nbufs = n, !.index = CHOOSE i \in full : \A j \in full : i <= j, !.nread = 0]

\* The action begins: its first system call.
Begin(s) ==
    LET b == [s EXCEPT !.errno = 0]
    IN  CASE request.op \in {"read", "write"} -> Chunk([b EXCEPT !.left = s.nbufs, !.total = 0])
          [] request.op = "sendfile" -> [b EXCEPT !.pc = IF request.kernel = "none" THEN "emul_read" ELSE "sendfile"]
          [] request.op \in {"open", "copyfile"} -> [b EXCEPT !.pc = "open"]
          [] OTHER -> [b EXCEPT !.pc = "plain"]

\* A request is done over when a signal came, but for close.
WorkEnds(s, r) ==
    IF r = -1 /\ s.errno = EINTR /\ request.op # "close" THEN Begin(s)
    ELSE [s EXCEPT !.pc = "done", !.result = IF r = -1 THEN -s.errno ELSE r]

Failing(s, e) == [s EXCEPT !.errno = e, !.faults = @ + 1]
MayFail == work.faults < MaxErrors
Step(s) == work' = s /\ UNCHANGED request

-----------------------------------------------------------------------------
\* uv__fs_buf_iter over uv__fs_read and uv__fs_write

\* Mutant: what has been transferred is forgotten when a later chunk fails.
TotalLast(s, r) == IF r > 0 THEN s.total + r ELSE r

Total(s, r) == IF r > 0 THEN s.total + r ELSE IF s.total = 0 THEN r ELSE s.total

\* A chunk has been processed: the next one, or the end.
Processed(s, r) ==
    IF r > 0 /\ s.left > s.nbufs
    THEN Chunk([s EXCEPT !.off = IF @ >= 0 THEN @ + r ELSE @, !.first = @ + s.nbufs,
                         !.left = @ - s.nbufs, !.total = @ + r])
    ELSE IF s.errno = EINTR /\ Total(s, r) = -1 THEN WorkEnds(s, -1)
    ELSE WorkEnds([s EXCEPT !.held = @ \ {"bufs"}], Total(s, r))

\* Several buffers at an offset, one by one, where the kernel has no preadv and pwritev.
Emulated == work.off >= 0 /\ work.nbufs > 1 /\ work.noPreadv

\* The emulation goes on with the next buffer that is not empty, unless a call has failed
\* or, of a read, has come to the end of the file.
BufferDone(s, r) ==
    LET more == {i \in s.index + 1..s.nbufs - 1 : ~Empty(s.first + i + 1)}
    IN  IF more # {} /\ (r > 0 \/ (r = 0 /\ request.op = "write"))
        THEN [s EXCEPT !.index = CHOOSE i \in more : \A j \in more : i <= j]
        ELSE Processed(s, IF s.nread > 0 THEN s.nread ELSE r)

\* One read, readv, pread or preadv, or the like for a write; a file is read to its end and
\* written up to what the device holds.
Transfer ==
    /\ work.pc = "transfer"
    /\ LET low == IF Emulated THEN work.first + work.index + 1 ELSE work.first + 1
           high == IF Emulated THEN low ELSE work.first + work.nbufs
           at == IF work.off >= 0 THEN work.off + work.nread ELSE work.fpos
           size == Start(high + 1) - Start(low)
           room == Least(size, IF request.size > at THEN request.size - at ELSE 0)
           After(s, r) == Step(IF Emulated THEN BufferDone(s, r) ELSE Processed(s, r))
           Goes(n) == After([work EXCEPT !.moved = @ \o [i \in 1..n |-> <<Start(low) + i - 1, at + i - 1>>],
                                      !.fpos = IF work.off >= 0 THEN @ ELSE @ + n,
                                      !.nread = IF Emulated THEN @ + n ELSE @], n)
       IN  \/ (room > 0 \/ request.op = "read") /\ Goes(room)
           \/ request.pipe /\ \E n \in 1..room - 1 : Goes(n)
           \/ room = 0 /\ request.op = "write" /\ After(Failing(work, ENOSPC), -1)
           \/ MayFail /\ \E e \in {EINTR, EIO} : After(Failing(work, e), -1)
           \/ /\ request.old /\ work.off >= 0 /\ work.nbufs > 1 /\ ~work.noPreadv
              /\ Step([work EXCEPT !.errno = ENOSYS, !.noPreadv = TRUE])

-----------------------------------------------------------------------------
\* uv__fs_copyfile, in which the other requests are made without a callback

\* The end of it, with an error or not: what is open is closed.
CopyOut(s, err) == [s EXCEPT !.pc = "close_src", !.copied = IF err < 0 THEN err ELSE 0]

NextSend(s) ==
    IF s.len = 0 THEN CopyOut(s, 0)
    ELSE [s EXCEPT !.errno = 0, !.nsent = 0, !.usePread = TRUE,
                   !.pc = IF request.kernel = "none" THEN "emul_read" ELSE "sendfile"]

\* uv_fs_open has returned r; a signal has it done over.
Opened(s, r) ==
    IF request.op = "open" THEN WorkEnds(s, r)
    ELSE CASE r = -1 /\ s.errno = EINTR -> [s EXCEPT !.errno = 0, !.pc = "open"]
           [] r = -1 /\ s.errno # EINTR ->
                 IF s.who = "src" THEN WorkEnds(s, -s.errno) ELSE CopyOut(s, -s.errno)
           [] OTHER -> [s EXCEPT !.pc = IF s.who = "src" THEN "fstat" ELSE "fchmod"]

\* uv_fs_sendfile has returned r.
Sent(s, r) ==
    IF request.op = "sendfile" THEN WorkEnds(s, r)
    ELSE CASE r = -1 /\ s.errno = EINTR -> NextSend(s)
           [] r = -1 /\ s.errno # EINTR -> CopyOut(s, -s.errno)
           [] OTHER -> NextSend([s EXCEPT !.len = @ - r])

\* A descriptor is open.
Gets(s) == [s EXCEPT !.held = @ \cup {s.who}, !.dst = IF s.who = "dst" THEN "ours" ELSE @]

\* uv__fs_open: O_CLOEXEC, and where the kernel does not know it, under the loop's lock for a
\* request with a callback, the flag afterwards.
OpenFile ==
    /\ work.pc = "open"
    /\ \/ work.who = "dst" /\ request.excl /\ work.dst # "absent" /\ Step(Opened(Failing(work, EEXIST), -1))
       \/ /\ ~(work.who = "dst" /\ request.excl /\ work.dst # "absent")
          /\ IF request.old
             THEN Step([work EXCEPT !.errno = EINVAL, !.pc = "open_plain",
                                 !.held = IF request.op = "open" /\ request.async THEN @ \cup {"lock"} ELSE @])
             ELSE Step(Opened(Gets(work), 0))
       \/ MayFail /\ \E e \in {EPERM, EINTR, EIO} : Step(Opened(Failing(work, e), -1))

\* It opens, fails to, or opens and is closed again because uv__cloexec fails.
OpenPlain ==
    /\ work.pc = "open_plain"
    /\ LET s == [work EXCEPT !.held = @ \ {"lock"}]
       IN  \/ Step(Opened(Gets(s), 0))
           \/ MayFail /\ \E e \in {EPERM, EINTR, EIO} : Step(Opened(Failing(s, e), -1))

Fstat ==
    /\ work.pc = "fstat"
    /\ \/ Step([work EXCEPT !.pc = "open", !.who = "dst", !.len = request.size, !.errno = 0])
       \/ MayFail /\ Step(CopyOut(Failing(work, EIO), -EIO))

CopyMode ==
    /\ work.pc = "fchmod"
    /\ \/ Step(NextSend(work))
       \/ MayFail /\ \E e \in ChmodErrors : Step(CopyOut(Failing(work, e), -e))

\* Both are closed, whatever close returns, and its error is not that of the copy if that
\* has one; a copy that has failed is removed.
CloseFile ==
    /\ work.pc \in {"close_src", "close_dst"}
    /\ \E e \in {0} \cup IF MayFail THEN {EINTR, EIO} ELSE {} :
          LET who == IF work.pc = "close_src" THEN "src" ELSE "dst"
              s == [work EXCEPT !.held = @ \ {who}, !.faults = IF e = 0 THEN @ ELSE @ + 1,
                                !.copied = IF work.copied = 0 /\ e = EIO THEN -EIO ELSE @]
          IN  Step(IF "dst" \in s.held THEN [s EXCEPT !.pc = "close_dst"]
                   ELSE IF who = "dst" /\ s.copied # 0 THEN [s EXCEPT !.pc = "unlink", !.errno = 0]
                   ELSE WorkEnds(s, s.copied))

\* Mutant: a copy that has failed stays.
UnlinkFileNot == work.pc = "unlink" /\ Step(WorkEnds(work, work.copied))

\* uv_fs_unlink; what it returns is ignored.
UnlinkFile ==
    /\ work.pc = "unlink"
    /\ \/ Step(WorkEnds([work EXCEPT !.dst = "absent"], work.copied))
       \/ MayFail /\ Step(WorkEnds([Failing(work, EIO) EXCEPT !.dst = "left"], work.copied))
       \/ MayFail /\ Step([Failing(work, EINTR) EXCEPT !.errno = 0])

-----------------------------------------------------------------------------
\* uv__fs_sendfile

\* Bytes from place p of the source are written after those before.
Writes(s, p, n) ==
    [s EXCEPT !.moved = @ \o [i \in 1..n |-> <<p + i - 1, Len(s.moved) + i - 1>>]]

Remaining(p) == IF request.size > p THEN request.size - p ELSE 0

\* The system's own: it may send less; on SunOS, FreeBSD and Darwin it may fail having sent.
SystemSends ==
    /\ work.pc = "sendfile"
    /\ LET room == Least(work.len, Remaining(work.off))
           Did(n, s) == Step(Sent([Writes(s, work.off, n) EXCEPT !.off = @ + n], n))
       IN  \/ room = 0 /\ Did(0, work)
           \/ \E n \in 1..room : Did(n, work) \/ (MayFail /\ Did(n, Failing(work, EAGAIN)))
           \/ MayFail /\ \E e \in {EINTR, EAGAIN} : Step(Sent(Failing(work, e), -1))
           \/ /\ MayFail /\ \E e \in {EINVAL, EIO} :
                    Step([Failing(work, e) EXCEPT !.errno = 0, !.pc = "emul_read", !.nsent = 0, !.usePread = TRUE])

\* uv__fs_sendfile_emul ends.
EmulOut(s, nsent) == Sent(IF nsent = -1 THEN s ELSE [s EXCEPT !.off = @ + s.nsent], nsent)

\* A read has failed: an error, unless some data has been sent.
EmulReadFailed(s) == EmulOut(s, IF s.nsent = 0 THEN -1 ELSE s.nsent)

\* pread, or read where the source has no positions.
EmulRead ==
    /\ work.pc = "emul_read"
    /\ LET at == IF work.usePread THEN work.off + work.nsent ELSE work.fpos
           room == Least(Least(work.len - work.nsent, EmulBuf), Remaining(at))
           Reads(n) == Step([work EXCEPT !.pc = "emul_write", !.from = at, !.nread = n, !.nwritten = 0,
                                      !.fpos = IF work.usePread THEN @ ELSE @ + n])
           Broken(e) == IF work.usePread /\ work.nsent = 0 /\ e \in {EIO, ESPIPE}
                        THEN Step([Failing(work, e) EXCEPT !.usePread = FALSE, !.misread = @ \/ ~request.pipe])
                        ELSE Step(EmulReadFailed(Failing(work, e)))
       IN  IF work.nsent = work.len THEN Step(EmulOut(work, work.nsent))
           ELSE IF request.pipe /\ work.usePread THEN Broken(ESPIPE)
           ELSE \/ room = 0 /\ Step(EmulOut(work, work.nsent))
                \/ room > 0 /\ Reads(room)
                \/ request.pipe /\ \E n \in 1..room - 1 : Reads(n)
                \/ MayFail /\ Broken(EIO)
                \/ MayFail /\ Step(Failing(work, EINTR))

EmulWrite ==
    /\ work.pc = "emul_write"
    /\ \/ \E n \in 1..work.nread - work.nwritten :
             LET s == [Writes(work, work.from + work.nwritten, n) EXCEPT !.nwritten = @ + n]
             IN  Step(IF s.nwritten < s.nread THEN s
                      ELSE [s EXCEPT !.pc = "emul_read", !.nsent = @ + s.nread])
       \/ MayFail /\ Step(Failing(work, EINTR))
       \/ MayFail /\ Step([Failing(work, EAGAIN) EXCEPT !.pc = "poll"])
       \/ MayFail /\ Step(EmulOut(Failing([work EXCEPT !.wrote = FALSE], ENOSPC), -1))

Poll ==
    /\ work.pc = "poll"
    /\ \/ Step([work EXCEPT !.pc = "emul_write"])
       \/ MayFail /\ Step(Failing(work, EINTR))
       \/ MayFail /\ Step(EmulOut(Failing([work EXCEPT !.wrote = FALSE], EIO), -1))

-----------------------------------------------------------------------------
\* The other requests are one system call each; readlink and realpath fill memory of their
\* own, scandir memory of the C library, and stat the request itself.

Gives == IF request.op \in {"readlink", "realpath", "scandir"} THEN {"ptr"} ELSE {}

\* close, which the kernel does even if it fails.
Shut == IF request.op # "close" THEN work
        ELSE [work EXCEPT !.held = @ \ {"src"}, !.strays = IF "src" \in work.held THEN @ ELSE @ + 1]

Plain ==
    /\ work.pc = "plain"
    /\ \/ Step(WorkEnds([Shut EXCEPT !.held = @ \cup Gives], 0))
       \/ MayFail /\ request.op \in {"readlink", "realpath"} /\ Step(WorkEnds(Failing(work, ENOMEM), -1))
       \/ MayFail /\ \E e \in {EPERM, EINTR, EIO} : Step(WorkEnds(Failing(Shut, e), -1))

-----------------------------------------------------------------------------
\* uv_fs_*: INIT, PATH, POST and the arguments; uv__fs_done; uv_fs_req_cleanup

New(q) ==
    [pc |-> "call", errno |-> 0, result |-> 0, faults |-> 0, strays |-> 0,
     held |-> IF q.op = "close" THEN {"src"} ELSE {},     \* memory, descriptors, the lock, the request in the loop
     off |-> q.off, len |-> q.len, nbufs |-> Len(q.ends), first |-> 0, left |-> 0, total |-> 0, index |-> 0, nread |-> 0,
     noPreadv |-> FALSE, fpos |-> 0, who |-> "src", copied |-> 0, dst |-> IF q.exists THEN "old" ELSE "absent",
     nsent |-> 0, usePread |-> TRUE, from |-> 0, nwritten |-> 0,
     moved |-> << >>,       \* history: the bytes transferred, each from where to where
     wrote |-> TRUE,        \* history: no write has failed
     misread |-> FALSE,     \* history: see SendsAreExact
     cancelled |-> FALSE]

UnixFilesInit == request \in Requests /\ work = New(request)

HasPath == request.op \notin {"read", "write", "sendfile", "close"}

Registered == IF request.async THEN {"req"} ELSE {}

\* A read or write of no buffers, and a copy with flags that are not known.
Refused(q) == IF q.op = "copyfile" THEN q.badflags ELSE q.op \in {"read", "write"} /\ q.ends = << >>

\* These return with the request in the loop, where INIT has put it.
Refuses ==
    /\ work.pc = "call" /\ Refused(request)
    /\ Step([work EXCEPT !.pc = "cleaned", !.result = -EINVAL, !.held = Registered])

Asks ==
    /\ work.pc = "call" /\ ~Refused(request)
    /\ LET memory == (IF HasPath /\ request.async THEN {"path"} ELSE {})
                     \cup IF Len(request.ends) > BufsMl THEN {"bufs"} ELSE {}
           s == [work EXCEPT !.held = @ \cup Registered \cup memory]
       IN  \/ Step(IF request.async THEN [s EXCEPT !.pc = "queued"] ELSE Begin(s))
           \/ MayFail /\ memory # {} /\ Step([Failing(work, 0) EXCEPT !.result = -ENOMEM, !.pc = "cleaned"])

Work == work.pc = "queued" /\ Step(Begin(work))

\* uv_cancel finds it in the queue.
Cancelled == work.pc = "queued" /\ Step([work EXCEPT !.pc = "done", !.cancelled = TRUE])

\* uv__fs_done, after which the client may clean up.
Done ==
    /\ work.pc = "done"
    /\ Step([work EXCEPT !.pc = "ended", !.held = @ \ {"req"}, !.result = IF work.cancelled THEN -ECANCELED ELSE @])

Cleanup ==
    /\ work.pc = "ended"
    /\ Step([work EXCEPT !.pc = "cleaned", !.held = @ \ {"path", "ptr"}])

UnixFilesNext ==
    \/ Refuses \/ Asks \/ Work \/ Cancelled \/ Done \/ Cleanup
    \/ Transfer \/ OpenFile \/ OpenPlain \/ Fstat \/ CopyMode \/ CloseFile \/ UnlinkFile
    \/ SystemSends \/ EmulRead \/ EmulWrite \/ Poll \/ Plain

UnixFilesSpec == UnixFilesInit /\ [][UnixFilesNext]_unixFilesVars

-----------------------------------------------------------------------------

Ended == work.pc = "cleaned"

\* A read or write that returns n has transferred the first n bytes of its buffers, and of the
\* file from its offset, in order, in however many chunks and whatever the kernel emulates; one
\* that fails has transferred none (uv__fs_buf_iter).  Where a chunk may end early with more
\* to come, of a pipe or in the emulation, this is so of a single chunk.
ReadsAndWritesAreExact ==
    Ended /\ request.op \in {"read", "write"} /\ (request.pipe \/ work.noPreadv => Len(request.ends) <= IovMax) =>
        LET n  == IF work.result > 0 THEN work.result ELSE 0
            at == IF request.off >= 0 THEN request.off ELSE 0
        IN  work.moved = [i \in 1..n |-> <<i - 1, at + i - 1>>]

\* What has been sent are the bytes of the source from the offset, in order, and it is as
\* many as are returned, by which the offset has moved; an error says that none has been sent or
\* that a write has failed (the rules in uv__fs_sendfile_emul).  After EIO of a pread the
\* emulation reads on from wherever the position of the file is (misread), as it does, rightly,
\* with a source that has no positions.
SendsAreExact ==
    Ended /\ request.op = "sendfile" /\ ~work.misread =>
        LET at == IF request.pipe THEN 0 ELSE request.off
        IN  /\ work.moved = [i \in 1..Len(work.moved) |-> <<at + i - 1, i - 1>>]
            /\ work.result >= 0 => Len(work.moved) = work.result /\ work.off = request.off + work.result
            /\ work.result < 0 => work.moved = << >> \/ ~work.wrote

TransfersAreExact == ReadsAndWritesAreExact /\ SendsAreExact

\* A copy whose request succeeds is the whole source, in the destination it has opened
\* (uv__fs_copyfile).
CopyErrorsAreReported ==
    Ended /\ request.op = "copyfile" /\ work.result = 0 /\ ~work.misread =>
        work.dst = "ours" /\ work.moved = [i \in 1..request.size |-> <<i - 1, i - 1>>]

\* One that fails leaves no part of it, unless unlink fails too; nor is a destination
\* touched that uv_fs_copyfile was not to replace.
CopiesAreWhole ==
    /\ CopyErrorsAreReported
    /\ Ended /\ request.op = "copyfile" /\ work.result < 0 => work.dst # "ours"
    /\ request.op = "copyfile" /\ request.excl /\ request.exists => work.dst = "old"

\* A request, when it has been cleaned up, has given back all it held, whatever failed, and
\* a descriptor is closed once; only what it opened is left, and, cancelled in time, the
\* list of buffers of a read or write.  One that uv_fs_read, uv_fs_write or uv_fs_copyfile
\* returns -EINVAL for (fs.c:1323, 1462, 1517) stays in the loop it was to be called back by.
RequestsLetGo ==
    /\ Ended => CASE Refused(request) -> work.held = Registered
                  [] work.cancelled -> work.held \subseteq {"bufs"} \cup IF request.op = "close" THEN {"src"} ELSE {}
                  [] request.op = "open" /\ work.result >= 0 -> work.held = {"src"}
                  [] OTHER -> work.held = {}
    /\ work.strays = 0

\* Whatever system call or allocation fails, no descriptor, memory, lock, request in the loop or
\* part of a copy is left; a request refused with -EINVAL is left in the loop, as above.
FailuresLeaveNothing == CopiesAreWhole /\ RequestsLetGo
=============================================================================
