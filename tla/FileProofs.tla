----------------------------- MODULE FileProofs -----------------------------
(***************************************************************************)
(* Proofs about files: first the file requests of libuv for Unix, for any  *)
(* request, any sizes of its buffers and of the file, and any number of    *)
(* failures; then the file operations of libuv for Windows, for any paths, *)
(* descriptors, threads, calls and number of failures.                     *)
(*                                                                         *)
(* The inductive invariant of a request for Unix says, for each kind,      *)
(* where its bytes are at every system call: those moved so far are the    *)
(* first ones, and the offset, the buffer and the position of the file go  *)
(* with their number.  That of the calls for Windows says which handle and *)
(* memory each has where it is, that the volume has no nodes but those     *)
(* with a name or a handle, and who undoes a directory that is not yet a   *)
(* junction.  Each has one lemma for each step.                            *)
(***************************************************************************)
EXTENDS Files, UnixFiles, FiniteSetTheorems, WellFoundedInduction, SequenceTheorems, TLAPS

-----------------------------------------------------------------------------
\* Numbers, of which every set that is not empty has a least one.

LEMMA NatOrder == \E R : IsWellFoundedOn(R, Nat) /\ \A x, y \in Nat : x < y => <<x, y>> \in R
  BY NatLessThanWellFounded DEF OpToRel

LEMMA NatMin ==
    ASSUME NEW T, T \subseteq Nat, T # {}
    PROVE  \E m \in T : \A n \in T : m <= n
<1>1. PICK R : IsWellFoundedOn(R, Nat) /\ \A x, y \in Nat : x < y => <<x, y>> \in R
  BY NatOrder
<1>3. \E m \in T : \A n \in T : ~(<<n, m>> \in R)
  BY <1>1, WFMin, ZenonT(40)
<1>5. PICK m \in T : \A n \in T : ~(<<n, m>> \in R)
  BY <1>3
<1>4. \A n \in T : m <= n
  <2> TAKE n \in T
  <2>1. m \in Nat /\ n \in Nat
    OBVIOUS
  <2>2. ~(n < m)
    BY <1>1, <1>5, <2>1
  <2> QED BY <2>1, <2>2
<1> QED BY <1>4

-----------------------------------------------------------------------------
\* n bytes from place a of one thing are at place b of another, in order.
Places(n, a, b) == [i \in 1..n |-> <<a + i - 1, b + i - 1>>]

LEMMA PlacesAre ==
    ASSUME NEW n \in Nat, NEW a \in Int, NEW b \in Int
    PROVE  /\ Places(n, a, b) \in Seq(Int \X Int)
           /\ Len(Places(n, a, b)) = n
           /\ Places(0, a, b) = << >>
<1>1. Places(n, a, b) \in Seq(Int \X Int) /\ Len(Places(n, a, b)) = n
  BY DEF Places
<1>2. Places(0, a, b) = << >>
  BY DEF Places
<1> QED BY <1>1, <1>2

\* The bytes that follow, put after those before, are where they belong.
LEMMA PlacesJoin ==
    ASSUME NEW m \in Nat, NEW n \in Nat, NEW a \in Int, NEW b \in Int
    PROVE  Places(m, a, b) \o Places(n, a + m, b + m) = Places(m + n, a, b)
<1> DEFINE s == Places(m, a, b)
           t == Places(n, a + m, b + m)
           u == Places(m + n, a, b)
           S == Int \X Int
<1>1. s \in Seq(S) /\ t \in Seq(S) /\ u \in Seq(S) /\ Len(s) = m /\ Len(t) = n /\ Len(u) = m + n
  BY PlacesAre
<1>0. /\ \A i \in 1..m : s[i] = <<a + i - 1, b + i - 1>>
      /\ \A i \in 1..n : t[i] = <<a + m + i - 1, b + m + i - 1>>
      /\ \A i \in 1..m + n : u[i] = <<a + i - 1, b + i - 1>>
  BY DEF Places
<1> HIDE DEF s, t, u, S
<1>2. s \o t \in Seq(S) /\ Len(s \o t) = m + n /\ \A i \in 1..m + n : (s \o t)[i] = IF i <= m THEN s[i] ELSE t[i - m]
  BY <1>1, ConcatProperties
<1>3. \A i \in 1..m + n : (s \o t)[i] = u[i]
  <2> TAKE i \in 1..m + n
  <2>1. CASE i <= m
    <3>1. i \in 1..m
      BY <2>1
    <3>2. (s \o t)[i] = s[i]
      BY <1>2, <2>1
    <3> QED BY <3>1, <3>2, <1>0
  <2>2. CASE i > m
    <3>1. i - m \in 1..n /\ a + m + (i - m) - 1 = a + i - 1 /\ b + m + (i - m) - 1 = b + i - 1
      BY <2>2
    <3>2. (s \o t)[i] = t[i - m]
      BY <1>2, <2>2
    <3> QED BY <3>1, <3>2, <1>0
  <2>3. i <= m \/ i > m
    OBVIOUS
  <2> QED BY <2>1, <2>2, <2>3
<1>4. s \o t = u
  BY <1>1, <1>2, <1>3, SeqEqual
<1> QED BY <1>4 DEF s, t, u
-----------------------------------------------------------------------------
\* The request and what it has come to.

\* The requests that are not refused.
Made == {q \in Requests : ~Refused(q)}

Pcs == {"call", "queued", "transfer", "open", "open_plain", "fstat", "fchmod", "close_src", "close_dst", "unlink",
        "sendfile", "emul_read", "emul_write", "poll", "plain", "done", "ended", "cleaned"}
Things == {"req", "path", "bufs", "ptr", "lock", "src", "dst"}

WorkType ==
    [pc : Pcs, errno : Nat, result : Int, faults : Nat, strays : Nat, held : SUBSET Things, off : Int, len : Int,
     nbufs : Nat, first : Nat, left : Int, total : Nat, index : Int, nread : Nat, noPreadv : BOOLEAN, fpos : Nat,
     who : {"src", "dst"}, copied : Int, dst : {"old", "absent", "ours", "left"}, nsent : Nat, usePread : BOOLEAN,
     from : Int, nwritten : Nat, moved : Seq(Int \X Int), wrote : BOOLEAN, misread : BOOLEAN, cancelled : BOOLEAN]

IsTransfer(q) == q.op \in {"read", "write"}
\* The others that are one system call.
IsPlain(q) == ~IsTransfer(q) /\ q.op \notin {"sendfile", "open", "copyfile"}

Positive(n) == IF n > 0 THEN n ELSE 0
Over == {"done", "ended", "cleaned"}

\* Whatever is asked: what is held when, and that nothing happens before it is worked on.
Common(q, s) ==
    /\ s.pc = "call" => s = New(q)
    /\ s.pc = "queued" \/ s.cancelled =>
          s = [New(q) EXCEPT !.pc = s.pc, !.held = s.held, !.result = s.result, !.cancelled = s.cancelled]
    /\ s.pc = "queued" => s.result = 0
    /\ s.cancelled => s.pc \in Over /\ s.result <= 0 /\ (s.pc # "done" => s.result < 0)
    /\ "req" \in s.held => s.pc \notin {"ended", "cleaned"}
    /\ "path" \in s.held => s.pc # "cleaned"
    /\ "bufs" \in s.held => IsTransfer(q) /\ (s.pc \in {"queued", "transfer"} \/ s.cancelled)
    /\ "ptr" \in s.held => s.pc \in {"done", "ended"}
    /\ "lock" \in s.held => s.pc = "open_plain"
    /\ "src" \in s.held => q.op \in {"open", "close", "copyfile"}
    /\ "dst" \in s.held => q.op = "copyfile"
    /\ s.strays = 0

-----------------------------------------------------------------------------
\* Reads and writes.

\* Where buffer i of q begins.
Begins(q, i) == IF i = 1 THEN 0 ELSE q.ends[i - 1]
\* What ReadsAndWritesAreExact is about.
Whole(q, s) == q.pipe \/ s.noPreadv => Len(q.ends) <= IovMax
FirstPlace(q) == IF q.off >= 0 THEN q.off ELSE 0
Emulates(s) == s.off >= 0 /\ s.nbufs > 1 /\ s.noPreadv

\* The chunk that begins at s.first, of what is left.
ChunkAt(q, s) ==
    /\ s.left >= 1 /\ s.first + s.left <= Len(q.ends) /\ s.first % IovMax = 0
    /\ s.left = Len(q.ends) - s.first \/ (s.first = 0 /\ s.left = Least(Len(q.ends), IovMax))
    /\ s.nbufs = Least(s.left, IovMax)
    /\ s.total = 0 <=> s.first = 0

\* n bytes have been transferred, of which total by earlier chunks.
Transferred(q, s, n) ==
    /\ s.moved = Places(n, 0, FirstPlace(q))
    /\ s.off = IF q.off >= 0 THEN q.off + s.total ELSE q.off
    /\ s.fpos = IF q.off >= 0 THEN 0 ELSE n

\* Buffer i is where the next byte goes, unless the file has come to its end.
Reached(q, i, n) == Begins(q, i) = n \/ q.size <= FirstPlace(q) + n

TransferAt(q, s) ==
    /\ ChunkAt(q, s)
    /\ s.index \in 0..s.nbufs - 1
    /\ ~Emulates(s) => s.nread = 0 /\ Begins(q, s.first + s.index + 1) = Begins(q, s.first + 1)
    /\ Whole(q, s) =>
          /\ Transferred(q, s, s.total + s.nread)
          /\ Reached(q, IF Emulates(s) THEN s.first + s.index + 1 ELSE s.first + 1, s.total + s.nread)

TransferInv(q, s) ==
    /\ s.pc \in {"call", "queued", "transfer"} \cup Over
    /\ s.pc = "transfer" => TransferAt(q, s)
    /\ s.pc \in Over /\ Whole(q, s) => s.moved = Places(Positive(s.result), 0, FirstPlace(q))

-----------------------------------------------------------------------------
\* sendfile.

Source(q) == IF q.pipe THEN 0 ELSE q.off
Emulating == {"emul_read", "emul_write", "poll"}

\* n bytes have been sent, from place p of the source.
EmulAt(q, s, p) ==
    /\ s.pc = "emul_read" => s.moved = Places(s.nsent + p, Source(q), 0)
    /\ s.pc \in {"emul_write", "poll"} =>
          /\ s.moved = Places(p + s.nsent + s.nwritten, Source(q), 0)
          /\ s.from = Source(q) + p + s.nsent /\ s.nwritten < s.nread

SendExact(q, s) ==
    /\ s.pc = "sendfile" => s.moved = << >> /\ s.off = q.off
    /\ s.pc \in Emulating => s.off = q.off /\ EmulAt(q, s, 0)
    /\ q.pipe /\ s.pc = "emul_read" => s.fpos = s.nsent /\ (s.usePread => s.nsent = 0)
    /\ q.pipe /\ s.pc \in {"emul_write", "poll"} => ~s.usePread /\ s.fpos = s.nsent + s.nread
    /\ ~q.pipe /\ s.pc \in Emulating => s.usePread
    /\ s.pc \in Over /\ ~s.cancelled =>
          IF s.result >= 0 THEN s.moved = Places(s.result, Source(q), 0) /\ s.off = q.off + s.result
          ELSE s.moved = Places(Len(s.moved), Source(q), 0) /\ (s.moved = << >> \/ ~s.wrote)

SendInv(q, s) ==
    /\ s.pc \in {"call", "queued", "sendfile"} \cup Emulating \cup Over
    /\ s.pc = "sendfile" => q.kernel # "none"
    /\ ~s.misread => SendExact(q, s)

-----------------------------------------------------------------------------
\* copyfile.

Opening == {"open", "open_plain", "fstat"}
Sending == {"fchmod", "sendfile"} \cup Emulating

CopyHolds(q, s) ==
    /\ s.pc = "queued" \/ s.pc \in Over => s.held \cap {"src", "dst"} = {}
    /\ s.pc = "queued" => s.dst # "ours"
    /\ s.pc \in Opening =>
          /\ s.dst \in {"old", "absent"} /\ "dst" \notin s.held
          /\ s.pc # "fstat" /\ s.who = "src" => "src" \notin s.held
          /\ s.pc = "fstat" => s.who = "src"
    /\ s.pc \in Sending => s.dst = "ours" /\ s.who = "dst" /\ "dst" \in s.held
    /\ s.pc = "close_src" => s.copied <= 0 /\ ("dst" \in s.held <=> s.dst = "ours") /\ (s.copied = 0 => s.dst = "ours")
    /\ s.pc = "close_dst" => s.copied <= 0 /\ s.dst = "ours" /\ "src" \notin s.held
    /\ s.pc = "unlink" => s.copied < 0 /\ s.dst = "ours" /\ s.held \cap {"src", "dst"} = {}
    /\ s.pc \in {"close_src", "close_dst", "unlink"} /\ s.copied = -1 => s.errno # EINTR
    /\ q.excl /\ q.exists =>
          /\ s.dst = "old" /\ s.pc \notin Sending \cup {"close_dst", "unlink"}
          /\ s.pc = "open_plain" => s.who = "src"

\* What holds where fchmod does not fail with EPERM.
CopyTells(q, s) ==
    /\ s.pc = "close_src" /\ s.copied = -1 => s.errno = EPERM /\ "dst" \notin s.held
    /\ s.pc \in {"close_dst", "unlink"} => s.copied # -1
    /\ s.pc \in Over /\ ~s.cancelled => s.result <= 0 /\ (s.result = 0 <=> s.dst = "ours")

CopyAt(q, s) == s.off >= 0 /\ s.off + s.len = q.size

CopyExact(q, s) ==
    /\ s.pc \in Opening \cup {"fchmod"} => s.moved = << >> /\ s.off = 0
    /\ s.pc \in {"open", "open_plain", "fchmod"} /\ s.who = "dst" => s.len = q.size
    /\ s.pc = "sendfile" => CopyAt(q, s) /\ s.len > 0 /\ s.moved = Places(s.off, 0, 0)
    /\ s.pc \in Emulating =>
          /\ CopyAt(q, s) /\ s.nsent <= s.len /\ s.usePread /\ EmulAt(q, s, s.off)
          /\ s.pc # "emul_read" => s.nsent + s.nread <= s.len
    /\ s.pc \in {"close_src", "close_dst"} /\ s.copied = 0 => s.moved = Places(q.size, 0, 0)
    /\ s.pc \in Over /\ ~s.cancelled /\ s.result = 0 => s.moved = Places(q.size, 0, 0)

CopyInv(q, s) ==
    /\ s.pc \in {"call", "queued", "close_src", "close_dst", "unlink"} \cup Opening \cup Sending \cup Over
    /\ CopyHolds(q, s)
    /\ EPERM \notin ChmodErrors => CopyTells(q, s) /\ (~s.misread => CopyExact(q, s))

-----------------------------------------------------------------------------
\* open, and the others.

OpenInv(q, s) ==
    /\ s.pc \in {"call", "queued", "open", "open_plain"} \cup Over
    /\ s.who = "src"
    /\ "src" \in s.held <=> s.pc \in Over /\ ~s.cancelled /\ s.result >= 0

PlainInv(q, s) ==
    /\ s.pc \in {"call", "queued", "plain"} \cup Over
    /\ "src" \in s.held <=> q.op = "close" /\ (s.pc \in {"call", "queued", "plain"} \/ s.cancelled)

WorkInv(q, s) ==
    /\ s \in WorkType
    /\ Common(q, s)
    /\ IsTransfer(q) => TransferInv(q, s)
    /\ q.op = "sendfile" => SendInv(q, s)
    /\ q.op = "copyfile" => CopyInv(q, s)
    /\ q.op = "open" => OpenInv(q, s)
    /\ IsPlain(q) => PlainInv(q, s)

UnixFilesInv == request \in Made /\ WorkInv(request, work)

\* A request that is refused is so at once.
RefusedInv ==
    /\ request \in Requests /\ Refused(request)
    /\ work \in {New(request), [New(request) EXCEPT !.pc = "cleaned", !.result = -EINVAL, !.held = Registered]}

-----------------------------------------------------------------------------
\* Where buffers begin and end.

LEMMA RequestIs ==
    ASSUME NEW q \in Made
    PROVE  /\ q.ends \in Seq(Nat) /\ Len(q.ends) \in Nat /\ q.off \in Int /\ q.len \in Nat /\ q.size \in Nat
           /\ q.pipe \in BOOLEAN /\ q.old \in BOOLEAN /\ q.async \in BOOLEAN /\ q.excl \in BOOLEAN /\ q.exists \in BOOLEAN
           /\ IovMax \in Nat /\ IovMax > 0 /\ EmulBuf \in Nat /\ EmulBuf > 0
           /\ ~IsTransfer(q) => q.ends = << >>
           /\ q.op = "sendfile" => q.off \in Nat /\ (q.pipe => q.kernel = "none")
           /\ q.op = "copyfile" => q.off = 0 /\ ~q.pipe
           /\ IsTransfer(q) /\ q.pipe => q.off < 0
  BY RequestsAssumption DEF IsTransfer, Made

LEMMA EndsAre ==
    ASSUME NEW q \in Made, IsTransfer(q)
    PROVE  /\ Len(q.ends) >= 1
           /\ \A i \in 1..Len(q.ends) : q.ends[i] \in Nat
           /\ \A i, j \in 1..Len(q.ends) : i <= j => q.ends[i] <= q.ends[j]
           /\ \A i \in 1..Len(q.ends) : (i - 1) % IovMax = 0 =>
                 Begins(q, i) < q.ends[Least(i + IovMax - 1, Len(q.ends))]
<1>1. q.ends \in Seq(Nat) /\ DOMAIN q.ends = 1..Len(q.ends) /\ Len(q.ends) \in Nat
  BY RequestIs
<1>2. Len(q.ends) >= 1
  <2>1. q.ends # << >>
    BY DEF Made, Refused, IsTransfer
  <2> QED BY <1>1, <2>1
<1>3. \A i \in 1..Len(q.ends) : q.ends[i] \in Nat
  BY <1>1
<1> QED BY <1>1, <1>2, <1>3, RequestsAssumption DEF IsTransfer, Begins, Made

LEMMA BeginsOrder ==
    ASSUME NEW q \in Made, IsTransfer(q), NEW i \in 1..Len(q.ends) + 1, NEW j \in 1..Len(q.ends) + 1, i <= j
    PROVE  Begins(q, i) \in Nat /\ Begins(q, j) \in Nat /\ Begins(q, i) <= Begins(q, j)
<1>1. Len(q.ends) \in Nat
  BY RequestIs
<1>2. \A k \in 1..Len(q.ends) + 1 : k # 1 => k - 1 \in 1..Len(q.ends)
  BY <1>1
<1> QED BY <1>1, <1>2, EndsAre DEF Begins

\* Empty buffers begin where those after them do.
LEMMA EmptyRun ==
    ASSUME NEW q \in Made, IsTransfer(q), NEW a \in Nat, NEW b \in Nat, 1 <= a, a <= b, b <= Len(q.ends) + 1,
           \A i \in a..b - 1 : q.ends[i] = Begins(q, i)
    PROVE  Begins(q, b) = Begins(q, a)
<1>0. Len(q.ends) \in Nat
  BY RequestIs
<1> DEFINE T == {i \in a..b : Begins(q, i) # Begins(q, a)}
<1>1. SUFFICES ASSUME T # {} PROVE FALSE
  BY <1>0
<1>7. T \subseteq Nat
  OBVIOUS
<1> HIDE DEF T
<1>2. PICK m \in T : \A n \in T : m <= n
  BY <1>1, <1>7, NatMin
<1> USE DEF T
<1>3. m > a /\ m <= b /\ m \in Nat
  OBVIOUS
<1>4. m - 1 \in a..b - 1 /\ ~(m - 1 \in T)
  BY <1>2, <1>3
<1>5. Begins(q, m - 1) = Begins(q, a)
  BY <1>4
<1>6. Begins(q, m) = q.ends[m - 1]
  BY <1>3 DEF Begins
<1> QED BY <1>4, <1>5, <1>6

\* A chunk of buffers has one that is not empty.
LEMMA ChunkHas ==
    ASSUME NEW q \in Made, IsTransfer(q), NEW first \in Nat, NEW left \in Nat, left >= 1, first + left <= Len(q.ends),
           first % IovMax = 0, left = Len(q.ends) - first \/ (first = 0 /\ left = Least(Len(q.ends), IovMax))
    PROVE  \E k \in 0..Least(left, IovMax) - 1 :
              /\ q.ends[first + k + 1] # Begins(q, first + k + 1)
              /\ \A j \in 0..k - 1 : q.ends[first + j + 1] = Begins(q, first + j + 1)
<1> DEFINE n == Least(left, IovMax)
           T == {k \in 0..n - 1 : q.ends[first + k + 1] # Begins(q, first + k + 1)}
<1>0. Len(q.ends) \in Nat /\ IovMax \in Nat /\ IovMax > 0 /\ n \in Nat /\ n >= 1 /\ first + n <= Len(q.ends)
  BY RequestIs DEF Least
<1>1. first + n = Least(first + 1 + IovMax - 1, Len(q.ends))
  BY <1>0 DEF Least
<1>2. first + 1 \in 1..Len(q.ends) /\ (first + 1 - 1) % IovMax = 0
  BY <1>0
<1>3. Begins(q, first + 1) < q.ends[first + n]
  BY <1>1, <1>2, EndsAre
<1>4. q.ends[first + n] = Begins(q, first + n + 1)
  BY <1>0 DEF Begins
<1>5. T # {}
  <2> SUFFICES ASSUME T = {} PROVE FALSE
    OBVIOUS
  <2>1. \A i \in first + 1..first + n + 1 - 1 : q.ends[i] = Begins(q, i)
    <3> TAKE i \in first + 1..first + n + 1 - 1
    <3>1. i - first - 1 \in 0..n - 1 /\ first + (i - first - 1) + 1 = i
      BY <1>0
    <3> QED BY <3>1
  <2>2. Begins(q, first + n + 1) = Begins(q, first + 1)
    BY <2>1, <1>0, EmptyRun, SMTT(30)
  <2>3. Begins(q, first + 1) \in Nat
    <3>1. first + 1 \in 1..Len(q.ends) + 1
      BY <1>0
    <3> QED BY <3>1, BeginsOrder
  <2> QED BY <2>2, <2>3, <1>3, <1>4
<1>8. T \subseteq Nat
  BY <1>0
<1> HIDE DEF T
<1>6. PICK m \in T : \A k \in T : m <= k
  BY <1>5, <1>8, NatMin
<1> USE DEF T
<1>9. m \in 0..n - 1
  OBVIOUS
<1> HIDE DEF n
<1>7. \A j \in 0..m - 1 : j \in 0..n - 1 /\ j \notin T
  <2> TAKE j \in 0..m - 1
  <2>1. j \in 0..n - 1 /\ ~(m <= j)
    BY <1>9, <1>0
  <2>2. j \notin T
    BY <1>6, <2>1
  <2> QED BY <2>1, <2>2
<1> USE DEF n
<1> QED BY <1>6, <1>7

-----------------------------------------------------------------------------
\* Reads and writes, chunk by chunk.

Kept(c, s) == c.held = s.held /\ c.cancelled = s.cancelled /\ c.strays = s.strays

LEMMA ChunkIs ==
    ASSUME request \in Made, IsTransfer(request), NEW s \in WorkType,
           s.left >= 1, s.first + s.left <= Len(request.ends), s.first % IovMax = 0,
           s.left = Len(request.ends) - s.first \/ (s.first = 0 /\ s.left = Least(Len(request.ends), IovMax))
    PROVE  \E k \in 0..Least(s.left, IovMax) - 1 :
              /\ Chunk(s) = [s EXCEPT !.pc = "transfer", !.nbufs = Least(s.left, IovMax), !.index = k, !.nread = 0]
              /\ Begins(request, s.first + k + 1) = Begins(request, s.first + 1)
<1> DEFINE n == Least(s.left, IovMax)
           full == {i \in 0..n - 1 : ~Empty(s.first + i + 1)}
<1>a. s.left \in Int /\ s.first \in Nat
  BY DEF WorkType
<1>0. /\ Len(request.ends) \in Nat /\ IovMax \in Nat /\ IovMax > 0 /\ s.left \in Nat /\ s.first \in Nat
      /\ n \in Nat /\ n >= 1 /\ s.first + n <= Len(request.ends)
  BY RequestIs, <1>a DEF Least
<1>b. \E k \in 0..n - 1 : /\ request.ends[s.first + k + 1] # Begins(request, s.first + k + 1)
                          /\ \A j \in 0..k - 1 : request.ends[s.first + j + 1] = Begins(request, s.first + j + 1)
  <2> DEFINE f == s.first
             l == s.left
  <2>1. f \in Nat /\ l \in Nat /\ l >= 1 /\ f + l <= Len(request.ends) /\ f % IovMax = 0
        /\ (l = Len(request.ends) - f \/ (f = 0 /\ l = Least(Len(request.ends), IovMax)))
    BY <1>0
  <2> HIDE DEF f, l
  <2>2. \E k \in 0..Least(l, IovMax) - 1 :
              /\ request.ends[f + k + 1] # Begins(request, f + k + 1)
              /\ \A j \in 0..k - 1 : request.ends[f + j + 1] = Begins(request, f + j + 1)
    BY <2>1, ChunkHas
  <2> QED BY <2>2 DEF f, l
<1>1. PICK k \in 0..n - 1 : /\ request.ends[s.first + k + 1] # Begins(request, s.first + k + 1)
                            /\ \A j \in 0..k - 1 : request.ends[s.first + j + 1] = Begins(request, s.first + j + 1)
  BY <1>b
<1>2. \A i : Empty(i) <=> request.ends[i] = Begins(request, i)
  BY DEF Empty, Start, Begins
<1> HIDE DEF n
<1>3. k \in full /\ \A i \in full : k <= i
  <2>1. k \in full
    BY <1>1, <1>2
  <2>2. ASSUME NEW i \in full PROVE k <= i
    <3>1. i \in Int /\ k \in Int /\ 0 <= i /\ ~Empty(s.first + i + 1)
      BY <1>0
    <3>2. ~(i \in 0..k - 1)
      BY <1>1, <1>2, <3>1
    <3> QED BY <3>1, <3>2
  <2> QED BY <2>1, <2>2
<1>4. (CHOOSE i \in full : \A j \in full : i <= j) = k
  <2>1. ASSUME NEW i \in full, \A j \in full : i <= j PROVE i = k
    <3>1. i \in Int /\ k \in Int /\ i <= k /\ k <= i
      BY <1>0, <1>3, <2>1
    <3> QED BY <3>1
  <2> HIDE DEF full
  <2> QED BY <1>3, <2>1
<1>5. Chunk(s) = [s EXCEPT !.pc = "transfer", !.nbufs = n, !.index = k, !.nread = 0]
  BY <1>4 DEF Chunk, n
<1>6. Begins(request, s.first + k + 1) = Begins(request, s.first + 1)
  <2> DEFINE f == s.first
  <2>0. k \in Nat /\ k < n /\ f \in Nat /\ f + n <= Len(request.ends)
    BY <1>0
  <2>3. \A j \in 0..k - 1 : request.ends[f + j + 1] = Begins(request, f + j + 1)
    BY <1>1
  <2> HIDE DEF f
  <2>1. \A i \in f + 1..f + k + 1 - 1 : request.ends[i] = Begins(request, i)
    <3> TAKE i \in f + 1..f + k + 1 - 1
    <3>1. i - f - 1 \in 0..k - 1 /\ f + (i - f - 1) + 1 = i
      BY <2>0
    <3> QED BY <3>1, <2>3
  <2>2. f + 1 \in Nat /\ f + k + 1 \in Nat /\ f + k + 1 <= Len(request.ends) + 1 /\ f + 1 <= f + k + 1 /\ 1 <= f + 1
    BY <1>0, <2>0
  <2>4. Begins(request, f + k + 1) = Begins(request, f + 1)
    <3> DEFINE a == f + 1
               b == f + k + 1
    <3>1. a \in Nat /\ b \in Nat /\ b <= Len(request.ends) + 1 /\ a <= b /\ 1 <= a
      BY <2>2
    <3>3. \A i \in a..b - 1 : request.ends[i] = Begins(request, i)
      BY <2>0, <2>1
    <3> HIDE DEF a, b
    <3>2. Begins(request, b) = Begins(request, a)
      BY <3>1, <3>3, EmptyRun
    <3> QED BY <3>2 DEF a, b
  <2> QED BY <2>4 DEF f
<1> QED BY <1>5, <1>6 DEF n

LEMMA ChunkInv ==
    ASSUME request \in Made, IsTransfer(request), NEW s \in WorkType,
           s.left >= 1, s.first + s.left <= Len(request.ends), s.first % IovMax = 0,
           s.left = Len(request.ends) - s.first \/ (s.first = 0 /\ s.left = Least(Len(request.ends), IovMax)),
           s.total = 0 <=> s.first = 0,
           Whole(request, s) => Transferred(request, s, s.total) /\ Reached(request, s.first + 1, s.total)
    PROVE  Chunk(s) \in WorkType /\ Chunk(s).pc = "transfer" /\ TransferAt(request, Chunk(s)) /\ Kept(Chunk(s), s)
<1> DEFINE n == Least(s.left, IovMax)
<1>0. /\ Len(request.ends) \in Nat /\ IovMax \in Nat /\ IovMax > 0 /\ s.left \in Nat /\ s.first \in Nat
      /\ n \in Nat /\ n >= 1
  <2>1. s.left \in Int /\ s.first \in Nat
    BY DEF WorkType
  <2>2. Len(request.ends) \in Nat /\ IovMax \in Nat /\ IovMax > 0
    BY RequestIs
  <2>3. s.left \in Nat
    BY <2>1
  <2> QED
    BY <2>1, <2>2, <2>3 DEF Least
<1>1. PICK k \in 0..n - 1 :
              /\ Chunk(s) = [s EXCEPT !.pc = "transfer", !.nbufs = n, !.index = k, !.nread = 0]
              /\ Begins(request, s.first + k + 1) = Begins(request, s.first + 1)
  BY ChunkIs
<1> DEFINE c == Chunk(s)
<1> HIDE DEF n
<1>2. c \in WorkType
  <2>1. "transfer" \in Pcs /\ k \in Int /\ 0 \in Nat
    BY <1>0 DEF Pcs
  <2>2. [s EXCEPT !.pc = "transfer", !.nbufs = n, !.index = k, !.nread = 0] \in WorkType
    BY <1>0, <2>1 DEF WorkType
  <2> QED BY <1>1, <2>2
<1>3. /\ c.pc = "transfer" /\ c.nbufs = n /\ c.index = k /\ c.nread = 0 /\ c.left = s.left /\ c.first = s.first /\ c.total = s.total
      /\ c.off = s.off /\ c.moved = s.moved /\ c.fpos = s.fpos /\ c.noPreadv = s.noPreadv
      /\ c.held = s.held /\ c.cancelled = s.cancelled /\ c.strays = s.strays
  BY <1>1 DEF WorkType
<1> HIDE DEF c
<1>4. ChunkAt(request, c)
  BY <1>3 DEF ChunkAt, n
<1>5. c.total + c.nread = s.total
  BY <1>3 DEF WorkType
<1>6. Whole(request, c) => /\ Transferred(request, c, c.total + c.nread)
                           /\ Reached(request, IF Emulates(c) THEN c.first + c.index + 1 ELSE c.first + 1, c.total + c.nread)
  <2>1. Whole(request, c) <=> Whole(request, s)
    BY <1>3 DEF Whole
  <2>2. Transferred(request, s, s.total) => Transferred(request, c, s.total)
    BY <1>3 DEF Transferred
  <2>3. Reached(request, s.first + 1, s.total) => Reached(request, s.first + k + 1, s.total)
    BY <1>1 DEF Reached
  <2> QED BY <2>1, <2>2, <2>3, <1>3, <1>5
<1>7. TransferAt(request, c)
  BY <1>1, <1>3, <1>4, <1>6 DEF TransferAt
<1> QED BY <1>2, <1>3, <1>7 DEF Kept, c

LEMMA ErrnoTyped ==
    ASSUME NEW s \in WorkType, NEW e \in Nat
    PROVE  [s EXCEPT !.errno = e] \in WorkType
  BY DEF WorkType

LEMMA BeginTransfer ==
    ASSUME request \in Made, IsTransfer(request), NEW s \in WorkType, s.first = 0, s.total = 0,
           s.nbufs = Len(request.ends) \/ s.nbufs = Least(Len(request.ends), IovMax),
           Whole(request, s) => Transferred(request, s, 0)
    PROVE  Begin(s) \in WorkType /\ Begin(s).pc = "transfer" /\ TransferAt(request, Begin(s)) /\ Kept(Begin(s), s)
<1> DEFINE t == [[s EXCEPT !.errno = 0] EXCEPT !.left = s.nbufs, !.total = 0]
<1>1. t \in WorkType
  <2> DEFINE u == [s EXCEPT !.errno = 0]
  <2>1. u \in WorkType /\ s.nbufs \in Int
    <3>1. 0 \in Nat
      OBVIOUS
    <3>2. s.nbufs \in Int
      BY DEF WorkType
    <3>3. u \in WorkType
      BY <3>1, ErrnoTyped
    <3> QED BY <3>2, <3>3
  <2> HIDE DEF u
  <2>2. [u EXCEPT !.left = s.nbufs, !.total = 0] \in WorkType
    BY <2>1 DEF WorkType
  <2> QED BY <2>2 DEF u
<1>2. /\ t.left = s.nbufs /\ t.total = 0 /\ t.first = 0 /\ t.held = s.held /\ t.cancelled = s.cancelled /\ t.strays = s.strays
      /\ t.moved = s.moved /\ t.off = s.off /\ t.fpos = s.fpos /\ t.noPreadv = s.noPreadv
  BY DEF WorkType
<1>3. Begin(s) = Chunk(t)
  BY DEF Begin, IsTransfer
<1> HIDE DEF t
<1>4. Len(request.ends) \in Nat /\ Len(request.ends) >= 1 /\ IovMax \in Nat /\ IovMax > 0
  BY RequestIs, EndsAre
<1>5. /\ t.left >= 1 /\ t.first + t.left <= Len(request.ends) /\ t.first % IovMax = 0
      /\ t.left = Len(request.ends) - t.first \/ (t.first = 0 /\ t.left = Least(Len(request.ends), IovMax))
      /\ t.total = 0 <=> t.first = 0
  BY <1>2, <1>4 DEF Least
<1>6. Whole(request, t) => Transferred(request, t, t.total) /\ Reached(request, t.first + 1, t.total)
  BY <1>2 DEF Whole, Transferred, Reached, Begins
<1>7. Chunk(t) \in WorkType /\ Chunk(t).pc = "transfer" /\ TransferAt(request, Chunk(t)) /\ Kept(Chunk(t), t)
  BY <1>1, <1>5, <1>6, ChunkInv
<1> QED BY <1>2, <1>3, <1>7 DEF Kept

\* What a chunk that has ended with r has done.
ChunkDid(q, s, r) ==
    Whole(q, s) =>
       /\ s.moved = Places(s.total + Positive(r), 0, FirstPlace(q))
       /\ s.off = IF q.off >= 0 THEN q.off + s.total ELSE q.off
       /\ s.fpos = IF q.off >= 0 THEN 0 ELSE s.total + Positive(r)
       /\ r > 0 /\ s.left > s.nbufs => Reached(q, s.first + s.nbufs + 1, s.total + r)

\* The next one has begun, or the request is done.
GoesOn(q, c, s) ==
    /\ c \in WorkType /\ c.cancelled = s.cancelled /\ c.strays = s.strays
    /\ \/ c.pc = "transfer" /\ TransferAt(q, c) /\ c.held = s.held
       \/ /\ c.pc = "done" /\ c.held = s.held \ {"bufs"}
          /\ Whole(q, c) => c.moved = Places(Positive(c.result), 0, FirstPlace(q))

LEMMA NextMultiple ==
    ASSUME NEW i \in Nat, NEW n \in Nat, n > 0, i % n = 0
    PROVE  (i + n) % n = 0
<1>1. i = n * (i \div n)
  OBVIOUS
<1>2. i \div n \in Int
  OBVIOUS
<1>3. PICK k \in Int : i = n * k
  BY <1>1, <1>2
<1>4. i + n = n * (k + 1)
  BY <1>3
<1>5. (n * (k + 1)) % n = 0
  OBVIOUS
<1> QED BY <1>4, <1>5

LEMMA ProcessedInv ==
    ASSUME request \in Made, IsTransfer(request), NEW s \in WorkType, ChunkAt(request, s), NEW r \in Int, r >= -1,
           ChunkDid(request, s, r)
    PROVE  GoesOn(request, Processed(s, r), s)
<1>0. /\ Len(request.ends) \in Nat /\ Len(request.ends) >= 1 /\ IovMax \in Nat /\ IovMax > 0
      /\ s.total \in Nat /\ s.first \in Nat /\ s.left \in Int /\ s.nbufs \in Nat /\ s.off \in Int /\ s.errno \in Nat
      /\ s.held \subseteq Things
  BY RequestIs, EndsAre DEF WorkType
<1>1. CASE r > 0 /\ s.left > s.nbufs
  <2> DEFINE t == [s EXCEPT !.off = IF @ >= 0 THEN @ + r ELSE @, !.first = @ + s.nbufs, !.left = @ - s.nbufs, !.total = @ + r]
  <2>1. Processed(s, r) = Chunk(t)
    BY <1>1 DEF Processed
  <2>2. t \in WorkType
    <3>1. s.first + s.nbufs \in Nat /\ s.left - s.nbufs \in Int /\ s.total + r \in Nat
          /\ (IF s.off >= 0 THEN s.off + r ELSE s.off) \in Int
      BY <1>0, <1>1
    <3> QED BY <3>1 DEF WorkType
  <2>3. /\ t.off = (IF s.off >= 0 THEN s.off + r ELSE s.off) /\ t.first = s.first + s.nbufs /\ t.left = s.left - s.nbufs
        /\ t.total = s.total + r /\ t.moved = s.moved /\ t.fpos = s.fpos /\ t.noPreadv = s.noPreadv
        /\ t.held = s.held /\ t.cancelled = s.cancelled /\ t.strays = s.strays
    BY DEF WorkType
  <2> HIDE DEF t
  <2>4. s.nbufs = IovMax /\ s.left = Len(request.ends) - s.first
    BY <1>0, <1>1 DEF ChunkAt, Least
  <2>5. /\ t.left >= 1 /\ t.first + t.left <= Len(request.ends)
        /\ t.left = Len(request.ends) - t.first
        /\ t.total = 0 <=> t.first = 0
    BY <1>0, <1>1, <2>3, <2>4
  <2>6. t.first % IovMax = 0
    <3>1. s.first % IovMax = 0
      BY DEF ChunkAt
    <3> QED BY <1>0, <2>3, <2>4, <3>1, NextMultiple, ZenonT(40)
  <2>7. Whole(request, t) => Transferred(request, t, t.total) /\ Reached(request, t.first + 1, t.total)
    <3> SUFFICES ASSUME Whole(request, t) PROVE Transferred(request, t, t.total) /\ Reached(request, t.first + 1, t.total)
      OBVIOUS
    <3>1. Whole(request, s)
      BY <2>3 DEF Whole
    <3>2. /\ s.moved = Places(s.total + r, 0, FirstPlace(request))
          /\ s.off = IF request.off >= 0 THEN request.off + s.total ELSE request.off
          /\ s.fpos = IF request.off >= 0 THEN 0 ELSE s.total + r
          /\ Reached(request, s.first + s.nbufs + 1, s.total + r)
      BY <1>1, <3>1 DEF ChunkDid, Positive
    <3>3. t.off = IF request.off >= 0 THEN request.off + t.total ELSE request.off
      BY <1>0, <1>1, <2>3, <3>2, RequestIs
    <3> QED BY <2>3, <3>2, <3>3 DEF Transferred
  <2>8. Chunk(t) \in WorkType /\ Chunk(t).pc = "transfer" /\ TransferAt(request, Chunk(t)) /\ Kept(Chunk(t), t)
    BY <2>2, <2>5, <2>6, <2>7, ChunkInv
  <2> QED BY <2>1, <2>3, <2>8 DEF GoesOn, Kept
<1>2. CASE ~(r > 0 /\ s.left > s.nbufs) /\ s.errno = EINTR /\ Total(s, r) = -1
  <2>1. r = -1 /\ s.total = 0 /\ s.first = 0
    BY <1>0, <1>2 DEF Total, ChunkAt
  <2>2. Processed(s, r) = Begin(s)
    BY <1>2 DEF Processed, WorkEnds, IsTransfer
  <2>3. s.nbufs = Len(request.ends) \/ s.nbufs = Least(Len(request.ends), IovMax)
    BY <1>0, <2>1 DEF ChunkAt, Least
  <2>4. Whole(request, s) => Transferred(request, s, 0)
    <3>1. s.total + Positive(r) = 0
      BY <2>1 DEF Positive
    <3> QED BY <2>1, <3>1, RequestIs DEF ChunkDid, Transferred
  <2>5. Begin(s) \in WorkType /\ Begin(s).pc = "transfer" /\ TransferAt(request, Begin(s)) /\ Kept(Begin(s), s)
    BY <2>1, <2>3, <2>4, BeginTransfer
  <2> QED BY <2>2, <2>5 DEF GoesOn, Kept
<1>3. CASE ~(r > 0 /\ s.left > s.nbufs) /\ ~(s.errno = EINTR /\ Total(s, r) = -1)
  <2> DEFINE result == IF Total(s, r) = -1 THEN -s.errno ELSE Total(s, r)
             t == [s EXCEPT !.held = @ \ {"bufs"}]
             c == [t EXCEPT !.pc = "done", !.result = result]
  <2>0. t.errno = s.errno
    BY DEF WorkType
  <2>1. Processed(s, r) = c
    BY <1>3, <2>0 DEF Processed, WorkEnds
  <2>2. Total(s, r) \in Int /\ result \in Int
    BY <1>0 DEF Total
  <2> HIDE DEF result
  <2>3. c \in WorkType
    <3>1. s.held \ {"bufs"} \in SUBSET Things /\ "done" \in Pcs
      BY <1>0 DEF Pcs
    <3>2. t \in WorkType
      BY <3>1 DEF WorkType
    <3> HIDE DEF t
    <3> QED BY <2>2, <3>1, <3>2 DEF WorkType
  <2>4. /\ c.pc = "done" /\ c.held = s.held \ {"bufs"} /\ c.cancelled = s.cancelled /\ c.strays = s.strays /\ c.result = result
        /\ c.moved = s.moved /\ c.noPreadv = s.noPreadv
    BY DEF WorkType
  <2> HIDE DEF c
  <2>5. Positive(result) = s.total + Positive(r)
    BY <1>0 DEF Total, Positive, result
  <2>6. Whole(request, c) => c.moved = Places(Positive(c.result), 0, FirstPlace(request))
    BY <2>4, <2>5 DEF Whole, ChunkDid
  <2> QED BY <2>1, <2>3, <2>4, <2>6 DEF GoesOn
<1> QED BY <1>1, <1>2, <1>3

LEMMA WorkGoesOn ==
    ASSUME request \in Made, IsTransfer(request), NEW s, WorkInv(request, s), s.pc = "transfer", NEW c, GoesOn(request, c, s)
    PROVE  WorkInv(request, c)
<1>1. request.op \notin {"sendfile", "copyfile", "open", "close"} /\ ~IsPlain(request)
  BY DEF IsTransfer, IsPlain
<1>2. c \in WorkType /\ c.cancelled = s.cancelled /\ c.strays = s.strays /\ c.held \subseteq s.held
      /\ (c.pc = "transfer" \/ (c.pc = "done" /\ "bufs" \notin c.held))
  BY DEF GoesOn
<1>3. ~s.cancelled /\ s.strays = 0
  BY DEF WorkInv, Common, Over
<1>4. Common(request, c)
  BY <1>1, <1>2, <1>3 DEF WorkInv, Common
<1>5. TransferInv(request, c)
  BY <1>2 DEF GoesOn, TransferInv, Over
<1> QED BY <1>1, <1>2, <1>4, <1>5 DEF WorkInv

LEMMA BufferDoneInv ==
    ASSUME request \in Made, IsTransfer(request), NEW s \in WorkType, ChunkAt(request, s), s.index \in 0..s.nbufs - 1,
           s.pc = "transfer", Emulates(s), NEW r \in Int, r >= -1, r = -1 \/ s.nread >= r, request.op = "write" => r # 0,
           Whole(request, s) => Transferred(request, s, s.total + s.nread)
                                /\ (r > 0 => Reached(request, s.first + s.index + 2, s.total + s.nread))
    PROVE  GoesOn(request, BufferDone(s, r), s)
<1> DEFINE more == {i \in s.index + 1..s.nbufs - 1 : ~Empty(s.first + i + 1)}
<1>0. /\ Len(request.ends) \in Nat /\ IovMax \in Nat /\ s.total \in Nat /\ s.first \in Nat /\ s.left \in Int /\ s.nbufs \in Nat
      /\ s.index \in Nat /\ s.nread \in Nat /\ s.index < s.nbufs /\ s.first + s.nbufs <= Len(request.ends)
  <2>1. s.total \in Nat /\ s.first \in Nat /\ s.left \in Int /\ s.nbufs \in Nat /\ s.nread \in Nat
    BY DEF WorkType
  <2>2. Len(request.ends) \in Nat /\ IovMax \in Nat
    BY RequestIs
  <2>3. s.index \in Nat /\ s.index < s.nbufs
    BY <2>1
  <2>4. s.first + s.nbufs <= Len(request.ends)
    BY <2>1, <2>2 DEF ChunkAt, Least
  <2> QED BY <2>1, <2>2, <2>3, <2>4
<1>1. CASE more # {} /\ r > 0
  <2>1. more \subseteq Nat
    BY <1>0
  <2>2. PICK k \in more : \A i \in more : k <= i
    <3> HIDE DEF more
    <3> QED BY <1>1, <2>1, NatMin
  <2>3. (CHOOSE i \in more : \A j \in more : i <= j) = k
    <3>1. ASSUME NEW i \in more, \A j \in more : i <= j PROVE i = k
      <4>1. i \in Nat /\ k \in Nat /\ i <= k /\ k <= i
        BY <2>1, <2>2, <3>1
      <4> QED BY <4>1
    <3> HIDE DEF more
    <3> QED BY <2>2, <3>1
  <2> DEFINE c == [s EXCEPT !.index = k]
  <2>4. BufferDone(s, r) = c
    BY <1>1, <2>3 DEF BufferDone
  <2>5. k \in Int /\ k > s.index /\ k <= s.nbufs - 1 /\ k \in Nat
    BY <1>0
  <2>6. c \in WorkType
    BY <2>5 DEF WorkType
  <2>7. /\ c.index = k /\ c.pc = s.pc /\ c.nbufs = s.nbufs /\ c.left = s.left /\ c.first = s.first /\ c.total = s.total
        /\ c.nread = s.nread /\ c.off = s.off /\ c.moved = s.moved /\ c.fpos = s.fpos /\ c.noPreadv = s.noPreadv
        /\ c.held = s.held /\ c.cancelled = s.cancelled /\ c.strays = s.strays
    BY DEF WorkType
  <2> HIDE DEF c
  <2>8. Begins(request, s.first + k + 1) = Begins(request, s.first + s.index + 2)
    <3> DEFINE f == s.first
               d == s.index
               n == s.nbufs
               N == Len(request.ends)
               a == f + d + 2
               b == f + k + 1
    <3>0. f \in Nat /\ d \in Nat /\ n \in Nat /\ N \in Nat /\ k \in Nat /\ d < k /\ k <= n - 1 /\ f + n <= N
      BY <1>0, <2>5
    <3> HIDE DEF f, d, n, N
    <3>1. a \in Nat /\ b \in Nat /\ 1 <= a /\ a <= b /\ b <= N + 1
      BY <3>0
    <3>2. \A i \in a..b - 1 : request.ends[i] = Begins(request, i)
      <4> TAKE i \in a..b - 1
      <4> DEFINE j == i - f - 1
      <4>4. j \in d + 1..n - 1 /\ f + j + 1 = i /\ ~(k <= j)
        BY <3>0
      <4> HIDE DEF j
      <4>1. j \in s.index + 1..s.nbufs - 1 /\ s.first + j + 1 = i /\ ~(k <= j)
        BY <4>4 DEF f, d, n
      <4>2. j \notin more
        BY <2>2, <4>1
      <4>3. Empty(s.first + j + 1)
        BY <4>1, <4>2
      <4> QED BY <4>1, <4>3 DEF Empty, Start, Begins
    <3> HIDE DEF a, b
    <3>3. Begins(request, b) = Begins(request, a)
      BY <3>1, <3>2, EmptyRun DEF N
    <3> QED BY <3>3 DEF a, b, f, d
  <2>9. TransferAt(request, c)
    <3>1. ChunkAt(request, c) /\ Emulates(c)
      BY <2>7 DEF ChunkAt, Emulates
    <3>2. c.index \in 0..c.nbufs - 1
      BY <1>0, <2>5, <2>7
    <3>3. Whole(request, c) => Transferred(request, c, c.total + c.nread)
                               /\ Reached(request, c.first + c.index + 1, c.total + c.nread)
      BY <1>1, <2>7, <2>8 DEF Whole, Transferred, Reached
    <3> QED BY <3>1, <3>2, <3>3 DEF TransferAt
  <2> QED BY <2>4, <2>6, <2>7, <2>9 DEF GoesOn
<1>2. CASE ~(more # {} /\ r > 0)
  <2> DEFINE n == IF s.nread > 0 THEN s.nread ELSE r
  <2>1. BufferDone(s, r) = Processed(s, n)
    BY <1>2 DEF BufferDone, IsTransfer
  <2>2. n \in Int /\ n >= -1 /\ Positive(n) = s.nread
    BY <1>0 DEF Positive
  <2> HIDE DEF n
  <2>3. ChunkDid(request, s, n)
    <3>1. SUFFICES ASSUME Whole(request, s) PROVE /\ s.moved = Places(s.total + s.nread, 0, FirstPlace(request))
                                                  /\ s.off = IF request.off >= 0 THEN request.off + s.total ELSE request.off
                                                  /\ s.fpos = IF request.off >= 0 THEN 0 ELSE s.total + s.nread
                                                  /\ ~(s.left > s.nbufs)
      BY <2>2 DEF ChunkDid
    <3>2. Len(request.ends) <= IovMax
      BY <3>1 DEF Whole, Emulates
    <3>3. ~(s.left > s.nbufs)
      BY <1>0, <3>2 DEF ChunkAt, Least
    <3> QED BY <3>1, <3>3 DEF Transferred
  <2> QED BY <2>1, <2>2, <2>3, ProcessedInv
<1> QED BY <1>1, <1>2

LEMMA MovedTyped ==
    ASSUME NEW s \in WorkType, NEW m \in Seq(Int \X Int), NEW p \in Nat, NEW n \in Nat,
           NEW t, t = [s EXCEPT !.moved = m, !.fpos = p, !.nread = n]
    PROVE  /\ t \in WorkType
           /\ t.moved = m /\ t.fpos = p /\ t.nread = n
           /\ t.pc = s.pc /\ t.nbufs = s.nbufs /\ t.index = s.index /\ t.left = s.left /\ t.first = s.first /\ t.total = s.total
           /\ t.off = s.off /\ t.noPreadv = s.noPreadv
           /\ t.held = s.held /\ t.cancelled = s.cancelled /\ t.strays = s.strays
  BY DEF WorkType

\* n bytes go from where the next one is.
\* Where the next call reads or writes, and how much.
Window(s, low, high, at, size, room) ==
    /\ low = IF Emulates(s) THEN s.first + s.index + 1 ELSE s.first + 1
    /\ high = IF Emulates(s) THEN low ELSE s.first + s.nbufs
    /\ at = IF s.off >= 0 THEN s.off + s.nread ELSE s.fpos
    /\ size = Begins(request, high + 1) - Begins(request, low)
    /\ room = Least(size, IF request.size > at THEN request.size - at ELSE 0)

LEMMA WindowIs ==
    ASSUME request \in Made, IsTransfer(request), NEW s \in WorkType, TransferAt(request, s),
           NEW low, NEW high, NEW at, NEW size, NEW room, Window(s, low, high, at, size, room)
    PROVE  /\ s.nbufs >= 1 /\ s.nbufs <= IovMax /\ s.nbufs <= s.left /\ s.first + s.left <= Len(request.ends)
           /\ s.index \in 0..s.nbufs - 1 /\ (s.total = 0 <=> s.first = 0)
           /\ low \in 1..Len(request.ends) /\ high \in 1..Len(request.ends) /\ low <= high + 1 /\ s.index \in Nat
           /\ Begins(request, low) \in Nat /\ Begins(request, high + 1) \in Nat /\ size \in Nat /\ at \in Int
           /\ room \in Nat /\ room <= size /\ (room > 0 => at + room <= request.size)
           /\ (room = size \/ request.size <= at + room)
<1> DEFINE N == Len(request.ends)
<1>1. N \in Nat /\ N >= 1 /\ IovMax \in Nat /\ request.size \in Nat
  BY RequestIs, EndsAre
<1>2. /\ s.total \in Nat /\ s.first \in Nat /\ s.left \in Int /\ s.nbufs \in Nat /\ s.nread \in Nat /\ s.off \in Int /\ s.fpos \in Nat
  BY DEF WorkType
<1>3. /\ s.nbufs >= 1 /\ s.nbufs <= IovMax /\ s.nbufs <= s.left /\ s.first + s.left <= N /\ s.index \in 0..s.nbufs - 1
      /\ s.total = 0 <=> s.first = 0
  <2>1. ChunkAt(request, s) /\ s.index \in 0..s.nbufs - 1
    BY DEF TransferAt
  <2>2. s.nbufs = Least(s.left, IovMax) /\ s.left >= 1 /\ IovMax >= 1
    BY <2>1, RequestIs DEF ChunkAt
  <2> QED BY <1>1, <1>2, <2>1, <2>2 DEF ChunkAt, Least
<1> HIDE DEF N
<1>4. low \in 1..N /\ high \in 1..N /\ low <= high + 1 /\ s.index \in Nat
  <2>1. s.index \in Nat /\ s.index < s.nbufs /\ s.first + s.nbufs <= N
    BY <1>1, <1>2, <1>3
  <2>2. CASE Emulates(s)
    <3>1. low = s.first + s.index + 1 /\ high = low
      BY <2>2 DEF Window
    <3> QED BY <1>1, <1>2, <2>1, <3>1
  <2>3. CASE ~Emulates(s)
    <3>1. low = s.first + 1 /\ high = s.first + s.nbufs
      BY <2>3 DEF Window
    <3> QED BY <1>1, <1>2, <1>3, <2>1, <3>1
  <2> QED BY <2>2, <2>3
<1>5. Begins(request, low) \in Nat /\ Begins(request, high + 1) \in Nat /\ size \in Nat
  <2>1. low \in 1..N + 1 /\ high + 1 \in 1..N + 1
    BY <1>1, <1>4
  <2>2. Begins(request, low) \in Nat /\ Begins(request, high + 1) \in Nat /\ Begins(request, low) <= Begins(request, high + 1)
    BY <1>4, <2>1, BeginsOrder DEF N
  <2> QED BY <2>2 DEF Window
<1>6. at \in Int
  BY <1>2 DEF Window
<1>7. room \in Nat /\ room <= size /\ (room > 0 => at + room <= request.size) /\ (room = size \/ request.size <= at + room)
  BY <1>1, <1>5, <1>6 DEF Least, Window
<1> QED BY <1>3, <1>4, <1>5, <1>6, <1>7 DEF N

Going(s, low, high, at, size, room, n, t) ==
    /\ Window(s, low, high, at, size, room)
    /\ n \in Nat /\ (n = room \/ (request.pipe /\ n < room)) /\ (n > 0 \/ request.op = "read")
    /\ t = [s EXCEPT !.moved = @ \o [i \in 1..n |-> <<Start(low) + i - 1, at + i - 1>>],
                     !.fpos = IF s.off >= 0 THEN @ ELSE @ + n,
                     !.nread = IF Emulates(s) THEN @ + n ELSE @]

LEMMA GoesInv ==
    ASSUME request \in Made, IsTransfer(request), NEW s \in WorkType, s.pc = "transfer", TransferAt(request, s),
           NEW low, NEW high, NEW at, NEW size, NEW room, NEW n, NEW t, Going(s, low, high, at, size, room, n, t)
    PROVE  GoesOn(request, IF Emulates(s) THEN BufferDone(t, n) ELSE Processed(t, n), s)
<1> DEFINE N == Len(request.ends)
<1>1. N \in Nat /\ N >= 1 /\ IovMax \in Nat /\ request.size \in Nat /\ request.off \in Int /\ n \in Nat
  BY RequestIs, EndsAre DEF Going
<1>2. /\ s.total \in Nat /\ s.first \in Nat /\ s.left \in Int /\ s.nbufs \in Nat /\ s.nread \in Nat /\ s.off \in Int /\ s.fpos \in Nat
  BY DEF WorkType
<1>20. s.moved \in Seq(Int \X Int)
  BY DEF WorkType
<1>21. n \in Nat
  BY DEF Going
<1>22. Window(s, low, high, at, size, room)
  BY DEF Going
<1>3. /\ s.nbufs >= 1 /\ s.nbufs <= IovMax /\ s.nbufs <= s.left /\ s.first + s.left <= N /\ s.index \in 0..s.nbufs - 1
      /\ s.total = 0 <=> s.first = 0
  BY <1>22, WindowIs
<1> HIDE DEF N
<1>4. low \in 1..N /\ high \in 1..N /\ low <= high + 1 /\ s.index \in Nat
  BY <1>22, WindowIs DEF N
<1>5. Begins(request, low) \in Nat /\ Begins(request, high + 1) \in Nat /\ size \in Nat
  BY <1>22, WindowIs
<1>6. at \in Int
  BY <1>22, WindowIs
<1>7. room \in Nat /\ room <= size /\ n <= room /\ (n > 0 => at + room <= request.size)
      /\ (room = size \/ request.size <= at + room)
  <2>1. room \in Nat /\ room <= size /\ (room > 0 => at + room <= request.size) /\ (room = size \/ request.size <= at + room)
    BY <1>22, WindowIs
  <2>2. n <= room
    BY <1>21, <2>1 DEF Going
  <2> QED BY <1>21, <2>1, <2>2
<1>8. Start(low) = Begins(request, low)
  BY DEF Start, Begins
<1> DEFINE went == [i \in 1..n |-> <<Start(low) + i - 1, at + i - 1>>]
           fpos == IF s.off >= 0 THEN s.fpos ELSE s.fpos + n
           nread == IF Emulates(s) THEN s.nread + n ELSE s.nread
<1>9. went = Places(n, Begins(request, low), at)
  BY <1>8 DEF Places
<1> HIDE DEF went
<1>10. s.moved \o went \in Seq(Int \X Int) /\ fpos \in Nat /\ nread \in Nat
  <2>3. Places(n, Begins(request, low), at) \in Seq(Int \X Int)
    BY <1>21, <1>5, <1>6, PlacesAre
  <2>1. went \in Seq(Int \X Int)
    BY <2>3, <1>9
  <2>2. s.moved \o went \in Seq(Int \X Int)
    BY <1>2, <1>20, <1>21, <2>1, ConcatProperties
  <2> QED BY <1>2, <1>20, <1>21, <2>2
<1> HIDE DEF went, fpos, nread
<1>11. t = [s EXCEPT !.moved = s.moved \o went, !.fpos = fpos, !.nread = nread]
  BY DEF went, fpos, nread, Going, Window
<1> DEFINE m == s.moved \o went
<1>18. m \in Seq(Int \X Int) /\ t = [s EXCEPT !.moved = m, !.fpos = fpos, !.nread = nread]
  BY <1>10, <1>11
<1> HIDE DEF m
<1>12. t \in WorkType
  BY <1>10, <1>18, MovedTyped
<1>13. /\ t.moved = m /\ t.fpos = fpos /\ t.nread = nread
       /\ t.pc = s.pc /\ t.nbufs = s.nbufs /\ t.index = s.index /\ t.left = s.left /\ t.first = s.first /\ t.total = s.total
       /\ t.off = s.off /\ t.noPreadv = s.noPreadv
       /\ t.held = s.held /\ t.cancelled = s.cancelled /\ t.strays = s.strays
  BY <1>10, <1>18 DEF WorkType
<1>19. m = s.moved \o went
  BY DEF m
<1>14. Whole(request, t) =>
          /\ t.moved = Places(s.total + s.nread + n, 0, FirstPlace(request))
          /\ t.off = IF request.off >= 0 THEN request.off + s.total ELSE request.off
          /\ t.fpos = IF request.off >= 0 THEN 0 ELSE s.total + s.nread + n
          /\ at = FirstPlace(request) + s.total + s.nread
          /\ n > 0 => Begins(request, low) = s.total + s.nread
          /\ n > 0 /\ ~request.pipe => Reached(request, high + 1, s.total + s.nread + n)
  <2> SUFFICES ASSUME Whole(request, t)
               PROVE  /\ t.moved = Places(s.total + s.nread + n, 0, FirstPlace(request))
                      /\ t.off = IF request.off >= 0 THEN request.off + s.total ELSE request.off
                      /\ t.fpos = IF request.off >= 0 THEN 0 ELSE s.total + s.nread + n
                      /\ at = FirstPlace(request) + s.total + s.nread
                      /\ n > 0 => Begins(request, low) = s.total + s.nread
                      /\ n > 0 /\ ~request.pipe => Reached(request, high + 1, s.total + s.nread + n)
    OBVIOUS
  <2> DEFINE M == s.total + s.nread
  <2>1. Transferred(request, s, M) /\ Reached(request, low, M)
    BY <1>13 DEF Whole, TransferAt, Going, Window
  <2>2. M \in Nat
    BY <1>2
  <2>3. at = FirstPlace(request) + M
    BY <1>1, <1>2, <2>1 DEF Transferred, FirstPlace, Going, Window
  <2>4. t.off = IF request.off >= 0 THEN request.off + s.total ELSE request.off
    BY <1>13, <2>1 DEF Transferred
  <2>5. s.off >= 0 <=> request.off >= 0
    BY <1>1, <1>2, <2>4, <1>13
  <2>6. t.fpos = IF request.off >= 0 THEN 0 ELSE M + n
    BY <1>13, <2>1, <2>5 DEF Transferred, fpos
  <2>7. n > 0 => Begins(request, low) = M
    <3> HIDE DEF M
    <3>1. n > 0 => ~(request.size <= FirstPlace(request) + M)
      BY <1>1, <1>6, <1>7, <2>2, <2>3
    <3> QED BY <2>1, <3>1 DEF Reached
  <2>8. t.moved = Places(M + n, 0, FirstPlace(request))
    <3> HIDE DEF M
    <3>1. FirstPlace(request) \in Int /\ s.moved = Places(M, 0, FirstPlace(request))
      BY <1>1, <2>1 DEF FirstPlace, Transferred
    <3>2. CASE n = 0
      <4>1. went = << >>
        BY <1>21, <1>5, <1>6, <1>9, <3>2, PlacesAre
      <4>2. s.moved \o << >> = s.moved
        BY <1>2, <1>20, <1>21, ConcatEmptySeq
      <4>3. M + n = M
        BY <2>2, <3>2
      <4> QED BY <1>13, <1>19, <3>1, <4>1, <4>2, <4>3
    <3>3. CASE n > 0
      <4>1. went = Places(n, 0 + M, FirstPlace(request) + M)
        <5>1. at = FirstPlace(request) + M /\ Begins(request, low) = M /\ 0 + M = M
          BY <2>2, <2>3, <2>7, <3>3
        <5> QED BY <1>9, <5>1, Zenon
      <4>0. 0 \in Int
        OBVIOUS
      <4>2. Places(M, 0, FirstPlace(request)) \o Places(n, 0 + M, FirstPlace(request) + M) = Places(M + n, 0, FirstPlace(request))
        BY <1>21, <2>2, <3>1, <4>0, PlacesJoin, Zenon
      <4>3. t.moved = s.moved \o went
        BY <1>13, <1>19
      <4>4. t.moved = Places(M, 0, FirstPlace(request)) \o Places(n, 0 + M, FirstPlace(request) + M)
        BY <3>1, <4>1, <4>3, Zenon
      <4> QED BY <4>2, <4>4, Zenon
    <3> QED BY <1>21, <3>2, <3>3
  <2>9. n > 0 /\ ~request.pipe => Reached(request, high + 1, M + n)
    <3> SUFFICES ASSUME n > 0, ~request.pipe PROVE Begins(request, high + 1) = M + n \/ request.size <= FirstPlace(request) + M + n
      BY <1>1, <2>2 DEF Reached, FirstPlace
    <3> HIDE DEF M
    <3>1. n = room /\ size = Begins(request, high + 1) - Begins(request, low)
      BY DEF Going, Window
    <3>2. CASE room = size
      BY <1>5, <1>21, <2>2, <2>7, <3>1, <3>2
    <3>3. CASE request.size <= at + room
      BY <1>1, <2>2, <2>3, <3>1, <3>3
    <3> QED BY <1>7, <3>2, <3>3
  <2> QED BY <1>1, <1>2, <2>3, <2>4, <2>6, <2>7, <2>8, <2>9 DEF FirstPlace
<1>15. ChunkAt(request, t) /\ t.index \in 0..t.nbufs - 1 /\ (Emulates(t) <=> Emulates(s))
  BY <1>13 DEF TransferAt, ChunkAt, Emulates
<1>16. CASE Emulates(s)
  <2>1. t.nread = s.nread + n /\ t.nread >= n
    BY <1>2, <1>20, <1>21, <1>13, <1>16 DEF nread
  <2>2. Whole(request, t) => Transferred(request, t, t.total + t.nread)
                             /\ (n > 0 => Reached(request, t.first + t.index + 2, t.total + t.nread))
    <3> SUFFICES ASSUME Whole(request, t) PROVE Transferred(request, t, t.total + t.nread)
                             /\ (n > 0 => Reached(request, t.first + t.index + 2, t.total + t.nread))
      OBVIOUS
    <3>1. t.total + t.nread = s.total + s.nread + n /\ high + 1 = t.first + t.index + 2
      <4>1. high = s.first + s.index + 1
        BY <1>16 DEF Going, Window
      <4>2. t.total = s.total /\ t.first = s.first /\ t.index = s.index
        BY <1>13
      <4> QED BY <1>2, <1>21, <1>4, <2>1, <4>1, <4>2
    <3>2. ~request.pipe
      <4>1. s.off >= 0
        BY <1>16 DEF Emulates
      <4>2. request.off >= 0
        BY <1>1, <1>2, <1>13, <1>14, <4>1
      <4> QED BY <1>1, <4>2, RequestIs
    <3> QED BY <1>13, <1>14, <3>1, <3>2 DEF Transferred
  <2>5. (n = -1 \/ t.nread >= n) /\ (request.op = "write" => n # 0) /\ n >= -1 /\ n \in Int
    BY <1>1, <2>1 DEF Going, Window
  <2>3. GoesOn(request, BufferDone(t, n), t)
    BY <2>5, <1>12, <1>13, <1>15, <1>16, <2>1, <2>2, BufferDoneInv
  <2> QED BY <1>13, <1>16, <2>3 DEF GoesOn
<1>17. CASE ~Emulates(s)
  <2>1. s.nread = 0 /\ Positive(n) = n
    BY <1>17, <1>21 DEF TransferAt, Positive
  <2>2. ChunkDid(request, t, n)
    <3> SUFFICES ASSUME Whole(request, t)
                 PROVE  /\ t.moved = Places(t.total + n, 0, FirstPlace(request))
                        /\ t.off = IF request.off >= 0 THEN request.off + t.total ELSE request.off
                        /\ t.fpos = IF request.off >= 0 THEN 0 ELSE t.total + n
                        /\ n > 0 /\ t.left > t.nbufs => Reached(request, t.first + t.nbufs + 1, t.total + n)
      BY <2>1 DEF ChunkDid
    <3>1. s.total + s.nread + n = t.total + n
      BY <1>2, <1>20, <1>21, <1>13, <2>1
    <3>2. high + 1 = t.first + t.nbufs + 1
      BY <1>13, <1>17 DEF Going, Window
    <3>3. t.left > t.nbufs => ~request.pipe
      <4> SUFFICES ASSUME request.pipe PROVE t.left <= t.nbufs
        BY <1>2, <1>20, <1>21, <1>13
      <4>1. N <= IovMax
        BY DEF Whole, N
      <4>2. s.nbufs = Least(s.left, IovMax) /\ s.left <= N
        BY <1>1, <1>2, <1>3 DEF TransferAt, ChunkAt
      <4> QED BY <1>1, <1>2, <1>13, <4>1, <4>2 DEF Least
    <3> QED BY <1>13, <1>14, <3>1, <3>2, <3>3
  <2>3. GoesOn(request, Processed(t, n), t)
    BY <1>12, <1>15, <1>21, <2>2, ProcessedInv
  <2> QED BY <1>13, <1>17, <2>3 DEF GoesOn
<1> QED BY <1>16, <1>17

LEMMA FailingTyped ==
    ASSUME NEW s \in WorkType, NEW e \in Nat
    PROVE  Failing(s, e) \in WorkType
<1>1. s.faults + 1 \in Nat
  BY DEF WorkType
<1> QED BY <1>1 DEF Failing, WorkType

LEMMA NoPreadvTyped ==
    ASSUME NEW s \in WorkType, NEW e \in Nat
    PROVE  [s EXCEPT !.errno = e, !.noPreadv = TRUE] \in WorkType
  BY DEF WorkType

\* A call has failed.
LEMMA FailsInv ==
    ASSUME request \in Made, IsTransfer(request), NEW s \in WorkType, s.pc = "transfer", TransferAt(request, s), NEW e \in Nat
    PROVE  GoesOn(request, IF Emulates(s) THEN BufferDone(Failing(s, e), -1) ELSE Processed(Failing(s, e), -1), s)
<1> DEFINE t == Failing(s, e)
<1>1. t \in WorkType
  BY FailingTyped
<1>2. /\ t.pc = s.pc /\ t.nbufs = s.nbufs /\ t.index = s.index /\ t.left = s.left /\ t.first = s.first /\ t.total = s.total
      /\ t.off = s.off /\ t.noPreadv = s.noPreadv /\ t.moved = s.moved /\ t.fpos = s.fpos /\ t.nread = s.nread
      /\ t.held = s.held /\ t.cancelled = s.cancelled /\ t.strays = s.strays
  BY DEF Failing, WorkType
<1> HIDE DEF t
<1>3. ChunkAt(request, t) /\ t.index \in 0..t.nbufs - 1 /\ (Emulates(t) <=> Emulates(s)) /\ (Whole(request, t) <=> Whole(request, s))
  BY <1>2 DEF TransferAt, ChunkAt, Emulates, Whole
<1>4. Whole(request, t) => Transferred(request, t, t.total + t.nread)
  BY <1>2, <1>3 DEF TransferAt, Transferred
<1>5. s.nread \in Nat /\ s.total \in Nat /\ Positive(-1) = 0
  BY DEF WorkType, Positive
<1>6. CASE Emulates(s)
  <2>1. GoesOn(request, BufferDone(t, -1), t)
    BY <1>1, <1>2, <1>3, <1>4, <1>6, BufferDoneInv
  <2> QED BY <1>2, <1>6, <2>1 DEF GoesOn, t
<1>7. CASE ~Emulates(s)
  <2>1. t.nread = 0 /\ t.total + t.nread = t.total + Positive(-1)
    BY <1>2, <1>5, <1>7 DEF TransferAt
  <2>2. ChunkDid(request, t, -1)
    BY <1>4, <2>1 DEF ChunkDid, Transferred
  <2>3. GoesOn(request, Processed(t, -1), t)
    BY <1>1, <1>3, <2>2, ProcessedInv
  <2> QED BY <1>2, <1>7, <2>3 DEF GoesOn, t
<1> QED BY <1>6, <1>7

\* The kernel has no preadv or pwritev: one buffer at a time from now on.
LEMMA EmulationBegins ==
    ASSUME request \in Made, IsTransfer(request), NEW s \in WorkType, s.pc = "transfer", TransferAt(request, s),
           s.off >= 0, s.nbufs > 1, ~s.noPreadv
    PROVE  GoesOn(request, [s EXCEPT !.errno = ENOSYS, !.noPreadv = TRUE], s)
<1> DEFINE t == [s EXCEPT !.errno = ENOSYS, !.noPreadv = TRUE]
<1>1. t \in WorkType
  BY NoPreadvTyped DEF ENOSYS
<1>2. /\ t.pc = s.pc /\ t.nbufs = s.nbufs /\ t.index = s.index /\ t.left = s.left /\ t.first = s.first /\ t.total = s.total
      /\ t.off = s.off /\ t.noPreadv = TRUE /\ t.moved = s.moved /\ t.fpos = s.fpos /\ t.nread = s.nread
      /\ t.held = s.held /\ t.cancelled = s.cancelled /\ t.strays = s.strays
  BY DEF WorkType
<1> HIDE DEF t
<1>3. ChunkAt(request, t) /\ t.index \in 0..t.nbufs - 1 /\ Emulates(t) /\ ~Emulates(s)
  BY <1>2 DEF TransferAt, ChunkAt, Emulates
<1>4. Whole(request, t) => Transferred(request, t, t.total + t.nread) /\ Reached(request, t.first + t.index + 1, t.total + t.nread)
  BY <1>2, <1>3 DEF TransferAt, Transferred, Reached, Whole
<1>5. TransferAt(request, t)
  BY <1>3, <1>4 DEF TransferAt
<1> QED BY <1>1, <1>2, <1>5 DEF GoesOn, t

LEMMA TransferStep ==
    ASSUME UnixFilesInv, IsTransfer(request), Transfer
    PROVE  UnixFilesInv'
<1>1. request \in Made /\ work \in WorkType /\ work.pc = "transfer" /\ TransferAt(request, work) /\ WorkInv(request, work)
  BY DEF UnixFilesInv, WorkInv, TransferInv, Transfer
<1> DEFINE low == IF Emulated THEN work.first + work.index + 1 ELSE work.first + 1
           high == IF Emulated THEN low ELSE work.first + work.nbufs
           at == IF work.off >= 0 THEN work.off + work.nread ELSE work.fpos
           size == Start(high + 1) - Start(low)
           room == Least(size, IF request.size > at THEN request.size - at ELSE 0)
           After(s, r) == Step(IF Emulated THEN BufferDone(s, r) ELSE Processed(s, r))
           Goes(n) == [work EXCEPT !.moved = @ \o [i \in 1..n |-> <<Start(low) + i - 1, at + i - 1>>],
                                   !.fpos = IF work.off >= 0 THEN @ ELSE @ + n,
                                   !.nread = IF Emulated THEN @ + n ELSE @]
<1>2. \/ \E n : /\ (n = room /\ (n > 0 \/ request.op = "read")) \/ (request.pipe /\ n \in 1..room - 1)
                /\ After(Goes(n), n)
      \/ \E e \in Nat : After(Failing(work, e), -1)
      \/ /\ work.off >= 0 /\ work.nbufs > 1 /\ ~work.noPreadv
         /\ Step([work EXCEPT !.errno = ENOSYS, !.noPreadv = TRUE])
  BY DEF Transfer, ENOSPC, EINTR, EIO
<1>3. Emulated <=> Emulates(work)
  BY DEF Emulated, Emulates
<1>4. SUFFICES ASSUME NEW c, GoesOn(request, c, work), Step(c) PROVE UnixFilesInv'
  <2>1. CASE \E n : /\ (n = room /\ (n > 0 \/ request.op = "read")) \/ (request.pipe /\ n \in 1..room - 1)
                    /\ After(Goes(n), n)
    <3> PICK n : /\ (n = room /\ (n > 0 \/ request.op = "read")) \/ (request.pipe /\ n \in 1..room - 1)
                 /\ After(Goes(n), n)
      BY <2>1
    <3>0. Window(work, low, high, at, size, room)
      <4>1. size = Begins(request, high + 1) - Begins(request, low)
        BY DEF Start, Begins
      <4> QED BY <1>3, <4>1 DEF Window
    <3>1. room \in Nat
      <4> HIDE DEF low, high, at, size, room
      <4> QED BY <1>1, <3>0, WindowIs
    <3>2. Going(work, low, high, at, size, room, n, Goes(n))
      <4>1. n \in Nat /\ (n = room \/ (request.pipe /\ n < room)) /\ (n > 0 \/ request.op = "read")
        <5> HIDE DEF room
        <5> QED BY <3>1
      <4> QED BY <1>3, <3>0, <4>1 DEF Going
    <3> HIDE DEF low, high, at, size, room, Goes
    <3> DEFINE c == IF Emulates(work) THEN BufferDone(Goes(n), n) ELSE Processed(Goes(n), n)
    <3>3. GoesOn(request, c, work)
      BY <1>1, <3>2, GoesInv
    <3>4. Step(c)
      BY <1>3
    <3> QED BY <3>3, <3>4, <1>4
  <2>2. CASE \E e \in Nat : After(Failing(work, e), -1)
    <3> PICK e \in Nat : After(Failing(work, e), -1)
      BY <2>2
    <3> DEFINE c == IF Emulates(work) THEN BufferDone(Failing(work, e), -1) ELSE Processed(Failing(work, e), -1)
    <3>1. GoesOn(request, c, work)
      BY <1>1, FailsInv
    <3>2. Step(c)
      BY <1>3
    <3> QED BY <3>1, <3>2, <1>4
  <2>3. CASE /\ work.off >= 0 /\ work.nbufs > 1 /\ ~work.noPreadv
             /\ Step([work EXCEPT !.errno = ENOSYS, !.noPreadv = TRUE])
    BY <1>1, <1>4, <2>3, EmulationBegins
  <2> QED BY <1>2, <2>1, <2>2, <2>3
<1>5. WorkInv(request, c)
  BY <1>1, <1>4, WorkGoesOn
<1> QED BY <1>1, <1>4, <1>5 DEF Step, UnixFilesInv

-----------------------------------------------------------------------------
\* The beginning and the end of every request.

\* What c and s have in common where only the progress of the request changes.
Alike(c, s) ==
    /\ c.off = s.off /\ c.len = s.len /\ c.nread = s.nread /\ c.fpos = s.fpos /\ c.who = s.who /\ c.copied = s.copied
    /\ c.dst = s.dst /\ c.nsent = s.nsent /\ c.usePread = s.usePread /\ c.from = s.from /\ c.nwritten = s.nwritten
    /\ c.moved = s.moved /\ c.wrote = s.wrote /\ c.misread = s.misread /\ c.cancelled = s.cancelled /\ c.strays = s.strays
    /\ c.noPreadv = s.noPreadv

FirstPc(q) ==
    IF q.op = "sendfile" THEN IF q.kernel = "none" THEN "emul_read" ELSE "sendfile"
    ELSE IF q.op \in {"open", "copyfile"} THEN "open" ELSE "plain"

LEMMA BeginOther ==
    ASSUME ~IsTransfer(request), NEW s \in WorkType
    PROVE  /\ Begin(s) \in WorkType /\ Alike(Begin(s), s) /\ Begin(s).held = s.held
           /\ Begin(s).pc = FirstPc(request) /\ Begin(s).errno = 0
<1> DEFINE b == [s EXCEPT !.errno = 0]
           c == [b EXCEPT !.pc = FirstPc(request)]
<1>1. b \in WorkType
  BY ErrnoTyped
<1>2. Begin(s) = c
  BY DEF Begin, FirstPc, IsTransfer
<1>3. FirstPc(request) \in Pcs
  BY DEF FirstPc, Pcs
<1> HIDE DEF b
<1>4. c \in WorkType /\ Alike(c, b) /\ c.held = b.held /\ c.pc = FirstPc(request) /\ c.errno = b.errno
  BY <1>1, <1>3 DEF WorkType, Alike
<1>5. Alike(b, s) /\ b.held = s.held /\ b.errno = 0
  BY DEF b, WorkType, Alike
<1> QED BY <1>2, <1>4, <1>5 DEF Alike

LEMMA DoneTyped ==
    ASSUME NEW s \in WorkType, NEW r \in Int, NEW p \in Pcs, NEW c, c = [s EXCEPT !.pc = p, !.result = r]
    PROVE  c \in WorkType /\ Alike(c, s) /\ c.held = s.held /\ c.pc = p /\ c.result = r /\ c.errno = s.errno
  BY DEF WorkType, Alike

LEMMA WorkEndsOther ==
    ASSUME ~IsTransfer(request), NEW s \in WorkType, NEW r \in Int
    PROVE  /\ WorkEnds(s, r) \in WorkType /\ Alike(WorkEnds(s, r), s) /\ WorkEnds(s, r).held = s.held
           /\ IF r = -1 /\ s.errno = EINTR /\ request.op # "close"
              THEN WorkEnds(s, r).pc = FirstPc(request)
              ELSE WorkEnds(s, r).pc = "done" /\ WorkEnds(s, r).result = IF r = -1 THEN -s.errno ELSE r
<1>1. CASE r = -1 /\ s.errno = EINTR /\ request.op # "close"
  BY <1>1, BeginOther DEF WorkEnds
<1>2. CASE ~(r = -1 /\ s.errno = EINTR /\ request.op # "close")
  <2> DEFINE result == IF r = -1 THEN -s.errno ELSE r
  <2>1. result \in Int /\ "done" \in Pcs
    BY DEF WorkType, Pcs
  <2>2. WorkEnds(s, r) = [s EXCEPT !.pc = "done", !.result = result]
    BY <1>2 DEF WorkEnds
  <2> HIDE DEF result
  <2> DEFINE c == WorkEnds(s, r)
  <2>3. c \in WorkType /\ Alike(c, s) /\ c.held = s.held /\ c.pc = "done" /\ c.result = result
    <3>1. "done" \in Pcs /\ result \in Int
      BY <2>1
    <3> QED BY <2>2, <3>1, ZenonT(40) DEF WorkType, Alike
  <2> QED BY <1>2, <2>3 DEF result
<1> QED BY <1>1, <1>2

\* Nothing has happened but that memory has been taken and the request queued.
Unbegun(q, s) ==
    /\ s \in WorkType
    /\ s = [New(q) EXCEPT !.pc = s.pc, !.held = s.held, !.result = s.result, !.cancelled = s.cancelled]
    /\ ~s.cancelled
    /\ s.held \cap {"ptr", "lock", "dst"} = {}
    /\ "bufs" \in s.held => IsTransfer(q)
    /\ "src" \in s.held <=> q.op = "close"

LEMMA NewIs ==
    ASSUME NEW q \in Made
    PROVE  /\ New(q) \in WorkType
           /\ New(q).pc = "call" /\ ~New(q).cancelled /\ New(q).held = IF q.op = "close" THEN {"src"} ELSE {}
           /\ New(q) = [New(q) EXCEPT !.pc = New(q).pc, !.held = New(q).held, !.result = New(q).result, !.cancelled = New(q).cancelled]
<1>1. q.off \in Int /\ q.len \in Int /\ Len(q.ends) \in Nat /\ q.exists \in BOOLEAN
  BY RequestIs
<1>2. "call" \in Pcs /\ "src" \in Things
  BY DEF Pcs, Things
<1>3. New(q) \in WorkType
  BY <1>1, <1>2 DEF New, WorkType
<1>4. New(q).pc = "call" /\ ~New(q).cancelled /\ New(q).held = IF q.op = "close" THEN {"src"} ELSE {}
  BY DEF New
<1>5. New(q) = [New(q) EXCEPT !.pc = New(q).pc, !.held = New(q).held, !.result = New(q).result, !.cancelled = New(q).cancelled]
  BY <1>3 DEF WorkType
<1> QED BY <1>3, <1>4, <1>5

LEMMA FreshIs ==
    ASSUME NEW q \in Made, NEW s, s = [New(q) EXCEPT !.pc = s.pc, !.held = s.held, !.result = s.result, !.cancelled = s.cancelled]
    PROVE  /\ s.off = q.off /\ s.len = q.len /\ s.nbufs = Len(q.ends) /\ s.first = 0 /\ s.left = 0 /\ s.total = 0 /\ s.index = 0
           /\ s.nread = 0 /\ ~s.noPreadv /\ s.fpos = 0 /\ s.who = "src" /\ s.copied = 0
           /\ s.dst = (IF q.exists THEN "old" ELSE "absent") /\ s.nsent = 0 /\ s.usePread /\ s.from = 0 /\ s.nwritten = 0
           /\ s.moved = << >> /\ s.wrote /\ ~s.misread /\ s.strays = 0 /\ s.errno = 0 /\ s.faults = 0
<1> DEFINE n == New(q)
<1>1. n \in WorkType
  BY NewIs
<1>2. /\ n.off = q.off /\ n.len = q.len /\ n.nbufs = Len(q.ends) /\ n.first = 0 /\ n.left = 0 /\ n.total = 0 /\ n.index = 0
      /\ n.nread = 0 /\ ~n.noPreadv /\ n.fpos = 0 /\ n.who = "src" /\ n.copied = 0
      /\ n.dst = (IF q.exists THEN "old" ELSE "absent") /\ n.nsent = 0 /\ n.usePread /\ n.from = 0 /\ n.nwritten = 0
      /\ n.moved = << >> /\ n.wrote /\ ~n.misread /\ n.strays = 0 /\ n.errno = 0 /\ n.faults = 0
  BY DEF New
<1> HIDE DEF n
<1>3. s = [n EXCEPT !.pc = s.pc, !.held = s.held, !.result = s.result, !.cancelled = s.cancelled]
  BY DEF n
<1>4. /\ s.off = n.off /\ s.len = n.len /\ s.nbufs = n.nbufs /\ s.first = n.first /\ s.left = n.left /\ s.total = n.total
      /\ s.index = n.index /\ s.nread = n.nread /\ s.noPreadv = n.noPreadv /\ s.fpos = n.fpos /\ s.who = n.who
      /\ s.copied = n.copied /\ s.dst = n.dst /\ s.nsent = n.nsent /\ s.usePread = n.usePread /\ s.from = n.from
      /\ s.nwritten = n.nwritten /\ s.moved = n.moved /\ s.wrote = n.wrote /\ s.misread = n.misread /\ s.strays = n.strays
      /\ s.errno = n.errno /\ s.faults = n.faults
  BY <1>1, <1>3 DEF WorkType
<1> QED BY <1>2, <1>4

LEMMA BeginInv ==
    ASSUME request \in Made, NEW s, Unbegun(request, s)
    PROVE  WorkInv(request, Begin(s))
<1>0. /\ s.off = request.off /\ s.len = request.len /\ s.nbufs = Len(request.ends) /\ s.first = 0 /\ s.total = 0
      /\ s.nread = 0 /\ ~s.noPreadv /\ s.fpos = 0 /\ s.who = "src"
      /\ s.dst = (IF request.exists THEN "old" ELSE "absent") /\ s.nsent = 0 /\ s.usePread
      /\ s.moved = << >> /\ s.wrote /\ ~s.misread /\ s.strays = 0
  <2>1. s = [New(request) EXCEPT !.pc = s.pc, !.held = s.held, !.result = s.result, !.cancelled = s.cancelled]
    BY DEF Unbegun
  <2> QED BY <2>1, FreshIs, ZenonT(40)
<1>1. s \in WorkType /\ ~s.cancelled
  BY DEF Unbegun
<1> DEFINE c == Begin(s)
<1>2. CASE IsTransfer(request)
  <2>1. Transferred(request, s, 0)
    BY <1>0, RequestIs, PlacesAre DEF Transferred, FirstPlace
  <2>2. c \in WorkType /\ c.pc = "transfer" /\ TransferAt(request, c) /\ Kept(c, s)
    BY <1>0, <1>1, <1>2, <2>1, BeginTransfer
  <2> HIDE DEF c
  <2>3. Common(request, c)
    BY <1>0, <1>1, <1>2, <2>2 DEF Common, Kept, Unbegun, IsTransfer
  <2>4. TransferInv(request, c)
    BY <2>2 DEF TransferInv, Over
  <2> QED BY <1>2, <2>2, <2>3, <2>4 DEF WorkInv, IsTransfer, IsPlain, c
<1>3. CASE ~IsTransfer(request)
  <2>1. c \in WorkType /\ Alike(c, s) /\ c.held = s.held /\ c.pc = FirstPc(request)
    BY <1>1, <1>3, BeginOther
  <2> HIDE DEF c
  <2>2. c.pc \notin Over \cup {"call", "queued"} /\ c.pc \in {"sendfile", "emul_read", "open", "plain"}
    BY <2>1 DEF FirstPc, Over
  <2>3. Common(request, c)
    BY <1>0, <1>1, <1>3, <2>1, <2>2 DEF Common, Alike, Unbegun, Over
  <2>4. CASE request.op = "sendfile"
    <3>1. c.pc \in {"sendfile", "emul_read"} /\ (c.pc = "sendfile" => request.kernel # "none")
      BY <2>1, <2>4 DEF FirstPc
    <3>2. c.moved = << >> /\ c.off = request.off /\ c.nsent = 0 /\ c.usePread /\ c.fpos = 0 /\ Source(request) \in Int
          /\ Places(0, Source(request), 0) = << >>
      BY <1>0, <2>1, <2>4, RequestIs, PlacesAre DEF Alike, Source
    <3>3. SendExact(request, c)
      BY <3>1, <3>2 DEF SendExact, EmulAt, Emulating, Over
    <3>4. SendInv(request, c)
      BY <3>1, <3>3 DEF SendInv, Emulating
    <3> QED BY <1>3, <2>1, <2>3, <2>4, <3>4 DEF WorkInv, IsPlain, c
  <2>5. CASE request.op = "copyfile"
    <3>1. c.pc = "open"
      BY <2>1, <2>5 DEF FirstPc
    <3>2. c.moved = << >> /\ c.off = 0 /\ c.who = "src" /\ c.dst = (IF request.exists THEN "old" ELSE "absent")
          /\ "src" \notin c.held /\ "dst" \notin c.held
      BY <1>0, <2>1, <2>5, RequestIs DEF Alike, Unbegun
    <3>3. CopyInv(request, c)
      BY <3>1, <3>2 DEF CopyInv, CopyHolds, CopyTells, CopyExact, Opening, Sending, Emulating, Over
    <3> QED BY <1>3, <2>1, <2>3, <2>5, <3>3 DEF WorkInv, IsPlain, c
  <2>6. CASE request.op = "open"
    <3>1. c.pc = "open" /\ c.who = "src" /\ "src" \notin c.held
      BY <1>0, <2>1, <2>6 DEF FirstPc, Alike, Unbegun
    <3>2. OpenInv(request, c)
      BY <3>1 DEF OpenInv, Over
    <3> QED BY <1>3, <2>1, <2>3, <2>6, <3>2 DEF WorkInv, IsPlain, c
  <2>7. CASE IsPlain(request)
    <3>1. c.pc = "plain" /\ ("src" \in c.held <=> request.op = "close")
      BY <2>1, <2>7 DEF FirstPc, IsPlain, Unbegun
    <3>2. PlainInv(request, c)
      BY <3>1 DEF PlainInv, Over
    <3> QED BY <1>3, <2>1, <2>3, <2>7, <3>2 DEF WorkInv, IsPlain, c
  <2> QED BY <1>3, <2>4, <2>5, <2>6, <2>7 DEF IsPlain
<1> QED BY <1>2, <1>3

LEMMA QueuedIsFresh ==
    ASSUME request \in Made, NEW s, WorkInv(request, s), s.pc = "queued"
    PROVE  Unbegun(request, s)
<1>1. s \in WorkType /\ ~s.cancelled /\ "ptr" \notin s.held /\ "lock" \notin s.held
      /\ ("bufs" \in s.held => IsTransfer(request))
      /\ s = [New(request) EXCEPT !.pc = s.pc, !.held = s.held, !.result = s.result, !.cancelled = s.cancelled]
  BY DEF WorkInv, Common, Over
<1>2. "dst" \notin s.held
  BY DEF WorkInv, Common, CopyInv, CopyHolds
<1>3. "src" \in s.held <=> request.op = "close"
  BY DEF WorkInv, Common, CopyInv, CopyHolds, OpenInv, PlainInv, Over, IsPlain, IsTransfer
<1> QED BY <1>1, <1>2, <1>3 DEF Unbegun

\* Queued or, from the queue, cancelled.
LEMMA WaitingInv ==
    ASSUME request \in Made, NEW s, Unbegun(request, s), NEW c \in WorkType, c.held = s.held,
           c = [New(request) EXCEPT !.pc = c.pc, !.held = c.held, !.result = c.result, !.cancelled = c.cancelled],
           (c.pc = "queued" /\ ~c.cancelled /\ c.result = 0) \/ (c.pc = "done" /\ c.cancelled /\ c.result = 0)
    PROVE  WorkInv(request, c)
<1>1. /\ c.off = request.off /\ c.who = "src" /\ c.dst # "ours" /\ c.moved = << >> /\ c.strays = 0 /\ ~c.misread
      /\ c.dst = (IF request.exists THEN "old" ELSE "absent") /\ ~c.noPreadv
  <2>1. /\ c.off = request.off /\ c.who = "src" /\ c.moved = << >> /\ c.strays = 0 /\ ~c.misread
        /\ c.dst = (IF request.exists THEN "old" ELSE "absent") /\ ~c.noPreadv
    BY FreshIs, Zenon
  <2> QED BY <2>1
<1>2. /\ c.held \cap {"ptr", "lock", "dst"} = {} /\ ("bufs" \in c.held => IsTransfer(request))
      /\ ("src" \in c.held <=> request.op = "close")
  BY DEF Unbegun
<1>3. Common(request, c)
  BY <1>1, <1>2 DEF Common, Over
<1>4. IsTransfer(request) => TransferInv(request, c)
  <2>1. Positive(0) = 0 /\ FirstPlace(request) \in Int
    BY RequestIs DEF Positive, FirstPlace
  <2>2. Places(0, 0, FirstPlace(request)) = << >>
    BY <2>1, PlacesAre
  <2> QED BY <1>1, <2>1, <2>2 DEF TransferInv, Over
<1>5. request.op = "sendfile" => SendInv(request, c)
  BY DEF SendInv, SendExact, Emulating, Over
<1>6. request.op = "copyfile" => CopyInv(request, c)
  BY <1>1, <1>2 DEF CopyInv, CopyHolds, CopyTells, CopyExact, Opening, Sending, Emulating, Over
<1>7. request.op = "open" => OpenInv(request, c)
  BY <1>1, <1>2 DEF OpenInv, Over
<1>8. IsPlain(request) => PlainInv(request, c)
  BY <1>2 DEF PlainInv, Over, IsPlain
<1> QED BY <1>3, <1>4, <1>5, <1>6, <1>7, <1>8 DEF WorkInv

\* What is taken for a request before it is handed on.
Memory(q) == (IF HasPath /\ q.async THEN {"path"} ELSE {}) \cup IF Len(q.ends) > BufsMl THEN {"bufs"} ELSE {}

LEMMA AsksStep ==
    ASSUME UnixFilesInv, Asks
    PROVE  UnixFilesInv'
<1> DEFINE q == request
           h == work.held \cup Registered \cup Memory(q)
           s == [work EXCEPT !.held = h]
<1>1. q \in Made /\ work = New(q) /\ work \in WorkType
  BY DEF UnixFilesInv, WorkInv, Common, Asks
<1>2. \/ Step(IF q.async THEN [s EXCEPT !.pc = "queued"] ELSE Begin(s))
      \/ Memory(q) # {} /\ Step([Failing(work, 0) EXCEPT !.result = -ENOMEM, !.pc = "cleaned"])
  BY DEF Asks, Registered, Memory
<1>3. Memory(q) \subseteq {"path", "bufs"} /\ Registered \subseteq {"req"} /\ ("bufs" \in Memory(q) => IsTransfer(q))
      /\ (q.op = "close" => Memory(q) = {})
  <2>1. ~IsTransfer(q) => ~(Len(q.ends) > BufsMl)
    <3> SUFFICES ASSUME ~IsTransfer(q) PROVE ~(Len(q.ends) > BufsMl)
      OBVIOUS
    <3>1. q.ends = << >> /\ Len(<< >>) = 0
      BY <1>1, RequestIs
    <3>2. BufsMl \in Nat
      BY RequestsAssumption
    <3> QED BY <3>1, <3>2
  <2>2. q.op = "close" => ~HasPath /\ ~IsTransfer(q)
    BY DEF HasPath, IsTransfer
  <2> QED BY <2>1, <2>2 DEF Memory, Registered
<1>4. h \in SUBSET Things /\ ("src" \in h <=> q.op = "close") /\ h \cap {"ptr", "lock", "dst"} = {} /\ ("bufs" \in h => IsTransfer(q))
  BY <1>1, <1>3, NewIs DEF Things
<1> HIDE DEF h
<1>5. /\ s \in WorkType /\ ~s.cancelled /\ s.held = h /\ s.result = work.result /\ s.cancelled = work.cancelled
      /\ s = [work EXCEPT !.pc = s.pc, !.held = s.held, !.result = s.result, !.cancelled = s.cancelled]
  <2>1. s \in WorkType /\ s.held = h /\ s.cancelled = work.cancelled /\ s.pc = work.pc /\ s.result = work.result
    BY <1>1, <1>4 DEF WorkType
  <2>2. ~work.cancelled
    BY <1>1, NewIs
  <2>3. s = [work EXCEPT !.pc = s.pc, !.held = s.held, !.result = s.result, !.cancelled = s.cancelled]
    BY <1>1, <1>4 DEF WorkType
  <2> QED BY <2>1, <2>2, <2>3
<1> HIDE DEF s
<1>6. Unbegun(q, s)
  BY <1>1, <1>4, <1>5 DEF Unbegun
<1>7. CASE q.async /\ Step([s EXCEPT !.pc = "queued"])
  <2> DEFINE c == [s EXCEPT !.pc = "queued"]
  <2>1. c \in WorkType /\ c.held = h /\ c.pc = "queued" /\ ~c.cancelled /\ c.result = 0
        /\ c = [work EXCEPT !.pc = c.pc, !.held = c.held, !.result = c.result, !.cancelled = c.cancelled]
    <3>1. "queued" \in Pcs
      BY DEF Pcs
    <3>2. c \in WorkType /\ c.held = h /\ c.pc = "queued" /\ ~c.cancelled /\ c.result = work.result /\ c.cancelled = work.cancelled
      BY <1>5, <3>1 DEF WorkType
    <3>3. c = [work EXCEPT !.pc = "queued", !.held = h, !.result = work.result, !.cancelled = work.cancelled]
      BY <1>1, <1>4 DEF WorkType, s
    <3>4. work.result = 0
      BY <1>1 DEF New
    <3> QED BY <3>2, <3>3, <3>4
  <2>2. WorkInv(q, c)
    <3> HIDE DEF c
    <3>1. (c.pc = "queued" /\ ~c.cancelled /\ c.result = 0) \/ (c.pc = "done" /\ c.cancelled /\ c.result = 0)
      BY <2>1
    <3>2. c \in WorkType /\ c.held = s.held
          /\ c = [New(q) EXCEPT !.pc = c.pc, !.held = c.held, !.result = c.result, !.cancelled = c.cancelled]
      BY <1>1, <1>5, <2>1
    <3> QED BY <1>1, <1>6, <3>1, <3>2, WaitingInv, Zenon
  <2> QED BY <1>1, <1>7, <2>2 DEF Step, UnixFilesInv
<1>8. CASE ~q.async /\ Step(Begin(s))
  <2>1. WorkInv(q, Begin(s))
    BY <1>1, <1>6, BeginInv
  <2> QED BY <1>1, <1>8, <2>1 DEF Step, UnixFilesInv
<1>9. CASE Memory(q) # {} /\ Step([Failing(work, 0) EXCEPT !.result = -ENOMEM, !.pc = "cleaned"])
  <2> DEFINE t == Failing(work, 0)
             c == [t EXCEPT !.result = -ENOMEM, !.pc = "cleaned"]
  <2>1. t \in WorkType /\ t.held = work.held /\ t.cancelled = work.cancelled /\ Alike(t, work)
    <3>1. t \in WorkType
      BY <1>1, FailingTyped
    <3> QED BY <1>1, <3>1 DEF Failing, WorkType, Alike
  <2> HIDE DEF t
  <2>2. c \in WorkType /\ c.held = t.held /\ c.cancelled = t.cancelled /\ Alike(c, t) /\ c.pc = "cleaned" /\ c.result = -12
    <3>1. -ENOMEM \in Int /\ -ENOMEM = -12 /\ "cleaned" \in Pcs
      BY DEF ENOMEM, Pcs
    <3> QED BY <2>1, <3>1 DEF WorkType, Alike
  <2> HIDE DEF c
  <2>3. ~c.cancelled /\ c.held = {} /\ c.moved = << >> /\ c.strays = 0 /\ c.who = "src"
        /\ c.dst = (IF q.exists THEN "old" ELSE "absent") /\ c.noPreadv = FALSE
    <3>1. work = [New(q) EXCEPT !.pc = work.pc, !.held = work.held, !.result = work.result, !.cancelled = work.cancelled]
      BY <1>1, NewIs
    <3>2. work.moved = << >> /\ work.strays = 0 /\ work.who = "src" /\ work.noPreadv = FALSE
          /\ work.dst = (IF q.exists THEN "old" ELSE "absent")
      <4> HIDE DEF q
      <4>1. work.noPreadv \in BOOLEAN
        BY <1>1 DEF WorkType
      <4> QED BY <1>1, <3>1, <4>1, FreshIs
    <3>3. ~work.cancelled /\ work.held = {}
      BY <1>1, <1>3, <1>9, NewIs
    <3>4. Alike(c, work) /\ c.held = work.held
      BY <2>1, <2>2 DEF Alike
    <3> QED BY <3>2, <3>3, <3>4 DEF Alike
  <2>4. Common(q, c)
    BY <2>2, <2>3 DEF Common
  <2>5. IsTransfer(q) => TransferInv(q, c)
    <3>1. Positive(-12) = 0 /\ FirstPlace(q) \in Int
      BY <1>1, RequestIs DEF Positive, FirstPlace
    <3>2. Places(0, 0, FirstPlace(q)) = << >>
      BY <3>1, PlacesAre
    <3> QED BY <2>2, <2>3, <3>1, <3>2 DEF TransferInv, Over
  <2>6. q.op = "sendfile" => SendInv(q, c)
    <3> SUFFICES ASSUME q.op = "sendfile" PROVE SendInv(q, c)
      OBVIOUS
    <3>1. Len(<< >>) = 0 /\ Source(q) \in Int
      BY <1>1, RequestIs DEF Source
    <3>2. Places(0, Source(q), 0) = << >>
      BY <3>1, PlacesAre
    <3> QED BY <2>2, <2>3, <3>1, <3>2 DEF SendInv, SendExact, Emulating, Over
  <2>7. q.op = "copyfile" => CopyInv(q, c)
    BY <2>2, <2>3 DEF CopyInv, CopyHolds, CopyTells, CopyExact, Opening, Sending, Emulating, Over
  <2>8. q.op = "open" => OpenInv(q, c)
    BY <2>2, <2>3 DEF OpenInv, Over
  <2>9. IsPlain(q) => PlainInv(q, c)
    BY <2>2, <2>3 DEF PlainInv, Over
  <2>10. WorkInv(q, c)
    BY <2>2, <2>4, <2>5, <2>6, <2>7, <2>8, <2>9 DEF WorkInv
  <2> QED BY <1>1, <1>9, <2>10 DEF Step, UnixFilesInv, c, t
<1> QED BY <1>2, <1>7, <1>8, <1>9 DEF s

LEMMA WorkStep ==
    ASSUME UnixFilesInv, Work
    PROVE  UnixFilesInv'
<1>1. request \in Made /\ Unbegun(request, work)
  BY QueuedIsFresh DEF UnixFilesInv, Work
<1>2. WorkInv(request, Begin(work))
  BY <1>1, BeginInv
<1> QED BY <1>1, <1>2 DEF Work, Step, UnixFilesInv

LEMMA CancelledStep ==
    ASSUME UnixFilesInv, Cancelled
    PROVE  UnixFilesInv'
<1> DEFINE c == [work EXCEPT !.pc = "done", !.cancelled = TRUE]
<1>1. request \in Made /\ work.pc = "queued" /\ work.result = 0
  BY DEF UnixFilesInv, WorkInv, Common, Cancelled
<1>2. Unbegun(request, work)
  BY <1>1, QueuedIsFresh DEF UnixFilesInv
<1>3. work \in WorkType
      /\ work = [New(request) EXCEPT !.pc = work.pc, !.held = work.held, !.result = work.result, !.cancelled = work.cancelled]
  BY <1>2 DEF Unbegun
<1>4. c \in WorkType /\ c.held = work.held /\ c.pc = "done" /\ c.cancelled /\ c.result = work.result
  <2>1. "done" \in Pcs
    BY DEF Pcs
  <2> QED BY <1>3, <2>1 DEF WorkType
<1>5. c = [New(request) EXCEPT !.pc = c.pc, !.held = c.held, !.result = c.result, !.cancelled = c.cancelled]
  <2> DEFINE n == New(request)
  <2>1. n \in WorkType
    BY <1>1, NewIs
  <2> HIDE DEF n
  <2>2. work = [n EXCEPT !.pc = work.pc, !.held = work.held, !.result = work.result, !.cancelled = work.cancelled]
    BY <1>3 DEF n
  <2>3. c = [n EXCEPT !.pc = "done", !.held = work.held, !.result = work.result, !.cancelled = TRUE]
    BY <1>3, <2>1, <2>2 DEF WorkType
  <2>4. c.pc = "done" /\ c.held = work.held /\ c.result = work.result /\ c.cancelled = TRUE
    BY <1>3 DEF WorkType
  <2> QED BY <2>3, <2>4 DEF n
<1>6. WorkInv(request, c)
  <2> HIDE DEF c
  <2> QED BY <1>1, <1>2, <1>4, <1>5, WaitingInv
<1> QED BY <1>1, <1>6 DEF Cancelled, Step, UnixFilesInv

\* A request that is done comes to its end.
LEMMA OverInv ==
    ASSUME request \in Made, NEW s, WorkInv(request, s), s.pc \in {"done", "ended"},
           NEW p \in {"ended", "cleaned"}, NEW h, NEW r \in Int, NEW gone, h = s.held \ gone,
           gone \cap {"bufs", "src", "dst"} = {}, "req" \notin h, p = "cleaned" => "path" \notin h /\ "ptr" \notin h,
           IF s.cancelled THEN r < 0 ELSE r = s.result
    PROVE  WorkInv(request, [s EXCEPT !.pc = p, !.held = h, !.result = r])
<1> DEFINE c == [s EXCEPT !.pc = p, !.held = h, !.result = r]
<1>1. s \in WorkType /\ s.held \subseteq Things /\ s.cancelled \in BOOLEAN /\ s.result \in Int /\ s.strays = 0
  BY DEF WorkInv, WorkType, Common
<1>2. c \in WorkType /\ Alike(c, s) /\ c.pc = p /\ c.held = h /\ c.result = r
  <2>1. p \in Pcs /\ h \in SUBSET Things
    BY <1>1 DEF Pcs
  <2> QED BY <1>1, <2>1 DEF WorkType, Alike
<1>3. s.cancelled => c = [New(request) EXCEPT !.pc = c.pc, !.held = c.held, !.result = c.result, !.cancelled = c.cancelled]
  <2> SUFFICES ASSUME s.cancelled
               PROVE  c = [New(request) EXCEPT !.pc = c.pc, !.held = c.held, !.result = c.result, !.cancelled = c.cancelled]
    OBVIOUS
  <2> DEFINE n == New(request)
  <2>1. n \in WorkType
    BY NewIs
  <2>2. s = [n EXCEPT !.pc = s.pc, !.held = s.held, !.result = s.result, !.cancelled = s.cancelled]
    BY DEF WorkInv, Common
  <2> HIDE DEF n
  <2>3. c = [n EXCEPT !.pc = p, !.held = h, !.result = r, !.cancelled = s.cancelled]
    BY <2>1, <2>2, <1>1 DEF WorkType
  <2>4. c = [n EXCEPT !.pc = c.pc, !.held = c.held, !.result = c.result, !.cancelled = c.cancelled]
    <3> HIDE DEF c
    <3>1. c.cancelled = s.cancelled
      BY <1>2 DEF Alike
    <3> QED BY <1>2, <2>3, <3>1
  <2> QED BY <2>4 DEF n
<1>4. s.cancelled => s.result <= 0 /\ r < 0
  BY DEF WorkInv, Common
<1> HIDE DEF c
<1>5. Common(request, c)
  <2>1. Common(request, s)
    BY DEF WorkInv
  <2>2. c.cancelled = s.cancelled /\ c.strays = s.strays
    BY <1>2 DEF Alike
  <2>3. /\ "bufs" \in c.held => IsTransfer(request) /\ c.cancelled
        /\ "ptr" \in c.held => c.pc = "ended"
        /\ "lock" \notin c.held
        /\ "src" \in c.held => request.op \in {"open", "close", "copyfile"}
        /\ "dst" \in c.held => request.op = "copyfile"
    BY <1>2, <2>1, <2>2 DEF Common
  <2> QED BY <1>1, <1>2, <1>3, <1>4, <2>2, <2>3 DEF Common, Over
<1>6. IsTransfer(request) => TransferInv(request, c)
  <2> SUFFICES ASSUME IsTransfer(request) PROVE TransferInv(request, c)
    OBVIOUS
  <2>1. Positive(s.result) = Positive(c.result)
    BY <1>1, <1>2, <1>4 DEF Positive
  <2>2. Whole(request, c) <=> Whole(request, s)
    BY <1>2 DEF Whole, Alike
  <2>3. TransferInv(request, s)
    BY DEF WorkInv
  <2> QED BY <1>2, <2>1, <2>2, <2>3 DEF TransferInv, Alike, Over
<1>7. request.op = "sendfile" => SendInv(request, c)
  BY <1>1, <1>2 DEF WorkInv, SendInv, SendExact, Alike, Over, Emulating
<1>8. request.op = "copyfile" => CopyInv(request, c)
  BY <1>1, <1>2 DEF WorkInv, CopyInv, CopyHolds, CopyTells, CopyExact, Alike, Over, Opening, Sending, Emulating
<1>9. request.op = "open" => OpenInv(request, c)
  BY <1>1, <1>2 DEF WorkInv, OpenInv, Alike, Over
<1>10. IsPlain(request) => PlainInv(request, c)
  BY <1>1, <1>2 DEF WorkInv, PlainInv, Alike, Over
<1> QED BY <1>2, <1>5, <1>6, <1>7, <1>8, <1>9, <1>10 DEF WorkInv, c

LEMMA DoneStep ==
    ASSUME UnixFilesInv, Done
    PROVE  UnixFilesInv'
<1> DEFINE r == IF work.cancelled THEN -ECANCELED ELSE work.result
           h == work.held \ {"req"}
<1>1. request \in Made /\ WorkInv(request, work) /\ work \in WorkType
  BY DEF UnixFilesInv, WorkInv
<1>2. r \in Int /\ IF work.cancelled THEN r < 0 ELSE r = work.result
  BY <1>1 DEF WorkType, ECANCELED
<1>3. work.pc \in {"done", "ended"} /\ "req" \notin h /\ {"req"} \cap {"bufs", "src", "dst"} = {}
  BY DEF Done
<1>4. work' = [work EXCEPT !.pc = "ended", !.held = h, !.result = r] /\ request' = request
  BY DEF Done, Step
<1> HIDE DEF r
<1>5. WorkInv(request, [work EXCEPT !.pc = "ended", !.held = h, !.result = r])
  BY <1>1, <1>2, <1>3, OverInv
<1> QED BY <1>1, <1>4, <1>5 DEF UnixFilesInv

LEMMA CleanupStep ==
    ASSUME UnixFilesInv, Cleanup
    PROVE  UnixFilesInv'
<1> DEFINE r == work.result
           h == work.held \ {"path", "ptr"}
<1>1. request \in Made /\ WorkInv(request, work) /\ work \in WorkType
  BY DEF UnixFilesInv, WorkInv
<1>2. r \in Int /\ IF work.cancelled THEN r < 0 ELSE r = work.result
  BY <1>1 DEF WorkType, WorkInv, Common, Cleanup
<1>3. work.pc \in {"done", "ended"} /\ "req" \notin h /\ "path" \notin h /\ "ptr" \notin h
      /\ {"path", "ptr"} \cap {"bufs", "src", "dst"} = {}
  BY <1>1 DEF Cleanup, WorkInv, Common
<1>4. work' = [work EXCEPT !.pc = "cleaned", !.held = h, !.result = r] /\ request' = request
  BY <1>1 DEF Cleanup, Step, WorkType
<1>5. WorkInv(request, [work EXCEPT !.pc = "cleaned", !.held = h, !.result = r])
  <2> HIDE DEF r, h
  <2>1. h = work.held \ {"path", "ptr"}
    BY DEF h
  <2> QED BY <1>1, <1>2, <1>3, <2>1, OverInv
<1> QED BY <1>1, <1>4, <1>5 DEF UnixFilesInv

-----------------------------------------------------------------------------
\* The other requests, while they are worked on.

Working(q, s) ==
    /\ s \in WorkType /\ ~s.cancelled /\ s.strays = 0 /\ s.pc \notin {"call", "queued", "ended", "cleaned"}
    /\ "bufs" \notin s.held
    /\ "ptr" \in s.held => s.pc = "done"
    /\ "lock" \in s.held => s.pc = "open_plain"
    /\ "src" \in s.held => q.op \in {"open", "close", "copyfile"}
    /\ "dst" \in s.held => q.op = "copyfile"

LEMMA WorkingIs ==
    ASSUME NEW q, NEW s, ~IsTransfer(q), WorkInv(q, s), s.pc \notin {"call", "queued"} \cup Over
    PROVE  Working(q, s)
  BY DEF WorkInv, Common, Working, Over

LEMMA WorkingInv ==
    ASSUME NEW q, NEW s, ~IsTransfer(q), Working(q, s),
           q.op = "sendfile" => SendInv(q, s), q.op = "copyfile" => CopyInv(q, s), q.op = "open" => OpenInv(q, s),
           IsPlain(q) => PlainInv(q, s)
    PROVE  WorkInv(q, s)
<1>1. Common(q, s)
  BY DEF Common, Working
<1> QED BY <1>1 DEF WorkInv, Working

\* What moves on, moves on in one of these ways.
LEMMA FailingIs ==
    ASSUME NEW s \in WorkType, NEW e \in Nat
    PROVE  /\ Failing(s, e) \in WorkType /\ Alike(Failing(s, e), s) /\ Failing(s, e).held = s.held
           /\ Failing(s, e).pc = s.pc /\ Failing(s, e).errno = e
<1>1. s.faults + 1 \in Nat
  BY DEF WorkType
<1> QED BY <1>1 DEF Failing, WorkType, Alike

LEMMA WritesIs ==
    ASSUME NEW s \in WorkType, NEW p \in Int, NEW n \in Nat
    PROVE  /\ Writes(s, p, n) = [s EXCEPT !.moved = s.moved \o Places(n, p, Len(s.moved))]
           /\ s.moved \o Places(n, p, Len(s.moved)) \in Seq(Int \X Int)
           /\ Writes(s, p, n) \in WorkType
<1>1. s.moved \in Seq(Int \X Int) /\ Len(s.moved) \in Int
  BY DEF WorkType
<1>2. Writes(s, p, n) = [s EXCEPT !.moved = s.moved \o Places(n, p, Len(s.moved))]
  BY DEF Writes, Places
<1>3. Places(n, p, Len(s.moved)) \in Seq(Int \X Int)
  BY <1>1, PlacesAre
<1> DEFINE joined == s.moved \o Places(n, p, Len(s.moved))
<1>4. joined \in Seq(Int \X Int)
  BY <1>1, <1>3, ConcatProperties
<1> HIDE DEF joined
<1>5. [s EXCEPT !.moved = joined] \in WorkType
  BY <1>4 DEF WorkType
<1> QED BY <1>2, <1>4, <1>5 DEF joined

LEMMA WritesJoin ==
    ASSUME NEW s \in WorkType, NEW n \in Nat, NEW m \in Nat, NEW a \in Int, s.moved = Places(m, a, 0)
    PROVE  s.moved \o Places(n, a + m, Len(s.moved)) = Places(m + n, a, 0)
<1>1. Len(s.moved) = 0 + m
  <2>1. Len(Places(m, a, 0)) = m
    BY PlacesAre
  <2> QED BY <2>1
<1>2. Places(m, a, 0) \o Places(n, a + m, 0 + m) = Places(m + n, a, 0)
  <2>1. 0 \in Int
    OBVIOUS
  <2> QED BY <2>1, PlacesJoin, Zenon
<1> QED BY <1>1, <1>2

-----------------------------------------------------------------------------
\* sendfile.

\* What WorkEnds needs to know of a sendfile that returns r.
SendEnds(q, s, r) ==
    /\ Working(q, s) /\ r \in Int /\ s.held \cap {"ptr", "lock"} = {}
    /\ IF r = -1 /\ s.errno = EINTR THEN q.kernel # "none" /\ (~s.misread => s.moved = << >> /\ s.off = q.off)
       ELSE LET result == IF r = -1 THEN -s.errno ELSE r
            IN  ~s.misread =>
                IF result >= 0 THEN s.moved = Places(result, Source(q), 0) /\ s.off = q.off + result
                ELSE s.moved = Places(Len(s.moved), Source(q), 0) /\ (s.moved = << >> \/ ~s.wrote)

SendGoes(q, c) == Working(q, c) /\ SendInv(q, c)

LEMMA SendEndsInv ==
    ASSUME request \in Made, request.op = "sendfile", NEW s, NEW r, SendEnds(request, s, r)
    PROVE  SendGoes(request, WorkEnds(s, r))
<1> DEFINE c == WorkEnds(s, r)
           again == r = -1 /\ s.errno = EINTR
           result == IF r = -1 THEN -s.errno ELSE r
<1>1. s \in WorkType /\ r \in Int /\ ~IsTransfer(request) /\ ~s.cancelled /\ s.strays = 0 /\ s.held \cap {"ptr", "lock", "bufs"} = {}
  BY DEF SendEnds, Working, IsTransfer
<1>2. c \in WorkType /\ Alike(c, s) /\ c.held = s.held
      /\ IF again THEN c.pc = FirstPc(request) ELSE c.pc = "done" /\ c.result = result
  BY <1>1, WorkEndsOther
<1> HIDE DEF c
<1>3. again => c.pc = "sendfile"
  BY <1>2 DEF SendEnds, FirstPc
<1>4. Working(request, c)
  BY <1>1, <1>2, <1>3 DEF Working, SendEnds, Alike
<1>5. c.pc \in {"sendfile", "done"} /\ (c.pc = "sendfile" => request.kernel # "none" /\ again)
  BY <1>2, <1>3 DEF SendEnds
<1>6. ~c.misread => SendExact(request, c)
  <2>1. CASE again
    BY <1>2, <1>3, <2>1 DEF SendExact, SendEnds, Emulating, Over, Alike
  <2>2. CASE ~again
    BY <1>2, <2>2 DEF SendExact, SendEnds, Emulating, Over, Alike
  <2> QED BY <2>1, <2>2
<1>7. SendInv(request, c)
  BY <1>5, <1>6 DEF SendInv, Over, Emulating
<1> QED BY <1>4, <1>7 DEF SendGoes, c

LEMMA SendGoesOn ==
    ASSUME UnixFilesInv, request.op = "sendfile", NEW c, SendGoes(request, c), Step(c)
    PROVE  UnixFilesInv'
<1>1. ~IsTransfer(request) /\ ~IsPlain(request)
  BY DEF IsTransfer, IsPlain
<1>2. WorkInv(request, c)
  BY <1>1, WorkingInv DEF SendGoes
<1> QED BY <1>2 DEF UnixFilesInv, Step

\* What the sending of data leaves alone.
Settled(c, s) ==
    /\ c.held = s.held /\ c.cancelled = s.cancelled /\ c.strays = s.strays /\ c.len = s.len /\ c.who = s.who
    /\ c.copied = s.copied /\ c.dst = s.dst
Still(c, s) == Settled(c, s) /\ c.misread = s.misread

\* n bytes have been sent, at once.
SentSome(t, s, n) ==
    /\ t \in WorkType /\ Still(t, s) /\ t.pc = s.pc /\ t.off = s.off + n /\ t.wrote = s.wrote
    /\ t.moved = s.moved \o Places(n, s.off, Len(s.moved))

\* The emulation begins, or begins again.
Emulation(t, s) ==
    /\ t \in WorkType /\ Still(t, s) /\ t.pc = "emul_read" /\ t.nsent = 0 /\ t.usePread
    /\ t.off = s.off /\ t.wrote = s.wrote /\ t.moved = s.moved /\ t.fpos = s.fpos

SystemRoom == Least(work.len, Remaining(work.off))

LEMMA SentSomeIs ==
    ASSUME NEW s \in WorkType, NEW n \in Nat
    PROVE  SentSome([Writes(s, s.off, n) EXCEPT !.off = @ + n], s, n)
<1> DEFINE m == s.moved \o Places(n, s.off, Len(s.moved))
           t == [s EXCEPT !.moved = m, !.off = s.off + n]
<1>1. s.off \in Int /\ s.off + n \in Int
  BY DEF WorkType
<1>2. Writes(s, s.off, n) = [s EXCEPT !.moved = m] /\ m \in Seq(Int \X Int)
  BY <1>1, WritesIs
<1> HIDE DEF m
<1>3. [Writes(s, s.off, n) EXCEPT !.off = @ + n] = t
  BY <1>2 DEF WorkType
<1>4. t \in WorkType /\ Still(t, s) /\ t.pc = s.pc /\ t.off = s.off + n /\ t.wrote = s.wrote /\ t.moved = m
  BY <1>1, <1>2 DEF WorkType, Still, Settled
<1> QED BY <1>3, <1>4 DEF SentSome, m

LEMMA SystemSendsDoes ==
    ASSUME work \in WorkType, SystemSends
    PROVE  \/ \E n \in Nat : \E t :
                 /\ Step(Sent(t, n)) /\ SentSome(t, work, n)
                 /\ (n = 0 /\ SystemRoom = 0) \/ n \in 1..SystemRoom
           \/ \E e \in {EINTR, EAGAIN} : Step(Sent(Failing(work, e), -1))
           \/ \E t : Step(t) /\ Emulation(t, work)
<1> DEFINE Has(n, s) == [Writes(s, work.off, n) EXCEPT !.off = @ + n]
           Did(n, s) == Step(Sent(Has(n, s), n))
<1>1. \/ SystemRoom = 0 /\ Did(0, work)
      \/ \E n \in 1..SystemRoom : Did(n, work) \/ Did(n, Failing(work, EAGAIN))
      \/ \E e \in {EINTR, EAGAIN} : Step(Sent(Failing(work, e), -1))
      \/ \E e \in {EINVAL, EIO} :
            Step([Failing(work, e) EXCEPT !.errno = 0, !.pc = "emul_read", !.nsent = 0, !.usePread = TRUE])
  BY DEF SystemSends, SystemRoom
<1>2. ASSUME NEW n \in Nat, NEW s, s = work \/ s = Failing(work, EAGAIN)
      PROVE  SentSome(Has(n, s), work, n)
  <2>1. s \in WorkType /\ s.off = work.off /\ Still(s, work) /\ s.pc = work.pc /\ s.wrote = work.wrote /\ s.moved = work.moved
    BY <1>2, FailingIs DEF EAGAIN, Still, Settled, Alike
  <2>2. SentSome([Writes(s, s.off, n) EXCEPT !.off = @ + n], s, n)
    BY <2>1, SentSomeIs
  <2> QED BY <2>1, <2>2 DEF SentSome, Still, Settled
<1>3. ASSUME NEW e \in Nat
      PROVE  Emulation([Failing(work, e) EXCEPT !.errno = 0, !.pc = "emul_read", !.nsent = 0, !.usePread = TRUE], work)
  <2> DEFINE f == Failing(work, e)
  <2>1. f \in WorkType /\ Alike(f, work) /\ f.held = work.held
    BY FailingIs
  <2>2. "emul_read" \in Pcs
    BY DEF Pcs
  <2> HIDE DEF f
  <2> DEFINE t == [f EXCEPT !.errno = 0, !.pc = "emul_read", !.nsent = 0, !.usePread = TRUE]
  <2>3. Emulation(t, f)
    BY <2>1, <2>2 DEF WorkType, Emulation, Still, Settled
  <2> QED BY <2>1, <2>3 DEF Emulation, Alike, Still, Settled, f
<1> HIDE DEF Has
<1>4. CASE SystemRoom = 0 /\ Did(0, work)
  <2>1. 0 \in Nat
    OBVIOUS
  <2>2. SentSome(Has(0, work), work, 0)
    BY <1>2, <2>1
  <2> QED BY <1>4, <2>1, <2>2
<1>5. CASE \E n \in 1..SystemRoom : Did(n, work) \/ Did(n, Failing(work, EAGAIN))
  <2>1. PICK n \in 1..SystemRoom : Did(n, work) \/ Did(n, Failing(work, EAGAIN))
    BY <1>5
  <2>2. n \in Nat
    OBVIOUS
  <2>3. SentSome(Has(n, work), work, n) /\ SentSome(Has(n, Failing(work, EAGAIN)), work, n)
    BY <1>2, <2>2
  <2> QED BY <2>1, <2>2, <2>3
<1>6. CASE \E e \in {EINVAL, EIO} :
              Step([Failing(work, e) EXCEPT !.errno = 0, !.pc = "emul_read", !.nsent = 0, !.usePread = TRUE])
  BY <1>3, <1>6 DEF EINVAL, EIO
<1> QED BY <1>1, <1>4, <1>5, <1>6

LEMMA SendSystemSends ==
    ASSUME UnixFilesInv, request.op = "sendfile", SystemSends
    PROVE  UnixFilesInv'
<1>1. request \in Made /\ work \in WorkType /\ SendInv(request, work) /\ work.pc = "sendfile"
  BY DEF UnixFilesInv, WorkInv, SystemSends
<1>2. Working(request, work) /\ work.held \cap {"ptr", "lock"} = {} /\ request.kernel # "none"
  <2>1. Working(request, work)
    BY <1>1, WorkingIs DEF UnixFilesInv, IsTransfer, Over
  <2> QED BY <1>1, <2>1 DEF Working, SendInv
<1>3. Source(request) = request.off /\ request.off \in Nat
  BY <1>1, <1>2, RequestIs DEF Source
<1>4. ~work.misread => work.moved = << >> /\ work.off = request.off
  BY <1>1 DEF SendInv, SendExact
<1>5. ASSUME NEW r, NEW s, SendEnds(request, s, r), Step(Sent(s, r)) PROVE UnixFilesInv'
  <2>1. Sent(s, r) = WorkEnds(s, r)
    BY DEF Sent
  <2> QED BY <1>1, <1>5, <2>1, SendEndsInv, SendGoesOn
<1>6. ASSUME NEW t, NEW n \in Nat, Step(Sent(t, n)), SentSome(t, work, n) PROVE UnixFilesInv'
  <2>1. Working(request, t) /\ t.held \cap {"ptr", "lock"} = {}
    BY <1>1, <1>2, <1>6 DEF SentSome, Still, Settled, Working
  <2>2. ~t.misread => t.moved = Places(n, Source(request), 0) /\ t.off = request.off + n
    <3> SUFFICES ASSUME ~t.misread PROVE t.moved = Places(n, Source(request), 0) /\ t.off = request.off + n
      OBVIOUS
    <3>1. work.moved = << >> /\ work.off = request.off /\ t.off = work.off + n
      BY <1>4, <1>6 DEF SentSome, Still, Settled
    <3>2. Len(<< >>) = 0 /\ Places(n, work.off, 0) \in Seq(Int \X Int)
      BY <1>3, <3>1, PlacesAre, SMTT(30)
    <3>3. t.moved = << >> \o Places(n, work.off, 0)
      BY <1>6, <3>1, <3>2 DEF SentSome
    <3> QED BY <1>3, <3>1, <3>2, <3>3
  <2>3. SendEnds(request, t, n)
    BY <2>1, <2>2 DEF SendEnds
  <2> QED BY <1>5, <1>6, <2>3
<1>7. ASSUME NEW e \in {EINTR, EAGAIN}, Step(Sent(Failing(work, e), -1)) PROVE UnixFilesInv'
  <2> DEFINE t == Failing(work, e)
  <2>1. t \in WorkType /\ Alike(t, work) /\ t.held = work.held /\ t.pc = work.pc /\ t.errno = e /\ (e = 4 \/ e = 11)
    BY <1>1, FailingIs DEF EINTR, EAGAIN
  <2> HIDE DEF t
  <2>2. Working(request, t)
    BY <1>2, <2>1 DEF Working, Alike
  <2>3. ~t.misread => t.moved = << >> /\ t.off = request.off
    BY <1>4, <2>1 DEF Alike
  <2>4. Places(0, Source(request), 0) = << >> /\ Len(<< >>) = 0
    BY <1>3, PlacesAre
  <2>5. SendEnds(request, t, -1)
    BY <1>2, <2>1, <2>2, <2>3, <2>4 DEF SendEnds, EINTR
  <2> QED BY <1>5, <1>7, <2>5 DEF t
<1>8. ASSUME NEW t, Step(t), Emulation(t, work) PROVE UnixFilesInv'
  <2>1. Working(request, t)
    BY <1>2, <1>8 DEF Working, Emulation, Still, Settled
  <2>2. ~request.pipe
    BY <1>1, <1>2, RequestIs
  <2>3. Places(0, Source(request), 0) = << >>
    BY <1>3, PlacesAre
  <2>4. SendInv(request, t)
    BY <1>4, <1>8, <2>2, <2>3 DEF SendInv, SendExact, EmulAt, Emulation, Still, Settled, Emulating, Over
  <2> QED BY <1>8, <2>1, <2>4, SendGoesOn DEF SendGoes
<1> QED BY <1>1, <1>6, <1>7, <1>8, SystemSendsDoes

-----------------------------------------------------------------------------
\* The emulation of sendfile.

EmulFrom == IF work.usePread THEN work.off + work.nsent ELSE work.fpos
EmulRoom == Least(Least(work.len - work.nsent, EmulBuf), Remaining(EmulFrom))
NoPread == request.pipe /\ work.usePread

\* All that has been sent is returned.
SentAll(t, s) ==
    /\ t \in WorkType /\ Still(t, s) /\ t.pc = s.pc /\ t.off = s.off + s.nsent /\ t.moved = s.moved /\ t.wrote = s.wrote

\* A part has been read.
HasRead(t, s, n, from) ==
    /\ t \in WorkType /\ Still(t, s) /\ t.pc = "emul_write" /\ t.from = from /\ t.nread = n /\ t.nwritten = 0
    /\ t.nsent = s.nsent /\ t.usePread = s.usePread /\ t.moved = s.moved /\ t.off = s.off /\ t.wrote = s.wrote
    /\ t.fpos = IF s.usePread THEN s.fpos ELSE s.fpos + n

\* There is no pread.
ReadsOn(t, s) ==
    /\ t \in WorkType /\ Settled(t, s) /\ t.pc = s.pc /\ ~t.usePread /\ t.nsent = s.nsent /\ t.fpos = s.fpos
    /\ t.moved = s.moved /\ t.off = s.off /\ t.wrote = s.wrote /\ t.misread = (s.misread \/ ~request.pipe)

\* Nothing has changed but perhaps where it goes on, and errno.
Waits(t, s) == t \in WorkType /\ Alike(t, s) /\ t.held = s.held

LEMMA SentAllIs ==
    ASSUME NEW s \in WorkType
    PROVE  EmulOut(s, s.nsent) = Sent([s EXCEPT !.off = @ + s.nsent], s.nsent) /\ SentAll([s EXCEPT !.off = @ + s.nsent], s)
<1>1. s.off + s.nsent \in Int /\ s.nsent # -1
  BY SMTT(30) DEF WorkType
<1>2. SentAll([s EXCEPT !.off = @ + s.nsent], s)
  BY <1>1 DEF WorkType, SentAll, Still, Settled
<1> QED BY <1>1, <1>2 DEF EmulOut

LEMMA EmulReadDoes ==
    ASSUME request \in Made, work \in WorkType, EmulRead
    PROVE  \/ /\ work.nsent = work.len \/ (~NoPread /\ EmulRoom = 0) \/ work.nsent # 0
              /\ \E t : Step(Sent(t, work.nsent)) /\ SentAll(t, work)
           \/ /\ ~NoPread
              /\ \E n \in Nat : \E t : /\ n \in 1..EmulRoom /\ Step(t) /\ HasRead(t, work, n, EmulFrom)
           \/ /\ work.nsent = 0 /\ work.usePread
              /\ \E t : Step(t) /\ ReadsOn(t, work)
           \/ /\ work.nsent = 0 /\ ~work.usePread
              /\ \E t : Step(Sent(t, -1)) /\ Waits(t, work) /\ t.pc = work.pc /\ t.errno = 5
           \/ \E t : Step(t) /\ Waits(t, work) /\ t.pc = work.pc
<1> DEFINE Reads(n) == [work EXCEPT !.pc = "emul_write", !.from = EmulFrom, !.nread = n, !.nwritten = 0,
                                    !.fpos = IF work.usePread THEN @ ELSE @ + n]
           Without(e) == [Failing(work, e) EXCEPT !.usePread = FALSE, !.misread = @ \/ ~request.pipe]
           Broken(e) == IF work.usePread /\ work.nsent = 0 /\ e \in {EIO, ESPIPE}
                        THEN Step(Without(e)) ELSE Step(EmulReadFailed(Failing(work, e)))
<1>1. \/ (work.nsent = work.len \/ (~NoPread /\ EmulRoom = 0)) /\ Step(EmulOut(work, work.nsent))
      \/ ~NoPread /\ \E n : n \in 1..EmulRoom /\ Step(Reads(n))
      \/ \E e \in {EIO, ESPIPE} : (e = ESPIPE => NoPread) /\ Broken(e)
      \/ Step(Failing(work, EINTR))
  <2> DEFINE room == EmulRoom
  <2>1. IF work.nsent = work.len THEN Step(EmulOut(work, work.nsent))
        ELSE IF NoPread THEN Broken(ESPIPE)
        ELSE \/ room = 0 /\ Step(EmulOut(work, work.nsent))
             \/ room > 0 /\ Step(Reads(room))
             \/ \E n \in 1..room - 1 : Step(Reads(n))
             \/ Broken(EIO)
             \/ Step(Failing(work, EINTR))
    BY DEF EmulRead, EmulFrom, EmulRoom, NoPread
  <2>2. room \in Int
    <3>1. EmulFrom \in Int /\ work.len \in Int /\ work.nsent \in Int
      BY DEF WorkType, EmulFrom
    <3>2. Remaining(EmulFrom) \in Int /\ EmulBuf \in Int
      BY <3>1, RequestIs DEF Remaining
    <3> QED BY <3>1, <3>2 DEF EmulRoom, Least
  <2>3. (room > 0 => room \in 1..room) /\ 1..room - 1 \subseteq 1..room
    BY <2>2
  <2>4. EIO # ESPIPE
    BY DEF EIO, ESPIPE
  <2> HIDE DEF room, Broken, Reads
  <2>5. CASE work.nsent = work.len
    BY <2>1, <2>5
  <2>6. CASE work.nsent # work.len /\ NoPread
    BY <2>1, <2>6
  <2>7. CASE work.nsent # work.len /\ ~NoPread
    BY <2>1, <2>3, <2>4, <2>7 DEF room
  <2> QED BY <2>5, <2>6, <2>7
<1>2. CASE (work.nsent = work.len \/ (~NoPread /\ EmulRoom = 0)) /\ Step(EmulOut(work, work.nsent))
  BY <1>2, SentAllIs
<1>3. CASE ~NoPread /\ \E n : n \in 1..EmulRoom /\ Step(Reads(n))
  <2>1. PICK n : n \in 1..EmulRoom /\ Step(Reads(n))
    BY <1>3
  <2>2. n \in Nat
    BY <2>1
  <2>3. HasRead(Reads(n), work, n, EmulFrom)
    <3> DEFINE from == EmulFrom
               fpos == IF work.usePread THEN work.fpos ELSE work.fpos + n
               u == [work EXCEPT !.pc = "emul_write", !.from = from, !.nread = n, !.nwritten = 0, !.fpos = fpos]
    <3>1. from \in Int /\ fpos \in Nat /\ "emul_write" \in Pcs
      <4>1. work.off \in Int /\ work.nsent \in Nat /\ work.fpos \in Nat /\ work.usePread \in BOOLEAN
        BY DEF WorkType
      <4>2. "emul_write" \in Pcs
        BY DEF Pcs
      <4>3. fpos \in Nat /\ from \in Int
        BY <2>2, <4>1 DEF EmulFrom
      <4> QED BY <4>2, <4>3
    <3>2. Reads(n) = u
      BY DEF WorkType
    <3> HIDE DEF from, fpos
    <3>3. u \in WorkType /\ Still(u, work) /\ u.pc = "emul_write" /\ u.from = from /\ u.nread = n /\ u.nwritten = 0
          /\ u.nsent = work.nsent /\ u.usePread = work.usePread /\ u.moved = work.moved /\ u.off = work.off
          /\ u.wrote = work.wrote /\ u.fpos = fpos
      BY <2>2, <3>1 DEF WorkType, Still, Settled
    <3> HIDE DEF u, Reads
    <3> QED BY <3>2, <3>3 DEF HasRead, from, fpos
  <2> HIDE DEF Reads
  <2> QED BY <1>3, <2>1, <2>2, <2>3
<1>4. CASE \E e \in {EIO, ESPIPE} : (e = ESPIPE => NoPread) /\ Broken(e)
  <2>1. PICK e \in {EIO, ESPIPE} : (e = ESPIPE => NoPread) /\ Broken(e)
    BY <1>4
  <2> DEFINE f == Failing(work, e)
  <2>2. f \in WorkType /\ Alike(f, work) /\ f.held = work.held /\ f.pc = work.pc /\ f.errno = e /\ e \in {5, 29}
    BY <2>1, FailingIs DEF EIO, ESPIPE
  <2>3. CASE work.usePread /\ work.nsent = 0
    <3>1. Step(Without(e))
      BY <2>1, <2>3
    <3> DEFINE b == f.misread \/ ~request.pipe
               u == [f EXCEPT !.usePread = FALSE, !.misread = b]
    <3>2. b \in BOOLEAN
      OBVIOUS
    <3>3. Without(e) = u
      BY <2>2 DEF WorkType
    <3> HIDE DEF f, b
    <3>4. u \in WorkType /\ Settled(u, f) /\ u.pc = f.pc /\ ~u.usePread /\ u.nsent = f.nsent /\ u.fpos = f.fpos
          /\ u.moved = f.moved /\ u.off = f.off /\ u.wrote = f.wrote /\ u.misread = b
      BY <2>2, <3>2, ZenonT(40) DEF WorkType, Settled
    <3> HIDE DEF u, Without
    <3>5. ReadsOn(u, work)
      BY <2>2, <3>4 DEF ReadsOn, Settled, Alike, b
    <3> QED BY <2>3, <3>1, <3>3, <3>5
  <2>4. CASE ~(work.usePread /\ work.nsent = 0)
    <3>1. Step(EmulReadFailed(f))
      BY <2>1, <2>4
    <3> HIDE DEF f
    <3>2. f.nsent = work.nsent
      BY <2>2 DEF Alike
    <3>3. CASE work.nsent = 0
      <4>1. Step(Sent(f, -1))
        BY <3>1, <3>2, <3>3 DEF EmulReadFailed, EmulOut
      <4>2. f.errno = 5
        BY <2>1, <2>2, <2>4, <3>3 DEF NoPread, ESPIPE
      <4> QED BY <2>2, <2>4, <3>3, <4>1, <4>2 DEF Waits
    <3>4. CASE work.nsent # 0
      <4>1. Step(EmulOut(f, f.nsent))
        BY <3>1, <3>2, <3>4 DEF EmulReadFailed
      <4> DEFINE u == [f EXCEPT !.off = @ + f.nsent]
      <4>2. EmulOut(f, f.nsent) = Sent(u, f.nsent) /\ SentAll(u, f)
        BY <2>2, SentAllIs
      <4> HIDE DEF u
      <4>3. SentAll(u, work)
        BY <2>2, <4>2 DEF SentAll, Still, Settled, Alike
      <4> QED BY <3>2, <3>4, <4>1, <4>2, <4>3
    <3> QED BY <3>3, <3>4
  <2> QED BY <2>3, <2>4
<1>5. CASE Step(Failing(work, EINTR))
  <2>1. Waits(Failing(work, EINTR), work) /\ Failing(work, EINTR).pc = work.pc
    BY FailingIs DEF EINTR, Waits
  <2> QED BY <1>5, <2>1
<1> QED BY <1>1, <1>2, <1>3, <1>4, <1>5

\* n of the bytes read have been written.
HasWritten(t, s, n) ==
    /\ t \in WorkType /\ Still(t, s) /\ t.nread = s.nread /\ t.from = s.from /\ t.off = s.off /\ t.wrote = s.wrote
    /\ t.usePread = s.usePread /\ t.fpos = s.fpos /\ t.nwritten = s.nwritten + n
    /\ t.moved = s.moved \o Places(n, s.from + s.nwritten, Len(s.moved))
    /\ IF t.nwritten < t.nread THEN t.pc = "emul_write" /\ t.nsent = s.nsent
       ELSE t.pc = "emul_read" /\ t.nsent = s.nsent + s.nread

WriteFails(t, s) ==
    /\ t \in WorkType /\ Still(t, s) /\ t.pc = s.pc /\ t.moved = s.moved /\ t.off = s.off /\ ~t.wrote /\ t.errno \in {5, 28}

LEMMA WriteFailsIs ==
    ASSUME work \in WorkType, NEW e \in Nat, e \in {5, 28}
    PROVE  WriteFails(Failing([work EXCEPT !.wrote = FALSE], e), work)
<1> DEFINE u == [work EXCEPT !.wrote = FALSE]
<1>1. u \in WorkType /\ Still(u, work) /\ u.pc = work.pc /\ u.moved = work.moved /\ u.off = work.off /\ ~u.wrote
  BY DEF WorkType, Still, Settled
<1> HIDE DEF u
<1> DEFINE t == Failing(u, e)
<1>2. t \in WorkType /\ Alike(t, u) /\ t.held = u.held /\ t.pc = u.pc /\ t.errno = e
  BY <1>1, FailingIs
<1> HIDE DEF t
<1>3. WriteFails(t, work)
  BY <1>1, <1>2 DEF WriteFails, Still, Settled, Alike
<1> QED BY <1>3 DEF t, u

LEMMA EmulWriteDoes ==
    ASSUME work \in WorkType, EmulWrite
    PROVE  \/ \E n \in Nat : \E t : /\ n \in 1..work.nread - work.nwritten /\ Step(t) /\ HasWritten(t, work, n)
           \/ \E t : Step(t) /\ Waits(t, work) /\ t.pc \in {"emul_write", "poll"}
           \/ \E t : Step(Sent(t, -1)) /\ WriteFails(t, work)
<1> DEFINE Has(n) == [Writes(work, work.from + work.nwritten, n) EXCEPT !.nwritten = @ + n]
           Does(s) == IF s.nwritten < s.nread THEN s ELSE [s EXCEPT !.pc = "emul_read", !.nsent = @ + s.nread]
           Polls == [Failing(work, EAGAIN) EXCEPT !.pc = "poll"]
           Failed == Failing([work EXCEPT !.wrote = FALSE], ENOSPC)
<1>1. \/ \E n \in 1..work.nread - work.nwritten : Step(Does(Has(n)))
      \/ Step(Failing(work, EINTR))
      \/ Step(Polls)
      \/ Step(EmulOut(Failed, -1))
  BY DEF EmulWrite
<1>2. CASE \E n \in 1..work.nread - work.nwritten : Step(Does(Has(n)))
  <2>1. PICK n \in 1..work.nread - work.nwritten : Step(Does(Has(n)))
    BY <1>2
  <2> DEFINE p == work.from + work.nwritten
             m == work.moved \o Places(n, p, Len(work.moved))
             u == [work EXCEPT !.moved = m, !.nwritten = work.nwritten + n]
             v == [u EXCEPT !.pc = "emul_read", !.nsent = u.nsent + u.nread]
  <2>2. n \in Nat /\ p \in Int /\ work.nwritten + n \in Nat
    <3>1. work.from \in Int /\ work.nwritten \in Nat /\ work.nread \in Nat
      BY DEF WorkType
    <3> QED BY <2>1, <3>1
  <2>3. Writes(work, p, n) = [work EXCEPT !.moved = m] /\ m \in Seq(Int \X Int)
    BY <2>2, WritesIs
  <2> HIDE DEF m, p
  <2>4. Has(n) = u
    BY <2>2, <2>3 DEF WorkType, p
  <2>5. u \in WorkType /\ Still(u, work) /\ u.nread = work.nread /\ u.from = work.from /\ u.off = work.off
        /\ u.wrote = work.wrote /\ u.usePread = work.usePread /\ u.fpos = work.fpos /\ u.nwritten = work.nwritten + n
        /\ u.moved = m /\ u.pc = work.pc /\ u.nsent = work.nsent
    BY <2>2, <2>3 DEF WorkType, Still, Settled
  <2> HIDE DEF u, Has
  <2>6. work.pc = "emul_write"
    BY DEF EmulWrite
  <2>7. CASE u.nwritten < u.nread
    <3>1. HasWritten(u, work, n)
      BY <2>5, <2>6, <2>7 DEF HasWritten, m, p
    <3>2. Step(u)
      BY <2>1, <2>4, <2>7
    <3> QED BY <2>1, <2>2, <3>1, <3>2
  <2>8. CASE ~(u.nwritten < u.nread)
    <3>1. u.nsent + u.nread \in Nat
      <4>1. u.nsent \in Nat /\ u.nread \in Nat
        BY <2>5 DEF WorkType
      <4> QED BY <4>1
    <3>2. "emul_read" \in Pcs
      BY DEF Pcs
    <3>3. v \in WorkType /\ Still(v, u) /\ v.nread = u.nread /\ v.from = u.from /\ v.off = u.off
          /\ v.wrote = u.wrote /\ v.usePread = u.usePread /\ v.fpos = u.fpos /\ v.nwritten = u.nwritten
          /\ v.moved = u.moved /\ v.pc = "emul_read" /\ v.nsent = u.nsent + u.nread
      BY <2>5, <3>1, <3>2 DEF WorkType, Still, Settled
    <3>4. Does(u) = v
      BY <2>5, <2>8 DEF WorkType
    <3> HIDE DEF v, Does
    <3>5. HasWritten(v, work, n)
      BY <2>5, <2>8, <3>3 DEF HasWritten, Still, Settled, m, p
    <3> QED BY <2>1, <2>2, <2>4, <3>4, <3>5
  <2> QED BY <2>7, <2>8
<1>3. CASE Step(Failing(work, EINTR))
  <2>1. Waits(Failing(work, EINTR), work) /\ Failing(work, EINTR).pc = work.pc
    BY FailingIs DEF EINTR, Waits
  <2>2. work.pc = "emul_write"
    BY DEF EmulWrite
  <2> QED BY <1>3, <2>1, <2>2
<1>4. CASE Step(Polls)
  <2> DEFINE f == Failing(work, EAGAIN)
             u == [f EXCEPT !.pc = "poll"]
  <2>1. f \in WorkType /\ Alike(f, work) /\ f.held = work.held
    BY FailingIs DEF EAGAIN
  <2>2. "poll" \in Pcs
    BY DEF Pcs
  <2> HIDE DEF f
  <2>3. u \in WorkType /\ Alike(u, f) /\ u.held = f.held /\ u.pc = "poll"
    BY <2>1, <2>2 DEF WorkType, Alike
  <2>4. Waits(u, work)
    BY <2>1, <2>3 DEF Waits, Alike
  <2> QED BY <1>4, <2>3, <2>4 DEF f
<1>5. CASE Step(EmulOut(Failed, -1))
  <2>1. ENOSPC \in {5, 28} /\ ENOSPC \in Nat
    BY DEF ENOSPC
  <2>2. WriteFails(Failed, work)
    BY <2>1, WriteFailsIs
  <2>3. Step(Sent(Failed, -1))
    BY <1>5 DEF EmulOut
  <2> QED BY <2>2, <2>3
<1> QED BY <1>1, <1>2, <1>3, <1>4, <1>5

LEMMA PollDoes ==
    ASSUME work \in WorkType, Poll
    PROVE  \/ \E t : Step(t) /\ Waits(t, work) /\ t.pc \in {"emul_write", "poll"}
           \/ \E t : Step(Sent(t, -1)) /\ WriteFails(t, work)
<1> DEFINE Goes == [work EXCEPT !.pc = "emul_write"]
           Failed == Failing([work EXCEPT !.wrote = FALSE], EIO)
<1>1. work.pc = "poll" /\ (Step(Goes) \/ Step(Failing(work, EINTR)) \/ Step(EmulOut(Failed, -1)))
  BY DEF Poll
<1>2. CASE Step(Goes)
  <2>1. "emul_write" \in Pcs
    BY DEF Pcs
  <2>2. Waits(Goes, work) /\ Goes.pc = "emul_write"
    BY <2>1 DEF WorkType, Waits, Alike
  <2> QED BY <1>2, <2>2
<1>3. CASE Step(Failing(work, EINTR))
  <2>1. Waits(Failing(work, EINTR), work) /\ Failing(work, EINTR).pc = work.pc
    BY FailingIs DEF EINTR, Waits
  <2> QED BY <1>1, <1>3, <2>1
<1>4. CASE Step(EmulOut(Failed, -1))
  <2>1. EIO \in {5, 28} /\ EIO \in Nat
    BY DEF EIO
  <2>2. WriteFails(Failed, work)
    BY <2>1, WriteFailsIs
  <2>3. Step(Sent(Failed, -1))
    BY <1>4 DEF EmulOut
  <2> QED BY <2>2, <2>3
<1> QED BY <1>1, <1>2, <1>3, <1>4

-----------------------------------------------------------------------------
\* sendfile, emulated.

LEMMA SendWorks ==
    ASSUME UnixFilesInv, request.op = "sendfile", work.pc \in Emulating
    PROVE  /\ request \in Made /\ work \in WorkType /\ Source(request) \in Int /\ request.off \in Nat
           /\ Working(request, work) /\ work.held \cap {"ptr", "lock"} = {}
           /\ ~work.misread => SendExact(request, work)
<1>1. request \in Made /\ work \in WorkType /\ SendInv(request, work)
  BY DEF UnixFilesInv, WorkInv
<1>2. Working(request, work)
  BY <1>1, WorkingIs DEF UnixFilesInv, IsTransfer, Over, Emulating
<1>3. Source(request) \in Int /\ request.off \in Nat
  BY <1>1, RequestIs DEF Source
<1> QED BY <1>1, <1>2, <1>3 DEF Working, SendInv, Emulating

\* A failure once a write has failed, or before anything is sent.
LEMMA SendFails ==
    ASSUME request \in Made, request.op = "sendfile", NEW s, Working(request, s), s.held \cap {"ptr", "lock"} = {},
           s.errno \in {5, 28}, ~s.misread => s.moved = Places(Len(s.moved), Source(request), 0) /\ (s.moved = << >> \/ ~s.wrote)
    PROVE  SendEnds(request, s, -1)
<1>1. ~(s.errno = EINTR) /\ ~(-s.errno >= 0)
  BY DEF EINTR
<1> QED BY <1>1 DEF SendEnds

LEMMA SentSends ==
    ASSUME UnixFilesInv, request.op = "sendfile", NEW r, NEW s, SendEnds(request, s, r), Step(Sent(s, r))
    PROVE  UnixFilesInv'
<1>1. Sent(s, r) = WorkEnds(s, r)
  BY DEF Sent
<1> QED BY <1>1, SendEndsInv, SendGoesOn DEF UnixFilesInv

LEMMA SendEmulRead ==
    ASSUME UnixFilesInv, request.op = "sendfile", EmulRead
    PROVE  UnixFilesInv'
<1>1. work.pc = "emul_read"
  BY DEF EmulRead
<1>2. /\ request \in Made /\ work \in WorkType /\ Source(request) \in Int /\ request.off \in Nat
      /\ Working(request, work) /\ work.held \cap {"ptr", "lock"} = {}
      /\ ~work.misread => SendExact(request, work)
  BY <1>1, SendWorks DEF Emulating
<1>3. work.nsent \in Nat /\ work.misread \in BOOLEAN /\ work.fpos \in Nat
  BY <1>2 DEF WorkType
<1>4. ~work.misread => /\ work.moved = Places(work.nsent, Source(request), 0) /\ work.off = request.off
                       /\ request.pipe => work.fpos = work.nsent /\ (work.usePread => work.nsent = 0)
                       /\ ~request.pipe => work.usePread
  <2>1. work.nsent + 0 = work.nsent
    BY <1>3
  <2> QED BY <1>1, <1>2, <2>1 DEF SendExact, EmulAt, Emulating
<1>5. ASSUME NEW t, Step(Sent(t, work.nsent)), SentAll(t, work) PROVE UnixFilesInv'
  <2>1. Working(request, t) /\ t.held \cap {"ptr", "lock"} = {}
    BY <1>2, <1>5 DEF SentAll, Still, Settled, Working
  <2>2. ~t.misread => t.moved = Places(work.nsent, Source(request), 0) /\ t.off = request.off + work.nsent
    BY <1>4, <1>5 DEF SentAll, Still
  <2>3. SendEnds(request, t, work.nsent)
    BY <1>3, <2>1, <2>2 DEF SendEnds
  <2> QED BY <1>5, <2>3, SentSends
<1>6. ASSUME ~NoPread, NEW n \in Nat, NEW t, n \in 1..EmulRoom, Step(t), HasRead(t, work, n, EmulFrom) PROVE UnixFilesInv'
  <2>1. Working(request, t)
    BY <1>2, <1>6 DEF HasRead, Still, Settled, Working
  <2>2. ~t.misread => SendExact(request, t)
    <3> SUFFICES ASSUME ~t.misread PROVE SendExact(request, t)
      OBVIOUS
    <3>1. ~work.misread /\ t.pc = "emul_write" /\ t.from = EmulFrom /\ t.nread = n /\ t.nwritten = 0 /\ t.nsent = work.nsent
          /\ t.usePread = work.usePread /\ t.moved = work.moved /\ t.off = work.off
          /\ t.fpos = (IF work.usePread THEN work.fpos ELSE work.fpos + n)
      BY <1>6 DEF HasRead, Still
    <3>2. EmulFrom = Source(request) + work.nsent
      BY <1>2, <1>3, <1>4, <1>6, <3>1 DEF EmulFrom, Source, NoPread
    <3>3. 0 + work.nsent + 0 = work.nsent /\ Source(request) + 0 + work.nsent = Source(request) + work.nsent /\ 0 < n
      BY <1>2, <1>3, <1>6
    <3>4. EmulAt(request, t, 0)
      BY <1>4, <3>1, <3>2, <3>3 DEF EmulAt
    <3>5. request.pipe => ~t.usePread /\ t.fpos = t.nsent + t.nread
      BY <1>4, <1>6, <3>1 DEF NoPread
    <3> QED BY <1>4, <3>1, <3>4, <3>5 DEF SendExact, Emulating, Over
  <2>3. SendInv(request, t)
    BY <1>6, <2>2 DEF SendInv, HasRead, Emulating
  <2> QED BY <1>6, <2>1, <2>3, SendGoesOn DEF SendGoes
<1>7. ASSUME work.nsent = 0, work.usePread, NEW t, Step(t), ReadsOn(t, work) PROVE UnixFilesInv'
  <2>1. Working(request, t)
    BY <1>1, <1>2, <1>7 DEF ReadsOn, Settled, Working
  <2>2. ~t.misread => SendExact(request, t)
    <3> SUFFICES ASSUME ~t.misread PROVE SendExact(request, t)
      OBVIOUS
    <3>1. ~work.misread /\ request.pipe /\ t.pc = "emul_read" /\ ~t.usePread /\ t.nsent = 0 /\ t.fpos = work.fpos
          /\ t.moved = work.moved /\ t.off = work.off
      BY <1>1, <1>7 DEF ReadsOn
    <3>2. 0 + 0 = 0 /\ EmulAt(request, t, 0)
      BY <1>4, <1>7, <3>1 DEF EmulAt
    <3> QED BY <1>4, <1>7, <3>1, <3>2 DEF SendExact, Emulating, Over
  <2>3. SendInv(request, t)
    BY <1>1, <1>7, <2>2 DEF SendInv, ReadsOn, Emulating
  <2> QED BY <1>7, <2>1, <2>3, SendGoesOn DEF SendGoes
<1>8. ASSUME work.nsent = 0, ~work.usePread, NEW t, Step(Sent(t, -1)), Waits(t, work), t.pc = work.pc, t.errno = 5
      PROVE  UnixFilesInv'
  <2>1. Working(request, t) /\ t.held \cap {"ptr", "lock"} = {}
    BY <1>2, <1>8 DEF Waits, Alike, Working
  <2>2. Places(0, Source(request), 0) = << >> /\ Len(<< >>) = 0
    BY <1>2, PlacesAre
  <2>3. ~t.misread => t.moved = << >>
    BY <1>4, <1>8, <2>2 DEF Waits, Alike
  <2>4. SendEnds(request, t, -1)
    BY <1>2, <1>8, <2>1, <2>2, <2>3, SendFails
  <2> QED BY <1>8, <2>4, SentSends
<1>9. ASSUME NEW t, Step(t), Waits(t, work), t.pc = work.pc PROVE UnixFilesInv'
  <2>1. Working(request, t)
    BY <1>2, <1>9 DEF Waits, Alike, Working
  <2>2. SendInv(request, t)
    BY <1>1, <1>2, <1>9 DEF SendInv, SendExact, EmulAt, Waits, Alike, Emulating, Over
  <2> QED BY <1>9, <2>1, <2>2, SendGoesOn DEF SendGoes
<1> QED BY <1>2, <1>5, <1>6, <1>7, <1>8, <1>9, EmulReadDoes

LEMMA SendWaits ==
    ASSUME UnixFilesInv, request.op = "sendfile", work.pc \in {"emul_write", "poll"},
           \/ \E t : Step(t) /\ Waits(t, work) /\ t.pc \in {"emul_write", "poll"}
           \/ \E t : Step(Sent(t, -1)) /\ WriteFails(t, work)
    PROVE  UnixFilesInv'
<1>1. /\ request \in Made /\ work \in WorkType /\ Source(request) \in Int
      /\ Working(request, work) /\ work.held \cap {"ptr", "lock"} = {}
      /\ ~work.misread => SendExact(request, work)
  BY SendWorks DEF Emulating
<1>2. CASE \E t : Step(t) /\ Waits(t, work) /\ t.pc \in {"emul_write", "poll"}
  <2>1. PICK t : Step(t) /\ Waits(t, work) /\ t.pc \in {"emul_write", "poll"}
    BY <1>2
  <2>2. Working(request, t)
    BY <1>1, <2>1 DEF Waits, Alike, Working
  <2>3. SendInv(request, t)
    BY <1>1, <2>1 DEF SendInv, SendExact, EmulAt, Waits, Alike, Emulating, Over
  <2> QED BY <2>1, <2>2, <2>3, SendGoesOn DEF SendGoes
<1>3. CASE \E t : Step(Sent(t, -1)) /\ WriteFails(t, work)
  <2>1. PICK t : Step(Sent(t, -1)) /\ WriteFails(t, work)
    BY <1>3
  <2>2. Working(request, t) /\ t.held \cap {"ptr", "lock"} = {}
    BY <1>1, <2>1 DEF WriteFails, Still, Settled, Working
  <2>3. ~t.misread => t.moved = Places(Len(t.moved), Source(request), 0) /\ (t.moved = << >> \/ ~t.wrote)
    <3> SUFFICES ASSUME ~t.misread PROVE t.moved = Places(Len(t.moved), Source(request), 0) /\ (t.moved = << >> \/ ~t.wrote)
      OBVIOUS
    <3> DEFINE n == 0 + work.nsent + work.nwritten
    <3>1. work.nsent \in Nat /\ work.nwritten \in Nat
      BY <1>1 DEF WorkType
    <3>2. n \in Nat
      BY <3>1
    <3>3. work.moved = Places(n, Source(request), 0) /\ t.moved = work.moved /\ ~t.wrote
      BY <1>1, <2>1 DEF SendExact, EmulAt, Emulating, WriteFails, Still
    <3> HIDE DEF n
    <3>4. Len(Places(n, Source(request), 0)) = n
      BY <1>1, <3>2, PlacesAre
    <3> QED BY <3>3, <3>4
  <2>4. SendEnds(request, t, -1)
    BY <1>1, <2>1, <2>2, <2>3, SendFails DEF WriteFails
  <2> QED BY <2>1, <2>4, SentSends
<1> QED BY <1>2, <1>3

LEMMA SendEmulWrite ==
    ASSUME UnixFilesInv, request.op = "sendfile", EmulWrite
    PROVE  UnixFilesInv'
<1>1. work.pc = "emul_write"
  BY DEF EmulWrite
<1>2. /\ request \in Made /\ work \in WorkType /\ Source(request) \in Int
      /\ Working(request, work)
      /\ ~work.misread => SendExact(request, work)
  BY <1>1, SendWorks DEF Emulating
<1>3. ASSUME NEW n \in Nat, NEW t, n \in 1..work.nread - work.nwritten, Step(t), HasWritten(t, work, n) PROVE UnixFilesInv'
  <2>1. t.pc \in {"emul_read", "emul_write"}
    BY <1>3 DEF HasWritten
  <2>2. Working(request, t)
    BY <1>1, <1>2, <1>3, <2>1 DEF HasWritten, Still, Settled, Working
  <2>3. ~t.misread => SendExact(request, t)
    <3> SUFFICES ASSUME ~t.misread PROVE SendExact(request, t)
      OBVIOUS
    <3> DEFINE a == Source(request)
               w == work.nwritten
               d == work.nread
               x == work.nsent
               m == x + w
    <3>1. x \in Nat /\ w \in Nat /\ d \in Nat /\ m \in Nat /\ a \in Int
      <4>1. x \in Nat /\ w \in Nat /\ d \in Nat
        BY <1>2 DEF WorkType
      <4> QED BY <1>2, <4>1
    <3>2. work.moved = Places(m, a, 0) /\ work.from = a + x /\ work.off = request.off /\ w < d
          /\ (request.pipe => ~work.usePread /\ work.fpos = x + d) /\ (~request.pipe => work.usePread)
      <4>1. 0 + x + w = m /\ a + 0 + x = a + x
        BY <3>1
      <4> QED BY <1>1, <1>2, <1>3, <4>1 DEF SendExact, EmulAt, Emulating, HasWritten, Still
    <3>3. work.from + w = a + m
      BY <3>1, <3>2
    <3>4. t.moved = Places(m + n, a, 0)
      <4> DEFINE p == work.from + work.nwritten
      <4>1. p \in Int /\ p = a + m /\ work.moved = Places(m, a, 0) /\ m \in Nat /\ a \in Int
        BY <3>1, <3>2, <3>3
      <4> HIDE DEF p, m, a
      <4>2. work.moved \o Places(n, a + m, Len(work.moved)) = Places(m + n, a, 0)
        BY <1>2, <4>1, WritesJoin, Zenon
      <4> QED BY <1>3, <4>1, <4>2 DEF HasWritten, p
    <3>5. t.nread = d /\ t.from = work.from /\ t.off = work.off /\ t.usePread = work.usePread /\ t.fpos = work.fpos
          /\ t.nwritten = w + n
          /\ IF w + n < d THEN t.pc = "emul_write" /\ t.nsent = x ELSE t.pc = "emul_read" /\ t.nsent = x + d
      BY <1>3 DEF HasWritten
    <3>6. n <= d - w
      BY <1>3
    <3> HIDE DEF a, x, w, d
    <3>7. CASE w + n < d
      <4>1. 0 + x + (w + n) = m + n /\ a + 0 + x = a + x
        BY <3>1
      <4>2. EmulAt(request, t, 0)
        BY <3>2, <3>4, <3>5, <3>7, <4>1 DEF EmulAt, a
      <4> QED BY <3>2, <3>5, <3>7, <4>2 DEF SendExact, Emulating, Over
    <3>8. CASE ~(w + n < d)
      <4>1. x + d + 0 = m + n
        BY <3>1, <3>6, <3>8
      <4>2. EmulAt(request, t, 0)
        BY <3>4, <3>5, <3>8, <4>1 DEF EmulAt, a
      <4> QED BY <3>2, <3>5, <3>8, <4>2 DEF SendExact, Emulating, Over
    <3> QED BY <3>7, <3>8
  <2>4. SendInv(request, t)
    BY <2>1, <2>3 DEF SendInv, Emulating
  <2> QED BY <1>3, <2>2, <2>4, SendGoesOn DEF SendGoes
<1>4. CASE \/ \E t : Step(t) /\ Waits(t, work) /\ t.pc \in {"emul_write", "poll"}
           \/ \E t : Step(Sent(t, -1)) /\ WriteFails(t, work)
  BY <1>1, <1>4, SendWaits
<1> QED BY <1>2, <1>3, <1>4, EmulWriteDoes

LEMMA SendPoll ==
    ASSUME UnixFilesInv, request.op = "sendfile", Poll
    PROVE  UnixFilesInv'
<1>1. work \in WorkType /\ work.pc = "poll"
  BY DEF UnixFilesInv, WorkInv, Poll
<1> QED BY <1>1, SendWaits, PollDoes

-----------------------------------------------------------------------------
\* The opening of a file.

\* It has not been opened.
NotOpen(t, s) ==
    t \in WorkType /\ Alike(t, s) /\ t.pc = s.pc /\ t.held = s.held \ {"lock"} /\ t.errno \in {1, 4, 5, 17}

Opens(t, s) ==
    /\ t \in WorkType /\ t.pc = s.pc /\ t.held = (s.held \ {"lock"}) \cup {s.who}
    /\ t.dst = (IF s.who = "dst" THEN "ours" ELSE s.dst)
    /\ t.cancelled = s.cancelled /\ t.strays = s.strays /\ t.len = s.len /\ t.who = s.who /\ t.off = s.off
    /\ t.copied = s.copied /\ t.misread = s.misread /\ t.moved = s.moved

\* It is to be opened without O_CLOEXEC.
OpensPlainly(t, s) ==
    t \in WorkType /\ Alike(t, s) /\ t.pc = "open_plain" /\ t.held \ {"lock"} = s.held \ {"lock"}

MayNotOpen(s) == s.who = "dst" /\ request.excl /\ s.dst # "absent"

LEMMA OpensIs ==
    ASSUME NEW s \in WorkType, "lock" \notin s.held
    PROVE  Opens(Gets(s), s)
<1> DEFINE h == s.held \cup {s.who}
           d == IF s.who = "dst" THEN "ours" ELSE s.dst
           u == [s EXCEPT !.held = h, !.dst = d]
<1>1. s.held \subseteq Things /\ s.who \in {"src", "dst"} /\ s.dst \in {"old", "absent", "ours", "left"}
  BY DEF WorkType
<1>2. h \in SUBSET Things /\ d \in {"old", "absent", "ours", "left"}
  BY <1>1 DEF Things
<1>3. Gets(s) = u
  BY DEF Gets, WorkType
<1>5. h = (s.held \ {"lock"}) \cup {s.who}
  OBVIOUS
<1> HIDE DEF h, d
<1>4. u \in WorkType /\ u.pc = s.pc /\ u.held = h /\ u.dst = d
      /\ u.cancelled = s.cancelled /\ u.strays = s.strays /\ u.len = s.len /\ u.who = s.who /\ u.off = s.off
      /\ u.copied = s.copied /\ u.misread = s.misread /\ u.moved = s.moved
  BY <1>2 DEF WorkType
<1> HIDE DEF u
<1> QED BY <1>3, <1>4, <1>5 DEF Opens, d

LEMMA NotOpenIs ==
    ASSUME NEW s \in WorkType, NEW e \in {1, 4, 5, 17}, "lock" \notin s.held
    PROVE  NotOpen(Failing(s, e), s)
<1>1. e \in Nat /\ s.held \ {"lock"} = s.held
  OBVIOUS
<1> QED BY <1>1, FailingIs DEF NotOpen

LEMMA OpenFileDoes ==
    ASSUME work \in WorkType, "lock" \notin work.held, OpenFile
    PROVE  \/ \E t : Step(Opened(t, -1)) /\ NotOpen(t, work)
           \/ ~MayNotOpen(work) /\ \E t : Step(t) /\ OpensPlainly(t, work)
           \/ ~MayNotOpen(work) /\ \E t : Step(Opened(t, 0)) /\ Opens(t, work)
<1> DEFINE h == IF request.op = "open" /\ request.async THEN work.held \cup {"lock"} ELSE work.held
           Plainly == [work EXCEPT !.errno = EINVAL, !.pc = "open_plain",
                                   !.held = IF request.op = "open" /\ request.async THEN @ \cup {"lock"} ELSE @]
<1>1. \/ \E e \in {1, 4, 5, 17} : Step(Opened(Failing(work, e), -1))
      \/ ~MayNotOpen(work) /\ Step(Plainly)
      \/ ~MayNotOpen(work) /\ Step(Opened(Gets(work), 0))
  BY DEF OpenFile, MayNotOpen, EEXIST, EPERM, EINTR, EIO
<1>2. ASSUME NEW e \in {1, 4, 5, 17} PROVE NotOpen(Failing(work, e), work)
  BY NotOpenIs
<1>3. OpensPlainly(Plainly, work)
  <2> DEFINE u == [work EXCEPT !.errno = EINVAL, !.pc = "open_plain", !.held = h]
  <2>1. h \in SUBSET Things /\ h \ {"lock"} = work.held \ {"lock"}
    <3>1. work.held \subseteq Things
      BY DEF WorkType
    <3> QED BY <3>1 DEF Things
  <2>2. EINVAL \in Nat
    BY DEF EINVAL
  <2>3. "open_plain" \in Pcs
    BY DEF Pcs
  <2>4. Plainly = u
    BY DEF WorkType
  <2> HIDE DEF h
  <2>5. u \in WorkType /\ Alike(u, work) /\ u.pc = "open_plain" /\ u.held = h
    BY <2>1, <2>2, <2>3 DEF WorkType, Alike
  <2> HIDE DEF u, Plainly
  <2> QED BY <2>1, <2>4, <2>5 DEF OpensPlainly
<1>4. Opens(Gets(work), work)
  BY OpensIs
<1> HIDE DEF Plainly
<1> QED BY <1>1, <1>2, <1>3, <1>4

LEMMA OpenPlainDoes ==
    ASSUME work \in WorkType, OpenPlain
    PROVE  \/ \E t : Step(Opened(t, -1)) /\ NotOpen(t, work)
           \/ \E t : Step(Opened(t, 0)) /\ Opens(t, work)
<1> DEFINE h == work.held \ {"lock"}
           s == [work EXCEPT !.held = @ \ {"lock"}]
<1>1. \/ \E e \in {1, 4, 5, 17} : Step(Opened(Failing(s, e), -1))
      \/ Step(Opened(Gets(s), 0))
  BY DEF OpenPlain, EPERM, EINTR, EIO
<1>2. s \in WorkType /\ Alike(s, work) /\ s.held = h /\ s.pc = work.pc
  <2> DEFINE u == [work EXCEPT !.held = h]
  <2>1. h \in SUBSET Things
    <3>1. work.held \subseteq Things
      BY DEF WorkType
    <3> QED BY <3>1
  <2>2. s = u
    BY DEF WorkType
  <2> HIDE DEF h
  <2>3. u \in WorkType /\ Alike(u, work) /\ u.held = h /\ u.pc = work.pc
    BY <2>1 DEF WorkType, Alike
  <2> QED BY <2>2, <2>3
<1> HIDE DEF s
<1>3. "lock" \notin s.held /\ s.held \ {"lock"} = work.held \ {"lock"}
  BY <1>2
<1>4. Opens(Gets(s), work)
  <2>1. Opens(Gets(s), s)
    BY <1>2, <1>3, OpensIs
  <2> QED BY <1>2, <1>3, <2>1 DEF Opens, Alike
<1>5. ASSUME NEW e \in {1, 4, 5, 17} PROVE NotOpen(Failing(s, e), work)
  <2>1. NotOpen(Failing(s, e), s)
    BY <1>2, <1>3, NotOpenIs
  <2> QED BY <1>2, <1>3, <2>1 DEF NotOpen, Alike
<1> QED BY <1>1, <1>4, <1>5

-----------------------------------------------------------------------------
\* open.

LEMMA OpenEnds ==
    ASSUME UnixFilesInv, request.op = "open", NEW s \in WorkType, ~s.cancelled, s.strays = 0, s.who = "src",
           s.held \cap {"bufs", "ptr", "lock", "dst"} = {}, NEW r \in {0, -1}, "src" \in s.held <=> r = 0,
           r = -1 => s.errno # 0, Step(Opened(s, r))
    PROVE  UnixFilesInv'
<1>1. ~IsTransfer(request) /\ ~IsPlain(request) /\ FirstPc(request) = "open"
  BY DEF IsTransfer, IsPlain, FirstPc
<1> DEFINE c == WorkEnds(s, r)
           again == r = -1 /\ s.errno = EINTR /\ request.op # "close"
           result == IF r = -1 THEN -s.errno ELSE r
<1>2. Step(c)
  BY DEF Opened
<1>3. c \in WorkType /\ Alike(c, s) /\ c.held = s.held
      /\ IF again THEN c.pc = FirstPc(request) ELSE c.pc = "done" /\ c.result = result
  <2>1. r \in Int
    OBVIOUS
  <2> QED BY <1>1, <2>1, WorkEndsOther
<1>4. again => r # 0
  OBVIOUS
<1>5. ~again => (result >= 0 <=> r = 0)
  <2>1. s.errno \in Nat
    BY DEF WorkType
  <2> QED BY <2>1
<1> HIDE DEF c, again, result
<1>6. Working(request, c)
  BY <1>1, <1>3 DEF Working, Alike
<1>7. OpenInv(request, c)
  BY <1>1, <1>3, <1>4, <1>5 DEF OpenInv, Over, Alike
<1>8. WorkInv(request, c)
  BY <1>1, <1>6, <1>7, WorkingInv
<1> QED BY <1>2, <1>8 DEF Step, UnixFilesInv

LEMMA OpenSteps ==
    ASSUME UnixFilesInv, request.op = "open", OpenFile \/ OpenPlain
    PROVE  UnixFilesInv'
<1>1. work \in WorkType /\ OpenInv(request, work) /\ work.pc \in {"open", "open_plain"}
      /\ ~IsTransfer(request) /\ ~IsPlain(request)
  BY DEF UnixFilesInv, WorkInv, OpenFile, OpenPlain, IsTransfer, IsPlain
<1>2. Working(request, work)
  BY <1>1, WorkingIs DEF UnixFilesInv, Over
<1>3. work.who = "src" /\ "src" \notin work.held /\ work.held \cap {"bufs", "ptr", "dst"} = {}
      /\ ~work.cancelled /\ work.strays = 0
  BY <1>1, <1>2 DEF Working, OpenInv, Over
<1>4. \/ \E t : Step(Opened(t, -1)) /\ NotOpen(t, work)
      \/ \E t : Step(t) /\ OpensPlainly(t, work)
      \/ \E t : Step(Opened(t, 0)) /\ Opens(t, work)
  <2>1. CASE OpenFile
    <3>1. "lock" \notin work.held
      BY <1>2, <2>1 DEF Working, OpenFile
    <3> QED BY <1>1, <2>1, <3>1, OpenFileDoes
  <2>2. CASE OpenPlain
    BY <1>1, <2>2, OpenPlainDoes
  <2> QED BY <2>1, <2>2
<1>5. CASE \E t : Step(Opened(t, -1)) /\ NotOpen(t, work)
  <2>1. PICK t : Step(Opened(t, -1)) /\ NotOpen(t, work)
    BY <1>5
  <2>2. t \in WorkType /\ ~t.cancelled /\ t.strays = 0 /\ t.who = "src" /\ "src" \notin t.held
        /\ t.held \cap {"bufs", "ptr", "lock", "dst"} = {} /\ t.errno # 0
    BY <1>3, <2>1 DEF NotOpen, Alike
  <2>3. -1 \in {0, -1} /\ -1 # 0
    OBVIOUS
  <2> QED BY <2>1, <2>2, <2>3, OpenEnds
<1>6. CASE \E t : Step(t) /\ OpensPlainly(t, work)
  <2>1. PICK t : Step(t) /\ OpensPlainly(t, work)
    BY <1>6
  <2>2. Working(request, t) /\ OpenInv(request, t)
    BY <1>3, <2>1 DEF OpensPlainly, Alike, Working, OpenInv, Over
  <2>3. WorkInv(request, t)
    BY <1>1, <2>2, WorkingInv
  <2> QED BY <2>1, <2>3 DEF Step, UnixFilesInv
<1>7. CASE \E t : Step(Opened(t, 0)) /\ Opens(t, work)
  <2>1. PICK t : Step(Opened(t, 0)) /\ Opens(t, work)
    BY <1>7
  <2>2. t \in WorkType /\ ~t.cancelled /\ t.strays = 0 /\ t.who = "src" /\ "src" \in t.held
        /\ t.held \cap {"bufs", "ptr", "lock", "dst"} = {}
    BY <1>3, <2>1 DEF Opens
  <2> QED BY <2>1, <2>2, OpenEnds
<1> QED BY <1>4, <1>5, <1>6, <1>7

-----------------------------------------------------------------------------
\* The requests that are one system call.

LEMMA PlainEnds ==
    ASSUME UnixFilesInv, IsPlain(request), NEW s \in WorkType, ~s.cancelled, s.strays = 0,
           s.held \cap {"bufs", "src", "lock", "dst"} = {}, NEW r \in {0, -1}, "ptr" \in s.held => r = 0, Step(WorkEnds(s, r))
    PROVE  UnixFilesInv'
<1>1. ~IsTransfer(request) /\ request.op \notin {"sendfile", "open", "copyfile"} /\ FirstPc(request) = "plain"
  BY DEF IsPlain, FirstPc
<1> DEFINE c == WorkEnds(s, r)
           again == r = -1 /\ s.errno = EINTR /\ request.op # "close"
           result == IF r = -1 THEN -s.errno ELSE r
<1>2. Step(c)
  OBVIOUS
<1>3. c \in WorkType /\ Alike(c, s) /\ c.held = s.held
      /\ IF again THEN c.pc = FirstPc(request) ELSE c.pc = "done" /\ c.result = result
  <2>1. r \in Int
    OBVIOUS
  <2> QED BY <1>1, <2>1, WorkEndsOther
<1>4. again => r # 0 /\ request.op # "close"
  OBVIOUS
<1> HIDE DEF c, again, result
<1>6. Working(request, c)
  BY <1>1, <1>3, <1>4 DEF Working, Alike
<1>7. PlainInv(request, c)
  BY <1>1, <1>3, <1>4 DEF PlainInv, Over, Alike
<1>8. WorkInv(request, c)
  BY <1>1, <1>6, <1>7, WorkingInv
<1> QED BY <1>2, <1>8 DEF Step, UnixFilesInv

LEMMA PlainStep ==
    ASSUME UnixFilesInv, IsPlain(request), Plain
    PROVE  UnixFilesInv'
<1>1. work \in WorkType /\ PlainInv(request, work) /\ work.pc = "plain" /\ ~IsTransfer(request)
  BY DEF UnixFilesInv, WorkInv, Plain, IsPlain
<1>2. Working(request, work)
  BY <1>1, WorkingIs DEF UnixFilesInv, Over
<1>3. ("src" \in work.held <=> request.op = "close") /\ work.held \cap {"bufs", "ptr", "dst", "lock"} = {}
      /\ ~work.cancelled /\ work.strays = 0
  BY <1>1, <1>2 DEF Working, PlainInv, IsPlain
<1>4. Shut \in WorkType /\ ~Shut.cancelled /\ Shut.strays = 0 /\ Shut.held = work.held \ {"src"}
  <2>1. CASE request.op # "close"
    BY <1>1, <1>3, <2>1 DEF Shut
  <2>2. CASE request.op = "close"
    <3> DEFINE h == work.held \ {"src"}
               u == [work EXCEPT !.held = h]
    <3>1. h \in SUBSET Things
      <4>1. work.held \subseteq Things
        BY <1>1 DEF WorkType
      <4> QED BY <4>1
    <3>2. Shut = u
      BY <1>1, <1>3, <2>2 DEF Shut, WorkType
    <3> HIDE DEF h
    <3>3. u \in WorkType /\ u.cancelled = work.cancelled /\ u.strays = work.strays /\ u.held = h
      BY <1>1, <3>1 DEF WorkType
    <3> QED BY <1>3, <3>2, <3>3 DEF h
  <2> QED BY <2>1, <2>2
<1>5. \/ Step(WorkEnds([Shut EXCEPT !.held = @ \cup Gives], 0))
      \/ request.op \in {"readlink", "realpath"} /\ Step(WorkEnds(Failing(work, 12), -1))
      \/ \E e \in Nat : Step(WorkEnds(Failing(Shut, e), -1))
  BY DEF Plain, EPERM, EINTR, EIO, ENOMEM
<1>6. CASE Step(WorkEnds([Shut EXCEPT !.held = @ \cup Gives], 0))
  <2> DEFINE b == Shut
             h == b.held \cup Gives
             u == [b EXCEPT !.held = h]
  <2>1. h \in SUBSET Things /\ h \cap {"bufs", "src", "lock", "dst"} = {}
    <3>1. b.held \subseteq Things
      BY <1>4 DEF WorkType
    <3> QED BY <1>3, <1>4, <3>1 DEF Gives, Things
  <2>2. [Shut EXCEPT !.held = @ \cup Gives] = u
    BY <1>4 DEF WorkType
  <2>5. b \in WorkType /\ ~b.cancelled /\ b.strays = 0
    BY <1>4
  <2> HIDE DEF b, h
  <2>3. u \in WorkType /\ u.cancelled = b.cancelled /\ u.strays = b.strays /\ u.held = h
    BY <2>1, <2>5 DEF WorkType
  <2> HIDE DEF u
  <2>4. Step(WorkEnds(u, 0)) /\ ~u.cancelled /\ u.strays = 0 /\ u.held \cap {"bufs", "src", "lock", "dst"} = {}
    BY <1>6, <2>1, <2>2, <2>3, <2>5
  <2>6. u \in WorkType
    BY <2>3
  <2> QED BY <2>4, <2>6, PlainEnds
<1>7. CASE request.op \in {"readlink", "realpath"} /\ Step(WorkEnds(Failing(work, 12), -1))
  <2> DEFINE f == Failing(work, 12)
  <2>1. f \in WorkType /\ Alike(f, work) /\ f.held = work.held
    BY <1>1, FailingIs
  <2> HIDE DEF f
  <2>2. ~f.cancelled /\ f.strays = 0 /\ f.held \cap {"bufs", "src", "lock", "dst"} = {} /\ "ptr" \notin f.held
    BY <1>3, <1>7, <2>1 DEF Alike
  <2>3. Step(WorkEnds(f, -1)) /\ -1 \in {0, -1}
    BY <1>7 DEF f
  <2> QED BY <2>1, <2>2, <2>3, PlainEnds
<1>8. CASE \E e \in Nat : Step(WorkEnds(Failing(Shut, e), -1))
  <2>0. PICK e \in Nat : Step(WorkEnds(Failing(Shut, e), -1))
    BY <1>8
  <2> DEFINE f == Failing(Shut, e)
  <2>1. f \in WorkType /\ Alike(f, Shut) /\ f.held = Shut.held
    BY <1>4, FailingIs
  <2> HIDE DEF f
  <2>2. ~f.cancelled /\ f.strays = 0 /\ f.held \cap {"bufs", "src", "lock", "dst"} = {} /\ "ptr" \notin f.held
    BY <1>3, <1>4, <2>1 DEF Alike
  <2>3. Step(WorkEnds(f, -1)) /\ -1 \in {0, -1}
    BY <2>0 DEF f
  <2> QED BY <2>1, <2>2, <2>3, PlainEnds
<1> QED BY <1>5, <1>6, <1>7, <1>8

-----------------------------------------------------------------------------
\* copyfile: how it goes on.

CopyGoes(q, c) == Working(q, c) /\ CopyInv(q, c)
Keeps(q) == q.excl /\ q.exists
Tells == EPERM \notin ChmodErrors

LEMMA CopyGoesOn ==
    ASSUME UnixFilesInv, request.op = "copyfile", NEW c, CopyGoes(request, c), Step(c)
    PROVE  UnixFilesInv'
<1>1. ~IsTransfer(request) /\ ~IsPlain(request)
  BY DEF IsTransfer, IsPlain
<1>2. WorkInv(request, c)
  BY <1>1, WorkingInv DEF CopyGoes
<1> QED BY <1>2 DEF UnixFilesInv, Step

\* It closes what is open.
Closes(q, s, err) ==
    /\ Working(q, s) /\ s.held \cap {"ptr", "lock"} = {} /\ err \in Int /\ err <= 0
    /\ "dst" \in s.held <=> s.dst = "ours"
    /\ err = 0 => s.dst = "ours"
    /\ err = -1 => s.errno # EINTR
    /\ Keeps(q) => s.dst = "old"
    /\ Tells => /\ err = -1 => s.errno = EPERM /\ "dst" \notin s.held
                /\ err = 0 /\ ~s.misread => s.moved = Places(q.size, 0, 0)

LEMMA CopyOutInv ==
    ASSUME request.op = "copyfile", NEW s, NEW err, Closes(request, s, err)
    PROVE  CopyGoes(request, CopyOut(s, err))
<1> DEFINE c == [s EXCEPT !.pc = "close_src", !.copied = err]
<1>1. s \in WorkType /\ err \in Int /\ err <= 0 /\ (IF err < 0 THEN err ELSE 0) = err
  BY DEF Closes, Working
<1>2. CopyOut(s, err) = c
  BY <1>1 DEF CopyOut
<1>3. "close_src" \in Pcs
  BY DEF Pcs
<1>4. /\ c \in WorkType /\ c.held = s.held /\ c.pc = "close_src" /\ c.copied = err /\ c.dst = s.dst /\ c.errno = s.errno
      /\ c.moved = s.moved /\ c.misread = s.misread /\ c.cancelled = s.cancelled /\ c.strays = s.strays
  BY <1>1, <1>3 DEF WorkType
<1> HIDE DEF c
<1>5. Working(request, c)
  BY <1>4 DEF Working, Closes
<1>6. CopyHolds(request, c)
  BY <1>4 DEF CopyHolds, Closes, Keeps, Over, Opening, Sending, Emulating
<1>7. Tells => CopyTells(request, c) /\ (~c.misread => CopyExact(request, c))
  BY <1>4 DEF CopyTells, CopyExact, Closes, Over, Opening, Sending, Emulating
<1>8. CopyInv(request, c)
  BY <1>4, <1>6, <1>7 DEF CopyInv, Tells
<1> QED BY <1>2, <1>5, <1>8 DEF CopyGoes

\* It sends what is left.
Sends(q, s) ==
    /\ Working(q, s) /\ s.held \cap {"ptr", "lock"} = {}
    /\ s.dst = "ours" /\ s.who = "dst" /\ "dst" \in s.held /\ ~Keeps(q)
    /\ Tells /\ ~s.misread => CopyAt(q, s) /\ s.len >= 0 /\ s.moved = Places(s.off, 0, 0)

LEMMA NextSendInv ==
    ASSUME request \in Made, request.op = "copyfile", NEW s, Sends(request, s)
    PROVE  CopyGoes(request, NextSend(s))
<1>0. s \in WorkType /\ s.off \in Int /\ s.len \in Int
  BY DEF Sends, Working, WorkType
<1>1. CASE s.len = 0
  <2>1. s.off + s.len = request.size => s.off = request.size
    BY <1>0, <1>1
  <2>2. Closes(request, s, 0)
    BY <1>1, <2>1 DEF Closes, Sends, CopyAt
  <2>3. NextSend(s) = CopyOut(s, 0)
    BY <1>1 DEF NextSend
  <2> QED BY <2>2, <2>3, CopyOutInv
<1>2. CASE s.len # 0
  <2> DEFINE pc == IF request.kernel = "none" THEN "emul_read" ELSE "sendfile"
             c == [s EXCEPT !.errno = 0, !.nsent = 0, !.usePread = TRUE, !.pc = pc]
  <2>1. NextSend(s) = c
    BY <1>2 DEF NextSend
  <2>2. pc \in Pcs /\ pc \in {"emul_read", "sendfile"}
    BY DEF Pcs
  <2> HIDE DEF pc
  <2>3. /\ c \in WorkType /\ c.held = s.held /\ c.pc = pc /\ c.nsent = 0 /\ c.usePread /\ c.dst = s.dst /\ c.who = s.who
        /\ c.off = s.off /\ c.len = s.len
        /\ c.moved = s.moved /\ c.misread = s.misread /\ c.cancelled = s.cancelled /\ c.strays = s.strays
    BY <1>0, <2>2 DEF WorkType
  <2> HIDE DEF c
  <2>4. Working(request, c)
    BY <2>2, <2>3 DEF Working, Sends
  <2>5. CopyHolds(request, c)
    BY <2>2, <2>3 DEF CopyHolds, Sends, Keeps, Over, Opening, Sending, Emulating
  <2>6. CopyTells(request, c)
    BY <2>2, <2>3 DEF CopyTells, Over
  <2>7. Tells /\ ~c.misread => CopyExact(request, c)
    <3> SUFFICES ASSUME Tells, ~c.misread PROVE CopyExact(request, c)
      OBVIOUS
    <3>1. CopyAt(request, c) /\ c.len > 0 /\ c.moved = Places(c.off, 0, 0)
      BY <1>0, <1>2, <2>3 DEF Sends, CopyAt
    <3>2. Source(request) = 0 /\ 0 + c.off = c.off
      BY <1>0, <2>3, RequestIs DEF Source
    <3>3. EmulAt(request, c, c.off)
      BY <2>2, <2>3, <3>1, <3>2 DEF EmulAt
    <3>4. 0 <= c.len
      BY <1>0, <2>3, <3>1
    <3> QED BY <2>2, <2>3, <3>1, <3>3, <3>4 DEF CopyExact, Over, Opening, Emulating
  <2>8. CopyInv(request, c)
    BY <2>2, <2>3, <2>5, <2>6, <2>7 DEF CopyInv, Tells, Sending, Emulating
  <2> QED BY <2>1, <2>4, <2>8 DEF CopyGoes
<1> QED BY <1>1, <1>2

\* It is done.
CopyEnds(q, s, r) ==
    /\ Working(q, s) /\ s.held \cap {"ptr", "lock", "src", "dst"} = {} /\ r \in Int /\ r <= 0
    /\ r = -1 => s.errno # EINTR
    /\ Keeps(q) => s.dst = "old"
    /\ Tells => /\ r = 0 <=> s.dst = "ours"
                /\ r = -1 => s.errno # 0
                /\ r = 0 /\ ~s.misread => s.moved = Places(q.size, 0, 0)

LEMMA CopyEndsInv ==
    ASSUME request.op = "copyfile", NEW s, NEW r, CopyEnds(request, s, r)
    PROVE  CopyGoes(request, WorkEnds(s, r))
<1>1. ~IsTransfer(request) /\ s \in WorkType /\ r \in Int /\ r <= 0 /\ s.errno \in Nat /\ ~(r = -1 /\ s.errno = EINTR)
  BY DEF CopyEnds, Working, IsTransfer, WorkType
<1> DEFINE c == WorkEnds(s, r)
           result == IF r = -1 THEN -s.errno ELSE r
<1>2. c \in WorkType /\ Alike(c, s) /\ c.held = s.held /\ c.pc = "done" /\ c.result = result
  BY <1>1, WorkEndsOther
<1>3. result <= 0 /\ ((r = -1 => s.errno # 0) => (result = 0 <=> r = 0))
  BY <1>1
<1> HIDE DEF c, result
<1>4. Working(request, c)
  BY <1>2 DEF Working, CopyEnds, Alike
<1>5. CopyHolds(request, c)
  BY <1>2 DEF CopyHolds, CopyEnds, Keeps, Alike, Over, Opening, Sending, Emulating
<1>6. Tells => CopyTells(request, c)
  BY <1>2, <1>3 DEF CopyTells, CopyEnds, Alike, Over
<1>7. Tells /\ ~c.misread => CopyExact(request, c)
  BY <1>2, <1>3 DEF CopyExact, CopyEnds, Alike, Over, Opening, Emulating
<1>8. CopyInv(request, c)
  BY <1>2, <1>5, <1>6, <1>7 DEF CopyInv, Tells, Over
<1> QED BY <1>4, <1>8 DEF CopyGoes, c

-----------------------------------------------------------------------------
\* copyfile, step by step.

LEMMA CopyWorks ==
    ASSUME UnixFilesInv, request.op = "copyfile", work.pc \in Opening \cup Sending \cup {"close_src", "close_dst", "unlink"}
    PROVE  /\ request \in Made /\ work \in WorkType /\ Working(request, work)
           /\ work.held \cap {"bufs", "ptr"} = {} /\ (work.pc # "open_plain" => "lock" \notin work.held)
           /\ CopyHolds(request, work)
           /\ Tells => CopyTells(request, work) /\ (~work.misread => CopyExact(request, work))
<1>1. request \in Made /\ work \in WorkType /\ CopyInv(request, work)
  BY DEF UnixFilesInv, WorkInv
<1>2. Working(request, work)
  BY <1>1, WorkingIs DEF UnixFilesInv, IsTransfer, Over, Opening, Sending, Emulating
<1> QED BY <1>1, <1>2 DEF Working, CopyInv, Tells, Opening, Sending, Emulating

LEMMA CopyOpenSteps ==
    ASSUME UnixFilesInv, request.op = "copyfile", OpenFile \/ OpenPlain
    PROVE  UnixFilesInv'
<1>1. work.pc \in {"open", "open_plain"}
  BY DEF OpenFile, OpenPlain
<1>2. /\ request \in Made /\ work \in WorkType /\ Working(request, work)
      /\ work.held \cap {"bufs", "ptr"} = {} /\ (work.pc # "open_plain" => "lock" \notin work.held)
      /\ CopyHolds(request, work)
      /\ Tells /\ ~work.misread => CopyExact(request, work)
  BY <1>1, CopyWorks DEF Opening
<1>3. /\ work.dst \in {"old", "absent"} /\ "dst" \notin work.held /\ (work.who = "src" => "src" \notin work.held)
      /\ work.who \in {"src", "dst"} /\ (Keeps(request) => work.dst = "old")
      /\ Keeps(request) /\ work.pc = "open_plain" => work.who = "src"
  BY <1>1, <1>2 DEF CopyHolds, Opening, Keeps, WorkType
<1>4. Tells /\ ~work.misread => work.moved = << >> /\ work.off = 0 /\ (work.who = "dst" => work.len = request.size)
  BY <1>1, <1>2 DEF CopyExact, Opening
<1>5. \/ \E t : Step(Opened(t, -1)) /\ NotOpen(t, work)
      \/ ~MayNotOpen(work) /\ \E t : Step(t) /\ OpensPlainly(t, work)
      \/ (Keeps(request) => work.who = "src") /\ \E t : Step(Opened(t, 0)) /\ Opens(t, work)
  <2>1. CASE OpenFile
    <3>1. "lock" \notin work.held
      BY <1>2, <2>1 DEF OpenFile
    <3>2. ~MayNotOpen(work) => (Keeps(request) => work.who = "src")
      BY <1>3 DEF MayNotOpen, Keeps
    <3> QED BY <1>2, <2>1, <3>1, <3>2, OpenFileDoes
  <2>2. CASE OpenPlain
    <3>1. work.pc = "open_plain"
      BY <2>2 DEF OpenPlain
    <3> QED BY <1>2, <1>3, <2>2, <3>1, OpenPlainDoes
  <2> QED BY <2>1, <2>2
<1>6. CASE \E t : Step(Opened(t, -1)) /\ NotOpen(t, work)
  <2>1. PICK t : Step(Opened(t, -1)) /\ NotOpen(t, work)
    BY <1>6
  <2>2. /\ t \in WorkType /\ Alike(t, work) /\ t.held = work.held \ {"lock"} /\ t.errno \in {1, 4, 5, 17} /\ t.pc = work.pc
    BY <2>1 DEF NotOpen
  <2>3. Working(request, t) /\ t.held \cap {"ptr", "lock", "dst"} = {} /\ t.dst = work.dst /\ t.who = work.who
        /\ (t.who = "src" => "src" \notin t.held)
    BY <1>2, <1>3, <2>2 DEF Working, Alike
  <2>4. CASE t.errno = EINTR
    <3> DEFINE c == [t EXCEPT !.errno = 0, !.pc = "open"]
    <3>1. Step(c)
      BY <2>1, <2>4 DEF Opened
    <3>2. "open" \in Pcs
      BY DEF Pcs
    <3>3. c \in WorkType /\ Alike(c, t) /\ c.held = t.held /\ c.pc = "open"
      BY <2>2, <3>2 DEF WorkType, Alike
    <3> HIDE DEF c
    <3>4. Working(request, c)
      BY <2>3, <3>3 DEF Working, Alike
    <3>5. Alike(c, work)
      BY <2>2, <3>3 DEF Alike
    <3>6. CopyInv(request, c)
      BY <1>3, <1>4, <2>3, <3>3, <3>5 DEF CopyInv, CopyHolds, CopyTells, CopyExact, Alike, Tells, Keeps, Over, Opening, Sending, Emulating
    <3> QED BY <3>1, <3>4, <3>6, CopyGoesOn DEF CopyGoes
  <2>5. CASE t.errno # EINTR /\ t.who = "src"
    <3>1. Step(WorkEnds(t, -t.errno))
      BY <2>1, <2>5 DEF Opened
    <3>2. -t.errno \in Int /\ -t.errno <= 0 /\ -t.errno # 0 /\ (-t.errno = -1 => t.errno # EINTR /\ t.errno # 0)
      BY <2>2, <2>5
    <3>3. CopyEnds(request, t, -t.errno)
      BY <1>3, <2>3, <2>5, <3>2 DEF CopyEnds
    <3> QED BY <3>1, <3>3, CopyEndsInv, CopyGoesOn
  <2>6. CASE t.errno # EINTR /\ t.who # "src"
    <3>1. Step(CopyOut(t, -t.errno))
      BY <2>1, <2>6 DEF Opened
    <3>2. -t.errno \in Int /\ -t.errno <= 0 /\ -t.errno # 0 /\ (-t.errno = -1 => t.errno = EPERM /\ t.errno # EINTR)
      BY <2>2, <2>6 DEF EPERM
    <3>3. Closes(request, t, -t.errno)
      BY <1>3, <2>3, <3>2 DEF Closes
    <3> QED BY <3>1, <3>3, CopyOutInv, CopyGoesOn
  <2> QED BY <2>4, <2>5, <2>6
<1>7. CASE ~MayNotOpen(work) /\ \E t : Step(t) /\ OpensPlainly(t, work)
  <2>1. PICK t : Step(t) /\ OpensPlainly(t, work)
    BY <1>7
  <2>2. t \in WorkType /\ Alike(t, work) /\ t.pc = "open_plain" /\ t.held \ {"lock"} = work.held \ {"lock"}
    BY <2>1 DEF OpensPlainly
  <2>3. Working(request, t)
    BY <1>2, <2>2 DEF Working, Alike
  <2>4. "dst" \notin t.held /\ (t.who = "src" => "src" \notin t.held) /\ (Keeps(request) => t.who = "src") /\ t.dst = work.dst
    BY <1>3, <1>7, <2>2 DEF Alike, MayNotOpen, Keeps
  <2>5. CopyInv(request, t)
    BY <1>3, <1>4, <2>2, <2>4 DEF CopyInv, CopyHolds, CopyTells, CopyExact, Alike, Tells, Keeps, Over, Opening, Sending, Emulating
  <2> QED BY <2>1, <2>3, <2>5, CopyGoesOn DEF CopyGoes
<1>8. CASE (Keeps(request) => work.who = "src") /\ \E t : Step(Opened(t, 0)) /\ Opens(t, work)
  <2>1. PICK t : Step(Opened(t, 0)) /\ Opens(t, work)
    BY <1>8
  <2> DEFINE pc == IF t.who = "src" THEN "fstat" ELSE "fchmod"
             c == [t EXCEPT !.pc = pc]
  <2>2. Step(c)
    BY <2>1 DEF Opened
  <2>3. pc \in Pcs
    BY DEF Pcs
  <2>4. pc = (IF t.who = "src" THEN "fstat" ELSE "fchmod")
    OBVIOUS
  <2> HIDE DEF pc
  <2>5. /\ c \in WorkType /\ c.pc = pc /\ c.held = t.held /\ c.dst = t.dst /\ c.who = t.who /\ c.off = t.off /\ c.len = t.len
        /\ c.moved = t.moved /\ c.misread = t.misread /\ c.cancelled = t.cancelled /\ c.strays = t.strays
    BY <2>1, <2>3 DEF Opens, WorkType
  <2> HIDE DEF c
  <2>6. /\ c.held = (work.held \ {"lock"}) \cup {work.who} /\ c.dst = (IF work.who = "dst" THEN "ours" ELSE work.dst)
        /\ c.who = work.who /\ c.off = work.off /\ c.len = work.len /\ c.moved = work.moved /\ c.misread = work.misread
        /\ c.cancelled = work.cancelled /\ c.strays = work.strays
        /\ c.pc = (IF work.who = "src" THEN "fstat" ELSE "fchmod")
    BY <2>1, <2>4, <2>5 DEF Opens
  <2>7. Working(request, c)
    BY <1>2, <1>3, <2>5, <2>6 DEF Working
  <2>8. CopyInv(request, c)
    <3>1. CASE work.who = "src"
      BY <1>3, <1>4, <2>6, <3>1 DEF CopyInv, CopyHolds, CopyTells, CopyExact, Tells, Keeps, Over, Opening, Sending, Emulating
    <3>2. CASE work.who = "dst"
      BY <1>3, <1>4, <1>8, <2>6, <3>2 DEF CopyInv, CopyHolds, CopyTells, CopyExact, Tells, Keeps, Over, Opening, Sending, Emulating
    <3> QED BY <1>3, <3>1, <3>2
  <2> QED BY <2>2, <2>7, <2>8, CopyGoesOn DEF CopyGoes
<1> QED BY <1>5, <1>6, <1>7, <1>8

LEMMA CopyFstat ==
    ASSUME UnixFilesInv, request.op = "copyfile", Fstat
    PROVE  UnixFilesInv'
<1>1. work.pc = "fstat"
  BY DEF Fstat
<1>2. /\ request \in Made /\ work \in WorkType /\ Working(request, work) /\ work.held \cap {"bufs", "ptr", "lock"} = {}
      /\ CopyHolds(request, work)
      /\ Tells /\ ~work.misread => CopyExact(request, work)
  BY <1>1, CopyWorks DEF Opening
<1>3. work.dst \in {"old", "absent"} /\ "dst" \notin work.held /\ (Keeps(request) => work.dst = "old")
  BY <1>1, <1>2 DEF CopyHolds, Opening, Keeps
<1>4. Tells /\ ~work.misread => work.moved = << >> /\ work.off = 0
  BY <1>1, <1>2 DEF CopyExact, Opening
<1> DEFINE c == [work EXCEPT !.pc = "open", !.who = "dst", !.len = request.size, !.errno = 0]
<1>5. Step(c) \/ Step(CopyOut(Failing(work, 5), -5))
  BY DEF Fstat, EIO
<1>6. CASE Step(c)
  <2>1. request.size \in Int /\ "open" \in Pcs
    BY <1>2, RequestIs DEF Pcs
  <2>2. /\ c \in WorkType /\ c.pc = "open" /\ c.held = work.held /\ c.dst = work.dst /\ c.who = "dst" /\ c.off = work.off
        /\ c.len = request.size /\ c.moved = work.moved /\ c.misread = work.misread /\ c.cancelled = work.cancelled
        /\ c.strays = work.strays
    BY <1>2, <2>1 DEF WorkType
  <2> HIDE DEF c
  <2>3. Working(request, c)
    BY <1>2, <2>2 DEF Working
  <2>4. CopyInv(request, c)
    BY <1>3, <1>4, <2>2 DEF CopyInv, CopyHolds, CopyTells, CopyExact, Tells, Keeps, Over, Opening, Sending, Emulating
  <2> QED BY <1>6, <2>3, <2>4, CopyGoesOn DEF CopyGoes
<1>7. CASE Step(CopyOut(Failing(work, 5), -5))
  <2> DEFINE f == Failing(work, 5)
  <2>1. f \in WorkType /\ Alike(f, work) /\ f.held = work.held /\ f.pc = work.pc
    BY <1>2, FailingIs
  <2> HIDE DEF f
  <2>2. Working(request, f)
    BY <1>2, <2>1 DEF Working, Alike
  <2>3. -5 \in Int /\ -5 <= 0 /\ -5 # 0 /\ -5 # -1
    OBVIOUS
  <2>4. Closes(request, f, -5)
    BY <1>2, <1>3, <2>1, <2>2, <2>3 DEF Closes, Alike
  <2> QED BY <1>7, <2>4, CopyOutInv, CopyGoesOn DEF f
<1> QED BY <1>5, <1>6, <1>7

\* While it sends, the destination is open, and ours.
LEMMA CopySends ==
    ASSUME UnixFilesInv, request.op = "copyfile", work.pc \in Sending
    PROVE  /\ request \in Made /\ work \in WorkType /\ Working(request, work) /\ work.held \cap {"bufs", "ptr", "lock"} = {}
           /\ work.dst = "ours" /\ work.who = "dst" /\ "dst" \in work.held /\ ~Keeps(request)
           /\ Source(request) = 0
           /\ Tells /\ ~work.misread => CopyExact(request, work)
<1>1. /\ request \in Made /\ work \in WorkType /\ Working(request, work) /\ work.held \cap {"bufs", "ptr", "lock"} = {}
      /\ CopyHolds(request, work)
      /\ Tells /\ ~work.misread => CopyExact(request, work)
  BY CopyWorks DEF Sending, Emulating
<1>2. work.dst = "ours" /\ work.who = "dst" /\ "dst" \in work.held /\ ~Keeps(request)
  BY <1>1 DEF CopyHolds, Keeps
<1>3. Source(request) = 0
  BY <1>1, RequestIs DEF Source
<1> QED BY <1>1, <1>2, <1>3

\* It fails before the copy is whole.
LEMMA CopyFails ==
    ASSUME UnixFilesInv, request.op = "copyfile", work.pc \in Sending, NEW s, s \in WorkType, Settled(s, work), s.pc = work.pc,
           NEW err \in Int, err < 0, err = -1 => s.errno # EINTR /\ ~Tells, Step(CopyOut(s, err))
    PROVE  UnixFilesInv'
<1>1. /\ Working(request, work) /\ work.held \cap {"bufs", "ptr", "lock"} = {}
      /\ work.dst = "ours" /\ "dst" \in work.held /\ ~Keeps(request)
  BY CopySends
<1>2. Working(request, s)
  BY <1>1 DEF Working, Settled
<1>3. err <= 0 /\ err # 0
  OBVIOUS
<1>4. Closes(request, s, err)
  BY <1>1, <1>2, <1>3 DEF Closes, Settled
<1> QED BY <1>4, CopyOutInv, CopyGoesOn

LEMMA CopyCopyMode ==
    ASSUME UnixFilesInv, request.op = "copyfile", CopyMode
    PROVE  UnixFilesInv'
<1>1. work.pc = "fchmod" /\ work.pc \in Sending
  BY DEF CopyMode, Sending
<1>2. /\ request \in Made /\ work \in WorkType /\ Working(request, work) /\ work.held \cap {"bufs", "ptr", "lock"} = {}
      /\ work.dst = "ours" /\ work.who = "dst" /\ "dst" \in work.held /\ ~Keeps(request)
      /\ Tells /\ ~work.misread => CopyExact(request, work)
  BY <1>1, CopySends
<1>3. Step(NextSend(work)) \/ \E e \in ChmodErrors : Step(CopyOut(Failing(work, e), -e))
  BY DEF CopyMode
<1>4. CASE Step(NextSend(work))
  <2>1. Tells /\ ~work.misread => CopyAt(request, work) /\ work.len >= 0 /\ work.moved = Places(work.off, 0, 0)
    <3> SUFFICES ASSUME Tells, ~work.misread
                 PROVE  CopyAt(request, work) /\ work.len >= 0 /\ work.moved = Places(work.off, 0, 0)
      OBVIOUS
    <3>1. work.moved = << >> /\ work.off = 0 /\ work.len = request.size
      BY <1>1, <1>2 DEF CopyExact, Opening
    <3>2. request.size \in Nat
      BY <1>2, RequestIs
    <3>3. Places(0, 0, 0) = << >>
      <4>1. 0 \in Nat /\ 0 \in Int
        OBVIOUS
      <4> QED BY <4>1, PlacesAre, Zenon
    <3> QED BY <3>1, <3>2, <3>3 DEF CopyAt
  <2>2. Sends(request, work)
    BY <1>2, <2>1 DEF Sends
  <2> QED BY <1>2, <1>4, <2>2, NextSendInv, CopyGoesOn
<1>5. CASE \E e \in ChmodErrors : Step(CopyOut(Failing(work, e), -e))
  <2>1. PICK e \in ChmodErrors : Step(CopyOut(Failing(work, e), -e))
    BY <1>5
  <2>2. e \in Nat /\ e > 0
    BY RequestsAssumption
  <2> DEFINE f == Failing(work, e)
  <2>3. f \in WorkType /\ Alike(f, work) /\ f.held = work.held /\ f.pc = work.pc /\ f.errno = e
    BY <1>2, <2>2, FailingIs
  <2>4. Step(CopyOut(f, -e))
    BY <2>1
  <2> HIDE DEF f
  <2>5. -e \in Int /\ -e < 0 /\ (-e = -1 => f.errno # EINTR /\ ~Tells)
    BY <2>1, <2>2, <2>3 DEF EINTR, EPERM, Tells
  <2>6. Settled(f, work)
    BY <2>3 DEF Settled, Alike
  <2> DEFINE err == -e
  <2>7. err \in Int /\ err < 0 /\ (err = -1 => f.errno # EINTR /\ ~Tells) /\ Step(CopyOut(f, err))
    BY <2>4, <2>5
  <2> HIDE DEF err
  <2> QED BY <1>1, <2>3, <2>6, <2>7, CopyFails
<1> QED BY <1>3, <1>4, <1>5

\* uv_fs_sendfile has returned that n bytes have been sent, or that a signal came.
LEMMA CopySent ==
    ASSUME UnixFilesInv, request.op = "copyfile", work.pc \in Sending, NEW s \in WorkType, Settled(s, work), s.pc = work.pc,
           NEW n \in Nat, Tells /\ ~s.misread => CopyAt(request, [s EXCEPT !.len = s.len - n]) /\ s.len - n >= 0
                                                  /\ s.moved = Places(s.off, 0, 0),
           Step(Sent(s, n))
    PROVE  UnixFilesInv'
<1>1. /\ request \in Made /\ Working(request, work) /\ work.held \cap {"bufs", "ptr", "lock"} = {}
      /\ work.dst = "ours" /\ work.who = "dst" /\ "dst" \in work.held /\ ~Keeps(request)
  BY CopySends
<1> DEFINE left == s.len - n
           u == [s EXCEPT !.len = left]
<1>2. Step(NextSend(u))
  <2>1. n # -1
    OBVIOUS
  <2> QED BY <2>1 DEF Sent
<1>3. left \in Int
  <2>1. s.len \in Int
    BY DEF WorkType
  <2> QED
    BY <2>1
<1>4. Tells /\ ~s.misread => CopyAt(request, u) /\ left >= 0 /\ s.moved = Places(s.off, 0, 0)
  OBVIOUS
<1> HIDE DEF left
<1>5. /\ u \in WorkType /\ Settled(u, [s EXCEPT !.len = left]) /\ u.pc = s.pc /\ u.misread = s.misread /\ u.moved = s.moved
      /\ u.off = s.off /\ u.len = left /\ u.dst = s.dst /\ u.who = s.who /\ u.held = s.held
      /\ u.cancelled = s.cancelled /\ u.strays = s.strays
  BY <1>3 DEF WorkType, Settled
<1> HIDE DEF u
<1>6. Working(request, u)
  BY <1>1, <1>5 DEF Working, Settled
<1>7. Sends(request, u)
  BY <1>1, <1>4, <1>5, <1>6 DEF Sends, Settled
<1> QED BY <1>1, <1>2, <1>7, NextSendInv, CopyGoesOn

\* The emulation goes on.
LEMMA CopyEmulates ==
    ASSUME UnixFilesInv, request.op = "copyfile", work.pc \in Sending, NEW t \in WorkType, Settled(t, work), t.pc \in Emulating,
           Tells /\ ~t.misread => CopyExact(request, t), Step(t)
    PROVE  UnixFilesInv'
<1>1. /\ Working(request, work) /\ work.held \cap {"bufs", "ptr", "lock"} = {}
      /\ work.dst = "ours" /\ work.who = "dst" /\ "dst" \in work.held /\ ~Keeps(request)
  BY CopySends
<1>2. Working(request, t)
  BY <1>1 DEF Working, Settled, Emulating
<1>3. CopyHolds(request, t)
  BY <1>1 DEF CopyHolds, Keeps, Settled, Over, Opening, Sending, Emulating
<1>4. CopyTells(request, t)
  BY DEF CopyTells, Over, Emulating
<1>5. CopyInv(request, t)
  BY <1>3, <1>4 DEF CopyInv, Tells, Sending, Emulating
<1> QED BY <1>2, <1>5, CopyGoesOn DEF CopyGoes

LEMMA CopySystemSends ==
    ASSUME UnixFilesInv, request.op = "copyfile", SystemSends
    PROVE  UnixFilesInv'
<1>1. work.pc = "sendfile" /\ work.pc \in Sending
  BY DEF SystemSends, Sending
<1>2. /\ request \in Made /\ work \in WorkType /\ Working(request, work) /\ work.held \cap {"bufs", "ptr", "lock"} = {}
      /\ work.dst = "ours" /\ work.who = "dst" /\ "dst" \in work.held /\ ~Keeps(request) /\ Source(request) = 0
      /\ Tells /\ ~work.misread => CopyExact(request, work)
  BY <1>1, CopySends
<1>3. work.off \in Int /\ work.len \in Int /\ request.size \in Nat
  BY <1>2, RequestIs DEF WorkType
<1>4. Tells /\ ~work.misread => /\ work.off \in Nat /\ work.off + work.len = request.size /\ work.len > 0
                                /\ work.moved = Places(work.off, 0, 0)
  BY <1>1, <1>2, <1>3 DEF CopyExact, CopyAt
<1>5. ASSUME NEW n \in Nat, NEW t, Step(Sent(t, n)), SentSome(t, work, n), (n = 0 /\ SystemRoom = 0) \/ n \in 1..SystemRoom
      PROVE  UnixFilesInv'
  <2>1. t \in WorkType /\ Settled(t, work) /\ t.pc = work.pc /\ t.misread = work.misread /\ t.len = work.len
    BY <1>5 DEF SentSome, Still, Settled
  <2>2. ASSUME Tells, ~t.misread
        PROVE  /\ CopyAt(request, [t EXCEPT !.len = t.len - n]) /\ t.len - n >= 0 /\ t.moved = Places(t.off, 0, 0)
    <3> DEFINE f == work.off
               l == work.len
               left == t.len - n
    <3>1. f \in Nat /\ l \in Int /\ f + l = request.size /\ l > 0 /\ work.moved = Places(f, 0, 0)
      BY <1>3, <1>4, <2>1, <2>2
    <3>2. n <= l
      <4>1. SystemRoom <= l
        <5>1. Remaining(f) \in Int
          BY <1>3 DEF Remaining
        <5> QED BY <1>3, <5>1 DEF SystemRoom, Least
      <4>2. SystemRoom \in Int
        <5>1. Remaining(f) \in Int
          BY <1>3 DEF Remaining
        <5> QED BY <1>3, <5>1 DEF SystemRoom, Least
      <4> HIDE DEF l
      <4> QED BY <1>5, <3>1, <4>1, <4>2
    <3>3. t.off = f + n /\ t.moved = work.moved \o Places(n, f, Len(work.moved))
      BY <1>5 DEF SentSome
    <3>4. t.moved = Places(f + n, 0, 0)
      <4> HIDE DEF f
      <4>1. work.moved \o Places(n, 0 + f, Len(work.moved)) = Places(f + n, 0, 0)
        <5>1. 0 \in Int
          OBVIOUS
        <5> QED BY <1>2, <3>1, <5>1, WritesJoin, Zenon
      <4>2. 0 + f = f
        BY <3>1
      <4> QED BY <3>3, <4>1, <4>2
    <3>5. left = l - n /\ left >= 0 /\ f + n >= 0 /\ f + n + left = request.size
      <4>1. t.len = l
        BY <2>1
      <4> HIDE DEF f, l
      <4> QED BY <3>1, <3>2, <4>1
    <3> HIDE DEF f, l, left
    <3>6. [t EXCEPT !.len = left].off = t.off /\ [t EXCEPT !.len = left].len = left
      BY <2>1 DEF WorkType
    <3>7. CopyAt(request, [t EXCEPT !.len = left])
      BY <3>3, <3>5, <3>6 DEF CopyAt
    <3> QED BY <3>3, <3>4, <3>5, <3>7 DEF left
  <2> QED BY <1>1, <1>5, <2>1, <2>2, CopySent
<1>6. ASSUME NEW e \in {EINTR, EAGAIN}, Step(Sent(Failing(work, e), -1)) PROVE UnixFilesInv'
  <2> DEFINE f == Failing(work, e)
  <2>1. f \in WorkType /\ Alike(f, work) /\ f.held = work.held /\ f.pc = work.pc /\ f.errno = e /\ (e = 4 \/ e = 11)
    BY <1>2, FailingIs DEF EINTR, EAGAIN
  <2>2. Step(Sent(f, -1))
    BY <1>6
  <2> HIDE DEF f
  <2>3. Working(request, f)
    BY <1>2, <2>1 DEF Working, Alike
  <2>4. CASE e = EINTR
    <3>1. Step(NextSend(f))
      BY <2>1, <2>2, <2>4 DEF Sent
    <3>2. Tells /\ ~f.misread => CopyAt(request, f) /\ f.len >= 0 /\ f.moved = Places(f.off, 0, 0)
      BY <1>3, <1>4, <2>1 DEF Alike, CopyAt
    <3>3. Sends(request, f)
      BY <1>2, <2>1, <2>3, <3>2 DEF Sends, Alike
    <3> QED BY <1>2, <3>1, <3>3, NextSendInv, CopyGoesOn
  <2>5. CASE e # EINTR
    <3>1. -f.errno = -11 /\ -11 \in Int /\ -11 < 0 /\ -11 # -1
      BY <2>1, <2>5 DEF EINTR
    <3>2. Step(CopyOut(f, -11))
      BY <2>1, <2>2, <2>5, <3>1 DEF Sent
    <3>3. Settled(f, work)
      BY <2>1 DEF Settled, Alike
    <3> QED BY <1>1, <2>1, <3>1, <3>2, <3>3, CopyFails
  <2> QED BY <2>4, <2>5
<1>7. ASSUME NEW t, Step(t), Emulation(t, work) PROVE UnixFilesInv'
  <2>1. t \in WorkType /\ Settled(t, work) /\ t.pc \in Emulating
    BY <1>7 DEF Emulation, Still, Emulating
  <2>2. ASSUME Tells, ~t.misread PROVE CopyExact(request, t)
    <3>1. /\ t.pc = "emul_read" /\ t.nsent = 0 /\ t.usePread /\ t.off = work.off /\ t.len = work.len
          /\ t.moved = work.moved /\ ~work.misread
      BY <1>7, <2>2 DEF Emulation, Still, Settled
    <3>2. CopyAt(request, t) /\ 0 <= t.len
      BY <1>3, <1>4, <2>2, <3>1 DEF CopyAt
    <3>3. 0 + t.off = t.off
      BY <1>3, <3>1
    <3>4. EmulAt(request, t, t.off)
      BY <1>2, <1>4, <2>2, <3>1, <3>3 DEF EmulAt
    <3> QED BY <3>1, <3>2, <3>4 DEF CopyExact, Over, Opening
  <2> QED BY <1>1, <1>7, <2>1, <2>2, CopyEmulates
<1> QED BY <1>2, <1>5, <1>6, <1>7, SystemSendsDoes

LEMMA CopyEmulRead ==
    ASSUME UnixFilesInv, request.op = "copyfile", EmulRead
    PROVE  UnixFilesInv'
<1>1. work.pc = "emul_read" /\ work.pc \in Sending /\ work.pc \in Emulating
  BY DEF EmulRead, Sending, Emulating
<1>2. /\ request \in Made /\ work \in WorkType /\ Source(request) = 0
      /\ Tells /\ ~work.misread => CopyExact(request, work)
  BY <1>1, CopySends
<1>3. work.off \in Int /\ work.len \in Int /\ work.nsent \in Nat /\ request.size \in Nat /\ ~request.pipe
  BY <1>2, RequestIs DEF WorkType
<1>4. Tells /\ ~work.misread => /\ work.off >= 0 /\ work.off + work.len = request.size /\ work.nsent <= work.len /\ work.usePread
                                /\ work.moved = Places(work.nsent + work.off, 0, 0)
  BY <1>1, <1>2 DEF CopyExact, CopyAt, EmulAt
<1>5. ASSUME NEW t, Step(Sent(t, work.nsent)), SentAll(t, work) PROVE UnixFilesInv'
  <2>1. t \in WorkType /\ Settled(t, work) /\ t.pc = work.pc /\ t.misread = work.misread /\ t.len = work.len
        /\ t.off = work.off + work.nsent /\ t.moved = work.moved
    BY <1>5 DEF SentAll, Still, Settled
  <2>2. ASSUME Tells, ~t.misread
        PROVE  /\ CopyAt(request, [t EXCEPT !.len = t.len - work.nsent]) /\ t.len - work.nsent >= 0
               /\ t.moved = Places(t.off, 0, 0)
    <3> DEFINE f == work.off
               l == work.len
               n == work.nsent
               left == t.len - n
    <3>1. f >= 0 /\ f + l = request.size /\ n <= l /\ work.moved = Places(n + f, 0, 0)
      BY <1>4, <2>1, <2>2
    <3>2. t.off = f + n /\ t.moved = work.moved /\ t.len = l
      BY <2>1
    <3>3. f \in Int /\ l \in Int /\ n \in Nat
      BY <1>3
    <3> HIDE DEF f, l, n
    <3>4. n + f = f + n /\ left = l - n /\ left >= 0 /\ f + n >= 0 /\ f + n + left = request.size
      BY <3>1, <3>2, <3>3
    <3> HIDE DEF left
    <3>6. [t EXCEPT !.len = left].off = t.off /\ [t EXCEPT !.len = left].len = left
      BY <2>1 DEF WorkType
    <3>7. CopyAt(request, [t EXCEPT !.len = left])
      BY <3>2, <3>4, <3>6 DEF CopyAt
    <3> QED BY <3>1, <3>2, <3>4, <3>7 DEF left, n
  <2> QED BY <1>1, <1>3, <1>5, <2>1, <2>2, CopySent
<1>6. ASSUME NEW n \in Nat, NEW t, n \in 1..EmulRoom, Step(t), HasRead(t, work, n, EmulFrom) PROVE UnixFilesInv'
  <2>1. t \in WorkType /\ Settled(t, work) /\ t.pc \in Emulating
    BY <1>6 DEF HasRead, Still, Emulating
  <2>2. ASSUME Tells, ~t.misread PROVE CopyExact(request, t)
    <3> DEFINE f == work.off
               l == work.len
               x == work.nsent
    <3>1. /\ t.pc = "emul_write" /\ t.from = EmulFrom /\ t.nread = n /\ t.nwritten = 0 /\ t.nsent = x /\ t.usePread
          /\ t.moved = work.moved /\ t.off = f /\ t.len = l /\ EmulFrom = f + x
          /\ f >= 0 /\ f + l = request.size /\ x <= l /\ work.moved = Places(x + f, 0, 0)
      BY <1>4, <1>6, <2>2 DEF HasRead, Still, Settled, EmulFrom
    <3>2. n <= l - x
      <4> DEFINE rest == Remaining(EmulFrom)
      <4>1. rest \in Int /\ EmulBuf \in Int
        BY <1>2, <1>3, <3>1, RequestIs DEF Remaining
      <4>2. EmulRoom = Least(Least(l - x, EmulBuf), rest)
        BY DEF EmulRoom
      <4>3. l - x \in Int
        BY <1>3
      <4> HIDE DEF rest, l, x
      <4>4. EmulRoom <= l - x /\ EmulRoom \in Int
        BY <4>1, <4>2, <4>3 DEF Least
      <4> QED BY <1>6, <4>3, <4>4
    <3>3. f \in Int /\ l \in Int /\ x \in Nat
      BY <1>3
    <3> HIDE DEF f, l, x
    <3>4. f + x + 0 = x + f /\ 0 + f + x = f + x /\ 0 < n /\ x + n <= l
      BY <1>6, <3>2, <3>3
    <3>5. EmulAt(request, t, t.off)
      BY <1>2, <3>1, <3>4 DEF EmulAt
    <3>6. CopyAt(request, t)
      BY <3>1 DEF CopyAt
    <3> QED BY <3>1, <3>4, <3>5, <3>6 DEF CopyExact, Over, Opening
  <2> QED BY <1>1, <1>6, <2>1, <2>2, CopyEmulates
<1>7. ASSUME NEW t, Step(t), ReadsOn(t, work) PROVE UnixFilesInv'
  <2>1. t \in WorkType /\ Settled(t, work) /\ t.pc \in Emulating /\ t.misread
    BY <1>1, <1>3, <1>7 DEF ReadsOn
  <2> QED BY <1>1, <1>7, <2>1, CopyEmulates
<1>8. ASSUME NEW t, Step(Sent(t, -1)), Waits(t, work), t.pc = work.pc, t.errno = 5 PROVE UnixFilesInv'
  <2>1. t \in WorkType /\ Settled(t, work) /\ -5 \in Int /\ -5 < 0 /\ -5 # -1
    BY <1>8 DEF Waits, Alike, Settled
  <2>2. Step(CopyOut(t, -5))
    BY <1>8 DEF Sent, EINTR
  <2> QED BY <1>1, <1>8, <2>1, <2>2, CopyFails
<1>9. ASSUME NEW t, Step(t), Waits(t, work), t.pc = work.pc PROVE UnixFilesInv'
  <2>1. t \in WorkType /\ Settled(t, work) /\ t.pc \in Emulating
    BY <1>1, <1>9 DEF Waits, Alike, Settled
  <2>2. Tells /\ ~t.misread => CopyExact(request, t)
    BY <1>1, <1>2, <1>9 DEF CopyExact, CopyAt, EmulAt, Waits, Alike, Over, Opening, Emulating
  <2> QED BY <1>1, <1>9, <2>1, <2>2, CopyEmulates
<1> QED BY <1>2, <1>5, <1>6, <1>7, <1>8, <1>9, EmulReadDoes

LEMMA CopyWaits ==
    ASSUME UnixFilesInv, request.op = "copyfile", work.pc \in {"emul_write", "poll"},
           \/ \E t : Step(t) /\ Waits(t, work) /\ t.pc \in {"emul_write", "poll"}
           \/ \E t : Step(Sent(t, -1)) /\ WriteFails(t, work)
    PROVE  UnixFilesInv'
<1>1. work.pc \in Sending /\ work.pc \in Emulating
  BY DEF Sending, Emulating
<1>2. /\ request \in Made /\ work \in WorkType
      /\ Tells /\ ~work.misread => CopyExact(request, work)
  BY <1>1, CopySends
<1>3. CASE \E t : Step(t) /\ Waits(t, work) /\ t.pc \in {"emul_write", "poll"}
  <2>1. PICK t : Step(t) /\ Waits(t, work) /\ t.pc \in {"emul_write", "poll"}
    BY <1>3
  <2>2. t \in WorkType /\ Settled(t, work) /\ t.pc \in Emulating
    BY <2>1 DEF Waits, Alike, Settled, Emulating
  <2>3. Tells /\ ~t.misread => CopyExact(request, t)
    BY <1>2, <2>1 DEF CopyExact, CopyAt, EmulAt, Waits, Alike, Over, Opening, Emulating
  <2> QED BY <1>1, <2>1, <2>2, <2>3, CopyEmulates
<1>4. CASE \E t : Step(Sent(t, -1)) /\ WriteFails(t, work)
  <2>1. PICK t : Step(Sent(t, -1)) /\ WriteFails(t, work)
    BY <1>4
  <2> DEFINE err == -t.errno
  <2>2. t \in WorkType /\ Settled(t, work) /\ t.pc = work.pc /\ t.errno \in {5, 28}
    BY <2>1 DEF WriteFails, Still
  <2>3. err \in Int /\ err < 0 /\ err # -1 /\ Step(CopyOut(t, err))
    BY <2>1, <2>2 DEF Sent, EINTR
  <2> HIDE DEF err
  <2> QED BY <1>1, <2>2, <2>3, CopyFails
<1> QED BY <1>3, <1>4

LEMMA CopyEmulWrite ==
    ASSUME UnixFilesInv, request.op = "copyfile", EmulWrite
    PROVE  UnixFilesInv'
<1>1. work.pc = "emul_write" /\ work.pc \in Sending
  BY DEF EmulWrite, Sending, Emulating
<1>2. /\ request \in Made /\ work \in WorkType /\ Source(request) = 0
      /\ Tells /\ ~work.misread => CopyExact(request, work)
  BY <1>1, CopySends
<1>3. ASSUME NEW n \in Nat, NEW t, n \in 1..work.nread - work.nwritten, Step(t), HasWritten(t, work, n) PROVE UnixFilesInv'
  <2>1. t \in WorkType /\ Settled(t, work) /\ t.pc \in Emulating
    BY <1>3 DEF HasWritten, Still, Emulating
  <2>2. ASSUME Tells, ~t.misread PROVE CopyExact(request, t)
    <3> DEFINE f == work.off
               l == work.len
               w == work.nwritten
               d == work.nread
               x == work.nsent
               m == f + x + w
    <3>1. x \in Nat /\ w \in Nat /\ d \in Nat /\ f \in Int /\ l \in Int
      BY <1>2 DEF WorkType
    <3>2. /\ f >= 0 /\ f + l = request.size /\ work.moved = Places(m, 0, 0) /\ work.from = 0 + f + x /\ w < d /\ x + d <= l
          /\ work.usePread /\ x <= l
      BY <1>1, <1>2, <1>3, <2>2 DEF CopyExact, CopyAt, EmulAt, Emulating, HasWritten, Still
    <3>5. /\ t.nread = d /\ t.from = work.from /\ t.off = f /\ t.len = l /\ t.usePread /\ t.nwritten = w + n
          /\ IF w + n < d THEN t.pc = "emul_write" /\ t.nsent = x ELSE t.pc = "emul_read" /\ t.nsent = x + d
      BY <1>3, <3>2 DEF HasWritten, Still, Settled
    <3>4. t.moved = Places(m + n, 0, 0)
      <4> DEFINE p == work.from + work.nwritten
      <4>1. p = 0 + m /\ m \in Nat /\ work.moved = Places(m, 0, 0) /\ 0 \in Int
        BY <3>1, <3>2
      <4> HIDE DEF p, m
      <4>2. work.moved \o Places(n, 0 + m, Len(work.moved)) = Places(m + n, 0, 0)
        BY <1>2, <4>1, WritesJoin, Zenon
      <4> QED BY <1>3, <4>1, <4>2 DEF HasWritten, p
    <3>6. n <= d - w
      BY <1>3
    <3> HIDE DEF f, l, x, w, d
    <3>9. CopyAt(request, t)
      BY <3>2, <3>5 DEF CopyAt
    <3>7. CASE w + n < d
      <4>1. f + x + (w + n) = m + n
        BY <3>1
      <4>2. EmulAt(request, t, t.off)
        BY <1>2, <3>2, <3>4, <3>5, <3>7, <4>1 DEF EmulAt
      <4> QED BY <3>2, <3>5, <3>7, <3>9, <4>2 DEF CopyExact, Over, Opening
    <3>8. CASE ~(w + n < d)
      <4>1. (x + d) + f = m + n
        BY <3>1, <3>6, <3>8
      <4>2. EmulAt(request, t, t.off)
        BY <1>2, <3>4, <3>5, <3>8, <4>1 DEF EmulAt
      <4> QED BY <3>2, <3>5, <3>8, <3>9, <4>2 DEF CopyExact, Over, Opening
    <3> QED BY <3>7, <3>8
  <2> QED BY <1>1, <1>3, <2>1, <2>2, CopyEmulates
<1>4. CASE \/ \E t : Step(t) /\ Waits(t, work) /\ t.pc \in {"emul_write", "poll"}
           \/ \E t : Step(Sent(t, -1)) /\ WriteFails(t, work)
  BY <1>1, <1>4, CopyWaits
<1> QED BY <1>2, <1>3, <1>4, EmulWriteDoes

LEMMA CopyPoll ==
    ASSUME UnixFilesInv, request.op = "copyfile", Poll
    PROVE  UnixFilesInv'
<1>1. work \in WorkType /\ work.pc = "poll"
  BY DEF UnixFilesInv, WorkInv, Poll
<1> QED BY <1>1, CopyWaits, PollDoes

LEMMA CopyCloseFile ==
    ASSUME UnixFilesInv, request.op = "copyfile", CloseFile
    PROVE  UnixFilesInv'
<1>1. work.pc \in {"close_src", "close_dst"}
  BY DEF CloseFile
<1>2. /\ request \in Made /\ work \in WorkType /\ Working(request, work) /\ work.held \cap {"bufs", "ptr", "lock"} = {}
      /\ CopyHolds(request, work)
      /\ Tells => CopyTells(request, work) /\ (~work.misread => CopyExact(request, work))
  BY <1>1, CopyWorks
<1> DEFINE who == IF work.pc = "close_src" THEN "src" ELSE "dst"
           S(e) == [work EXCEPT !.held = @ \ {who}, !.faults = IF e = 0 THEN @ ELSE @ + 1,
                                !.copied = IF work.copied = 0 /\ e = EIO THEN -EIO ELSE @]
<1>3. PICK e \in {0, 4, 5} :
         Step(IF "dst" \in S(e).held THEN [S(e) EXCEPT !.pc = "close_dst"]
              ELSE IF who = "dst" /\ S(e).copied # 0 THEN [S(e) EXCEPT !.pc = "unlink", !.errno = 0]
              ELSE WorkEnds(S(e), S(e).copied))
  <2>1. \E e \in {0} \cup IF MayFail THEN {EINTR, EIO} ELSE {} :
           Step(IF "dst" \in S(e).held THEN [S(e) EXCEPT !.pc = "close_dst"]
                ELSE IF who = "dst" /\ S(e).copied # 0 THEN [S(e) EXCEPT !.pc = "unlink", !.errno = 0]
                ELSE WorkEnds(S(e), S(e).copied))
    BY DEF CloseFile
  <2>2. {0} \cup (IF MayFail THEN {EINTR, EIO} ELSE {}) \subseteq {0, 4, 5}
    BY DEF EINTR, EIO
  <2> HIDE DEF S, who
  <2> QED BY <2>1, <2>2
<1> DEFINE s == S(e)
           h == work.held \ {who}
           r == IF work.copied = 0 /\ e = 5 THEN -5 ELSE work.copied
           n == IF e = 0 THEN work.faults ELSE work.faults + 1
           u == [work EXCEPT !.held = h, !.faults = n, !.copied = r]
<1>4. who \in {"src", "dst"} /\ (who = "src" <=> work.pc = "close_src") /\ h = work.held \ {who}
      /\ (r = 0 => work.copied = 0) /\ (r = -1 => work.copied = -1) /\ (work.copied <= 0 => r <= 0)
      /\ r = (IF work.copied = 0 /\ e = 5 THEN -5 ELSE work.copied)
  <2>1. work.copied \in Int
    BY <1>2 DEF WorkType
  <2> QED BY <2>1
<1>5. h \in SUBSET Things /\ r \in Int /\ n \in Nat
  <2>1. work.copied \in Int /\ work.faults \in Nat /\ work.held \subseteq Things
    BY <1>2 DEF WorkType
  <2> QED BY <2>1
<1>6. s = u
  BY <1>2 DEF EIO, WorkType
<1>14. Step(IF "dst" \in s.held THEN [s EXCEPT !.pc = "close_dst"]
            ELSE IF who = "dst" /\ s.copied # 0 THEN [s EXCEPT !.pc = "unlink", !.errno = 0]
            ELSE WorkEnds(s, s.copied))
  BY <1>3
<1> HIDE DEF who, h, r, n, s, S
<1>7. /\ s \in WorkType /\ s.pc = work.pc /\ s.held = h /\ s.copied = r /\ s.dst = work.dst /\ s.errno = work.errno
      /\ s.moved = work.moved /\ s.misread = work.misread /\ s.cancelled = work.cancelled /\ s.strays = work.strays
  BY <1>2, <1>5, <1>6 DEF WorkType
<1>8. /\ work.copied <= 0 /\ (work.copied = 0 => work.dst = "ours") /\ (work.copied = -1 => work.errno # EINTR)
      /\ Keeps(request) => work.dst = "old" /\ work.pc = "close_src"
      /\ work.pc = "close_src" => ("dst" \in work.held <=> work.dst = "ours")
      /\ work.pc = "close_dst" => work.dst = "ours" /\ "src" \notin work.held
  BY <1>1, <1>2 DEF CopyHolds, Keeps
<1>9. Tells => /\ work.pc = "close_src" /\ work.copied = -1 => work.errno = EPERM /\ "dst" \notin work.held
               /\ work.pc = "close_dst" => work.copied # -1
               /\ work.copied = 0 /\ ~work.misread => work.moved = Places(request.size, 0, 0)
  BY <1>1, <1>2 DEF CopyTells, CopyExact
<1>10. Working(request, s) /\ s.held \cap {"bufs", "ptr", "lock"} = {}
  BY <1>2, <1>4, <1>7 DEF Working
<1>11. CASE "dst" \in s.held
  <2> DEFINE c == [s EXCEPT !.pc = "close_dst"]
  <2>1. Step(c)
    BY <1>11, <1>14
  <2>2. "close_dst" \in Pcs
    BY DEF Pcs
  <2>3. /\ c \in WorkType /\ c.pc = "close_dst" /\ c.held = h /\ c.copied = r /\ c.dst = work.dst /\ c.errno = work.errno
        /\ c.moved = work.moved /\ c.misread = work.misread /\ c.cancelled = work.cancelled /\ c.strays = work.strays
    BY <1>7, <2>2 DEF WorkType
  <2> HIDE DEF c
  <2>4. work.pc = "close_src" /\ work.dst = "ours" /\ "dst" \in work.held /\ "src" \notin c.held
    BY <1>1, <1>4, <1>7, <1>8, <1>11, <2>3
  <2>5. Working(request, c)
    BY <1>2, <1>4, <2>3 DEF Working
  <2>6. CopyHolds(request, c)
    BY <1>4, <1>8, <2>3, <2>4 DEF CopyHolds, Keeps, Over, Opening, Sending, Emulating
  <2>7. Tells => CopyTells(request, c) /\ (~c.misread => CopyExact(request, c))
    BY <1>4, <1>9, <2>3, <2>4 DEF CopyTells, CopyExact, Over, Opening, Emulating
  <2>8. CopyInv(request, c)
    BY <2>3, <2>6, <2>7 DEF CopyInv, Tells
  <2> QED BY <2>1, <2>5, <2>8, CopyGoesOn DEF CopyGoes
<1>12. CASE "dst" \notin s.held /\ who = "dst" /\ s.copied # 0
  <2> DEFINE c == [s EXCEPT !.pc = "unlink", !.errno = 0]
  <2>1. Step(c)
    BY <1>12, <1>14
  <2>2. "unlink" \in Pcs
    BY DEF Pcs
  <2>3. /\ c \in WorkType /\ c.pc = "unlink" /\ c.held = h /\ c.copied = r /\ c.dst = work.dst /\ c.errno = 0
        /\ c.moved = work.moved /\ c.misread = work.misread /\ c.cancelled = work.cancelled /\ c.strays = work.strays
    BY <1>7, <2>2 DEF WorkType
  <2> HIDE DEF c
  <2>4. work.pc = "close_dst" /\ work.dst = "ours" /\ c.held \cap {"src", "dst"} = {} /\ r < 0
    BY <1>1, <1>4, <1>5, <1>7, <1>8, <1>12, <2>3
  <2>5. Working(request, c)
    BY <1>2, <1>4, <2>3 DEF Working
  <2>6. CopyHolds(request, c)
    BY <1>4, <1>8, <2>3, <2>4 DEF CopyHolds, Keeps, Over, Opening, Sending, Emulating, EINTR
  <2>7. Tells => CopyTells(request, c) /\ (~c.misread => CopyExact(request, c))
    BY <1>4, <1>9, <2>3, <2>4 DEF CopyTells, CopyExact, Over, Opening, Emulating
  <2>8. CopyInv(request, c)
    BY <2>3, <2>6, <2>7 DEF CopyInv, Tells
  <2> QED BY <2>1, <2>5, <2>8, CopyGoesOn DEF CopyGoes
<1>13. CASE "dst" \notin s.held /\ ~(who = "dst" /\ s.copied # 0)
  <2>1. Step(WorkEnds(s, r))
    BY <1>7, <1>13, <1>14
  <2>2. s.held \cap {"ptr", "lock", "src", "dst"} = {}
    BY <1>1, <1>4, <1>7, <1>8, <1>10, <1>13
  <2>3. r = 0 <=> work.dst = "ours"
    <3>1. CASE who = "dst"
      BY <1>1, <1>4, <1>7, <1>8, <1>13, <3>1
    <3>2. CASE who = "src"
      BY <1>1, <1>4, <1>7, <1>8, <1>13, <3>2
    <3> QED BY <1>4, <3>1, <3>2
  <2>4. Tells /\ r = -1 => s.errno # 0
    BY <1>1, <1>4, <1>7, <1>9 DEF EPERM
  <2>5. CopyEnds(request, s, r)
    BY <1>4, <1>5, <1>7, <1>8, <1>9, <1>10, <2>2, <2>3, <2>4 DEF CopyEnds
  <2> QED BY <2>1, <2>5, CopyEndsInv, CopyGoesOn
<1> QED BY <1>11, <1>12, <1>13

LEMMA CopyUnlinkFile ==
    ASSUME UnixFilesInv, request.op = "copyfile", UnlinkFile
    PROVE  UnixFilesInv'
<1>1. work.pc = "unlink"
  BY DEF UnlinkFile
<1>2. /\ request \in Made /\ work \in WorkType /\ Working(request, work) /\ work.held \cap {"bufs", "ptr", "lock"} = {}
      /\ CopyHolds(request, work)
      /\ Tells => CopyTells(request, work)
  BY <1>1, CopyWorks
<1>3. /\ work.copied < 0 /\ work.copied \in Int /\ work.held \cap {"src", "dst"} = {} /\ ~Keeps(request)
      /\ (work.copied = -1 => work.errno # EINTR) /\ (Tells => work.copied # -1)
  BY <1>1, <1>2 DEF CopyHolds, CopyTells, Keeps, WorkType
<1>4. \/ Step(WorkEnds([work EXCEPT !.dst = "absent"], work.copied))
      \/ Step(WorkEnds([Failing(work, EIO) EXCEPT !.dst = "left"], work.copied))
      \/ Step([Failing(work, EINTR) EXCEPT !.errno = 0])
  BY DEF UnlinkFile
<1>5. ASSUME NEW f \in WorkType, Alike(f, work), f.held = work.held, f.pc = work.pc, f.errno = work.errno \/ f.errno = EIO,
             NEW d \in {"absent", "left"}, Step(WorkEnds([f EXCEPT !.dst = d], work.copied))
      PROVE  UnixFilesInv'
  <2> DEFINE u == [f EXCEPT !.dst = d]
  <2>1. /\ u \in WorkType /\ u.dst = d /\ u.held = f.held /\ u.errno = f.errno /\ u.cancelled = f.cancelled
        /\ u.strays = f.strays /\ u.pc = f.pc
    BY <1>5 DEF WorkType
  <2>2. Step(WorkEnds(u, work.copied))
    BY <1>5
  <2> HIDE DEF u
  <2>3. Working(request, u) /\ u.held \cap {"ptr", "lock", "src", "dst"} = {}
    BY <1>2, <1>3, <1>5, <2>1 DEF Working, Alike
  <2>4. work.copied <= 0 /\ work.copied # 0
    BY <1>3
  <2>5. work.copied = -1 => u.errno # EINTR
    BY <1>3, <1>5, <2>1 DEF EIO, EINTR
  <2>6. CopyEnds(request, u, work.copied)
    BY <1>3, <1>5, <2>1, <2>3, <2>4, <2>5 DEF CopyEnds
  <2> QED BY <2>2, <2>6, CopyEndsInv, CopyGoesOn
<1>6. CASE Step(WorkEnds([work EXCEPT !.dst = "absent"], work.copied))
  <2>1. Alike(work, work)
    BY DEF Alike
  <2> QED BY <1>2, <1>5, <1>6, <2>1
<1>7. CASE Step(WorkEnds([Failing(work, EIO) EXCEPT !.dst = "left"], work.copied))
  <2> DEFINE f == Failing(work, EIO)
  <2>1. f \in WorkType /\ Alike(f, work) /\ f.held = work.held /\ f.pc = work.pc /\ f.errno = EIO
    BY <1>2, FailingIs DEF EIO
  <2>2. Step(WorkEnds([f EXCEPT !.dst = "left"], work.copied))
    BY <1>7
  <2> HIDE DEF f
  <2> QED BY <1>5, <2>1, <2>2
<1>8. CASE Step([Failing(work, EINTR) EXCEPT !.errno = 0])
  <2> DEFINE f == Failing(work, EINTR)
             c == [f EXCEPT !.errno = 0]
  <2>1. f \in WorkType /\ Alike(f, work) /\ f.held = work.held /\ f.pc = work.pc
    BY <1>2, FailingIs DEF EINTR
  <2> HIDE DEF f
  <2>2. c \in WorkType /\ Alike(c, f) /\ c.held = f.held /\ c.pc = f.pc /\ c.errno = 0
    BY <2>1 DEF WorkType, Alike
  <2>3. Step(c)
    BY <1>8 DEF f
  <2> HIDE DEF c
  <2>4. Alike(c, work) /\ c.held = work.held /\ c.pc = "unlink"
    BY <1>1, <2>1, <2>2 DEF Alike
  <2>5. Working(request, c)
    BY <1>2, <2>2, <2>4 DEF Working, Alike
  <2>6. CopyInv(request, c)
    BY <1>1, <1>2, <1>3, <2>2, <2>4 DEF CopyInv, CopyHolds, CopyTells, CopyExact, Alike, Tells, Keeps, Over, Opening, Sending, Emulating, EINTR
  <2> QED BY <2>3, <2>5, <2>6, CopyGoesOn DEF CopyGoes
<1> QED BY <1>4, <1>6, <1>7, <1>8

-----------------------------------------------------------------------------
\* Every step of every request.

\* A request that has not been made is as it should be.
LEMMA InitInv == UnixFilesInit => UnixFilesInv \/ RefusedInv
<1> SUFFICES ASSUME UnixFilesInit, ~RefusedInv PROVE UnixFilesInv
  OBVIOUS
<1>1. request \in Made /\ work = New(request)
  BY DEF UnixFilesInit, RefusedInv, Made
<1>2. /\ work \in WorkType /\ work.pc = "call" /\ ~work.cancelled
      /\ work.held = IF request.op = "close" THEN {"src"} ELSE {}
      /\ work = [New(request) EXCEPT !.pc = work.pc, !.held = work.held, !.result = work.result, !.cancelled = work.cancelled]
  BY <1>1, NewIs
<1>3. work.who = "src" /\ work.strays = 0 /\ work.dst = (IF request.exists THEN "old" ELSE "absent")
  BY <1>1, <1>2, FreshIs
<1>4. Common(request, work)
  BY <1>1, <1>2, <1>3 DEF Common, Over
<1>5. IsTransfer(request) => TransferInv(request, work)
  BY <1>2 DEF TransferInv, Over
<1>6. request.op = "sendfile" => SendInv(request, work)
  BY <1>2 DEF SendInv, SendExact, Emulating, Over
<1>7. request.op = "copyfile" => CopyInv(request, work)
  BY <1>2, <1>3 DEF CopyInv, CopyHolds, CopyTells, CopyExact, Opening, Sending, Emulating, Over
<1>8. request.op = "open" => OpenInv(request, work)
  BY <1>2, <1>3 DEF OpenInv, Over
<1>9. IsPlain(request) => PlainInv(request, work)
  BY <1>2 DEF PlainInv, IsPlain, Over
<1> QED BY <1>1, <1>2, <1>4, <1>5, <1>6, <1>7, <1>8, <1>9 DEF UnixFilesInv, WorkInv

\* Where the request is says what kind of request it is.
LEMMA KindIs ==
    ASSUME UnixFilesInv
    PROVE  /\ work.pc = "transfer" => IsTransfer(request)
           /\ work.pc \in {"open", "open_plain"} => request.op \in {"open", "copyfile"}
           /\ work.pc \in {"fstat", "fchmod", "close_src", "close_dst", "unlink"} => request.op = "copyfile"
           /\ work.pc \in {"sendfile", "emul_read", "emul_write", "poll"} => request.op \in {"sendfile", "copyfile"}
           /\ work.pc = "plain" => IsPlain(request)
<1>1. /\ IsTransfer(request) => work.pc \in {"call", "queued", "transfer"} \cup Over
      /\ request.op = "sendfile" => work.pc \in {"call", "queued", "sendfile"} \cup Emulating \cup Over
      /\ request.op = "copyfile" =>
            work.pc \in {"call", "queued", "close_src", "close_dst", "unlink"} \cup Opening \cup Sending \cup Over
      /\ request.op = "open" => work.pc \in {"call", "queued", "open", "open_plain"} \cup Over
      /\ IsPlain(request) => work.pc \in {"call", "queued", "plain"} \cup Over
  BY DEF UnixFilesInv, WorkInv, TransferInv, SendInv, CopyInv, OpenInv, PlainInv
<1>2. IsTransfer(request) \/ request.op \in {"sendfile", "open", "copyfile"} \/ IsPlain(request)
  BY DEF IsPlain
<1> QED BY <1>1, <1>2 DEF Over, Emulating, Opening, Sending

\* And so it is after every step.
LEMMA StepInv == UnixFilesInv /\ [UnixFilesNext]_unixFilesVars => UnixFilesInv'
<1> SUFFICES ASSUME UnixFilesInv, [UnixFilesNext]_unixFilesVars PROVE UnixFilesInv'
  OBVIOUS
<1>0. CASE Refuses
  BY <1>0 DEF Refuses, UnixFilesInv, Made
<1>1. CASE Asks
  BY <1>1, AsksStep
<1>2. CASE Work
  BY <1>2, WorkStep
<1>3. CASE Cancelled
  BY <1>3, CancelledStep
<1>4. CASE Done
  BY <1>4, DoneStep
<1>5. CASE Cleanup
  BY <1>5, CleanupStep
<1>6. CASE Transfer
  <2>1. IsTransfer(request)
    BY <1>6, KindIs DEF Transfer
  <2> QED BY <1>6, <2>1, TransferStep
<1>7. CASE OpenFile \/ OpenPlain
  <2>1. request.op \in {"open", "copyfile"}
    BY <1>7, KindIs DEF OpenFile, OpenPlain
  <2> QED BY <1>7, <2>1, OpenSteps, CopyOpenSteps
<1>8. CASE Fstat \/ CopyMode \/ CloseFile \/ UnlinkFile
  <2>1. request.op = "copyfile"
    BY <1>8, KindIs DEF Fstat, CopyMode, CloseFile, UnlinkFile
  <2> QED BY <1>8, <2>1, CopyFstat, CopyCopyMode, CopyCloseFile, CopyUnlinkFile
<1>9. CASE SystemSends \/ EmulRead \/ EmulWrite \/ Poll
  <2>1. request.op \in {"sendfile", "copyfile"}
    BY <1>9, KindIs DEF SystemSends, EmulRead, EmulWrite, Poll
  <2>2. CASE request.op = "sendfile"
    BY <1>9, <2>2, SendSystemSends, SendEmulRead, SendEmulWrite, SendPoll
  <2>3. CASE request.op = "copyfile"
    BY <1>9, <2>3, CopySystemSends, CopyEmulRead, CopyEmulWrite, CopyPoll
  <2> QED BY <2>1, <2>2, <2>3
<1>10. CASE Plain
  <2>1. IsPlain(request)
    BY <1>10, KindIs DEF Plain
  <2> QED BY <1>10, <2>1, PlainStep
<1>11. CASE UNCHANGED unixFilesVars
  BY <1>11 DEF UnixFilesInv, unixFilesVars
<1> QED BY <1>0, <1>1, <1>2, <1>3, <1>4, <1>5, <1>6, <1>7, <1>8, <1>9, <1>10, <1>11 DEF UnixFilesNext

\* What has come to a request that is refused.
LEMMA RefusedWork ==
    ASSUME RefusedInv
    PROVE  /\ work.pc \in {"call", "cleaned"} /\ (work.pc = "call" => work = New(request))
           /\ work.pc = "cleaned" => work.result = -EINVAL /\ work.held = Registered
           /\ work.result \in Int /\ ~work.cancelled /\ work.strays = 0 /\ work.moved = << >>
           /\ work.dst = IF request.exists THEN "old" ELSE "absent"
<1> DEFINE n == New(request)
           c == [n EXCEPT !.pc = "cleaned", !.result = -EINVAL, !.held = Registered]
<1>1. request.off \in Int /\ request.len \in Int /\ Len(request.ends) \in Nat /\ request.exists \in BOOLEAN
  BY RequestsAssumption DEF RefusedInv
<1>2. n \in WorkType
  BY <1>1 DEF New, WorkType, Pcs, Things
<1>3. /\ n.pc = "call" /\ n.result = 0 /\ n.cancelled = FALSE /\ n.strays = 0 /\ n.moved = << >>
      /\ n.dst = IF request.exists THEN "old" ELSE "absent"
  BY DEF New
<1>4. work \in {n, c}
  BY DEF RefusedInv
<1> HIDE DEF n
<1>5. /\ c.pc = "cleaned" /\ c.result = -EINVAL /\ c.held = Registered /\ c.cancelled = n.cancelled /\ c.strays = n.strays
      /\ c.moved = n.moved /\ c.dst = n.dst
  BY <1>2 DEF WorkType
<1>6. -EINVAL \in Int
  BY DEF EINVAL
<1> HIDE DEF c
<1>7. CASE work = n
  BY <1>3, <1>7 DEF n
<1>8. CASE work = c
  BY <1>3, <1>5, <1>6, <1>8
<1> QED BY <1>4, <1>7, <1>8

\* A request that is refused goes no further.
LEMMA RefusedStep == RefusedInv /\ [UnixFilesNext]_unixFilesVars => RefusedInv'
<1> SUFFICES ASSUME RefusedInv, [UnixFilesNext]_unixFilesVars PROVE RefusedInv'
  OBVIOUS
<1>1. work.pc \in {"call", "cleaned"}
  BY RefusedWork
<1>2. CASE Refuses
  <2>1. request' = request /\ work' = [work EXCEPT !.pc = "cleaned", !.result = -EINVAL, !.held = Registered]
    BY <1>2 DEF Refuses, Step
  <2>2. work = New(request)
    BY <1>2, RefusedWork DEF Refuses
  <2>3. Registered' = Registered
    BY <2>1 DEF Registered
  <2> QED BY <2>1, <2>2, <2>3 DEF RefusedInv
<1>3. CASE UNCHANGED unixFilesVars
  BY <1>3 DEF RefusedInv, Registered, unixFilesVars
<1>4. ~Asks /\ ~Work /\ ~Cancelled /\ ~Done /\ ~Cleanup /\ ~Transfer /\ ~Plain
  BY <1>1 DEF RefusedInv, Asks, Work, Cancelled, Done, Cleanup, Transfer, Plain
<1>5. ~OpenFile /\ ~OpenPlain /\ ~Fstat /\ ~CopyMode /\ ~CloseFile /\ ~UnlinkFile
  BY <1>1 DEF OpenFile, OpenPlain, Fstat, CopyMode, CloseFile, UnlinkFile
<1>6. ~SystemSends /\ ~EmulRead /\ ~EmulWrite /\ ~Poll
  BY <1>1 DEF SystemSends, EmulRead, EmulWrite, Poll
<1> QED BY <1>2, <1>3, <1>4, <1>5, <1>6 DEF UnixFilesNext

\* From its call to its cleanup every request, of whatever kind, has the bytes it has moved, its
\* offsets, and the memory, descriptors and lock it holds, as its place in uv__fs_work and
\* uv__fs_done requires, whatever fails and whatever the kernel emulates (unix/fs.c); one
\* refused with -EINVAL has come to nothing but its registration in the loop.
THEOREM UnixFilesInvariant == UnixFilesSpec => [](UnixFilesInv \/ RefusedInv)
<1>1. UnixFilesInit => UnixFilesInv \/ RefusedInv
  BY InitInv
<1>2. (UnixFilesInv \/ RefusedInv) /\ [UnixFilesNext]_unixFilesVars => (UnixFilesInv \/ RefusedInv)'
  BY StepInv, RefusedStep
<1> QED BY <1>1, <1>2, PTL DEF UnixFilesSpec

\* A request that was refused has moved nothing, and holds only itself.
LEMMA RefusedIs ==
    ASSUME RefusedInv
    PROVE  /\ Refused(request) /\ request.op \in {"read", "write", "copyfile"} /\ ~work.cancelled /\ work.strays = 0
           /\ \A at : work.moved = [i \in 1..0 |-> <<i - 1, at + i - 1>>]
           /\ work.dst = IF request.exists THEN "old" ELSE "absent"
           /\ Ended => work.result < 0 /\ ~(work.result > 0) /\ work.held = Registered
<1>2. Refused(request) /\ request.op \in {"read", "write", "copyfile"}
  BY DEF RefusedInv, Refused
<1>3. ~work.cancelled /\ work.strays = 0 /\ work.moved = << >> /\ work.dst = IF request.exists THEN "old" ELSE "absent"
  BY RefusedWork
<1>4. ASSUME Ended PROVE work.result = -22 /\ work.held = Registered
  BY <1>4, RefusedWork DEF Ended, EINVAL
<1>5. \A at : << >> = [i \in 1..0 |-> <<i - 1, at + i - 1>>]
  OBVIOUS
<1> QED BY <1>2, <1>3, <1>4, <1>5

\* The invariant says that transfers are exact.
LEMMA InvIsExact == UnixFilesInv \/ RefusedInv => TransfersAreExact
<1>0. CASE RefusedInv
  BY <1>0, RefusedIs DEF TransfersAreExact, ReadsAndWritesAreExact, SendsAreExact
<1> SUFFICES ASSUME UnixFilesInv, work.pc = "cleaned" PROVE TransfersAreExact
  BY <1>0 DEF TransfersAreExact, ReadsAndWritesAreExact, SendsAreExact, Ended
<1>1. request \in Made /\ work \in WorkType /\ WorkInv(request, work)
  BY DEF UnixFilesInv, WorkInv
<1>2. ReadsAndWritesAreExact
  <2> SUFFICES ASSUME IsTransfer(request), request.pipe \/ work.noPreadv => Len(request.ends) <= IovMax
               PROVE  work.moved = Places(Positive(work.result), 0, FirstPlace(request))
    BY DEF ReadsAndWritesAreExact, IsTransfer, Positive, FirstPlace, Places
  <2> QED BY <1>1 DEF WorkInv, TransferInv, Whole, Over
<1>3. SendsAreExact
  <2> SUFFICES ASSUME request.op = "sendfile", ~work.misread
               PROVE  /\ work.moved = Places(Len(work.moved), Source(request), 0)
                      /\ work.result >= 0 => Len(work.moved) = work.result /\ work.off = request.off + work.result
                      /\ work.result < 0 => work.moved = << >> \/ ~work.wrote
    BY DEF SendsAreExact, Source, Places
  <2>1. Source(request) \in Int /\ work.result \in Int
    BY <1>1, RequestIs DEF Source, WorkType
  <2>2. SendExact(request, work) /\ (work.cancelled => work.result < 0 /\ work.moved = << >>)
    <3>1. work.cancelled => work.moved = << >>
      <4> SUFFICES ASSUME work.cancelled PROVE work.moved = << >>
        OBVIOUS
      <4>1. work = [New(request) EXCEPT !.pc = work.pc, !.held = work.held, !.result = work.result, !.cancelled = work.cancelled]
        BY <1>1 DEF WorkInv, Common
      <4> QED BY <1>1, <4>1, FreshIs
    <3> QED BY <1>1, <3>1 DEF WorkInv, SendInv, Common
  <2>3. CASE work.cancelled
    <3>1. Places(0, Source(request), 0) = << >> /\ Len(<< >>) = 0
      BY <2>1, PlacesAre
    <3> QED BY <2>1, <2>2, <2>3, <3>1
  <2>4. CASE ~work.cancelled /\ work.result >= 0
    <3>1. work.moved = Places(work.result, Source(request), 0) /\ work.off = request.off + work.result
      BY <2>2, <2>4 DEF SendExact, Over
    <3>2. work.result \in Nat
      BY <2>1, <2>4
    <3>3. Len(Places(work.result, Source(request), 0)) = work.result
      BY <2>1, <3>2, PlacesAre
    <3> QED BY <2>4, <3>1, <3>3
  <2>5. CASE ~work.cancelled /\ ~(work.result >= 0)
    BY <2>1, <2>2, <2>5 DEF SendExact, Over
  <2> QED BY <2>3, <2>4, <2>5
<1> QED BY <1>2, <1>3 DEF TransfersAreExact

\* A read or a write that returns n has transferred the first n bytes, in order, for any
\* buffers (uv__fs_buf_iter); what sendfile sends are the bytes from the offset, as many as
\* it returns, with the system's sendfile or the emulation (uv__fs_sendfile).
THEOREM TransfersAlwaysExact == UnixFilesSpec => []TransfersAreExact
  BY UnixFilesInvariant, InvIsExact, PTL

\* It says that requests let go of what they hold.
LEMMA InvLetsGo == UnixFilesInv \/ RefusedInv => RequestsLetGo
<1>0. CASE RefusedInv
  BY <1>0, RefusedIs DEF RequestsLetGo
<1> SUFFICES ASSUME UnixFilesInv PROVE RequestsLetGo
  BY <1>0
<1>1. request \in Made /\ work \in WorkType /\ WorkInv(request, work) /\ Common(request, work) /\ work.strays = 0
  BY DEF UnixFilesInv, WorkInv, Common
<1>2. SUFFICES ASSUME work.pc = "cleaned"
               PROVE  CASE work.cancelled -> work.held \subseteq {"bufs"} \cup IF request.op = "close" THEN {"src"} ELSE {}
                        [] request.op = "open" /\ work.result >= 0 -> work.held = {"src"}
                        [] OTHER -> work.held = {}
  BY <1>1 DEF RequestsLetGo, Ended, Made
<1>3. work.held \subseteq {"bufs", "src", "dst"} /\ ("bufs" \in work.held => work.cancelled)
  <2>1. work.held \subseteq {"req", "path", "bufs", "ptr", "lock", "src", "dst"}
    BY <1>1 DEF WorkType, Things
  <2> QED BY <1>1, <1>2, <2>1 DEF Common
<1>4. "dst" \notin work.held
  BY <1>1, <1>2 DEF Common, WorkInv, CopyInv, CopyHolds, Over
<1>5. "src" \in work.held <=>
         (request.op = "close" /\ work.cancelled) \/ (request.op = "open" /\ ~work.cancelled /\ work.result >= 0)
  <2>1. CASE request.op = "close"
    <3>1. IsPlain(request)
      BY <2>1 DEF IsPlain, IsTransfer
    <3>2. PlainInv(request, work)
      BY <1>1, <3>1 DEF WorkInv
    <3>3. "src" \in work.held <=> request.op = "close" /\ (work.pc \in {"call", "queued", "plain"} \/ work.cancelled)
      BY <3>2 DEF PlainInv
    <3>4. work.cancelled \in BOOLEAN /\ work.pc \notin {"call", "queued", "plain"} /\ request.op # "open"
      BY <1>1, <1>2, <2>1 DEF WorkType
    <3> QED BY <2>1, <3>3, <3>4
  <2>2. CASE request.op = "open"
    BY <1>1, <1>2, <2>2 DEF WorkInv, OpenInv, Over
  <2>3. CASE request.op \notin {"close", "open"}
    BY <1>1, <1>2, <2>3 DEF Common, WorkInv, CopyInv, CopyHolds, Over
  <2> QED BY <2>1, <2>2, <2>3
<1>6. work.cancelled => work.result < 0
  BY <1>1, <1>2 DEF Common
<1>7. CASE work.cancelled
  <2>1. work.held \subseteq {"bufs"} \cup IF request.op = "close" THEN {"src"} ELSE {}
    BY <1>3, <1>4, <1>5, <1>7
  <2>2. ~(request.op = "open" /\ work.result >= 0)
    <3>1. work.result \in Int
      BY <1>1 DEF WorkType
    <3> QED BY <1>6, <1>7, <3>1
  <2> QED BY <1>7, <2>1, <2>2
<1>8. CASE ~work.cancelled
  BY <1>3, <1>4, <1>5, <1>8
<1> QED BY <1>7, <1>8

\* However many system calls fail, a request that has been cleaned up holds nothing but what
\* it was to open or, cancelled, what it never came to give back (uv__fs_done, uv_fs_req_cleanup);
\* and one refused with -EINVAL stays registered in the loop (INIT, fs.c:1323, 1462, 1517).
THEOREM RequestsAlwaysLetGo == UnixFilesSpec => []RequestsLetGo
  BY UnixFilesInvariant, InvLetsGo, PTL

\* It says that copies are whole, or are not.
LEMMA InvIsWhole ==
    ASSUME EPERM \notin ChmodErrors
    PROVE  UnixFilesInv \/ RefusedInv => CopiesAreWhole
<1>0. CASE RefusedInv
  <2>1. work.result \in Int /\ (Ended => work.result < 0)
    BY <1>0, RefusedIs, RefusedWork
  <2> QED BY <1>0, <2>1, RefusedIs DEF CopiesAreWhole, CopyErrorsAreReported
<1> SUFFICES ASSUME UnixFilesInv PROVE CopiesAreWhole
  BY <1>0
<1>1. request \in Made /\ work \in WorkType /\ Common(request, work)
      /\ (request.op = "copyfile" => /\ CopyHolds(request, work) /\ CopyTells(request, work)
                                     /\ ~work.misread => CopyExact(request, work))
  BY DEF UnixFilesInv, WorkInv, CopyInv
<1>2. Ended /\ request.op = "copyfile" /\ work.result = 0 /\ ~work.misread =>
          work.dst = "ours" /\ work.moved = Places(request.size, 0, 0)
  <2>1. Ended /\ work.result = 0 => ~work.cancelled
    BY <1>1 DEF Common, Ended
  <2> QED BY <1>1, <2>1 DEF CopyTells, CopyExact, Ended, Over
<1>3. Ended /\ request.op = "copyfile" /\ work.result < 0 => work.dst # "ours"
  <2>1. CASE work.cancelled
    <3>1. work = [New(request) EXCEPT !.pc = work.pc, !.held = work.held, !.result = work.result, !.cancelled = work.cancelled]
      BY <1>1, <2>1 DEF Common
    <3>2. work.dst = (IF request.exists THEN "old" ELSE "absent")
      BY <1>1, <3>1, FreshIs
    <3> QED BY <3>2
  <2>2. CASE ~work.cancelled
    BY <1>1, <2>2 DEF CopyTells, Ended, Over
  <2> QED BY <2>1, <2>2
<1>4. request.op = "copyfile" /\ request.excl /\ request.exists => work.dst = "old"
  BY <1>1 DEF CopyHolds
<1> QED BY <1>2, <1>3, <1>4 DEF CopiesAreWhole, CopyErrorsAreReported, Places

\* And, unless fchmod may fail with EPERM, a copy that is reported a success is the whole file
\* and one reported a failure leaves none of it, for files of any size (uv__fs_copyfile).
\* With EPERM it is not so: uv__fs_work takes the error for -1 and returns errno.  Of what else
\* requests hold nothing is left, but the registration of those refused with -EINVAL.
THEOREM FailuresAlwaysLeaveNothing ==
    ASSUME EPERM \notin ChmodErrors
    PROVE  UnixFilesSpec => []FailuresLeaveNothing
<1>1. UnixFilesInv \/ RefusedInv => FailuresLeaveNothing
  BY InvIsWhole, InvLetsGo DEF FailuresLeaveNothing
<1> QED BY <1>1, UnixFilesInvariant, PTL

-----------------------------------------------------------------------------
(* Files of Windows: the volume. *)

Kinds == {"none", "file", "dir", "mount", "link", "junction"}

Makers == {"none", "open", "mkdir", "mkdtemp", "rename", "copyfile", "symlink", "junction"}

NodeType == [kind : Kinds, readonly : BOOLEAN, data : Seq(Int), deleting : BOOLEAN, appended : SUBSET Int,
             by : Makers]

VolumeType == [names : [Paths -> Nodes \cup {0}], nodes : [Nodes -> NodeType]]

\* What is opened to append cannot be written to elsewhere.
FdType == {d \in [node : Nodes \cup {0}, access : SUBSET {"read", "write", "append"}, pos : Nat] :
             ("append" \in d.access => "write" \notin d.access) /\ (d.node = 0 => d = NoFd)}

\* The nodes of which there is a handle: of a descriptor, or of a call (h).
HeldBy(d, h) == {n \in Nodes : (\E fd \in Fds : d[fd].node = n) \/ (\E t \in FsThreads : h[t] = n)}

NamedIn(f) == {n \in Nodes : \E p \in Paths : f.names[p] = n}

Taken(f) == {n \in Nodes : f.nodes[n].kind # "none"}

AppendsKept(f) == \A n \in Nodes : f.nodes[n].appended \subseteq ToSet(f.nodes[n].data)

\* A volume whose nodes that have a name or a handle exist.
Sound(f, d, h) ==
    /\ f \in VolumeType /\ d \in [Fds -> FdType] /\ h \in [FsThreads -> Nodes \cup {0}]
    /\ NamedIn(f) \cup HeldBy(d, h) \subseteq Taken(f)
    /\ AppendsKept(f)

\* And there are no others.
Good(f, d, h) == Sound(f, d, h) /\ Taken(f) \subseteq NamedIn(f) \cup HeldBy(d, h)

\* A directory made for a junction, that is neither one nor to be deleted.
Loose(f, p) ==
    /\ f.names[p] # 0
    /\ f.nodes[f.names[p]].kind = "dir" /\ f.nodes[f.names[p]].by = "junction" /\ ~f.nodes[f.names[p]].deleting

NoMoreLoose(f, g) == \A p \in Paths : Loose(g, p) => Loose(f, p) /\ g.names[p] = f.names[p]

-----------------------------------------------------------------------------
(* The calls. *)

\* What a call that goes on holds, by where it is.
HasHandle(c) == c.pc \in {"descriptor", "info", "clear", "mark", "close", "fail", "query", "again", "requery", "length",
                          "memory", "path", "convert"}
                \/ (c.op = "readlink" /\ c.pc = "read") \/ (c.op \in {"utime", "symlink"} /\ c.pc = "set")
HasMemory(c) == \/ c.op = "realpath" /\ c.pc \in {"path", "convert", "close", "fail"}
                \/ c.op = "scandir" /\ c.pc \in {"chunk", "cleanup"}
                \/ c.op = "sendfile" /\ c.pc \in {"read", "write"}
                \/ c.op = "symlink" /\ c.pc \in {"mkdir", "open", "set", "close"}

Holds(c) ==
    /\ c.h # 0 <=> HasHandle(c)
    /\ c.again # 0 => c.pc = "requery"
    /\ c.mem # 0 => HasMemory(c)
    /\ c.dir => c.op = "scandir" /\ c.pc \in {"chunk", "cleanup"}
    /\ c.ptr <=> c.free
    /\ c.ptr => c.pc = "idle"

CallOk(c) ==
    /\ c = [x \in DOMAIN c |-> c[x]] /\ DOMAIN NoCall \subseteq DOMAIN c
    /\ IF c.pc = "idle" THEN c.op = "none" ELSE "id" \in DOMAIN c /\ c.id \in Nat
    /\ c.bytes \in Nat /\ c.saved \in Int
    /\ c.op \in {"read", "write"} => c.saved \in Nat \cup {-1}
    /\ c.pc \in {"io", "restore"} => c.op \in {"read", "write"}
    /\ Parameters(c)
    /\ Holds(c)

\* The call that will make the directory n, named p, a junction or remove it.
Undoes(c, p, n) ==
    /\ c.op = "symlink" /\ "SYMLINK_JUNCTION" \in c.flags /\ c.path = p
    /\ c.pc \in {"open", "remove"} \/ (c.pc = "set" /\ c.h = n)

Undone(f, cs) == \A p \in Paths : Loose(f, p) => \E t \in FsThreads : Undoes(cs[t], p, f.names[p])

\* The descriptor of a call that has begun is open, and no other call closes it.
UsesFd(c) == c.pc \in {"io", "restore"} \/ (c.op = "sendfile" /\ c.pc # "start") \/ (c.op = "fchmod" /\ c.pc = "set")

FdsInUse(d, cs) ==
    /\ \A t \in FsThreads : UsesFd(cs[t]) => d[cs[t].fd] # NoFd
    /\ \A t, u \in FsThreads : t # u /\ cs[t].pc # "idle" /\ cs[u].pc # "idle" /\ "close" \in {cs[t].op, cs[u].op} =>
                                  Used(cs[t]) \cap Used(cs[u]) = {}

Handles(cs) == [t \in FsThreads |-> cs[t].h]

FilesInv ==
    /\ menu \in DOMAIN Menus /\ made \in Nat
    /\ Good(fs, fds, Handles(calls))
    /\ calls = [t \in FsThreads |-> calls[t]] /\ \A t \in FsThreads : CallOk(calls[t])
    /\ Undone(fs, calls) /\ FdsInUse(fds, calls)
-----------------------------------------------------------------------------
(* What the kernel does to the volume. *)

LEMMA NodesAre == Nodes \subseteq Nat /\ 0 \notin Nodes
<1>1. Cardinality(Paths) \in Nat /\ Cardinality(Fds) \in Nat /\ Cardinality(FsThreads) \in Nat
  BY FilesAssumption, FS_CardinalityType
<1> QED
  BY <1>1 DEF Nodes

LEMMA NoNodeIs == NoNode \in NodeType
<1>1. << >> \in Seq(Int) /\ {} \in SUBSET Int
  OBVIOUS
<1>2. "none" \in Kinds
  BY DEF Kinds
<1>3. "none" \in Makers
  BY DEF Makers
<1> QED
  BY <1>1, <1>2, <1>3 DEF NoNode, NodeType

\* There is a node for every name: while one is free, a node is, too.
LEMMA NodeIsFree ==
    ASSUME NEW f, NEW d, NEW h, Good(f, d, h), NEW p \in Paths, f.names[p] = 0
    PROVE  \E n \in Nodes : f.nodes[n].kind = "none"
<1> SUFFICES ASSUME \A n \in Nodes : f.nodes[n].kind # "none" PROVE FALSE
  OBVIOUS
<1> DEFINE A == {f.names[q] : q \in Paths \ {p}}
           B == {d[fd].node : fd \in Fds}
           C == {h[t] : t \in FsThreads}
<1>1. Nodes \subseteq A \cup (B \cup C)
  <2> SUFFICES ASSUME NEW n \in Nodes PROVE n \in A \cup (B \cup C)
    OBVIOUS
  <2>1. n \in NamedIn(f) \cup HeldBy(d, h)
    BY DEF Good, Taken
  <2>2. CASE n \in NamedIn(f)
    <3>1. PICK q \in Paths : f.names[q] = n
      BY <2>2 DEF NamedIn
    <3>2. q # p
      BY <3>1, NodesAre
    <3> QED
      BY <3>1, <3>2
  <2>3. CASE n \in HeldBy(d, h)
    BY <2>3 DEF HeldBy
  <2> QED
    BY <2>1, <2>2, <2>3
<1>2. /\ IsFiniteSet(Paths \ {p}) /\ Cardinality(Paths \ {p}) = Cardinality(Paths) - 1
      /\ Cardinality(Paths) \in Nat /\ Cardinality(Fds) \in Nat /\ Cardinality(FsThreads) \in Nat
  BY FilesAssumption, FS_RemoveElement, FS_CardinalityType
<1>3. /\ IsFiniteSet(A) /\ Cardinality(A) <= Cardinality(Paths) - 1 /\ Cardinality(A) \in Nat
  <2>1. IsFiniteSet(A) /\ Cardinality(A) <= Cardinality(Paths \ {p})
    <3> DEFINE g == [q \in Paths \ {p} |-> f.names[q]]
    <3>1. A = {g[q] : q \in Paths \ {p}}
      OBVIOUS
    <3>2. g \in Surjection(Paths \ {p}, A)
      BY <3>1 DEF Surjection
    <3> HIDE DEF g, A
    <3> QED
      BY <3>2, <1>2, FS_Surjection
  <2> QED
    BY <2>1, <1>2, FS_CardinalityType
<1>4. /\ IsFiniteSet(B) /\ Cardinality(B) <= Cardinality(Fds) /\ Cardinality(B) \in Nat
  <2> DEFINE g == [fd \in Fds |-> d[fd].node]
  <2>2. g \in Surjection(Fds, B)
    BY DEF Surjection
  <2> HIDE DEF g, B
  <2> QED
    BY <2>2, FilesAssumption, FS_Surjection, FS_CardinalityType
<1>5. /\ IsFiniteSet(C) /\ Cardinality(C) <= Cardinality(FsThreads) /\ Cardinality(C) \in Nat
  <2> DEFINE g == [t \in FsThreads |-> h[t]]
  <2>2. g \in Surjection(FsThreads, C)
    BY DEF Surjection
  <2> HIDE DEF g, C
  <2> QED
    BY <2>2, FilesAssumption, FS_Surjection, FS_CardinalityType
<1>6. IsFiniteSet(B \cup C) /\ Cardinality(B \cup C) <= Cardinality(B) + Cardinality(C)
      /\ Cardinality(B \cup C) \in Nat
  <2> HIDE DEF B, C
  <2>1. IsFiniteSet(B \cup C) /\ IsFiniteSet(B \cap C)
    BY <1>4, <1>5, FS_Union, FS_Intersection
  <2>2. Cardinality(B \cup C) = Cardinality(B) + Cardinality(C) - Cardinality(B \cap C)
    BY <1>4, <1>5, FS_Union
  <2>3. Cardinality(B \cap C) \in Nat /\ Cardinality(B \cup C) \in Nat
    BY <2>1, FS_CardinalityType
  <2> QED
    BY <2>1, <2>2, <2>3, <1>4, <1>5
<1>7. /\ IsFiniteSet(A \cup (B \cup C))
      /\ Cardinality(A \cup (B \cup C)) <= Cardinality(A) + Cardinality(B \cup C)
      /\ Cardinality(A \cup (B \cup C)) \in Nat
  <2> DEFINE D == B \cup C
  <2>0. IsFiniteSet(D) /\ Cardinality(D) \in Nat
    BY <1>6
  <2> HIDE DEF A, D
  <2>1. IsFiniteSet(A \cup D) /\ IsFiniteSet(A \cap D)
    BY <1>3, <2>0, FS_Union, FS_Intersection
  <2>2. Cardinality(A \cup D) = Cardinality(A) + Cardinality(D) - Cardinality(A \cap D)
    BY <1>3, <2>0, FS_Union
  <2>3. Cardinality(A \cap D) \in Nat /\ Cardinality(A \cup D) \in Nat
    BY <2>1, FS_CardinalityType
  <2>4. IsFiniteSet(A \cup D) /\ Cardinality(A \cup D) <= Cardinality(A) + Cardinality(D) /\ Cardinality(A \cup D) \in Nat
    BY <2>1, <2>2, <2>3, <2>0, <1>3
  <2> QED
    BY <2>4 DEF D
<1> DEFINE N == Cardinality(Paths) + Cardinality(Fds) + Cardinality(FsThreads)
<1>8. IsFiniteSet(Nodes) /\ Cardinality(Nodes) = N
  <2>1. N \in Nat
    BY <1>2
  <2>2. Nodes = 1..N
    BY DEF Nodes
  <2> HIDE DEF N
  <2>3. IsFiniteSet(1..N) /\ Cardinality(1..N) = IF 1 > N THEN 0 ELSE N - 1 + 1
    BY <2>1, FS_Interval
  <2> QED
    BY <2>1, <2>2, <2>3
<1>9. Cardinality(Nodes) <= Cardinality(A \cup (B \cup C))
  <2> HIDE DEF A, B, C
  <2> QED
    BY <1>1, <1>7, FS_Subset
<1> HIDE DEF A, B, C
<1> QED
  BY <1>2, <1>3, <1>4, <1>5, <1>6, <1>7, <1>8, <1>9

LEMMA CollectedGood ==
    ASSUME NEW f, NEW d, NEW h, Sound(f, d, h)
    PROVE  LET g == Collected(f, HeldBy(d, h))
           IN  Good(g, d, h) /\ NoMoreLoose(f, g) /\ g.names = f.names
<1> DEFINE N == [n \in Nodes |-> IF n \in HeldBy(d, h) \/ \E p \in Paths : f.names[p] = n THEN f.nodes[n] ELSE NoNode]
           g == Collected(f, HeldBy(d, h))
<1>1. f \in VolumeType
  BY DEF Sound
<1>2. g.names = f.names /\ g.nodes = N /\ g \in VolumeType
  <2>1. \A n \in Nodes : N[n] \in NodeType
    BY <1>1, NoNodeIs DEF VolumeType
  <2>2. N \in [Nodes -> NodeType]
    BY <2>1
  <2>3. g = [f EXCEPT !.nodes = N]
    BY DEF Collected
  <2> HIDE DEF N, g
  <2> QED
    BY <1>1, <2>2, <2>3 DEF VolumeType
<1>3. \A n \in Nodes : n \in NamedIn(f) \cup HeldBy(d, h) => N[n] = f.nodes[n]
  BY DEF NamedIn
<1>4. \A n \in Nodes : n \notin NamedIn(f) \cup HeldBy(d, h) => N[n] = NoNode
  BY DEF NamedIn
<1>5. NamedIn(g) = NamedIn(f)
  BY <1>2 DEF NamedIn
<1> HIDE DEF N, g
<1>6. NamedIn(g) \cup HeldBy(d, h) \subseteq Taken(g)
  BY <1>2, <1>3, <1>5 DEF Sound, Taken, NamedIn, HeldBy
<1>7. Taken(g) \subseteq NamedIn(g) \cup HeldBy(d, h)
  <2>1. NoNode.kind = "none"
    BY DEF NoNode
  <2> QED
    BY <1>2, <1>4, <1>5, <2>1 DEF Taken
<1>8. AppendsKept(g)
  <2>1. NoNode.appended = {}
    BY DEF NoNode
  <2> SUFFICES ASSUME NEW n \in Nodes PROVE g.nodes[n].appended \subseteq ToSet(g.nodes[n].data)
    BY DEF AppendsKept
  <2>2. CASE n \in NamedIn(f) \cup HeldBy(d, h)
    BY <2>2, <1>2, <1>3 DEF Sound, AppendsKept
  <2>3. CASE n \notin NamedIn(f) \cup HeldBy(d, h)
    BY <2>1, <2>3, <1>2, <1>4
  <2> QED
    BY <2>2, <2>3
<1>9. NoMoreLoose(f, g)
  <2> SUFFICES ASSUME NEW p \in Paths, Loose(g, p) PROVE Loose(f, p) /\ g.names[p] = f.names[p]
    BY DEF NoMoreLoose
  <2>1. f.names[p] \in Nodes /\ f.names[p] \in NamedIn(f)
    BY <1>1, <1>2 DEF Loose, VolumeType, NamedIn
  <2> QED
    BY <1>2, <1>3, <2>1 DEF Loose
<1> QED
  BY <1>2, <1>6, <1>7, <1>8, <1>9 DEF Good, Sound, g

\* A name is given to a new node.
NewName(g, h, p, kind, by) ==
    /\ Good(g, fds, h) /\ g.names[p] = Fresh /\ Fresh \in Nodes /\ g.nodes[Fresh].kind = kind
    /\ \A q \in Paths : q # p => g.names[q] = fs.names[q]
    /\ \A q \in Paths : Loose(g, q) =>
          (Loose(fs, q) /\ g.names[q] = fs.names[q]) \/ (q = p /\ kind = "dir" /\ by = "junction")

LEMMA WithGood ==
    ASSUME NEW h, Good(fs, fds, h), NEW p \in Paths, ~Exists(p), Held("none") = HeldBy(fds, h),
           NEW kind \in Kinds \ {"none"}, NEW readonly \in BOOLEAN, NEW by \in Makers
    PROVE  NewName(With(p, kind, readonly, by), h, p, kind, by)
<1> DEFINE r == [NoNode EXCEPT !.kind = kind, !.readonly = readonly, !.by = by]
           g == With(p, kind, readonly, by)
<1>1. fs \in VolumeType /\ fs.names[p] = 0
  BY DEF Good, Sound, Exists, NodeOf
<1>2. Fresh \in Nodes /\ fs.nodes[Fresh].kind = "none" /\ Fresh \notin HeldBy(fds, h)
  <2>1. PICK n \in Nodes : fs.nodes[n].kind = "none"
    BY <1>1, NodeIsFree
  <2>2. n \notin HeldBy(fds, h)
    BY <2>1 DEF Good, Sound, Taken
  <2> QED
    BY <2>1, <2>2 DEF Fresh
<1>3. r \in NodeType /\ r.kind = kind /\ r.data = << >> /\ r.appended = {} /\ r.deleting = FALSE /\ r.by = by
  BY NoNodeIs DEF NoNode, NodeType
<1>4. \A q \in Paths : fs.names[q] # Fresh
  BY <1>2 DEF Good, Sound, Taken, NamedIn
<1> HIDE DEF r
<1>5. g = [fs EXCEPT !.names = [fs.names EXCEPT ![p] = Fresh], !.nodes = [fs.nodes EXCEPT ![Fresh] = r]]
  BY DEF With, r
<1> HIDE DEF g
<1>6. g.names = [fs.names EXCEPT ![p] = Fresh] /\ g.nodes = [fs.nodes EXCEPT ![Fresh] = r] /\ g \in VolumeType
  BY <1>1, <1>2, <1>3, <1>5 DEF VolumeType
<1>7. g.names[p] = Fresh /\ \A q \in Paths : q # p => g.names[q] = fs.names[q]
  BY <1>6, <1>1 DEF VolumeType
<1>8. g.nodes[Fresh] = r /\ \A n \in Nodes : n # Fresh => g.nodes[n] = fs.nodes[n]
  BY <1>6, <1>1, <1>2 DEF VolumeType
<1>9. NamedIn(g) = NamedIn(fs) \cup {Fresh}
  BY <1>1, <1>2, <1>7, NodesAre DEF NamedIn
<1>10. Taken(g) = Taken(fs) \cup {Fresh}
  BY <1>2, <1>3, <1>8 DEF Taken
<1>11. AppendsKept(g)
  BY <1>3, <1>8 DEF Good, Sound, AppendsKept
<1>12. Good(g, fds, h)
  BY <1>6, <1>9, <1>10, <1>11 DEF Good, Sound
<1>13. ASSUME NEW q \in Paths, Loose(g, q)
       PROVE  (Loose(fs, q) /\ g.names[q] = fs.names[q]) \/ (q = p /\ kind = "dir" /\ by = "junction")
  <2>1. CASE q = p
    BY <1>13, <2>1, <1>3, <1>7, <1>8 DEF Loose
  <2>2. CASE q # p
    <3>1. g.names[q] = fs.names[q] /\ fs.names[q] \in Nodes /\ fs.names[q] # Fresh
      BY <1>13, <2>2, <1>1, <1>4, <1>7 DEF Loose, VolumeType
    <3> QED
      BY <1>13, <3>1, <1>8 DEF Loose
  <2> QED
    BY <2>1, <2>2
<1> QED
  BY <1>2, <1>3, <1>7, <1>8, <1>12, <1>13 DEF g, NewName

\* One node changes, and stays.
LEMMA NodeChanged ==
    ASSUME NEW f, NEW d, NEW h, Good(f, d, h), NEW n \in Nodes, f.nodes[n].kind # "none",
           NEW r \in NodeType, r.kind # "none", r.appended \subseteq ToSet(r.data),
           r.kind = "dir" /\ r.by = "junction" /\ ~r.deleting =>
               f.nodes[n].kind = "dir" /\ f.nodes[n].by = "junction" /\ ~f.nodes[n].deleting,
           NEW g, g = [f EXCEPT !.nodes = [f.nodes EXCEPT ![n] = r]]
    PROVE  Good(g, d, h) /\ NoMoreLoose(f, g) /\ g.names = f.names
<1>1. f \in VolumeType
  BY DEF Good, Sound
<1>2. g.names = f.names /\ g.nodes = [f.nodes EXCEPT ![n] = r] /\ g \in VolumeType
  BY <1>1 DEF VolumeType
<1>3. g.nodes[n] = r /\ \A m \in Nodes : m # n => g.nodes[m] = f.nodes[m]
  BY <1>1, <1>2 DEF VolumeType
<1>4. NamedIn(g) = NamedIn(f)
  BY <1>2 DEF NamedIn
<1>5. Taken(g) = Taken(f)
  BY <1>3 DEF Taken
<1>6. AppendsKept(g)
  BY <1>3 DEF Good, Sound, AppendsKept
<1>7. NoMoreLoose(f, g)
  BY <1>1, <1>2, <1>3 DEF NoMoreLoose, Loose, VolumeType
<1> QED
  BY <1>2, <1>4, <1>5, <1>6, <1>7 DEF Good, Sound

-----------------------------------------------------------------------------
(* Handles. *)

LEMMA HeldByAll ==
    ASSUME FilesInv
    PROVE  Held("none") = HeldBy(fds, Handles(calls))
<1>1. \A n \in Nodes : "none" \notin HoldersOf(n)
  BY FilesAssumption DEF HoldersOf
<1>2. \A n \in Nodes : HoldersOf(n) # {} <=> (\E fd \in Fds : fds[fd].node = n) \/ (\E t \in FsThreads : calls[t].h = n)
  BY DEF HoldersOf
<1> QED
  BY <1>1, <1>2 DEF Held, HeldBy, Handles

LEMMA HeldByOthers ==
    ASSUME FilesInv, NEW t \in FsThreads
    PROVE  Held(t) = HeldBy(fds, [Handles(calls) EXCEPT ![t] = 0])
<1> DEFINE h == [Handles(calls) EXCEPT ![t] = 0]
<1>1. \A u \in FsThreads : h[u] = IF u = t THEN 0 ELSE calls[u].h
  BY DEF Handles
<1>2. \A n \in Nodes : HoldersOf(n) \ {t} # {}
                       <=> (\E fd \in Fds : fds[fd].node = n) \/ (\E u \in FsThreads : u # t /\ calls[u].h = n)
  BY FilesAssumption DEF HoldersOf
<1>3. \A n \in Nodes : (\E u \in FsThreads : u # t /\ calls[u].h = n) <=> (\E u \in FsThreads : h[u] = n)
  BY <1>1, NodesAre
<1> HIDE DEF h
<1> QED
  BY <1>2, <1>3 DEF Held, HeldBy, h

LEMMA HeldByOtherFds ==
    ASSUME FilesInv, NEW fd \in Fds
    PROVE  Held(fd) = HeldBy([fds EXCEPT ![fd] = NoFd], Handles(calls))
<1> DEFINE d == [fds EXCEPT ![fd] = NoFd]
<1>0. fds \in [Fds -> FdType]
  BY DEF FilesInv, Good, Sound
<1>1. \A e \in Fds : d[e].node = IF e = fd THEN 0 ELSE fds[e].node
  BY <1>0 DEF NoFd
<1>2. \A n \in Nodes : HoldersOf(n) \ {fd} # {}
                       <=> (\E e \in Fds : e # fd /\ fds[e].node = n) \/ (\E u \in FsThreads : calls[u].h = n)
  BY FilesAssumption DEF HoldersOf
<1>3. \A n \in Nodes : (\E e \in Fds : e # fd /\ fds[e].node = n) <=> (\E e \in Fds : d[e].node = n)
  BY <1>1, NodesAre
<1> HIDE DEF d
<1> QED
  BY <1>2, <1>3 DEF Held, HeldBy, Handles, d

LEMMA NoFdIs == NoFd \in FdType /\ NoFd.node = 0
<1>1. NoFd \in [node : Nodes \cup {0}, access : SUBSET {"read", "write", "append"}, pos : Nat]
  BY DEF NoFd
<1> QED
  BY <1>1 DEF FdType, NoFd

\* A handle of what has a name.
LEMMA HandleTaken ==
    ASSUME NEW f, NEW d, NEW h, Good(f, d, h), NEW t \in FsThreads, h[t] = 0, NEW n \in NamedIn(f)
    PROVE  Good(f, d, [h EXCEPT ![t] = n])
<1> DEFINE g == [h EXCEPT ![t] = n]
<1>1. h \in [FsThreads -> Nodes \cup {0}] /\ n \in Nodes
  BY DEF Good, Sound, NamedIn
<1>2. g \in [FsThreads -> Nodes \cup {0}] /\ g[t] = n /\ \A u \in FsThreads : u # t => g[u] = h[u]
  BY <1>1
<1> HIDE DEF g
<1>3. HeldBy(d, g) = HeldBy(d, h) \cup {n}
  BY <1>1, <1>2, NodesAre DEF HeldBy
<1>4. Good(f, d, g)
  BY <1>1, <1>2, <1>3 DEF Good, Sound
<1> QED
  BY <1>4 DEF g

LEMMA HandleClosed ==
    ASSUME NEW f, NEW d, NEW h, Good(f, d, h), NEW t \in FsThreads
    PROVE  Sound(f, d, [h EXCEPT ![t] = 0])
<1> DEFINE g == [h EXCEPT ![t] = 0]
<1>1. h \in [FsThreads -> Nodes \cup {0}]
  BY DEF Good, Sound
<1>2. g \in [FsThreads -> Nodes \cup {0}] /\ g[t] = 0 /\ \A u \in FsThreads : u # t => g[u] = h[u]
  BY <1>1
<1> HIDE DEF g
<1>3. HeldBy(d, g) \subseteq HeldBy(d, h)
  BY <1>1, <1>2, NodesAre DEF HeldBy
<1>4. Sound(f, d, g)
  BY <1>2, <1>3 DEF Good, Sound
<1> QED
  BY <1>4 DEF g

LEMMA FdClosed ==
    ASSUME NEW f, NEW d, NEW h, Good(f, d, h), NEW fd \in Fds
    PROVE  Sound(f, [d EXCEPT ![fd] = NoFd], h)
<1> DEFINE g == [d EXCEPT ![fd] = NoFd]
<1>1. d \in [Fds -> FdType]
  BY DEF Good, Sound
<1>2. g \in [Fds -> FdType] /\ g[fd] = NoFd /\ \A e \in Fds : e # fd => g[e] = d[e]
  BY <1>1, NoFdIs
<1> HIDE DEF g
<1>3. HeldBy(g, h) \subseteq HeldBy(d, h)
  BY <1>2, NoFdIs, NodesAre DEF HeldBy
<1>4. Sound(f, g, h)
  BY <1>2, <1>3 DEF Good, Sound
<1> QED
  BY <1>4 DEF g

\* The handle of a call becomes a descriptor.
LEMMA HandleHandedOn ==
    ASSUME NEW f, NEW d, NEW h, Good(f, d, h), NEW t \in FsThreads, NEW fd \in Fds, d[fd] = NoFd,
           NEW r \in FdType, r.node = h[t]
    PROVE  Good(f, [d EXCEPT ![fd] = r], [h EXCEPT ![t] = 0])
<1> DEFINE e == [d EXCEPT ![fd] = r]
           g == [h EXCEPT ![t] = 0]
<1>1. d \in [Fds -> FdType] /\ h \in [FsThreads -> Nodes \cup {0}]
  BY DEF Good, Sound
<1>2. e \in [Fds -> FdType] /\ e[fd] = r /\ \A x \in Fds : x # fd => e[x] = d[x]
  BY <1>1
<1>3. g \in [FsThreads -> Nodes \cup {0}] /\ g[t] = 0 /\ \A u \in FsThreads : u # t => g[u] = h[u]
  BY <1>1
<1> HIDE DEF e, g
<1>4. HeldBy(e, g) = HeldBy(d, h)
  <2> SUFFICES ASSUME NEW n \in Nodes
               PROVE  ((\E x \in Fds : e[x].node = n) \/ (\E u \in FsThreads : g[u] = n))
                      <=> ((\E x \in Fds : d[x].node = n) \/ (\E u \in FsThreads : h[u] = n))
    BY DEF HeldBy
  <2>1. n # 0
    BY NodesAre
  <2>2. (\E x \in Fds : e[x].node = n) <=> h[t] = n \/ (\E x \in Fds : d[x].node = n)
    BY <1>2, NoFdIs, <2>1
  <2>3. (\E u \in FsThreads : h[u] = n) <=> h[t] = n \/ (\E u \in FsThreads : g[u] = n)
    BY <1>3, <2>1
  <2> QED
    BY <2>2, <2>3
<1>5. Good(f, e, g)
  BY <1>2, <1>3, <1>4 DEF Good, Sound
<1> QED
  BY <1>5 DEF e, g

\* The position of a descriptor changes.
Moved(d, fd, pos) == [d EXCEPT ![fd].pos = pos]

LEMMA FdMoved ==
    ASSUME NEW f, NEW d, NEW h, Good(f, d, h), NEW fd \in Fds, d[fd] # NoFd, NEW pos \in Nat
    PROVE  Good(f, Moved(d, fd, pos), h) /\ \A x \in Fds : Moved(d, fd, pos)[x] = NoFd <=> d[x] = NoFd
<1> DEFINE r == [d[fd] EXCEPT !.pos = pos]
           e == Moved(d, fd, pos)
<1>1. d \in [Fds -> FdType]
  BY DEF Good, Sound
<1>2. d[fd] \in [node : Nodes \cup {0}, access : SUBSET {"read", "write", "append"}, pos : Nat] /\ d[fd].node # 0
      /\ ("append" \in d[fd].access => "write" \notin d[fd].access)
  BY <1>1 DEF FdType
<1>3. r \in [node : Nodes \cup {0}, access : SUBSET {"read", "write", "append"}, pos : Nat]
      /\ r.node = d[fd].node /\ r.access = d[fd].access
  BY <1>2
<1>4. r \in FdType /\ r # NoFd
  BY <1>2, <1>3, NoFdIs DEF FdType
<1> HIDE DEF r
<1>5. e = [d EXCEPT ![fd] = r]
  BY DEF r, Moved
<1> HIDE DEF e
<1>6. e \in [Fds -> FdType] /\ e[fd] = r /\ \A x \in Fds : x # fd => e[x] = d[x]
  BY <1>1, <1>4, <1>5
<1>7. HeldBy(e, h) = HeldBy(d, h)
  <2>1. \A x \in Fds : e[x].node = d[x].node
    BY <1>3, <1>6
  <2> QED
    BY <2>1 DEF HeldBy
<1>8. Good(f, e, h)
  BY <1>6, <1>7 DEF Good, Sound
<1> QED
  BY <1>4, <1>6, <1>8 DEF e

-----------------------------------------------------------------------------
(* Closing, removing, truncating and writing. *)

\* Names are given up.
LEMMA NamesGone ==
    ASSUME NEW f, NEW d, NEW h, Sound(f, d, h), NEW M \in [Paths -> Nodes \cup {0}],
           \A p \in Paths : M[p] \in {0, f.names[p]}, NEW g, g = [f EXCEPT !.names = M]
    PROVE  Sound(g, d, h) /\ NoMoreLoose(f, g) /\ g.nodes = f.nodes /\ g.names = M
<1>1. f \in VolumeType
  BY DEF Sound
<1>2. g.names = M /\ g.nodes = f.nodes /\ g \in VolumeType
  BY <1>1 DEF VolumeType
<1>3. NamedIn(g) \subseteq NamedIn(f)
  BY <1>2, NodesAre DEF NamedIn
<1>4. Taken(g) = Taken(f) /\ (AppendsKept(g) <=> AppendsKept(f))
  BY <1>2 DEF Taken, AppendsKept
<1>5. NoMoreLoose(f, g)
  BY <1>2 DEF NoMoreLoose, Loose
<1> QED
  BY <1>2, <1>3, <1>4, <1>5 DEF Sound

LEMMA LooseAgain ==
    ASSUME NEW f, NEW g, NEW k, NoMoreLoose(f, g), NoMoreLoose(g, k)
    PROVE  NoMoreLoose(f, k)
  BY DEF NoMoreLoose

LEMMA GoneIs ==
    ASSUME FilesInv, NEW n, NEW gone
    PROVE  LET M == [p \in Paths |-> IF gone /\ fs.names[p] = n THEN 0 ELSE fs.names[p]]
           IN  M \in [Paths -> Nodes \cup {0}] /\ \A p \in Paths : M[p] \in {0, fs.names[p]}
<1>1. fs.names \in [Paths -> Nodes \cup {0}]
  BY DEF FilesInv, Good, Sound, VolumeType
<1>2. \A p \in Paths : fs.names[p] \in Nodes \cup {0}
  BY <1>1
<1> QED
  BY <1>2

LEMMA ClosedByCall ==
    ASSUME FilesInv, NEW t \in FsThreads
    PROVE  LET g == Closed(t, calls[t].h)
           IN  Good(g, fds, [Handles(calls) EXCEPT ![t] = 0]) /\ NoMoreLoose(fs, g)
<1> DEFINE n == calls[t].h
           gone == n # 0 /\ fs.nodes[n].deleting /\ n \notin Held(t)
           M == [p \in Paths |-> IF gone /\ fs.names[p] = n THEN 0 ELSE fs.names[p]]
           k == [fs EXCEPT !.names = M]
           h == [Handles(calls) EXCEPT ![t] = 0]
<1>1. Sound(fs, fds, h)
  BY HandleClosed DEF FilesInv
<1>2. M \in [Paths -> Nodes \cup {0}] /\ \A p \in Paths : M[p] \in {0, fs.names[p]}
  <2> HIDE DEF gone, n
  <2> QED
    BY GoneIs
<1>3. Held(t) = HeldBy(fds, h)
  BY HeldByOthers
<1>4. Closed(t, n) = Collected(k, Held(t))
  BY DEF Closed
<1> HIDE DEF M, h, gone, n
<1>5. Sound(k, fds, h) /\ NoMoreLoose(fs, k)
  BY <1>1, <1>2, NamesGone
<1> HIDE DEF k
<1>6. Good(Closed(t, n), fds, h) /\ NoMoreLoose(k, Closed(t, n))
  BY <1>3, <1>4, <1>5, CollectedGood
<1>7. NoMoreLoose(fs, Closed(t, n))
  BY <1>5, <1>6, LooseAgain
<1> QED
  BY <1>6, <1>7 DEF h, n

LEMMA ClosedByFd ==
    ASSUME FilesInv, NEW fd \in Fds
    PROVE  LET g == Closed(fd, fds[fd].node)
           IN  Good(g, [fds EXCEPT ![fd] = NoFd], Handles(calls)) /\ NoMoreLoose(fs, g)
<1> DEFINE n == fds[fd].node
           gone == n # 0 /\ fs.nodes[n].deleting /\ n \notin Held(fd)
           M == [p \in Paths |-> IF gone /\ fs.names[p] = n THEN 0 ELSE fs.names[p]]
           k == [fs EXCEPT !.names = M]
           d == [fds EXCEPT ![fd] = NoFd]
           h == Handles(calls)
<1>1. Sound(fs, d, h)
  BY FdClosed DEF FilesInv
<1>2. M \in [Paths -> Nodes \cup {0}] /\ \A p \in Paths : M[p] \in {0, fs.names[p]}
  <2> HIDE DEF gone, n
  <2> QED
    BY GoneIs
<1>3. Held(fd) = HeldBy(d, h)
  BY HeldByOtherFds
<1>4. Closed(fd, n) = Collected(k, Held(fd))
  BY DEF Closed
<1> HIDE DEF M, h, d, gone, n
<1>5. Sound(k, d, h) /\ NoMoreLoose(fs, k)
  BY <1>1, <1>2, NamesGone
<1> HIDE DEF k
<1>6. Good(Closed(fd, n), d, h) /\ NoMoreLoose(k, Closed(fd, n))
  BY <1>3, <1>4, <1>5, CollectedGood
<1>7. NoMoreLoose(fs, Closed(fd, n))
  BY <1>5, <1>6, LooseAgain
<1> QED
  BY <1>6, <1>7 DEF h, n, d

\* The node of a name, or of a handle, changes one of its fields.
LEMMA NodeIs ==
    ASSUME NEW f, NEW d, NEW h, Good(f, d, h), NEW n \in NamedIn(f) \cup HeldBy(d, h)
    PROVE  n \in Nodes /\ f.nodes[n] \in NodeType /\ f.nodes[n].kind # "none"
           /\ f.nodes[n].appended \subseteq ToSet(f.nodes[n].data) /\ f \in VolumeType
  BY DEF Good, Sound, Taken, NamedIn, HeldBy, VolumeType, AppendsKept

LEMMA MarkGood ==
    ASSUME NEW f, NEW d, NEW h, Good(f, d, h), NEW n \in NamedIn(f) \cup HeldBy(d, h)
    PROVE  LET g == [f EXCEPT !.nodes[n].deleting = TRUE]
           IN  Good(g, d, h) /\ NoMoreLoose(f, g) /\ \A p \in Paths : f.names[p] = n => ~Loose(g, p)
<1> DEFINE r == [f.nodes[n] EXCEPT !.deleting = TRUE]
           g == [f EXCEPT !.nodes[n].deleting = TRUE]
<1>1. r \in NodeType /\ r.kind # "none" /\ r.appended \subseteq ToSet(r.data) /\ r.deleting
  BY NodeIs, ZenonT(40) DEF NodeType
<1>2. g = [f EXCEPT !.nodes = [f.nodes EXCEPT ![n] = r]]
  OBVIOUS
<1>3. g.nodes[n] = r
  BY NodeIs DEF VolumeType
<1> HIDE DEF r, g
<1>4. Good(g, d, h) /\ NoMoreLoose(f, g) /\ g.names = f.names
  BY <1>1, <1>2, NodeIs, NodeChanged
<1> QED
  BY <1>1, <1>3, <1>4 DEF Loose, g

LEMMA ReadonlyGood ==
    ASSUME NEW f, NEW d, NEW h, Good(f, d, h), NEW n \in NamedIn(f) \cup HeldBy(d, h), NEW b \in BOOLEAN
    PROVE  LET g == [f EXCEPT !.nodes[n].readonly = b]
           IN  Good(g, d, h) /\ NoMoreLoose(f, g)
<1> DEFINE r == [f.nodes[n] EXCEPT !.readonly = b]
           g == [f EXCEPT !.nodes[n].readonly = b]
<1>1. /\ r \in NodeType /\ r.kind # "none" /\ r.appended \subseteq ToSet(r.data)
      /\ r.kind = f.nodes[n].kind /\ r.by = f.nodes[n].by /\ r.deleting = f.nodes[n].deleting
  BY NodeIs DEF NodeType
<1>2. g = [f EXCEPT !.nodes = [f.nodes EXCEPT ![n] = r]]
  OBVIOUS
<1> HIDE DEF r, g
<1>4. Good(g, d, h) /\ NoMoreLoose(f, g)
  BY <1>1, <1>2, NodeIs, NodeChanged
<1> QED
  BY <1>4 DEF g

LEMMA JunctionGood ==
    ASSUME NEW f, NEW d, NEW h, Good(f, d, h), NEW n \in NamedIn(f) \cup HeldBy(d, h)
    PROVE  LET g == [f EXCEPT !.nodes[n].kind = "junction"]
           IN  Good(g, d, h) /\ NoMoreLoose(f, g) /\ g.names = f.names /\ \A p \in Paths : Loose(g, p) => f.names[p] # n
<1> DEFINE r == [f.nodes[n] EXCEPT !.kind = "junction"]
           g == [f EXCEPT !.nodes[n].kind = "junction"]
<1>0. "junction" \in Kinds
  BY DEF Kinds
<1>1. r \in NodeType /\ r.kind = "junction" /\ r.appended \subseteq ToSet(r.data)
  BY <1>0, NodeIs DEF NodeType
<1>2. g = [f EXCEPT !.nodes = [f.nodes EXCEPT ![n] = r]]
  OBVIOUS
<1>3. g.nodes[n] = r
  BY NodeIs DEF VolumeType
<1> HIDE DEF r, g
<1>4. Good(g, d, h) /\ NoMoreLoose(f, g) /\ g.names = f.names
  BY <1>1, <1>2, NodeIs, NodeChanged
<1> QED
  BY <1>1, <1>3, <1>4 DEF Loose, g

\* Data are replaced, and nothing of what was appended is promised any longer, or all of it still is.
LEMMA DataGood ==
    ASSUME NEW f, NEW d, NEW h, Good(f, d, h), NEW n \in NamedIn(f) \cup HeldBy(d, h),
           NEW data \in Seq(Int), NEW appended \in SUBSET Int, appended \subseteq ToSet(data)
    PROVE  LET g == [f EXCEPT !.nodes[n].data = data, !.nodes[n].appended = appended]
           IN  Good(g, d, h) /\ NoMoreLoose(f, g)
<1> DEFINE r == [f.nodes[n] EXCEPT !.data = data, !.appended = appended]
           g == [f EXCEPT !.nodes[n].data = data, !.nodes[n].appended = appended]
<1>1. /\ r \in NodeType /\ r.kind # "none" /\ r.data = data /\ r.appended = appended
      /\ r.kind = f.nodes[n].kind /\ r.by = f.nodes[n].by /\ r.deleting = f.nodes[n].deleting
  <2> DEFINE o == f.nodes[n]
  <2>1. o \in NodeType /\ o.kind # "none"
    BY NodeIs
  <2> HIDE DEF o
  <2>2. [o EXCEPT !.data = data, !.appended = appended] \in NodeType
    BY <2>1 DEF NodeType
  <2>3. LET x == [o EXCEPT !.data = data, !.appended = appended]
        IN  x.kind = o.kind /\ x.by = o.by /\ x.deleting = o.deleting /\ x.data = data /\ x.appended = appended
    BY <2>1 DEF NodeType
  <2> QED
    BY <2>1, <2>2, <2>3 DEF o
<1>2. g = [f EXCEPT !.nodes = [f.nodes EXCEPT ![n] = r]]
  BY NodeIs DEF VolumeType
<1> HIDE DEF r, g
<1>4. Good(g, d, h) /\ NoMoreLoose(f, g)
  BY <1>1, <1>2, NodeIs, NodeChanged
<1> QED
  BY <1>4 DEF g

LEMMA WrittenIs ==
    ASSUME NEW data \in Seq(Int), NEW at \in Nat, NEW x \in Int
    PROVE  /\ Written(data, at, x) \in Seq(Int)
           /\ at = Len(data) => ToSet(data) \cup {x} \subseteq ToSet(Written(data, at, x))
<1> DEFINE k == IF at > Len(data) THEN at - Len(data) ELSE 0
           zeros == [i \in 1..k |-> 0]
           all == data \o zeros
           before == SubSeq(all, 1, at)
           after == SubSeq(data, at + 2, Len(data))
<1>1. Len(data) \in Nat /\ k \in Nat /\ Len(data) + k >= at
  OBVIOUS
<1>2. zeros \in Seq(Int) /\ Len(zeros) = k
  <2> HIDE DEF k
  <2> QED
    BY <1>1
<1> HIDE DEF k, zeros
<1>3. all \in Seq(Int) /\ Len(all) = Len(data) + k /\ \A i \in 1..Len(data) : all[i] = data[i]
  BY <1>1, <1>2
<1> HIDE DEF all
<1>4. before \in Seq(Int) /\ Len(before) = at /\ \A i \in 1..at : before[i] = all[i]
  <2>1. \A i \in 1..at : all[i] \in Int
    BY <1>1, <1>3
  <2>2. before \in Seq(Int) /\ Len(before) = (IF 1 <= at THEN at - 1 + 1 ELSE 0)
        /\ \A i \in 1..at - 1 + 1 : before[i] = all[1 + i - 1]
    BY <2>1, SubSeqProperties
  <2> HIDE DEF before
  <2> QED
    BY <2>2
<1>5. after \in Seq(Int)
  <2>1. \A i \in at + 2..Len(data) : data[i] \in Int
    OBVIOUS
  <2> QED
    BY <2>1, <1>1, SubSeqProperties
<1>6. Written(data, at, x) = before \o <<x>> \o after
  BY DEF Written, zeros, k, all
<1> HIDE DEF before, after
<1>7. before \o <<x>> \in Seq(Int) /\ Len(before \o <<x>>) = at + 1 /\ (before \o <<x>>)[at + 1] = x
      /\ \A i \in 1..at : (before \o <<x>>)[i] = before[i]
  <2>1. <<x>> \in Seq(Int) /\ Len(<<x>>) = 1 /\ <<x>>[1] = x
    OBVIOUS
  <2> DEFINE s == <<x>>
  <2> HIDE DEF s
  <2>2. s \in Seq(Int) /\ Len(s) = 1 /\ s[1] = x
    BY <2>1 DEF s
  <2>3. before \o s \in Seq(Int) /\ Len(before \o s) = at + 1 /\ (before \o s)[at + 1] = x
        /\ \A i \in 1..at : (before \o s)[i] = before[i]
    <3>1. at + 1 = Len(before) + 1
      BY <1>4
    <3> HIDE DEF before
    <3>2. before \o s \in Seq(Int) /\ Len(before \o s) = Len(before) + Len(s)
          /\ \A i \in 1..Len(before) + Len(s) :
                (before \o s)[i] = IF i <= Len(before) THEN before[i] ELSE s[i - Len(before)]
      BY <1>4, <2>2, ConcatProperties
    <3> QED
      BY <3>1, <3>2, <1>4, <2>2
  <2> QED
    BY <2>3 DEF s
<1> DEFINE w == before \o <<x>>
<1> HIDE DEF w
<1>8. w \in Seq(Int) /\ Len(w) = at + 1 /\ w[at + 1] = x /\ \A i \in 1..at : w[i] = before[i]
  BY <1>7 DEF w
<1>9. w \o after \in Seq(Int) /\ Len(w \o after) >= at + 1 /\ \A i \in 1..at + 1 : (w \o after)[i] = w[i]
  BY <1>5, <1>8
<1>10. Written(data, at, x) = w \o after
  BY <1>6 DEF w
<1>11. ASSUME at = Len(data), NEW y \in ToSet(data) \cup {x}
       PROVE  y \in ToSet(w \o after)
  <2>1. \A i \in 1..at + 1 : (w \o after)[i] \in ToSet(w \o after)
    <3>1. DOMAIN (w \o after) = 1..Len(w \o after) /\ Len(w \o after) \in Nat
      BY <1>9
    <3> DEFINE z == w \o after
    <3> HIDE DEF z
    <3>2. DOMAIN z = 1..Len(z) /\ Len(z) \in Nat /\ Len(z) >= at + 1
      BY <3>1, <1>9 DEF z
    <3>3. \A i \in 1..at + 1 : i \in DOMAIN z
      BY <3>2
    <3>4. \A i \in DOMAIN z : z[i] \in ToSet(z)
      BY DEF ToSet
    <3> QED
      BY <3>3, <3>4 DEF z
  <2>2. CASE y = x
    BY <2>1, <2>2, <1>8, <1>9
  <2>3. CASE y \in ToSet(data)
    <3>1. PICK i \in 1..at : data[i] = y
      BY <2>3, <1>11 DEF ToSet
    <3>2. (w \o after)[i] = y
      BY <3>1, <1>3, <1>4, <1>8, <1>9, <1>11
    <3>3. i \in 1..at + 1
      OBVIOUS
    <3> QED
      BY <2>1, <3>2, <3>3
  <2> QED
    BY <1>11, <2>2, <2>3
<1> QED
  BY <1>9, <1>10, <1>11

LEMMA EmptySet == << >> \in Seq(Int) /\ {} \in SUBSET Int /\ {} \subseteq ToSet(<< >>)
  OBVIOUS

LEMMA TruncatedGood ==
    ASSUME NEW d, NEW h, Good(fs, d, h), NEW n \in NamedIn(fs) \cup HeldBy(d, h)
    PROVE  Good(Truncated(n), d, h) /\ NoMoreLoose(fs, Truncated(n))
  BY EmptySet, DataGood DEF Truncated

LEMMA WriteGood ==
    ASSUME NEW h, Good(fs, fds, h), NEW fd \in Fds, fds[fd] # NoFd, NEW at \in Nat, NEW x \in Int
    PROVE  Good(WriteAt(fds[fd], at, x), fds, h) /\ NoMoreLoose(fs, WriteAt(fds[fd], at, x))
           /\ PosAfter(fds[fd], at) \in Nat
<1> DEFINE d == fds[fd]
           n == d.node
           node == fs.nodes[n]
           appends == "write" \notin d.access
           data == Written(node.data, IF appends THEN Len(node.data) ELSE at, x)
           appended == IF "append" \in d.access THEN node.appended \cup {x} ELSE {}
<1>1. d \in [node : Nodes \cup {0}, access : SUBSET {"read", "write", "append"}, pos : Nat] /\ d.node # 0
      /\ ("append" \in d.access => "write" \notin d.access)
  BY DEF Good, Sound, FdType
<1>2. n \in HeldBy(fds, h)
  BY <1>1 DEF HeldBy
<1>3. n \in Nodes /\ node \in NodeType /\ node.appended \subseteq ToSet(node.data) /\ fs \in VolumeType
  BY <1>2, NodeIs
<1>4. node.data \in Seq(Int) /\ node.appended \in SUBSET Int /\ Len(node.data) \in Nat
  BY <1>3 DEF NodeType
<1>5. data \in Seq(Int) /\ appended \in SUBSET Int /\ appended \subseteq ToSet(data)
  <2> HIDE DEF node, d
  <2>1. CASE "append" \in d.access
    <3>1. appends
      BY <2>1, <1>1 DEF d
    <3> QED
      BY <2>1, <3>1, <1>3, <1>4, WrittenIs
  <2>2. CASE "append" \notin d.access
    BY <2>2, <1>4, WrittenIs
  <2> QED
    BY <2>1, <2>2
<1>6. WriteAt(d, at, x) = [fs EXCEPT !.nodes[n].data = data, !.nodes[n].appended = appended]
  <2>1. WriteAt(d, at, x) = [fs EXCEPT !.nodes[n].data = data,
                                       !.nodes[n].appended = IF "append" \in d.access THEN @ \cup {x} ELSE {}]
    BY DEF WriteAt
  <2>2. \A z : [fs EXCEPT !.nodes[n].data = z, !.nodes[n].appended = IF "append" \in d.access THEN @ \cup {x} ELSE {}]
               = [fs EXCEPT !.nodes[n].data = z, !.nodes[n].appended = appended]
    <3> HIDE DEF d, n
    <3>1. fs.nodes[n] \in NodeType /\ fs \in VolumeType /\ n \in Nodes
      BY <1>3
    <3>2. ASSUME NEW z PROVE [fs.nodes[n] EXCEPT !.data = z].appended = fs.nodes[n].appended
      BY <3>1 DEF NodeType
    <3> QED
      BY <3>1, <3>2 DEF VolumeType
  <2> QED
    BY <2>1, <2>2
<1> HIDE DEF data, appended, n, node
<1>7. Good(WriteAt(d, at, x), fds, h) /\ NoMoreLoose(fs, WriteAt(d, at, x))
  <2> HIDE DEF d
  <2>1. n \in NamedIn(fs) \cup HeldBy(fds, h)
    BY <1>2
  <2> DEFINE g == [fs EXCEPT !.nodes[n].data = data, !.nodes[n].appended = appended]
  <2>2. Good(g, fds, h) /\ NoMoreLoose(fs, g)
    BY <2>1, <1>5, DataGood
  <2> QED
    BY <2>2, <1>6
<1>8. PosAfter(d, at) \in Nat
  <2>1. Len(fs.nodes[d.node].data) \in Nat
    BY <1>4 DEF node, n
  <2> DEFINE l == Len(fs.nodes[d.node].data)
  <2>2. PosAfter(d, at) = IF "write" \in d.access THEN at + 1 ELSE l + 1
    BY DEF PosAfter
  <2>4. l \in Nat
    BY <2>1
  <2> HIDE DEF l
  <2>3. l + 1 \in Nat /\ at + 1 \in Nat
    BY <2>4
  <2> QED
    BY <2>2, <2>3
<1> QED
  BY <1>7, <1>8

\* A directory that is to go, at once or with its last handle.
LEMMA RmdirGood ==
    ASSUME FilesInv, NEW p \in Paths, Exists(p)
    PROVE  Good(RmdirNow(p), fds, Handles(calls)) /\ NoMoreLoose(fs, RmdirNow(p)) /\ ~Loose(RmdirNow(p), p)
<1> DEFINE h == Handles(calls)
           n == fs.names[p]
<1>1. Good(fs, fds, h) /\ fs.names \in [Paths -> Nodes \cup {0}] /\ n # 0
  BY DEF FilesInv, Good, Sound, VolumeType, Exists, NodeOf
<1>2. n \in NamedIn(fs)
  BY <1>1 DEF NamedIn
<1>3. CASE HoldersOf(n) = {}
  <2> DEFINE M == [fs.names EXCEPT ![p] = 0]
             k == [fs EXCEPT !.names = M]
  <2>1. M \in [Paths -> Nodes \cup {0}] /\ M[p] = 0 /\ \A q \in Paths : M[q] \in {0, fs.names[q]}
    BY <1>1
  <2>2. RmdirNow(p) = Collected(k, Held("none"))
    BY <1>3 DEF RmdirNow, NodeOf
  <2> HIDE DEF M, k
  <2>3. Sound(k, fds, h) /\ NoMoreLoose(fs, k) /\ k.names = M
    BY <1>1, <2>1, NamesGone DEF Good, k
  <2>4. Good(RmdirNow(p), fds, h) /\ NoMoreLoose(k, RmdirNow(p)) /\ RmdirNow(p).names = M
    BY <2>2, <2>3, HeldByAll, CollectedGood
  <2>5. ~Loose(RmdirNow(p), p)
    BY <2>1, <2>4 DEF Loose
  <2> QED
    BY <2>3, <2>4, <2>5, LooseAgain
<1>4. CASE HoldersOf(n) # {}
  <2>1. RmdirNow(p) = [fs EXCEPT !.nodes[n].deleting = TRUE]
    BY <1>4 DEF RmdirNow, NodeOf
  <2> HIDE DEF n, h
  <2>2. Good(RmdirNow(p), fds, h) /\ NoMoreLoose(fs, RmdirNow(p)) /\ ~Loose(RmdirNow(p), p)
    <3>1. fs.names[p] = n
      BY DEF n
    <3> QED
      BY <1>1, <1>2, <2>1, <3>1, MarkGood
  <2> QED
    BY <2>2 DEF h
<1> QED
  BY <1>3, <1>4

-----------------------------------------------------------------------------
(* Calls. *)

\* A call is given the same, and goes on.
Same(c, d) ==
    /\ d = [x \in DOMAIN d |-> d[x]] /\ DOMAIN d = DOMAIN c /\ d.op = c.op
    /\ "path" \in DOMAIN c => d.path = c.path
    /\ "new" \in DOMAIN c => d.new = c.new
    /\ "fd" \in DOMAIN c => d.fd = c.fd
    /\ "flags" \in DOMAIN c => d.flags = c.flags
    /\ "readonly" \in DOMAIN c => d.readonly = c.readonly
    /\ "offset" \in DOMAIN c => d.offset = c.offset
    /\ "nbufs" \in DOMAIN c => d.nbufs = c.nbufs
    /\ "id" \in DOMAIN c => d.id = c.id

\* What it is at, and what it holds.
Is(d, pc, h, again, mem, ptr, free, dir, bytes, saved) ==
    /\ d.pc = pc /\ d.h = h /\ d.again = again /\ d.mem = mem /\ d.ptr = ptr /\ d.free = free /\ d.dir = dir
    /\ d.bytes = bytes /\ d.saved = saved

LEMMA FieldsAre ==
    DOMAIN NoCall = {"op", "pc", "h", "again", "mem", "ptr", "free", "saved", "index", "bytes", "rest", "dir", "tries",
                     "result"}
  BY DEF NoCall

LEMMA GotoIs ==
    ASSUME NEW c, CallOk(c), NEW pc
    PROVE  LET d == [c EXCEPT !.pc = pc]
           IN  Same(c, d) /\ Is(d, pc, c.h, c.again, c.mem, c.ptr, c.free, c.dir, c.bytes, c.saved)
  BY FieldsAre DEF CallOk, Same, Is

LEMMA OpenIs ==
    ASSUME NEW c, CallOk(c), NEW pc, NEW n
    PROVE  LET d == [c EXCEPT !.h = n, !.pc = pc]
           IN  Same(c, d) /\ Is(d, pc, n, c.again, c.mem, c.ptr, c.free, c.dir, c.bytes, c.saved)
  BY FieldsAre DEF CallOk, Same, Is

LEMMA ShutIs ==
    ASSUME NEW c, CallOk(c), NEW pc, NEW n, NEW m
    PROVE  LET d == [c EXCEPT !.h = n, !.mem = m, !.pc = pc]
           IN  Same(c, d) /\ Is(d, pc, n, c.again, m, c.ptr, c.free, c.dir, c.bytes, c.saved)
  BY FieldsAre DEF CallOk, Same, Is

LEMMA AgainIs ==
    ASSUME NEW c, CallOk(c), NEW pc, NEW n
    PROVE  LET d == [c EXCEPT !.again = n, !.pc = pc]
           IN  Same(c, d) /\ Is(d, pc, c.h, n, c.mem, c.ptr, c.free, c.dir, c.bytes, c.saved)
  BY FieldsAre DEF CallOk, Same, Is

LEMMA MemIs ==
    ASSUME NEW c, CallOk(c), NEW pc, NEW m
    PROVE  /\ LET d == [c EXCEPT !.mem = m, !.pc = pc]
              IN  Same(c, d) /\ Is(d, pc, c.h, c.again, m, c.ptr, c.free, c.dir, c.bytes, c.saved)
           /\ LET d == [c EXCEPT !.pc = pc, !.mem = m]
              IN  Same(c, d) /\ Is(d, pc, c.h, c.again, m, c.ptr, c.free, c.dir, c.bytes, c.saved)
<1>1. LET d == [c EXCEPT !.mem = m, !.pc = pc]
      IN  Same(c, d) /\ Is(d, pc, c.h, c.again, m, c.ptr, c.free, c.dir, c.bytes, c.saved)
  BY FieldsAre DEF CallOk, Same, Is
<1>2. LET d == [c EXCEPT !.pc = pc, !.mem = m]
      IN  Same(c, d) /\ Is(d, pc, c.h, c.again, m, c.ptr, c.free, c.dir, c.bytes, c.saved)
  BY FieldsAre DEF CallOk, Same, Is
<1> QED
  BY <1>1, <1>2

LEMMA BufferIs ==
    ASSUME NEW c, CallOk(c), NEW ok, NEW n
    PROVE  LET d == AfterBuffer(c, ok, n)
           IN  /\ Same(c, d) /\ d.pc \in {"io", "restore"}
               /\ Is(d, d.pc, c.h, c.again, c.mem, c.ptr, c.free, c.dir, c.bytes + n, c.saved)
<1> DEFINE pc == IF ok /\ c.index + 1 < c.nbufs THEN "io" ELSE "restore"
           i == c.index + 1
           d == [c EXCEPT !.index = @ + 1, !.bytes = @ + n, !.pc = pc]
<1>1. AfterBuffer(c, ok, n) = d
  BY DEF AfterBuffer
<1>2. pc \in {"io", "restore"}
  OBVIOUS
<1> HIDE DEF pc
<1>3. Same(c, d) /\ Is(d, pc, c.h, c.again, c.mem, c.ptr, c.free, c.dir, c.bytes + n, c.saved)
  BY FieldsAre DEF CallOk, Same, Is
<1>4. d.pc = pc
  BY <1>3 DEF Is
<1> QED
  BY <1>1, <1>2, <1>3, <1>4

LEMMA SavedIs ==
    ASSUME NEW c, CallOk(c), NEW pc, NEW s
    PROVE  /\ LET d == [c EXCEPT !.pc = pc, !.saved = s]
              IN  Same(c, d) /\ Is(d, pc, c.h, c.again, c.mem, c.ptr, c.free, c.dir, c.bytes, s)
           /\ LET d == [c EXCEPT !.saved = s, !.pc = pc]
              IN  Same(c, d) /\ Is(d, pc, c.h, c.again, c.mem, c.ptr, c.free, c.dir, c.bytes, s)
<1>1. LET d == [c EXCEPT !.pc = pc, !.saved = s]
      IN  Same(c, d) /\ Is(d, pc, c.h, c.again, c.mem, c.ptr, c.free, c.dir, c.bytes, s)
  BY FieldsAre DEF CallOk, Same, Is
<1>2. LET d == [c EXCEPT !.saved = s, !.pc = pc]
      IN  Same(c, d) /\ Is(d, pc, c.h, c.again, c.mem, c.ptr, c.free, c.dir, c.bytes, s)
  BY FieldsAre DEF CallOk, Same, Is
<1> QED
  BY <1>1, <1>2

LEMMA EntriesAre ==
    ASSUME NEW c, CallOk(c), NEW pc, NEW r, NEW m
    PROVE  /\ LET d == [c EXCEPT !.pc = pc, !.rest = r, !.dir = TRUE]
              IN  Same(c, d) /\ Is(d, pc, c.h, c.again, c.mem, c.ptr, c.free, TRUE, c.bytes, c.saved)
           /\ LET d == [c EXCEPT !.rest = r, !.mem = m]
              IN  Same(c, d) /\ Is(d, c.pc, c.h, c.again, m, c.ptr, c.free, c.dir, c.bytes, c.saved)
<1>1. LET d == [c EXCEPT !.pc = pc, !.rest = r, !.dir = TRUE]
      IN  Same(c, d) /\ Is(d, pc, c.h, c.again, c.mem, c.ptr, c.free, TRUE, c.bytes, c.saved)
  BY FieldsAre DEF CallOk, Same, Is
<1>2. LET d == [c EXCEPT !.rest = r, !.mem = m]
      IN  Same(c, d) /\ Is(d, c.pc, c.h, c.again, m, c.ptr, c.free, c.dir, c.bytes, c.saved)
  BY FieldsAre DEF CallOk, Same, Is
<1> QED
  BY <1>1, <1>2

LEMMA BytesAre ==
    ASSUME NEW c, CallOk(c), NEW pc, NEW n, NEW i
    PROVE  /\ LET d == [c EXCEPT !.bytes = n, !.pc = pc]
              IN  Same(c, d) /\ Is(d, pc, c.h, c.again, c.mem, c.ptr, c.free, c.dir, n, c.saved)
           /\ LET d == [c EXCEPT !.tries = i]
              IN  Same(c, d) /\ Is(d, c.pc, c.h, c.again, c.mem, c.ptr, c.free, c.dir, c.bytes, c.saved)
<1>1. LET d == [c EXCEPT !.bytes = n, !.pc = pc]
      IN  Same(c, d) /\ Is(d, pc, c.h, c.again, c.mem, c.ptr, c.free, c.dir, n, c.saved)
  BY FieldsAre DEF CallOk, Same, Is
<1>2. LET d == [c EXCEPT !.tries = i]
      IN  Same(c, d) /\ Is(d, c.pc, c.h, c.again, c.mem, c.ptr, c.free, c.dir, c.bytes, c.saved)
  BY FieldsAre DEF CallOk, Same, Is
<1> QED
  BY <1>1, <1>2

\* A call that has ended, and holds nothing.
EndedCall(d) ==
    /\ d = [x \in DOMAIN d |-> d[x]] /\ DOMAIN d = DOMAIN NoCall /\ d.op = "none" /\ d.pc = "idle" /\ d.bytes = 0 /\ d.saved = -1
    /\ d.h = 0 /\ d.again = 0 /\ d.mem = 0 /\ ~d.dir /\ (d.ptr <=> d.free)

LEMMA EndedIsOk == ASSUME NEW d, EndedCall(d) PROVE CallOk(d) /\ ~UsesFd(d) /\ \A p, n : ~Undoes(d, p, n)
<1>1. Parameters(d)
  BY DEF EndedCall, Parameters
<1>2. ~HasHandle(d)
  BY DEF EndedCall, HasHandle
<1>3. Holds(d)
  BY <1>2 DEF EndedCall, Holds
<1>4. ~UsesFd(d) /\ \A p, n : ~Undoes(d, p, n)
  BY DEF EndedCall, UsesFd, Undoes
<1> QED
  BY <1>1, <1>3, <1>4 DEF EndedCall, CallOk

LEMMA FinishedIs ==
    ASSUME NEW c, CallOk(c), NEW r
    PROVE  LET d == Finished(c, r)
           IN  /\ d = [x \in DOMAIN d |-> d[x]] /\ DOMAIN d = DOMAIN NoCall /\ d.op = "none"
               /\ Is(d, "idle", c.h, c.again, c.mem, c.ptr, c.free, c.dir, 0, -1)
  BY FieldsAre, ZenonT(40) DEF Finished, NoCall, Is

LEMMA CallEndsAre ==
    ASSUME NEW c, CallOk(c), NEW r, c.again = 0
    PROVE  LET d == Finished(c, r)
           IN  /\ c.h = 0 /\ c.mem = 0 /\ ~c.dir => EndedCall(d)
               /\ c.mem = 0 /\ ~c.dir => EndedCall([d EXCEPT !.h = 0])
               /\ ~c.dir => EndedCall([d EXCEPT !.h = 0, !.mem = 0])
               /\ ~c.dir => EndedCall([d EXCEPT !.h = 0, !.mem = 0, !.ptr = TRUE, !.free = TRUE])
               /\ c.h = 0 /\ ~c.dir => EndedCall([d EXCEPT !.mem = 0])
               /\ c.h = 0 => EndedCall([d EXCEPT !.dir = FALSE, !.mem = 0])
               /\ c.h = 0 => \A b \in BOOLEAN : EndedCall([d EXCEPT !.dir = FALSE, !.mem = 0, !.ptr = b, !.free = b])
<1> DEFINE d == Finished(c, r)
<1>1. /\ d = [x \in DOMAIN d |-> d[x]] /\ DOMAIN d = DOMAIN NoCall /\ d.op = "none"
      /\ Is(d, "idle", c.h, c.again, c.mem, c.ptr, c.free, c.dir, 0, -1)
  BY FinishedIs
<1>2. c.ptr <=> c.free
  BY DEF CallOk, Holds
<1> HIDE DEF d
<1>3. c.h = 0 /\ c.mem = 0 /\ ~c.dir => EndedCall(d)
  BY <1>1, <1>2 DEF EndedCall, Is
<1>4. c.mem = 0 /\ ~c.dir => EndedCall([d EXCEPT !.h = 0])
  BY <1>1, <1>2, FieldsAre DEF EndedCall, Is
<1>5. ~c.dir => EndedCall([d EXCEPT !.h = 0, !.mem = 0])
  BY <1>1, <1>2, FieldsAre DEF EndedCall, Is
<1>6. ~c.dir => EndedCall([d EXCEPT !.h = 0, !.mem = 0, !.ptr = TRUE, !.free = TRUE])
  BY <1>1, <1>2, FieldsAre DEF EndedCall, Is
<1>7. c.h = 0 /\ ~c.dir => EndedCall([d EXCEPT !.mem = 0])
  BY <1>1, <1>2, FieldsAre DEF EndedCall, Is
<1>8. c.h = 0 => EndedCall([d EXCEPT !.dir = FALSE, !.mem = 0])
  BY <1>1, <1>2, FieldsAre DEF EndedCall, Is
<1>9. c.h = 0 => \A b \in BOOLEAN : EndedCall([d EXCEPT !.dir = FALSE, !.mem = 0, !.ptr = b, !.free = b])
  BY <1>1, <1>2, FieldsAre DEF EndedCall, Is
<1> QED
  BY <1>3, <1>4, <1>5, <1>6, <1>7, <1>8, <1>9 DEF d

LEMMA SameIsOk ==
    ASSUME NEW c, CallOk(c), c.pc # "idle", NEW d, Same(c, d),
           NEW pc, NEW h, NEW again, NEW mem, NEW ptr, NEW free, NEW dir, NEW bytes \in Nat, NEW saved \in Int,
           Is(d, pc, h, again, mem, ptr, free, dir, bytes, saved), pc # "idle",
           c.op \in {"read", "write"} => saved \in Nat \cup {-1},
           pc \in {"io", "restore"} => c.op \in {"read", "write"},
           Holds(d)
    PROVE  CallOk(d) /\ Used(d) = Used(c) /\ d.op = c.op
<1>1. Parameters(d)
  BY DEF CallOk, Same, Parameters
<1>2. Used(d) = Used(c)
  <2>1. CASE "fd" \in DOMAIN c
    <3>1. \A x \in {"fd", "new"} \cap DOMAIN c : d[x] = c[x]
      BY DEF Same
    <3>2. Used(d) = {d[x] : x \in {"fd", "new"} \cap DOMAIN c} /\ Used(c) = {c[x] : x \in {"fd", "new"} \cap DOMAIN c}
      BY <2>1 DEF Same, Used
    <3> QED
      BY <3>1, <3>2
  <2>2. CASE "fd" \notin DOMAIN c
    BY <2>2 DEF Same, Used
  <2> QED
    BY <2>1, <2>2
<1>3. d.pc = pc /\ d.bytes = bytes /\ d.saved = saved
  BY DEF Is
<1> QED
  BY <1>1, <1>2, <1>3 DEF CallOk, Same

-----------------------------------------------------------------------------
(* A step of a call. *)

LEMMA NowIs ==
    ASSUME FilesInv, NEW t \in FsThreads, NEW d, Now(t, d)
    PROVE  /\ calls' = [u \in FsThreads |-> calls'[u]] /\ calls'[t] = d /\ \A u \in FsThreads : u # t => calls'[u] = calls[u]
           /\ Handles(calls') = [Handles(calls) EXCEPT ![t] = d.h]
<1>1. calls = [u \in FsThreads |-> calls[u]] /\ calls' = [calls EXCEPT ![t] = d]
  BY DEF FilesInv, Now
<1>2. /\ calls' = [u \in FsThreads |-> calls'[u]] /\ calls'[t] = d /\ \A u \in FsThreads : u # t => calls'[u] = calls[u]
  BY <1>1
<1>3. Handles(calls') = [Handles(calls) EXCEPT ![t] = d.h]
  BY <1>2 DEF Handles
<1> QED
  BY <1>2, <1>3

LEMMA FdIsUsed ==
    ASSUME NEW c, CallOk(c), UsesFd(c) \/ (c.op = "close" /\ c.pc # "idle")
    PROVE  "fd" \in DOMAIN c /\ c.fd \in Used(c) /\ c.fd \in Fds /\ c.pc # "idle"
<1>1. c.op \in {"read", "write", "sendfile", "fchmod", "close"} /\ c.pc # "idle"
  BY DEF UsesFd, CallOk
<1>2. "fd" \in DOMAIN c /\ c.fd \in Fds
  BY <1>1 DEF CallOk, Parameters
<1> QED
  BY <1>1, <1>2 DEF Used

\* What a step of a call has to keep, for the invariant to hold after it.
LEMMA StepKeeps ==
    ASSUME FilesInv, NEW t \in FsThreads, calls[t].pc # "idle", NEW d, Now(t, d), CallOk(d),
           d.pc # "idle" => d.op = calls[t].op /\ Used(d) = Used(calls[t]),
           Good(fs', fds', [Handles(calls) EXCEPT ![t] = d.h]),
           \A p \in Paths : Loose(fs', p) => \/ Undoes(d, p, fs'.names[p])
                                             \/ /\ Loose(fs, p) /\ fs'.names[p] = fs.names[p]
                                                /\ ~Undoes(calls[t], p, fs.names[p]),
           UsesFd(d) => fds'[d.fd] # NoFd,
           \A fd \in Fds : fds'[fd] = NoFd => fds[fd] = NoFd \/ (calls[t].op = "close" /\ fd = calls[t].fd),
           menu' = menu, made' = made
    PROVE  FilesInv'
<1> DEFINE c == calls[t]
<1>1. /\ calls' = [u \in FsThreads |-> calls'[u]] /\ calls'[t] = d /\ \A u \in FsThreads : u # t => calls'[u] = calls[u]
      /\ Handles(calls') = [Handles(calls) EXCEPT ![t] = d.h]
  BY NowIs
<1>2. \A u \in FsThreads : CallOk(calls'[u]) /\ CallOk(calls[u])
  BY <1>1 DEF FilesInv
<1>3. Undone(fs', calls')
  <2> SUFFICES ASSUME NEW p \in Paths, Loose(fs', p), ~Undoes(d, p, fs'.names[p])
               PROVE  \E u \in FsThreads : Undoes(calls'[u], p, fs'.names[p])
    BY <1>1 DEF Undone
  <2>1. Loose(fs, p) /\ fs'.names[p] = fs.names[p] /\ ~Undoes(calls[t], p, fs.names[p])
    OBVIOUS
  <2>2. PICK u \in FsThreads : Undoes(calls[u], p, fs.names[p])
    BY <2>1 DEF FilesInv, Undone
  <2>3. u # t
    BY <2>1, <2>2
  <2> QED
    BY <2>1, <2>2, <2>3, <1>1
<1>4. ASSUME NEW u \in FsThreads, UsesFd(calls'[u]) PROVE fds'[calls'[u].fd] # NoFd
  <2>1. CASE u = t
    BY <1>4, <2>1, <1>1
  <2>2. CASE u # t
    <3>1. calls'[u] = calls[u]
      BY <2>2, <1>1
    <3>2. fds[calls[u].fd] # NoFd
      BY <1>4, <3>1 DEF FilesInv, FdsInUse
    <3>3. calls[u].fd \in Used(calls[u]) /\ calls[u].fd \in Fds /\ calls[u].pc # "idle"
      BY <1>4, <3>1, <1>2, FdIsUsed
    <3>4. calls[t].op = "close" => calls[t].fd \in Used(calls[t]) /\ Used(calls[t]) \cap Used(calls[u]) = {}
      BY <1>2, <2>2, <3>3, FdIsUsed DEF FilesInv, FdsInUse
    <3> QED
      BY <3>1, <3>2, <3>3, <3>4
  <2> QED
    BY <2>1, <2>2
<1>5. ASSUME NEW u \in FsThreads, NEW v \in FsThreads, u # v, calls'[u].pc # "idle", calls'[v].pc # "idle",
             "close" \in {calls'[u].op, calls'[v].op}
      PROVE  Used(calls'[u]) \cap Used(calls'[v]) = {}
  <2>1. \A w \in FsThreads : calls'[w].pc # "idle" =>
              calls[w].pc # "idle" /\ calls'[w].op = calls[w].op /\ Used(calls'[w]) = Used(calls[w])
    BY <1>1
  <2>2. Used(calls[u]) \cap Used(calls[v]) = {}
    BY <1>5, <2>1 DEF FilesInv, FdsInUse
  <2> QED
    BY <1>5, <2>1, <2>2
<1>6. FdsInUse(fds', calls')
  BY <1>4, <1>5 DEF FdsInUse
<1> QED
  BY <1>1, <1>2, <1>3, <1>6 DEF FilesInv

\* A call that is not making a junction.
Plainly(c) == c.pc # "idle" /\ ~(c.op = "symlink" /\ c.pc \in {"open", "set", "remove"})

LEMMA PlainlyIs == ASSUME NEW c, Plainly(c) PROVE c.pc # "idle" /\ \A p, n : ~Undoes(c, p, n)
  BY DEF Plainly, Undoes

LEMMA HandlesSame ==
    ASSUME NEW t \in FsThreads, NEW d, d.h = calls[t].h
    PROVE  [Handles(calls) EXCEPT ![t] = d.h] = Handles(calls)
  BY DEF Handles

\* A call goes on with the handle it has, or has not.
LEMMA StepGoesOn ==
    ASSUME FilesInv, NEW t \in FsThreads, Plainly(calls[t]), NEW d, Now(t, d), CallOk(d), d.op = calls[t].op,
           Used(d) = Used(calls[t]), d.h = calls[t].h,
           Good(fs', fds', Handles(calls)), NoMoreLoose(fs, fs'),
           UsesFd(d) => fds'[d.fd] # NoFd,
           \A fd \in Fds : fds'[fd] = NoFd => fds[fd] = NoFd,
           SameClient
    PROVE  FilesInv'
<1>1. Good(fs', fds', [Handles(calls) EXCEPT ![t] = d.h])
  BY HandlesSame
<1>2. calls[t].pc # "idle" /\ \A p, n : ~Undoes(calls[t], p, n)
  BY PlainlyIs
<1>3. menu' = menu /\ made' = made
  BY DEF SameClient
<1> QED
  BY <1>1, <1>2, <1>3, StepKeeps DEF NoMoreLoose

LEMMA StepGoesQuietly ==
    ASSUME FilesInv, NEW t \in FsThreads, Plainly(calls[t]), NEW d, Now(t, d), CallOk(d), d.op = calls[t].op,
           Used(d) = Used(calls[t]), d.h = calls[t].h,
           UsesFd(d) => fds[d.fd] # NoFd,
           SameVolume, SameClient
    PROVE  FilesInv'
<1>1. fs' = fs /\ fds' = fds
  BY DEF SameVolume
<1>2. Good(fs', fds', Handles(calls)) /\ NoMoreLoose(fs, fs')
  BY <1>1 DEF FilesInv, NoMoreLoose
<1> QED
  BY <1>1, <1>2, StepGoesOn

\* A call that has no handle ends.
LEMMA StepEnds ==
    ASSUME FilesInv, NEW t \in FsThreads, Plainly(calls[t]), calls[t].h = 0, NEW d, Now(t, d), EndedCall(d),
           Good(fs', fds', Handles(calls)), NoMoreLoose(fs, fs'),
           \A fd \in Fds : fds'[fd] = NoFd => fds[fd] = NoFd \/ (calls[t].op = "close" /\ fd = calls[t].fd),
           SameClient
    PROVE  FilesInv'
<1>0. d.h = calls[t].h /\ d.pc = "idle"
  BY DEF EndedCall
<1>1. Good(fs', fds', [Handles(calls) EXCEPT ![t] = d.h])
  BY <1>0, HandlesSame
<1>2. calls[t].pc # "idle" /\ \A p, n : ~Undoes(calls[t], p, n)
  BY PlainlyIs
<1>3. menu' = menu /\ made' = made
  BY DEF SameClient
<1>4. CallOk(d) /\ ~UsesFd(d)
  BY EndedIsOk
<1> QED
  BY <1>0, <1>1, <1>2, <1>3, <1>4, StepKeeps DEF NoMoreLoose

LEMMA StepEndsQuietly ==
    ASSUME FilesInv, NEW t \in FsThreads, Plainly(calls[t]), calls[t].h = 0, NEW d, Now(t, d), EndedCall(d),
           SameVolume, SameClient
    PROVE  FilesInv'
<1>1. fs' = fs /\ fds' = fds
  BY DEF SameVolume
<1>2. Good(fs', fds', Handles(calls)) /\ NoMoreLoose(fs, fs')
  BY <1>1 DEF FilesInv, NoMoreLoose
<1> QED
  BY <1>1, <1>2, StepEnds

\* A call closes its handle, and ends.
LEMMA StepCloses ==
    ASSUME FilesInv, NEW t \in FsThreads, Plainly(calls[t]), NEW d, Now(t, d), EndedCall(d),
           fs' = Closed(t, calls[t].h), UNCHANGED fds, SameClient
    PROVE  FilesInv'
<1>0. d.h = 0 /\ d.pc = "idle"
  BY DEF EndedCall
<1>1. Good(fs', fds', [Handles(calls) EXCEPT ![t] = d.h]) /\ NoMoreLoose(fs, fs')
  BY <1>0, ClosedByCall
<1>2. calls[t].pc # "idle" /\ \A p, n : ~Undoes(calls[t], p, n)
  BY PlainlyIs
<1>3. menu' = menu /\ made' = made
  BY DEF SameClient
<1>4. CallOk(d) /\ ~UsesFd(d)
  BY EndedIsOk
<1> QED
  BY <1>0, <1>1, <1>2, <1>3, <1>4, StepKeeps DEF NoMoreLoose

LEMMA CallIsOk == ASSUME FilesInv, NEW t \in FsThreads PROVE CallOk(calls[t])
  BY DEF FilesInv

LEMMA CloseAndFinishKeeps ==
    ASSUME FilesInv, NEW t \in FsThreads, Plainly(calls[t]), calls[t].again = 0, ~calls[t].dir, NEW r,
           CloseAndFinish(t, r), SameClient
    PROVE  FilesInv'
<1> DEFINE d == [Finished(calls[t], r) EXCEPT !.h = 0, !.mem = 0]
<1>1. EndedCall(d)
  BY CallIsOk, CallEndsAre
<1>2. Now(t, d) /\ fs' = Closed(t, calls[t].h) /\ UNCHANGED fds
  BY DEF CloseAndFinish
<1> QED
  BY <1>1, <1>2, StepCloses

LEMMA GiveResultKeeps ==
    ASSUME FilesInv, NEW t \in FsThreads, Plainly(calls[t]), calls[t].again = 0, ~calls[t].dir,
           GiveResult(t), SameClient
    PROVE  FilesInv'
<1> DEFINE d == [Finished(calls[t], "ok") EXCEPT !.h = 0, !.mem = 0, !.ptr = TRUE, !.free = TRUE]
<1>1. EndedCall(d)
  BY CallIsOk, CallEndsAre
<1>2. Now(t, d) /\ fs' = Closed(t, calls[t].h) /\ UNCHANGED fds
  BY DEF GiveResult
<1> QED
  BY <1>1, <1>2, StepCloses

\* A call that holds nothing at all ends.
LEMMA FinishKeeps ==
    ASSUME FilesInv, NEW t \in FsThreads, Plainly(calls[t]),
           calls[t].h = 0, calls[t].again = 0, calls[t].mem = 0, ~calls[t].dir, NEW r, Finish(t, r),
           Good(fs', fds', Handles(calls)), NoMoreLoose(fs, fs'),
           \A fd \in Fds : fds'[fd] = NoFd => fds[fd] = NoFd \/ (calls[t].op = "close" /\ fd = calls[t].fd),
           SameClient
    PROVE  FilesInv'
<1>1. EndedCall(Finished(calls[t], r))
  BY CallIsOk, CallEndsAre
<1>2. Now(t, Finished(calls[t], r))
  BY DEF Finish
<1> QED
  BY <1>1, <1>2, StepEnds

LEMMA FinishQuietlyKeeps ==
    ASSUME FilesInv, NEW t \in FsThreads, Plainly(calls[t]),
           calls[t].h = 0, calls[t].again = 0, calls[t].mem = 0, ~calls[t].dir, NEW r, Finish(t, r),
           SameVolume, SameClient
    PROVE  FilesInv'
<1>1. EndedCall(Finished(calls[t], r))
  BY CallIsOk, CallEndsAre
<1>2. Now(t, Finished(calls[t], r))
  BY DEF Finish
<1> QED
  BY <1>1, <1>2, StepEndsQuietly

\* At its start a call holds nothing.
LEMMA StartIs ==
    ASSUME FilesInv, NEW t \in FsThreads, calls[t].pc = "start"
    PROVE  calls[t].h = 0 /\ calls[t].again = 0 /\ calls[t].mem = 0 /\ ~calls[t].dir /\ ~calls[t].ptr /\ ~calls[t].free
           /\ Plainly(calls[t])
<1> DEFINE c == calls[t]
<1>1. Holds(c)
  BY CallIsOk DEF CallOk
<1> HIDE DEF c
<1>2. c.pc = "start"
  BY DEF c
<1>3. ~HasHandle(c) /\ ~HasMemory(c) /\ Plainly(c)
  BY <1>2 DEF HasHandle, HasMemory, Plainly
<1> QED
  BY <1>1, <1>2, <1>3 DEF Holds, c

\* What is one call of the kernel.
LEMMA AtOnceKeeps ==
    ASSUME FilesInv, NEW t \in FsThreads, calls[t].pc = "start", NEW ok, NEW result, AtOnce(t, ok, result),
           ok => Good(result, fds, Handles(calls)) /\ NoMoreLoose(fs, result),
           SameClient
    PROVE  FilesInv'
<1>1. calls[t].h = 0 /\ calls[t].again = 0 /\ calls[t].mem = 0 /\ ~calls[t].dir /\ Plainly(calls[t])
  BY StartIs
<1>2. CASE ok /\ fs' = result /\ Finish(t, "ok") /\ UNCHANGED fds
  BY <1>1, <1>2, FinishKeeps
<1>3. CASE Finish(t, "error") /\ SameVolume
  BY <1>1, <1>3, FinishQuietlyKeeps
<1> QED
  BY <1>2, <1>3 DEF AtOnce

-----------------------------------------------------------------------------
(* The steps of calls with a name. *)

PathOps == {"unlink", "utime", "stat", "lstat", "readlink", "realpath"}

LEMMA GotoKeeps ==
    ASSUME FilesInv, NEW t \in FsThreads, Plainly(calls[t]), calls[t].op \in PathOps, NEW p, Goto(t, p),
           p \notin {"idle", "io", "restore"}, Holds([calls[t] EXCEPT !.pc = p]),
           Good(fs', fds, Handles(calls)), NoMoreLoose(fs, fs'), UNCHANGED fds, SameClient
    PROVE  FilesInv'
<1> DEFINE c == calls[t]
           d == [c EXCEPT !.pc = p]
<1>1. CallOk(c)
  BY CallIsOk
<1>2. Same(c, d) /\ Is(d, p, c.h, c.again, c.mem, c.ptr, c.free, c.dir, c.bytes, c.saved)
  BY <1>1, GotoIs
<1>3. Now(t, d) /\ Holds(d)
  BY DEF Goto
<1>4. c.op \in PathOps /\ Plainly(c) /\ c.pc # "idle"
  BY DEF Plainly
<1>5. c.bytes \in Nat /\ c.saved \in Int /\ c.op \notin {"read", "write", "sendfile", "fchmod"}
  BY <1>1, <1>4 DEF CallOk, PathOps
<1> HIDE DEF d
<1>6. CallOk(d) /\ Used(d) = Used(c) /\ d.op = c.op
  <2> HIDE DEF c
  <2> QED
    BY <1>1, <1>2, <1>3, <1>4, <1>5, SameIsOk
<1>7. d.h = c.h /\ ~UsesFd(d)
  BY <1>2, <1>5 DEF Is, Same, UsesFd
<1> HIDE DEF c
<1>8. Good(fs', fds', Handles(calls)) /\ \A fd \in Fds : fds'[fd] = NoFd => fds[fd] = NoFd
  OBVIOUS
<1> QED
  BY <1>3, <1>6, <1>7, <1>8, StepGoesOn DEF c

LEMMA VolumeSame ==
    ASSUME FilesInv, SameVolume
    PROVE  Good(fs', fds, Handles(calls)) /\ NoMoreLoose(fs, fs') /\ UNCHANGED fds
  BY DEF FilesInv, NoMoreLoose, SameVolume

\* Where a call with a name goes next, holding a handle and no memory, or as before.
LEMMA HoldsOn ==
    ASSUME NEW c, CallOk(c), c.pc # "idle", NEW p, HasHandle(c), c.again = 0,
           \A d : d.op = c.op /\ d.pc = p => HasHandle(d) /\ (c.mem = 0 \/ HasMemory(d)),
           c.op \in PathOps
    PROVE  Holds([c EXCEPT !.pc = p])
<1> DEFINE d == [c EXCEPT !.pc = p]
<1>1. Same(c, d) /\ Is(d, p, c.h, c.again, c.mem, c.ptr, c.free, c.dir, c.bytes, c.saved)
  BY GotoIs
<1> HIDE DEF d
<1>2. d.op = c.op /\ d.pc = p
  BY <1>1 DEF Same, Is
<1>3. HasHandle(d) /\ (c.mem = 0 \/ HasMemory(d))
  BY <1>2
<1>4. Holds(c)
  BY DEF CallOk
<1>5. c.op # "scandir"
  BY DEF PathOps
<1>6. Holds(d)
  BY <1>1, <1>3, <1>4, <1>5 DEF Holds, Is
<1> QED
  BY <1>6 DEF d

LEMMA GoesOnKeeps ==
    ASSUME FilesInv, NEW t \in FsThreads, calls[t].op \in PathOps, NEW p, Goto(t, p), HasHandle(calls[t]),
           calls[t].pc # "idle", calls[t].again = 0, p \notin {"idle", "io", "restore"},
           \A d : d.op = calls[t].op /\ d.pc = p => HasHandle(d) /\ (calls[t].mem = 0 \/ HasMemory(d)),
           Good(fs', fds, Handles(calls)), NoMoreLoose(fs, fs'), UNCHANGED fds, SameClient
    PROVE  FilesInv'
<1>1. Holds([calls[t] EXCEPT !.pc = p])
  BY CallIsOk, HoldsOn
<1>2. Plainly(calls[t])
  BY DEF Plainly, PathOps
<1> QED
  BY <1>1, <1>2, GotoKeeps

LEMMA QueryKeeps ==
    ASSUME FilesInv, NEW t \in FsThreads, calls[t].op \in PathOps, NEW p, Query(t, p), HasHandle(calls[t]),
           calls[t].pc # "idle", calls[t].again = 0, p \notin {"idle", "io", "restore"},
           \A d : d.op = calls[t].op /\ d.pc = p => HasHandle(d) /\ (calls[t].mem = 0 \/ HasMemory(d)),
           calls[t].mem # 0 => calls[t].op = "realpath",
           SameVolume, SameClient
    PROVE  FilesInv'
<1>1. CASE Goto(t, p)
  BY <1>1, VolumeSame, GoesOnKeeps
<1>2. CASE Goto(t, "fail")
  <2>1. \A d : d.op = calls[t].op /\ d.pc = "fail" => HasHandle(d) /\ (calls[t].mem = 0 \/ HasMemory(d))
    BY DEF HasHandle, HasMemory
  <2> QED
    BY <1>2, <2>1, VolumeSame, GoesOnKeeps
<1> QED
  BY <1>1, <1>2 DEF Query

LEMMA OpenExistingKeeps ==
    ASSUME FilesInv, NEW t \in FsThreads, calls[t].op \in PathOps, calls[t].pc = "start", NEW p,
           OpenExisting(t, calls[t].path, p), p \notin {"idle", "io", "restore"},
           \A d : d.op = calls[t].op /\ d.pc = p => HasHandle(d),
           SameVolume, SameClient
    PROVE  FilesInv'
<1> DEFINE c == calls[t]
           n == NodeOf(c.path)
           d == [c EXCEPT !.h = n, !.pc = p]
<1>1. CallOk(c) /\ c.pc = "start" /\ c.op \in PathOps
  BY CallIsOk
<1>2. c.h = 0 /\ c.again = 0 /\ c.mem = 0 /\ ~c.dir /\ ~c.ptr /\ ~c.free /\ Plainly(c)
  BY StartIs
<1>3. CASE Finish(t, "error")
  BY <1>2, <1>3, FinishQuietlyKeeps
<1>4. CASE CanOpen(c.path) /\ Now(t, d)
  <2>1. Same(c, d) /\ Is(d, p, n, c.again, c.mem, c.ptr, c.free, c.dir, c.bytes, c.saved)
    BY <1>1, OpenIs
  <2>2. c.path \in Paths
    BY <1>1 DEF CallOk, Parameters, PathOps
  <2>3. n # 0 /\ n \in NamedIn(fs)
    <3>1. fs.names \in [Paths -> Nodes \cup {0}]
      BY DEF FilesInv, Good, Sound, VolumeType
    <3> QED
      BY <1>4, <2>2, <3>1 DEF CanOpen, Exists, NodeOf, NamedIn
  <2> HIDE DEF d, n
  <2>4. d.op = c.op /\ d.pc = p
    BY <2>1 DEF Same, Is
  <2>5. HasHandle(d)
    BY <2>4
  <2>6. Holds(d)
    BY <1>2, <2>1, <2>3, <2>5 DEF Holds, Is
  <2>7. c.bytes \in Nat /\ c.saved \in Int /\ c.op \notin {"read", "write", "sendfile", "fchmod"}
    BY <1>1 DEF CallOk, PathOps
  <2>8. CallOk(d) /\ Used(d) = Used(c) /\ d.op = c.op
    <3> HIDE DEF c
    <3> QED
      BY <1>1, <2>1, <2>6, <2>7, SameIsOk
  <2>9. ~UsesFd(d) /\ d.h = n
    BY <2>1, <2>4, <2>7 DEF UsesFd, Is
  <2>10. fs' = fs /\ fds' = fds /\ menu' = menu /\ made' = made
    BY DEF SameVolume, SameClient
  <2>11. Good(fs', fds', [Handles(calls) EXCEPT ![t] = d.h])
    <3>1. Good(fs, fds, Handles(calls)) /\ Handles(calls)[t] = 0
      BY <1>2 DEF FilesInv, Handles
    <3> QED
      BY <2>3, <2>9, <2>10, <3>1, HandleTaken
  <2>12. calls[t].pc # "idle" /\ \A q, m : ~Undoes(calls[t], q, m)
    BY <1>2, PlainlyIs
  <2> HIDE DEF c
  <2> QED
    BY <1>4, <2>8, <2>9, <2>10, <2>11, <2>12, StepKeeps DEF c
<1> QED
  BY <1>3, <1>4 DEF OpenExisting

-----------------------------------------------------------------------------
(* Descriptors. *)

\* A new name, but of no directory for a junction.
LEMMA NewNameGood ==
    ASSUME FilesInv, NEW p \in Paths, ~Exists(p), NEW kind \in Kinds \ {"none"}, NEW readonly \in BOOLEAN,
           NEW by \in Makers \ {"junction"}
    PROVE  LET g == With(p, kind, readonly, by)
           IN  /\ Good(g, fds, Handles(calls)) /\ NoMoreLoose(fs, g) /\ g.names[p] \in NamedIn(g) /\ g.names[p] # 0
               /\ g.names[p] = Fresh /\ g.nodes[Fresh].kind = kind
               /\ \A q \in Paths : q # p => g.names[q] = fs.names[q]
<1> DEFINE h == Handles(calls)
           g == With(p, kind, readonly, by)
<1>1. Good(fs, fds, h) /\ Held("none") = HeldBy(fds, h)
  BY HeldByAll DEF FilesInv
<1> HIDE DEF h
<1>2. NewName(g, h, p, kind, by)
  <2>1. ~Exists(p) /\ by \in Makers
    OBVIOUS
  <2> QED
    BY <1>1, <2>1, WithGood, Zenon
<1> HIDE DEF g
<1>3. g.names[p] \in NamedIn(g) /\ g.names[p] # 0
  BY <1>2, NodesAre DEF NamedIn, NewName
<1>4. NoMoreLoose(fs, g)
  BY <1>2 DEF NoMoreLoose, NewName
<1> QED
  BY <1>2, <1>3, <1>4 DEF g, h, NewName

LEMMA CreateFileGood ==
    ASSUME FilesInv, NEW p \in Paths, NEW disposition, NEW readonly \in BOOLEAN
    PROVE  LET g == CreateFile(p, disposition, readonly)
           IN  Good(g, fds, Handles(calls)) /\ NoMoreLoose(fs, g) /\ g.names[p] \in NamedIn(g) /\ g.names[p] # 0
<1> DEFINE h == Handles(calls)
           g == CreateFile(p, disposition, readonly)
<1>1. Good(fs, fds, h) /\ fs.names \in [Paths -> Nodes \cup {0}]
  BY DEF FilesInv, Good, Sound, VolumeType
<1>2. CASE ~Exists(p)
  <2>1. g = With(p, "file", readonly, "open")
    BY <1>2 DEF CreateFile
  <2>2. "file" \in Kinds \ {"none"} /\ "open" \in Makers \ {"junction"}
    BY DEF Kinds, Makers
  <2> HIDE DEF h, g
  <2> QED
    BY <1>2, <2>1, <2>2, NewNameGood DEF h, g
<1>3. CASE Exists(p)
  <2>1. fs.names[p] \in NamedIn(fs) /\ fs.names[p] # 0
    BY <1>1, <1>3, NodesAre DEF Exists, NodeOf, NamedIn
  <2>2. CASE g = Truncated(NodeOf(p))
    <3>1. Truncated(NodeOf(p)).names = fs.names
      BY <1>1 DEF Truncated, Good, Sound, VolumeType
    <3>2. Good(g, fds, h) /\ NoMoreLoose(fs, g)
      <4> HIDE DEF h, g
      <4> QED
        BY <1>1, <2>1, <2>2, TruncatedGood DEF NodeOf
    <3> HIDE DEF g, h
    <3>3. g.names = fs.names
      BY <2>2, <3>1
    <3>4. g.names[p] \in NamedIn(g) /\ g.names[p] # 0
      BY <2>1, <3>3 DEF NamedIn
    <3> QED
      BY <3>2, <3>4 DEF g, h
  <2>3. CASE g = fs
    BY <1>1, <2>1, <2>3 DEF NoMoreLoose
  <2> QED
    BY <1>3, <2>2, <2>3 DEF CreateFile
<1> QED
  BY <1>2, <1>3

\* A descriptor that is open has a node.
LEMMA OpenFdIs ==
    ASSUME FilesInv, NEW fd \in Fds, fds[fd] # NoFd
    PROVE  /\ fds[fd] \in [node : Nodes \cup {0}, access : SUBSET {"read", "write", "append"}, pos : Nat]
           /\ fds[fd].node # 0 /\ fds[fd].node \in HeldBy(fds, Handles(calls))
<1>1. fds[fd] \in FdType
  BY DEF FilesInv, Good, Sound
<1>2. fds[fd] \in [node : Nodes \cup {0}, access : SUBSET {"read", "write", "append"}, pos : Nat] /\ fds[fd].node # 0
  BY <1>1 DEF FdType
<1> QED
  BY <1>2 DEF HeldBy

LEMMA AccessIs == ASSUME NEW flags
                  PROVE  /\ Access(flags) \in SUBSET {"read", "write", "append"}
                         /\ "append" \in Access(flags) => "write" \notin Access(flags)
  BY DEF Access

LEMMA OpenKeeps == ASSUME FilesInv, NEW t \in FsThreads, Open(t) PROVE FilesInv'
<1> DEFINE c == calls[t]
           disposition == Disposition(c.flags)
           volume == CreateFile(c.path, disposition, "CREAT" \in c.flags /\ c.readonly)
           n == volume.names[c.path]
           d == [c EXCEPT !.h = n, !.pc = "descriptor"]
<1>1. c.op = "open" /\ SameClient
  BY DEF Open
<1>2. CallOk(c)
  BY CallIsOk
<1>3. c.path \in Paths /\ c.readonly \in BOOLEAN
  BY <1>1, <1>2 DEF CallOk, Parameters
<1>4. CASE \E r : c.pc = "start" /\ Finish(t, r) /\ SameVolume
  <2>1. c.h = 0 /\ c.again = 0 /\ c.mem = 0 /\ ~c.dir /\ Plainly(c)
    BY <1>4, StartIs
  <2> QED
    BY <1>1, <1>4, <2>1, FinishQuietlyKeeps
<1>5. CASE c.pc = "start" /\ fs' = volume /\ Now(t, d) /\ UNCHANGED fds
  <2>1. c.h = 0 /\ c.again = 0 /\ c.mem = 0 /\ ~c.dir /\ ~c.ptr /\ ~c.free /\ Plainly(c)
    BY <1>5, StartIs
  <2>2. Same(c, d) /\ Is(d, "descriptor", n, c.again, c.mem, c.ptr, c.free, c.dir, c.bytes, c.saved)
    BY <1>2, OpenIs
  <2>3. Good(volume, fds, Handles(calls)) /\ NoMoreLoose(fs, volume) /\ n \in NamedIn(volume) /\ n # 0
    BY <1>3, CreateFileGood
  <2> HIDE DEF d, n, volume
  <2>4. d.op = "open" /\ d.pc = "descriptor" /\ d.h = n
    BY <1>1, <2>2 DEF Same, Is
  <2>5. Holds(d) /\ ~UsesFd(d)
    BY <2>1, <2>2, <2>3, <2>4 DEF Holds, Is, HasHandle, UsesFd
  <2>6. c.bytes \in Nat /\ c.saved \in Int /\ c.pc # "idle"
    BY <1>2, <1>5 DEF CallOk
  <2>7. CallOk(d) /\ Used(d) = Used(c) /\ d.op = c.op
    <3> HIDE DEF c
    <3> QED
      BY <1>1, <1>2, <2>2, <2>5, <2>6, SameIsOk
  <2>8. Good(fs', fds', [Handles(calls) EXCEPT ![t] = d.h])
    <3>1. Handles(calls)[t] = 0
      BY <2>1 DEF Handles
    <3> QED
      BY <1>5, <2>3, <2>4, <3>1, HandleTaken
  <2>9. calls[t].pc # "idle" /\ \A q, m : ~Undoes(calls[t], q, m)
    BY <2>1, PlainlyIs
  <2>10. menu' = menu /\ made' = made
    BY <1>1 DEF SameClient
  <2> HIDE DEF c
  <2> QED
    BY <1>5, <2>3, <2>5, <2>7, <2>8, <2>9, <2>10, StepKeeps DEF c, NoMoreLoose
<1>6. ASSUME NEW fd \in Fds, fds[fd] = NoFd, c.pc = "descriptor", UNCHANGED fs,
             fds' = [fds EXCEPT ![fd] = [node |-> c.h, access |-> Access(c.flags), pos |-> 0]],
             Now(t, [Finished(c, "ok") EXCEPT !.h = 0])
      PROVE  FilesInv'
  <2> DEFINE e == [Finished(c, "ok") EXCEPT !.h = 0]
             r == [node |-> c.h, access |-> Access(c.flags), pos |-> 0]
  <2>0. Holds(c) /\ HasHandle(c) /\ Plainly(c)
    BY <1>1, <1>2, <1>6 DEF CallOk, HasHandle, Plainly
  <2>1. c.h # 0 /\ c.again = 0 /\ c.mem = 0 /\ ~c.dir
    BY <1>1, <1>6, <2>0 DEF Holds, HasMemory
  <2>2. EndedCall(e)
    BY <1>2, <2>1, CallEndsAre
  <2>3. Handles(calls)[t] = c.h /\ c.h \in Nodes \cup {0}
    BY DEF FilesInv, Good, Sound, Handles
  <2>4. r \in FdType /\ r.node = c.h /\ r # NoFd
    <3>1. r \in [node : Nodes \cup {0}, access : SUBSET {"read", "write", "append"}, pos : Nat]
      BY <2>3, AccessIs
    <3> QED
      BY <2>1, <3>1, AccessIs, NoFdIs DEF FdType
  <2> HIDE DEF e, r
  <2>5. Good(fs', fds', [Handles(calls) EXCEPT ![t] = 0])
    <3>1. Good(fs, [fds EXCEPT ![fd] = r], [Handles(calls) EXCEPT ![t] = 0])
      BY <1>6, <2>3, <2>4, HandleHandedOn DEF FilesInv
    <3> QED
      BY <1>6, <3>1 DEF r
  <2>6. e.h = 0 /\ e.pc = "idle"
    BY <2>2 DEF EndedCall
  <2>7. CallOk(e) /\ ~UsesFd(e)
    BY <2>2, EndedIsOk
  <2>8. \A x \in Fds : fds'[x] = NoFd => fds[x] = NoFd
    BY <1>6
  <2>9. calls[t].pc # "idle" /\ \A q, m : ~Undoes(calls[t], q, m)
    BY <2>0, PlainlyIs
  <2>10. menu' = menu /\ made' = made /\ fs' = fs /\ Now(t, e)
    BY <1>1, <1>6 DEF SameClient, e
  <2> HIDE DEF c
  <2> QED
    BY <2>5, <2>6, <2>7, <2>8, <2>9, <2>10, StepKeeps DEF NoMoreLoose
<1>7. CASE c.pc = "descriptor" /\ CloseAndFinish(t, "EMFILE")
  <2>0. Holds(c) /\ HasHandle(c) /\ Plainly(c)
    BY <1>1, <1>2, <1>7 DEF CallOk, HasHandle, Plainly
  <2>1. c.again = 0 /\ ~c.dir
    BY <1>1, <1>7, <2>0 DEF Holds
  <2> QED
    BY <1>1, <1>7, <2>0, <2>1, CloseAndFinishKeeps
<1>8. \/ \E r : c.pc = "start" /\ Finish(t, r) /\ SameVolume
      \/ c.pc = "start" /\ fs' = volume /\ Now(t, d) /\ UNCHANGED fds
      \/ c.pc = "descriptor" /\ UNCHANGED fs /\ \E fd \in Fds :
            /\ fds[fd] = NoFd /\ fds' = [fds EXCEPT ![fd] = [node |-> c.h, access |-> Access(c.flags), pos |-> 0]]
            /\ Now(t, [Finished(c, "ok") EXCEPT !.h = 0])
      \/ c.pc = "descriptor" /\ CloseAndFinish(t, "EMFILE")
  <2> HIDE DEF c
  <2> QED
    BY DEF Open, c
<1> QED
  BY <1>4, <1>5, <1>6, <1>7, <1>8

FdOps == {"close", "read", "write", "ftruncate", "fchmod", "fsync", "fstat", "futime", "sendfile"}

FdPlaces == {"start", "io", "restore", "set", "read", "write"}

\* A call on a descriptor holds at most memory.
LEMMA FdCallIs ==
    ASSUME FilesInv, NEW t \in FsThreads, calls[t].op \in FdOps, calls[t].pc \in FdPlaces
    PROVE  LET c == calls[t]
           IN  /\ CallOk(c) /\ Plainly(c) /\ c.h = 0 /\ c.again = 0 /\ ~c.dir /\ ~c.ptr /\ ~c.free
               /\ c.op # "sendfile" \/ c.pc = "start" => c.mem = 0
               /\ "fd" \in DOMAIN c /\ c.fd \in Fds
<1> DEFINE c == calls[t]
<1>1. CallOk(c) /\ c.op \in FdOps /\ c.pc \in FdPlaces
  BY CallIsOk
<1> HIDE DEF c
<1>2. Holds(c) /\ Parameters(c)
  BY <1>1 DEF CallOk
<1>3. Plainly(c) /\ ~HasHandle(c)
  BY <1>1 DEF Plainly, HasHandle, FdOps, FdPlaces
<1>4. c.op # "sendfile" \/ c.pc = "start" => ~HasMemory(c)
  BY <1>1 DEF HasMemory, FdOps, FdPlaces
<1>5. c.h = 0 /\ c.again = 0 /\ ~c.dir /\ ~c.ptr /\ ~c.free /\ (c.op # "sendfile" \/ c.pc = "start" => c.mem = 0)
  BY <1>1, <1>2, <1>3, <1>4 DEF Holds, FdOps, FdPlaces
<1>6. "fd" \in DOMAIN c /\ c.fd \in Fds
  BY <1>1, <1>2 DEF Parameters, FdOps
<1> QED
  BY <1>1, <1>3, <1>5, <1>6 DEF c

\* A call on a descriptor that is open goes on.
LEMMA FdGoesOn ==
    ASSUME FilesInv, NEW t \in FsThreads, calls[t].op \in FdOps, calls[t].pc \in FdPlaces, fds[calls[t].fd] # NoFd,
           NEW d, Same(calls[t], d), NEW pc \in FdPlaces, NEW mem, NEW bytes \in Nat, NEW saved \in Int,
           Is(d, pc, calls[t].h, calls[t].again, mem, calls[t].ptr, calls[t].free, calls[t].dir, bytes, saved),
           mem # 0 => calls[t].op = "sendfile" /\ pc \in {"read", "write"},
           calls[t].op \in {"read", "write"} => saved \in Nat \cup {-1},
           pc \in {"io", "restore"} => calls[t].op \in {"read", "write"},
           Now(t, d), Good(fs', fds', Handles(calls)), NoMoreLoose(fs, fs'),
           \A fd \in Fds : fds'[fd] = NoFd => fds[fd] = NoFd,
           SameClient
    PROVE  FilesInv'
<1> DEFINE c == calls[t]
<1>1. /\ CallOk(c) /\ Plainly(c) /\ c.h = 0 /\ c.again = 0 /\ ~c.dir /\ ~c.ptr /\ ~c.free
      /\ "fd" \in DOMAIN c /\ c.fd \in Fds
  BY FdCallIs
<1>2. c.pc # "idle" /\ pc # "idle"
  BY <1>1 DEF Plainly, FdPlaces
<1>3. Holds(d)
  <2>1. d.op = c.op /\ d.pc = pc /\ c.op \in FdOps
    BY DEF Same, Is
  <2> HIDE DEF c
  <2>2. ~HasHandle(d)
    BY <2>1 DEF HasHandle, FdPlaces, FdOps
  <2>3. mem # 0 => HasMemory(d)
    BY <2>1 DEF HasMemory, c
  <2> QED
    BY <1>1, <2>1, <2>2, <2>3 DEF Holds, Is, c
<1>4. CallOk(d) /\ Used(d) = Used(c) /\ d.op = c.op
  <2>1. /\ Same(c, d) /\ Is(d, pc, c.h, c.again, mem, c.ptr, c.free, c.dir, bytes, saved)
        /\ c.op \in {"read", "write"} => saved \in Nat \cup {-1}
        /\ pc \in {"io", "restore"} => c.op \in {"read", "write"}
    OBVIOUS
  <2> HIDE DEF c
  <2> QED
    BY <1>1, <1>2, <1>3, <2>1, SameIsOk
<1>5. d.h = c.h
  BY DEF Is
<1>6. d.fd = c.fd /\ fds'[c.fd] # NoFd
  BY <1>1 DEF Same
<1> QED
  BY <1>1, <1>4, <1>5, <1>6, StepGoesOn

LEMMA FdGoesQuietly ==
    ASSUME FilesInv, NEW t \in FsThreads, calls[t].op \in FdOps, calls[t].pc \in FdPlaces, fds[calls[t].fd] # NoFd,
           NEW d, Same(calls[t], d), NEW pc \in FdPlaces, NEW mem, NEW bytes \in Nat, NEW saved \in Int,
           Is(d, pc, calls[t].h, calls[t].again, mem, calls[t].ptr, calls[t].free, calls[t].dir, bytes, saved),
           mem # 0 => calls[t].op = "sendfile" /\ pc \in {"read", "write"},
           calls[t].op \in {"read", "write"} => saved \in Nat \cup {-1},
           pc \in {"io", "restore"} => calls[t].op \in {"read", "write"},
           Now(t, d), SameVolume, SameClient
    PROVE  FilesInv'
<1>1. fs' = fs /\ fds' = fds
  BY DEF SameVolume
<1>2. Good(fs', fds', Handles(calls)) /\ NoMoreLoose(fs, fs')
  BY <1>1 DEF FilesInv, NoMoreLoose
<1>3. \A fd \in Fds : fds'[fd] = NoFd => fds[fd] = NoFd
  BY <1>1
<1> QED
  BY <1>2, <1>3, FdGoesOn

LEMMA FdFinishKeeps ==
    ASSUME FilesInv, NEW t \in FsThreads, calls[t].op \in FdOps \ {"sendfile"}, calls[t].pc \in FdPlaces,
           NEW r, Finish(t, r), SameVolume, SameClient
    PROVE  FilesInv'
  BY FdCallIs, FinishQuietlyKeeps

LEMMA BadFdKeeps == ASSUME FilesInv, NEW t \in FsThreads, BadFd(t) PROVE FilesInv'
<1>1. calls[t].pc = "start" /\ Finish(t, "EBADF") /\ SameVolume /\ SameClient
  BY DEF BadFd
<1> QED
  BY <1>1, StartIs, FinishQuietlyKeeps

LEMMA CloseKeeps == ASSUME FilesInv, NEW t \in FsThreads, Close(t) PROVE FilesInv'
<1> DEFINE fd == calls[t].fd
<1>1. /\ calls[t].op = "close" /\ calls[t].pc = "start" /\ Finish(t, "ok") /\ SameClient
      /\ fds' = [fds EXCEPT ![fd] = NoFd] /\ fs' = Closed(fd, fds[fd].node)
  BY DEF Close, GoodFd, At
<1>2. fd \in Fds
  BY <1>1, FdCallIs DEF FdOps, FdPlaces
<1>3. Good(fs', fds', Handles(calls)) /\ NoMoreLoose(fs, fs')
  <2> HIDE DEF fd
  <2> QED
    BY <1>1, <1>2, ClosedByFd
<1>4. \A x \in Fds : fds'[x] = NoFd => fds[x] = NoFd \/ (calls[t].op = "close" /\ x = calls[t].fd)
  BY <1>1 DEF FilesInv, Good, Sound
<1>5. calls[t].h = 0 /\ calls[t].again = 0 /\ calls[t].mem = 0 /\ ~calls[t].dir /\ Plainly(calls[t])
  BY <1>1, StartIs
<1> QED
  BY <1>1, <1>3, <1>4, <1>5, FinishKeeps

LEMMA SeekKeeps == ASSUME FilesInv, NEW t \in FsThreads, Seek(t) PROVE FilesInv'
<1> DEFINE c == calls[t]
           s == IF c.offset = -1 THEN -1 ELSE fds[c.fd].pos
           d == [c EXCEPT !.pc = "io", !.saved = s]
<1>1. c.op \in {"read", "write"} /\ c.pc = "start" /\ fds[c.fd] # NoFd /\ SameClient /\ SameVolume /\ Now(t, d)
  BY DEF Seek, GoodFd, At
<1>2. c.op \in FdOps /\ c.pc \in FdPlaces /\ "io" \in FdPlaces /\ "io" # "read"
  BY <1>1 DEF FdOps, FdPlaces
<1>3. CallOk(c) /\ c.fd \in Fds /\ c.mem = 0
  BY <1>1, <1>2, FdCallIs
<1>4. s \in Nat \cup {-1} /\ s \in Int
  <2>1. fds[c.fd].pos \in Nat
    BY <1>1, <1>3, OpenFdIs
  <2> QED
    BY <2>1
<1>5. Same(c, d) /\ Is(d, "io", c.h, c.again, c.mem, c.ptr, c.free, c.dir, c.bytes, s)
  <2> HIDE DEF s
  <2>1. CallOk(c)
    BY <1>3
  <2> HIDE DEF c
  <2> QED
    BY <2>1, SavedIs, Zenon
<1>6. c.bytes \in Nat
  BY <1>3 DEF CallOk
<1> HIDE DEF d, s
<1> QED
  BY <1>1, <1>2, <1>3, <1>4, <1>5, <1>6, FdGoesQuietly

LEMMA ReadKeeps == ASSUME FilesInv, NEW t \in FsThreads, Read(t) PROVE FilesInv'
<1> DEFINE c == calls[t]
           x == fds[c.fd]
           from == IF c.offset = -1 THEN x.pos ELSE c.offset + c.bytes
           n == IF from < Len(fs.nodes[x.node].data) THEN 1 ELSE 0
           ok == "read" \in x.access /\ (c.offset = -1 \/ n = 1)
           pos == IF ok THEN from + n ELSE x.pos
<1>1. c.op = "read" /\ c.pc = "io" /\ x # NoFd /\ SameClient /\ UNCHANGED fs
  BY DEF Read, GoodFd, At
<1>2. c.op \in FdOps /\ c.pc \in FdPlaces
  BY <1>1 DEF FdOps, FdPlaces
<1>3. CallOk(c) /\ c.fd \in Fds /\ c.mem = 0
  BY <1>1, <1>2, FdCallIs
<1>4. c.bytes \in Nat /\ c.saved \in Nat \cup {-1} /\ c.offset \in Nat \cup {-1} /\ c.saved \in Int
  BY <1>1, <1>3 DEF CallOk, Parameters
<1>5. pos \in Nat /\ n \in Nat /\ (IF ok THEN n ELSE 0) \in Nat
  <2>1. x.pos \in Nat
    BY <1>1, <1>3, OpenFdIs
  <2> HIDE DEF x
  <2>2. from \in Nat /\ n \in Nat
    <3> HIDE DEF c
    <3> QED
      BY <1>4, <2>1
  <2> HIDE DEF from, n, ok
  <2> QED
    BY <2>1, <2>2
<1>6. ASSUME NEW b, NEW k \in Nat, NEW p \in Nat, Now(t, AfterBuffer(c, b, k)),
             fds' = fds \/ fds' = [fds EXCEPT ![c.fd].pos = p]
      PROVE  FilesInv'
  <2> DEFINE d == AfterBuffer(c, b, k)
  <2>1. /\ Same(c, d) /\ d.pc \in FdPlaces
        /\ Is(d, d.pc, c.h, c.again, c.mem, c.ptr, c.free, c.dir, c.bytes + k, c.saved)
    <3> HIDE DEF c
    <3> QED
      BY <1>3, BufferIs DEF FdPlaces
  <2>2. Good(fs, fds, Handles(calls)) /\ NoMoreLoose(fs, fs)
    BY DEF FilesInv, NoMoreLoose
  <2>3. Good(fs', fds', Handles(calls)) /\ NoMoreLoose(fs, fs') /\ \A fd \in Fds : fds'[fd] = NoFd => fds[fd] = NoFd
    <3>1. CASE fds' = fds
      BY <1>1, <2>2, <3>1
    <3>2. CASE fds' = [fds EXCEPT ![c.fd].pos = p]
      <4> DEFINE fd == c.fd
      <4>1. fd \in Fds /\ fds[fd] # NoFd /\ fds' = Moved(fds, fd, p) /\ fs' = fs
        BY <1>1, <1>3, <3>2 DEF Moved
      <4> HIDE DEF fd
      <4> QED
        BY <2>2, <4>1, FdMoved
    <3> QED
      BY <1>6, <3>1, <3>2
  <2>4. c.bytes + k \in Nat
    BY <1>4
  <2> HIDE DEF d
  <2>5. Now(t, d) /\ d.pc \in {"io", "restore"} => c.op \in {"read", "write"}
    BY <1>1, <1>6 DEF d
  <2>6. Now(t, d)
    BY <1>6 DEF d
  <2> QED
    BY <1>1, <1>2, <1>3, <1>4, <2>1, <2>3, <2>4, <2>6, FdGoesOn
<1>7. \/ fds' = [fds EXCEPT ![c.fd].pos = pos] /\ Now(t, AfterBuffer(c, ok, IF ok THEN n ELSE 0))
      \/ UNCHANGED fds /\ Now(t, AfterBuffer(c, FALSE, 0))
  BY DEF Read
<1> HIDE DEF pos, n, ok, c
<1> QED
  BY <1>5, <1>6, <1>7

LEMMA WriteKeeps == ASSUME FilesInv, NEW t \in FsThreads, Write(t) PROVE FilesInv'
<1> DEFINE c == calls[t]
           x == fds[c.fd]
           at == IF c.offset = -1 THEN x.pos ELSE c.offset + c.bytes
<1>1. c.op = "write" /\ c.pc = "io" /\ x # NoFd /\ SameClient
  BY DEF Write, GoodFd, At
<1>2. c.op \in FdOps /\ c.pc \in FdPlaces
  BY <1>1 DEF FdOps, FdPlaces
<1>3. CallOk(c) /\ c.fd \in Fds /\ c.mem = 0
  BY <1>1, <1>2, FdCallIs
<1>4. c.bytes \in Nat /\ c.saved \in Nat \cup {-1} /\ c.offset \in Nat \cup {-1} /\ c.saved \in Int /\ c.id \in Int
  BY <1>1, <1>3 DEF CallOk, Parameters
<1>5. at \in Nat
  <2>1. x.pos \in Nat
    BY <1>1, <1>3, OpenFdIs
  <2> HIDE DEF x, c
  <2> QED
    BY <1>4, <2>1
<1>6. ASSUME NEW b, NEW k \in Nat, Now(t, AfterBuffer(c, b, k)),
             Good(fs', fds', Handles(calls)), NoMoreLoose(fs, fs'),
             \A fd \in Fds : fds'[fd] = NoFd => fds[fd] = NoFd
      PROVE  FilesInv'
  <2> DEFINE d == AfterBuffer(c, b, k)
  <2>1. /\ Same(c, d) /\ d.pc \in FdPlaces
        /\ Is(d, d.pc, c.h, c.again, c.mem, c.ptr, c.free, c.dir, c.bytes + k, c.saved)
    <3> HIDE DEF c
    <3> QED
      BY <1>3, BufferIs DEF FdPlaces
  <2>4. c.bytes + k \in Nat
    BY <1>4
  <2> HIDE DEF d
  <2>6. Now(t, d)
    BY <1>6 DEF d
  <2> QED
    BY <1>1, <1>2, <1>3, <1>4, <1>6, <2>1, <2>4, <2>6, FdGoesOn
<1>7. CASE fs' = WriteAt(x, at, c.id) /\ fds' = [fds EXCEPT ![c.fd].pos = PosAfter(x, at)] /\ Now(t, AfterBuffer(c, TRUE, 1))
  <2> DEFINE fd == c.fd
             p == PosAfter(x, at)
  <2>1. fd \in Fds /\ fds[fd] = x /\ fds[fd] # NoFd /\ fds' = Moved(fds, fd, p) /\ Good(fs, fds, Handles(calls))
    BY <1>1, <1>3, <1>7 DEF FilesInv, Moved
  <2> HIDE DEF fd, x, at, c
  <2>2. Good(fs', fds, Handles(calls)) /\ NoMoreLoose(fs, fs') /\ p \in Nat
    BY <1>4, <1>5, <1>7, <2>1, WriteGood
  <2> HIDE DEF p
  <2>3. Good(fs', fds', Handles(calls)) /\ \A y \in Fds : fds'[y] = NoFd => fds[y] = NoFd
    BY <2>1, <2>2, FdMoved
  <2> QED
    BY <1>6, <1>7, <2>2, <2>3
<1>8. CASE Now(t, AfterBuffer(c, FALSE, 0)) /\ SameVolume
  <2>1. Good(fs', fds', Handles(calls)) /\ NoMoreLoose(fs, fs') /\ \A fd \in Fds : fds'[fd] = NoFd => fds[fd] = NoFd
    BY <1>8 DEF SameVolume, FilesInv, NoMoreLoose
  <2> HIDE DEF c
  <2> QED
    BY <1>6, <1>8, <2>1
<1> QED
  BY <1>7, <1>8 DEF Write

LEMMA RestoreKeeps == ASSUME FilesInv, NEW t \in FsThreads, Restore(t) PROVE FilesInv'
<1> DEFINE c == calls[t]
           fd == c.fd
<1>1. /\ c.op \in {"read", "write"} /\ c.pc = "restore" /\ SameClient /\ UNCHANGED fs /\ Finish(t, "ok")
      /\ fds' = IF c.saved # -1 THEN [fds EXCEPT ![fd].pos = c.saved] ELSE fds
  BY DEF Restore
<1>2. c.op \in FdOps /\ c.pc \in FdPlaces /\ c.op # "sendfile" /\ UsesFd(c)
  BY <1>1 DEF FdOps, FdPlaces, UsesFd
<1>3. CallOk(c) /\ c.fd \in Fds /\ c.mem = 0 /\ c.h = 0 /\ c.again = 0 /\ ~c.dir /\ Plainly(c)
  BY <1>2, FdCallIs
<1>4. c.saved \in Nat \cup {-1}
  BY <1>1, <1>3 DEF CallOk, Parameters
<1>5. fds[fd] # NoFd
  BY <1>2 DEF FilesInv, FdsInUse
<1>6. Good(fs', fds', Handles(calls)) /\ NoMoreLoose(fs, fs') /\ \A x \in Fds : fds'[x] = NoFd => fds[x] = NoFd
  <2>1. Good(fs, fds, Handles(calls)) /\ NoMoreLoose(fs, fs) /\ fs' = fs
    BY <1>1 DEF FilesInv, NoMoreLoose
  <2>2. CASE c.saved = -1
    BY <1>1, <2>1, <2>2
  <2>3. CASE c.saved # -1
    <3> DEFINE p == c.saved
    <3>1. p \in Nat /\ fds' = Moved(fds, fd, p) /\ fd \in Fds
      BY <1>1, <1>3, <1>4, <2>3 DEF Moved
    <3> HIDE DEF p, fd
    <3> QED
      BY <1>5, <2>1, <3>1, FdMoved
  <2> QED
    BY <2>2, <2>3
<1> QED
  BY <1>1, <1>3, <1>6, FinishKeeps

LEMMA FtruncateKeeps == ASSUME FilesInv, NEW t \in FsThreads, Ftruncate(t) PROVE FilesInv'
<1> DEFINE c == calls[t]
           n == fds[c.fd].node
<1>1. c.op = "ftruncate" /\ c.pc = "start" /\ fds[c.fd] # NoFd /\ SameClient
  BY DEF Ftruncate, GoodFd, At
<1>2. c.op \in FdOps \ {"sendfile"} /\ c.pc \in FdPlaces
  BY <1>1 DEF FdOps, FdPlaces
<1>3. c.fd \in Fds /\ c.mem = 0 /\ c.h = 0 /\ c.again = 0 /\ ~c.dir /\ Plainly(c)
  BY <1>2, FdCallIs
<1>4. n \in HeldBy(fds, Handles(calls))
  BY <1>1, <1>3, OpenFdIs
<1>5. CASE fs' = Truncated(n) /\ Finish(t, "ok") /\ UNCHANGED fds
  <2>1. Good(fs', fds', Handles(calls)) /\ NoMoreLoose(fs, fs')
    <3>1. Good(fs, fds, Handles(calls)) /\ fds' = fds /\ fs' = Truncated(n)
      BY <1>5 DEF FilesInv
    <3> HIDE DEF n
    <3> QED
      BY <1>4, <3>1, TruncatedGood
  <2>2. \A x \in Fds : fds'[x] = NoFd => fds[x] = NoFd
    BY <1>5
  <2> QED
    BY <1>1, <1>3, <1>5, <2>1, <2>2, FinishKeeps
<1>6. CASE Finish(t, "error") /\ SameVolume
  BY <1>1, <1>2, <1>6, FdFinishKeeps
<1> QED
  BY <1>5, <1>6 DEF Ftruncate

LEMMA FchmodKeeps == ASSUME FilesInv, NEW t \in FsThreads, Fchmod(t) PROVE FilesInv'
<1> DEFINE c == calls[t]
           n == fds[c.fd].node
           d == [c EXCEPT !.pc = "set"]
<1>1. c.op = "fchmod" /\ c.pc \in {"start", "set"} /\ fds[c.fd] # NoFd /\ SameClient
  BY DEF Fchmod, GoodFd, At
<1>2. c.op \in FdOps \ {"sendfile"} /\ c.pc \in FdPlaces /\ "set" \in FdPlaces
  BY <1>1 DEF FdOps, FdPlaces
<1>3. CallOk(c) /\ c.fd \in Fds /\ c.mem = 0 /\ c.h = 0 /\ c.again = 0 /\ ~c.dir /\ Plainly(c)
  BY <1>2, FdCallIs
<1>4. c.bytes \in Nat /\ c.saved \in Int /\ c.readonly \in BOOLEAN
  BY <1>1, <1>3 DEF CallOk, Parameters
<1>5. CASE Now(t, d) /\ SameVolume
  <2>1. Same(c, d) /\ Is(d, "set", c.h, c.again, c.mem, c.ptr, c.free, c.dir, c.bytes, c.saved)
    <3> HIDE DEF c
    <3> QED
      BY <1>3, GotoIs
  <2> HIDE DEF d
  <2> QED
    BY <1>1, <1>2, <1>3, <1>4, <1>5, <2>1, FdGoesQuietly
<1>6. CASE \E r : Finish(t, r) /\ SameVolume
  BY <1>1, <1>2, <1>6, FdFinishKeeps
<1>7. CASE fs' = [fs EXCEPT !.nodes[n].readonly = c.readonly] /\ Finish(t, "ok") /\ UNCHANGED fds
  <2> DEFINE b == c.readonly
  <2>1. n \in HeldBy(fds, Handles(calls))
    BY <1>1, <1>3, OpenFdIs
  <2>2. Good(fs', fds', Handles(calls)) /\ NoMoreLoose(fs, fs')
    <3>1. Good(fs, fds, Handles(calls)) /\ fds' = fds /\ fs' = [fs EXCEPT !.nodes[n].readonly = b] /\ b \in BOOLEAN
      BY <1>4, <1>7 DEF FilesInv
    <3> HIDE DEF n, b
    <3> QED
      BY <2>1, <3>1, ReadonlyGood
  <2>3. \A x \in Fds : fds'[x] = NoFd => fds[x] = NoFd
    BY <1>7
  <2> QED
    BY <1>1, <1>3, <1>7, <2>2, <2>3, FinishKeeps
<1>8. \/ Now(t, d) /\ SameVolume
      \/ \E r : Finish(t, r) /\ SameVolume
      \/ fs' = [fs EXCEPT !.nodes[n].readonly = c.readonly] /\ Finish(t, "ok") /\ UNCHANGED fds
  BY DEF Fchmod, Goto
<1> QED
  BY <1>5, <1>6, <1>7, <1>8

LEMMA OnHandleKeeps == ASSUME FilesInv, NEW t \in FsThreads, OnHandle(t) PROVE FilesInv'
<1>1. calls[t].op \in FdOps \ {"sendfile"} /\ calls[t].pc \in FdPlaces /\ SameClient
  BY DEF OnHandle, GoodFd, At, FdOps, FdPlaces
<1>2. PICK r : Finish(t, r) /\ SameVolume
  BY DEF OnHandle
<1> QED
  BY <1>1, <1>2, FdFinishKeeps

\* Where a descriptor moves and the volume stays.
LEMMA MovedKeeps ==
    ASSUME FilesInv, NEW fd \in Fds, fds[fd] # NoFd, NEW pos \in Nat, fds' = Moved(fds, fd, pos), UNCHANGED fs
    PROVE  /\ Good(fs', fds', Handles(calls)) /\ NoMoreLoose(fs, fs')
           /\ \A x \in Fds : fds'[x] = NoFd => fds[x] = NoFd
<1>1. Good(fs, fds, Handles(calls)) /\ fs' = fs /\ NoMoreLoose(fs, fs)
  BY DEF FilesInv, NoMoreLoose
<1>2. Good(fs', fds, Handles(calls)) /\ NoMoreLoose(fs, fs')
  BY <1>1
<1> QED
  BY <1>2, FdMoved

\* And where what a descriptor is of is written.
LEMMA WrittenKeeps ==
    ASSUME FilesInv, NEW fd \in Fds, fds[fd] # NoFd, NEW at \in Nat, NEW x \in Int,
           fs' = WriteAt(fds[fd], at, x), fds' = Moved(fds, fd, PosAfter(fds[fd], at))
    PROVE  /\ Good(fs', fds', Handles(calls)) /\ NoMoreLoose(fs, fs')
           /\ \A y \in Fds : fds'[y] = NoFd => fds[y] = NoFd
<1> DEFINE p == PosAfter(fds[fd], at)
<1>1. Good(fs', fds, Handles(calls)) /\ NoMoreLoose(fs, fs') /\ p \in Nat
  BY WriteGood DEF FilesInv
<1>2. fds' = Moved(fds, fd, p)
  OBVIOUS
<1> HIDE DEF p
<1> QED
  BY <1>1, <1>2, FdMoved

LEMMA SendfileKeeps == ASSUME FilesInv, NEW t \in FsThreads, Sendfile(t) PROVE FilesInv'
<1> DEFINE c == calls[t]
           in == fds[c.fd]
           out == fds[c.new]
           data == fs.nodes[in.node].data
           writes == out # NoFd /\ out.access \cap {"write", "append"} # {}
<1>1. c.op = "sendfile" /\ c.pc \in {"start", "read", "write"} /\ in # NoFd /\ SameClient
  BY DEF Sendfile, GoodFd, At
<1>2. c.op \in FdOps /\ c.pc \in FdPlaces /\ {"read", "write"} \subseteq FdPlaces
  BY <1>1 DEF FdOps, FdPlaces
<1>3. CallOk(c) /\ Plainly(c) /\ c.h = 0 /\ c.again = 0 /\ ~c.dir /\ c.fd \in Fds
  BY <1>1, <1>2, FdCallIs
<1>4. c.bytes \in Nat /\ c.saved \in Int /\ c.offset \in Nat \cup {-1} /\ c.new \in Fds /\ c.op \notin {"read", "write"}
  BY <1>1, <1>3 DEF CallOk, Parameters
<1>5. in.pos \in Nat /\ in.node \in HeldBy(fds, Handles(calls))
  BY <1>1, <1>3, OpenFdIs
<1>6. CASE /\ fds' = [fds EXCEPT ![c.fd].pos = IF c.offset = -1 THEN @ ELSE c.offset] /\ UNCHANGED fs
           /\ Now(t, [c EXCEPT !.pc = "read", !.mem = 1])
  <2> DEFINE d == [c EXCEPT !.pc = "read", !.mem = 1]
             p == IF c.offset = -1 THEN in.pos ELSE c.offset
  <2>1. Same(c, d) /\ Is(d, "read", c.h, c.again, 1, c.ptr, c.free, c.dir, c.bytes, c.saved)
    <3> HIDE DEF c
    <3> QED
      BY <1>3, MemIs, Zenon
  <2>2. p \in Nat /\ fds' = Moved(fds, c.fd, p) /\ Now(t, d)
    BY <1>4, <1>5, <1>6 DEF Moved
  <2> HIDE DEF p, d
  <2>3. Good(fs', fds', Handles(calls)) /\ NoMoreLoose(fs, fs') /\ \A x \in Fds : fds'[x] = NoFd => fds[x] = NoFd
    BY <1>1, <1>3, <1>6, <2>2, MovedKeeps
  <2> QED
    BY <1>1, <1>2, <1>4, <2>1, <2>2, <2>3, FdGoesOn
<1>7. CASE /\ c.pc = "read" /\ in.pos < Len(data) /\ UNCHANGED fs
           /\ fds' = [fds EXCEPT ![c.fd].pos = @ + 1] /\ Now(t, [c EXCEPT !.saved = data[in.pos + 1], !.pc = "write"])
  <2> DEFINE s == data[in.pos + 1]
             d == [c EXCEPT !.saved = s, !.pc = "write"]
             p == in.pos + 1
  <2>1. s \in Int
    <3>1. data \in Seq(Int)
      BY <1>5, NodeIs DEF FilesInv, NodeType
    <3> HIDE DEF in, data
    <3> QED
      BY <1>5, <1>7, <3>1
  <2>2. Same(c, d) /\ Is(d, "write", c.h, c.again, c.mem, c.ptr, c.free, c.dir, c.bytes, s)
    <3> HIDE DEF c, s
    <3> QED
      BY <1>3, SavedIs, Zenon
  <2>3. Now(t, d)
    BY <1>7, Zenon
  <2> HIDE DEF d, s
  <2>5. p \in Nat
    BY <1>5
  <2>6. fds' = Moved(fds, c.fd, p) /\ in # NoFd /\ c.fd \in Fds /\ UNCHANGED fs
    BY <1>1, <1>3, <1>7 DEF Moved
  <2> HIDE DEF p
  <2>4. Good(fs', fds', Handles(calls)) /\ NoMoreLoose(fs, fs') /\ \A x \in Fds : fds'[x] = NoFd => fds[x] = NoFd
    BY <2>5, <2>6, MovedKeeps
  <2> QED
    BY <1>1, <1>2, <1>4, <2>1, <2>2, <2>3, <2>4, FdGoesOn
<1>8. ASSUME NEW r, Now(t, [Finished(c, r) EXCEPT !.mem = 0]), SameVolume
      PROVE  FilesInv'
  <2> DEFINE d == [Finished(c, r) EXCEPT !.mem = 0]
  <2>2. EndedCall(d)
    <3> HIDE DEF c
    <3> QED
      BY <1>3, CallEndsAre, Zenon
  <2>3. Now(t, d)
    BY <1>8
  <2> HIDE DEF d
  <2> QED
    BY <1>1, <1>3, <1>8, <2>2, <2>3, StepEndsQuietly
<1>9. CASE /\ c.pc = "write" /\ writes /\ fs' = WriteAt(out, out.pos, c.saved)
           /\ fds' = [fds EXCEPT ![c.new].pos = PosAfter(out, @)] /\ Now(t, [c EXCEPT !.bytes = @ + 1, !.pc = "read"])
  <2> DEFINE d == [c EXCEPT !.bytes = c.bytes + 1, !.pc = "read"]
             x == c.saved
             fd == c.new
             at == out.pos
  <2>1. Same(c, d) /\ Is(d, "read", c.h, c.again, c.mem, c.ptr, c.free, c.dir, c.bytes + 1, c.saved)
    <3> HIDE DEF c
    <3> QED
      BY <1>3, BytesAre, Zenon
  <2>2. c.bytes + 1 \in Nat /\ at \in Nat /\ x \in Int /\ fd \in Fds /\ fds[fd] # NoFd
    BY <1>4, <1>9, OpenFdIs
  <2>3. Now(t, d) /\ fs' = WriteAt(fds[fd], at, x) /\ fds' = Moved(fds, fd, PosAfter(fds[fd], at))
    BY <1>9 DEF Moved
  <2> HIDE DEF d, x, fd, at
  <2>4. Good(fs', fds', Handles(calls)) /\ NoMoreLoose(fs, fs') /\ \A y \in Fds : fds'[y] = NoFd => fds[y] = NoFd
    BY <2>2, <2>3, WrittenKeeps, Zenon
  <2> QED
    BY <1>1, <1>2, <1>4, <2>1, <2>2, <2>3, <2>4, FdGoesOn
<1>10. \/ /\ fds' = [fds EXCEPT ![c.fd].pos = IF c.offset = -1 THEN @ ELSE c.offset] /\ UNCHANGED fs
          /\ Now(t, [c EXCEPT !.pc = "read", !.mem = 1])
       \/ /\ c.pc = "read" /\ in.pos < Len(data) /\ UNCHANGED fs
          /\ fds' = [fds EXCEPT ![c.fd].pos = @ + 1] /\ Now(t, [c EXCEPT !.saved = data[in.pos + 1], !.pc = "write"])
       \/ Now(t, [Finished(c, "ok") EXCEPT !.mem = 0]) /\ SameVolume
       \/ Now(t, [Finished(c, "error") EXCEPT !.mem = 0]) /\ SameVolume
       \/ /\ c.pc = "write" /\ writes /\ fs' = WriteAt(out, out.pos, c.saved)
          /\ fds' = [fds EXCEPT ![c.new].pos = PosAfter(out, @)] /\ Now(t, [c EXCEPT !.bytes = @ + 1, !.pc = "read"])
  BY ZenonT(60) DEF Sendfile
<1> HIDE DEF c, in, out, data, writes
<1> QED
  BY <1>6, <1>7, <1>8, <1>9, <1>10

\* A call that has a handle.
LEMMA HandleIs ==
    ASSUME FilesInv, NEW t \in FsThreads, HasHandle(calls[t]), calls[t].op \in PathOps, calls[t].pc # "idle"
    PROVE  LET c == calls[t]
           IN  /\ CallOk(c) /\ Plainly(c) /\ c.h # 0 /\ ~c.dir /\ c.h \in NamedIn(fs) \cup HeldBy(fds, Handles(calls))
               /\ c.pc # "requery" => c.again = 0
               /\ c.mem # 0 => c.op = "realpath"
               /\ c.path \in Paths
<1> DEFINE c == calls[t]
<1>1. CallOk(c) /\ c.op \in PathOps /\ HasHandle(c) /\ c.pc # "idle"
  BY CallIsOk
<1>2. c.h \in Nodes \cup {0} /\ Handles(calls)[t] = c.h
  BY DEF FilesInv, Good, Sound, Handles
<1> HIDE DEF c
<1>3. Holds(c) /\ Parameters(c)
  BY <1>1 DEF CallOk
<1>4. c.h # 0 /\ ~c.dir /\ (c.pc # "requery" => c.again = 0) /\ (c.mem # 0 => c.op = "realpath")
  BY <1>1, <1>3 DEF Holds, PathOps, HasMemory
<1>5. Plainly(c) /\ c.path \in Paths
  BY <1>1, <1>3 DEF Plainly, PathOps, Parameters
<1>6. c.h \in HeldBy(fds, Handles(calls))
  BY <1>2, <1>4 DEF HeldBy
<1> QED
  BY <1>1, <1>4, <1>5, <1>6 DEF c

LEMMA NamedIs ==
    ASSUME FilesInv, NEW p \in Paths, Exists(p)
    PROVE  NodeOf(p) \in NamedIn(fs) /\ NodeOf(p) \in NamedIn(fs) \cup HeldBy(fds, Handles(calls)) /\ NodeOf(p) # 0
<1>1. fs.names \in [Paths -> Nodes \cup {0}]
  BY DEF FilesInv, Good, Sound, VolumeType
<1> QED
  BY <1>1 DEF Exists, NodeOf, NamedIn

LEMMA UnlinkKeeps == ASSUME FilesInv, NEW t \in FsThreads, Unlink(t) PROVE FilesInv'
<1> DEFINE c == calls[t]
           node == fs.nodes[c.h]
<1>1. c.op = "unlink" /\ c.op \in PathOps /\ SameClient /\ Good(fs, fds, Handles(calls))
  BY DEF Unlink, PathOps, FilesInv
<1>2. CASE c.pc = "start" /\ OpenExisting(t, c.path, "info") /\ SameVolume
  <2>1. \A d : d.op = c.op /\ d.pc = "info" => HasHandle(d)
    BY DEF HasHandle
  <2>2. /\ calls[t].op \in PathOps /\ calls[t].pc = "start" /\ OpenExisting(t, calls[t].path, "info")
        /\ "info" \notin {"idle", "io", "restore"} /\ SameVolume /\ SameClient
    BY <1>1, <1>2
  <2> QED
    BY <2>1, <2>2, OpenExistingKeeps
<1>3. ASSUME c.pc \in {"info", "clear", "mark", "close"}
      PROVE  /\ c.pc # "idle" /\ HasHandle(c) /\ c.again = 0 /\ c.mem = 0 /\ ~c.dir /\ Plainly(c)
             /\ c.h \in NamedIn(fs) \cup HeldBy(fds, Handles(calls))
  <2>1. c.pc # "idle" /\ HasHandle(c) /\ c.pc # "requery"
    BY <1>3 DEF HasHandle
  <2> QED
    BY <1>1, <2>1, HandleIs
<1>4. \A p \in {"clear", "mark", "close", "fail"} : /\ p \notin {"idle", "io", "restore"}
                                                   /\ \A d : d.op = c.op /\ d.pc = p => HasHandle(d)
  BY DEF HasHandle
<1>5. ASSUME NEW p \in {"clear", "mark", "close", "fail"}, c.pc \in {"info", "clear", "mark"}, Goto(t, p), UNCHANGED fds,
             Good(fs', fds, Handles(calls)), NoMoreLoose(fs, fs')
      PROVE  FilesInv'
  BY <1>1, <1>3, <1>4, <1>5, GoesOnKeeps
<1>6. CASE c.pc = "info" /\ SameVolume /\ Query(t, IF node.readonly THEN "clear" ELSE "mark")
  <2> DEFINE p == IF node.readonly THEN "clear" ELSE "mark"
  <2>1. p \in {"clear", "mark", "close", "fail"} /\ Query(t, p)
    BY <1>6
  <2> HIDE DEF p, node
  <2> QED
    BY <1>1, <1>3, <1>4, <1>6, <2>1, QueryKeeps
<1>7. CASE c.pc \in {"info", "clear", "mark"} /\ SameVolume /\ Goto(t, "fail")
  BY <1>5, <1>7, VolumeSame
<1>8. CASE c.pc = "clear" /\ fs' = [fs EXCEPT !.nodes[c.h].readonly = FALSE] /\ Goto(t, "mark") /\ UNCHANGED fds
  <2> DEFINE n == c.h
             g == [fs EXCEPT !.nodes[n].readonly = FALSE]
  <2>1. Good(g, fds, Handles(calls)) /\ NoMoreLoose(fs, g)
    <3>1. n \in NamedIn(fs) \cup HeldBy(fds, Handles(calls))
      BY <1>3, <1>8
    <3> HIDE DEF n
    <3> QED
      BY <1>1, <3>1, ReadonlyGood
  <2>2. fs' = g
    BY <1>8
  <2> HIDE DEF g
  <2>3. Good(fs', fds, Handles(calls)) /\ NoMoreLoose(fs, fs')
    BY <2>1, <2>2
  <2> QED
    BY <1>5, <1>8, <2>3
<1>9. CASE c.pc = "mark" /\ fs' = [fs EXCEPT !.nodes[c.h].deleting = TRUE] /\ Goto(t, "close") /\ UNCHANGED fds
  <2> DEFINE n == c.h
             g == [fs EXCEPT !.nodes[n].deleting = TRUE]
  <2>1. Good(g, fds, Handles(calls)) /\ NoMoreLoose(fs, g)
    <3>1. n \in NamedIn(fs) \cup HeldBy(fds, Handles(calls))
      BY <1>3, <1>9
    <3> HIDE DEF n
    <3> QED
      BY <1>1, <3>1, MarkGood
  <2>2. fs' = g
    BY <1>9
  <2> HIDE DEF g
  <2>3. Good(fs', fds, Handles(calls)) /\ NoMoreLoose(fs, fs')
    BY <2>1, <2>2
  <2> QED
    BY <1>5, <1>9, <2>3
<1>10. CASE c.pc = "close" /\ CloseAndFinish(t, "ok")
  BY <1>1, <1>3, <1>10, CloseAndFinishKeeps
<1>11. \/ c.pc = "start" /\ OpenExisting(t, c.path, "info") /\ SameVolume
       \/ c.pc = "info" /\ SameVolume /\ Query(t, IF node.readonly THEN "clear" ELSE "mark")
       \/ c.pc \in {"info", "clear", "mark"} /\ SameVolume /\ Goto(t, "fail")
       \/ c.pc = "clear" /\ fs' = [fs EXCEPT !.nodes[c.h].readonly = FALSE] /\ Goto(t, "mark") /\ UNCHANGED fds
       \/ c.pc = "mark" /\ fs' = [fs EXCEPT !.nodes[c.h].deleting = TRUE] /\ Goto(t, "close") /\ UNCHANGED fds
       \/ c.pc = "close" /\ CloseAndFinish(t, "ok")
  BY DEF Unlink
<1> HIDE DEF c, node
<1> QED
  BY <1>2, <1>6, <1>7, <1>8, <1>9, <1>10, <1>11

LEMMA RmdirKeeps == ASSUME FilesInv, NEW t \in FsThreads, Rmdir(t) PROVE FilesInv'
<1> DEFINE p == calls[t].path
           ok == CanOpen(p) /\ Node(p).kind = "dir"
<1>1. calls[t].op = "rmdir" /\ calls[t].pc = "start" /\ SameClient /\ AtOnce(t, ok, RmdirNow(p))
  BY DEF Rmdir, At
<1>2. p \in Paths
  BY <1>1, CallIsOk DEF CallOk, Parameters
<1>3. ok => Good(RmdirNow(p), fds, Handles(calls)) /\ NoMoreLoose(fs, RmdirNow(p))
  BY <1>2, RmdirGood DEF CanOpen
<1> HIDE DEF p, ok
<1> QED
  BY <1>1, <1>3, AtOnceKeeps

LEMMA MkdirKeeps == ASSUME FilesInv, NEW t \in FsThreads, Mkdir(t) PROVE FilesInv'
<1> DEFINE p == calls[t].path
           ok == ~Exists(p)
           g == With(p, "dir", FALSE, "mkdir")
<1>1. calls[t].op = "mkdir" /\ calls[t].pc = "start" /\ SameClient /\ AtOnce(t, ok, g)
  BY DEF Mkdir, At
<1>2. p \in Paths
  BY <1>1, CallIsOk DEF CallOk, Parameters
<1>3. "dir" \in Kinds \ {"none"} /\ "mkdir" \in Makers \ {"junction"}
  BY DEF Kinds, Makers
<1>4. ok => Good(g, fds, Handles(calls)) /\ NoMoreLoose(fs, g)
  BY <1>2, <1>3, NewNameGood
<1> HIDE DEF p, ok, g
<1> QED
  BY <1>1, <1>4, AtOnceKeeps

LEMMA MkdtempKeeps == ASSUME FilesInv, NEW t \in FsThreads, Mkdtemp(t) PROVE FilesInv'
<1> DEFINE c == calls[t]
           d == [c EXCEPT !.tries = c.tries + 1]
<1>1. c.op = "mkdtemp" /\ c.pc = "start" /\ SameClient /\ UNCHANGED fds
  BY DEF Mkdtemp, At
<1>2. CallOk(c)
  BY CallIsOk
<1>3. c.h = 0 /\ c.again = 0 /\ c.mem = 0 /\ ~c.dir /\ ~c.ptr /\ ~c.free /\ Plainly(c)
  BY <1>1, StartIs
<1>4. ASSUME NEW p \in TempPaths, ~Exists(p), fs' = With(p, "dir", FALSE, "mkdtemp"), Finish(t, "ok")
      PROVE  FilesInv'
  <2>1. "dir" \in Kinds \ {"none"} /\ "mkdtemp" \in Makers \ {"junction"} /\ p \in Paths
    BY FilesAssumption DEF Kinds, Makers
  <2>2. Good(fs', fds', Handles(calls)) /\ NoMoreLoose(fs, fs')
    <3> DEFINE g == With(p, "dir", FALSE, "mkdtemp")
    <3>1. Good(g, fds, Handles(calls)) /\ NoMoreLoose(fs, g)
      BY <1>4, <2>1, NewNameGood
    <3> HIDE DEF g
    <3> QED
      BY <1>1, <1>4, <3>1 DEF g
  <2> QED
    BY <1>1, <1>3, <1>4, <2>2, FinishKeeps
<1>5. ASSUME NEW r, Finish(t, r), UNCHANGED fs PROVE FilesInv'
  BY <1>1, <1>3, <1>5, FinishQuietlyKeeps DEF SameVolume
<1>6. CASE Now(t, d) /\ UNCHANGED fs
  <2>1. Same(c, d) /\ Is(d, c.pc, c.h, c.again, c.mem, c.ptr, c.free, c.dir, c.bytes, c.saved)
    <3> HIDE DEF c
    <3> QED
      BY <1>2, BytesAre, Zenon
  <2>2. c.bytes \in Nat /\ c.saved \in Int /\ c.pc # "idle" /\ Holds(c)
    BY <1>1, <1>2 DEF CallOk
  <2> HIDE DEF d
  <2>3. d.op = "mkdtemp" /\ d.pc = "start"
    BY <1>1, <2>1 DEF Same, Is
  <2>4. Holds(d) /\ ~UsesFd(d) /\ d.h = c.h
    BY <1>3, <2>1, <2>3 DEF Holds, Is, HasHandle, UsesFd
  <2>5. CallOk(d) /\ Used(d) = Used(c) /\ d.op = c.op
    <3> HIDE DEF c
    <3> QED
      BY <1>1, <1>2, <2>1, <2>2, <2>4, SameIsOk
  <2> QED
    BY <1>1, <1>3, <1>6, <2>4, <2>5, StepGoesQuietly DEF SameVolume
<1>7. \/ \E p \in TempPaths : ~Exists(p) /\ fs' = With(p, "dir", FALSE, "mkdtemp") /\ Finish(t, "ok")
      \/ Finish(t, "error") /\ UNCHANGED fs
      \/ Now(t, Finished(c, "error")) /\ UNCHANGED fs
      \/ Now(t, d) /\ UNCHANGED fs
  BY DEF Mkdtemp
<1>8. CASE Now(t, Finished(c, "error")) /\ UNCHANGED fs
  BY <1>5, <1>8 DEF Finish
<1> HIDE DEF d
<1> QED
  BY <1>4, <1>5, <1>6, <1>7, <1>8

Renamed(N, n) == [fs EXCEPT !.names = N, !.nodes[n].by = "rename"]

LEMMA RenamedGood ==
    ASSUME FilesInv, NEW p \in Paths, NEW q \in Paths, Exists(p), NEW N \in [Paths -> Nodes \cup {0}],
           N[q] = NodeOf(p), \A x \in Paths : x # q => N[x] \in {0, fs.names[x]}
    PROVE  Sound(Renamed(N, NodeOf(p)), fds, Handles(calls)) /\ NoMoreLoose(fs, Renamed(N, NodeOf(p)))
<1> DEFINE h == Handles(calls)
           f == Renamed(N, NodeOf(p))
           n == NodeOf(p)
           r == [fs.nodes[n] EXCEPT !.by = "rename"]
<1>1. Good(fs, fds, h) /\ n \in NamedIn(fs) /\ n # 0 /\ fs \in VolumeType
  BY NamedIs DEF FilesInv, Good, Sound
<1>2. n \in Nodes /\ fs.nodes[n] \in NodeType /\ fs.nodes[n].kind # "none" /\ fs.nodes[n].appended \subseteq ToSet(fs.nodes[n].data)
  BY <1>1, NodeIs
<1>3. /\ r \in NodeType /\ r.kind = fs.nodes[n].kind /\ r.by = "rename"
      /\ r.appended = fs.nodes[n].appended /\ r.data = fs.nodes[n].data
  <2>1. "rename" \in Makers
    BY DEF Makers
  <2> QED
    BY <1>2, <2>1 DEF NodeType
<1> HIDE DEF h
<1>4. f.names = N /\ f.nodes = [fs.nodes EXCEPT ![n] = r] /\ f \in VolumeType
  <2> DEFINE k == [fs EXCEPT !.names = N]
             M == [fs.nodes EXCEPT ![n] = r]
  <2>1. f = [k EXCEPT !.nodes = M]
    BY <1>1 DEF Renamed, VolumeType
  <2>2. M \in [Nodes -> NodeType]
    <3> HIDE DEF n, r
    <3> QED
      BY <1>1, <1>3 DEF VolumeType
  <2> HIDE DEF M, f
  <2>3. k \in VolumeType /\ k.names = N
    BY <1>1 DEF VolumeType
  <2> HIDE DEF k
  <2>4. f.names = N /\ f.nodes = M /\ f \in VolumeType
    BY <2>1, <2>2, <2>3 DEF VolumeType
  <2> QED
    BY <2>4 DEF M
<1> HIDE DEF r, f
<1>5. f.nodes[n] = r /\ \A m \in Nodes : m # n => f.nodes[m] = fs.nodes[m]
  BY <1>1, <1>2, <1>4 DEF VolumeType
<1>6. N[q] = n
  OBVIOUS
<1> HIDE DEF n
<1>7. NamedIn(f) \subseteq NamedIn(fs)
  <2> SUFFICES ASSUME NEW m \in Nodes, NEW x \in Paths, N[x] = m PROVE m \in NamedIn(fs)
    BY <1>4 DEF NamedIn
  <2>1. CASE x = q
    BY <1>1, <1>6, <2>1
  <2>2. CASE x # q
    BY <2>2, NodesAre DEF NamedIn
  <2> QED
    BY <2>1, <2>2
<1>8. Taken(f) = Taken(fs)
  BY <1>2, <1>3, <1>5 DEF Taken
<1>9. AppendsKept(f)
  BY <1>1, <1>2, <1>3, <1>5 DEF Good, Sound, AppendsKept
<1>10. Sound(f, fds, h)
  BY <1>1, <1>4, <1>7, <1>8, <1>9 DEF Good, Sound
<1>11. NoMoreLoose(fs, f)
  <2> SUFFICES ASSUME NEW x \in Paths, Loose(f, x) PROVE Loose(fs, x) /\ f.names[x] = fs.names[x]
    BY DEF NoMoreLoose
  <2>1. f.names[x] # n
    BY <1>3, <1>5 DEF Loose
  <2>2. f.names[x] = fs.names[x] /\ f.names[x] \in Nodes
    BY <1>4, <1>6, <2>1 DEF Loose
  <2> QED
    BY <1>5, <2>1, <2>2 DEF Loose
<1> QED
  BY <1>10, <1>11 DEF h, f

LEMMA RenameKeeps == ASSUME FilesInv, NEW t \in FsThreads, Rename(t) PROVE FilesInv'
<1> DEFINE c == calls[t]
           ok == /\ CanOpen(c.path)
                 /\ Exists(c.new) => c.new = c.path \/ (Node(c.new).kind # "dir" /\ ~Node(c.new).readonly
                                                        /\ HoldersOf(NodeOf(c.new)) = {})
           N == [p \in Paths |-> CASE p = c.new -> NodeOf(c.path) [] p # c.new /\ p = c.path -> 0 [] OTHER -> fs.names[p]]
           f == [fs EXCEPT !.names = N, !.nodes[NodeOf(c.path)].by = "rename"]
           g == Collected(f, Held("none"))
<1>1. c.op = "rename" /\ c.pc = "start" /\ SameClient
  BY DEF Rename, At
<1>2. AtOnce(t, ok, g)
  BY DEF Rename
<1>3. c.path \in Paths /\ c.new \in Paths
  BY <1>1, CallIsOk DEF CallOk, Parameters
<1>4. ASSUME ok PROVE Good(g, fds, Handles(calls)) /\ NoMoreLoose(fs, g)
  <2> DEFINE p == c.path
             q == c.new
  <2>1. p \in Paths /\ q \in Paths /\ Exists(p)
    BY <1>3, <1>4 DEF CanOpen
  <2>2. NodeOf(p) \in Nodes \cup {0} /\ \A x \in Paths : fs.names[x] \in Nodes \cup {0}
    BY <2>1, NamedIs DEF FilesInv, Good, Sound, VolumeType, NamedIn
  <2>3. N = [x \in Paths |-> CASE x = q -> NodeOf(p) [] x # q /\ x = p -> 0 [] OTHER -> fs.names[x]]
    OBVIOUS
  <2>4. f = Renamed(N, NodeOf(p))
    BY DEF Renamed
  <2> HIDE DEF p, q, N, f, ok
  <2>5. N \in [Paths -> Nodes \cup {0}] /\ N[q] = NodeOf(p) /\ \A x \in Paths : x # q => N[x] \in {0, fs.names[x]}
    <3>1. \A x \in Paths : N[x] = IF x = q THEN NodeOf(p) ELSE IF x = p THEN 0 ELSE fs.names[x]
      BY <2>3
    <3>2. N = [x \in Paths |-> N[x]]
      BY <2>3
    <3> QED
      BY <2>1, <2>2, <3>1, <3>2
  <2>6. Sound(f, fds, Handles(calls)) /\ NoMoreLoose(fs, f)
    BY <2>1, <2>4, <2>5, RenamedGood
  <2>7. Good(g, fds, Handles(calls)) /\ NoMoreLoose(f, g)
    BY <2>6, HeldByAll, CollectedGood
  <2> HIDE DEF g
  <2> QED
    BY <2>6, <2>7, LooseAgain
<1> HIDE DEF g, ok
<1> QED
  BY <1>1, <1>2, <1>4, AtOnceKeeps

LEMMA LinkGood ==
    ASSUME FilesInv, NEW p \in Paths, NEW q \in Paths, Exists(p), Node(p).kind = "file", ~Exists(q),
           NEW g, g = [fs EXCEPT !.names[q] = NodeOf(p)]
    PROVE  Good(g, fds, Handles(calls)) /\ NoMoreLoose(fs, g)
<1> DEFINE h == Handles(calls)
           n == NodeOf(p)
<1>1. Good(fs, fds, h) /\ fs \in VolumeType /\ n \in NamedIn(fs) /\ n \in Nodes /\ fs.names[q] = 0 /\ fs.nodes[n].kind = "file"
  BY NamedIs DEF FilesInv, Good, Sound, NamedIn, Exists, NodeOf, Node
<1>2. g.names = [fs.names EXCEPT ![q] = n] /\ g.nodes = fs.nodes /\ g \in VolumeType
  BY <1>1 DEF VolumeType
<1> HIDE DEF h, n
<1>3. g.names[q] = n /\ \A x \in Paths : x # q => g.names[x] = fs.names[x]
  BY <1>1, <1>2 DEF VolumeType
<1>4. NamedIn(g) = NamedIn(fs)
  BY <1>1, <1>3, NodesAre DEF NamedIn
<1>5. Taken(g) = Taken(fs) /\ AppendsKept(g)
  BY <1>1, <1>2 DEF Good, Sound, Taken, AppendsKept
<1>6. Good(g, fds, h)
  BY <1>1, <1>2, <1>4, <1>5 DEF Good, Sound
<1>7. NoMoreLoose(fs, g)
  BY <1>1, <1>2, <1>3 DEF NoMoreLoose, Loose
<1> QED
  BY <1>6, <1>7 DEF h

LEMMA LinkKeeps == ASSUME FilesInv, NEW t \in FsThreads, Link(t) PROVE FilesInv'
<1> DEFINE p == calls[t].path
           q == calls[t].new
           ok == CanOpen(p) /\ Node(p).kind = "file" /\ ~Exists(q)
           g == [fs EXCEPT !.names[q] = NodeOf(p)]
<1>1. calls[t].op = "link" /\ calls[t].pc = "start" /\ SameClient /\ AtOnce(t, ok, g)
  BY DEF Link, At
<1>2. p \in Paths /\ q \in Paths
  BY <1>1, CallIsOk DEF CallOk, Parameters
<1> HIDE DEF p, q
<1>3. ok => Good(g, fds, Handles(calls)) /\ NoMoreLoose(fs, g)
  BY <1>2, LinkGood DEF CanOpen
<1> HIDE DEF ok, g
<1> QED
  BY <1>1, <1>3, AtOnceKeeps

LEMMA CopyfileKeeps == ASSUME FilesInv, NEW t \in FsThreads, Copyfile(t) PROVE FilesInv'
<1> DEFINE c == calls[t]
           p == c.path
           q == c.new
           ok == /\ CanOpen(p) /\ Node(p).kind = "file"
                 /\ Exists(q) => "COPYFILE_EXCL" \notin c.flags /\ Node(q).kind = "file" /\ ~Node(q).readonly /\ ~Node(q).deleting
           f == IF Exists(q) THEN fs ELSE With(q, "file", Node(p).readonly, "copyfile")
           data == Node(p).data
           g == [f EXCEPT !.nodes[f.names[q]].data = data, !.nodes[f.names[q]].appended = {}]
<1>1. c.op = "copyfile" /\ c.pc = "start" /\ SameClient
  BY DEF Copyfile, At
<1>2. AtOnce(t, ok, g)
  BY ZenonT(30) DEF Copyfile
<1>3. p \in Paths /\ q \in Paths
  BY <1>1, CallIsOk DEF CallOk, Parameters
<1>4. ASSUME ok PROVE Good(g, fds, Handles(calls)) /\ NoMoreLoose(fs, g)
  <2>1. Exists(p)
    BY <1>4 DEF CanOpen
  <2> HIDE DEF p, q, ok
  <2>2. data \in Seq(Int) /\ Node(p).readonly \in BOOLEAN
    <3>1. fs.nodes[NodeOf(p)] \in NodeType
      BY <1>3, <2>1, NamedIs, NodeIs DEF FilesInv
    <3> QED
      BY <3>1 DEF Node, NodeType
  <2> HIDE DEF data
  <2>3. Good(f, fds, Handles(calls)) /\ NoMoreLoose(fs, f) /\ f.names[q] \in NamedIn(f)
    <3>1. CASE Exists(q)
      BY <1>3, <3>1, NamedIs DEF NoMoreLoose, FilesInv, NodeOf
    <3>2. CASE ~Exists(q)
      <4>1. "file" \in Kinds \ {"none"} /\ "copyfile" \in Makers \ {"junction"}
        BY DEF Kinds, Makers
      <4> DEFINE k == With(q, "file", Node(p).readonly, "copyfile")
      <4>2. Good(k, fds, Handles(calls)) /\ NoMoreLoose(fs, k) /\ k.names[q] \in NamedIn(k)
        BY <1>3, <2>2, <3>2, <4>1, NewNameGood
      <4>3. f = k
        BY <3>2
      <4> HIDE DEF f, k
      <4> QED
        BY <4>2, <4>3
    <3> QED
      BY <3>1, <3>2
  <2> HIDE DEF f
  <2>4. {} \in SUBSET Int /\ {} \subseteq ToSet(data) /\ f.names[q] \in NamedIn(f) \cup HeldBy(fds, Handles(calls))
    BY <2>3
  <2>5. Good(g, fds, Handles(calls)) /\ NoMoreLoose(f, g)
    <3> DEFINE n == f.names[q]
               a == {}
               k == [f EXCEPT !.nodes[n].data = data, !.nodes[n].appended = a]
    <3>1. g = k /\ n \in NamedIn(f) \cup HeldBy(fds, Handles(calls)) /\ a \in SUBSET Int /\ a \subseteq ToSet(data)
      BY <2>4
    <3> HIDE DEF n, a, g
    <3>2. Good(k, fds, Handles(calls)) /\ NoMoreLoose(f, k)
      BY <2>2, <2>3, <3>1, DataGood, Zenon
    <3> HIDE DEF k
    <3> QED
      BY <3>1, <3>2
  <2> HIDE DEF g
  <2> QED
    BY <2>3, <2>5, LooseAgain
<1> HIDE DEF g, ok
<1> QED
  BY <1>1, <1>2, <1>4, AtOnceKeeps

LEMMA FsAccessKeeps == ASSUME FilesInv, NEW t \in FsThreads, FsAccess(t) PROVE FilesInv'
<1> DEFINE ok == Exists(calls[t].path) /\ ("W_OK" \in calls[t].flags => ~Node(calls[t].path).readonly \/ Node(calls[t].path).kind = "dir")
<1>1. calls[t].pc = "start" /\ SameClient /\ AtOnce(t, ok, fs)
  BY DEF FsAccess, At
<1>2. Good(fs, fds, Handles(calls)) /\ NoMoreLoose(fs, fs)
  BY DEF FilesInv, NoMoreLoose
<1> HIDE DEF ok
<1> QED
  BY <1>1, <1>2, AtOnceKeeps

LEMMA ChmodKeeps == ASSUME FilesInv, NEW t \in FsThreads, Chmod(t) PROVE FilesInv'
<1> DEFINE p == calls[t].path
           n == NodeOf(p)
           b == calls[t].readonly
           g == [fs EXCEPT !.nodes[n].readonly = b]
<1>1. calls[t].op = "chmod" /\ calls[t].pc = "start" /\ SameClient /\ AtOnce(t, CanOpen(p), g)
  BY DEF Chmod, At
<1>2. p \in Paths /\ b \in BOOLEAN
  BY <1>1, CallIsOk DEF CallOk, Parameters
<1>3. ASSUME CanOpen(p) PROVE Good(g, fds, Handles(calls)) /\ NoMoreLoose(fs, g)
  <2>1. n \in NamedIn(fs) \cup HeldBy(fds, Handles(calls)) /\ Good(fs, fds, Handles(calls))
    BY <1>2, <1>3, NamedIs DEF CanOpen, FilesInv
  <2> HIDE DEF n, b
  <2> QED
    BY <1>2, <2>1, ReadonlyGood
<1> HIDE DEF g, p
<1> QED
  BY <1>1, <1>3, AtOnceKeeps

-----------------------------------------------------------------------------
(* The steps of calls that open what is at a name. *)

\* Where such a call goes, it has a handle.
LEMMA StartKeeps ==
    ASSUME FilesInv, NEW t \in FsThreads, NEW op \in PathOps, calls[t].op = op, calls[t].pc = "start", NEW p,
           OpenExisting(t, calls[t].path, p), p \notin {"idle", "io", "restore"},
           \A d : d.op = op /\ d.pc = p => HasHandle(d), SameVolume, SameClient
    PROVE  FilesInv'
<1>1. calls[t].op \in PathOps /\ \A d : d.op = calls[t].op /\ d.pc = p => HasHandle(d)
  OBVIOUS
<1> QED
  BY <1>1, OpenExistingKeeps

LEMMA UtimeKeeps == ASSUME FilesInv, NEW t \in FsThreads, Utime(t) PROVE FilesInv'
<1> DEFINE c == calls[t]
<1>1. c.op = "utime" /\ "utime" \in PathOps /\ c.op \in PathOps /\ SameClient
  BY DEF Utime, PathOps
<1>2. CASE c.pc = "start" /\ OpenExisting(t, c.path, "set") /\ SameVolume
  <2>1. \A d : d.op = "utime" /\ d.pc = "set" => HasHandle(d)
    BY DEF HasHandle
  <2>2. "set" \notin {"idle", "io", "restore"}
    OBVIOUS
  <2> QED
    BY <1>1, <1>2, <2>1, <2>2, StartKeeps
<1>3. CASE c.pc = "set" /\ Query(t, "close") /\ SameVolume
  <2>1. HasHandle(c) /\ c.pc # "idle" /\ c.pc # "requery"
    BY <1>1, <1>3 DEF HasHandle
  <2>2. c.again = 0 /\ c.mem = 0
    BY <1>1, <2>1, HandleIs
  <2>3. "close" \notin {"idle", "io", "restore"} /\ \A d : d.op = c.op /\ d.pc = "close" => HasHandle(d)
    BY DEF HasHandle
  <2> QED
    BY <1>1, <1>3, <2>1, <2>2, <2>3, QueryKeeps
<1>4. CASE c.pc = "close" /\ CloseAndFinish(t, "ok")
  <2>1. HasHandle(c) /\ c.pc # "idle" /\ c.pc # "requery"
    BY <1>4 DEF HasHandle
  <2>2. c.again = 0 /\ ~c.dir /\ Plainly(c)
    BY <1>1, <2>1, HandleIs
  <2> QED
    BY <1>1, <1>4, <2>2, CloseAndFinishKeeps
<1> QED
  BY <1>2, <1>3, <1>4 DEF Utime

LEMMA StatKeeps == ASSUME FilesInv, NEW t \in FsThreads, Stat(t) PROVE FilesInv'
<1> DEFINE c == calls[t]
           Again(n, p) == [c EXCEPT !.again = n, !.pc = p]
<1>1. c.op \in {"stat", "lstat"} /\ c.op \in PathOps /\ SameClient
  BY DEF Stat, PathOps
<1>2. CASE c.pc = "start" /\ OpenExisting(t, c.path, "query") /\ SameVolume
  <2>1. \A d : d.op = c.op /\ d.pc = "query" => HasHandle(d)
    BY DEF HasHandle
  <2>2. "query" \notin {"idle", "io", "restore"} /\ c.op = c.op
    OBVIOUS
  <2> QED
    BY <1>1, <1>2, <2>1, <2>2, StartKeeps
<1>3. ASSUME c.pc \in {"query", "again", "requery", "close"}
      PROVE  /\ c.pc # "idle" /\ HasHandle(c) /\ (c.pc # "requery" => c.again = 0) /\ c.mem = 0 /\ ~c.dir /\ ~c.ptr /\ ~c.free
             /\ Plainly(c) /\ CallOk(c) /\ c.h # 0
  <2>1. c.pc # "idle" /\ HasHandle(c)
    BY <1>3 DEF HasHandle
  <2>2. /\ (c.pc # "requery" => c.again = 0) /\ c.mem = 0 /\ ~c.dir
        /\ Plainly(c) /\ CallOk(c) /\ c.h # 0
    BY <1>1, <2>1, HandleIs
  <2> QED
    BY <2>1, <2>2 DEF CallOk, Holds
<1>4. CASE c.pc = "query" /\ Query(t, "close") /\ SameVolume
  <2>1. "close" \notin {"idle", "io", "restore"} /\ \A d : d.op = c.op /\ d.pc = "close" => HasHandle(d)
    BY DEF HasHandle
  <2> QED
    BY <1>1, <1>3, <1>4, <2>1, QueryKeeps
<1>5. ASSUME NEW p \in {"again", "fail"}, c.pc \in {"query", "again"}, Goto(t, p), SameVolume
      PROVE  FilesInv'
  <2>1. p \notin {"idle", "io", "restore"} /\ \A d : d.op = c.op /\ d.pc = p => HasHandle(d)
    BY DEF HasHandle
  <2> QED
    BY <1>1, <1>3, <1>5, <2>1, VolumeSame, GoesOnKeeps
<1>6. ASSUME NEW n, NEW p \in {"requery", "close", "fail"}, c.pc \in {"again", "requery"}, SameVolume,
             n # 0 => p = "requery", Now(t, Again(n, p))
      PROVE  FilesInv'
  <2> DEFINE d == Again(n, p)
  <2>1. CallOk(c) /\ Plainly(c) /\ c.pc # "idle" /\ c.h # 0 /\ c.mem = 0 /\ ~c.dir /\ ~c.ptr /\ ~c.free
    BY <1>3, <1>6
  <2>2. Same(c, d) /\ Is(d, p, c.h, n, c.mem, c.ptr, c.free, c.dir, c.bytes, c.saved)
    <3> HIDE DEF c
    <3> QED
      BY <2>1, AgainIs, Zenon
  <2>3. Now(t, d)
    BY <1>6
  <2>4. c.bytes \in Nat /\ c.saved \in Int /\ c.op \notin {"read", "write"} /\ p \notin {"idle", "io", "restore"}
    BY <1>1, <2>1 DEF CallOk
  <2> HIDE DEF d
  <2>5. d.op = c.op /\ d.pc = p
    BY <2>2 DEF Same, Is
  <2>6. HasHandle(d) /\ ~UsesFd(d) /\ d.h = c.h
    BY <1>1, <2>2, <2>5 DEF HasHandle, UsesFd, Is
  <2>7. Holds(d)
    BY <1>6, <2>1, <2>2, <2>5, <2>6 DEF Holds, Is
  <2>8. CallOk(d) /\ Used(d) = Used(c) /\ d.op = c.op
    <3> HIDE DEF c
    <3> QED
      BY <2>1, <2>2, <2>4, <2>7, SameIsOk
  <2> QED
    BY <1>1, <1>6, <2>1, <2>3, <2>6, <2>8, StepGoesQuietly
<1>7. CASE c.pc = "again" /\ CanOpen(c.path) /\ SameVolume /\ Now(t, [c EXCEPT !.again = NodeOf(c.path), !.pc = "requery"])
  <2> DEFINE n == NodeOf(c.path)
  <2>1. c.pc \in {"again", "requery"} /\ SameVolume /\ Now(t, Again(n, "requery"))
    BY <1>7
  <2> HIDE DEF c, n, Again
  <2> QED
    BY <1>6, <2>1
<1>8. CASE c.pc = "requery" /\ SameVolume /\ \E r \in {"close", "fail"} : Now(t, [c EXCEPT !.again = 0, !.pc = r])
  <2>1. PICK r \in {"close", "fail"} : Now(t, Again(0, r))
    BY <1>8
  <2>2. c.pc \in {"again", "requery"} /\ SameVolume
    BY <1>8
  <2> HIDE DEF c, Again
  <2> QED
    BY <1>6, <2>1, <2>2
<1>9. CASE c.pc = "close" /\ CloseAndFinish(t, "ok")
  BY <1>1, <1>3, <1>9, CloseAndFinishKeeps
<1>10. \/ c.pc = "start" /\ OpenExisting(t, c.path, "query") /\ SameVolume
       \/ c.pc = "query" /\ Query(t, "close") /\ SameVolume
       \/ c.pc = "query" /\ Goto(t, "again") /\ SameVolume
       \/ c.pc = "again" /\ Goto(t, "fail") /\ SameVolume
       \/ c.pc = "again" /\ CanOpen(c.path) /\ SameVolume /\ Now(t, [c EXCEPT !.again = NodeOf(c.path), !.pc = "requery"])
       \/ c.pc = "requery" /\ SameVolume /\ \E r \in {"close", "fail"} : Now(t, [c EXCEPT !.again = 0, !.pc = r])
       \/ c.pc = "close" /\ CloseAndFinish(t, "ok")
  BY DEF Stat
<1> HIDE DEF c
<1> QED
  BY <1>2, <1>4, <1>5, <1>7, <1>8, <1>9, <1>10

LEMMA FsReadlinkKeeps == ASSUME FilesInv, NEW t \in FsThreads, FsReadlink(t) PROVE FilesInv'
<1> DEFINE c == calls[t]
<1>1. c.op = "readlink" /\ c.op \in PathOps /\ SameClient
  BY DEF FsReadlink, PathOps
<1>2. CASE c.pc = "start" /\ OpenExisting(t, c.path, "read") /\ SameVolume
  <2>1. \A d : d.op = c.op /\ d.pc = "read" => HasHandle(d)
    BY <1>1 DEF HasHandle
  <2>2. "read" \notin {"idle", "io", "restore"} /\ c.op = c.op
    OBVIOUS
  <2> QED
    BY <1>1, <1>2, <2>1, <2>2, StartKeeps
<1>3. ASSUME c.pc \in {"read", "close"}
      PROVE  c.pc # "idle" /\ HasHandle(c) /\ c.again = 0 /\ c.mem = 0 /\ ~c.dir /\ Plainly(c)
  <2>1. c.pc # "idle" /\ HasHandle(c) /\ c.pc # "requery"
    BY <1>1, <1>3 DEF HasHandle
  <2> QED
    BY <1>1, <2>1, HandleIs
<1>4. ASSUME NEW p \in {"close", "fail"}
      PROVE  p \notin {"idle", "io", "restore"} /\ \A d : d.op = c.op /\ d.pc = p => HasHandle(d)
  BY DEF HasHandle
<1>5. CASE c.pc = "read" /\ Query(t, "close") /\ SameVolume
  BY <1>1, <1>3, <1>4, <1>5, QueryKeeps
<1>6. CASE c.pc = "read" /\ Goto(t, "fail") /\ SameVolume
  BY <1>1, <1>3, <1>4, <1>6, VolumeSame, GoesOnKeeps
<1>7. CASE c.pc = "close" /\ GiveResult(t)
  BY <1>1, <1>3, <1>7, GiveResultKeeps
<1> QED
  BY <1>2, <1>5, <1>6, <1>7 DEF FsReadlink

LEMMA FsRealpathKeeps == ASSUME FilesInv, NEW t \in FsThreads, FsRealpath(t) PROVE FilesInv'
<1> DEFINE c == calls[t]
           d == [c EXCEPT !.mem = 1, !.pc = "path"]
<1>1. c.op = "realpath" /\ c.op \in PathOps /\ SameClient
  BY DEF FsRealpath, PathOps
<1>2. CASE c.pc = "start" /\ OpenExisting(t, c.path, "length") /\ SameVolume
  <2>1. \A e : e.op = c.op /\ e.pc = "length" => HasHandle(e)
    BY DEF HasHandle
  <2>2. "length" \notin {"idle", "io", "restore"} /\ c.op = c.op
    OBVIOUS
  <2> QED
    BY <1>1, <1>2, <2>1, <2>2, StartKeeps
<1>3. ASSUME c.pc \in {"length", "memory", "path", "convert", "close"}
      PROVE  /\ c.pc # "idle" /\ HasHandle(c) /\ c.again = 0 /\ ~c.dir /\ Plainly(c) /\ CallOk(c) /\ c.h # 0 /\ ~c.ptr /\ ~c.free
             /\ c.pc \in {"length", "memory"} => c.mem = 0
  <2>1. c.pc # "idle" /\ HasHandle(c) /\ c.pc # "requery"
    BY <1>3 DEF HasHandle
  <2>2. c.again = 0 /\ ~c.dir /\ Plainly(c) /\ CallOk(c) /\ c.h # 0
    BY <1>1, <2>1, HandleIs
  <2>3. c.pc \in {"length", "memory"} => ~HasMemory(c)
    BY <1>1 DEF HasMemory
  <2> QED
    BY <2>1, <2>2, <2>3 DEF CallOk, Holds
<1>4. ASSUME NEW p \in {"memory", "convert", "close", "fail"}, p = "memory" => c.mem = 0
      PROVE  p \notin {"idle", "io", "restore"} /\ \A e : e.op = c.op /\ e.pc = p => HasHandle(e) /\ (c.mem = 0 \/ HasMemory(e))
  BY <1>1, <1>4 DEF HasHandle, HasMemory
<1>5. CASE c.pc = "length" /\ Query(t, "memory") /\ SameVolume
  BY <1>1, <1>3, <1>4, <1>5, QueryKeeps
<1>6. CASE c.pc = "memory" /\ Goto(t, "fail") /\ SameVolume
  BY <1>1, <1>3, <1>4, <1>6, VolumeSame, GoesOnKeeps
<1>7. CASE c.pc = "path" /\ Query(t, "convert") /\ SameVolume
  BY <1>1, <1>3, <1>4, <1>7, QueryKeeps
<1>8. CASE c.pc = "convert" /\ Query(t, "close") /\ SameVolume
  BY <1>1, <1>3, <1>4, <1>8, QueryKeeps
<1>9. CASE c.pc = "close" /\ GiveResult(t)
  BY <1>1, <1>3, <1>9, GiveResultKeeps
<1>10. CASE c.pc = "memory" /\ Now(t, d) /\ SameVolume
  <2>1. CallOk(c) /\ Plainly(c) /\ c.pc # "idle" /\ c.h # 0 /\ c.again = 0 /\ ~c.dir /\ ~c.ptr /\ ~c.free
    BY <1>3, <1>10
  <2>2. Same(c, d) /\ Is(d, "path", c.h, c.again, 1, c.ptr, c.free, c.dir, c.bytes, c.saved)
    <3> HIDE DEF c
    <3> QED
      BY <2>1, MemIs, Zenon
  <2>4. c.bytes \in Nat /\ c.saved \in Int /\ c.op \notin {"read", "write"}
    BY <1>1, <2>1 DEF CallOk
  <2> HIDE DEF d
  <2>5. d.op = "realpath" /\ d.pc = "path"
    BY <1>1, <2>2 DEF Same, Is
  <2>6. HasHandle(d) /\ HasMemory(d) /\ ~UsesFd(d) /\ d.h = c.h
    BY <2>2, <2>5 DEF HasHandle, HasMemory, UsesFd, Is
  <2>7. Holds(d)
    BY <2>1, <2>2, <2>5, <2>6 DEF Holds, Is
  <2>8. CallOk(d) /\ Used(d) = Used(c) /\ d.op = c.op
    <3> HIDE DEF c
    <3> QED
      BY <2>1, <2>2, <2>4, <2>7, SameIsOk
  <2> QED
    BY <1>1, <1>10, <2>1, <2>6, <2>8, StepGoesQuietly
<1>11. \/ c.pc = "start" /\ OpenExisting(t, c.path, "length") /\ SameVolume
       \/ c.pc = "length" /\ Query(t, "memory") /\ SameVolume
       \/ c.pc = "memory" /\ Goto(t, "fail") /\ SameVolume
       \/ c.pc = "path" /\ Query(t, "convert") /\ SameVolume
       \/ c.pc = "convert" /\ Query(t, "close") /\ SameVolume
       \/ c.pc = "close" /\ GiveResult(t)
       \/ c.pc = "memory" /\ Now(t, d) /\ SameVolume
  BY DEF FsRealpath
<1> HIDE DEF c, d
<1> QED
  BY <1>2, <1>5, <1>6, <1>7, <1>8, <1>9, <1>10, <1>11

LEMMA FsFailsKeeps == ASSUME FilesInv, NEW t \in FsThreads, FsFails(t) PROVE FilesInv'
<1> DEFINE c == calls[t]
<1>1. c.op \in PathOps /\ c.pc = "fail" /\ CloseAndFinish(t, "error") /\ SameClient
  BY DEF FsFails, Fails, At, PathOps
<1>2. HasHandle(c) /\ c.pc # "idle" /\ c.pc # "requery"
  BY <1>1 DEF HasHandle
<1>3. c.again = 0 /\ ~c.dir /\ Plainly(c)
  BY <1>1, <1>2, HandleIs
<1> QED
  BY <1>1, <1>3, CloseAndFinishKeeps

\* The reading of a directory has what it has read in memory.
LEMMA ScandirKeeps == ASSUME FilesInv, NEW t \in FsThreads, Scandir(t) PROVE FilesInv'
<1> DEFINE c == calls[t]
<1>1. c.op = "scandir" /\ SameVolume /\ SameClient /\ c.pc \in {"start", "chunk", "cleanup"}
  <2>1. c.op = "scandir" /\ SameVolume /\ SameClient
    BY ZenonT(30) DEF Scandir
  <2>2. c.pc = "start" \/ c.pc = "chunk" \/ c.pc = "cleanup"
    BY ZenonT(30) DEF Scandir
  <2> QED
    BY <2>1, <2>2
<1>2. CallOk(c)
  BY CallIsOk
<1>3. Plainly(c) /\ c.h = 0 /\ c.again = 0 /\ ~c.ptr /\ ~c.free /\ c.bytes \in Nat /\ c.saved \in Int
  <2>1. Holds(c) /\ ~HasHandle(c) /\ Plainly(c)
    BY <1>1, <1>2 DEF CallOk, HasHandle, Plainly
  <2> QED
    BY <1>1, <1>2, <2>1 DEF Holds, CallOk
<1>4. ASSUME NEW d, NEW pc \in {"chunk", "cleanup"}, NEW mem, NEW dir, Same(c, d),
             Is(d, pc, c.h, c.again, mem, c.ptr, c.free, dir, c.bytes, c.saved), Now(t, d)
      PROVE  FilesInv'
  <2>1. d.op = "scandir" /\ d.pc = pc
    BY <1>1, <1>4 DEF Same, Is
  <2>2. ~HasHandle(d) /\ HasMemory(d) /\ ~UsesFd(d) /\ d.h = c.h
    BY <1>4, <2>1 DEF HasHandle, HasMemory, UsesFd, Is
  <2>3. Holds(d)
    BY <1>3, <1>4, <2>1, <2>2 DEF Holds, Is
  <2>4. c.pc # "idle" /\ pc \notin {"idle", "io", "restore"} /\ c.op \notin {"read", "write"}
    BY <1>1
  <2>5. CallOk(d) /\ Used(d) = Used(c) /\ d.op = c.op
    <3> HIDE DEF c
    <3> QED
      BY <1>2, <1>3, <1>4, <2>3, <2>4, SameIsOk
  <2> QED
    BY <1>1, <1>3, <1>4, <2>2, <2>5, StepGoesQuietly
<1>5. ASSUME NEW d, EndedCall(d), Now(t, d) PROVE FilesInv'
  BY <1>1, <1>3, <1>5, StepEndsQuietly
<1>6. CASE Now(t, [c EXCEPT !.pc = "chunk", !.rest = Paths, !.dir = TRUE])
  <2> DEFINE d == [c EXCEPT !.pc = "chunk", !.rest = Paths, !.dir = TRUE]
  <2>1. Same(c, d) /\ Is(d, "chunk", c.h, c.again, c.mem, c.ptr, c.free, TRUE, c.bytes, c.saved)
    <3> HIDE DEF c
    <3> QED
      BY <1>2, EntriesAre, Zenon
  <2>2. Now(t, d)
    BY <1>6
  <2> HIDE DEF c, d
  <2> QED
    BY <1>4, <2>1, <2>2
<1>7. CASE c.pc = "chunk" /\ \E p \in c.rest : Now(t, [c EXCEPT !.rest = c.rest \ {p}, !.mem = c.mem + 1])
  <2>3. PICK p \in c.rest : Now(t, [c EXCEPT !.rest = c.rest \ {p}, !.mem = c.mem + 1])
    BY <1>7, Zenon
  <2> DEFINE r == c.rest \ {p}
             m == c.mem + 1
             d == [c EXCEPT !.rest = r, !.mem = m]
  <2>1. Same(c, d) /\ Is(d, c.pc, c.h, c.again, m, c.ptr, c.free, c.dir, c.bytes, c.saved)
    <3> HIDE DEF c, r, m
    <3> QED
      BY <1>2, EntriesAre, Zenon
  <2>2. Now(t, d) /\ c.pc \in {"chunk", "cleanup"}
    BY <1>7, <2>3
  <2> HIDE DEF c, d, m
  <2> QED
    BY <1>4, <2>1, <2>2
<1>8. CASE Goto(t, "cleanup")
  <2> DEFINE d == [c EXCEPT !.pc = "cleanup"]
  <2>1. Same(c, d) /\ Is(d, "cleanup", c.h, c.again, c.mem, c.ptr, c.free, c.dir, c.bytes, c.saved)
    <3> HIDE DEF c
    <3> QED
      BY <1>2, GotoIs
  <2>2. Now(t, d)
    BY <1>8 DEF Goto
  <2> HIDE DEF c, d
  <2> QED
    BY <1>4, <2>1, <2>2
<1>9. CASE c.pc = "start" /\ Finish(t, "error")
  BY <1>1, <1>9, StartIs, FinishQuietlyKeeps
<1>10. CASE \E b \in BOOLEAN : Now(t, [Finished(c, "ok") EXCEPT !.dir = FALSE, !.mem = 0, !.ptr = b, !.free = b])
  <2>3. PICK b \in BOOLEAN : Now(t, [Finished(c, "ok") EXCEPT !.dir = FALSE, !.mem = 0, !.ptr = b, !.free = b])
    BY <1>10, Zenon
  <2> DEFINE d == [Finished(c, "ok") EXCEPT !.dir = FALSE, !.mem = 0, !.ptr = b, !.free = b]
  <2>1. EndedCall(d)
    <3> HIDE DEF c
    <3> QED
      BY <1>2, <1>3, CallEndsAre, Zenon
  <2>2. Now(t, d)
    BY <2>3
  <2> HIDE DEF d
  <2> QED
    BY <1>5, <2>1, <2>2
<1>11. CASE ScandirEnds(t)
  <2> DEFINE d == [Finished(c, "error") EXCEPT !.dir = FALSE, !.mem = 0]
  <2>1. EndedCall(d)
    <3> HIDE DEF c
    <3> QED
      BY <1>2, <1>3, CallEndsAre, Zenon
  <2>2. Now(t, d)
    BY <1>11 DEF ScandirEnds
  <2> HIDE DEF d
  <2> QED
    BY <1>5, <2>1, <2>2
<1>12. \/ Now(t, [c EXCEPT !.pc = "chunk", !.rest = Paths, !.dir = TRUE])
       \/ c.pc = "chunk" /\ \E p \in c.rest : Now(t, [c EXCEPT !.rest = c.rest \ {p}, !.mem = c.mem + 1])
       \/ Goto(t, "cleanup")
       \/ c.pc = "start" /\ Finish(t, "error")
       \/ \E b \in BOOLEAN : Now(t, [Finished(c, "ok") EXCEPT !.dir = FALSE, !.mem = 0, !.ptr = b, !.free = b])
       \/ ScandirEnds(t)
  <2>1. (c.mem > 0) \in BOOLEAN
    OBVIOUS
  <2> QED
    BY <2>1, ZenonT(60) DEF Scandir
<1> HIDE DEF c
<1> QED
  BY <1>6, <1>7, <1>8, <1>9, <1>10, <1>11, <1>12, Zenon

-----------------------------------------------------------------------------
(* Links. *)

LEMMA NothingKeeps == ASSUME FilesInv, UNCHANGED <<fs, fds, calls, menu, made>> PROVE FilesInv'
<1>1. fs' = fs /\ fds' = fds /\ calls' = calls /\ menu' = menu /\ made' = made
  OBVIOUS
<1>2. /\ menu' \in DOMAIN Menus /\ made' \in Nat /\ Good(fs', fds', Handles(calls'))
      /\ calls' = [t \in FsThreads |-> calls'[t]] /\ \A t \in FsThreads : CallOk(calls'[t])
      /\ Undone(fs', calls') /\ FdsInUse(fds', calls')
  BY <1>1 DEF FilesInv
<1> QED
  BY <1>2 DEF FilesInv

LEMMA SymlinkKeeps == ASSUME FilesInv, NEW t \in FsThreads, Symlink(t) PROVE FilesInv'
<1> DEFINE p == calls[t].path
           ok == ~Exists(p)
           g == With(p, "link", FALSE, "symlink")
<1>1. calls[t].op = "symlink" /\ calls[t].pc = "start"
  BY DEF Symlink, At
<1>2. p \in Paths
  BY <1>1, CallIsOk DEF CallOk, Parameters
<1>3. "link" \in Kinds \ {"none"} /\ "symlink" \in Makers \ {"junction"}
  BY DEF Kinds, Makers
<1>4. ok => Good(g, fds, Handles(calls)) /\ NoMoreLoose(fs, g)
  BY <1>2, <1>3, NewNameGood
<1>5. CASE AtOnce(t, ok, g) /\ SameClient
  <2> HIDE DEF p, ok, g
  <2> QED
    BY <1>1, <1>4, <1>5, AtOnceKeeps
<1>6. CASE SameVolume /\ UNCHANGED <<calls, menu, made>>
  BY <1>6, NothingKeeps DEF SameVolume
<1> QED
  BY <1>5, <1>6 DEF Symlink

\* A call that makes a junction: what it has where it is, and where it goes.
LEMMA JunctionCallIs ==
    ASSUME FilesInv, NEW t \in FsThreads, calls[t].op = "symlink", "SYMLINK_JUNCTION" \in calls[t].flags,
           calls[t].pc \in {"start", "mkdir", "open", "set", "remove", "close"}
    PROVE  LET c == calls[t]
           IN  /\ CallOk(c) /\ c.path \in Paths /\ c.again = 0 /\ ~c.dir /\ ~c.ptr /\ ~c.free
               /\ c.pc \in {"start", "mkdir", "open", "remove"} => c.h = 0
               /\ c.pc \in {"set", "close"} => c.h # 0 /\ c.h \in NamedIn(fs) \cup HeldBy(fds, Handles(calls))
               /\ c.pc \in {"start", "remove"} => c.mem = 0
               /\ c.pc \in {"start", "mkdir", "close"} => Plainly(c)
               /\ \A p, n : Undoes(c, p, n) <=> p = c.path /\ (c.pc \in {"open", "remove"} \/ (c.pc = "set" /\ c.h = n))
<1> DEFINE c == calls[t]
<1>1. CallOk(c) /\ c.op = "symlink" /\ "SYMLINK_JUNCTION" \in c.flags
      /\ c.pc \in {"start", "mkdir", "open", "set", "remove", "close"}
  BY CallIsOk
<1>2. c.h \in Nodes \cup {0} /\ Handles(calls)[t] = c.h
  BY DEF FilesInv, Good, Sound, Handles
<1> HIDE DEF c
<1>3. Holds(c) /\ Parameters(c)
  BY <1>1 DEF CallOk
<1>4. c.path \in Paths
  BY <1>1, <1>3 DEF Parameters
<1>5. HasHandle(c) <=> c.pc \in {"set", "close"}
  BY <1>1 DEF HasHandle
<1>6. c.pc \in {"start", "remove"} => ~HasMemory(c)
  BY <1>1 DEF HasMemory
<1>7. c.again = 0 /\ ~c.dir /\ ~c.ptr /\ ~c.free /\ (c.h # 0 <=> c.pc \in {"set", "close"}) /\ (c.pc \in {"start", "remove"} => c.mem = 0)
  BY <1>1, <1>3, <1>5, <1>6 DEF Holds
<1>8. c.h # 0 => c.h \in HeldBy(fds, Handles(calls))
  BY <1>2 DEF HeldBy
<1>9. c.pc \in {"start", "mkdir", "close"} => Plainly(c)
  BY <1>1 DEF Plainly
<1>10. \A p, n : Undoes(c, p, n) <=> p = c.path /\ (c.pc \in {"open", "remove"} \/ (c.pc = "set" /\ c.h = n))
  BY <1>1 DEF Undoes
<1> QED
  BY <1>1, <1>4, <1>7, <1>8, <1>9, <1>10 DEF c

\* Where it can go with which handle and memory, and what the call then is.
MayGo(pc, h, mem) ==
    /\ pc \in {"mkdir", "open", "set", "remove", "close"}
    /\ h # 0 <=> pc \in {"set", "close"}
    /\ mem # 0 => pc # "remove"

Goes(c, d, h) ==
    /\ CallOk(d) /\ Used(d) = Used(c) /\ d.op = c.op /\ ~UsesFd(d) /\ d.h = h
    /\ \A p, n : Undoes(d, p, n) <=> p = c.path /\ (d.pc \in {"open", "remove"} \/ (d.pc = "set" /\ h = n))

LEMMA JunctionGoes ==
    ASSUME NEW c, CallOk(c), c.op = "symlink", "SYMLINK_JUNCTION" \in c.flags, c.pc # "idle",
           c.again = 0, ~c.dir, ~c.ptr, ~c.free, NEW d, Same(c, d), NEW pc, NEW h, NEW mem, MayGo(pc, h, mem),
           Is(d, pc, h, c.again, mem, c.ptr, c.free, c.dir, c.bytes, c.saved)
    PROVE  Goes(c, d, h) /\ d.pc = pc
<1> USE DEF MayGo
<1>1. d.op = "symlink" /\ d.pc = pc /\ d.h = h /\ d.flags = c.flags /\ d.path = c.path
  BY DEF Same, Is, CallOk, Parameters
<1>2. (HasHandle(d) <=> pc \in {"set", "close"}) /\ (pc # "remove" => HasMemory(d)) /\ ~UsesFd(d)
  BY <1>1 DEF HasHandle, HasMemory, UsesFd
<1>3. Holds(d)
  BY <1>1, <1>2 DEF Holds, Is
<1>4. c.bytes \in Nat /\ c.saved \in Int /\ c.op \notin {"read", "write"} /\ pc \notin {"idle", "io", "restore"}
  BY DEF CallOk
<1>5. CallOk(d) /\ Used(d) = Used(c) /\ d.op = c.op
  BY <1>3, <1>4, SameIsOk
<1>6. \A p, n : Undoes(d, p, n) <=> p = c.path /\ (d.pc \in {"open", "remove"} \/ (d.pc = "set" /\ h = n))
  BY <1>1 DEF Undoes
<1> QED
  BY <1>1, <1>2, <1>5, <1>6 DEF Goes

\* Its step, whatever it does to the volume.
LEMMA JunctionStepKeeps ==
    ASSUME FilesInv, NEW t \in FsThreads, calls[t].pc # "idle", NEW d, Now(t, d), CallOk(d), ~UsesFd(d),
           d.op = calls[t].op \/ d.pc = "idle", Used(d) = Used(calls[t]) \/ d.pc = "idle",
           Good(fs', fds, [Handles(calls) EXCEPT ![t] = d.h]), UNCHANGED fds,
           \A p \in Paths : Loose(fs', p) => \/ Undoes(d, p, fs'.names[p])
                                             \/ /\ Loose(fs, p) /\ fs'.names[p] = fs.names[p]
                                                /\ ~Undoes(calls[t], p, fs.names[p]),
           SameClient
    PROVE  FilesInv'
<1>1. Good(fs', fds', [Handles(calls) EXCEPT ![t] = d.h]) /\ fds' = fds
  OBVIOUS
<1>2. menu' = menu /\ made' = made
  BY DEF SameClient
<1>3. \A fd \in Fds : fds'[fd] = NoFd => fds[fd] = NoFd \/ (calls[t].op = "close" /\ fd = calls[t].fd)
  BY <1>1
<1> QED
  BY <1>1, <1>2, <1>3, StepKeeps

LEMMA JunctionIsMade ==
    ASSUME FilesInv, NEW t \in FsThreads, FsJunction(t), calls[t].pc \in {"start", "mkdir"}
    PROVE  FilesInv'
<1> DEFINE c == calls[t]
           p == c.path
<1>1. c.op = "symlink" /\ "SYMLINK_JUNCTION" \in c.flags /\ SameClient /\ c.pc # "idle"
  BY DEF FsJunction
<1>2. /\ CallOk(c) /\ p \in Paths /\ c.again = 0 /\ ~c.dir /\ ~c.ptr /\ ~c.free /\ c.h = 0 /\ Plainly(c)
      /\ \A q, n : ~Undoes(c, q, n)
  <2>1. c.pc \in {"start", "mkdir", "open", "set", "remove", "close"}
    OBVIOUS
  <2> QED
    BY <1>1, <2>1, JunctionCallIs, PlainlyIs
<1>3. CASE c.pc = "start" /\ SameVolume /\ Now(t, [c EXCEPT !.mem = 1, !.pc = "mkdir"])
  <2> DEFINE d == [c EXCEPT !.mem = 1, !.pc = "mkdir"]
  <2>1. Same(c, d) /\ Is(d, "mkdir", c.h, c.again, 1, c.ptr, c.free, c.dir, c.bytes, c.saved)
    <3> HIDE DEF c
    <3> QED
      BY <1>2, MemIs, Zenon
  <2>2. Now(t, d)
    BY <1>3
  <2> HIDE DEF d
  <2>3. CallOk(d) /\ Used(d) = Used(c) /\ d.op = c.op /\ ~UsesFd(d) /\ d.h = c.h
    <3>1. MayGo("mkdir", c.h, 1)
      BY <1>2 DEF MayGo
    <3> HIDE DEF c
    <3>2. Goes(c, d, c.h)
      BY <1>1, <1>2, <2>1, <3>1, JunctionGoes, Zenon
    <3> QED
      BY <3>2 DEF Goes
  <2> QED
    BY <1>1, <1>2, <1>3, <2>2, <2>3, StepGoesQuietly
<1>4. CASE c.pc = "mkdir" /\ ~Exists(p) /\ UNCHANGED fds /\ fs' = With(p, "dir", FALSE, "junction") /\ Goto(t, "open")
  <2> DEFINE d == [c EXCEPT !.pc = "open"]
             g == With(p, "dir", FALSE, "junction")
  <2>1. Same(c, d) /\ Is(d, "open", c.h, c.again, c.mem, c.ptr, c.free, c.dir, c.bytes, c.saved)
    <3> HIDE DEF c
    <3> QED
      BY <1>2, GotoIs
  <2>2. Now(t, d)
    BY <1>4 DEF Goto
  <2> HIDE DEF d
  <2>3. /\ CallOk(d) /\ Used(d) = Used(c) /\ d.op = c.op /\ ~UsesFd(d) /\ d.h = c.h
        /\ \A q, n : Undoes(d, q, n) <=> q = p
    <3>1. MayGo("open", c.h, c.mem)
      BY <1>2 DEF MayGo
    <3> HIDE DEF c
    <3>2. Goes(c, d, c.h) /\ d.pc = "open"
      BY <1>1, <1>2, <2>1, <3>1, JunctionGoes, Zenon
    <3> QED
      BY <3>2 DEF Goes
  <2>4. NewName(g, Handles(calls), p, "dir", "junction")
    <3>1. "dir" \in Kinds \ {"none"} /\ "junction" \in Makers /\ FALSE \in BOOLEAN
      BY DEF Kinds, Makers
    <3>2. Good(fs, fds, Handles(calls)) /\ Held("none") = HeldBy(fds, Handles(calls)) /\ ~Exists(p) /\ p \in Paths
      BY <1>2, <1>4, HeldByAll DEF FilesInv
    <3> HIDE DEF p
    <3> QED
      BY <3>1, <3>2, WithGood, Zenon
  <2>5. fs' = g /\ fds' = fds
    BY <1>4
  <2> HIDE DEF g
  <2>6. Good(fs', fds, Handles(calls))
    BY <2>4, <2>5 DEF NewName
  <2>7. \A q \in Paths : Loose(fs', q) => q = p \/ (Loose(fs, q) /\ fs'.names[q] = fs.names[q])
    BY <2>4, <2>5 DEF NewName
  <2>8. Good(fs', fds, [Handles(calls) EXCEPT ![t] = d.h])
    BY <2>3, <2>6, HandlesSame
  <2>9. \A q \in Paths : Loose(fs', q) => \/ Undoes(d, q, fs'.names[q])
                                          \/ /\ Loose(fs, q) /\ fs'.names[q] = fs.names[q]
                                             /\ ~Undoes(calls[t], q, fs.names[q])
    BY <1>2, <2>3, <2>7
  <2> HIDE DEF p
  <2> QED
    BY <1>1, <2>2, <2>3, <2>5, <2>8, <2>9, JunctionStepKeeps
<1>5. CASE SameVolume /\ Now(t, [Finished(c, "error") EXCEPT !.mem = 0])
  <2> DEFINE d == [Finished(c, "error") EXCEPT !.mem = 0]
  <2>1. EndedCall(d)
    <3> HIDE DEF c
    <3> QED
      BY <1>2, CallEndsAre, Zenon
  <2>2. Now(t, d)
    BY <1>5
  <2> HIDE DEF d
  <2> QED
    BY <1>1, <1>2, <1>5, <2>1, <2>2, StepEndsQuietly
<1>6. \/ c.pc = "start" /\ SameVolume /\ Now(t, [c EXCEPT !.mem = 1, !.pc = "mkdir"])
      \/ c.pc = "mkdir" /\ ~Exists(p) /\ UNCHANGED fds /\ fs' = With(p, "dir", FALSE, "junction") /\ Goto(t, "open")
      \/ SameVolume /\ Now(t, [Finished(c, "error") EXCEPT !.mem = 0])
  BY ZenonT(60) DEF FsJunction
<1> HIDE DEF c, p
<1> QED
  BY <1>3, <1>4, <1>5, <1>6

LEMMA JunctionIsOpened ==
    ASSUME FilesInv, NEW t \in FsThreads, FsJunction(t), calls[t].pc = "open"
    PROVE  FilesInv'
<1> DEFINE c == calls[t]
           p == c.path
<1>1. c.op = "symlink" /\ "SYMLINK_JUNCTION" \in c.flags /\ SameClient /\ c.pc # "idle" /\ c.pc = "open"
  BY DEF FsJunction
<1>2. /\ CallOk(c) /\ p \in Paths /\ c.again = 0 /\ ~c.dir /\ ~c.ptr /\ ~c.free /\ c.h = 0
      /\ \A q, n : Undoes(c, q, n) <=> q = p
  <2>1. c.pc \in {"start", "mkdir", "open", "set", "remove", "close"}
    BY <1>1
  <2>2. /\ CallOk(c) /\ p \in Paths /\ c.again = 0 /\ ~c.dir /\ ~c.ptr /\ ~c.free /\ c.h = 0
        /\ \A q, n : Undoes(c, q, n) <=> q = p /\ (c.pc \in {"open", "remove"} \/ (c.pc = "set" /\ c.h = n))
    BY <1>1, <2>1, JunctionCallIs
  <2> HIDE DEF c, p
  <2> QED
    BY <1>1, <2>2
<1>3. CASE CanOpen(p) /\ SameVolume /\ Now(t, [c EXCEPT !.h = NodeOf(p), !.pc = "set"])
  <2> DEFINE n == NodeOf(p)
             d == [c EXCEPT !.h = n, !.pc = "set"]
  <2>1. Same(c, d) /\ Is(d, "set", n, c.again, c.mem, c.ptr, c.free, c.dir, c.bytes, c.saved)
    <3> HIDE DEF c, n
    <3>1. CallOk(c)
      BY <1>2
    <3> QED
      BY <3>1, OpenIs, Zenon
  <2>2. Now(t, d) /\ fs' = fs /\ fds' = fds
    BY <1>3 DEF SameVolume
  <2>3. n \in NamedIn(fs) /\ n # 0
    BY <1>2, <1>3, NamedIs DEF CanOpen
  <2>10. n = fs.names[p]
    BY DEF NodeOf
  <2> HIDE DEF d, n
  <2>4. /\ CallOk(d) /\ Used(d) = Used(c) /\ d.op = c.op /\ ~UsesFd(d) /\ d.h = n
        /\ \A q, m : Undoes(d, q, m) <=> q = p /\ n = m
    <3>1. MayGo("set", n, c.mem)
      BY <2>3 DEF MayGo
    <3> HIDE DEF c
    <3>2. Goes(c, d, n) /\ d.pc = "set"
      BY <1>1, <1>2, <2>1, <3>1, JunctionGoes, Zenon
    <3> QED
      BY <3>2 DEF Goes
  <2>5. Good(fs', fds, [Handles(calls) EXCEPT ![t] = d.h])
    <3>1. Good(fs, fds, Handles(calls)) /\ Handles(calls)[t] = 0
      BY <1>2 DEF FilesInv, Handles
    <3> QED
      BY <2>2, <2>3, <2>4, <3>1, HandleTaken
  <2>6. \A q \in Paths : Loose(fs', q) => \/ Undoes(d, q, fs'.names[q])
                                          \/ /\ Loose(fs, q) /\ fs'.names[q] = fs.names[q]
                                             /\ ~Undoes(calls[t], q, fs.names[q])
    BY <1>2, <2>2, <2>4, <2>10
  <2> HIDE DEF p
  <2> QED
    BY <1>1, <2>2, <2>4, <2>5, <2>6, JunctionStepKeeps
<1>4. CASE SameVolume /\ Now(t, [c EXCEPT !.mem = 0, !.pc = "remove"])
  <2> DEFINE d == [c EXCEPT !.mem = 0, !.pc = "remove"]
  <2>1. Same(c, d) /\ Is(d, "remove", c.h, c.again, 0, c.ptr, c.free, c.dir, c.bytes, c.saved)
    <3> HIDE DEF c
    <3> QED
      BY <1>2, MemIs, Zenon
  <2>2. Now(t, d) /\ fs' = fs /\ fds' = fds
    BY <1>4 DEF SameVolume
  <2> HIDE DEF d
  <2>4. /\ CallOk(d) /\ Used(d) = Used(c) /\ d.op = c.op /\ ~UsesFd(d) /\ d.h = c.h
        /\ \A q, m : Undoes(d, q, m) <=> q = p
    <3>1. MayGo("remove", c.h, 0)
      BY <1>2 DEF MayGo
    <3> HIDE DEF c
    <3>2. Goes(c, d, c.h) /\ d.pc = "remove"
      BY <1>1, <1>2, <2>1, <3>1, JunctionGoes, Zenon
    <3> QED
      BY <3>2 DEF Goes
  <2>5. Good(fs', fds, [Handles(calls) EXCEPT ![t] = d.h])
    BY <2>2, <2>4, HandlesSame DEF FilesInv
  <2>6. \A q \in Paths : Loose(fs', q) => \/ Undoes(d, q, fs'.names[q])
                                          \/ /\ Loose(fs, q) /\ fs'.names[q] = fs.names[q]
                                             /\ ~Undoes(calls[t], q, fs.names[q])
    BY <1>2, <2>2, <2>4
  <2> HIDE DEF p
  <2> QED
    BY <1>1, <2>2, <2>4, <2>5, <2>6, JunctionStepKeeps
<1>5. \/ CanOpen(p) /\ SameVolume /\ Now(t, [c EXCEPT !.h = NodeOf(p), !.pc = "set"])
      \/ SameVolume /\ Now(t, [c EXCEPT !.mem = 0, !.pc = "remove"])
  BY ZenonT(60) DEF FsJunction
<1> HIDE DEF c, p
<1> QED
  BY <1>3, <1>4, <1>5

LEMMA JunctionIsSet ==
    ASSUME FilesInv, NEW t \in FsThreads, FsJunction(t), calls[t].pc \in {"set", "close"}
    PROVE  FilesInv'
<1> DEFINE c == calls[t]
           p == c.path
           n == c.h
<1>1. c.op = "symlink" /\ "SYMLINK_JUNCTION" \in c.flags /\ SameClient /\ c.pc # "idle" /\ c.pc \in {"set", "close"}
  BY DEF FsJunction
<1>2. /\ CallOk(c) /\ p \in Paths /\ c.again = 0 /\ ~c.dir /\ ~c.ptr /\ ~c.free /\ n # 0
      /\ n \in NamedIn(fs) \cup HeldBy(fds, Handles(calls))
      /\ c.pc = "close" => Plainly(c)
      /\ c.pc = "set" => \A q, m : Undoes(c, q, m) <=> q = p /\ n = m
  <2>1. c.pc \in {"start", "mkdir", "open", "set", "remove", "close"}
    BY <1>1
  <2>2. /\ CallOk(c) /\ p \in Paths /\ c.again = 0 /\ ~c.dir /\ ~c.ptr /\ ~c.free /\ n # 0
        /\ n \in NamedIn(fs) \cup HeldBy(fds, Handles(calls))
        /\ c.pc = "close" => Plainly(c)
        /\ \A q, m : Undoes(c, q, m) <=> q = p /\ (c.pc \in {"open", "remove"} \/ (c.pc = "set" /\ n = m))
    BY <1>1, <2>1, JunctionCallIs
  <2> HIDE DEF c, p, n
  <2> QED
    BY <1>1, <2>2
<1>3. CASE c.pc = "set" /\ fs' = [fs EXCEPT !.nodes[n].kind = "junction"] /\ Goto(t, "close") /\ UNCHANGED fds
  <2> DEFINE d == [c EXCEPT !.pc = "close"]
             g == [fs EXCEPT !.nodes[n].kind = "junction"]
  <2>1. Same(c, d) /\ Is(d, "close", c.h, c.again, c.mem, c.ptr, c.free, c.dir, c.bytes, c.saved)
    <3> HIDE DEF c
    <3> QED
      BY <1>2, GotoIs
  <2>2. Now(t, d)
    BY <1>3 DEF Goto
  <2>3. fs' = g /\ fds' = fds
    BY <1>3
  <2> HIDE DEF d
  <2>4. CallOk(d) /\ Used(d) = Used(c) /\ d.op = c.op /\ ~UsesFd(d) /\ d.h = c.h
    <3>1. MayGo("close", c.h, c.mem)
      BY <1>2 DEF MayGo
    <3> HIDE DEF c
    <3>2. Goes(c, d, c.h)
      BY <1>1, <1>2, <2>1, <3>1, JunctionGoes, Zenon
    <3> QED
      BY <3>2 DEF Goes
  <2>5. Good(g, fds, Handles(calls)) /\ NoMoreLoose(fs, g) /\ \A q \in Paths : Loose(g, q) => fs.names[q] # n
    <3>1. Good(fs, fds, Handles(calls))
      BY DEF FilesInv
    <3> HIDE DEF n
    <3> QED
      BY <1>2, <3>1, JunctionGood
  <2> HIDE DEF g
  <2>6. Good(fs', fds, [Handles(calls) EXCEPT ![t] = d.h])
    BY <2>3, <2>4, <2>5, HandlesSame
  <2>7. \A q \in Paths : Loose(fs', q) => /\ Loose(fs, q) /\ fs'.names[q] = fs.names[q]
                                          /\ ~Undoes(calls[t], q, fs.names[q])
    BY <1>2, <1>3, <2>3, <2>5 DEF NoMoreLoose
  <2> HIDE DEF p
  <2> QED
    BY <1>1, <2>2, <2>3, <2>4, <2>6, <2>7, JunctionStepKeeps
<1>4. CASE c.pc = "set" /\ UNCHANGED fds /\ fs' = Closed(t, n) /\ Now(t, [c EXCEPT !.h = 0, !.mem = 0, !.pc = "remove"])
  <2> DEFINE d == [c EXCEPT !.h = 0, !.mem = 0, !.pc = "remove"]
  <2>1. Same(c, d) /\ Is(d, "remove", 0, c.again, 0, c.ptr, c.free, c.dir, c.bytes, c.saved)
    <3>1. CallOk(c)
      BY <1>2
    <3> HIDE DEF c
    <3> QED
      BY <3>1, ShutIs, Zenon
  <2>2. Now(t, d)
    BY <1>4
  <2> HIDE DEF d
  <2>4. /\ CallOk(d) /\ Used(d) = Used(c) /\ d.op = c.op /\ ~UsesFd(d) /\ d.h = 0
        /\ \A q, m : Undoes(d, q, m) <=> q = p
    <3>1. MayGo("remove", 0, 0)
      BY DEF MayGo
    <3> HIDE DEF c
    <3>2. Goes(c, d, 0) /\ d.pc = "remove"
      BY <1>1, <1>2, <2>1, <3>1, JunctionGoes, Zenon
    <3> QED
      BY <3>2 DEF Goes
  <2>5. Good(fs', fds, [Handles(calls) EXCEPT ![t] = 0]) /\ NoMoreLoose(fs, fs')
    BY <1>4, ClosedByCall
  <2>6. \A q \in Paths : Loose(fs', q) => \/ Undoes(d, q, fs'.names[q])
                                          \/ /\ Loose(fs, q) /\ fs'.names[q] = fs.names[q]
                                             /\ ~Undoes(calls[t], q, fs.names[q])
    BY <1>2, <1>4, <2>4, <2>5 DEF NoMoreLoose
  <2> HIDE DEF p
  <2> QED
    BY <1>1, <1>4, <2>2, <2>4, <2>5, <2>6, JunctionStepKeeps
<1>5. CASE c.pc = "close" /\ CloseAndFinish(t, "ok")
  BY <1>1, <1>2, <1>5, CloseAndFinishKeeps
<1>6. \/ c.pc = "set" /\ fs' = [fs EXCEPT !.nodes[n].kind = "junction"] /\ Goto(t, "close") /\ UNCHANGED fds
      \/ c.pc = "set" /\ UNCHANGED fds /\ fs' = Closed(t, n) /\ Now(t, [c EXCEPT !.h = 0, !.mem = 0, !.pc = "remove"])
      \/ c.pc = "close" /\ CloseAndFinish(t, "ok")
  BY ZenonT(60) DEF FsJunction
<1> HIDE DEF c, p, n
<1> QED
  BY <1>3, <1>4, <1>5, <1>6

LEMMA JunctionIsRemoved ==
    ASSUME FilesInv, NEW t \in FsThreads, FsJunction(t), calls[t].pc = "remove"
    PROVE  FilesInv'
<1> DEFINE c == calls[t]
           p == c.path
           d == Finished(c, "error")
<1>1. c.op = "symlink" /\ "SYMLINK_JUNCTION" \in c.flags /\ SameClient /\ c.pc # "idle" /\ c.pc = "remove"
  BY DEF FsJunction
<1>2. /\ CallOk(c) /\ p \in Paths /\ c.again = 0 /\ ~c.dir /\ c.h = 0 /\ c.mem = 0
      /\ \A q, n : Undoes(c, q, n) <=> q = p
  <2>1. c.pc \in {"start", "mkdir", "open", "set", "remove", "close"}
    BY <1>1
  <2>2. /\ CallOk(c) /\ p \in Paths /\ c.again = 0 /\ ~c.dir /\ c.h = 0 /\ c.mem = 0
        /\ \A q, n : Undoes(c, q, n) <=> q = p /\ (c.pc \in {"open", "remove"} \/ (c.pc = "set" /\ c.h = n))
    BY <1>1, <2>1, JunctionCallIs
  <2> HIDE DEF c, p
  <2> QED
    BY <1>1, <2>2
<1>3. /\ UNCHANGED fds /\ Now(t, d)
      /\ fs' = IF CanOpen(p) /\ Node(p).kind = "dir" THEN RmdirNow(p) ELSE fs
  <2>1. UNCHANGED fds /\ Finish(t, "error") /\ fs' = IF CanOpen(p) /\ Node(p).kind = "dir" THEN RmdirNow(p) ELSE fs
    BY ZenonT(60) DEF FsJunction
  <2> QED
    BY <2>1 DEF Finish
<1>4. EndedCall(d)
  <2> HIDE DEF c
  <2> QED
    BY <1>2, CallEndsAre, Zenon
<1> HIDE DEF d
<1>5. CallOk(d) /\ ~UsesFd(d) /\ d.h = c.h /\ d.pc = "idle"
  BY <1>2, <1>4, EndedIsOk DEF EndedCall
<1>6. Good(fs', fds, Handles(calls)) /\ NoMoreLoose(fs, fs') /\ ~Loose(fs', p)
  <2>1. CASE CanOpen(p) /\ Node(p).kind = "dir"
    BY <1>2, <1>3, <2>1, RmdirGood DEF CanOpen
  <2>2. CASE ~(CanOpen(p) /\ Node(p).kind = "dir")
    <3>1. fs' = fs
      BY <1>3, <2>2
    <3>2. ~Loose(fs, p)
      BY <2>2 DEF Loose, CanOpen, Exists, Node, NodeOf
    <3> QED
      BY <3>1, <3>2 DEF FilesInv, NoMoreLoose
  <2> QED
    BY <2>1, <2>2
<1>7. Good(fs', fds, [Handles(calls) EXCEPT ![t] = d.h])
  BY <1>5, <1>6, HandlesSame
<1>8. \A q \in Paths : Loose(fs', q) => Loose(fs, q) /\ fs'.names[q] = fs.names[q] /\ ~Undoes(calls[t], q, fs.names[q])
  BY <1>2, <1>6 DEF NoMoreLoose
<1> HIDE DEF p
<1> QED
  BY <1>1, <1>3, <1>5, <1>7, <1>8, JunctionStepKeeps

LEMMA FsJunctionKeeps == ASSUME FilesInv, NEW t \in FsThreads, FsJunction(t) PROVE FilesInv'
<1>1. calls[t].pc \in {"start", "mkdir", "open", "set", "close", "remove"}
  BY ZenonT(60) DEF FsJunction
<1> QED
  BY <1>1, JunctionIsMade, JunctionIsOpened, JunctionIsSet, JunctionIsRemoved

-----------------------------------------------------------------------------
(* The invariant. *)

\* A call as the client makes it.
LEMMA NewCallIs ==
    ASSUME NEW m \in DOMAIN Menus, NEW c \in Menus[m], NEW i \in Nat
    PROVE  LET d == Given(c, i)
           IN  CallOk(d) /\ Used(d) = Used(c) /\ d.op = c.op /\ d.h = 0 /\ d.pc = "start"
<1> DEFINE d == Given(c, i)
           new == [NoCall EXCEPT !.pc = "start"]
           N == {"op", "pc", "h", "again", "mem", "ptr", "free", "saved", "index", "bytes", "rest", "dir", "tries", "result"}
<1>1. "op" \in DOMAIN c /\ DOMAIN c \subseteq {"op", "path", "new", "fd", "flags", "readonly", "offset", "nbufs"}
      /\ Parameters(c)
  BY FilesAssumption
<1>2. DOMAIN NoCall = N /\ new.pc = "start" /\ \A x \in N \ {"pc"} : new[x] = NoCall[x]
  BY DEF NoCall
<1> HIDE DEF new
<1>3. d = [x \in {"id"} \cup DOMAIN c \cup DOMAIN NoCall |-> IF x = "id" THEN i ELSE IF x \in DOMAIN c THEN c[x] ELSE new[x]]
  BY DEF Given, new
<1> HIDE DEF d
<1>4. DOMAIN d = {"id"} \cup DOMAIN c \cup N /\ d.id = i /\ d.pc = "start" /\ d = [x \in DOMAIN d |-> d[x]]
  BY <1>1, <1>2, <1>3
<1>5. \A x \in DOMAIN c : d[x] = c[x]
  BY <1>1, <1>2, <1>3
<1>6. /\ d.h = 0 /\ d.again = 0 /\ d.mem = 0 /\ d.ptr = FALSE /\ d.free = FALSE /\ d.saved = -1 /\ d.bytes = 0
      /\ d.dir = FALSE
  <2>1. \A x \in N \ {"op", "pc"} : d[x] = NoCall[x]
    BY <1>1, <1>2, <1>3
  <2> QED
    BY <2>1 DEF NoCall
<1>7. d.op = c.op
  BY <1>1, <1>5
<1>8. "fd" \in DOMAIN d <=> "fd" \in DOMAIN c
  BY <1>4
<1>9. {"fd", "new"} \cap DOMAIN d = {"fd", "new"} \cap DOMAIN c
  BY <1>4
<1>10. Used(d) = Used(c)
  <2>1. CASE "fd" \in DOMAIN c
    <3>1. \A x \in {"fd", "new"} \cap DOMAIN c : d[x] = c[x]
      BY <1>5
    <3>2. Used(d) = {d[x] : x \in {"fd", "new"} \cap DOMAIN c} /\ Used(c) = {c[x] : x \in {"fd", "new"} \cap DOMAIN c}
      BY <2>1, <1>8, <1>9 DEF Used
    <3> QED
      BY <3>1, <3>2
  <2>2. CASE "fd" \notin DOMAIN c
    BY <2>2, <1>8 DEF Used
  <2> QED
    BY <2>1, <2>2
<1>11. Parameters(d)
  <2>1. DOMAIN c \subseteq DOMAIN d
    BY <1>4
  <2> QED
    BY <1>1, <1>5, <1>7, <2>1 DEF Parameters
<1>12. Holds(d)
  BY <1>4, <1>6 DEF Holds, HasHandle
<1>13. DOMAIN NoCall \subseteq DOMAIN d /\ "id" \in DOMAIN d
  BY <1>2, <1>4
<1>14. CallOk(d)
  BY <1>4, <1>6, <1>11, <1>12, <1>13 DEF CallOk
<1> QED
  BY <1>4, <1>6, <1>7, <1>10, <1>14 DEF d

LEMMA IdleIs ==
    ASSUME NEW c, CallOk(c), c.pc = "idle"
    PROVE  /\ c.h = 0 /\ c.again = 0 /\ ~c.dir /\ c.mem = 0 /\ (c.ptr <=> c.free)
           /\ ~UsesFd(c) /\ \A p, n : ~Undoes(c, p, n)
<1>1. c.op = "none" /\ Holds(c)
  BY DEF CallOk
<1>2. ~HasHandle(c) /\ ~HasMemory(c) /\ ~UsesFd(c) /\ \A p, n : ~Undoes(c, p, n)
  BY <1>1 DEF HasHandle, HasMemory, UsesFd, Undoes
<1> QED
  BY <1>1, <1>2 DEF Holds

LEMMA CallKeeps == ASSUME FilesInv, NEW t \in FsThreads, Call(t) PROVE FilesInv'
<1>1. PICK c \in Menus[menu] :
         /\ \A u \in FsThreads : ~Idle(u) /\ "close" \in {c.op, calls[u].op} => Used(c) \cap Used(calls[u]) = {}
         /\ Now(t, Given(c, made + 1))
  BY DEF Call
<1>2. calls[t].pc = "idle" /\ made' = made + 1 /\ fs' = fs /\ fds' = fds /\ menu' = menu
  BY DEF Call, Idle
<1>3. menu \in DOMAIN Menus /\ made + 1 \in Nat
  BY DEF FilesInv
<1> DEFINE d == Given(c, made + 1)
<1>4. CallOk(d) /\ Used(d) = Used(c) /\ d.op = c.op /\ d.h = 0 /\ d.pc = "start"
  BY <1>3, NewCallIs, Zenon
<1>5. Now(t, d)
  BY <1>1
<1> HIDE DEF d
<1>6. CallOk(calls[t]) /\ calls[t].h = 0 /\ ~UsesFd(calls[t]) /\ \A p, n : ~Undoes(calls[t], p, n)
  BY <1>2, CallIsOk, IdleIs
<1>7. /\ calls' = [u \in FsThreads |-> calls'[u]] /\ calls'[t] = d /\ \A u \in FsThreads : u # t => calls'[u] = calls[u]
      /\ Handles(calls') = [Handles(calls) EXCEPT ![t] = d.h]
  BY <1>5, NowIs
<1>8. Handles(calls') = Handles(calls)
  BY <1>4, <1>6, <1>7, HandlesSame
<1>9. \A u \in FsThreads : CallOk(calls'[u])
  BY <1>4, <1>7 DEF FilesInv
<1>10. Undone(fs', calls')
  BY <1>2, <1>6, <1>7 DEF FilesInv, Undone
<1>11. FdsInUse(fds', calls')
  <2>1. \A u \in FsThreads : UsesFd(calls'[u]) => fds'[calls'[u].fd] # NoFd
    <3>1. ~UsesFd(d)
      BY <1>4 DEF UsesFd
    <3> QED
      BY <3>1, <1>2, <1>7 DEF FilesInv, FdsInUse
  <2>2. ASSUME NEW u \in FsThreads, u # t, calls[u].pc # "idle", "close" \in {d.op, calls[u].op}
        PROVE  Used(d) \cap Used(calls[u]) = {} /\ Used(calls[u]) \cap Used(d) = {}
    BY <2>2, <1>1, <1>4 DEF Idle
  <2>3. ASSUME NEW u \in FsThreads, NEW v \in FsThreads, u # v, calls'[u].pc # "idle", calls'[v].pc # "idle",
               "close" \in {calls'[u].op, calls'[v].op}
        PROVE  Used(calls'[u]) \cap Used(calls'[v]) = {}
    <3>1. CASE u = t
      BY <2>3, <3>1, <2>2, <1>7
    <3>2. CASE v = t
      BY <2>3, <3>2, <2>2, <1>7
    <3>3. CASE u # t /\ v # t
      BY <2>3, <3>3, <1>7 DEF FilesInv, FdsInUse
    <3> QED
      BY <3>1, <3>2, <3>3
  <2> QED
    BY <2>1, <2>3 DEF FdsInUse
<1>12. Good(fs', fds', Handles(calls'))
  BY <1>2, <1>8 DEF FilesInv
<1> QED
  BY <1>2, <1>3, <1>7, <1>9, <1>10, <1>11, <1>12 DEF FilesInv

LEMMA NoCallIs == CallOk(NoCall) /\ NoCall.h = 0 /\ NoCall.pc = "idle"
<1>1. NoCall.h = 0 /\ NoCall.pc = "idle" /\ NoCall.op = "none" /\ NoCall.again = 0 /\ NoCall.mem = 0
      /\ NoCall.ptr = FALSE /\ NoCall.free = FALSE /\ NoCall.dir = FALSE /\ NoCall.bytes = 0 /\ NoCall.saved = -1
  BY DEF NoCall
<1>2. NoCall = [x \in DOMAIN NoCall |-> NoCall[x]]
  BY DEF NoCall
<1>3. Parameters(NoCall)
  BY <1>1 DEF Parameters
<1>4. Holds(NoCall)
  BY <1>1 DEF Holds, HasHandle
<1>5. CallOk(NoCall)
  BY <1>1, <1>2, <1>3, <1>4 DEF CallOk
<1> QED
  BY <1>1, <1>5

LEMMA FilesBegin == FilesInit => FilesInv
<1> SUFFICES ASSUME FilesInit PROVE FilesInv
  OBVIOUS
<1> DEFINE r == [NoNode EXCEPT !.kind = "mount"]
           n0 == [p \in Paths |-> IF p = MountPoint THEN 1 ELSE 0]
           s0 == [n \in Nodes |-> IF n = 1 THEN r ELSE NoNode]
           h == Handles(calls)
<1>1. menu \in DOMAIN Menus /\ fs = [names |-> n0, nodes |-> s0] /\ fds = [fd \in Fds |-> NoFd]
      /\ calls = [t \in FsThreads |-> NoCall] /\ made = 0
  BY DEF FilesInit
<1>2. 1 \in Nodes
  <2>1. /\ IsFiniteSet(Paths \ {MountPoint}) /\ Cardinality(Paths \ {MountPoint}) = Cardinality(Paths) - 1
        /\ Cardinality(Paths \ {MountPoint}) \in Nat
        /\ Cardinality(Paths) \in Nat /\ Cardinality(Fds) \in Nat /\ Cardinality(FsThreads) \in Nat
    BY FilesAssumption, FS_RemoveElement, FS_CardinalityType
  <2> QED
    BY <2>1 DEF Nodes
<1>3. r \in NodeType /\ r.kind = "mount" /\ r.appended = {} /\ r.data = << >>
  <2>1. "mount" \in Kinds
    BY DEF Kinds
  <2> QED
    BY <2>1, NoNodeIs DEF NodeType, NoNode
<1>4. NoNode \in NodeType /\ NoNode.kind = "none" /\ NoNode.appended = {}
  BY NoNodeIs DEF NoNode
<1> HIDE DEF r
<1>5. n0 \in [Paths -> Nodes \cup {0}]
  BY <1>2
<1>6. s0 \in [Nodes -> NodeType] /\ s0[1] = r /\ \A n \in Nodes : n # 1 => s0[n] = NoNode
  BY <1>2, <1>3, <1>4
<1>7. \A n \in Nodes : (\E p \in Paths : n0[p] = n) <=> n = 1
  BY FilesAssumption, NodesAre
<1> HIDE DEF n0, s0
<1>8. fs \in VolumeType /\ fs.names = n0 /\ fs.nodes = s0
  BY <1>1, <1>5, <1>6 DEF VolumeType
<1>9. h = [t \in FsThreads |-> 0]
  BY <1>1, NoCallIs DEF Handles
<1> HIDE DEF h
<1>10. HeldBy(fds, h) = {}
  BY <1>1, <1>9, NoFdIs, NodesAre DEF HeldBy
<1>11. NamedIn(fs) = {1}
  BY <1>2, <1>7, <1>8 DEF NamedIn
<1>12. Taken(fs) = {1}
  BY <1>2, <1>3, <1>4, <1>6, <1>8 DEF Taken
<1>13. AppendsKept(fs)
  BY <1>3, <1>4, <1>6, <1>8 DEF AppendsKept
<1>14. fds \in [Fds -> FdType] /\ h \in [FsThreads -> Nodes \cup {0}]
  BY <1>1, <1>9, NoFdIs
<1>15. Good(fs, fds, h)
  BY <1>8, <1>10, <1>11, <1>12, <1>13, <1>14 DEF Good, Sound
<1>16. \A t \in FsThreads : CallOk(calls[t]) /\ calls[t].pc = "idle" /\ ~UsesFd(calls[t])
  BY <1>1, NoCallIs, IdleIs
<1>17. \A p \in Paths : ~Loose(fs, p)
  <2> SUFFICES ASSUME NEW p \in Paths, Loose(fs, p) PROVE FALSE
    OBVIOUS
  <2>1. fs.names[p] \in Nodes
    BY <1>8 DEF Loose, VolumeType
  <2>2. fs.nodes[fs.names[p]].kind \in {"mount", "none"}
    BY <2>1, <1>3, <1>4, <1>6, <1>8
  <2> QED
    BY <2>2 DEF Loose
<1>18. Undone(fs, calls) /\ FdsInUse(fds, calls)
  BY <1>16, <1>17 DEF Undone, FdsInUse
<1>19. calls = [t \in FsThreads |-> calls[t]]
  BY <1>1
<1> QED
  BY <1>1, <1>15, <1>16, <1>18, <1>19 DEF FilesInv, h

LEMMA FsWorkKeeps == ASSUME FilesInv, NEW t \in FsThreads, FsWork(t) PROVE FilesInv'
<1>1. CASE Open(t) \/ Close(t) \/ BadFd(t) \/ Seek(t) \/ Read(t) \/ Write(t) \/ Restore(t)
  BY <1>1, OpenKeeps, CloseKeeps, BadFdKeeps, SeekKeeps, ReadKeeps, WriteKeeps, RestoreKeeps
<1>2. CASE Ftruncate(t) \/ Fchmod(t) \/ OnHandle(t) \/ Unlink(t) \/ Rmdir(t) \/ Mkdir(t)
  BY <1>2, FtruncateKeeps, FchmodKeeps, OnHandleKeeps, UnlinkKeeps, RmdirKeeps, MkdirKeeps
<1>3. CASE Mkdtemp(t) \/ Rename(t) \/ Link(t) \/ Copyfile(t) \/ FsAccess(t) \/ Chmod(t)
  BY <1>3, MkdtempKeeps, RenameKeeps, LinkKeeps, CopyfileKeeps, FsAccessKeeps, ChmodKeeps
<1>4. CASE Utime(t) \/ Stat(t) \/ FsReadlink(t) \/ FsRealpath(t) \/ Scandir(t) \/ Sendfile(t)
  BY <1>4, UtimeKeeps, StatKeeps, FsReadlinkKeeps, FsRealpathKeeps, ScandirKeeps, SendfileKeeps
<1>5. CASE Symlink(t) \/ FsJunction(t) \/ FsFails(t)
  BY <1>5, SymlinkKeeps, FsJunctionKeeps, FsFailsKeeps
<1> QED
  BY <1>1, <1>2, <1>3, <1>4, <1>5 DEF FsWork

\* What a call has open is what it should have where it is, every node has a name or a handle, a directory
\* made for a junction is in the hands of the call that undoes it, and a descriptor that a call uses is open
\* (win/fs.c, fs__open to fs__fchown).
THEOREM FilesInvariant == FilesSpec => []FilesInv
<1>1. FilesInit => FilesInv
  BY FilesBegin
<1>2. FilesInv /\ [FilesNext]_filesVars => FilesInv'
  <2> SUFFICES ASSUME FilesInv, [FilesNext]_filesVars PROVE FilesInv'
    OBVIOUS
  <2>1. CASE FilesNext
    BY <2>1, CallKeeps, FsWorkKeeps DEF FilesNext
  <2>2. CASE UNCHANGED filesVars
    BY <2>2, NothingKeeps DEF filesVars
  <2> QED
    BY <2>1, <2>2
<1> QED
  BY <1>1, <1>2, PTL DEF FilesSpec

\* No call of win/fs.c ends with a handle open or memory kept, whichever of its steps failed, and
\* fs__create_junction leaves no directory that is not a junction, but one that is being deleted.
THEOREM CallsAlwaysCleanUp == FilesSpec => []CallsCleanUp
<1>1. FilesInv => CallsCleanUp
  <2> SUFFICES ASSUME FilesInv PROVE CallsCleanUp
    OBVIOUS
  <2>1. \A t \in FsThreads : Idle(t) => calls[t].h = 0 /\ calls[t].again = 0 /\ ~calls[t].dir
                                        /\ calls[t].mem = 0 /\ (calls[t].ptr <=> calls[t].free)
    BY CallIsOk, IdleIs DEF Idle
  <2>2. ASSUME \A t \in FsThreads : Idle(t), NEW p \in Paths, Exists(p), Node(p).kind = "dir", Node(p).by = "junction"
        PROVE  Node(p).deleting
    <3> SUFFICES ASSUME ~Node(p).deleting PROVE FALSE
      OBVIOUS
    <3>1. Loose(fs, p)
      BY <2>2 DEF Loose, Exists, Node, NodeOf
    <3>2. PICK t \in FsThreads : Undoes(calls[t], p, fs.names[p])
      BY <3>1 DEF FilesInv, Undone
    <3>3. calls[t].pc = "idle" /\ CallOk(calls[t])
      BY <2>2, CallIsOk DEF Idle
    <3> QED
      BY <3>2, <3>3, IdleIs
  <2> QED
    BY <2>1, <2>2 DEF CallsCleanUp
<1> QED
  BY <1>1, FilesInvariant, PTL

\* What fs__write and fs__sendfile add to a file opened to append stays in it, whatever other calls
\* write to it, until it is truncated or written to at a place.
THEOREM AppendsAlwaysKept == FilesSpec => []AppendsLoseNothing
<1>1. FilesInv => AppendsLoseNothing
  BY DEF FilesInv, Good, Sound, AppendsKept, AppendsLoseNothing
<1> QED
  BY <1>1, FilesInvariant, PTL
=============================================================================
