--------------------------- MODULE CounterProofs ---------------------------
(***************************************************************************)
(* Proofs about the counters of handles and requests: that they are exact, *)
(* that no assertion fails, and that the loop never waits in vain, for     *)
(* every value of the constants but for the situations that break them: the*)
(* two the findings are about, and an alloc_cb that stops its own stream.  *)
(***************************************************************************)
EXTENDS LoopProofs

\* Reads that are refused at once and started again are queued twice
\* (NeverQueuedTwice), and a server some of whose accepts fail goes on with the
\* others when it no longer listens (QueuesAcceptsOnlyWhileListening). An alloc_cb that
\* stops or closes its stream has an end of file or an error counted a second time
\* (AllocMayStop).
Spared ==
    /\ ~(RecvMayFail /\ ReadsRestart)
    /\ AcceptMayFail => NAccepts = 1
    /\ ~AllocMayStop

-----------------------------------------------------------------------------
\* Where requests are.

InQ(q, r) == \E i \in DOMAIN q : q[i].req = r

Once(q) == \A i, j \in DOMAIN q : q[i].req = q[j].req => i = j

\* The requests that are with the kernel, on the port, or queued in the loop.
Queued(L, W) ==
    {r \in IoReqs : r \in L.kernel \/ InQ(L.iocp, r) \/ InQ(L.pending, r) \/ InQ(W, r)}

\* Each of them is in one place.
Placed(L, W) ==
    /\ Once(L.iocp) /\ Once(L.pending) /\ Once(W)
    /\ \A r \in L.kernel : ~InQ(L.iocp, r) /\ ~InQ(L.pending, r) /\ ~InQ(W, r)
    /\ \A r \in IoReqs : /\ InQ(L.iocp, r) => ~InQ(L.pending, r) /\ ~InQ(W, r)
                         /\ InQ(L.pending, r) => ~InQ(W, r)

Of(R, h) == {r \in R : r.handle = h}

WritesOf(R, c) == {r \in R : r.type = "WRITE" /\ r.handle = c}

-----------------------------------------------------------------------------
\* The invariant of a handle h, of a loop L where the requests Q are queued and k is
\* the callback in progress.

Processing(k, h) == k.handle = h /\ k.kind \in {"connection", "alloc", "read", "readloop", "write"}

InShutdown(k, h) == k.handle = h /\ k.kind = "shutdown"

InReadLoop(k, h) == k.handle = h /\ (k.kind \in {"readloop", "alloc"} \/ (k.kind = "read" /\ k.next # "end"))

One(e) == IF e THEN 1 ELSE 0

\* Of every handle: what a closing and a closed one no longer have, and that a
\* closing one is on its way.
Lives(L, h) ==
    /\ Has(L, h, "CLOSED") => /\ Has(L, h, "CLOSING") /\ ~Has(L, h, "ENDGAME_QUEUED")
                              /\ L.reqs_pending[h] = 0 /\ h \notin L.handle_queue
    /\ Has(L, h, "CLOSING") => L.flags[h] \cap {"ACTIVE", "LISTENING", "READING", "READABLE", "WRITABLE"} = {}
    /\ Has(L, h, "CLOSING") /\ ~Has(L, h, "CLOSED") => Has(L, h, "ENDGAME_QUEUED") \/ L.reqs_pending[h] > 0
    /\ h \notin L.handle_queue /\ ~Has(L, h, "CLOSED") =>
           L.flags[h] = {} /\ L.activecnt[h] = 0 /\ L.reqs_pending[h] = 0

\* The two counters of a stream.
Counts(L, Q, k, h) ==
    /\ L.activecnt[h] = One(Has(L, h, "READING")) + One(Has(L, h, "LISTENING")) + Cardinality(Of(L.active_reqs, h))
    /\ ~Has(L, h, "CLOSING") => (Has(L, h, "ACTIVE") <=> L.activecnt[h] > 0)
    /\ L.reqs_pending[h] = Cardinality(Of(Q, h)) + One(Processing(k, h)) + One(h \in L.shutdown_req)

\* A server listens with all of its accept requests, or with none.
Listens(L, Q, s) ==
    /\ ~Has(L, s, "READING")
    /\ Has(L, s, "LISTENING") => \A r \in AcceptReqsOf(s) : r \in Q \/ \E i \in DOMAIN L.pending_accepts[s] : L.pending_accepts[s][i] = r
    /\ Of(Q, s) # {} \/ L.pending_accepts[s] # << >> => Has(L, s, "LISTENING") \/ Has(L, s, "CLOSING")
    /\ \A i \in DOMAIN L.pending_accepts[s] :
          /\ L.pending_accepts[s][i] \in AcceptReqsOf(s) \ Q
          /\ L.pending_accepts[s][i] \in L.accept_socket
    /\ \A i, j \in DOMAIN L.pending_accepts[s] : L.pending_accepts[s][i] = L.pending_accepts[s][j] => i = j
    /\ ~AcceptMayFail => Of(Q, s) \subseteq L.accept_socket

\* A connection that reads has its read request queued or in hand, and has it queued
\* once: READ_PENDING tells so, or the client does not start reading again. It is reading
\* when it is given memory, and still when alloc_cb returns.
Reads(L, Q, k, c) ==
    /\ Has(L, c, "READING") => ReadReq(c) \in Q \/ InReadLoop(k, c)
    /\ Has(L, c, "READ_PENDING") => ReadReq(c) \in Q
    /\ ReadReq(c) \in Q \/ (k.handle = c /\ k.kind \in {"alloc", "read", "readloop"}) => Has(L, c, "ZERO_READ")
    /\ ~RecvMayFail /\ ReadReq(c) \in Q => Has(L, c, "READ_PENDING")
    /\ ~ReadsRestart /\ k.handle = c /\ k.kind \in {"alloc", "read", "readloop"} => ReadReq(c) \notin Q
    /\ k.handle = c /\ k.kind = "alloc" => Has(L, c, "READING")

\* A shutdown waits for the writes, and then for its endgame.
Shuts(L, Q, k, c) ==
    /\ ~Has(L, c, "LISTENING")
    /\ L.write_reqs_pending[c] = Cardinality(WritesOf(Q, c)) + One(k.handle = c /\ k.kind = "write")
    /\ ~Has(L, c, "CONNECTION") =>
           L.write_reqs_pending[c] = 0 /\ L.flags[c] \cap {"READABLE", "WRITABLE"} = {}
    /\ c \in L.shutdown_req => Has(L, c, "CONNECTION") /\ ~Has(L, c, "WRITABLE")
    /\ c \in L.shutdown_req /\ L.write_reqs_pending[c] = 0 => Has(L, c, "ENDGAME_QUEUED") \/ InShutdown(k, c)
    /\ InShutdown(k, c) => c \in L.shutdown_req
    /\ ShutdownReq(c) \in L.active_reqs <=> c \in L.shutdown_req /\ ~InShutdown(k, c)
    /\ \A r \in WriteReqs : r.handle = c => (r \in L.active_reqs <=> r \in Q)

HandleInv(L, Q, k, h) ==
    /\ Lives(L, h)
    /\ h \in Servers => Counts(L, Q, k, h) /\ Listens(L, Q, h)
    /\ h \in Conns => Counts(L, Q, k, h) /\ Reads(L, Q, k, h) /\ Shuts(L, Q, k, h)
    /\ h \in Timers => /\ L.reqs_pending[h] = 0
                       /\ L.flags[h] \cap {"LISTENING", "READING", "READABLE", "WRITABLE"} = {}

-----------------------------------------------------------------------------
\* The invariant of the event loop.

\* Where uv_run is when a callback runs, and when it processes requests.
Stages ==
    /\ cb.kind = "timer" => pc = "timers"
    /\ cb.kind \in {"connection", "alloc", "read", "readloop", "write"} => pc = "reqs"
    /\ cb.kind \in {"shutdown", "close"} => pc = "endgames"
    /\ pc # "reqs" => work = << >>

CInv ==
    /\ Spared
    /\ loop.failed = {}
    /\ due \subseteq ActiveTimers(loop)
    /\ loop.active_reqs = {r \in ClientReqs : request[r] = "issued"}
    /\ Stages
    /\ Placed(loop, work)
    /\ \A h \in Handles : HandleInv(loop, Queued(loop, work), cb, h)

-----------------------------------------------------------------------------
\* Queues of packets.

LEMMA EmptyQueue == Once(<< >>) /\ \A r : ~InQ(<< >>, r)
<1>1. \A i : i \notin DOMAIN << >>
  OBVIOUS
<1> QED
  BY <1>1 DEF Once, InQ

LEMMA QueueOfRequests ==
    ASSUME NEW q \in Seq(Packets)
    PROVE  /\ \A i \in DOMAIN q : q[i] \in Packets /\ q[i].req \in IoReqs /\ InQ(q, q[i].req)
           /\ \A r : InQ(q, r) => r \in IoReqs
<1>1. \A i \in DOMAIN q : q[i] \in Packets
  OBVIOUS
<1>2. \A x \in Packets : x.req \in IoReqs
  BY DEF Packets
<1> QED
  BY <1>1, <1>2 DEF InQ

LEMMA Joined ==
    ASSUME NEW p \in Seq(Packets), NEW q \in Seq(Packets)
    PROVE  /\ \A r : InQ(p \o q, r) <=> InQ(p, r) \/ InQ(q, r)
           /\ Once(p) /\ Once(q) /\ (\A r : ~(InQ(p, r) /\ InQ(q, r))) => Once(p \o q)
<1> DEFINE m == Len(p)
           n == Len(q)
           t == p \o q
<1>1. /\ m \in Nat /\ n \in Nat /\ DOMAIN p = 1..m /\ DOMAIN q = 1..n /\ DOMAIN t = 1..(m + n)
      /\ \A i \in 1..(m + n) : t[i] = IF i <= m THEN p[i] ELSE q[i - m]
  OBVIOUS
<1> HIDE DEF m, n, t
<1>2. \A i \in 1..m : i \in 1..(m + n) /\ i <= m
  BY <1>1
<1>3. \A i \in 1..n : i + m \in 1..(m + n) /\ ~(i + m <= m) /\ (i + m) - m = i
  BY <1>1
<1>4. \A i \in 1..(m + n) : IF i <= m THEN i \in 1..m ELSE i - m \in 1..n /\ (i - m) + m = i
  BY <1>1
<1>5. ASSUME NEW r
      PROVE  InQ(t, r) <=> InQ(p, r) \/ InQ(q, r)
  <2>1. InQ(p, r) => InQ(t, r)
    BY <1>1, <1>2 DEF InQ
  <2>2. InQ(q, r) => InQ(t, r)
    <3>1. SUFFICES ASSUME NEW i \in 1..n, q[i].req = r
                   PROVE  InQ(t, r)
      BY <1>1 DEF InQ
    <3>2. t[i + m] = q[i] /\ i + m \in DOMAIN t
      BY <1>1, <1>3
    <3> QED
      BY <3>1, <3>2 DEF InQ
  <2>3. InQ(t, r) => InQ(p, r) \/ InQ(q, r)
    BY <1>1, <1>4 DEF InQ
  <2> QED
    BY <2>1, <2>2, <2>3
<1>6. ASSUME Once(p), Once(q), \A r : ~(InQ(p, r) /\ InQ(q, r)),
             NEW i \in 1..(m + n), NEW j \in 1..(m + n), t[i].req = t[j].req
      PROVE  i = j
  <2>1. CASE i <= m /\ j <= m
    BY <1>1, <1>4, <1>6, <2>1 DEF Once
  <2>2. CASE ~(i <= m) /\ ~(j <= m)
    <3>1. i - m = j - m
      BY <1>1, <1>4, <1>6, <2>2 DEF Once
    <3> QED
      BY <1>4, <2>2, <3>1
  <2>3. CASE i <= m /\ ~(j <= m)
    <3>1. InQ(p, t[i].req)
      BY <1>1, <1>4, <2>3 DEF InQ
    <3>2. InQ(q, t[j].req)
      BY <1>1, <1>4, <2>3 DEF InQ
    <3> QED
      BY <1>6, <3>1, <3>2
  <2>4. CASE ~(i <= m) /\ j <= m
    <3>1. InQ(q, t[i].req)
      BY <1>1, <1>4, <2>4 DEF InQ
    <3>2. InQ(p, t[j].req)
      BY <1>1, <1>4, <2>4 DEF InQ
    <3> QED
      BY <1>6, <3>1, <3>2
  <2> QED
    BY <2>1, <2>2, <2>3, <2>4
<1>7. Once(p) /\ Once(q) /\ (\A r : ~(InQ(p, r) /\ InQ(q, r))) => Once(t)
  BY <1>1, <1>6 DEF Once
<1> QED
  BY <1>5, <1>7 DEF t

LEMMA SingleQueue ==
    ASSUME NEW x \in Packets
    PROVE  <<x>> \in Seq(Packets) /\ Once(<<x>>) /\ \A r : InQ(<<x>>, r) <=> r = x.req
<1>1. DOMAIN <<x>> = {1} /\ <<x>>[1] = x /\ <<x>> \in Seq(Packets)
  OBVIOUS
<1> QED
  BY <1>1 DEF Once, InQ

LEMMA Appended ==
    ASSUME NEW q \in Seq(Packets), NEW x \in Packets
    PROVE  /\ \A r : InQ(Append(q, x), r) <=> InQ(q, r) \/ r = x.req
           /\ Once(q) /\ ~InQ(q, x.req) => Once(Append(q, x))
<1> DEFINE s == <<x>>
<1>1. Append(q, x) = q \o s
  OBVIOUS
<1>2. s \in Seq(Packets) /\ Once(s) /\ \A r : InQ(s, r) <=> r = x.req
  BY SingleQueue
<1> HIDE DEF s
<1>3. /\ \A r : InQ(q \o s, r) <=> InQ(q, r) \/ InQ(s, r)
      /\ Once(q) /\ Once(s) /\ (\A r : ~(InQ(q, r) /\ InQ(s, r))) => Once(q \o s)
  BY <1>2, Joined
<1> QED
  BY <1>1, <1>2, <1>3

LEMMA Taken ==
    ASSUME NEW q \in Seq(Packets), q # << >>, Once(q)
    PROVE  /\ Head(q) \in Packets /\ InQ(q, Head(q).req) /\ Once(Tail(q))
           /\ \A r : InQ(Tail(q), r) <=> InQ(q, r) /\ r # Head(q).req
<1> DEFINE n == Len(q)
           t == Tail(q)
<1>1. /\ n \in Nat \ {0} /\ DOMAIN q = 1..n /\ DOMAIN t = 1..(n - 1) /\ Head(q) = q[1]
      /\ \A i \in 1..(n - 1) : t[i] = q[i + 1]
      /\ Head(q) \in Packets
  OBVIOUS
<1> HIDE DEF n, t
<1>2. /\ 1 \in 1..n
      /\ \A i \in 1..(n - 1) : i + 1 \in 1..n /\ i + 1 # 1
      /\ \A i \in 1..n : i # 1 => i - 1 \in 1..(n - 1) /\ (i - 1) + 1 = i
  BY <1>1
<1>3. InQ(q, Head(q).req)
  BY <1>1, <1>2 DEF InQ
<1>4. Once(t)
  <2>1. SUFFICES ASSUME NEW i \in 1..(n - 1), NEW j \in 1..(n - 1), t[i].req = t[j].req
                 PROVE  i = j
    BY <1>1 DEF Once
  <2>2. i + 1 = j + 1
    BY <1>1, <1>2, <2>1 DEF Once
  <2> QED
    BY <1>1, <2>2
<1>5. ASSUME NEW r
      PROVE  InQ(t, r) <=> InQ(q, r) /\ r # Head(q).req
  <2>1. InQ(t, r) => InQ(q, r) /\ r # Head(q).req
    BY <1>1, <1>2 DEF InQ, Once
  <2>2. ASSUME NEW i \in 1..n, q[i].req = r, r # Head(q).req
        PROVE  InQ(t, r)
    <3>1. i # 1
      BY <1>1, <2>2
    <3>2. i - 1 \in 1..(n - 1) /\ t[i - 1] = q[i]
      BY <1>1, <1>2, <3>1
    <3> QED
      BY <1>1, <2>2, <3>2 DEF InQ
  <2> QED
    BY <1>1, <2>1, <2>2 DEF InQ
<1> QED
  BY <1>1, <1>3, <1>4, <1>5 DEF t

-----------------------------------------------------------------------------
\* Counting requests.

LEMMA IoReqsAre ==
    /\ \A r \in IoReqs : r.handle \in Servers \cup Conns
    /\ \A s \in Servers : Of(IoReqs, s) = AcceptReqsOf(s)
    /\ \A c \in Conns : ReadReq(c) \in IoReqs /\ ReadReq(c).handle = c /\ ReadReq(c).type = "READ"
    /\ \A c \in Conns : Of(IoReqs, c) = {ReadReq(c)} \cup Of(WriteReqs, c)
    /\ \A c \in Conns : /\ ShutdownReq(c) \in ClientReqs /\ ShutdownReq(c).handle = c
                        /\ ShutdownReq(c).type = "SHUTDOWN"
                        /\ Of(ClientReqs, c) = {ShutdownReq(c)} \cup Of(WriteReqs, c)
    /\ \A r \in WriteReqs : r \in IoReqs /\ r \in ClientReqs /\ r.type = "WRITE" /\ r.handle \in Conns
    /\ \A r \in AcceptReqs : r \in IoReqs /\ r.type = "ACCEPT" /\ r.handle \in Servers
    /\ \A s \in Servers : Of(ClientReqs, s) = {}
<1>1. Servers \cap Conns = {}
  BY HandlesAssumption
<1>2. /\ \A r \in AcceptReqs : r \in IoReqs /\ r.type = "ACCEPT" /\ r.handle \in Servers
      /\ \A r \in WriteReqs : r \in IoReqs /\ r \in ClientReqs /\ r.type = "WRITE" /\ r.handle \in Conns
  BY DEF IoReqs, ClientReqs, AcceptReqs, WriteReqs
<1>3. \A r \in ReadReqs : r.handle \in Conns /\ r = ReadReq(r.handle)
  BY DEF ReadReqs, ReadReq
<1>4. \A c \in Conns : ReadReq(c) \in ReadReqs /\ ReadReq(c).handle = c /\ ReadReq(c).type = "READ"
  BY DEF ReadReqs, ReadReq
<1>5. \A r \in ShutdownReqs : r.handle \in Conns /\ r = ShutdownReq(r.handle)
  BY DEF ShutdownReqs, ShutdownReq
<1>6. \A c \in Conns : /\ ShutdownReq(c) \in ShutdownReqs /\ ShutdownReq(c).handle = c
                       /\ ShutdownReq(c).type = "SHUTDOWN"
  BY DEF ShutdownReqs, ShutdownReq
<1>7. \A r \in IoReqs : r \in ReadReqs \/ r \in AcceptReqs \/ r \in WriteReqs
  BY DEF IoReqs
<1>8. \A r \in ClientReqs : r \in WriteReqs \/ r \in ShutdownReqs
  BY DEF ClientReqs
<1>9. ReadReqs \subseteq IoReqs /\ ShutdownReqs \subseteq ClientReqs
  BY DEF IoReqs, ClientReqs
<1>10. \A s \in Servers : Of(IoReqs, s) = AcceptReqsOf(s)
  BY <1>1, <1>2, <1>3, <1>7 DEF Of, AcceptReqsOf
<1>11. \A c \in Conns : Of(IoReqs, c) = {ReadReq(c)} \cup Of(WriteReqs, c)
  BY <1>1, <1>2, <1>3, <1>4, <1>7, <1>9 DEF Of
<1>12. \A c \in Conns : Of(ClientReqs, c) = {ShutdownReq(c)} \cup Of(WriteReqs, c)
  BY <1>2, <1>5, <1>6, <1>8, <1>9 DEF Of
<1>13. \A s \in Servers : Of(ClientReqs, s) = {}
  BY <1>1, <1>2, <1>5, <1>8 DEF Of
<1>14. \A r \in IoReqs : r.handle \in Servers \cup Conns
  BY <1>2, <1>3, <1>7
<1> QED
  BY ONLY <1>2, <1>4, <1>6, <1>9, <1>10, <1>11, <1>12, <1>13, <1>14

LEMMA FewRequests ==
    ASSUME NEW h \in Servers \cup Conns
    PROVE  IsFiniteSet(Of(IoReqs, h)) /\ IsFiniteSet(Of(ClientReqs, h))
<1>1. CASE h \in Servers
  BY <1>1, AcceptReqsOfIsFinite, IoReqsAre, FS_EmptySet
<1>2. CASE h \in Conns
  <2> DEFINE f == [r \in Of(WriteReqs, h) |-> r.id]
  <2>1. IsFiniteSet(1..NWrites)
    BY CountsAssumption, FS_Interval
  <2>2. f \in Injection(Of(WriteReqs, h), 1..NWrites)
    <3>1. \A a, b \in Of(WriteReqs, h) : a.id = b.id => a = b
      BY DEF Of, WriteReqs
    <3>2. f \in [Of(WriteReqs, h) -> 1..NWrites]
      BY DEF Of, WriteReqs
    <3>3. \A a, b \in DOMAIN f : f[a] = f[b] => a = b
      BY <3>1
    <3> HIDE DEF f
    <3> QED
      BY <3>2, <3>3 DEF Injection, IsInjective
  <2>3. IsFiniteSet(Of(WriteReqs, h))
    BY <2>1, <2>2, FS_Injection
  <2>4. IsFiniteSet({ReadReq(h)} \cup Of(WriteReqs, h)) /\ IsFiniteSet({ShutdownReq(h)} \cup Of(WriteReqs, h))
    BY <2>3, FS_Singleton, FS_Union
  <2> QED
    BY <1>2, <2>4, IoReqsAre
<1> QED
  BY <1>1, <1>2

\* A set of requests, and the same with one more or one less.
LEMMA CountChanges ==
    ASSUME NEW X, IsFiniteSet(X), NEW r
    PROVE  /\ Cardinality(X) \in Nat
           /\ r \notin X => Cardinality(X \cup {r}) = Cardinality(X) + 1
           /\ r \in X => Cardinality(X \ {r}) = Cardinality(X) - 1 /\ Cardinality(X) > 0
           /\ Cardinality(X) = 0 => X = {}
<1>1. Cardinality(X) \in Nat
  BY FS_CardinalityType
<1>2. Cardinality(X) = 0 => X = {}
  BY FS_EmptySet
<1>3. r \notin X => Cardinality(X \cup {r}) = Cardinality(X) + 1
  BY FS_AddElement
<1>4. r \in X => Cardinality(X \ {r}) = Cardinality(X) - 1
  BY FS_RemoveElement
<1> QED
  BY <1>1, <1>2, <1>3, <1>4

-----------------------------------------------------------------------------
\* The macros, when their assertions hold.

\* From L to M nothing but the flags and the two counters of h change, and the
\* loop's own list and count of handles.
Becomes(L, M, h, F, a, p) ==
    /\ LoopOK(M)
    /\ M.flags[h] = F /\ M.activecnt[h] = a /\ M.reqs_pending[h] = p
    /\ \A g \in Handles \ {h} : /\ M.flags[g] = L.flags[g]
                                /\ M.activecnt[g] = L.activecnt[g]
                                /\ M.reqs_pending[g] = L.reqs_pending[g]
    /\ M.write_reqs_pending = L.write_reqs_pending /\ M.shutdown_req = L.shutdown_req
    /\ M.handle_queue = L.handle_queue /\ M.active_reqs = L.active_reqs
    /\ M.pending = L.pending /\ M.pending_accepts = L.pending_accepts
    /\ M.accept_socket = L.accept_socket /\ M.kernel = L.kernel /\ M.iocp = L.iocp
    /\ M.stop_flag = L.stop_flag /\ M.failed = L.failed

LEMMA BecomesTrans ==
    ASSUME NEW L, LoopOK(L), NEW h \in Handles, NEW F, NEW a, NEW p, NEW M, Becomes(L, M, h, F, a, p),
           NEW G, NEW b, NEW q, NEW N, Becomes(M, N, h, G, b, q)
    PROVE  Becomes(L, N, h, G, b, q)
  BY DEF Becomes

\* What is known of a handle's fields.
LEMMA FieldsAre ==
    ASSUME NEW L, LoopOK(L), L.failed = {}, NEW h \in Handles
    PROVE  /\ L.flags[h] \in SUBSET Flags /\ L.activecnt[h] \in Int /\ L.reqs_pending[h] \in Int
           /\ L.write_reqs_pending[h] \in Int /\ L.pending_accepts[h] \in Seq(AcceptReqs)
           /\ Has(L, h, "CLOSED") => Has(L, h, "CLOSING")
           /\ Has(L, h, "CLOSING") => ~Has(L, h, "ACTIVE")
  BY DEF LoopOK, LoopType, Accounted

LEMMA BecomesItself ==
    ASSUME NEW L, LoopOK(L), NEW h \in Handles
    PROVE  Becomes(L, L, h, L.flags[h], L.activecnt[h], L.reqs_pending[h])
  BY DEF LoopOK, LoopType, Becomes

LEMMA OtherFlagsBecome ==
    ASSUME NEW L, LoopOK(L), NEW h \in Handles, NEW F \in SUBSET OtherFlags
    PROVE  /\ Becomes(L, SetFlags(L, h, F), h, L.flags[h] \cup F, L.activecnt[h], L.reqs_pending[h])
           /\ Becomes(L, Clear(L, h, F), h, L.flags[h] \ F, L.activecnt[h], L.reqs_pending[h])
<1>1. LoopOK(SetFlags(L, h, F)) /\ LoopOK(Clear(L, h, F))
  BY SetOtherOK, ClearOtherOK
<1> QED
  BY <1>1 DEF LoopOK, LoopType, Becomes, SetFlags, Clear

LEMMA FlagsBecome ==
    ASSUME NEW L, LoopOK(L), NEW h \in Handles, NEW F \in SUBSET Flags, NEW n \in Int,
           NEW M, M = [L EXCEPT !.flags[h] = F, !.active_handles = n], LoopOK(M)
    PROVE  Becomes(L, M, h, F, L.activecnt[h], L.reqs_pending[h])
  BY DEF LoopOK, LoopType, Becomes

LEMMA HandleStartBecomes ==
    ASSUME NEW L, LoopOK(L), NEW h \in Handles, ~Has(L, h, "CLOSING")
    PROVE  Becomes(L, HandleStart(L, h), h, L.flags[h] \cup {"ACTIVE"}, L.activecnt[h], L.reqs_pending[h])
<1> DEFINE F == L.flags[h] \cup {"ACTIVE"}
           M == HandleStart(L, h)
<1>1. LoopOK(M)
  BY HandleStartOK
<1>2. F \in SUBSET Flags /\ L.active_handles \in Int /\ L.active_handles + 1 \in Int
  BY DEF LoopOK, LoopType, Flags
<1>3. CASE Has(L, h, "ACTIVE")
  <2>1. M = L /\ F = L.flags[h]
    BY <1>3 DEF HandleStart, Check, Has
  <2> QED
    BY <2>1, BecomesItself
<1>4. CASE ~Has(L, h, "ACTIVE")
  <2>1. \/ M = [L EXCEPT !.flags[h] = F, !.active_handles = L.active_handles]
        \/ M = [L EXCEPT !.flags[h] = F, !.active_handles = L.active_handles + 1]
    BY <1>4 DEF LoopOK, LoopType, HandleStart, Check, SetFlags, ActiveHandleAdd
  <2> HIDE DEF F, M
  <2>2. Becomes(L, M, h, F, L.activecnt[h], L.reqs_pending[h])
    BY <1>1, <1>2, <2>1, FlagsBecome
  <2> QED
    BY <2>2 DEF F, M
<1> QED
  BY <1>3, <1>4

LEMMA HandleStopBecomes ==
    ASSUME NEW L, LoopOK(L), NEW h \in Handles, ~Has(L, h, "CLOSING")
    PROVE  Becomes(L, HandleStop(L, h), h, L.flags[h] \ {"ACTIVE"}, L.activecnt[h], L.reqs_pending[h])
<1> DEFINE F == L.flags[h] \ {"ACTIVE"}
           M == HandleStop(L, h)
<1>1. LoopOK(M)
  BY HandleStopOK
<1>2. F \in SUBSET Flags /\ L.active_handles \in Int /\ L.active_handles - 1 \in Int
  BY DEF LoopOK, LoopType, Flags
<1>3. CASE ~Has(L, h, "ACTIVE")
  <2>1. M = L /\ F = L.flags[h]
    BY <1>3 DEF HandleStop, Check, Has
  <2> QED
    BY <2>1, BecomesItself
<1>4. CASE Has(L, h, "ACTIVE")
  <2>1. \/ M = [L EXCEPT !.flags[h] = F, !.active_handles = L.active_handles]
        \/ M = [L EXCEPT !.flags[h] = F, !.active_handles = L.active_handles - 1]
    BY <1>4 DEF LoopOK, LoopType, HandleStop, Check, Clear, ActiveHandleRm
  <2> HIDE DEF F, M
  <2>2. Becomes(L, M, h, F, L.activecnt[h], L.reqs_pending[h])
    BY <1>1, <1>2, <2>1, FlagsBecome
  <2> QED
    BY <2>2 DEF F, M
<1> QED
  BY <1>3, <1>4

LEMMA HandleRefBecomes ==
    ASSUME NEW L, LoopOK(L), NEW h \in Handles
    PROVE  Becomes(L, HandleRef(L, h), h, L.flags[h] \cup {"REF"}, L.activecnt[h], L.reqs_pending[h])
<1> DEFINE F == L.flags[h] \cup {"REF"}
           M == HandleRef(L, h)
<1>1. LoopOK(M)
  BY HandleRefOK
<1>2. F \in SUBSET Flags /\ L.active_handles \in Int /\ L.active_handles + 1 \in Int
  BY DEF LoopOK, LoopType, Flags
<1>3. CASE Has(L, h, "REF")
  <2>1. M = L /\ F = L.flags[h]
    BY <1>3 DEF HandleRef, Has
  <2> QED
    BY <2>1, BecomesItself
<1>4. CASE ~Has(L, h, "REF")
  <2>1. \/ M = [L EXCEPT !.flags[h] = F, !.active_handles = L.active_handles]
        \/ M = [L EXCEPT !.flags[h] = F, !.active_handles = L.active_handles + 1]
    BY <1>4 DEF LoopOK, LoopType, HandleRef, SetFlags, ActiveHandleAdd
  <2> HIDE DEF F, M
  <2>2. Becomes(L, M, h, F, L.activecnt[h], L.reqs_pending[h])
    BY <1>1, <1>2, <2>1, FlagsBecome
  <2> QED
    BY <2>2 DEF F, M
<1> QED
  BY <1>3, <1>4

LEMMA HandleUnrefBecomes ==
    ASSUME NEW L, LoopOK(L), NEW h \in Handles
    PROVE  Becomes(L, HandleUnref(L, h), h, L.flags[h] \ {"REF"}, L.activecnt[h], L.reqs_pending[h])
<1> DEFINE F == L.flags[h] \ {"REF"}
           M == HandleUnref(L, h)
<1>1. LoopOK(M)
  BY HandleUnrefOK
<1>2. F \in SUBSET Flags /\ L.active_handles \in Int /\ L.active_handles - 1 \in Int
  BY DEF LoopOK, LoopType, Flags
<1>3. CASE ~Has(L, h, "REF")
  <2>1. M = L /\ F = L.flags[h]
    BY <1>3 DEF HandleUnref, Has
  <2> QED
    BY <2>1, BecomesItself
<1>4. CASE Has(L, h, "REF")
  <2>1. \/ M = [L EXCEPT !.flags[h] = F, !.active_handles = L.active_handles]
        \/ M = [L EXCEPT !.flags[h] = F, !.active_handles = L.active_handles - 1]
    BY <1>4 DEF LoopOK, LoopType, HandleUnref, Clear, ActiveHandleRm
  <2> HIDE DEF F, M
  <2>2. Becomes(L, M, h, F, L.activecnt[h], L.reqs_pending[h])
    BY <1>1, <1>2, <2>1, FlagsBecome
  <2> QED
    BY <2>2 DEF F, M
<1> QED
  BY <1>3, <1>4

LEMMA WantEndgameBecomes ==
    ASSUME NEW L, LoopOK(L), NEW h \in Handles
    PROVE  Becomes(L, WantEndgame(L, h), h, L.flags[h] \cup {"ENDGAME_QUEUED"}, L.activecnt[h], L.reqs_pending[h])
<1>1. LoopOK(WantEndgame(L, h))
  BY WantEndgameOK
<1>2. CASE Has(L, h, "ENDGAME_QUEUED")
  <2>1. WantEndgame(L, h) = L /\ L.flags[h] \cup {"ENDGAME_QUEUED"} = L.flags[h]
    BY <1>2 DEF WantEndgame, Has
  <2> QED
    BY <1>1, <2>1 DEF Becomes
<1>3. CASE ~Has(L, h, "ENDGAME_QUEUED")
  <2> DEFINE M == WantEndgame(L, h)
             P == [L.flags EXCEPT ![h] = L.flags[h] \cup {"ENDGAME_QUEUED"}]
  <2>1. M = [L EXCEPT !.flags = P, !.endgame = <<h>> \o L.endgame]
    BY <1>3 DEF LoopOK, LoopType, WantEndgame, SetFlags, Has
  <2>2. P[h] = L.flags[h] \cup {"ENDGAME_QUEUED"} /\ \A g \in Handles \ {h} : P[g] = L.flags[g]
    BY DEF LoopOK, LoopType
  <2>3. LoopOK(M)
    BY <1>1
  <2> HIDE DEF M, P
  <2>4. /\ M.flags = P /\ M.activecnt = L.activecnt /\ M.reqs_pending = L.reqs_pending
        /\ M.write_reqs_pending = L.write_reqs_pending /\ M.shutdown_req = L.shutdown_req
        /\ M.handle_queue = L.handle_queue /\ M.active_reqs = L.active_reqs
        /\ M.pending = L.pending /\ M.pending_accepts = L.pending_accepts
        /\ M.accept_socket = L.accept_socket /\ M.kernel = L.kernel /\ M.iocp = L.iocp
        /\ M.stop_flag = L.stop_flag /\ M.failed = L.failed
    BY <2>1 DEF LoopOK, LoopType
  <2>5. Becomes(L, M, h, L.flags[h] \cup {"ENDGAME_QUEUED"}, L.activecnt[h], L.reqs_pending[h])
    BY <2>2, <2>3, <2>4 DEF Becomes
  <2> QED
    BY <2>5 DEF M
<1> QED
  BY <1>2, <1>3

LEMMA HandleClosingBecomes ==
    ASSUME NEW L, LoopOK(L), NEW h \in Handles, ~Has(L, h, "CLOSING")
    PROVE  Becomes(L, HandleClosing(L, h), h, (L.flags[h] \cup {"CLOSING"}) \ {"ACTIVE"}, L.activecnt[h],
                   L.reqs_pending[h])
<1>1. LoopOK(HandleClosing(L, h))
  BY HandleClosingOK
<1> DEFINE M == HandleClosing(L, h)
           A == Check(L, "closing: not closing", ~Has(L, h, "CLOSING"))
           B == IF Has(L, h, "ACTIVE") /\ Has(L, h, "REF") THEN A ELSE ActiveHandleAdd(A)
           P == [L.flags EXCEPT ![h] = (L.flags[h] \cup {"CLOSING"}) \ {"ACTIVE"}]
<1>2. A = L
  BY DEF Check
<1>3. L \in LoopType /\ LoopOK(M)
  BY <1>1 DEF LoopOK
<1>4. M = Clear(SetFlags(B, h, {"CLOSING"}), h, {"ACTIVE"})
  BY DEF HandleClosing
<1>5. B = L \/ B = [L EXCEPT !.active_handles = L.active_handles + 1]
  BY <1>2, <1>3 DEF ActiveHandleAdd, LoopType
<1> HIDE DEF A, B, M
<1>6. B \in LoopType /\ B.flags = L.flags
  <2> DEFINE n == L.active_handles + 1
  <2>1. n \in Int /\ (B = L \/ B = [L EXCEPT !.active_handles = n])
    BY <1>3, <1>5 DEF LoopType
  <2> HIDE DEF n
  <2> QED
    BY <1>3, <2>1 DEF LoopType
<1>7. M = [B EXCEPT !.flags = P]
  <2> DEFINE C == SetFlags(B, h, {"CLOSING"})
             F == [L.flags EXCEPT ![h] = L.flags[h] \cup {"CLOSING"}]
  <2>1. C = [B EXCEPT !.flags = F]
    BY <1>3, <1>6 DEF SetFlags, LoopType
  <2>2. [F EXCEPT ![h] = F[h] \ {"ACTIVE"}] = P
    BY <1>3 DEF LoopType
  <2>3. M = [C EXCEPT !.flags = [C.flags EXCEPT ![h] = C.flags[h] \ {"ACTIVE"}]]
    BY <1>4 DEF Clear
  <2> HIDE DEF C, F, P
  <2>4. C.flags = F
    BY <1>6, <2>1 DEF LoopType
  <2>5. M = [C EXCEPT !.flags = P]
    BY <2>2, <2>3, <2>4
  <2> QED
    BY <1>6, <2>1, <2>5 DEF LoopType
<1>8. P[h] = (L.flags[h] \cup {"CLOSING"}) \ {"ACTIVE"} /\ \A g \in Handles \ {h} : P[g] = L.flags[g]
  BY <1>3 DEF LoopType
<1> HIDE DEF P
<1>9. /\ M.flags = P /\ M.activecnt = B.activecnt /\ M.reqs_pending = B.reqs_pending
      /\ M.write_reqs_pending = B.write_reqs_pending /\ M.shutdown_req = B.shutdown_req
      /\ M.handle_queue = B.handle_queue /\ M.active_reqs = B.active_reqs
      /\ M.pending = B.pending /\ M.pending_accepts = B.pending_accepts
      /\ M.accept_socket = B.accept_socket /\ M.kernel = B.kernel /\ M.iocp = B.iocp
      /\ M.stop_flag = B.stop_flag /\ M.failed = B.failed
  BY <1>6, <1>7 DEF LoopType
<1>10. /\ B.activecnt = L.activecnt /\ B.reqs_pending = L.reqs_pending
       /\ B.write_reqs_pending = L.write_reqs_pending /\ B.shutdown_req = L.shutdown_req
       /\ B.handle_queue = L.handle_queue /\ B.active_reqs = L.active_reqs
       /\ B.pending = L.pending /\ B.pending_accepts = L.pending_accepts
       /\ B.accept_socket = L.accept_socket /\ B.kernel = L.kernel /\ B.iocp = L.iocp
       /\ B.stop_flag = L.stop_flag /\ B.failed = L.failed
  BY <1>3, <1>5 DEF LoopType
<1>11. Becomes(L, M, h, (L.flags[h] \cup {"CLOSING"}) \ {"ACTIVE"}, L.activecnt[h], L.reqs_pending[h])
  BY <1>3, <1>8, <1>9, <1>10 DEF Becomes
<1> QED
  BY <1>11 DEF M

LEMMA CountersBecome ==
    ASSUME NEW L, LoopOK(L), NEW h \in Handles, NEW a \in Int, NEW p \in Int
    PROVE  Becomes(L, [L EXCEPT !.activecnt[h] = a, !.reqs_pending[h] = p], h, L.flags[h], a, p)
<1> DEFINE M == [L EXCEPT !.activecnt[h] = a, !.reqs_pending[h] = p]
<1>1. Same(L, M)
  BY DEF LoopOK, LoopType, Same
<1>2. LoopOK(M)
  BY <1>1, SameOK
<1> QED
  BY <1>2 DEF LoopOK, LoopType, Becomes

LEMMA IncreaseBecomes ==
    ASSUME NEW L, LoopOK(L), L.failed = {}, NEW h \in Handles, ~Has(L, h, "CLOSING"), L.activecnt[h] >= 0
    PROVE  Becomes(L, IncreaseActiveCount(L, h), h,
                   IF L.activecnt[h] = 0 THEN L.flags[h] \cup {"ACTIVE"} ELSE L.flags[h],
                   L.activecnt[h] + 1, L.reqs_pending[h])
<1> DEFINE A == [L EXCEPT !.activecnt[h] = @ + 1]
           B == IF L.activecnt[h] = 0 THEN HandleStart(A, h) ELSE A
           F == IF L.activecnt[h] = 0 THEN L.flags[h] \cup {"ACTIVE"} ELSE L.flags[h]
<1>1. L.activecnt[h] + 1 \in Int /\ L.activecnt[h] + 1 > 0 /\ L.reqs_pending[h] \in Int
  BY FieldsAre
<1>2. Becomes(L, A, h, L.flags[h], L.activecnt[h] + 1, L.reqs_pending[h])
  <2>1. A = [L EXCEPT !.activecnt[h] = L.activecnt[h] + 1, !.reqs_pending[h] = L.reqs_pending[h]]
    BY DEF LoopOK, LoopType
  <2> QED
    BY <1>1, <2>1, CountersBecome
<1> HIDE DEF A
<1>3. /\ LoopOK(A) /\ A.flags[h] = L.flags[h] /\ A.activecnt[h] = L.activecnt[h] + 1 /\ A.reqs_pending[h] = L.reqs_pending[h]
  BY <1>2 DEF Becomes
<1>4. Becomes(A, B, h, F, L.activecnt[h] + 1, L.reqs_pending[h])
  <2>1. CASE L.activecnt[h] = 0
    BY <1>1, <1>3, <2>1, HandleStartBecomes DEF Has
  <2>2. CASE L.activecnt[h] # 0
    BY <1>1, <1>3, <2>2, BecomesItself
  <2> QED
    BY <2>1, <2>2
<1> HIDE DEF B, F
<1>5. Becomes(L, B, h, F, L.activecnt[h] + 1, L.reqs_pending[h])
  BY <1>1, <1>2, <1>4, BecomesTrans
<1>6. B.activecnt[h] > 0
  BY <1>1, <1>5 DEF Becomes
<1>7. IncreaseActiveCount(L, h) = B
  BY <1>6 DEF IncreaseActiveCount, Check, A, B
<1> QED
  BY <1>5, <1>7 DEF F

LEMMA DecreaseBecomes ==
    ASSUME NEW L, LoopOK(L), L.failed = {}, NEW h \in Handles, L.activecnt[h] > 0
    PROVE  Becomes(L, DecreaseActiveCount(L, h), h,
                   IF L.activecnt[h] = 1 /\ ~Has(L, h, "CLOSING") THEN L.flags[h] \ {"ACTIVE"} ELSE L.flags[h],
                   L.activecnt[h] - 1, L.reqs_pending[h])
<1> DEFINE n == L.activecnt[h] - 1
           A == [L EXCEPT !.activecnt[h] = @ - 1]
           B == IF A.activecnt[h] = 0 /\ ~Has(L, h, "CLOSING") THEN HandleStop(A, h) ELSE A
           F == IF L.activecnt[h] = 1 /\ ~Has(L, h, "CLOSING") THEN L.flags[h] \ {"ACTIVE"} ELSE L.flags[h]
<1>1. n \in Int /\ n >= 0 /\ (n = 0 <=> L.activecnt[h] = 1) /\ L.reqs_pending[h] \in Int
  BY FieldsAre
<1>2. Becomes(L, A, h, L.flags[h], n, L.reqs_pending[h])
  <2>1. A = [L EXCEPT !.activecnt[h] = n, !.reqs_pending[h] = L.reqs_pending[h]]
    BY DEF LoopOK, LoopType
  <2> HIDE DEF n, A
  <2> QED
    BY <1>1, <2>1, CountersBecome
<1> HIDE DEF A
<1>3. /\ LoopOK(A) /\ A.flags[h] = L.flags[h] /\ A.activecnt[h] = n /\ A.reqs_pending[h] = L.reqs_pending[h]
  BY <1>2 DEF Becomes
<1>4. Becomes(A, B, h, F, n, L.reqs_pending[h])
  <2>1. CASE L.activecnt[h] = 1 /\ ~Has(L, h, "CLOSING")
    <3>1. ~Has(A, h, "CLOSING") /\ A.activecnt[h] = 0
      BY <1>1, <1>3, <2>1 DEF Has
    <3> QED
      BY <1>1, <1>3, <2>1, <3>1, HandleStopBecomes
  <2>2. CASE ~(L.activecnt[h] = 1 /\ ~Has(L, h, "CLOSING"))
    <3>1. B = A
      BY <1>1, <1>3, <2>2
    <3> QED
      BY <1>1, <1>3, <2>2, <3>1, BecomesItself
  <2> QED
    BY <2>1, <2>2
<1> HIDE DEF B, F, n
<1>5. Becomes(L, B, h, F, n, L.reqs_pending[h])
  BY <1>1, <1>2, <1>4, BecomesTrans
<1>6. B.activecnt[h] >= 0
  BY <1>1, <1>5 DEF Becomes
<1>7. DecreaseActiveCount(L, h) = B
  BY <1>6 DEF DecreaseActiveCount, Check, A, B
<1> QED
  BY <1>5, <1>7 DEF F, n

LEMMA DecreasePendingBecomes ==
    ASSUME NEW L, LoopOK(L), NEW h \in Handles, L.reqs_pending[h] > 0
    PROVE  Becomes(L, DecreasePendingReqCount(L, h), h,
                   IF Has(L, h, "CLOSING") /\ L.reqs_pending[h] = 1
                   THEN L.flags[h] \cup {"ENDGAME_QUEUED"} ELSE L.flags[h],
                   L.activecnt[h], L.reqs_pending[h] - 1)
<1> DEFINE n == L.reqs_pending[h] - 1
           B == [L EXCEPT !.reqs_pending[h] = @ - 1]
           closes == Has(L, h, "CLOSING") /\ L.reqs_pending[h] = 1
           F == IF closes THEN L.flags[h] \cup {"ENDGAME_QUEUED"} ELSE L.flags[h]
<1>1. n \in Int /\ (n = 0 <=> L.reqs_pending[h] = 1) /\ L.activecnt[h] \in Int
  BY DEF LoopOK, LoopType
<1>2. Becomes(L, B, h, L.flags[h], L.activecnt[h], n)
  <2>1. B = [L EXCEPT !.activecnt[h] = L.activecnt[h], !.reqs_pending[h] = n]
    BY DEF LoopOK, LoopType
  <2> HIDE DEF n, B
  <2> QED
    BY <1>1, <2>1, CountersBecome
<1> HIDE DEF B
<1>3. /\ LoopOK(B) /\ B.flags[h] = L.flags[h] /\ B.activecnt[h] = L.activecnt[h] /\ B.reqs_pending[h] = n
  BY <1>2 DEF Becomes
<1>4. DecreasePendingReqCount(L, h) = IF closes THEN WantEndgame(B, h) ELSE B
  <2>1. Has(B, h, "CLOSING") <=> Has(L, h, "CLOSING")
    BY <1>3 DEF Has
  <2>2. B.reqs_pending[h] = 0 <=> L.reqs_pending[h] = 1
    BY <1>1, <1>3
  <2>3. Check(L, "reqs_pending > 0", L.reqs_pending[h] > 0) = L
    BY DEF Check
  <2> QED
    BY <2>1, <2>2, <2>3 DEF DecreasePendingReqCount, B
<1>5. CASE closes
  BY <1>1, <1>2, <1>3, <1>4, <1>5, WantEndgameBecomes, BecomesTrans
<1>6. CASE ~closes
  BY <1>2, <1>4, <1>6
<1> QED
  BY <1>5, <1>6

-----------------------------------------------------------------------------
\* A step is about one handle: the invariant of the others stays.

\* What the invariant of g looks at is the same in M and R as in L and Q.
Alike(L, M, Q, R, g) ==
    /\ M.flags[g] = L.flags[g] /\ M.activecnt[g] = L.activecnt[g] /\ M.reqs_pending[g] = L.reqs_pending[g]
    /\ M.write_reqs_pending[g] = L.write_reqs_pending[g] /\ M.pending_accepts[g] = L.pending_accepts[g]
    /\ g \in M.shutdown_req <=> g \in L.shutdown_req
    /\ g \in M.handle_queue <=> g \in L.handle_queue
    /\ Of(M.active_reqs, g) = Of(L.active_reqs, g)
    /\ Of(M.accept_socket, g) = Of(L.accept_socket, g)
    /\ Of(R, g) = Of(Q, g)

\* The callback k is about no handle but h.
About(k, h) == k.handle = h \/ k.kind \notin {"connection", "alloc", "read", "readloop", "write", "shutdown"}

LEMMA AlikeKeeps ==
    ASSUME NEW L, NEW M, NEW Q, NEW R, NEW k, NEW j, NEW g \in Handles,
           Alike(L, M, Q, R, g), HandleInv(L, Q, k, g),
           k = j \/ \E h : h # g /\ About(k, h) /\ About(j, h)
    PROVE  HandleInv(M, R, j, g)
<1>1. /\ Processing(j, g) <=> Processing(k, g)
      /\ InShutdown(j, g) <=> InShutdown(k, g)
      /\ InReadLoop(j, g) <=> InReadLoop(k, g)
      /\ j.handle = g /\ j.kind \in {"alloc", "read", "readloop"} <=> k.handle = g /\ k.kind \in {"alloc", "read", "readloop"}
      /\ j.handle = g /\ j.kind = "write" <=> k.handle = g /\ k.kind = "write"
      /\ j.handle = g /\ j.kind = "alloc" <=> k.handle = g /\ k.kind = "alloc"
  BY DEF About, Processing, InShutdown, InReadLoop
<1>2. \A r : r.handle = g => /\ r \in M.active_reqs <=> r \in L.active_reqs
                             /\ r \in M.accept_socket <=> r \in L.accept_socket
                             /\ r \in R <=> r \in Q
  BY DEF Alike, Of
<1>3. WritesOf(R, g) = WritesOf(Q, g)
  BY <1>2 DEF WritesOf
<1>4. Lives(M, g)
  BY DEF Alike, HandleInv, Lives, Has
<1>5. g \in Servers \cup Conns => Counts(M, R, j, g)
  BY <1>1 DEF Alike, HandleInv, Counts, Has, One
<1>6. ASSUME g \in Servers
      PROVE  Listens(M, R, g)
  <2>1. Listens(L, Q, g)
    BY <1>6 DEF HandleInv
  <2>2. \A r \in AcceptReqsOf(g) : r.handle = g
    BY DEF AcceptReqsOf
  <2>3. /\ ~Has(M, g, "READING")
        /\ Has(M, g, "LISTENING") => \A r \in AcceptReqsOf(g) : r \in R \/ \E i \in DOMAIN M.pending_accepts[g] : M.pending_accepts[g][i] = r
        /\ Of(R, g) # {} \/ M.pending_accepts[g] # << >> => Has(M, g, "LISTENING") \/ Has(M, g, "CLOSING")
    BY <1>2, <2>1, <2>2 DEF Alike, Listens, Has
  <2>4. \A i \in DOMAIN M.pending_accepts[g] :
          /\ M.pending_accepts[g][i] \in AcceptReqsOf(g) \ R
          /\ M.pending_accepts[g][i] \in M.accept_socket
    BY <1>2, <2>1, <2>2 DEF Alike, Listens
  <2>5. /\ \A i, l \in DOMAIN M.pending_accepts[g] : M.pending_accepts[g][i] = M.pending_accepts[g][l] => i = l
        /\ ~AcceptMayFail => Of(R, g) \subseteq M.accept_socket
    BY <1>2, <2>1 DEF Alike, Listens, Of
  <2> QED
    BY <2>3, <2>4, <2>5 DEF Listens
<1>7. ASSUME g \in Conns
      PROVE  Reads(M, R, j, g) /\ Shuts(M, R, j, g)
  <2>1. Reads(L, Q, k, g) /\ Shuts(L, Q, k, g)
    BY <1>7 DEF HandleInv
  <2>2. ReadReq(g).handle = g /\ ShutdownReq(g).handle = g
    BY DEF ReadReq, ShutdownReq
  <2>3. Reads(M, R, j, g)
    BY <1>1, <1>2, <2>1, <2>2 DEF Alike, Reads, Has
  <2>4. Shuts(M, R, j, g)
    BY <1>1, <1>2, <1>3, <2>1, <2>2 DEF Alike, Shuts, Has
  <2> QED
    BY <2>3, <2>4
<1> QED
  BY <1>4, <1>5, <1>6, <1>7 DEF HandleInv, Alike

LEMMA OneHandle ==
    ASSUME NEW L, NEW M, NEW Q, NEW R, NEW k, NEW j, NEW h \in Handles,
           \A g \in Handles : HandleInv(L, Q, k, g),
           \A g \in Handles \ {h} : Alike(L, M, Q, R, g),
           k = j \/ (About(k, h) /\ About(j, h)),
           HandleInv(M, R, j, h)
    PROVE  \A g \in Handles : HandleInv(M, R, j, g)
  BY AlikeKeeps

LEMMA NoHandle ==
    ASSUME NEW L, NEW M, NEW Q, NEW k, \A g \in Handles : HandleInv(L, Q, k, g),
           NEW R, R = Q, NEW j,
           \/ j = k
           \/ /\ k.kind \notin {"connection", "alloc", "read", "readloop", "write", "shutdown"}
              /\ j.kind \notin {"connection", "alloc", "read", "readloop", "write", "shutdown"},
           M.flags = L.flags, M.activecnt = L.activecnt, M.reqs_pending = L.reqs_pending,
           M.write_reqs_pending = L.write_reqs_pending, M.pending_accepts = L.pending_accepts,
           M.shutdown_req = L.shutdown_req, M.handle_queue = L.handle_queue,
           M.active_reqs = L.active_reqs, M.accept_socket = L.accept_socket
    PROVE  \A g \in Handles : HandleInv(M, R, j, g)
<1>1. \A g \in Handles : Alike(L, M, Q, R, g)
  BY DEF Alike
<1>2. ASSUME NEW g \in Handles
      PROVE  HandleInv(M, R, j, g)
  <2>1. k = j \/ \E h : h # g /\ About(k, h) /\ About(j, h)
    <3>1. \E h : h # g
      OBVIOUS
    <3> QED
      BY <3>1 DEF About
  <2> QED
    BY <1>1, <1>2, <2>1, AlikeKeeps
<1> QED
  BY <1>2

LEMMA BecomesApart ==
    ASSUME NEW L, NEW M, NEW h, NEW F, NEW a, NEW p, Becomes(L, M, h, F, a, p), NEW Q
    PROVE  \A g \in Handles \ {h} : Alike(L, M, Q, Q, g)
  BY DEF Becomes, Alike

-----------------------------------------------------------------------------
\* Moving requests.

LEMMA QueuedIs ==
    ASSUME NEW L, NEW W, NEW M, L.kernel = M.kernel, L.iocp = M.iocp, L.pending = M.pending
    PROVE  /\ Queued(L, W) = Queued(M, W)
           /\ Placed(L, W) => Placed(M, W)
  BY DEF Queued, Placed

\* The kernel takes a request that is nowhere.
LEMMA KernelTakes ==
    ASSUME NEW L, NEW W, Placed(L, W), NEW r \in IoReqs, r \notin Queued(L, W),
           NEW M, M.kernel = L.kernel \cup {r}, M.iocp = L.iocp, M.pending = L.pending
    PROVE  Placed(M, W) /\ Queued(M, W) = Queued(L, W) \cup {r}
  BY DEF Queued, Placed

\* The loop queues a request that is nowhere.
LEMMA LoopTakes ==
    ASSUME NEW L, L.pending \in Seq(Packets), NEW W, Placed(L, W), NEW x \in Packets, x.req \notin Queued(L, W),
           NEW M, M.kernel = L.kernel, M.iocp = L.iocp, M.pending = Append(L.pending, x)
    PROVE  Placed(M, W) /\ Queued(M, W) = Queued(L, W) \cup {x.req}
<1>1. x.req \in IoReqs
  BY DEF Packets
<1>2. ~InQ(L.pending, x.req) /\ x.req \notin L.kernel /\ ~InQ(L.iocp, x.req) /\ ~InQ(W, x.req)
  BY <1>1 DEF Queued
<1>3. /\ \A r : InQ(Append(L.pending, x), r) <=> InQ(L.pending, r) \/ r = x.req
      /\ Once(L.pending) /\ ~InQ(L.pending, x.req) => Once(Append(L.pending, x))
  BY Appended
<1>4. Placed(M, W)
  BY <1>2, <1>3 DEF Placed
<1>5. Queued(M, W) = Queued(L, W) \cup {x.req}
  BY <1>1, <1>3 DEF Queued
<1> QED
  BY <1>4, <1>5

\* uv_process_reqs takes the next request.
LEMMA WorkGives ==
    ASSUME NEW L, NEW W \in Seq(Packets), W # << >>, Placed(L, W)
    PROVE  /\ Head(W) \in Packets /\ Head(W).req \in Queued(L, W)
           /\ Placed(L, Tail(W))
           /\ Queued(L, Tail(W)) = Queued(L, W) \ {Head(W).req}
<1>1. /\ Head(W) \in Packets /\ InQ(W, Head(W).req) /\ Once(Tail(W))
      /\ \A r : InQ(Tail(W), r) <=> InQ(W, r) /\ r # Head(W).req
  BY Taken DEF Placed
<1>2. Head(W).req \in IoReqs
  BY <1>1 DEF Packets
<1>3. /\ Head(W).req \notin L.kernel /\ ~InQ(L.iocp, Head(W).req) /\ ~InQ(L.pending, Head(W).req)
  BY <1>1, <1>2 DEF Placed
<1>4. Queued(L, Tail(W)) = Queued(L, W) \ {Head(W).req}
  BY <1>1, <1>3 DEF Queued
<1>5. Placed(L, Tail(W))
  BY <1>1 DEF Placed
<1> QED
  BY <1>1, <1>2, <1>4, <1>5 DEF Queued

-----------------------------------------------------------------------------
\* One request more or less.

LEMMA ReqsAreFinite ==
    ASSUME NEW Q \in SUBSET IoReqs, NEW A \in SUBSET ClientReqs, NEW h \in Servers \cup Conns
    PROVE  /\ IsFiniteSet(Of(Q, h)) /\ Cardinality(Of(Q, h)) \in Nat
           /\ IsFiniteSet(WritesOf(Q, h)) /\ Cardinality(WritesOf(Q, h)) \in Nat
           /\ IsFiniteSet(Of(A, h)) /\ Cardinality(Of(A, h)) \in Nat
<1>1. Of(Q, h) \subseteq Of(IoReqs, h) /\ WritesOf(Q, h) \subseteq Of(IoReqs, h) /\ Of(A, h) \subseteq Of(ClientReqs, h)
  BY DEF Of, WritesOf
<1>2. IsFiniteSet(Of(Q, h)) /\ IsFiniteSet(WritesOf(Q, h)) /\ IsFiniteSet(Of(A, h))
  BY <1>1, FewRequests, FS_Subset
<1> QED
  BY <1>2, FS_CardinalityType

LEMMA QueueGrows ==
    ASSUME NEW Q \in SUBSET IoReqs, NEW r \in IoReqs, r \notin Q, NEW R, R = Q \cup {r}
    PROVE  /\ Cardinality(Of(Q, r.handle)) \in Nat /\ Cardinality(WritesOf(Q, r.handle)) \in Nat
           /\ Cardinality(Of(R, r.handle)) = Cardinality(Of(Q, r.handle)) + 1
           /\ r.type = "WRITE" => Cardinality(WritesOf(R, r.handle)) = Cardinality(WritesOf(Q, r.handle)) + 1
           /\ r.type # "WRITE" => WritesOf(R, r.handle) = WritesOf(Q, r.handle)
           /\ \A g : g # r.handle => Of(R, g) = Of(Q, g)
<1>1. r.handle \in Servers \cup Conns
  BY IoReqsAre
<1>2. /\ Of(R, r.handle) = Of(Q, r.handle) \cup {r} /\ r \notin Of(Q, r.handle)
      /\ r.type = "WRITE" => WritesOf(R, r.handle) = WritesOf(Q, r.handle) \cup {r} /\ r \notin WritesOf(Q, r.handle)
      /\ r.type # "WRITE" => WritesOf(R, r.handle) = WritesOf(Q, r.handle)
      /\ \A g : g # r.handle => Of(R, g) = Of(Q, g)
  BY DEF Of, WritesOf
<1>3. /\ IsFiniteSet(Of(Q, r.handle)) /\ Cardinality(Of(Q, r.handle)) \in Nat
      /\ IsFiniteSet(WritesOf(Q, r.handle)) /\ Cardinality(WritesOf(Q, r.handle)) \in Nat
  <2>1. {} \in SUBSET ClientReqs
    OBVIOUS
  <2> QED
    BY <1>1, <2>1, ReqsAreFinite
<1>4. Cardinality(Of(Q, r.handle) \cup {r}) = Cardinality(Of(Q, r.handle)) + 1
  BY <1>2, <1>3, CountChanges
<1>5. r \notin WritesOf(Q, r.handle) =>
          Cardinality(WritesOf(Q, r.handle) \cup {r}) = Cardinality(WritesOf(Q, r.handle)) + 1
  BY <1>3, CountChanges
<1> QED
  BY <1>2, <1>3, <1>4, <1>5

LEMMA QueueShrinks ==
    ASSUME NEW Q \in SUBSET IoReqs, NEW r \in Q, NEW R, R = Q \ {r}
    PROVE  /\ Cardinality(Of(Q, r.handle)) \in Nat /\ Cardinality(WritesOf(Q, r.handle)) \in Nat
           /\ Cardinality(Of(R, r.handle)) = Cardinality(Of(Q, r.handle)) - 1
           /\ Cardinality(Of(Q, r.handle)) > 0
           /\ r.type = "WRITE" => Cardinality(WritesOf(R, r.handle)) = Cardinality(WritesOf(Q, r.handle)) - 1
           /\ r.type # "WRITE" => WritesOf(R, r.handle) = WritesOf(Q, r.handle)
           /\ \A g : g # r.handle => Of(R, g) = Of(Q, g)
<1>1. r.handle \in Servers \cup Conns
  BY IoReqsAre
<1>2. /\ Of(R, r.handle) = Of(Q, r.handle) \ {r} /\ r \in Of(Q, r.handle)
      /\ r.type = "WRITE" => WritesOf(R, r.handle) = WritesOf(Q, r.handle) \ {r} /\ r \in WritesOf(Q, r.handle)
      /\ r.type # "WRITE" => WritesOf(R, r.handle) = WritesOf(Q, r.handle)
      /\ \A g : g # r.handle => Of(R, g) = Of(Q, g)
  BY DEF Of, WritesOf
<1>3. /\ IsFiniteSet(Of(Q, r.handle)) /\ Cardinality(Of(Q, r.handle)) \in Nat
      /\ IsFiniteSet(WritesOf(Q, r.handle)) /\ Cardinality(WritesOf(Q, r.handle)) \in Nat
  <2>1. {} \in SUBSET ClientReqs
    OBVIOUS
  <2> QED
    BY <1>1, <2>1, ReqsAreFinite
<1> QED
  BY <1>2, <1>3, CountChanges

LEMMA ReqsGrow ==
    ASSUME NEW A \in SUBSET ClientReqs, NEW r \in ClientReqs, r \notin A, NEW B, B = A \cup {r}
    PROVE  /\ Cardinality(Of(A, r.handle)) \in Nat
           /\ Cardinality(Of(B, r.handle)) = Cardinality(Of(A, r.handle)) + 1
           /\ \A g : g # r.handle => Of(B, g) = Of(A, g)
<1>1. r.handle \in Conns
  BY DEF ClientReqs, WriteReqs, ShutdownReqs
<1>2. /\ Of(B, r.handle) = Of(A, r.handle) \cup {r} /\ r \notin Of(A, r.handle)
      /\ \A g : g # r.handle => Of(B, g) = Of(A, g)
  BY DEF Of
<1>3. IsFiniteSet(Of(A, r.handle)) /\ Cardinality(Of(A, r.handle)) \in Nat
  <2>1. {} \in SUBSET IoReqs
    OBVIOUS
  <2> QED
    BY <1>1, <2>1, ReqsAreFinite
<1>4. Cardinality(Of(A, r.handle) \cup {r}) = Cardinality(Of(A, r.handle)) + 1
  BY <1>2, <1>3, CountChanges
<1> QED
  BY <1>2, <1>3, <1>4

LEMMA ReqsShrink ==
    ASSUME NEW A \in SUBSET ClientReqs, NEW r \in A, NEW B, B = A \ {r}
    PROVE  /\ Cardinality(Of(A, r.handle)) \in Nat
           /\ Cardinality(Of(B, r.handle)) = Cardinality(Of(A, r.handle)) - 1
           /\ Cardinality(Of(A, r.handle)) > 0
           /\ \A g : g # r.handle => Of(B, g) = Of(A, g)
<1>1. r.handle \in Conns
  BY DEF ClientReqs, WriteReqs, ShutdownReqs
<1>2. /\ Of(B, r.handle) = Of(A, r.handle) \ {r} /\ r \in Of(A, r.handle)
      /\ \A g : g # r.handle => Of(B, g) = Of(A, g)
  BY DEF Of
<1>3. IsFiniteSet(Of(A, r.handle)) /\ Cardinality(Of(A, r.handle)) \in Nat
  <2>1. {} \in SUBSET IoReqs
    OBVIOUS
  <2> QED
    BY <1>1, <2>1, ReqsAreFinite
<1> QED
  BY <1>2, <1>3, CountChanges

-----------------------------------------------------------------------------
\* The steps of uv_run.

LEMMA InvIs ==
    ASSUME IInv, CInv
    PROVE  /\ Spared /\ LoopOK(loop) /\ loop.failed = {} /\ Placed(loop, work)
           /\ work \in Seq(Packets) /\ loop.pending \in Seq(Packets) /\ loop.iocp \in Seq(Packets)
           /\ Queued(loop, work) \in SUBSET IoReqs /\ loop.active_reqs \in SUBSET ClientReqs
           /\ \A h \in Handles : HandleInv(loop, Queued(loop, work), cb, h)
           /\ cb.kind \in Callbacks \cup {"none", "readloop"}
  BY DEF IInv, TypeOK, LoopType, CInv, Queued, CallbackType

\* In which callbacks uv_run is when it is at its loop's test, or outside.
LEMMA NoneIs ==
    ASSUME IInv, CInv
    PROVE  /\ pc \in {"outside", "poll"} => cb.kind = "none"
           /\ cb = NoCallback => cb.kind = "none"
  BY DEF IInv, TypeOK, CInv, Stages, CallbackType, Callbacks, NoCallback, Callback

LEMMA NextIterationC ==
    ASSUME IInv, CInv, cb.kind = "none", pc # "reqs", NextIteration, UNCHANGED <<work, cb, request>>
    PROVE  CInv'
<1>1. /\ loop'.failed = {} /\ loop'.active_reqs = loop.active_reqs /\ loop'.kernel = loop.kernel
      /\ loop'.iocp = loop.iocp /\ loop'.pending = loop.pending /\ loop'.flags = loop.flags
  BY DEF IInv, TypeOK, LoopType, CInv, NextIteration
<1>2. Queued(loop', work') = Queued(loop, work) /\ Placed(loop', work')
  BY <1>1, QueuedIs DEF CInv
<1>3. \A h \in Handles : HandleInv(loop', Queued(loop', work'), cb', h)
  <2>1. loop' = loop \/ loop' = [loop EXCEPT !.stop_flag = FALSE]
    BY DEF NextIteration
  <2>2. /\ loop'.flags = loop.flags /\ loop'.activecnt = loop.activecnt
        /\ loop'.reqs_pending = loop.reqs_pending
        /\ loop'.write_reqs_pending = loop.write_reqs_pending
        /\ loop'.pending_accepts = loop.pending_accepts /\ loop'.shutdown_req = loop.shutdown_req
        /\ loop'.handle_queue = loop.handle_queue /\ loop'.active_reqs = loop.active_reqs
        /\ loop'.accept_socket = loop.accept_socket
    BY <2>1 DEF IInv, TypeOK, LoopType
  <2>3. /\ \A h \in Handles : HandleInv(loop, Queued(loop, work), cb, h)
        /\ Queued(loop', work') = Queued(loop, work) /\ cb' = cb
    BY <1>2 DEF CInv
  <2> QED
    BY ONLY <2>2, <2>3, NoHandle
<1>4. due' \subseteq ActiveTimers(loop')
  BY <1>1 DEF CInv, NextIteration, ActiveTimers, Has
<1>5. Stages'
  BY DEF CInv, Stages, NextIteration
<1> QED
  BY <1>1, <1>2, <1>3, <1>4, <1>5 DEF CInv

LEMMA RunC ==
    ASSUME IInv, CInv, RunBegin \/ EndgamesEnd
    PROVE  CInv'
<1>1. CASE RunBegin
  BY <1>1, NoneIs, NextIterationC DEF RunBegin
<1>2. CASE EndgamesEnd
  BY <1>2, NoneIs, NextIterationC DEF EndgamesEnd
<1> QED
  BY <1>1, <1>2

LEMMA TimersEndC ==
    ASSUME IInv, CInv, TimersEnd
    PROVE  CInv'
<1>1. /\ loop'.failed = {} /\ loop'.active_reqs = loop.active_reqs /\ loop'.kernel = loop.kernel
      /\ loop'.iocp = loop.iocp /\ loop'.pending = << >> /\ work' = loop.pending /\ work = << >>
      /\ loop'.flags = loop.flags
  BY DEF IInv, TypeOK, LoopType, CInv, Stages, TimersEnd
<1>2. Queued(loop', work') = Queued(loop, work) /\ Placed(loop', work')
  BY <1>1, EmptyQueue DEF CInv, Queued, Placed
<1>3. \A h \in Handles : HandleInv(loop', Queued(loop', work'), cb', h)
  BY <1>2, NoHandle DEF IInv, TypeOK, LoopType, CInv, TimersEnd
<1>4. due' \subseteq ActiveTimers(loop')
  BY <1>1 DEF CInv, TimersEnd, ActiveTimers, Has
<1>5. Stages'
  BY NoneIs DEF CInv, Stages, TimersEnd
<1> QED
  BY <1>1, <1>2, <1>3, <1>4, <1>5 DEF CInv, TimersEnd

LEMMA ReqsEndC ==
    ASSUME IInv, CInv, ReqsEnd
    PROVE  CInv'
<1>1. cb.kind = "none"
  BY NoneIs DEF ReqsEnd
<1> QED
  BY <1>1 DEF CInv, Stages, ReqsEnd

LEMMA PollC ==
    ASSUME IInv, CInv, Poll
    PROVE  CInv'
<1> DEFINE q == loop.pending \o loop.iocp
<1>1. /\ \A r : InQ(q, r) <=> InQ(loop.pending, r) \/ InQ(loop.iocp, r)
      /\ Once(q)
  <2>1. \A r : ~(InQ(loop.pending, r) /\ InQ(loop.iocp, r))
    <3>1. \A r : InQ(loop.iocp, r) => r \in IoReqs
      BY InvIs, QueueOfRequests
    <3> QED
      BY <3>1 DEF CInv, Placed
  <2> QED
    BY <2>1, InvIs, Joined DEF Placed
<1>2. \A p \in DOMAIN loop.pending, i \in DOMAIN loop.iocp : loop.pending[p].req # loop.iocp[i].req
  <2>1. SUFFICES ASSUME NEW p \in DOMAIN loop.pending, NEW i \in DOMAIN loop.iocp,
                        loop.pending[p].req = loop.iocp[i].req
                 PROVE  FALSE
    OBVIOUS
  <2>2. /\ InQ(loop.pending, loop.pending[p].req) /\ InQ(loop.iocp, loop.pending[p].req)
        /\ loop.pending[p].req \in IoReqs
    BY <2>1, InvIs, QueueOfRequests
  <2> QED
    BY <2>2 DEF CInv, Placed
<1>3. loop' = [loop EXCEPT !.pending = q, !.iocp = << >>]
  BY <1>2 DEF Poll, Check, IInv, TypeOK, LoopType
<1> HIDE DEF q
<1>4. /\ loop'.failed = {} /\ loop'.active_reqs = loop.active_reqs /\ loop'.kernel = loop.kernel
      /\ loop'.iocp = << >> /\ loop'.pending = q /\ loop'.flags = loop.flags
      /\ work' = work /\ cb' = cb /\ due' = due /\ request' = request /\ pc' = "endgames" /\ cb.kind = "none"
      /\ work = << >>
  BY <1>3, NoneIs DEF IInv, TypeOK, LoopType, CInv, Stages, Poll
<1>5. Queued(loop', work') = Queued(loop, work) /\ Placed(loop', work')
  BY <1>1, <1>4, EmptyQueue DEF CInv, Queued, Placed
<1>6. \A h \in Handles : HandleInv(loop', Queued(loop', work'), cb', h)
  BY <1>3, <1>4, <1>5, NoHandle DEF IInv, TypeOK, LoopType, CInv
<1>7. due' \subseteq ActiveTimers(loop') /\ Stages'
  BY <1>4 DEF CInv, ActiveTimers, Has, Stages
<1> QED
  BY <1>4, <1>5, <1>6, <1>7 DEF CInv

LEMMA KernelCompletesC ==
    ASSUME IInv, CInv, NEW r \in IoReqs, KernelCompletes(r)
    PROVE  CInv'
<1>1. PICK ok \in BOOLEAN : loop' = [loop EXCEPT !.kernel = @ \ {r}, !.iocp = Append(@, Packet(r, ok))]
  BY DEF KernelCompletes
<1>2. Packet(r, ok) \in Packets /\ Packet(r, ok).req = r
  BY DEF Packet, Packets
<1>3. /\ loop'.failed = {} /\ loop'.active_reqs = loop.active_reqs /\ loop'.kernel = loop.kernel \ {r}
      /\ loop'.iocp = Append(loop.iocp, Packet(r, ok)) /\ loop'.pending = loop.pending /\ loop'.flags = loop.flags
      /\ work' = work /\ cb' = cb /\ due' = due /\ request' = request /\ pc' = pc
      /\ r \in loop.kernel
  BY <1>1 DEF IInv, TypeOK, LoopType, CInv, KernelCompletes
<1>4. /\ \A x : InQ(loop'.iocp, x) <=> InQ(loop.iocp, x) \/ x = r
      /\ Once(loop.iocp) /\ ~InQ(loop.iocp, r) => Once(loop'.iocp)
  BY <1>2, <1>3, InvIs, Appended
<1>5. Queued(loop', work') = Queued(loop, work) /\ Placed(loop', work')
  BY <1>3, <1>4 DEF CInv, Queued, Placed
<1>6. \A h \in Handles : HandleInv(loop', Queued(loop', work'), cb', h)
  BY <1>1, <1>3, <1>5, NoHandle DEF IInv, TypeOK, LoopType, CInv
<1>7. due' \subseteq ActiveTimers(loop') /\ Stages'
  BY <1>3 DEF CInv, ActiveTimers, Has, Stages
<1> QED
  BY <1>3, <1>5, <1>6, <1>7 DEF CInv

-----------------------------------------------------------------------------
\* A step about one handle.

LEMMA StepC ==
    ASSUME IInv, CInv, NEW h \in Handles,
           loop'.failed = {}, loop'.active_reqs = {r \in ClientReqs : request'[r] = "issued"},
           due' \subseteq due \cup {h}, h \in due' => h \in Timers /\ Has(loop', h, "ACTIVE"),
           Stages', Placed(loop', work'),
           \A g \in Handles \ {h} : Alike(loop, loop', Queued(loop, work), Queued(loop', work'), g),
           cb' = cb \/ (About(cb, h) /\ About(cb', h)),
           HandleInv(loop', Queued(loop', work'), cb', h)
    PROVE  CInv'
<1>1. \A g \in Handles : HandleInv(loop', Queued(loop', work'), cb', g)
  <2>1. cb = cb' \/ (About(cb, h) /\ About(cb', h))
    OBVIOUS
  <2> QED
    BY <2>1, InvIs, OneHandle
<1>2. due' \subseteq ActiveTimers(loop')
  <2>1. ASSUME NEW t \in due', t # h
        PROVE  t \in ActiveTimers(loop')
    <3>1. t \in Timers /\ Has(loop, t, "ACTIVE") /\ t \in Handles \ {h}
      BY <2>1 DEF CInv, ActiveTimers, Handles
    <3> QED
      BY <3>1 DEF Alike, ActiveTimers, Has
  <2> QED
    BY <2>1 DEF ActiveTimers
<1> QED
  BY <1>1, <1>2 DEF CInv

\* Streams are no timers, and servers no connections.
LEMMA Kinds ==
    /\ \A h \in Servers \cup Conns : h \in Handles /\ h \notin Timers
    /\ \A h \in Servers : h \notin Conns
    /\ \A h \in Timers : h \in Handles /\ h \notin Servers /\ h \notin Conns
  BY HandlesAssumption DEF Handles

\* A step that changes only what the macros change.
LEMMA BecomesC ==
    ASSUME IInv, CInv, NEW h \in Handles, NEW F, NEW a, NEW p, Becomes(loop, loop', h, F, a, p),
           work' = work, request' = request,
           due' \subseteq due \cup {h}, h \in due' => h \in Timers /\ Has(loop', h, "ACTIVE"),
           Stages', cb' = cb \/ (About(cb, h) /\ About(cb', h)),
           HandleInv(loop', Queued(loop, work), cb', h)
    PROVE  CInv'
<1>1. loop'.failed = {} /\ loop'.active_reqs = {r \in ClientReqs : request'[r] = "issued"}
  BY DEF Becomes, CInv
<1>2. Queued(loop', work') = Queued(loop, work) /\ Placed(loop', work')
  BY QueuedIs DEF Becomes, CInv
<1>3. \A g \in Handles \ {h} : Alike(loop, loop', Queued(loop, work), Queued(loop', work'), g)
  BY <1>2, BecomesApart
<1> QED
  BY <1>1, <1>2, <1>3, StepC

-----------------------------------------------------------------------------
\* Timers.

LEMMA TimerBecomes ==
    ASSUME NEW L, LoopOK(L), L.failed = {}, NEW t \in Timers
    PROVE  /\ Becomes(L, TimerStop(L, t), t, L.flags[t] \ {"ACTIVE"}, L.activecnt[t], L.reqs_pending[t])
           /\ ~Has(L, t, "CLOSING") =>
                 Becomes(L, TimerStart(L, t), t, L.flags[t] \cup {"ACTIVE"}, L.activecnt[t], L.reqs_pending[t])
<1>1. t \in Handles
  BY Kinds
<1>2. Becomes(L, TimerStop(L, t), t, L.flags[t] \ {"ACTIVE"}, L.activecnt[t], L.reqs_pending[t])
  <2>1. CASE Has(L, t, "ACTIVE")
    BY <1>1, <2>1, FieldsAre, HandleStopBecomes DEF TimerStop
  <2>2. CASE ~Has(L, t, "ACTIVE")
    <3>1. L.flags[t] = L.flags[t] \ {"ACTIVE"}
      BY <2>2 DEF Has
    <3> QED
      BY <1>1, <2>2, <3>1, BecomesItself DEF TimerStop
  <2> QED
    BY <2>1, <2>2
<1>3. ASSUME ~Has(L, t, "CLOSING")
      PROVE  Becomes(L, TimerStart(L, t), t, L.flags[t] \cup {"ACTIVE"}, L.activecnt[t], L.reqs_pending[t])
  <2> DEFINE A == TimerStop(L, t)
  <2>1. /\ LoopOK(A) /\ A.flags[t] = L.flags[t] \ {"ACTIVE"} /\ A.activecnt[t] = L.activecnt[t]
        /\ A.reqs_pending[t] = L.reqs_pending[t]
    BY <1>2 DEF Becomes
  <2>2. Becomes(A, HandleStart(A, t), t, A.flags[t] \cup {"ACTIVE"}, A.activecnt[t], A.reqs_pending[t])
    BY <1>1, <1>3, <2>1, HandleStartBecomes DEF Has
  <2>3. A.flags[t] \cup {"ACTIVE"} = L.flags[t] \cup {"ACTIVE"}
    BY <2>1
  <2> HIDE DEF A
  <2>4. Becomes(L, HandleStart(A, t), t, L.flags[t] \cup {"ACTIVE"}, L.activecnt[t], L.reqs_pending[t])
    BY <1>1, <1>2, <2>1, <2>2, <2>3, BecomesTrans DEF A
  <2> QED
    BY <2>4 DEF A, TimerStart
<1> QED
  BY <1>2, <1>3

\* An active timer that is stopped or started stays what it is otherwise.
LEMMA TimerLives ==
    ASSUME NEW L, LoopOK(L), L.failed = {}, NEW Q, NEW k, NEW t \in Timers, HandleInv(L, Q, k, t),
           ~Has(L, t, "CLOSING"), t \in L.handle_queue, NEW M, NEW F, F \ {"ACTIVE"} = L.flags[t] \ {"ACTIVE"},
           Becomes(L, M, t, F, L.activecnt[t], L.reqs_pending[t]), NEW R, NEW j
    PROVE  HandleInv(M, R, j, t)
<1>1. Lives(M, t)
  BY Kinds, FieldsAre DEF HandleInv, Lives, Becomes, Has
<1> QED
  BY <1>1, Kinds DEF HandleInv, Becomes

\* An open handle is neither closing nor closed, and an active one is open.
LEMMA ActiveIsOpen ==
    ASSUME IInv, CInv, NEW h \in Handles, Has(loop, h, "ACTIVE")
    PROVE  h \in loop.handle_queue /\ ~Has(loop, h, "CLOSING")
<1>1. Lives(loop, h) /\ LoopOK(loop) /\ loop.failed = {}
  BY InvIs DEF HandleInv
<1> QED
  BY <1>1, FieldsAre DEF Lives, Has

LEMMA FireTimerC ==
    ASSUME IInv, CInv, NEW t \in Timers, FireTimer(t)
    PROVE  CInv'
<1>1. /\ t \in Handles /\ LoopOK(loop) /\ loop.failed = {} /\ HandleInv(loop, Queued(loop, work), cb, t)
      /\ Has(loop, t, "ACTIVE") /\ t \in loop.handle_queue /\ ~Has(loop, t, "CLOSING") /\ cb.kind = "none"
  BY Kinds, InvIs, NoneIs, ActiveIsOpen DEF FireTimer, CInv, ActiveTimers
<1>2. PICK F : /\ F \ {"ACTIVE"} = loop.flags[t] \ {"ACTIVE"}
               /\ Becomes(loop, loop', t, F, loop.activecnt[t], loop.reqs_pending[t])
  <2>1. CASE loop' = TimerStop(loop, t)
    <3>1. Becomes(loop, loop', t, loop.flags[t] \ {"ACTIVE"}, loop.activecnt[t], loop.reqs_pending[t])
      BY <1>1, <2>1, TimerBecomes
    <3> QED
      BY <3>1
  <2>2. CASE loop' = TimerStart(TimerStop(loop, t), t)
    <3> DEFINE A == TimerStop(loop, t)
               F == A.flags[t] \cup {"ACTIVE"}
    <3>1. Becomes(loop, A, t, loop.flags[t] \ {"ACTIVE"}, loop.activecnt[t], loop.reqs_pending[t])
      BY <1>1, TimerBecomes
    <3>2. /\ LoopOK(A) /\ A.failed = {} /\ A.flags[t] = loop.flags[t] \ {"ACTIVE"}
          /\ A.activecnt[t] = loop.activecnt[t] /\ A.reqs_pending[t] = loop.reqs_pending[t]
          /\ ~Has(A, t, "CLOSING")
      BY <1>1, <3>1 DEF Becomes, Has
    <3>3. F \ {"ACTIVE"} = loop.flags[t] \ {"ACTIVE"}
      BY <3>2
    <3>4. loop' = TimerStart(A, t)
      BY <2>2
    <3> HIDE DEF A
    <3>5. Becomes(A, loop', t, F, loop.activecnt[t], loop.reqs_pending[t])
      BY <3>2, <3>4, TimerBecomes
    <3> HIDE DEF F
    <3>6. Becomes(loop, loop', t, F, loop.activecnt[t], loop.reqs_pending[t])
      BY <1>1, <3>1, <3>5, BecomesTrans
    <3> QED
      BY <3>3, <3>6
  <2> QED
    BY <2>1, <2>2 DEF FireTimer
<1>3. HandleInv(loop', Queued(loop, work), cb', t)
  BY <1>1, <1>2, TimerLives
<1>4. Stages' /\ About(cb, t) /\ About(cb', t)
  BY <1>1 DEF CInv, Stages, FireTimer, Callback, About
<1>5. due' \subseteq due \cup {t} /\ t \notin due' /\ work' = work /\ request' = request
  BY DEF FireTimer
<1> QED
  BY <1>1, <1>2, <1>3, <1>4, <1>5, BecomesC

-----------------------------------------------------------------------------
\* The calls about any handle.

\* A call leaves uv_run where it is.
LEMMA CallsC ==
    ASSUME CInv, Calls
    PROVE  Stages' /\ work' = work /\ cb' = cb /\ pc' = pc
  BY DEF CInv, Calls, Stages

LEMMA ClientTimersC ==
    ASSUME IInv, CInv, NEW t \in Timers, ClientStartsTimer(t) \/ ClientStopsTimer(t)
    PROVE  CInv'
<1>1. /\ t \in Handles /\ LoopOK(loop) /\ loop.failed = {} /\ HandleInv(loop, Queued(loop, work), cb, t)
  BY Kinds, InvIs
<1>2. Stages' /\ work' = work /\ cb' = cb
  BY CallsC DEF ClientStartsTimer, ClientStopsTimer
<1>3. CASE ClientStartsTimer(t)
  <2> DEFINE F == loop.flags[t] \cup {"ACTIVE"}
  <2>1. t \in loop.handle_queue /\ ~Has(loop, t, "CLOSING") /\ loop' = TimerStart(loop, t) /\ request' = request
    BY <1>3 DEF ClientStartsTimer, Open, Opened
  <2>2. Becomes(loop, loop', t, F, loop.activecnt[t], loop.reqs_pending[t])
    BY <1>1, <2>1, TimerBecomes
  <2>3. F \ {"ACTIVE"} = loop.flags[t] \ {"ACTIVE"} /\ Has(loop', t, "ACTIVE")
    BY <2>2 DEF Becomes, Has
  <2>4. due' \subseteq due \cup {t}
    BY <1>3 DEF ClientStartsTimer
  <2> HIDE DEF F
  <2>5. HandleInv(loop', Queued(loop, work), cb', t)
    BY <1>1, <2>1, <2>2, <2>3, TimerLives
  <2> QED
    BY <1>1, <1>2, <2>1, <2>2, <2>3, <2>4, <2>5, BecomesC
<1>4. CASE ClientStopsTimer(t)
  <2> DEFINE F == loop.flags[t] \ {"ACTIVE"}
  <2>1. t \in loop.handle_queue /\ loop' = TimerStop(loop, t) /\ request' = request
    BY <1>4 DEF ClientStopsTimer, Opened
  <2>2. Becomes(loop, loop', t, F, loop.activecnt[t], loop.reqs_pending[t])
    BY <1>1, <2>1, TimerBecomes
  <2>3. due' \subseteq due \cup {t} /\ t \notin due'
    BY <1>4 DEF ClientStopsTimer
  <2>4. HandleInv(loop', Queued(loop, work), cb', t)
    <3>1. CASE Has(loop, t, "CLOSING")
      <4>1. loop.flags[t] \ {"ACTIVE"} = loop.flags[t]
        BY <1>1, <3>1, FieldsAre DEF Has
      <4>2. Lives(loop', t)
        BY <1>1, <2>2, <4>1 DEF HandleInv, Lives, Becomes, Has
      <4> QED
        BY <1>1, <2>2, <4>2, Kinds DEF HandleInv, Becomes
    <3>2. CASE ~Has(loop, t, "CLOSING")
      <4>1. F \ {"ACTIVE"} = loop.flags[t] \ {"ACTIVE"}
        OBVIOUS
      <4> HIDE DEF F
      <4> QED
        BY <1>1, <2>1, <2>2, <3>2, <4>1, TimerLives
    <3> QED
      BY <3>1, <3>2
  <2> HIDE DEF F
  <2> QED
    BY <1>1, <1>2, <2>1, <2>2, <2>3, <2>4, BecomesC
<1> QED
  BY <1>3, <1>4

LEMMA ClientRefsC ==
    ASSUME IInv, CInv, NEW h \in Handles, ClientRefs(h)
    PROVE  CInv'
<1>1. LoopOK(loop) /\ loop.failed = {} /\ HandleInv(loop, Queued(loop, work), cb, h)
  BY InvIs
<1>2. Stages' /\ work' = work /\ cb' = cb /\ due' = due /\ request' = request /\ h \in loop.handle_queue
  BY CallsC DEF ClientRefs, Opened
<1>3. PICK F : /\ F \ {"REF"} = loop.flags[h] \ {"REF"}
               /\ Becomes(loop, loop', h, F, loop.activecnt[h], loop.reqs_pending[h])
  <2>1. \A X : (X \cup {"REF"}) \ {"REF"} = X \ {"REF"} /\ (X \ {"REF"}) \ {"REF"} = X \ {"REF"}
    OBVIOUS
  <2>2. /\ Becomes(loop, HandleRef(loop, h), h, loop.flags[h] \cup {"REF"}, loop.activecnt[h], loop.reqs_pending[h])
        /\ Becomes(loop, HandleUnref(loop, h), h, loop.flags[h] \ {"REF"}, loop.activecnt[h], loop.reqs_pending[h])
    BY <1>1, HandleRefBecomes, HandleUnrefBecomes
  <2>3. loop' = HandleRef(loop, h) \/ loop' = HandleUnref(loop, h)
    BY DEF ClientRefs
  <2> QED
    BY <2>1, <2>2, <2>3
<1>4. /\ loop'.flags[h] = F
      /\ \A f : f # "REF" => (f \in F <=> f \in loop.flags[h])
  BY <1>3 DEF Becomes
<1>5. Lives(loop', h)
  BY <1>1, <1>2, <1>3, <1>4 DEF HandleInv, Lives, Becomes, Has
<1>6. h \in Servers \cup Conns => Counts(loop', Queued(loop, work), cb, h)
  BY <1>1, <1>3, <1>4 DEF HandleInv, Counts, Becomes, Has, One
<1>7. h \in Servers => Listens(loop', Queued(loop, work), h)
  BY <1>1, <1>3, <1>4 DEF HandleInv, Listens, Becomes, Has
<1>8. h \in Conns => Reads(loop', Queued(loop, work), cb, h)
  BY <1>1, <1>3, <1>4 DEF HandleInv, Reads, Becomes, Has
<1>9. h \in Conns => Shuts(loop', Queued(loop, work), cb, h)
  BY <1>1, <1>3, <1>4 DEF HandleInv, Shuts, Becomes, Has
<1>10. HandleInv(loop', Queued(loop, work), cb', h)
  BY <1>1, <1>2, <1>3, <1>5, <1>6, <1>7, <1>8, <1>9 DEF HandleInv, Becomes
<1>11. h \in due' => h \in Timers /\ Has(loop', h, "ACTIVE")
  BY <1>2, <1>4 DEF CInv, ActiveTimers, Has
<1> QED
  BY <1>2, <1>3, <1>10, <1>11, BecomesC

LEMMA ClientStopsC ==
    ASSUME IInv, CInv, ClientStops
    PROVE  CInv'
<1>1. Stages' /\ work' = work /\ cb' = cb /\ due' = due /\ request' = request
  BY CallsC DEF ClientStops
<1>2. /\ loop'.failed = {} /\ loop'.active_reqs = loop.active_reqs /\ loop'.kernel = loop.kernel
      /\ loop'.iocp = loop.iocp /\ loop'.pending = loop.pending /\ loop'.flags = loop.flags
  BY DEF IInv, TypeOK, LoopType, CInv, ClientStops
<1>3. Queued(loop', work') = Queued(loop, work) /\ Placed(loop', work')
  BY <1>1, <1>2, QueuedIs DEF CInv
<1>4. \A h \in Handles : HandleInv(loop', Queued(loop', work'), cb', h)
  <2>1. loop' = [loop EXCEPT !.stop_flag = TRUE]
    BY DEF ClientStops
  <2> QED
    BY <1>1, <1>3, <2>1, NoHandle DEF IInv, TypeOK, LoopType, CInv
<1> QED
  BY <1>1, <1>2, <1>3, <1>4 DEF CInv, ActiveTimers, Has

LEMMA ClientOpensC ==
    ASSUME IInv, CInv, NEW h \in Handles, ClientOpens(h)
    PROVE  CInv'
<1>1. LoopOK(loop) /\ loop.failed = {} /\ HandleInv(loop, Queued(loop, work), cb, h)
  BY InvIs
<1>2. Stages' /\ work' = work /\ cb' = cb /\ due' = due /\ request' = request
      /\ h \notin loop.handle_queue /\ loop.flags[h] = {}
  BY CallsC DEF ClientOpens, Opened
<1>3. loop.activecnt[h] = 0 /\ loop.reqs_pending[h] = 0
  BY <1>1, <1>2 DEF HandleInv, Lives, Has
<1>4. /\ loop'.flags = [loop.flags EXCEPT ![h] = {"REF"}]
      /\ loop'.activecnt[h] = 0 /\ loop'.reqs_pending[h] = 0
      /\ \A g \in Handles \ {h} : /\ loop'.activecnt[g] = loop.activecnt[g]
                                  /\ loop'.reqs_pending[g] = loop.reqs_pending[g]
      /\ loop'.handle_queue = loop.handle_queue \cup {h}
      /\ loop'.write_reqs_pending = loop.write_reqs_pending /\ loop'.shutdown_req = loop.shutdown_req
      /\ loop'.active_reqs = loop.active_reqs /\ loop'.pending_accepts = loop.pending_accepts
      /\ loop'.accept_socket = loop.accept_socket
      /\ loop'.kernel = loop.kernel /\ loop'.iocp = loop.iocp /\ loop'.pending = loop.pending
      /\ loop'.failed = loop.failed
  BY <1>3 DEF ClientOpens, TcpInit, HandleInit, IInv, TypeOK, LoopType
<1>5. /\ loop'.flags[h] = {"REF"}
      /\ \A g \in Handles \ {h} : loop'.flags[g] = loop.flags[g]
  BY <1>4 DEF IInv, TypeOK, LoopType
<1>6. Queued(loop', work') = Queued(loop, work) /\ Placed(loop', work')
  BY <1>2, <1>4, QueuedIs DEF CInv
<1>7. \A g \in Handles \ {h} : Alike(loop, loop', Queued(loop, work), Queued(loop', work'), g)
  BY <1>4, <1>5, <1>6 DEF Alike
<1>8. Lives(loop', h)
  BY <1>4, <1>5 DEF Lives, Has
<1>9. h \in Servers \cup Conns => Counts(loop', Queued(loop, work), cb, h)
  BY <1>1, <1>2, <1>3, <1>4, <1>5 DEF HandleInv, Counts, Has, One
<1>10. h \in Servers => Listens(loop', Queued(loop, work), h)
  BY <1>1, <1>2, <1>3, <1>4, <1>5 DEF HandleInv, Listens, Has
<1>11. h \in Conns => Reads(loop', Queued(loop, work), cb, h)
  BY <1>1, <1>2, <1>4, <1>5 DEF HandleInv, Reads, Has
<1>12. h \in Conns => Shuts(loop', Queued(loop, work), cb, h)
  BY <1>1, <1>2, <1>4, <1>5 DEF HandleInv, Shuts, Has
<1>13. HandleInv(loop', Queued(loop', work'), cb', h)
  BY <1>2, <1>4, <1>6, <1>8, <1>9, <1>10, <1>11, <1>12 DEF HandleInv
<1>14. h \notin due'
  BY <1>2 DEF CInv, ActiveTimers, Has
<1> QED
  BY <1>1, <1>2, <1>4, <1>6, <1>7, <1>13, <1>14, StepC DEF CInv

-----------------------------------------------------------------------------
\* Starting and stopping to read or to listen.


LEMMA StartsBecomes ==
    ASSUME NEW L, LoopOK(L), L.failed = {}, NEW h \in Handles, NEW F \in SUBSET OtherFlags,
           ~Has(L, h, "CLOSING"), L.activecnt[h] >= 0
    PROVE  \E G \in SUBSET Flags :
             /\ Becomes(L, IncreaseActiveCount(SetFlags(L, h, F), h), h, G, L.activecnt[h] + 1, L.reqs_pending[h])
             /\ \A f : f # "ACTIVE" => (f \in G <=> f \in L.flags[h] \/ f \in F)
             /\ "ACTIVE" \in G <=> Has(L, h, "ACTIVE") \/ L.activecnt[h] = 0
<1> DEFINE A == SetFlags(L, h, F)
           H == L.flags[h] \cup F
           G == IF L.activecnt[h] = 0 THEN H \cup {"ACTIVE"} ELSE H
<1>1. Becomes(L, A, h, H, L.activecnt[h], L.reqs_pending[h])
  BY OtherFlagsBecome
<1>2. "CLOSING" \notin F /\ "ACTIVE" \notin F /\ F \subseteq Flags /\ L.flags[h] \subseteq Flags
  BY FieldsAre DEF OtherFlags
<1>3. /\ LoopOK(A) /\ A.failed = {} /\ A.flags[h] = H /\ A.activecnt[h] = L.activecnt[h]
      /\ A.reqs_pending[h] = L.reqs_pending[h] /\ ~Has(A, h, "CLOSING")
  BY <1>1, <1>2 DEF Becomes, Has
<1> HIDE DEF A
<1>4. Becomes(A, IncreaseActiveCount(A, h), h, G, L.activecnt[h] + 1, L.reqs_pending[h])
  BY <1>3, IncreaseBecomes
<1>5. /\ G \in SUBSET Flags
      /\ \A f : f # "ACTIVE" => (f \in G <=> f \in L.flags[h] \/ f \in F)
      /\ "ACTIVE" \in G <=> Has(L, h, "ACTIVE") \/ L.activecnt[h] = 0
  BY <1>2 DEF Has, Flags
<1> HIDE DEF G, H
<1>6. Becomes(L, IncreaseActiveCount(A, h), h, G, L.activecnt[h] + 1, L.reqs_pending[h])
  BY <1>1, <1>4, BecomesTrans
<1> QED
  BY <1>5, <1>6 DEF A

LEMMA StopsBecomes ==
    ASSUME NEW L, LoopOK(L), L.failed = {}, NEW h \in Handles, NEW F \in SUBSET OtherFlags, L.activecnt[h] > 0
    PROVE  \E G \in SUBSET Flags :
             /\ Becomes(L, DecreaseActiveCount(Clear(L, h, F), h), h, G, L.activecnt[h] - 1, L.reqs_pending[h])
             /\ \A f : f # "ACTIVE" => (f \in G <=> f \in L.flags[h] /\ f \notin F)
             /\ "ACTIVE" \in G <=> Has(L, h, "ACTIVE") /\ ~(L.activecnt[h] = 1 /\ ~Has(L, h, "CLOSING"))
<1> DEFINE A == Clear(L, h, F)
           H == L.flags[h] \ F
           G == IF L.activecnt[h] = 1 /\ ~Has(L, h, "CLOSING") THEN H \ {"ACTIVE"} ELSE H
<1>1. Becomes(L, A, h, H, L.activecnt[h], L.reqs_pending[h])
  BY OtherFlagsBecome
<1>2. "CLOSING" \notin F /\ "ACTIVE" \notin F /\ F \subseteq Flags /\ L.flags[h] \subseteq Flags
  BY FieldsAre DEF OtherFlags
<1>3. /\ LoopOK(A) /\ A.failed = {} /\ A.flags[h] = H /\ A.activecnt[h] = L.activecnt[h]
      /\ A.reqs_pending[h] = L.reqs_pending[h] /\ (Has(A, h, "CLOSING") <=> Has(L, h, "CLOSING"))
  BY <1>1, <1>2 DEF Becomes, Has
<1> HIDE DEF A
<1>4. Becomes(A, DecreaseActiveCount(A, h), h, G, L.activecnt[h] - 1, L.reqs_pending[h])
  BY <1>3, DecreaseBecomes
<1>5. /\ G \in SUBSET Flags
      /\ \A f : f # "ACTIVE" => (f \in G <=> f \in L.flags[h] /\ f \notin F)
      /\ "ACTIVE" \in G <=> Has(L, h, "ACTIVE") /\ ~(L.activecnt[h] = 1 /\ ~Has(L, h, "CLOSING"))
  BY <1>2 DEF Has
<1> HIDE DEF G, H
<1>6. Becomes(L, DecreaseActiveCount(A, h), h, G, L.activecnt[h] - 1, L.reqs_pending[h])
  BY <1>1, <1>4, BecomesTrans
<1> QED
  BY <1>5, <1>6 DEF A

\* One stops reading, and not in its alloc_cb: the counter tells what is left.
LEMMA ReadStops ==
    ASSUME NEW L, LoopOK(L), L.failed = {}, L.active_reqs \in SUBSET ClientReqs, NEW Q \in SUBSET IoReqs, NEW k,
           NEW c \in Conns, HandleInv(L, Q, k, c), Has(L, c, "READING"),
           ~(k.handle = c /\ k.kind = "alloc"), NEW F, F \in {{"READING"}, {"READING", "READABLE"}}
    PROVE  /\ \E G \in SUBSET Flags : \E a :
                 Becomes(L, DecreaseActiveCount(Clear(L, c, F), c), c, G, a, L.reqs_pending[c])
           /\ HandleInv(DecreaseActiveCount(Clear(L, c, F), c), Q, k, c)
           /\ ~Has(DecreaseActiveCount(Clear(L, c, F), c), c, "READING")
           /\ ~Has(DecreaseActiveCount(Clear(L, c, F), c), c, "CLOSING")
<1> DEFINE M == DecreaseActiveCount(Clear(L, c, F), c)
           n == Cardinality(Of(L.active_reqs, c))
<1>1. c \in Handles /\ c \notin Servers /\ c \notin Timers /\ F \in SUBSET OtherFlags
  BY Kinds DEF OtherFlags, Flags
<1>2. /\ Lives(L, c) /\ Counts(L, Q, k, c) /\ Reads(L, Q, k, c) /\ Shuts(L, Q, k, c)
      /\ n \in Nat
  BY ReqsAreFinite DEF HandleInv
<1> HIDE DEF n
<1>3. L.activecnt[c] = 1 + n /\ ~Has(L, c, "LISTENING") /\ ~Has(L, c, "CLOSING")
      /\ L.activecnt[c] > 0 /\ L.activecnt[c] - 1 = n
  BY <1>2 DEF Lives, Counts, Shuts, One, Has, n
<1>4. PICK G \in SUBSET Flags :
         /\ Becomes(L, M, c, G, n, L.reqs_pending[c])
         /\ \A f : f # "ACTIVE" => (f \in G <=> f \in L.flags[c] /\ f \notin F)
         /\ "ACTIVE" \in G <=> Has(L, c, "ACTIVE") /\ ~(L.activecnt[c] = 1 /\ ~Has(L, c, "CLOSING"))
  BY <1>1, <1>3, StopsBecomes
<1> HIDE DEF M
<1>5. /\ M.flags[c] = G /\ M.activecnt[c] = n /\ M.reqs_pending[c] = L.reqs_pending[c]
      /\ M.active_reqs = L.active_reqs /\ M.shutdown_req = L.shutdown_req /\ M.handle_queue = L.handle_queue
      /\ M.write_reqs_pending = L.write_reqs_pending
  BY <1>4 DEF Becomes
<1>6. /\ "READING" \notin G
      /\ \A f : f \notin {"ACTIVE", "READING", "READABLE"} => (f \in G <=> f \in L.flags[c])
      /\ "ACTIVE" \in G => "ACTIVE" \in L.flags[c]
      /\ "READABLE" \in G => "READABLE" \in L.flags[c]
      /\ "ACTIVE" \in G <=> n > 0
  BY <1>2, <1>3, <1>4 DEF Has, Counts
<1>7. Lives(M, c)
  BY <1>2, <1>5, <1>6 DEF Lives, Has
<1>8. Counts(M, Q, k, c)
  BY <1>2, <1>3, <1>5, <1>6 DEF Counts, Has, One, n
<1>9. Reads(M, Q, k, c)
  BY <1>2, <1>5, <1>6 DEF Reads, Has
<1>10. Shuts(M, Q, k, c)
  BY <1>2, <1>5, <1>6 DEF Shuts, Has
<1>11. HandleInv(M, Q, k, c)
  BY <1>1, <1>7, <1>8, <1>9, <1>10 DEF HandleInv
<1>12. ~Has(M, c, "READING") /\ ~Has(M, c, "CLOSING")
  BY <1>3, <1>5, <1>6 DEF Has
<1>13. \E H \in SUBSET Flags : \E a : Becomes(L, M, c, H, a, L.reqs_pending[c])
  BY <1>4
<1> QED
  BY ONLY <1>11, <1>12, <1>13 DEF M

LEMMA ClientStopsReadingC ==
    ASSUME IInv, CInv, NEW c \in Conns, ClientStopsReading(c)
    PROVE  CInv'
<1>1. /\ c \in Handles /\ c \notin Timers /\ LoopOK(loop) /\ loop.failed = {}
      /\ HandleInv(loop, Queued(loop, work), cb, c)
      /\ loop.active_reqs \in SUBSET ClientReqs /\ Queued(loop, work) \in SUBSET IoReqs
  BY Kinds, InvIs
<1>2. Stages' /\ work' = work /\ cb' = cb /\ due' = due /\ request' = request
  BY CallsC DEF ClientStopsReading
<1>3. c \notin due' /\ ~(cb.handle = c /\ cb.kind = "alloc")
  BY <1>1, <1>2 DEF CInv, ActiveTimers, ClientStopsReading, MayStop, Allocating, Spared
<1>4. CASE Has(loop, c, "READING")
  <2>1. loop' = DecreaseActiveCount(Clear(loop, c, {"READING"}), c)
    BY <1>4 DEF ClientStopsReading, ReadStop, StopIf
  <2>2. /\ \E G \in SUBSET Flags : \E a : Becomes(loop, loop', c, G, a, loop.reqs_pending[c])
        /\ HandleInv(loop', Queued(loop, work), cb, c)
    BY <1>1, <1>3, <1>4, <2>1, ReadStops
  <2> QED
    BY <1>1, <1>2, <1>3, <2>2, BecomesC
<1>5. CASE ~Has(loop, c, "READING")
  <2>1. loop' = loop
    BY <1>5 DEF ClientStopsReading, ReadStop, StopIf
  <2> QED
    BY <1>1, <1>2, <1>3, <2>1, BecomesItself, BecomesC
<1> QED
  BY <1>4, <1>5

-----------------------------------------------------------------------------
\* The end of a request: the handle may be closed now.

\* From one callback of a read to the next, or to none.
LEMMA ReadCallbacks ==
    ASSUME NEW L, NEW Q, NEW c \in Conns, NEW k, NEW j, HandleInv(L, Q, k, c),
           k.handle = c, k.kind \in {"alloc", "read", "readloop"}, j.handle = c, j.kind \in {"alloc", "read", "readloop"},
           Has(L, c, "READING") => InReadLoop(j, c) \/ ReadReq(c) \in Q,
           j.kind = "alloc" => Has(L, c, "READING")
    PROVE  HandleInv(L, Q, j, c)
<1>1. c \notin Servers /\ c \notin Timers
  BY Kinds
<1>2. Lives(L, c) /\ Counts(L, Q, k, c) /\ Reads(L, Q, k, c) /\ Shuts(L, Q, k, c)
  BY DEF HandleInv
<1>3. Counts(L, Q, j, c)
  BY <1>2 DEF Counts, Processing, One
<1>4. Reads(L, Q, j, c)
  BY <1>2 DEF Reads
<1>5. Shuts(L, Q, j, c)
  BY <1>2 DEF Shuts, InShutdown, One
<1> QED
  BY <1>1, <1>2, <1>3, <1>4, <1>5 DEF HandleInv

\* uv_process_tcp_read_req or uv_process_tcp_accept_req decrements reqs_pending.
LEMMA RequestDone ==
    ASSUME NEW L, LoopOK(L), L.failed = {}, L.active_reqs \in SUBSET ClientReqs, NEW Q \in SUBSET IoReqs, NEW k,
           NEW h \in Servers \cup Conns, HandleInv(L, Q, k, h),
           k.handle = h, k.kind \in {"connection", "alloc", "read", "readloop"},
           h \in Conns /\ Has(L, h, "READING") => ReadReq(h) \in Q
    PROVE  /\ \E G : Becomes(L, DecreasePendingReqCount(L, h), h, G, L.activecnt[h], L.reqs_pending[h] - 1)
           /\ HandleInv(DecreasePendingReqCount(L, h), Q, NoCallback, h)
<1> DEFINE M == DecreasePendingReqCount(L, h)
           p == L.reqs_pending[h]
           n == Cardinality(Of(Q, h))
           closes == Has(L, h, "CLOSING") /\ p = 1
           G == IF closes THEN L.flags[h] \cup {"ENDGAME_QUEUED"} ELSE L.flags[h]
           w == One(h \in L.shutdown_req)
<1>1. h \in Handles /\ h \notin Timers /\ NoCallback.kind = "none" /\ n \in Nat /\ w \in {0, 1}
  BY Kinds, ReqsAreFinite DEF NoCallback, Callback, One
<1>2. Lives(L, h) /\ Counts(L, Q, k, h)
  BY DEF HandleInv
<1>3. p = n + 1 + w
  BY <1>2 DEF Counts, Processing, One
<1> HIDE DEF n, w
<1>4. p > 0 /\ p - 1 = n + w /\ (p = 1 <=> n + w = 0)
  BY <1>1, <1>3
<1>5. Becomes(L, M, h, G, L.activecnt[h], p - 1)
  BY <1>1, <1>4, DecreasePendingBecomes
<1> HIDE DEF M
<1>6. /\ M.flags[h] = G /\ M.activecnt[h] = L.activecnt[h] /\ M.reqs_pending[h] = n + w
      /\ M.active_reqs = L.active_reqs /\ M.shutdown_req = L.shutdown_req /\ M.handle_queue = L.handle_queue
      /\ M.write_reqs_pending = L.write_reqs_pending
      /\ M.pending_accepts = L.pending_accepts /\ M.accept_socket = L.accept_socket
  BY <1>4, <1>5 DEF Becomes
<1>7. /\ \A f : f # "ENDGAME_QUEUED" => (f \in G <=> f \in L.flags[h])
      /\ "ENDGAME_QUEUED" \in L.flags[h] => "ENDGAME_QUEUED" \in G
      /\ "ENDGAME_QUEUED" \in G <=> "ENDGAME_QUEUED" \in L.flags[h] \/ ("CLOSING" \in L.flags[h] /\ n + w = 0)
  BY <1>4 DEF Has
<1>8. n + w > 0 \/ n + w = 0
  BY <1>1
<1> HIDE DEF G, p, closes
<1>9. ~Has(L, h, "CLOSED")
  BY <1>2, <1>4 DEF Lives, p
<1>10. h \in L.handle_queue
  BY <1>2, <1>4, <1>9 DEF Lives, p
<1>11. Lives(M, h)
  BY <1>2, <1>6, <1>7, <1>8, <1>9, <1>10 DEF Lives, Has
<1>12. Counts(M, Q, NoCallback, h)
  <2>1. n + One(Processing(NoCallback, h)) + w = n + w
    BY <1>1 DEF Processing, One
  <2> QED
    BY <1>2, <1>6, <1>7, <2>1 DEF Counts, Has, n, w
<1>13. h \in Servers => Listens(M, Q, h)
  BY <1>6, <1>7 DEF HandleInv, Listens, Has
<1>14. ASSUME h \in Conns
       PROVE  Reads(M, Q, NoCallback, h) /\ Shuts(M, Q, NoCallback, h)
  <2>1. Reads(L, Q, k, h) /\ Shuts(L, Q, k, h)
    BY <1>14 DEF HandleInv
  <2>2. Reads(M, Q, NoCallback, h)
    BY <1>1, <1>6, <1>7, <1>14, <2>1 DEF Reads, Has, InReadLoop
  <2>3. Shuts(M, Q, NoCallback, h)
    BY <1>1, <1>6, <1>7, <2>1 DEF Shuts, Has, InShutdown, One
  <2> QED
    BY <2>2, <2>3
<1>15. HandleInv(M, Q, NoCallback, h)
  BY <1>1, <1>11, <1>12, <1>13, <1>14 DEF HandleInv
<1> QED
  BY <1>5, <1>15 DEF M, p

-----------------------------------------------------------------------------
\* Reading.

LEMMA ReadMoreC ==
    ASSUME IInv, CInv, ReadMore \/ Recv \/ ReadLoopEnd
    PROVE  CInv'
<1> DEFINE c == cb.handle
           Q == Queued(loop, work)
<1>1. /\ c \in Conns /\ c \in Handles /\ c \notin Timers /\ LoopOK(loop) /\ loop.failed = {}
      /\ HandleInv(loop, Q, cb, c)
      /\ loop.active_reqs \in SUBSET ClientReqs /\ Q \in SUBSET IoReqs /\ cb.kind \in {"alloc", "readloop"} /\ pc = "reqs"
  <2>1. cb.kind \in {"alloc", "readloop"} /\ c \in Conns
    BY DEF ReadMore, Recv, ReadLoopEnd, IInv, Fits
  <2> QED
    BY <2>1, Kinds, InvIs DEF CInv, Stages
<1>2. work' = work /\ due' = due /\ request' = request /\ pc' = pc
  BY DEF ReadMore, Recv, ReadLoopEnd
<1> HIDE DEF c, Q
<1>3. c \notin due' /\ About(cb, c)
  BY <1>1, <1>2 DEF CInv, ActiveTimers, About, c
<1>4. ASSUME ReadMore
      PROVE  CInv'
  <2>1. cb'.kind = "alloc" /\ cb'.handle = c /\ loop' = loop /\ Has(loop, c, "READING") /\ cb.handle = c
    BY <1>4 DEF ReadMore, Callback, c
  <2>2. HandleInv(loop', Q, cb', c)
    BY <1>1, <2>1, ReadCallbacks DEF InReadLoop
  <2>3. Stages' /\ About(cb', c)
    BY <1>1, <1>2, <2>1 DEF CInv, Stages, About
  <2> QED
    BY <1>1, <1>2, <1>3, <2>1, <2>2, <2>3, BecomesItself, BecomesC DEF Q
<1>5. ASSUME Recv
      PROVE  CInv'
  <2>1. /\ cb'.kind = "read" /\ cb'.handle = c /\ cb'.next \in {"again", "done"}
        /\ \/ loop' = loop
           \/ loop' = DecreaseActiveCount(Clear(loop, c, {"READING", "READABLE"}), c)
           \/ loop' = DecreaseActiveCount(Clear(loop, c, {"READING"}), c)
        /\ cb.kind = "alloc" /\ cb.handle = c
    BY <1>5 DEF Recv, Callback, ReadEof, ReadFailed, c
  <2>2. Has(loop, c, "READING")
    BY <1>1, <2>1, Kinds DEF HandleInv, Reads
  <2>3. HandleInv(loop, Q, cb', c) /\ ~(cb'.handle = c /\ cb'.kind = "alloc")
    BY <1>1, <2>1, <2>2, ReadCallbacks DEF InReadLoop
  <2>4. /\ \E G, a : Becomes(loop, loop', c, G, a, loop.reqs_pending[c])
        /\ HandleInv(loop', Q, cb', c)
    <3>1. CASE loop' = loop
      BY <1>1, <2>3, <3>1, BecomesItself
    <3>2. CASE loop' # loop
      BY <1>1, <2>1, <2>2, <2>3, <3>2, ReadStops
    <3> QED
      BY <3>1, <3>2
  <2>5. Stages' /\ About(cb', c)
    BY <1>1, <1>2, <2>1 DEF CInv, Stages, About
  <2> QED
    BY <1>1, <1>2, <1>3, <2>4, <2>5, BecomesC DEF Q
<1>6. ASSUME ReadLoopEnd
      PROVE  CInv'
  <2>1. loop' = DecreasePendingReqCount(loop, c) /\ cb' = NoCallback /\ ~Has(loop, c, "READING")
    BY <1>6 DEF ReadLoopEnd, c
  <2>2. /\ \E G : Becomes(loop, loop', c, G, loop.activecnt[c], loop.reqs_pending[c] - 1)
        /\ HandleInv(loop', Q, cb', c)
    BY <1>1, <2>1, RequestDone DEF c
  <2>3. Stages' /\ About(cb', c)
    BY <1>1, <1>2, <2>1 DEF CInv, Stages, About, NoCallback, Callback
  <2> QED
    BY <1>1, <1>2, <1>3, <2>2, <2>3, BecomesC DEF Q
<1> QED
  BY <1>4, <1>5, <1>6

\* The next request is taken from the queue and the loop does not queue another.
LEMMA TakenC ==
    ASSUME IInv, CInv, NEW type, NextReq(type),
           loop'.kernel = loop.kernel, loop'.iocp = loop.iocp, loop'.pending = loop.pending
    PROVE  /\ Head(work).req \in Queued(loop, work)
           /\ Placed(loop', work')
           /\ Queued(loop', work') = Queued(loop, work) \ {Head(work).req}
<1>1. /\ Head(work).req \in Queued(loop, work) /\ Placed(loop, Tail(work))
      /\ Queued(loop, Tail(work)) = Queued(loop, work) \ {Head(work).req}
  BY InvIs, WorkGives DEF NextReq
<1>2. work' = Tail(work)
  BY DEF NextReq
<1> QED
  BY <1>1, <1>2, QueuedIs

\* uv_process_tcp_read_req clears READ_PENDING: the request is in hand now.
LEMMA ReadTaken ==
    ASSUME NEW L, LoopOK(L), NEW Q \in SUBSET IoReqs, NEW k, k.kind = "none",
           NEW c \in Conns, ReadReq(c) \in Q, HandleInv(L, Q, k, c), NEW j, j.handle = c, j.kind = "readloop"
    PROVE  /\ Becomes(L, ReadReqDone(L, c), c, L.flags[c] \ {"READ_PENDING"}, L.activecnt[c], L.reqs_pending[c])
           /\ Has(L, c, "ZERO_READ")
           /\ HandleInv(ReadReqDone(L, c), Q \ {ReadReq(c)}, j, c)
<1> DEFINE M == ReadReqDone(L, c)
           R == Q \ {ReadReq(c)}
           r == ReadReq(c)
<1>1. c \in Handles /\ c \notin Servers /\ c \notin Timers /\ {"READ_PENDING"} \in SUBSET OtherFlags
  BY Kinds DEF OtherFlags, Flags
<1>2. Lives(L, c) /\ Counts(L, Q, k, c) /\ Reads(L, Q, k, c) /\ Shuts(L, Q, k, c)
  BY <1>1 DEF HandleInv
<1>3. Becomes(L, M, c, L.flags[c] \ {"READ_PENDING"}, L.activecnt[c], L.reqs_pending[c])
  BY <1>1, OtherFlagsBecome DEF ReadReqDone
<1> HIDE DEF M
<1>4. /\ M.flags[c] = L.flags[c] \ {"READ_PENDING"} /\ M.activecnt[c] = L.activecnt[c]
      /\ M.reqs_pending[c] = L.reqs_pending[c] /\ M.write_reqs_pending = L.write_reqs_pending
      /\ M.active_reqs = L.active_reqs /\ M.shutdown_req = L.shutdown_req /\ M.handle_queue = L.handle_queue
  BY <1>3 DEF Becomes
<1>5. r \in Q /\ r.handle = c /\ r.type = "READ"
  BY DEF ReadReq
<1>6. /\ Cardinality(Of(R, c)) = Cardinality(Of(Q, c)) - 1 /\ Cardinality(Of(Q, c)) \in Nat
      /\ WritesOf(R, c) = WritesOf(Q, c)
  BY <1>5, QueueShrinks
<1>7. \A x : x \in R <=> x \in Q /\ x # r
  OBVIOUS
<1>8. \A x \in WriteReqs : x # r
  BY <1>5, IoReqsAre
<1> HIDE DEF R, r
<1>9. Lives(M, c)
  BY <1>2, <1>4 DEF Lives, Has
<1>10. Counts(M, R, j, c)
  <2>1. Cardinality(Of(Q, c)) + 0 = Cardinality(Of(R, c)) + 1
    BY <1>6
  <2> QED
    BY <1>2, <1>4, <2>1 DEF Counts, Has, Processing, One
<1>11. Reads(M, R, j, c) /\ Has(L, c, "ZERO_READ")
  BY <1>2, <1>4, <1>7 DEF Reads, Has, InReadLoop, r
<1>12. Shuts(M, R, j, c)
  BY <1>2, <1>4, <1>6, <1>7, <1>8 DEF Shuts, Has, InShutdown, One
<1>13. HandleInv(M, R, j, c)
  BY <1>1, <1>9, <1>10, <1>11, <1>12 DEF HandleInv
<1> QED
  BY <1>3, <1>11, <1>13 DEF M, R, r

LEMMA ProcessReadReqC ==
    ASSUME IInv, CInv, ProcessReadReq
    PROVE  CInv'
<1> DEFINE r == Head(work).req
           c == r.handle
           L == ReadReqDone(loop, c)
           Q == Queued(loop, work)
           R == Q \ {r}
           k == Callback("readloop", c, r, "ok", "return")
<1>1. /\ NextReq("READ") /\ request' = request
      /\ \/ loop' = L /\ cb' = k
         \/ ErrorIsRead(L, c) /\ loop' = ReadFailed(L, c) /\ cb' = Callback("read", c, r, "error", "end")
         \/ ~ErrorIsRead(L, c) /\ loop' = DecreasePendingReqCount(L, c) /\ cb' = NoCallback
  BY DEF ProcessReadReq
<1>2. pc = "reqs" /\ pc' = pc /\ due' = due /\ cb = NoCallback /\ work # << >> /\ work' = Tail(work)
  BY <1>1 DEF NextReq
<1>3. /\ r \in ReadReqs /\ c \in Conns
  BY <1>1, NextReqIs
<1>4. /\ LoopOK(loop) /\ loop.failed = {} /\ Q \in SUBSET IoReqs /\ loop.active_reqs \in SUBSET ClientReqs
      /\ c \in Handles /\ c \notin Timers /\ HandleInv(loop, Q, cb, c) /\ cb.kind = "none" /\ r = ReadReq(c)
      /\ r \in Q
  BY <1>1, <1>2, <1>3, Kinds, InvIs, NoneIs, WorkGives DEF ReadReqs, ReadReq
<1>5. k.handle = c /\ k.kind = "readloop"
  BY DEF Callback
<1> HIDE DEF Q, c, L, k, r
<1>6. /\ Becomes(loop, L, c, loop.flags[c] \ {"READ_PENDING"}, loop.activecnt[c], loop.reqs_pending[c])
      /\ Has(loop, c, "ZERO_READ") /\ HandleInv(L, R, k, c)
  BY <1>3, <1>4, <1>5, ReadTaken DEF L
<1>7. /\ LoopOK(L) /\ L.failed = {} /\ L.active_reqs \in SUBSET ClientReqs /\ R \in SUBSET IoReqs
      /\ Has(L, c, "ZERO_READ")
  BY <1>4, <1>6 DEF Becomes, Has
<1> HIDE DEF R
<1>8. /\ \E G, a, p : Becomes(L, loop', c, G, a, p)
      /\ HandleInv(loop', R, cb', c)
      /\ cb' = NoCallback \/ (cb'.handle = c /\ cb'.kind \in {"alloc", "read", "readloop"})
  <2>1. CASE loop' = L /\ cb' = k
    BY <1>4, <1>5, <1>6, <1>7, <2>1, BecomesItself
  <2>2. CASE ErrorIsRead(L, c) /\ loop' = ReadFailed(L, c) /\ cb' = Callback("read", c, r, "error", "end")
    <3>1. Has(L, c, "READING")
      BY <1>7, <2>2 DEF ErrorIsRead
    <3>2. loop' = DecreaseActiveCount(Clear(L, c, {"READING"}), c) /\ cb'.handle = c /\ cb'.kind = "read"
      BY <2>2 DEF ReadFailed, Callback
    <3>3. /\ \E G \in SUBSET Flags : \E a : Becomes(L, loop', c, G, a, L.reqs_pending[c])
          /\ HandleInv(loop', R, k, c)
      BY <1>3, <1>5, <1>6, <1>7, <3>1, <3>2, ReadStops
    <3>4. ~Has(loop', c, "READING")
      <4>1. L.activecnt[c] > 0
        <5>1. Counts(L, R, k, c) /\ Cardinality(Of(L.active_reqs, c)) \in Nat
          BY <1>3, <1>6, <1>7, ReqsAreFinite DEF HandleInv
        <5> HIDE DEF Queued
        <5> QED
          BY <3>1, <5>1 DEF Counts, One
      <4>2. {"READING"} \in SUBSET OtherFlags
        BY DEF OtherFlags, Flags
      <4>3. \E G \in SUBSET Flags :
              /\ Becomes(L, loop', c, G, L.activecnt[c] - 1, L.reqs_pending[c])
              /\ \A f : f # "ACTIVE" => (f \in G <=> f \in L.flags[c] /\ f \notin {"READING"})
        BY <1>4, <1>7, <3>2, <4>1, <4>2, StopsBecomes
      <4> QED
        BY <4>3 DEF Becomes, Has
    <3>5. HandleInv(loop', R, cb', c)
      BY <1>3, <1>5, <3>2, <3>3, <3>4, ReadCallbacks
    <3> QED
      BY <3>2, <3>3, <3>5
  <2>3. CASE ~ErrorIsRead(L, c) /\ loop' = DecreasePendingReqCount(L, c) /\ cb' = NoCallback
    <3>1. ~Has(L, c, "READING") /\ c \in Servers \cup Conns
      BY <1>3, <2>3 DEF ErrorIsRead
    <3> QED
      BY <1>3, <1>5, <1>6, <1>7, <2>3, <3>1, RequestDone
  <2> QED
    BY <1>1, <2>1, <2>2, <2>3
<1>9. PICK G, a, p : Becomes(loop, loop', c, G, a, p)
  BY <1>4, <1>6, <1>8, BecomesTrans
<1>10. Placed(loop', work') /\ Queued(loop', work') = R
  BY <1>1, <1>9, TakenC DEF Becomes, Q, R, r
<1>11. \A g \in Handles \ {c} : Alike(loop, loop', Queued(loop, work), Queued(loop', work'), g)
  <2>1. \A g \in Handles \ {c} : Alike(loop, loop', Q, Q, g)
    BY <1>9, BecomesApart
  <2>2. \A g \in Handles \ {c} : Of(R, g) = Of(Q, g)
    BY <1>4, QueueShrinks DEF c, R
  <2> QED
    BY <1>10, <2>1, <2>2 DEF Alike, Q
<1>12. Stages' /\ About(cb, c) /\ About(cb', c)
  BY <1>2, <1>4, <1>8 DEF CInv, Stages, About, NoCallback, Callback
<1>13. loop'.failed = {} /\ loop'.active_reqs = {x \in ClientReqs : request'[x] = "issued"}
  BY <1>1, <1>9 DEF Becomes, CInv
<1>14. c \notin due' /\ due' \subseteq due \cup {c}
  BY <1>2, <1>4 DEF CInv, ActiveTimers
<1> QED
  BY <1>4, <1>8, <1>10, <1>11, <1>12, <1>13, <1>14, StepC

-----------------------------------------------------------------------------
\* The requests of a client.

LEMMA UnregisterIs ==
    ASSUME NEW L, LoopOK(L), L.failed = {}, NEW c \in Handles, NEW r \in L.active_reqs, L.activecnt[c] > 0,
           NEW M, M = UnregisterHandleReq(L, c, r)
    PROVE  /\ M.activecnt[c] = L.activecnt[c] - 1 /\ M.reqs_pending[c] = L.reqs_pending[c]
           /\ \A f : f # "ACTIVE" => (f \in M.flags[c] <=> f \in L.flags[c])
           /\ "ACTIVE" \in M.flags[c] <=> Has(L, c, "ACTIVE") /\ ~(L.activecnt[c] = 1 /\ ~Has(L, c, "CLOSING"))
           /\ \A g \in Handles \ {c} : /\ M.flags[g] = L.flags[g]
                                       /\ M.activecnt[g] = L.activecnt[g]
                                       /\ M.reqs_pending[g] = L.reqs_pending[g]
           /\ M.write_reqs_pending = L.write_reqs_pending /\ M.shutdown_req = L.shutdown_req
           /\ M.handle_queue = L.handle_queue /\ M.active_reqs = L.active_reqs \ {r}
           /\ M.pending = L.pending /\ M.pending_accepts = L.pending_accepts
           /\ M.accept_socket = L.accept_socket /\ M.kernel = L.kernel /\ M.iocp = L.iocp
           /\ M.failed = L.failed
<1> DEFINE D == DecreaseActiveCount(L, c)
           G == IF L.activecnt[c] = 1 /\ ~Has(L, c, "CLOSING") THEN L.flags[c] \ {"ACTIVE"} ELSE L.flags[c]
<1>1. Becomes(L, D, c, G, L.activecnt[c] - 1, L.reqs_pending[c])
  BY DecreaseBecomes
<1> HIDE DEF D
<1>2. D.active_reqs = L.active_reqs /\ D \in LoopType
  BY <1>1 DEF Becomes, LoopOK
<1>3. M = [D EXCEPT !.active_reqs = L.active_reqs \ {r}]
  BY <1>2 DEF UnregisterHandleReq, ReqUnregister, Check, D
<1>4. /\ M.flags = D.flags /\ M.activecnt = D.activecnt /\ M.reqs_pending = D.reqs_pending
      /\ M.write_reqs_pending = D.write_reqs_pending /\ M.shutdown_req = D.shutdown_req
      /\ M.handle_queue = D.handle_queue /\ M.active_reqs = L.active_reqs \ {r}
      /\ M.pending = D.pending /\ M.pending_accepts = D.pending_accepts
      /\ M.accept_socket = D.accept_socket /\ M.kernel = D.kernel /\ M.iocp = D.iocp
      /\ M.failed = D.failed
  BY <1>2, <1>3 DEF LoopType
<1>5. /\ \A f : f # "ACTIVE" => (f \in G <=> f \in L.flags[c])
      /\ "ACTIVE" \in G <=> Has(L, c, "ACTIVE") /\ ~(L.activecnt[c] = 1 /\ ~Has(L, c, "CLOSING"))
  BY DEF Has
<1> HIDE DEF G
<1> QED
  BY <1>1, <1>4, <1>5 DEF Becomes

LEMMA ProcessWriteReqC ==
    ASSUME IInv, CInv, ProcessWriteReq
    PROVE  CInv'
<1> DEFINE r == Head(work).req
           c == r.handle
           Q == Queued(loop, work)
           R == Q \ {r}
           n == Cardinality(Of(loop.active_reqs, c))
           L == loop
           M == loop'
<1>1. /\ NextReq("WRITE") /\ loop' = UnregisterHandleReq(loop, c, r) /\ request' = [request EXCEPT ![r] = "called"]
      /\ cb'.handle = c /\ cb'.kind = "write"
  BY DEF ProcessWriteReq, Callback
<1>2. pc = "reqs" /\ pc' = pc /\ due' = due /\ cb = NoCallback /\ work # << >> /\ work' = Tail(work)
  BY <1>1 DEF NextReq
<1>3. r \in WriteReqs /\ c \in Conns /\ r \in ClientReqs /\ r.type = "WRITE"
  BY <1>1, NextReqIs, IoReqsAre
<1>4. /\ LoopOK(loop) /\ loop.failed = {} /\ Q \in SUBSET IoReqs /\ loop.active_reqs \in SUBSET ClientReqs
      /\ c \in Handles /\ c \notin Timers /\ c \notin Servers /\ HandleInv(loop, Q, cb, c) /\ cb.kind = "none"
      /\ r \in Q /\ r.handle = c /\ R = Q \ {r}
  BY <1>1, <1>2, <1>3, Kinds, InvIs, NoneIs, WorkGives
<1> HIDE DEF Q, c, r, R, n
<1>5. Lives(L, c) /\ Counts(L, Q, cb, c) /\ Reads(L, Q, cb, c) /\ Shuts(L, Q, cb, c)
  BY <1>3, <1>4 DEF HandleInv
<1>6. r \in loop.active_reqs
  BY <1>3, <1>4, <1>5 DEF Shuts, c
<1>7. /\ Cardinality(Of(Q, c)) \in Nat /\ Cardinality(WritesOf(Q, c)) \in Nat
      /\ Cardinality(Of(R, c)) = Cardinality(Of(Q, c)) - 1 /\ Cardinality(Of(Q, c)) > 0
      /\ Cardinality(WritesOf(R, c)) = Cardinality(WritesOf(Q, c)) - 1
      /\ \A g : g # c => Of(R, g) = Of(Q, g)
  BY <1>3, <1>4, QueueShrinks
<1>8. /\ n \in Nat /\ n > 0 /\ Cardinality(Of(loop.active_reqs \ {r}, c)) = n - 1
      /\ \A g : g # c => Of(loop.active_reqs \ {r}, g) = Of(loop.active_reqs, g)
  <2> DEFINE A == loop.active_reqs
             S == A \ {r}
  <2>1. A \in SUBSET ClientReqs /\ r \in A /\ S = A \ {r}
    BY <1>4, <1>6
  <2> HIDE DEF A, S
  <2>2. /\ Cardinality(Of(A, r.handle)) \in Nat
        /\ Cardinality(Of(S, r.handle)) = Cardinality(Of(A, r.handle)) - 1
        /\ Cardinality(Of(A, r.handle)) > 0
        /\ \A g : g # r.handle => Of(S, g) = Of(A, g)
    BY <2>1, ReqsShrink
  <2> QED
    BY <1>4, <2>1, <2>2 DEF n, A
<1>9. /\ L.activecnt[c] > 0 /\ L.activecnt[c] = One(Has(L, c, "READING")) + n
      /\ L.reqs_pending[c] > 0
  <2>1. One(Has(L, c, "READING")) \in {0, 1} /\ One(Has(L, c, "LISTENING")) = 0
    BY <1>5 DEF Shuts, One
  <2>2. L.reqs_pending[c] = Cardinality(Of(Q, c)) + One(c \in L.shutdown_req) /\ One(c \in L.shutdown_req) \in {0, 1}
    BY <1>4, <1>5, <1>7 DEF Counts, Processing, One
  <2> QED
    BY <1>5, <1>7, <1>8, <2>1, <2>2 DEF Counts, n
<1>10. /\ M.activecnt[c] = L.activecnt[c] - 1 /\ M.reqs_pending[c] = L.reqs_pending[c]
       /\ \A f : f # "ACTIVE" => (f \in M.flags[c] <=> f \in L.flags[c])
       /\ "ACTIVE" \in M.flags[c] <=> Has(L, c, "ACTIVE") /\ ~(L.activecnt[c] = 1 /\ ~Has(L, c, "CLOSING"))
       /\ \A g \in Handles \ {c} : /\ M.flags[g] = L.flags[g]
                                   /\ M.activecnt[g] = L.activecnt[g]
                                   /\ M.reqs_pending[g] = L.reqs_pending[g]
       /\ M.write_reqs_pending = L.write_reqs_pending /\ M.shutdown_req = L.shutdown_req
       /\ M.handle_queue = L.handle_queue /\ M.active_reqs = L.active_reqs \ {r}
       /\ M.pending = L.pending /\ M.pending_accepts = L.pending_accepts
       /\ M.accept_socket = L.accept_socket /\ M.kernel = L.kernel /\ M.iocp = L.iocp
       /\ M.failed = L.failed
  BY <1>1, <1>4, <1>6, <1>9, UnregisterIs
<1>11. Placed(loop', work') /\ Queued(loop', work') = R
  BY <1>1, <1>10, TakenC DEF Q, r, R
<1>12. \A g \in Handles \ {c} : Alike(loop, loop', Queued(loop, work), Queued(loop', work'), g)
  BY <1>7, <1>8, <1>10, <1>11 DEF Alike, Q
<1> HIDE DEF M, L
<1>13. Lives(M, c)
  BY <1>5, <1>9, <1>10 DEF Lives, Has
<1>14. Counts(M, R, cb', c)
  <2>1. M.activecnt[c] = One(Has(M, c, "READING")) + One(Has(M, c, "LISTENING")) + Cardinality(Of(M.active_reqs, c))
    <3>1. One(Has(M, c, "READING")) = One(Has(L, c, "READING")) /\ One(Has(M, c, "LISTENING")) = 0
          /\ One(Has(L, c, "READING")) \in {0, 1}
      BY <1>5, <1>10 DEF Shuts, One, Has
    <3> QED
      BY <1>8, <1>9, <1>10, <3>1 DEF L, n
  <2>2. ~Has(M, c, "CLOSING") => (Has(M, c, "ACTIVE") <=> M.activecnt[c] > 0)
    <3>1. L.activecnt[c] \in Int
      BY <1>4, FieldsAre DEF L
    <3> QED
      BY <1>5, <1>9, <1>10, <3>1 DEF Counts, Has
  <2>3. M.reqs_pending[c] = Cardinality(Of(R, c)) + One(Processing(cb', c)) + One(c \in M.shutdown_req)
    BY <1>1, <1>4, <1>5, <1>7, <1>10 DEF Counts, Processing, One
  <2> QED
    BY <2>1, <2>2, <2>3 DEF Counts
<1>15. Reads(M, R, cb', c)
  <2>1. ReadReq(c) # r
    BY <1>3 DEF ReadReq
  <2>2. ReadReq(c) \in R <=> ReadReq(c) \in Q
    BY <1>4, <2>1
  <2> QED
    BY <1>1, <1>4, <1>5, <1>10, <2>2 DEF Reads, Has, InReadLoop
<1>16. Shuts(M, R, cb', c)
  <2>1. ShutdownReq(c) # r
    BY <1>3 DEF ShutdownReq
  <2>2. /\ ShutdownReq(c) \in M.active_reqs <=> ShutdownReq(c) \in L.active_reqs
        /\ \A x \in WriteReqs : x.handle = c => (x \in M.active_reqs <=> x \in R)
    BY <1>4, <1>5, <1>10, <2>1 DEF Shuts
  <2>3. M.write_reqs_pending[c] = Cardinality(WritesOf(R, c)) + One(cb'.handle = c /\ cb'.kind = "write")
    <3>1. One(cb'.handle = c /\ cb'.kind = "write") = 1 /\ One(cb.handle = c /\ cb.kind = "write") = 0
      BY <1>1, <1>4 DEF One
    <3>2. L.write_reqs_pending[c] = Cardinality(WritesOf(Q, c)) + One(cb.handle = c /\ cb.kind = "write")
      BY <1>5 DEF Shuts
    <3> QED
      BY <1>7, <1>10, <3>1, <3>2
  <2> QED
    BY <1>1, <1>4, <1>5, <1>10, <2>2, <2>3 DEF Shuts, Has, InShutdown
<1>17. HandleInv(loop', Queued(loop', work'), cb', c)
  BY <1>3, <1>4, <1>11, <1>13, <1>14, <1>15, <1>16 DEF HandleInv, M
<1>18. Stages' /\ About(cb, c) /\ About(cb', c)
  BY <1>1, <1>2, <1>4 DEF CInv, Stages, About
<1>19. loop'.failed = {} /\ loop'.active_reqs = {x \in ClientReqs : request'[x] = "issued"}
  <2>1. \A x \in ClientReqs : request'[x] = IF x = r THEN "called" ELSE request[x]
    BY <1>1, <1>3 DEF IInv, TypeOK
  <2> QED
    BY <1>4, <1>10, <2>1 DEF CInv, L, M
<1>20. c \notin due' /\ due' \subseteq due \cup {c}
  BY <1>2, <1>4 DEF CInv, ActiveTimers
<1> QED
  BY <1>4, <1>12, <1>11, <1>17, <1>18, <1>19, <1>20, StepC

-----------------------------------------------------------------------------
\* The ends of writes and shutdowns.

\* Only what the invariant of h looks at changes, and no request moves.
Kept(L, M, h) ==
    /\ \A g \in Handles \ {h} : \A Q : Alike(L, M, Q, Q, g)
    /\ M.kernel = L.kernel /\ M.iocp = L.iocp /\ M.pending = L.pending
    /\ M.active_reqs = L.active_reqs /\ M.failed = L.failed

LEMMA KeptTrans ==
    ASSUME NEW L, NEW M, NEW N, NEW h, Kept(L, M, h), Kept(M, N, h)
    PROVE  Kept(L, N, h)
<1>1. \A g \in Handles \ {h} : \A Q : Alike(L, N, Q, Q, g)
  BY DEF Kept, Alike
<1> QED
  BY <1>1 DEF Kept

LEMMA BecomesKept ==
    ASSUME NEW L, NEW M, NEW h, NEW F, NEW a, NEW p, Becomes(L, M, h, F, a, p)
    PROVE  Kept(L, M, h)
  BY DEF Becomes, Kept, Alike

LEMMA KeptC ==
    ASSUME IInv, CInv, NEW h \in Handles, Kept(loop, loop', h), work' = work, request' = request,
           due' \subseteq due \cup {h}, h \in due' => h \in Timers /\ Has(loop', h, "ACTIVE"),
           Stages', cb' = cb \/ (About(cb, h) /\ About(cb', h)),
           HandleInv(loop', Queued(loop, work), cb', h)
    PROVE  CInv'
<1>1. loop'.failed = {} /\ loop'.active_reqs = {r \in ClientReqs : request'[r] = "issued"}
  BY DEF Kept, CInv
<1>2. Queued(loop', work') = Queued(loop, work) /\ Placed(loop', work')
  BY QueuedIs DEF Kept, CInv
<1>3. \A g \in Handles \ {h} : Alike(loop, loop', Queued(loop, work), Queued(loop', work'), g)
  BY <1>2 DEF Kept
<1> QED
  BY <1>1, <1>2, <1>3, StepC

\* The write is done, and the shutdown that waited for it may go on.
LEMMA WriteEnds ==
    ASSUME NEW L, LoopOK(L), L.failed = {}, L.active_reqs \in SUBSET ClientReqs, NEW Q \in SUBSET IoReqs, NEW k,
           NEW c \in Conns, HandleInv(L, Q, k, c), k.handle = c, k.kind = "write"
    PROVE  Kept(L, WriteReqEnd(L, c), c) /\ HandleInv(WriteReqEnd(L, c), Q, NoCallback, c)
<1> DEFINE n == L.write_reqs_pending[c] - 1
           A == [L EXCEPT !.write_reqs_pending[c] = n]
           due1 == c \in L.shutdown_req /\ n = 0
           B == IF due1 THEN WantEndgame(A, c) ELSE A
           G == IF due1 THEN L.flags[c] \cup {"ENDGAME_QUEUED"} ELSE L.flags[c]
           v == Callback("connection", c, NoReq, "ok", "return")
<1>1. c \in Handles /\ c \notin Servers /\ c \notin Timers /\ c \in Servers \cup Conns
  BY Kinds
<1>2. Lives(L, c) /\ Counts(L, Q, k, c) /\ Reads(L, Q, k, c) /\ Shuts(L, Q, k, c)
  BY <1>1 DEF HandleInv
<1>3. n = Cardinality(WritesOf(Q, c)) /\ n \in Nat /\ n \in Int /\ L.write_reqs_pending[c] # 0
  <2>1. L.write_reqs_pending[c] = Cardinality(WritesOf(Q, c)) + 1 /\ Cardinality(WritesOf(Q, c)) \in Nat
    BY <1>1, <1>2, ReqsAreFinite DEF Shuts, One
  <2> QED
    BY <2>1
<1>4. /\ LoopOK(A) /\ A.write_reqs_pending[c] = n /\ A.flags = L.flags /\ A.activecnt = L.activecnt
      /\ A.reqs_pending = L.reqs_pending /\ A.shutdown_req = L.shutdown_req /\ A.handle_queue = L.handle_queue
      /\ A.active_reqs = L.active_reqs /\ A.failed = L.failed
      /\ \A g \in Handles \ {c} : A.write_reqs_pending[g] = L.write_reqs_pending[g]
      /\ A.pending_accepts = L.pending_accepts /\ A.accept_socket = L.accept_socket
      /\ A.kernel = L.kernel /\ A.iocp = L.iocp /\ A.pending = L.pending
  <2>1. L \in LoopType /\ n \in Int
    BY <1>3 DEF LoopOK
  <2> HIDE DEF n
  <2>2. LoopOK(A)
    BY <1>1, <2>1, WriteCountIs
  <2> QED
    BY <1>1, <2>1, <2>2 DEF LoopType
<1>5. WriteReqEnd(L, c) = DecreasePendingReqCount(B, c)
  <2>1. A.shutdown_req = L.shutdown_req /\ A.write_reqs_pending[c] = n
    BY <1>4
  <2> HIDE DEF n
  <2> QED
    BY <2>1 DEF WriteReqEnd, n
<1> HIDE DEF n, A
<1>6. Becomes(A, B, c, G, L.activecnt[c], L.reqs_pending[c])
  BY <1>1, <1>4, WantEndgameBecomes, BecomesItself
<1> HIDE DEF B
<1>7. Kept(L, A, c)
  BY <1>4 DEF Kept, Alike
<1>8. Kept(L, B, c) /\ LoopOK(B) /\ B.failed = {} /\ B.active_reqs = L.active_reqs
  <2>1. Kept(A, B, c)
    BY <1>6, BecomesKept
  <2>2. LoopOK(B) /\ B.failed = A.failed /\ B.active_reqs = A.active_reqs
    BY <1>6 DEF Becomes
  <2> QED
    BY <1>4, <1>7, <2>1, <2>2, KeptTrans
<1>9. /\ B.flags[c] = G /\ B.activecnt[c] = L.activecnt[c] /\ B.reqs_pending[c] = L.reqs_pending[c]
      /\ B.write_reqs_pending[c] = n /\ B.shutdown_req = L.shutdown_req /\ B.handle_queue = L.handle_queue
  BY <1>4, <1>6 DEF Becomes
<1>10. /\ \A f : f # "ENDGAME_QUEUED" => (f \in G <=> f \in L.flags[c])
       /\ "ENDGAME_QUEUED" \in L.flags[c] => "ENDGAME_QUEUED" \in G
       /\ c \in L.shutdown_req /\ n = 0 => "ENDGAME_QUEUED" \in G
  OBVIOUS
<1>11. v.handle = c /\ v.kind = "connection"
  BY DEF Callback
<1>12. L.reqs_pending[c] # 0
  <2>1. Cardinality(Of(Q, c)) \in Nat
    BY <1>1, ReqsAreFinite
  <2>2. L.reqs_pending[c] = Cardinality(Of(Q, c)) + 1 + One(c \in L.shutdown_req) /\ One(c \in L.shutdown_req) \in {0, 1}
    BY <1>2 DEF Counts, Processing, One
  <2> QED
    BY <2>1, <2>2
<1> HIDE DEF G, v
<1>13. HandleInv(B, Q, v, c)
  <2>1. Lives(B, c)
    BY <1>2, <1>9, <1>10, <1>12 DEF Lives, Has
  <2>2. Counts(B, Q, v, c)
    BY <1>2, <1>8, <1>9, <1>10, <1>11 DEF Counts, Has, Processing, One
  <2>3. Reads(B, Q, v, c)
    BY <1>2, <1>9, <1>10, <1>11 DEF Reads, Has, InReadLoop
  <2>4. Shuts(B, Q, v, c)
    <3>1. One(v.handle = c /\ v.kind = "write") = 0
      BY <1>11 DEF One
    <3>2. B.write_reqs_pending[c] = Cardinality(WritesOf(Q, c)) + One(v.handle = c /\ v.kind = "write")
      BY <1>3, <1>9, <3>1
    <3>3. /\ ~Has(B, c, "CONNECTION") =>
               B.write_reqs_pending[c] = 0 /\ B.flags[c] \cap {"READABLE", "WRITABLE"} = {}
      <4>1. Has(L, c, "CONNECTION")
        BY <1>2, <1>3 DEF Shuts
      <4> QED
        BY <1>9, <1>10, <4>1 DEF Has
    <3> QED
      BY <1>2, <1>8, <1>9, <1>10, <1>11, <3>2, <3>3 DEF Shuts, Has, InShutdown
  <2> QED
    BY <1>1, <2>1, <2>2, <2>3, <2>4 DEF HandleInv
<1>14. Has(B, c, "READING") => ReadReq(c) \in Q
  BY <1>2, <1>9, <1>10 DEF Reads, InReadLoop, Has
<1>15. /\ \E H : Becomes(B, DecreasePendingReqCount(B, c), c, H, B.activecnt[c], B.reqs_pending[c] - 1)
       /\ HandleInv(DecreasePendingReqCount(B, c), Q, NoCallback, c)
  BY <1>1, <1>8, <1>11, <1>13, <1>14, RequestDone
<1> QED
  <2> HIDE DEF v
  <2>1. Kept(B, DecreasePendingReqCount(B, c), c)
    BY <1>15, BecomesKept
  <2> QED
    BY <1>5, <1>8, <1>15, <2>1, KeptTrans

\* The shutdown is done.
LEMMA ShutdownEnds ==
    ASSUME NEW L, LoopOK(L), L.failed = {}, L.active_reqs \in SUBSET ClientReqs, NEW Q \in SUBSET IoReqs, NEW k,
           NEW c \in Conns, HandleInv(L, Q, k, c), k.handle = c, k.kind = "shutdown"
    PROVE  Kept(L, ShutdownEnd(L, c), c) /\ HandleInv(ShutdownEnd(L, c), Q, NoCallback, c)
<1> DEFINE S == L.shutdown_req \ {c}
           A == [L EXCEPT !.shutdown_req = S]
           v == Callback("connection", c, NoReq, "ok", "return")
<1>1. c \in Handles /\ c \notin Servers /\ c \notin Timers /\ c \in Servers \cup Conns
  BY Kinds
<1>2. Lives(L, c) /\ Counts(L, Q, k, c) /\ Reads(L, Q, k, c) /\ Shuts(L, Q, k, c)
  BY <1>1 DEF HandleInv
<1>3. S \in SUBSET Conns /\ L \in LoopType
  BY DEF LoopOK, LoopType
<1>4. /\ LoopOK(A) /\ A.write_reqs_pending = L.write_reqs_pending /\ A.flags = L.flags /\ A.activecnt = L.activecnt
      /\ A.reqs_pending = L.reqs_pending /\ A.shutdown_req = S /\ A.handle_queue = L.handle_queue
      /\ A.active_reqs = L.active_reqs /\ A.failed = L.failed
      /\ A.pending_accepts = L.pending_accepts /\ A.accept_socket = L.accept_socket
      /\ A.kernel = L.kernel /\ A.iocp = L.iocp /\ A.pending = L.pending
  BY <1>3, ShutdownReqIs DEF LoopType
<1>5. ShutdownEnd(L, c) = DecreasePendingReqCount(A, c)
  BY DEF ShutdownEnd
<1>6. v.handle = c /\ v.kind = "connection" /\ c \notin S /\ (\A g : g # c => (g \in S <=> g \in L.shutdown_req))
  BY DEF Callback
<1> HIDE DEF A, S, v
<1>7. Kept(L, A, c)
  BY <1>4, <1>6 DEF Kept, Alike
<1>8. c \in L.shutdown_req /\ ShutdownReq(c) \notin L.active_reqs
  BY <1>2 DEF Shuts, InShutdown
<1>9. HandleInv(A, Q, v, c)
  <2>1. Lives(A, c)
    BY <1>2, <1>4 DEF Lives, Has
  <2>2. Counts(A, Q, v, c)
    <3>1. /\ One(Processing(v, c)) = 1 /\ One(c \in S) = 0
          /\ One(Processing(k, c)) = 0 /\ One(c \in L.shutdown_req) = 1
      BY <1>6, <1>8 DEF Processing, One
    <3>2. Cardinality(Of(Q, c)) \in Nat
      BY <1>1, ReqsAreFinite
    <3>3. A.reqs_pending[c] = Cardinality(Of(Q, c)) + One(Processing(v, c)) + One(c \in A.shutdown_req)
      BY <1>2, <1>4, <3>1, <3>2 DEF Counts
    <3> QED
      BY <1>2, <1>4, <3>3 DEF Counts, Has
  <2>3. Reads(A, Q, v, c)
    BY <1>2, <1>4, <1>6 DEF Reads, Has, InReadLoop
  <2>4. Shuts(A, Q, v, c)
    BY <1>2, <1>4, <1>6, <1>8 DEF Shuts, Has, InShutdown, One
  <2> QED
    BY <1>1, <2>1, <2>2, <2>3, <2>4 DEF HandleInv
<1>10. Has(A, c, "READING") => ReadReq(c) \in Q
  BY <1>2, <1>4 DEF Reads, InReadLoop, Has
<1>11. /\ \E H : Becomes(A, DecreasePendingReqCount(A, c), c, H, A.activecnt[c], A.reqs_pending[c] - 1)
       /\ HandleInv(DecreasePendingReqCount(A, c), Q, NoCallback, c)
  BY <1>1, <1>4, <1>6, <1>9, <1>10, RequestDone
<1> QED
  BY <1>5, <1>7, <1>11, BecomesKept, KeptTrans

-----------------------------------------------------------------------------
\* Queueing reads.

LEMMA InsertPendingReqIs ==
    ASSUME NEW L, NEW r, ~InQ(L.pending, r), NEW ok
    PROVE  InsertPendingReq(L, r, ok) = [L EXCEPT !.pending = Append(@, Packet(r, ok))]
<1>1. \A i \in DOMAIN L.pending : L.pending[i].req # r
  BY DEF InQ
<1> QED
  BY <1>1 DEF InsertPendingReq, Check

\* uv_tcp_queue_read when the stream reads and its read request is nowhere.
LEMMA QueueReadKeeps ==
    ASSUME NEW L, LoopOK(L), L.failed = {}, NEW W, Placed(L, W), NEW k, NEW c \in Conns,
           NEW Q, Q = Queued(L, W), Lives(L, c), Counts(L, Q, k, c), Shuts(L, Q, k, c),
           Has(L, c, "READING"), ~Has(L, c, "READ_PENDING"), ReadReq(c) \notin Q,
           ReadsRestart \/ ~(k.handle = c /\ k.kind \in {"alloc", "read", "readloop"}),
           NEW how \in ReadAnswers, NEW M, M = QueueRead(L, c, how), NEW R, R = Q \cup {ReadReq(c)}
    PROVE  /\ LoopOK(M) /\ M.failed = {} /\ M.active_reqs = L.active_reqs
           /\ Placed(M, W) /\ Queued(M, W) = R
           /\ \A g \in Handles \ {c} : Alike(L, M, Q, R, g)
           /\ HandleInv(M, R, k, c) /\ Has(M, c, "READING")
<1> DEFINE r == ReadReq(c)
           F == {"ZERO_READ"} \cup IF how = "failed" THEN {} ELSE {"READ_PENDING"}
           C == SetFlags(L, c, F)
           D == IncreasePendingReqCount(C, c, 1)
           G == L.flags[c] \cup F
           x == Packet(r, how = "bypass")
<1>1. /\ c \in Handles /\ c \notin Servers /\ c \notin Timers /\ L \in LoopType /\ F \in SUBSET Flags
      /\ L.pending \in Seq(Packets) /\ L.reqs_pending[c] \in Int /\ how \in Answers
      /\ ~RecvMayFail => how # "failed"
  BY Kinds DEF LoopOK, LoopType, Flags, ReadAnswers
<1>2. /\ r \in IoReqs /\ r.handle = c /\ r.type = "READ" /\ r \notin Q
      /\ x \in Packets /\ x.req = r
  BY IoReqsAre DEF Packets, Packet
<1>3. ~InQ(L.pending, r)
  BY <1>2 DEF Queued
<1>4. QueueRead(L, c, how) = IF how = "queued" THEN [D EXCEPT !.kernel = @ \cup {r}]
                             ELSE InsertPendingReq(D, r, how = "bypass")
  BY DEF QueueRead, Check
<1>5. D = [L EXCEPT !.flags[c] = G, !.reqs_pending[c] = @ + 1]
  BY <1>1 DEF SetFlags, IncreasePendingReqCount, LoopType
<1> HIDE DEF C, D, F, x
<1>6. D.pending = L.pending /\ D.kernel = L.kernel /\ D.iocp = L.iocp
  BY <1>1, <1>5 DEF LoopType
<1>7. M = IF how = "queued" THEN [D EXCEPT !.kernel = @ \cup {r}] ELSE [D EXCEPT !.pending = Append(@, x)]
  <2>1. InsertPendingReq(D, r, how = "bypass") = [D EXCEPT !.pending = Append(@, x)]
    <3>1. \A i \in DOMAIN D.pending : D.pending[i].req # r
      BY <1>3, <1>6 DEF InQ
    <3> QED
      BY <3>1 DEF InsertPendingReq, Check, x
  <2> QED
    BY <1>4, <2>1
<1> HIDE DEF r
<1>8. /\ M.flags = [L.flags EXCEPT ![c] = G] /\ M.activecnt = L.activecnt
      /\ M.reqs_pending = [L.reqs_pending EXCEPT ![c] = @ + 1]
      /\ M.write_reqs_pending = L.write_reqs_pending /\ M.shutdown_req = L.shutdown_req
      /\ M.handle_queue = L.handle_queue /\ M.active_reqs = L.active_reqs
      /\ M.pending_accepts = L.pending_accepts /\ M.accept_socket = L.accept_socket
      /\ M.iocp = L.iocp /\ M.failed = L.failed
      /\ \/ M.kernel = L.kernel \cup {r} /\ M.pending = L.pending
         \/ M.kernel = L.kernel /\ M.pending = Append(L.pending, x)
  <2> HIDE DEF G
  <2>1. CASE how = "queued"
    <3>1. M = [D EXCEPT !.kernel = @ \cup {r}]
      BY <1>7, <2>1
    <3> QED
      BY <1>1, <1>5, <3>1 DEF LoopType
  <2>2. CASE how # "queued"
    <3>1. M = [D EXCEPT !.pending = Append(@, x)]
      BY <1>7, <2>2
    <3> QED
      BY <1>1, <1>5, <3>1 DEF LoopType
  <2> QED
    BY <2>1, <2>2
<1>9. /\ M.flags[c] = G /\ M.reqs_pending[c] = L.reqs_pending[c] + 1
      /\ \A g \in Handles \ {c} : M.flags[g] = L.flags[g] /\ M.reqs_pending[g] = L.reqs_pending[g]
  BY <1>1, <1>8 DEF LoopType
<1>10. Placed(M, W) /\ Queued(M, W) = R
  <2>1. CASE M.kernel = L.kernel \cup {r} /\ M.pending = L.pending
    BY <1>2, <1>8, <2>1, KernelTakes DEF r
  <2>2. CASE M.kernel = L.kernel /\ M.pending = Append(L.pending, x)
    BY <1>1, <1>2, <1>8, <2>2, LoopTakes DEF r
  <2> QED
    BY <1>8, <2>1, <2>2
<1>11. /\ Cardinality(Of(Q, c)) \in Nat /\ Cardinality(Of(R, c)) = Cardinality(Of(Q, c)) + 1
       /\ WritesOf(R, c) = WritesOf(Q, c)
       /\ \A g : g # c => Of(R, g) = Of(Q, g)
  <2>1. Q \in SUBSET IoReqs /\ R = Q \cup {r}
    BY DEF Queued, r
  <2> QED
    BY <1>2, <2>1, QueueGrows
<1>12. \A g \in Handles \ {c} : Alike(L, M, Q, R, g)
  BY <1>8, <1>9, <1>11 DEF Alike
<1>13. LoopOK(M)
  BY <1>1, QueueReadOK
<1>14. /\ \A f : f \notin {"ZERO_READ", "READ_PENDING"} => (f \in G <=> f \in L.flags[c])
       /\ "ZERO_READ" \in G /\ (~RecvMayFail => "READ_PENDING" \in G)
  BY <1>1 DEF F
<1> HIDE DEF G
<1>15. \A y : y \in R <=> y \in Q \/ y = r
  BY DEF r
<1>16. Lives(M, c)
  <2>1. L.reqs_pending[c] >= 0
    <3>1. One(Processing(k, c)) \in {0, 1} /\ One(c \in L.shutdown_req) \in {0, 1}
      BY DEF One
    <3> QED
      BY <1>11, <3>1 DEF Counts
  <2>2. ~Has(L, c, "CLOSED") /\ ~Has(L, c, "CLOSING") /\ c \in L.handle_queue
    BY DEF Lives, Has
  <2> QED
    BY <1>8, <1>9, <1>14, <2>1, <2>2 DEF Lives, Has
<1>17. Counts(M, R, k, c)
  <2>1. M.reqs_pending[c] = Cardinality(Of(R, c)) + One(Processing(k, c)) + One(c \in M.shutdown_req)
    <3>1. One(Processing(k, c)) \in {0, 1} /\ One(c \in L.shutdown_req) \in {0, 1}
      BY DEF One
    <3> QED
      BY <1>8, <1>9, <1>11, <3>1 DEF Counts
  <2> QED
    BY <1>8, <1>9, <1>14, <2>1 DEF Counts, Has
<1>18. Reads(M, R, k, c)
  BY <1>9, <1>14, <1>15 DEF Reads, Has, r
<1>19. Shuts(M, R, k, c)
  <2>1. \A y \in WriteReqs : y # r
    BY <1>2, IoReqsAre
  <2> QED
    BY <1>8, <1>9, <1>11, <1>14, <1>15, <2>1 DEF Shuts, Has
<1> QED
  BY <1>1, <1>8, <1>9, <1>10, <1>12, <1>13, <1>14, <1>16, <1>17, <1>18, <1>19 DEF HandleInv, Has

\* The end of uv_process_tcp_read_req: another read, if the stream still reads.
LEMMA ReadEnds ==
    ASSUME NEW L, LoopOK(L), L.failed = {}, L.active_reqs \in SUBSET ClientReqs, NEW W, Placed(L, W), NEW k,
           NEW Q, Q = Queued(L, W), NEW c \in Conns, HandleInv(L, Q, k, c), Spared,
           k.handle = c, k.kind = "read", NEW how \in ReadAnswers, NEW M, M = ReadReqEnd(L, c, how)
    PROVE  /\ M.failed = {} /\ M.active_reqs = L.active_reqs /\ Placed(M, W)
           /\ \A g \in Handles \ {c} : Alike(L, M, Q, Queued(M, W), g)
           /\ HandleInv(M, Queued(M, W), NoCallback, c)
<1> DEFINE r == ReadReq(c)
           A == IF Has(L, c, "READING") /\ ~Has(L, c, "READ_PENDING") THEN QueueRead(L, c, how) ELSE L
           R == Queued(A, W)
           v == Callback("connection", c, NoReq, "ok", "return")
<1>1. c \in Handles /\ c \notin Servers /\ c \notin Timers /\ c \in Servers \cup Conns
      /\ v.handle = c /\ v.kind = "connection"
  BY Kinds DEF Callback
<1>2. Lives(L, c) /\ Counts(L, Q, k, c) /\ Reads(L, Q, k, c) /\ Shuts(L, Q, k, c)
  BY <1>1 DEF HandleInv
<1>3. M = DecreasePendingReqCount(A, c)
  BY DEF ReadReqEnd
<1> HIDE DEF v
<1>4. Lives(L, c) /\ Counts(L, Q, v, c) /\ Shuts(L, Q, v, c)
  <2>1. Counts(L, Q, v, c)
    BY <1>1, <1>2 DEF Counts, Processing, One
  <2>2. Shuts(L, Q, v, c)
    BY <1>1, <1>2 DEF Shuts, InShutdown, One
  <2> QED
    BY <1>2, <2>1, <2>2
<1>5. /\ LoopOK(A) /\ A.failed = {} /\ A.active_reqs = L.active_reqs /\ Placed(A, W)
      /\ \A g \in Handles \ {c} : Alike(L, A, Q, R, g)
      /\ HandleInv(A, R, v, c) /\ (Has(A, c, "READING") => r \in R)
  <2>1. CASE Has(L, c, "READING") /\ ~Has(L, c, "READ_PENDING")
    <3> DEFINE N == QueueRead(L, c, how)
               S == Q \cup {ReadReq(c)}
    <3>1. ReadReq(c) \notin Q
      BY <1>2, <2>1 DEF Reads, Spared
    <3>2. ReadsRestart \/ ~(v.handle = c /\ v.kind \in {"alloc", "read", "readloop"})
      BY <1>1
    <3>3. N = QueueRead(L, c, how) /\ S = Q \cup {ReadReq(c)} /\ A = N
      BY <2>1
    <3> HIDE DEF N, S, A
    <3>4. /\ LoopOK(N) /\ N.failed = {} /\ N.active_reqs = L.active_reqs
          /\ Placed(N, W) /\ Queued(N, W) = S
          /\ \A g \in Handles \ {c} : Alike(L, N, Q, S, g)
          /\ HandleInv(N, S, v, c)
      BY <1>4, <2>1, <3>1, <3>2, <3>3, QueueReadKeeps
    <3> QED
      BY <3>3, <3>4 DEF S
  <2>2. CASE ~(Has(L, c, "READING") /\ ~Has(L, c, "READ_PENDING"))
    <3>1. A = L /\ R = Q
      BY <2>2
    <3>2. Has(L, c, "READING") => r \in Q
      BY <1>2, <2>2 DEF Reads
    <3>3. Reads(L, Q, v, c)
      BY <1>1, <1>2, <3>2 DEF Reads, InReadLoop
    <3>4. HandleInv(L, Q, v, c)
      BY <1>1, <1>4, <3>3 DEF HandleInv
    <3> HIDE DEF A, R
    <3> QED
      BY <3>1, <3>2, <3>4 DEF Alike
  <2> QED
    BY <2>1, <2>2
<1>6. R \in SUBSET IoReqs
  BY DEF Queued
<1> HIDE DEF A, R
<1>7. /\ \E H : Becomes(A, M, c, H, A.activecnt[c], A.reqs_pending[c] - 1)
      /\ HandleInv(M, R, NoCallback, c)
  BY <1>1, <1>3, <1>5, <1>6, RequestDone
<1>8. Kept(A, M, c)
  BY <1>7, BecomesKept
<1>9. Queued(M, W) = R /\ Placed(M, W)
  BY <1>5, <1>8, QueuedIs DEF Kept, R
<1>10. \A g \in Handles \ {c} : Alike(L, M, Q, R, g)
  BY <1>5, <1>8 DEF Kept, Alike
<1> QED
  BY <1>5, <1>7, <1>8, <1>9, <1>10 DEF Kept

-----------------------------------------------------------------------------
\* A callback returns.

LEMMA CallbackReturnsC ==
    ASSUME IInv, CInv, CallbackReturns
    PROVE  CInv'
<1> DEFINE h == cb.handle
           Q == Queued(loop, work)
<1>1. work' = work /\ due' = due /\ request' = request /\ pc' = pc
  BY DEF CallbackReturns
<1>2. /\ LoopOK(loop) /\ loop.failed = {} /\ Placed(loop, work) /\ Spared /\ Q \in SUBSET IoReqs
      /\ loop.active_reqs \in SUBSET ClientReqs /\ NoCallback.kind = "none"
      /\ \A g \in Handles : HandleInv(loop, Q, cb, g)
  BY InvIs DEF NoCallback, Callback
<1>3. About(cb, h) /\ About(NoCallback, h)
  BY <1>2 DEF About
<1>4. Fits(cb)
  BY DEF IInv
<1>5. CASE cb.kind \in {"timer", "close"} /\ cb' = NoCallback /\ loop' = loop
  <2>1. \A g \in Handles : HandleInv(loop', Queued(loop', work'), cb', g)
    BY <1>1, <1>2, <1>5, NoHandle
  <2>2. Stages'
    BY <1>1, <1>2, <1>5 DEF CInv, Stages
  <2> QED
    BY <1>1, <1>5, <2>1, <2>2 DEF CInv
<1>6. CASE cb.kind \in {"connection", "read"} /\ (cb.kind = "read" => cb.next = "end") /\ cb' = NoCallback
           /\ loop' = DecreasePendingReqCount(loop, h)
  <2>1. h \in Servers \cup Conns /\ h \in Handles /\ h \notin Timers /\ (h \in Conns => cb.kind = "read")
    BY <1>4, <1>6, Kinds DEF Fits
  <2>2. h \in Conns /\ Has(loop, h, "READING") => ReadReq(h) \in Q
    <3>1. SUFFICES ASSUME h \in Conns, Has(loop, h, "READING")
                   PROVE  ReadReq(h) \in Q
      OBVIOUS
    <3>2. Reads(loop, Q, cb, h) /\ ~InReadLoop(cb, h)
      BY <1>2, <1>6, <2>1, <3>1 DEF HandleInv, InReadLoop
    <3> QED
      BY <3>1, <3>2 DEF Reads
  <2>3. /\ \E G : Becomes(loop, loop', h, G, loop.activecnt[h], loop.reqs_pending[h] - 1)
        /\ HandleInv(loop', Q, cb', h)
    <3> HIDE DEF Q
    <3> QED
      BY <1>2, <1>6, <2>1, <2>2, RequestDone
  <2>4. Stages' /\ h \notin due'
    BY <1>1, <1>2, <1>6, <2>1 DEF CInv, Stages, ActiveTimers
  <2> HIDE DEF h
  <2> QED
    BY <1>1, <1>3, <1>6, <2>1, <2>3, <2>4, BecomesC
<1>7. CASE cb.kind \in {"write", "shutdown"} /\ cb' = NoCallback
           /\ loop' = IF cb.kind = "write" THEN WriteReqEnd(loop, h) ELSE ShutdownEnd(loop, h)
  <2>1. h \in Conns /\ h \in Handles /\ h \notin Timers
    BY <1>4, <1>7, Kinds DEF Fits
  <2>2. Kept(loop, loop', h) /\ HandleInv(loop', Q, cb', h)
    <3> HIDE DEF Q
    <3>1. CASE cb.kind = "write"
      BY <1>2, <1>7, <2>1, <3>1, WriteEnds
    <3>2. CASE cb.kind = "shutdown"
      BY <1>2, <1>7, <2>1, <3>2, ShutdownEnds
    <3> QED
      BY <1>7, <3>1, <3>2
  <2>3. Stages' /\ h \notin due'
    BY <1>1, <1>2, <1>7, <2>1 DEF CInv, Stages, ActiveTimers
  <2> HIDE DEF h
  <2> QED
    BY <1>1, <1>3, <1>7, <2>1, <2>2, <2>3, KeptC
<1>8. CASE cb.kind = "read" /\ cb.next = "again" /\ loop' = loop
           /\ cb' = Callback("readloop", cb.handle, cb.req, "ok", "return")
  <2>1. h \in Conns /\ h \in Handles /\ h \notin Timers
    BY <1>4, <1>8, Kinds DEF Fits
  <2>2. cb'.handle = h /\ cb'.kind = "readloop"
    BY <1>8 DEF Callback
  <2>3. HandleInv(loop', Q, cb', h)
    BY <1>2, <1>8, <2>1, <2>2, ReadCallbacks DEF InReadLoop
  <2>4. Stages' /\ h \notin due' /\ About(cb', h)
    BY <1>1, <1>2, <1>8, <2>1, <2>2 DEF CInv, Stages, ActiveTimers, About
  <2> HIDE DEF h
  <2> QED
    BY <1>1, <1>2, <1>3, <1>8, <2>1, <2>3, <2>4, BecomesItself, BecomesC
<1>9. CASE cb.kind = "read" /\ cb' = NoCallback /\ \E how \in ReadAnswers : loop' = ReadReqEnd(loop, h, how)
  <2>1. h \in Conns /\ h \in Handles /\ h \notin Timers
    BY <1>4, <1>9, Kinds DEF Fits
  <2>2. /\ loop'.failed = {} /\ loop'.active_reqs = loop.active_reqs /\ Placed(loop', work)
        /\ \A g \in Handles \ {h} : Alike(loop, loop', Q, Queued(loop', work), g)
        /\ HandleInv(loop', Queued(loop', work), cb', h)
    BY <1>2, <1>9, <2>1, ReadEnds
  <2>3. Stages' /\ h \notin due'
    BY <1>1, <1>2, <1>9, <2>1 DEF CInv, Stages, ActiveTimers
  <2>4. loop'.active_reqs = {r \in ClientReqs : request'[r] = "issued"}
    BY <1>1, <2>2 DEF CInv
  <2> HIDE DEF h
  <2> QED
    BY <1>1, <1>3, <1>9, <2>1, <2>2, <2>3, <2>4, StepC
<1> QED
  BY <1>5, <1>6, <1>7, <1>8, <1>9 DEF CallbackReturns

-----------------------------------------------------------------------------
\* Queueing accepts.

\* The sequence of the requests that get no packet is what QueueAccepts needs.
LEMMA InOrderIs ==
    ASSUME NEW R \in SUBSET AcceptReqs, IsFiniteSet(R), NEW q \in InOrder(R)
    PROVE  /\ q \in Seq(R)
           /\ \A i, j \in DOMAIN q : q[i] = q[j] => i = j
           /\ \A r : (\E i \in DOMAIN q : q[i] = r) <=> r \in R
<1> DEFINE n == Cardinality(R)
<1>1. n \in Nat
  BY FS_CardinalityType
<1>2. q \in [1..n -> R] /\ \A i, j \in 1..n : i < j => q[i].id < q[j].id
  BY DEF InOrder
<1>3. IsFiniteSet(1..n) /\ Cardinality(1..n) = n
  BY <1>1, FS_Interval
<1> HIDE DEF n
<1>4. ASSUME NEW i \in 1..n, NEW j \in 1..n, q[i] = q[j]
      PROVE  i = j
  <2>1. q[i].id \in Int
    BY <1>2, CountsAssumption DEF AcceptReqs
  <2>2. ~(q[i].id < q[j].id) /\ ~(q[j].id < q[i].id)
    BY <1>4, <2>1
  <2> QED
    BY <1>1, <1>2, <2>2
<1>5. q \in Injection(1..n, R)
  BY <1>2, <1>4 DEF Injection, IsInjective
<1>6. q \in Surjection(1..n, R)
  BY <1>3, <1>5, FS_Injection DEF n
<1>7. \A r \in R : \E i \in 1..n : q[i] = r
  BY <1>6 DEF Surjection
<1> QED
  BY <1>1, <1>2, <1>4, <1>7

\* uv_tcp_queue_accept of the requests N, none of which is queued or has a socket.
LEMMA QueueAcceptsIs ==
    ASSUME NEW L, LoopOK(L), L.failed = {}, NEW W, Placed(L, W), NEW s \in Servers,
           NEW N \in SUBSET AcceptReqs, IsFiniteSet(N), NEW how \in [N -> Answers], NEW soon \in Seq(N),
           \A i, j \in DOMAIN soon : soon[i] = soon[j] => i = j,
           \A r : (\E i \in DOMAIN soon : soon[i] = r) <=> r \in N /\ how[r] # "queued",
           Has(L, s, "LISTENING"), N \cap L.accept_socket = {}, NEW Q, Q = Queued(L, W), N \cap Q = {},
           NEW M, M = QueueAccepts(L, s, how, soon)
    PROVE  /\ LoopOK(M) /\ M.failed = {} /\ Placed(M, W) /\ Queued(M, W) = Q \cup N
           /\ M.flags = L.flags /\ M.activecnt = L.activecnt
           /\ M.reqs_pending = [L.reqs_pending EXCEPT ![s] = @ + Cardinality(N)]
           /\ M.write_reqs_pending = L.write_reqs_pending /\ M.shutdown_req = L.shutdown_req
           /\ M.handle_queue = L.handle_queue /\ M.active_reqs = L.active_reqs
           /\ M.pending_accepts = L.pending_accepts
           /\ M.accept_socket = L.accept_socket \cup {r \in N : how[r] # "failed"}
<1> DEFINE P == [i \in DOMAIN soon |-> Packet(soon[i], how[soon[i]] = "bypass")]
           K == {r \in N : how[r] = "queued"}
           S == {r \in N : how[r] # "failed"}
           n == Cardinality(N)
<1>1. s \in Handles /\ DOMAIN how = N /\ N \subseteq IoReqs /\ L \in LoopType /\ L.pending \in Seq(Packets)
  BY Kinds DEF IoReqs, LoopOK, LoopType
<1>2. M = [L EXCEPT !.accept_socket = @ \cup S, !.kernel = @ \cup K, !.pending = @ \o P, !.reqs_pending[s] = @ + n]
  BY <1>1 DEF QueueAccepts, Check
<1>3. LoopOK(M)
  BY QueueAcceptsOK
<1>4. /\ P \in Seq(Packets) /\ DOMAIN P = DOMAIN soon
      /\ \A i \in DOMAIN soon : P[i].req = soon[i]
  <2>1. \A i \in 1..Len(soon) : P[i] \in Packets
    BY <1>1 DEF Packet, Packets
  <2>2. DOMAIN P = 1..Len(soon) /\ Len(soon) \in Nat /\ DOMAIN soon = 1..Len(soon)
    OBVIOUS
  <2>3. \A i \in DOMAIN soon : P[i].req = soon[i]
    BY DEF Packet
  <2> HIDE DEF P
  <2>4. P = [i \in 1..Len(soon) |-> P[i]]
    BY <2>2 DEF P
  <2> QED
    BY <2>1, <2>2, <2>3, <2>4
<1> HIDE DEF P, S, K, n
<1>5. /\ M.flags = L.flags /\ M.activecnt = L.activecnt
      /\ M.reqs_pending = [L.reqs_pending EXCEPT ![s] = @ + n]
      /\ M.write_reqs_pending = L.write_reqs_pending /\ M.shutdown_req = L.shutdown_req
      /\ M.handle_queue = L.handle_queue /\ M.active_reqs = L.active_reqs
      /\ M.pending_accepts = L.pending_accepts /\ M.accept_socket = L.accept_socket \cup S
      /\ M.kernel = L.kernel \cup K /\ M.pending = L.pending \o P /\ M.iocp = L.iocp /\ M.failed = L.failed
  BY <1>1, <1>2 DEF LoopType
<1>6. Once(P) /\ \A r : InQ(P, r) <=> r \in N /\ r \notin K
  <2>1. Once(P)
    BY <1>4 DEF Once
  <2>2. \A r : InQ(P, r) <=> \E i \in DOMAIN soon : soon[i] = r
    BY <1>4 DEF InQ
  <2> QED
    BY <2>1, <2>2 DEF K
<1>7. \A r \in N : r \notin L.kernel /\ ~InQ(L.iocp, r) /\ ~InQ(L.pending, r) /\ ~InQ(W, r)
  BY <1>1 DEF Queued
<1>8. /\ \A r : InQ(M.pending, r) <=> InQ(L.pending, r) \/ InQ(P, r)
      /\ Once(M.pending)
  <2>1. \A r : ~(InQ(L.pending, r) /\ InQ(P, r))
    BY <1>6, <1>7
  <2> QED
    BY <1>1, <1>4, <1>5, <1>6, <2>1, Joined DEF Placed
<1>9. K \subseteq N
  BY DEF K
<1>10. Placed(M, W)
  <2>1. Once(M.iocp) /\ Once(M.pending) /\ Once(W)
    BY <1>5, <1>8 DEF Placed
  <2>2. \A r \in M.kernel : ~InQ(M.iocp, r) /\ ~InQ(M.pending, r) /\ ~InQ(W, r)
    BY <1>5, <1>6, <1>7, <1>8, <1>9 DEF Placed
  <2>3. \A r \in IoReqs : /\ InQ(M.iocp, r) => ~InQ(M.pending, r) /\ ~InQ(W, r)
                          /\ InQ(M.pending, r) => ~InQ(W, r)
    BY <1>5, <1>6, <1>7, <1>8 DEF Placed
  <2> QED
    BY <2>1, <2>2, <2>3 DEF Placed
<1>11. Queued(M, W) = Q \cup N
  BY <1>1, <1>5, <1>6, <1>8, <1>9 DEF Queued
<1> QED
  BY <1>3, <1>5, <1>10, <1>11 DEF S, n

\* The requests of N that get no packet, each of them once.
Soon(soon, N, how) ==
    /\ soon \in Seq(N)
    /\ \A i, j \in DOMAIN soon : soon[i] = soon[j] => i = j
    /\ \A r : (\E i \in DOMAIN soon : soon[i] = r) <=> r \in N /\ how[r] # "queued"

\* s listens, with the requests Q queued, and all of its requests if those of R were.
Listening(L, Q, R, s) ==
    /\ Has(L, s, "LISTENING") /\ ~Has(L, s, "READING")
    /\ \A r \in AcceptReqsOf(s) : r \in R \/ \E i \in DOMAIN L.pending_accepts[s] : L.pending_accepts[s][i] = r
    /\ \A i \in DOMAIN L.pending_accepts[s] :
          /\ L.pending_accepts[s][i] \in AcceptReqsOf(s) \ R
          /\ L.pending_accepts[s][i] \in L.accept_socket
    /\ \A i, j \in DOMAIN L.pending_accepts[s] : L.pending_accepts[s][i] = L.pending_accepts[s][j] => i = j
    /\ ~AcceptMayFail => Of(Q, s) \subseteq L.accept_socket

\* From L to M the requests queued become R where they were Q, and nothing else
\* changes but for the handle h.
Queues(L, M, W, Q, R, h) ==
    /\ LoopOK(M) /\ M.failed = {} /\ M.active_reqs = L.active_reqs /\ Placed(M, W) /\ Queued(M, W) = R
    /\ \A g \in Handles \ {h} : Alike(L, M, Q, R, g)

LEMMA AlikeTrans ==
    ASSUME NEW L, NEW M, NEW N, NEW Q, NEW R, NEW S, NEW g, Alike(L, M, Q, R, g), Alike(M, N, R, S, g)
    PROVE  Alike(L, N, Q, S, g)
  BY DEF Alike

LEMMA QueueAcceptsKeeps ==
    ASSUME NEW L, LoopOK(L), L.failed = {}, NEW W, Placed(L, W), NEW k, NEW s \in Servers,
           NEW N \in SUBSET AcceptReqsOf(s), NEW how \in [N -> AcceptAnswers], NEW soon, Soon(soon, N, how),
           N \cap L.accept_socket = {}, NEW Q, Q = Queued(L, W), N \cap Q = {},
           NEW M, M = QueueAccepts(L, s, how, soon), NEW R, R = Q \cup N,
           Lives(L, s), Counts(L, Q, k, s), Listening(L, Q, R, s)
    PROVE  Queues(L, M, W, Q, R, s) /\ HandleInv(M, R, k, s)
<1> DEFINE n == Cardinality(N)
           S == {r \in N : how[r] # "failed"}
<1>1. /\ s \in Handles /\ s \notin Conns /\ s \notin Timers /\ L \in LoopType
      /\ N \in SUBSET AcceptReqs /\ IsFiniteSet(N) /\ Q \in SUBSET IoReqs /\ {} \in SUBSET ClientReqs
      /\ \A r \in N : r.handle = s
  BY Kinds, AcceptReqsOfIsFinite, FS_Subset DEF LoopOK, AcceptReqsOf, Queued
<1>2. how \in [N -> Answers] /\ (~AcceptMayFail => S = N)
  BY DEF AcceptAnswers, Answers
<1> HIDE DEF S
<1>3. n \in Nat
  BY <1>1, FS_CardinalityType
<1>4. /\ LoopOK(M) /\ M.failed = {} /\ Placed(M, W) /\ Queued(M, W) = R
      /\ M.flags = L.flags /\ M.activecnt = L.activecnt
      /\ M.reqs_pending = [L.reqs_pending EXCEPT ![s] = @ + n]
      /\ M.write_reqs_pending = L.write_reqs_pending /\ M.shutdown_req = L.shutdown_req
      /\ M.handle_queue = L.handle_queue /\ M.active_reqs = L.active_reqs
      /\ M.pending_accepts = L.pending_accepts /\ M.accept_socket = L.accept_socket \cup S
  <2>1. /\ soon \in Seq(N)
        /\ \A i, j \in DOMAIN soon : soon[i] = soon[j] => i = j
        /\ \A r : (\E i \in DOMAIN soon : soon[i] = r) <=> r \in N /\ how[r] # "queued"
        /\ Has(L, s, "LISTENING")
    BY DEF Soon, Listening
  <2> HIDE DEF n
  <2> QED
    BY <1>1, <1>2, <2>1, QueueAcceptsIs DEF S, n
<1>5. /\ M.reqs_pending[s] = L.reqs_pending[s] + n
      /\ \A g \in Handles \ {s} : M.reqs_pending[g] = L.reqs_pending[g]
  BY <1>1, <1>4 DEF LoopType
<1>6. /\ Cardinality(Of(R, s)) = Cardinality(Of(Q, s)) + n /\ Cardinality(Of(Q, s)) \in Nat
      /\ \A g : g # s => Of(R, g) = Of(Q, g)
  <2>1. Of(R, s) = Of(Q, s) \cup N /\ Of(Q, s) \cap N = {} /\ (\A g : g # s => Of(R, g) = Of(Q, g))
    BY <1>1 DEF Of
  <2>2. IsFiniteSet(Of(Q, s)) /\ Cardinality(Of(Q, s)) \in Nat
    BY <1>1, ReqsAreFinite
  <2>3. Cardinality(Of(Q, s) \cup N) = Cardinality(Of(Q, s)) + n - Cardinality(Of(Q, s) \cap N)
    BY <1>1, <2>2, FS_Union
  <2>4. Cardinality(Of(Q, s) \cap N) = 0
    BY <2>1, FS_EmptySet
  <2> HIDE DEF n
  <2>5. Cardinality(Of(Q, s) \cup N) = Cardinality(Of(Q, s)) + n
    BY <1>3, <2>2, <2>3, <2>4
  <2> QED
    BY <2>1, <2>2, <2>5
<1> HIDE DEF n
<1>7. \A g \in Handles \ {s} : Alike(L, M, Q, R, g)
  <2>1. \A g \in Handles \ {s} : Of(M.accept_socket, g) = Of(L.accept_socket, g)
    BY <1>1, <1>4 DEF Of, S
  <2> QED
    BY <1>4, <1>5, <1>6, <2>1 DEF Alike
<1>8. L.reqs_pending[s] \in Int /\ L.reqs_pending[s] >= 0
  <2>1. One(Processing(k, s)) \in {0, 1} /\ One(s \in L.shutdown_req) \in {0, 1}
    BY DEF One
  <2> QED
    BY <1>6, <2>1 DEF Counts
<1>9. Lives(M, s)
  <2>1. ~Has(L, s, "CLOSED") /\ ~Has(L, s, "CLOSING") /\ s \in L.handle_queue
    BY DEF Lives, Has, Listening
  <2> QED
    BY <1>4, <2>1 DEF Lives, Has
<1>10. Counts(M, R, k, s)
  <2>1. M.reqs_pending[s] = Cardinality(Of(R, s)) + One(Processing(k, s)) + One(s \in M.shutdown_req)
    <3>1. One(Processing(k, s)) \in {0, 1} /\ One(s \in L.shutdown_req) \in {0, 1}
      BY DEF One
    <3> QED
      BY <1>3, <1>4, <1>5, <1>6, <3>1 DEF Counts
  <2> QED
    BY <1>4, <2>1 DEF Counts, Has
<1>11. Listens(M, R, s)
  <2>1. ~AcceptMayFail => Of(R, s) \subseteq M.accept_socket
    BY <1>1, <1>2, <1>4 DEF Of, Listening
  <2>2. \A i \in DOMAIN L.pending_accepts[s] : L.pending_accepts[s][i] \in M.accept_socket
    BY <1>4 DEF Listening
  <2>3. Has(M, s, "LISTENING") /\ ~Has(M, s, "READING") /\ M.pending_accepts[s] = L.pending_accepts[s]
    BY <1>4 DEF Has, Listening
  <2> QED
    BY <2>1, <2>2, <2>3 DEF Listens, Listening
<1> QED
  BY <1>1, <1>4, <1>7, <1>9, <1>10, <1>11 DEF HandleInv, Queues

\* One accept request is queued again.
LEMMA QueueAcceptKeeps ==
    ASSUME NEW L, LoopOK(L), L.failed = {}, NEW W, Placed(L, W), NEW k, NEW s \in Servers,
           NEW r \in AcceptReqsOf(s), NEW how \in AcceptAnswers,
           r \notin L.accept_socket, NEW Q, Q = Queued(L, W), r \notin Q,
           NEW M, M = QueueAccept(L, r, how), NEW R, R = Q \cup {r},
           Lives(L, s), Counts(L, Q, k, s), Listening(L, Q, R, s)
    PROVE  Queues(L, M, W, Q, R, s) /\ HandleInv(M, R, k, s)
<1> DEFINE N == {r}
           w == [x \in N |-> how]
           soon == IF how = "queued" THEN << >> ELSE <<r>>
<1>1. /\ r.handle = s /\ N \in SUBSET AcceptReqsOf(s) /\ w \in [N -> AcceptAnswers]
      /\ N \cap L.accept_socket = {} /\ N \cap Q = {} /\ R = Q \cup N
  BY DEF AcceptReqsOf
<1>2. soon \in Seq(N) /\ \A i, j \in DOMAIN soon : soon[i] = soon[j] => i = j
  <2>1. << >> \in Seq({r}) /\ <<r>> \in Seq({r}) /\ DOMAIN <<r>> = {1} /\ DOMAIN << >> = {}
    OBVIOUS
  <2>2. soon \in Seq(N)
    BY <2>1
  <2>3. DOMAIN soon \subseteq {1}
    BY <2>1
  <2> HIDE DEF soon
  <2> QED
    BY <2>2, <2>3
<1>3. \A x : (\E i \in DOMAIN soon : soon[i] = x) <=> x \in N /\ w[x] # "queued"
  <2>1. CASE how = "queued"
    BY <2>1
  <2>2. CASE how # "queued"
    <3>1. soon = <<r>> /\ DOMAIN soon = {1} /\ soon[1] = r
      BY <2>2
    <3> HIDE DEF soon
    <3> QED
      BY <2>2, <3>1
  <2> QED
    BY <2>1, <2>2
<1>4. M = QueueAccepts(L, s, w, soon)
  BY <1>1 DEF QueueAccept
<1>5. Soon(soon, N, w)
  BY <1>2, <1>3 DEF Soon
<1> HIDE DEF N, w, soon
<1> QED
  BY <1>1, <1>4, <1>5, QueueAcceptsKeeps

\* A server has no request of a client.
LEMMA ServerActivity ==
    ASSUME NEW L, LoopOK(L), NEW Q, NEW k, NEW s \in Servers, HandleInv(L, Q, k, s)
    PROVE  L.activecnt[s] = One(Has(L, s, "LISTENING")) /\ Cardinality(Of(L.active_reqs, s)) = 0
<1>1. Counts(L, Q, k, s) /\ Listens(L, Q, s)
  BY DEF HandleInv
<1>2. Of(L.active_reqs, s) = {}
  <2>1. L.active_reqs \in SUBSET ClientReqs /\ Of(ClientReqs, s) = {}
    BY IoReqsAre DEF LoopOK, LoopType
  <2> QED
    BY <2>1 DEF Of
<1> QED
  BY <1>1, <1>2, FS_EmptySet DEF Counts, Listens, One

\* Of an accept request in hand: what the invariant of its server says of the rest.
LEMMA AcceptTaken ==
    ASSUME NEW L, NEW Q \in SUBSET IoReqs, NEW k, k.kind = "none", NEW s \in Servers,
           NEW r \in AcceptReqsOf(s), r \in Q, HandleInv(L, Q, k, s), NEW v, v.handle = s, v.kind = "connection",
           NEW R, R = Q \ {r}
    PROVE  /\ Lives(L, s) /\ Counts(L, R, v, s) /\ ~Has(L, s, "READING")
           /\ Has(L, s, "LISTENING") \/ Has(L, s, "CLOSING")
<1>1. r.handle = s /\ r \in Of(Q, s)
  BY DEF AcceptReqsOf, Of
<1>2. Lives(L, s) /\ Counts(L, Q, k, s) /\ Listens(L, Q, s)
  BY DEF HandleInv
<1>3. Cardinality(Of(R, s)) = Cardinality(Of(Q, s)) - 1 /\ Cardinality(Of(Q, s)) \in Nat
  BY <1>1, QueueShrinks
<1>4. Counts(L, R, v, s)
  <2>1. One(Processing(v, s)) = 1 /\ One(Processing(k, s)) = 0
    BY DEF One, Processing
  <2>2. Cardinality(Of(Q, s)) + 0 = Cardinality(Of(R, s)) + 1
    BY <1>3
  <2> QED
    BY <1>2, <2>1, <2>2 DEF Counts
<1> QED
  BY <1>1, <1>2, <1>4 DEF Listens

\* The request failed for want of a socket: the server listens no more.
LEMMA ListenFails ==
    ASSUME NEW L, LoopOK(L), L.failed = {}, NEW Q \in SUBSET IoReqs, NEW k, k.kind = "none", NEW s \in Servers,
           NEW r \in AcceptReqsOf(s), r \in Q, HandleInv(L, Q, k, s), NEW v, v.handle = s, v.kind = "connection",
           NEW R, R = Q \ {r}, Spared, r \notin L.accept_socket, Has(L, s, "LISTENING"),
           NEW M, M = StopIf(L, s, "LISTENING")
    PROVE  Kept(L, M, s) /\ HandleInv(M, R, v, s)
<1>1. /\ Lives(L, s) /\ Counts(L, R, v, s) /\ ~Has(L, s, "READING") /\ Listens(L, Q, s)
      /\ L.activecnt[s] = 1 /\ Cardinality(Of(L.active_reqs, s)) = 0
      /\ s \in Handles /\ s \notin Timers /\ s \notin Conns /\ {"LISTENING"} \in SUBSET OtherFlags
  <2>1. Lives(L, s) /\ Counts(L, R, v, s) /\ ~Has(L, s, "READING")
    BY AcceptTaken
  <2>2. L.activecnt[s] = 1 /\ Cardinality(Of(L.active_reqs, s)) = 0
    BY ServerActivity DEF One
  <2>3. s \in Handles /\ s \notin Timers /\ s \notin Conns /\ {"LISTENING"} \in SUBSET OtherFlags
    BY Kinds DEF OtherFlags, Flags
  <2> QED
    BY <2>1, <2>2, <2>3 DEF HandleInv
<1>2. Of(R, s) = {} /\ L.pending_accepts[s] = << >>
  <2>1. r \in Of(Q, s)
    BY DEF Of, AcceptReqsOf
  <2>2. NAccepts = 1
    BY <1>1, <2>1 DEF Listens, Spared
  <2>3. \A x, y \in AcceptReqsOf(s) : x = y
    BY <2>2 DEF AcceptReqsOf, AcceptReqs
  <2>4. Of(R, s) = {}
    <3>1. \A x \in Of(Q, s) : x \in AcceptReqsOf(s)
      BY IoReqsAre DEF Of
    <3> QED
      BY <2>3, <3>1 DEF Of
  <2>5. \A i \in DOMAIN L.pending_accepts[s] : FALSE
    BY <1>1, <2>3 DEF Listens
  <2>6. L.pending_accepts[s] \in Seq(AcceptReqs)
    BY <1>1, FieldsAre
  <2>7. L.pending_accepts[s] = << >>
    <3> DEFINE q == L.pending_accepts[s]
    <3>1. q \in Seq(AcceptReqs) /\ \A i \in DOMAIN q : FALSE
      BY <2>5, <2>6
    <3> HIDE DEF q
    <3>2. q = << >>
      <4>1. Len(q) \in Nat /\ DOMAIN q = 1..Len(q)
        BY <3>1
      <4>2. Len(q) = 0
        <5>1. Len(q) > 0 => 1 \in 1..Len(q)
          BY <4>1
        <5> QED
          BY <3>1, <4>1, <5>1
      <4> QED
        BY <3>1, <4>2
    <3> QED
      BY <3>2 DEF q
  <2> QED
    BY <2>4, <2>7
<1>3. M = DecreaseActiveCount(Clear(L, s, {"LISTENING"}), s)
  BY DEF StopIf
<1>4. PICK G \in SUBSET Flags :
         /\ Becomes(L, M, s, G, L.activecnt[s] - 1, L.reqs_pending[s])
         /\ \A f : f # "ACTIVE" => (f \in G <=> f \in L.flags[s] /\ f \notin {"LISTENING"})
         /\ "ACTIVE" \in G <=> Has(L, s, "ACTIVE") /\ ~(L.activecnt[s] = 1 /\ ~Has(L, s, "CLOSING"))
  BY <1>1, <1>3, StopsBecomes
<1>5. /\ M.flags[s] = G /\ M.activecnt[s] = 0 /\ M.reqs_pending[s] = L.reqs_pending[s]
      /\ M.active_reqs = L.active_reqs /\ M.shutdown_req = L.shutdown_req /\ M.handle_queue = L.handle_queue
      /\ M.pending_accepts = L.pending_accepts /\ M.accept_socket = L.accept_socket
  BY <1>1, <1>4 DEF Becomes
<1>6. Lives(M, s)
  BY <1>1, <1>4, <1>5 DEF Lives, Has
<1>7. Counts(M, R, v, s)
  <2>1. One(Has(M, s, "READING")) = 0 /\ One(Has(M, s, "LISTENING")) = 0 /\ Cardinality(Of(M.active_reqs, s)) = 0
    BY <1>1, <1>4, <1>5 DEF One, Has
  <2>2. ~Has(M, s, "CLOSING") => ~Has(M, s, "ACTIVE")
    BY <1>1, <1>4, <1>5 DEF Has
  <2> QED
    BY <1>1, <1>5, <2>1, <2>2 DEF Counts
<1>8. Listens(M, R, s)
  <2>1. \A i : i \notin DOMAIN << >>
    OBVIOUS
  <2> QED
    BY <1>1, <1>2, <1>4, <1>5, <2>1 DEF Listens, Has
<1> QED
  BY <1>1, <1>4, <1>6, <1>7, <1>8, BecomesKept DEF HandleInv

\* The connection is stored for uv_accept.
LEMMA AcceptIsStored ==
    ASSUME NEW L, LoopOK(L), L.failed = {}, NEW Q \in SUBSET IoReqs, NEW k, k.kind = "none", NEW s \in Servers,
           NEW r \in AcceptReqsOf(s), r \in Q, HandleInv(L, Q, k, s), NEW v, v.handle = s, v.kind = "connection",
           NEW R, R = Q \ {r}, r \in L.accept_socket, NEW M, M = AcceptStored(L, r)
    PROVE  Kept(L, M, s) /\ HandleInv(M, R, v, s)
<1> DEFINE q == L.pending_accepts[s]
           t == <<r>> \o q
<1>1. /\ Lives(L, s) /\ Counts(L, R, v, s) /\ ~Has(L, s, "READING") /\ Listens(L, Q, s)
      /\ Has(L, s, "LISTENING") \/ Has(L, s, "CLOSING")
      /\ s \in Handles /\ s \notin Timers /\ s \notin Conns /\ r.handle = s
      /\ q \in Seq(AcceptReqs) /\ r \in AcceptReqs /\ L \in LoopType
  <2>1. /\ Lives(L, s) /\ Counts(L, R, v, s) /\ ~Has(L, s, "READING")
        /\ Has(L, s, "LISTENING") \/ Has(L, s, "CLOSING")
    BY AcceptTaken
  <2>2. s \in Handles /\ s \notin Timers /\ s \notin Conns /\ r.handle = s /\ r \in AcceptReqs
    BY Kinds DEF AcceptReqsOf
  <2>3. q \in Seq(AcceptReqs)
    BY <2>2, FieldsAre
  <2> QED
    BY <2>1, <2>2, <2>3 DEF HandleInv, LoopOK
<1>2. M = [L EXCEPT !.pending_accepts[s] = t]
  BY <1>1 DEF AcceptStored, LoopType
<1>3. /\ DOMAIN t = 1..(Len(q) + 1) /\ Len(q) \in Nat /\ DOMAIN q = 1..Len(q) /\ t[1] = r
      /\ \A i \in 1..Len(q) : t[i + 1] = q[i] /\ i + 1 \in 1..(Len(q) + 1)
      /\ \A i \in 1..(Len(q) + 1) : i # 1 => t[i] = q[i - 1] /\ i - 1 \in 1..Len(q) /\ (i - 1) + 1 = i
      /\ 1 \in 1..(Len(q) + 1)
  BY <1>1
<1> HIDE DEF q, t
<1>4. /\ M.pending_accepts[s] = t /\ M.flags = L.flags /\ M.activecnt = L.activecnt
      /\ M.reqs_pending = L.reqs_pending /\ M.write_reqs_pending = L.write_reqs_pending
      /\ M.shutdown_req = L.shutdown_req /\ M.handle_queue = L.handle_queue /\ M.active_reqs = L.active_reqs
      /\ \A g \in Handles \ {s} : M.pending_accepts[g] = L.pending_accepts[g]
      /\ M.accept_socket = L.accept_socket
      /\ M.kernel = L.kernel /\ M.iocp = L.iocp /\ M.pending = L.pending /\ M.failed = L.failed
  BY <1>1, <1>2 DEF LoopType
<1>5. Kept(L, M, s)
  BY <1>4 DEF Kept, Alike
<1>6. Lives(M, s) /\ Counts(M, R, v, s)
  BY <1>1, <1>4 DEF Lives, Counts, Has
<1>7. /\ \A i \in DOMAIN q : q[i] \in AcceptReqsOf(s) \ Q /\ q[i] \in L.accept_socket
      /\ \A i, j \in DOMAIN q : q[i] = q[j] => i = j
      /\ Has(L, s, "LISTENING") => \A x \in AcceptReqsOf(s) : x \in Q \/ \E i \in DOMAIN q : q[i] = x
      /\ ~AcceptMayFail => Of(Q, s) \subseteq L.accept_socket
  BY <1>1 DEF Listens, q
<1>8. /\ \A i \in DOMAIN t : t[i] \in AcceptReqsOf(s) \ R /\ t[i] \in L.accept_socket
      /\ \A i, j \in DOMAIN t : t[i] = t[j] => i = j
      /\ Has(L, s, "LISTENING") => \A x \in AcceptReqsOf(s) : x \in R \/ \E i \in DOMAIN t : t[i] = x
      /\ ~AcceptMayFail => Of(R, s) \subseteq L.accept_socket
  <2>1. \A i \in DOMAIN t : t[i] \in AcceptReqsOf(s) \ R /\ t[i] \in L.accept_socket
    BY <1>3, <1>7
  <2>2. \A i \in DOMAIN q : q[i] # r
    BY <1>7
  <2>3. ASSUME NEW i \in DOMAIN t, NEW j \in DOMAIN t, t[i] = t[j]
        PROVE  i = j
    <3>1. CASE i = 1 \/ j = 1
      BY <1>3, <2>2, <2>3, <3>1
    <3>2. CASE i # 1 /\ j # 1
      <4>1. i - 1 = j - 1
        BY <1>3, <1>7, <2>3, <3>2
      <4> QED
        BY <1>3, <3>2, <4>1
    <3> QED
      BY <3>1, <3>2
  <2>4. ASSUME Has(L, s, "LISTENING"), NEW x \in AcceptReqsOf(s), x \notin R
        PROVE  \E i \in DOMAIN t : t[i] = x
    <3>1. CASE x = r
      BY <1>3, <3>1
    <3>2. CASE x # r
      <4>1. PICK i \in DOMAIN q : q[i] = x
        BY <1>7, <2>4, <3>2
      <4>2. t[i + 1] = x /\ i + 1 \in DOMAIN t
        BY <1>3, <4>1
      <4> QED
        BY <4>2
    <3> QED
      BY <3>1, <3>2
  <2>5. ~AcceptMayFail => Of(R, s) \subseteq L.accept_socket
    BY <1>7 DEF Of
  <2> QED
    BY <2>1, <2>3, <2>4, <2>5
<1>9. Listens(M, R, s)
  <2>1. /\ M.pending_accepts[s] = t /\ (Has(M, s, "LISTENING") <=> Has(L, s, "LISTENING"))
        /\ Has(M, s, "LISTENING") \/ Has(M, s, "CLOSING")
        /\ ~Has(M, s, "READING") /\ M.accept_socket = L.accept_socket
    BY <1>1, <1>4 DEF Has
  <2>2. Has(M, s, "LISTENING") =>
            \A x \in AcceptReqsOf(s) : x \in R \/ \E i \in DOMAIN M.pending_accepts[s] : M.pending_accepts[s][i] = x
    BY <1>8, <2>1
  <2>3. \A i \in DOMAIN M.pending_accepts[s] :
           M.pending_accepts[s][i] \in AcceptReqsOf(s) \ R /\ M.pending_accepts[s][i] \in M.accept_socket
    BY <1>8, <2>1
  <2>4. \A i, j \in DOMAIN M.pending_accepts[s] : M.pending_accepts[s][i] = M.pending_accepts[s][j] => i = j
    BY <1>8, <2>1
  <2>5. ~AcceptMayFail => Of(R, s) \subseteq M.accept_socket
    BY <1>8, <2>1
  <2> QED
    BY <2>1, <2>2, <2>3, <2>4, <2>5 DEF Listens
<1> QED
  BY <1>1, <1>5, <1>6, <1>9 DEF HandleInv

\* The connection failed: the request is queued again, if the server listens.
LEMMA AcceptIsRefused ==
    ASSUME NEW L, LoopOK(L), L.failed = {}, NEW W, Placed(L, W), NEW k, k.kind = "none", NEW s \in Servers,
           NEW R, R = Queued(L, W), NEW r \in AcceptReqsOf(s), r \notin R, NEW Q, Q = R \cup {r},
           HandleInv(L, Q, k, s), NEW v, v.handle = s, v.kind = "connection", NEW how \in AcceptAnswers,
           NEW M, M = AcceptRefused(L, r, how)
    PROVE  Queues(L, M, W, R, Queued(M, W), s) /\ HandleInv(M, Queued(M, W), v, s)
<1> DEFINE A == [L EXCEPT !.accept_socket = @ \ {r}]
<1>1. /\ Q \in SUBSET IoReqs /\ R = Q \ {r} /\ r \in Q /\ L \in LoopType /\ r.handle = s
      /\ s \in Handles /\ s \notin Timers /\ s \notin Conns
  BY Kinds, IoReqsAre DEF Queued, LoopOK, AcceptReqsOf
<1>2. /\ Lives(L, s) /\ Counts(L, R, v, s) /\ ~Has(L, s, "READING")
      /\ Has(L, s, "LISTENING") \/ Has(L, s, "CLOSING")
      /\ Listens(L, Q, s)
  <2>1. /\ Lives(L, s) /\ Counts(L, R, v, s) /\ ~Has(L, s, "READING")
        /\ Has(L, s, "LISTENING") \/ Has(L, s, "CLOSING")
    BY <1>1, AcceptTaken
  <2> QED
    BY <2>1 DEF HandleInv
<1>3. /\ A.accept_socket = L.accept_socket \ {r} /\ A.pending_accepts = L.pending_accepts
      /\ A.flags = L.flags /\ A.activecnt = L.activecnt
      /\ A.reqs_pending = L.reqs_pending /\ A.write_reqs_pending = L.write_reqs_pending
      /\ A.shutdown_req = L.shutdown_req /\ A.handle_queue = L.handle_queue /\ A.active_reqs = L.active_reqs
      /\ A.kernel = L.kernel /\ A.iocp = L.iocp /\ A.pending = L.pending /\ A.failed = L.failed
      /\ A.active_handles = L.active_handles /\ A.endgame = L.endgame /\ A \in LoopType
  BY <1>1 DEF LoopType
<1>4. M = IF Has(L, s, "LISTENING") THEN QueueAccept(A, r, how) ELSE A
  BY <1>1 DEF AcceptRefused
<1> HIDE DEF A
<1>5. LoopOK(A)
  BY <1>3, SameOK DEF Same
<1>6. Placed(A, W) /\ Queued(A, W) = R
  BY <1>3, QueuedIs
<1>7. Lives(A, s) /\ Counts(A, R, v, s)
  BY <1>2, <1>3 DEF Lives, Counts, Has
<1>8. \A g \in Handles \ {s} : Alike(L, A, R, R, g)
  <2>1. \A g \in Handles \ {s} : Of(A.accept_socket, g) = Of(L.accept_socket, g)
    BY <1>1, <1>3 DEF Of
  <2> QED
    BY <1>3, <2>1 DEF Alike
<1>9. /\ \A i \in DOMAIN A.pending_accepts[s] : /\ A.pending_accepts[s][i] \in AcceptReqsOf(s) \ Q
                                                /\ A.pending_accepts[s][i] \in A.accept_socket
      /\ \A i, j \in DOMAIN A.pending_accepts[s] : A.pending_accepts[s][i] = A.pending_accepts[s][j] => i = j
      /\ ~AcceptMayFail => Of(R, s) \subseteq A.accept_socket
  BY <1>1, <1>2, <1>3 DEF Listens, Of
<1>10. CASE Has(L, s, "LISTENING")
  <2>1. \A x \in AcceptReqsOf(s) : x \in Q \/ \E i \in DOMAIN A.pending_accepts[s] : A.pending_accepts[s][i] = x
    BY <1>2, <1>3, <1>10 DEF Listens
  <2>2. /\ Has(A, s, "LISTENING") /\ ~Has(A, s, "READING") /\ r \notin A.accept_socket /\ A.failed = {}
        /\ M = QueueAccept(A, r, how)
    BY <1>2, <1>3, <1>4, <1>10 DEF Has
  <2>3. Listening(A, R, Q, s)
    BY <1>9, <2>1, <2>2 DEF Listening
  <2>4. Queues(A, M, W, R, Q, s) /\ HandleInv(M, Q, v, s)
    BY <1>5, <1>6, <1>7, <2>2, <2>3, QueueAcceptKeeps
  <2>5. /\ LoopOK(M) /\ M.failed = {} /\ M.active_reqs = A.active_reqs /\ Placed(M, W) /\ Queued(M, W) = Q
        /\ \A g \in Handles \ {s} : Alike(A, M, R, Q, g)
    BY <2>4 DEF Queues
  <2>6. \A g \in Handles \ {s} : Alike(L, M, R, Q, g)
    BY <1>8, <2>5, AlikeTrans
  <2> QED
    BY <1>3, <2>4, <2>5, <2>6 DEF Queues
<1>11. CASE ~Has(L, s, "LISTENING")
  <2>1. Listens(A, R, s)
    BY <1>1, <1>2, <1>3, <1>9, <1>11 DEF Listens, Has
  <2>2. HandleInv(A, R, v, s) /\ M = A
    BY <1>1, <1>4, <1>7, <1>11, <2>1 DEF HandleInv
  <2> QED
    BY <1>3, <1>5, <1>6, <1>8, <2>2 DEF Queues
<1> QED
  BY <1>10, <1>11

\* uv_process_tcp_accept_req.
LEMMA ProcessAcceptReqC ==
    ASSUME IInv, CInv, ProcessAcceptReq
    PROVE  CInv'
<1> DEFINE r == Head(work).req
           s == r.handle
           Q == Queued(loop, work)
           R == Q \ {r}
           v == Callback("connection", s, r, "ok", "return")
<1>1. /\ NextReq("ACCEPT") /\ request' = request
      /\ \/ /\ r \notin loop.accept_socket /\ Has(loop, s, "LISTENING") /\ loop' = StopIf(loop, s, "LISTENING")
            /\ cb' = Callback("connection", s, r, "error", "return")
         \/ /\ r \notin loop.accept_socket /\ ~Has(loop, s, "LISTENING")
            /\ loop' = DecreasePendingReqCount(loop, s) /\ cb' = NoCallback
         \/ r \in loop.accept_socket /\ loop' = AcceptStored(loop, r) /\ cb' = v
         \/ /\ \E how \in AcceptAnswers : loop' = DecreasePendingReqCount(AcceptRefused(loop, r, how), s)
            /\ cb' = NoCallback
  BY DEF ProcessAcceptReq
<1>2. pc = "reqs" /\ pc' = pc /\ due' = due /\ cb = NoCallback /\ work # << >> /\ work' = Tail(work)
  BY <1>1 DEF NextReq
<1>3. r \in AcceptReqs /\ s \in Servers /\ r \in AcceptReqsOf(s)
  BY <1>1, NextReqIs DEF AcceptReqsOf
<1>4. /\ LoopOK(loop) /\ loop.failed = {} /\ Q \in SUBSET IoReqs /\ loop.active_reqs \in SUBSET ClientReqs
      /\ s \in Handles /\ s \notin Timers /\ s \notin Conns /\ s \in Servers \cup Conns
      /\ HandleInv(loop, Q, cb, s) /\ cb.kind = "none"
      /\ r \in Q /\ Spared
  BY <1>1, <1>2, <1>3, Kinds, InvIs, NoneIs, WorkGives
<1>5. v.handle = s /\ v.kind = "connection" /\ NoCallback.kind = "none"
  BY DEF Callback, NoCallback
<1>6. Placed(loop, work') /\ Queued(loop, work') = R /\ R \in SUBSET IoReqs
  BY <1>1, <1>2, <1>4, InvIs, WorkGives
<1>7. \A g \in Handles \ {s} : Of(R, g) = Of(Q, g)
  BY <1>4, QueueShrinks
<1>8. r \notin R /\ Q = R \cup {r} /\ R = Q \ {r}
  BY <1>4
<1> HIDE DEF Q, R, s, r, v
<1>9. /\ loop'.failed = {} /\ loop'.active_reqs = loop.active_reqs /\ Placed(loop', work')
      /\ \A g \in Handles \ {s} : Alike(loop, loop', R, Queued(loop', work'), g)
      /\ HandleInv(loop', Queued(loop', work'), cb', s)
      /\ cb'.kind = "none" \/ (cb'.handle = s /\ cb'.kind = "connection")
  <2>1. CASE /\ r \notin loop.accept_socket /\ Has(loop, s, "LISTENING") /\ loop' = StopIf(loop, s, "LISTENING")
             /\ cb' = Callback("connection", s, r, "error", "return")
    <3>1. cb'.handle = s /\ cb'.kind = "connection"
      BY <2>1 DEF Callback
    <3>2. Kept(loop, loop', s) /\ HandleInv(loop', R, cb', s)
      BY <1>3, <1>4, <1>8, <2>1, <3>1, ListenFails
    <3>3. Queued(loop', work') = R /\ Placed(loop', work')
      BY <1>6, <3>2, QueuedIs DEF Kept
    <3> QED
      BY <1>4, <3>1, <3>2, <3>3 DEF Kept
  <2>2. CASE /\ r \notin loop.accept_socket /\ ~Has(loop, s, "LISTENING")
             /\ loop' = DecreasePendingReqCount(loop, s) /\ cb' = NoCallback
    <3>1. HandleInv(loop, R, v, s)
      <4>1. Lives(loop, s) /\ Counts(loop, R, v, s)
        BY <1>3, <1>4, <1>5, <1>8, AcceptTaken
      <4>2. Listens(loop, R, s)
        <5>1. Listens(loop, Q, s)
          BY <1>3, <1>4 DEF HandleInv
        <5> QED
          BY <1>8, <2>2, <5>1 DEF Listens, Of
      <4> QED
        BY <1>4, <4>1, <4>2 DEF HandleInv
    <3>2. /\ \E G : Becomes(loop, loop', s, G, loop.activecnt[s], loop.reqs_pending[s] - 1)
          /\ HandleInv(loop', R, NoCallback, s)
      BY <1>4, <1>5, <1>6, <2>2, <3>1, RequestDone
    <3>3. Kept(loop, loop', s)
      BY <3>2, BecomesKept
    <3>4. Queued(loop', work') = R /\ Placed(loop', work')
      BY <1>6, <3>3, QueuedIs DEF Kept
    <3> QED
      BY <1>4, <1>5, <2>2, <3>2, <3>3, <3>4 DEF Kept
  <2>3. CASE r \in loop.accept_socket /\ loop' = AcceptStored(loop, r) /\ cb' = v
    <3>1. Kept(loop, loop', s) /\ HandleInv(loop', R, cb', s)
      BY <1>3, <1>4, <1>5, <1>8, <2>3, AcceptIsStored
    <3>2. Queued(loop', work') = R /\ Placed(loop', work')
      BY <1>6, <3>1, QueuedIs DEF Kept
    <3> QED
      BY <1>4, <1>5, <2>3, <3>1, <3>2 DEF Kept
  <2>4. ASSUME NEW how \in AcceptAnswers, loop' = DecreasePendingReqCount(AcceptRefused(loop, r, how), s), cb' = NoCallback
        PROVE  /\ loop'.failed = {} /\ loop'.active_reqs = loop.active_reqs /\ Placed(loop', work')
               /\ \A g \in Handles \ {s} : Alike(loop, loop', R, Queued(loop', work'), g)
               /\ HandleInv(loop', Queued(loop', work'), cb', s)
               /\ cb'.kind = "none" \/ (cb'.handle = s /\ cb'.kind = "connection")
    <3> DEFINE A == AcceptRefused(loop, r, how)
               S == Queued(A, work')
               W == work'
    <3>1. A = AcceptRefused(loop, r, how) /\ R = Queued(loop, W) /\ Placed(loop, W)
      BY <1>6
    <3> HIDE DEF A
    <3>0. Queues(loop, A, W, R, Queued(A, W), s) /\ HandleInv(A, Queued(A, W), v, s)
      BY <1>3, <1>4, <1>5, <1>8, <3>1, AcceptIsRefused
    <3>2. /\ LoopOK(A) /\ A.failed = {} /\ A.active_reqs = loop.active_reqs /\ Placed(A, W)
          /\ \A g \in Handles \ {s} : Alike(loop, A, R, Queued(A, W), g)
          /\ HandleInv(A, Queued(A, W), v, s)
      BY <3>0 DEF Queues
    <3>3. S \in SUBSET IoReqs
      BY DEF Queued
    <3> HIDE DEF S
    <3>4. HandleInv(A, S, v, s)
      BY <3>2 DEF S
    <3>5. /\ \E G : Becomes(A, loop', s, G, A.activecnt[s], A.reqs_pending[s] - 1)
          /\ HandleInv(loop', S, NoCallback, s)
      BY <1>4, <1>5, <2>4, <3>1, <3>2, <3>3, <3>4, RequestDone
    <3>6. Kept(A, loop', s)
      BY <3>5, BecomesKept
    <3>7. Queued(loop', work') = S /\ Placed(loop', work')
      BY <3>2, <3>6, QueuedIs DEF Kept, S
    <3>8. \A g \in Handles \ {s} : Alike(loop, loop', R, S, g)
      BY <3>2, <3>6 DEF Kept, Alike, S
    <3>9. loop'.failed = {} /\ loop'.active_reqs = loop.active_reqs
      BY <3>2, <3>6 DEF Kept
    <3> QED
      BY <1>5, <2>4, <3>5, <3>7, <3>8, <3>9
  <2> QED
    BY <1>1, <2>1, <2>2, <2>3, <2>4
<1>10. \A g \in Handles \ {s} : Alike(loop, loop', Queued(loop, work), Queued(loop', work'), g)
  BY <1>7, <1>9 DEF Alike, Q
<1>11. Stages' /\ About(cb, s) /\ About(cb', s)
  BY <1>2, <1>4, <1>9 DEF CInv, Stages, About
<1>12. loop'.active_reqs = {x \in ClientReqs : request'[x] = "issued"}
  BY <1>1, <1>9 DEF CInv
<1>13. s \notin due' /\ due' \subseteq due \cup {s}
  BY <1>2, <1>4 DEF CInv, ActiveTimers
<1> QED
  BY <1>4, <1>9, <1>10, <1>11, <1>12, <1>13, StepC

-----------------------------------------------------------------------------
\* Endgames.

LEMMA PopEndgameBecomes ==
    ASSUME NEW L, LoopOK(L), L.endgame # << >>, NEW h, h = Head(L.endgame)
    PROVE  /\ h \in Handles /\ Has(L, h, "ENDGAME_QUEUED")
           /\ Becomes(L, PopEndgame(L), h, L.flags[h] \ {"ENDGAME_QUEUED"}, L.activecnt[h], L.reqs_pending[h])
<1> DEFINE q == L.endgame
<1>1. q \in Seq(Handles) /\ q # << >>
  BY DEF LoopOK, LoopType
<1> HIDE DEF q
<1>2. Head(q) = q[1] /\ 1 \in DOMAIN q /\ q[1] \in Handles
  BY <1>1
<1>3. h \in Handles /\ Has(L, h, "ENDGAME_QUEUED")
  BY <1>2 DEF LoopOK, Threaded, q
<1>4. LoopOK(PopEndgame(L))
  BY PopEndgameOK
<1> QED
  BY <1>3, <1>4 DEF LoopOK, LoopType, Becomes, PopEndgame, Clear

\* A shutdown that is due is given back to its client.
LEMMA ShutdownStarts ==
    ASSUME NEW K, LoopOK(K), K.failed = {}, K.active_reqs \in SUBSET ClientReqs, NEW Q \in SUBSET IoReqs,
           NEW k, k.kind = "none", NEW h \in Conns, HandleInv(K, Q, k, h), NEW L,
           Becomes(K, L, h, K.flags[h] \ {"ENDGAME_QUEUED"}, K.activecnt[h], K.reqs_pending[h]),
           ShutdownIsDue(L, h), NEW M, M = UnregisterHandleReq(L, h, ShutdownReq(h)),
           NEW j, j.handle = h, j.kind = "shutdown"
    PROVE  /\ M.failed = {} /\ M.active_reqs = K.active_reqs \ {ShutdownReq(h)}
           /\ M.kernel = K.kernel /\ M.iocp = K.iocp /\ M.pending = K.pending
           /\ \A g \in Handles \ {h} : Alike(K, M, Q, Q, g)
           /\ HandleInv(M, Q, j, h)
<1> DEFINE r == ShutdownReq(h)
           n == Cardinality(Of(K.active_reqs, h))
           F == K.flags[h] \ {"ENDGAME_QUEUED"}
<1>1. /\ h \in Handles /\ h \notin Servers /\ h \notin Timers /\ r \in ClientReqs /\ r.handle = h
      /\ Lives(K, h) /\ Counts(K, Q, k, h) /\ Reads(K, Q, k, h) /\ Shuts(K, Q, k, h)
  BY Kinds, IoReqsAre DEF HandleInv
<1>2. /\ LoopOK(L) /\ L.failed = {} /\ L.flags[h] = F /\ L.activecnt[h] = K.activecnt[h]
      /\ L.reqs_pending[h] = K.reqs_pending[h] /\ L.active_reqs = K.active_reqs
      /\ L.shutdown_req = K.shutdown_req /\ L.write_reqs_pending = K.write_reqs_pending
      /\ L.handle_queue = K.handle_queue
  BY DEF Becomes
<1>3. h \in K.shutdown_req /\ K.write_reqs_pending[h] = 0 /\ r \in K.active_reqs
  BY <1>1, <1>2 DEF ShutdownIsDue, Shuts, InShutdown
<1>4. n \in Nat /\ n > 0 /\ Cardinality(Of(K.active_reqs \ {r}, h)) = n - 1
      /\ \A g : g # h => Of(K.active_reqs \ {r}, g) = Of(K.active_reqs, g)
  <2> DEFINE A == K.active_reqs
             S == A \ {r}
  <2>1. A \in SUBSET ClientReqs /\ r \in A /\ S = A \ {r} /\ r.handle = h
    BY <1>1, <1>3
  <2> HIDE DEF A, S, r
  <2>2. /\ Cardinality(Of(A, r.handle)) \in Nat
        /\ Cardinality(Of(S, r.handle)) = Cardinality(Of(A, r.handle)) - 1
        /\ Cardinality(Of(A, r.handle)) > 0
        /\ \A g : g # r.handle => Of(S, g) = Of(A, g)
    BY <2>1, ReqsShrink
  <2> QED
    BY <2>1, <2>2 DEF A
<1> HIDE DEF n, r
<1>5. /\ K.activecnt[h] = One(Has(K, h, "READING")) + n /\ K.activecnt[h] > 0
      /\ One(Has(K, h, "READING")) \in {0, 1} /\ K.activecnt[h] \in Int
  <2>1. One(Has(K, h, "READING")) \in {0, 1} /\ One(Has(K, h, "LISTENING")) = 0
    BY <1>1 DEF Shuts, One
  <2>2. K.activecnt[h] = One(Has(K, h, "READING")) + n
    BY <1>1, <1>4, <2>1 DEF Counts, n
  <2> QED
    BY <1>4, <2>1, <2>2
<1>6. /\ M.activecnt[h] = L.activecnt[h] - 1 /\ M.reqs_pending[h] = L.reqs_pending[h]
      /\ \A f : f # "ACTIVE" => (f \in M.flags[h] <=> f \in L.flags[h])
      /\ "ACTIVE" \in M.flags[h] <=> Has(L, h, "ACTIVE") /\ ~(L.activecnt[h] = 1 /\ ~Has(L, h, "CLOSING"))
      /\ \A g \in Handles \ {h} : /\ M.flags[g] = L.flags[g]
                                  /\ M.activecnt[g] = L.activecnt[g]
                                  /\ M.reqs_pending[g] = L.reqs_pending[g]
      /\ M.write_reqs_pending = L.write_reqs_pending /\ M.shutdown_req = L.shutdown_req
      /\ M.handle_queue = L.handle_queue /\ M.active_reqs = L.active_reqs \ {r}
      /\ M.pending = L.pending /\ M.pending_accepts = L.pending_accepts
      /\ M.accept_socket = L.accept_socket /\ M.kernel = L.kernel /\ M.iocp = L.iocp
      /\ M.failed = L.failed
  BY <1>1, <1>2, <1>3, <1>5, UnregisterIs DEF r
<1>7. \A g \in Handles \ {h} : Alike(K, M, Q, Q, g)
  <2> DEFINE S == K.active_reqs \ {r}
  <2>1. M.active_reqs = S
    BY <1>2, <1>6
  <2>2. \A g \in Handles \ {h} : Of(S, g) = Of(K.active_reqs, g)
    BY <1>4
  <2> HIDE DEF S
  <2>3. \A g \in Handles \ {h} : Alike(K, L, Q, Q, g)
    BY BecomesApart
  <2>4. SUFFICES ASSUME NEW g \in Handles \ {h}
                 PROVE  Alike(K, M, Q, Q, g)
    OBVIOUS
  <2>5. M.flags[g] = L.flags[g] /\ M.activecnt[g] = L.activecnt[g] /\ M.reqs_pending[g] = L.reqs_pending[g]
    BY <1>6
  <2>6. Of(M.active_reqs, g) = Of(K.active_reqs, g)
    BY <2>1, <2>2
  <2>7. Alike(K, L, Q, Q, g)
    BY <2>3
  <2> QED
    BY <1>6, <2>5, <2>6, <2>7 DEF Alike
<1>8. /\ \A f : f \notin {"ACTIVE", "ENDGAME_QUEUED"} => (f \in M.flags[h] <=> f \in K.flags[h])
      /\ "ENDGAME_QUEUED" \notin M.flags[h]
      /\ "ACTIVE" \in M.flags[h] <=> "ACTIVE" \in K.flags[h] /\ ~(K.activecnt[h] = 1 /\ "CLOSING" \notin K.flags[h])
      /\ M.activecnt[h] = K.activecnt[h] - 1 /\ M.reqs_pending[h] = K.reqs_pending[h]
      /\ M.write_reqs_pending = K.write_reqs_pending /\ M.shutdown_req = K.shutdown_req
      /\ M.handle_queue = K.handle_queue /\ M.active_reqs = K.active_reqs \ {r}
  BY <1>2, <1>6 DEF Has
<1>9. K.reqs_pending[h] > 0 /\ ~Has(K, h, "CLOSED") /\ h \in K.handle_queue
  <2>1. Cardinality(Of(Q, h)) \in Nat
    BY <1>1, ReqsAreFinite
  <2>2. One(h \in K.shutdown_req) = 1 /\ One(Processing(k, h)) = 0
    BY <1>3 DEF One, Processing
  <2>3. K.reqs_pending[h] > 0
    BY <1>1, <2>1, <2>2 DEF Counts
  <2> QED
    BY <1>1, <2>3 DEF Lives, Has
<1>10. Lives(M, h)
  BY <1>1, <1>8, <1>9 DEF Lives, Has
<1>11. Counts(M, Q, j, h)
  <2>1. M.activecnt[h] = One(Has(M, h, "READING")) + One(Has(M, h, "LISTENING")) + Cardinality(Of(M.active_reqs, h))
    <3>1. One(Has(M, h, "READING")) = One(Has(K, h, "READING")) /\ One(Has(M, h, "LISTENING")) = 0
      BY <1>1, <1>8 DEF Shuts, One, Has
    <3> QED
      BY <1>4, <1>5, <1>8, <3>1
  <2>2. ~Has(M, h, "CLOSING") => (Has(M, h, "ACTIVE") <=> M.activecnt[h] > 0)
    BY <1>1, <1>5, <1>8 DEF Counts, Has
  <2>3. M.reqs_pending[h] = Cardinality(Of(Q, h)) + One(Processing(j, h)) + One(h \in M.shutdown_req)
    BY <1>1, <1>8 DEF Counts, Processing, One
  <2> QED
    BY <2>1, <2>2, <2>3 DEF Counts
<1>12. Reads(M, Q, j, h)
  BY <1>1, <1>8 DEF Reads, Has, InReadLoop
<1>13. Shuts(M, Q, j, h)
  <2>1. r \notin WriteReqs
    BY DEF r, ShutdownReq, WriteReqs
  <2>2. /\ ShutdownReq(h) \notin M.active_reqs
        /\ \A x \in WriteReqs : x.handle = h => (x \in M.active_reqs <=> x \in Q)
    BY <1>1, <1>8, <2>1 DEF Shuts, r
  <2>3. InShutdown(j, h) /\ One(j.handle = h /\ j.kind = "write") = One(k.handle = h /\ k.kind = "write")
    BY DEF InShutdown, One
  <2> QED
    BY <1>1, <1>3, <1>8, <2>2, <2>3 DEF Shuts, Has
<1> QED
  BY <1>1, <1>2, <1>6, <1>7, <1>8, <1>10, <1>11, <1>12, <1>13 DEF HandleInv, Becomes, r

\* The endgame of a handle that is not due for one, or closes.
LEMMA EndgameEnds ==
    ASSUME NEW K, LoopOK(K), K.failed = {}, NEW Q \in SUBSET IoReqs,
           NEW k, k.kind = "none", NEW h \in Handles, HandleInv(K, Q, k, h), Has(K, h, "ENDGAME_QUEUED"), NEW L,
           Becomes(K, L, h, K.flags[h] \ {"ENDGAME_QUEUED"}, K.activecnt[h], K.reqs_pending[h]),
           ~(h \in Conns /\ ShutdownIsDue(L, h)), NEW M, M = IF CloseIsDue(L, h) THEN CloseEnd(L, h) ELSE L,
           NEW j, j.kind \in {"none", "close"}
    PROVE  Kept(K, M, h) /\ HandleInv(M, Q, j, h)
<1> DEFINE F == K.flags[h] \ {"ENDGAME_QUEUED"}
<1>1. /\ LoopOK(L) /\ L.failed = {} /\ L.flags[h] = F /\ L.activecnt[h] = K.activecnt[h]
      /\ L.reqs_pending[h] = K.reqs_pending[h] /\ L.active_reqs = K.active_reqs
      /\ L.shutdown_req = K.shutdown_req /\ L.write_reqs_pending = K.write_reqs_pending
      /\ L.handle_queue = K.handle_queue /\ L.pending_accepts = K.pending_accepts /\ L.accept_socket = K.accept_socket
      /\ Kept(K, L, h)
  BY BecomesKept DEF Becomes
<1>2. Lives(K, h) /\ ~Has(K, h, "CLOSED") /\ K.reqs_pending[h] \in Int
  BY FieldsAre DEF HandleInv, Lives
<1>3. /\ h \in Servers \cup Conns => Counts(K, Q, k, h) /\ K.reqs_pending[h] >= 0
      /\ h \in Servers => Listens(K, Q, h)
      /\ h \in Conns => Reads(K, Q, k, h) /\ Shuts(K, Q, k, h)
      /\ h \in Timers => /\ K.reqs_pending[h] = 0
                         /\ K.flags[h] \cap {"LISTENING", "READING", "READABLE", "WRITABLE"} = {}
  <2>1. ASSUME h \in Servers \cup Conns
        PROVE  Counts(K, Q, k, h) /\ K.reqs_pending[h] >= 0
    <3>1. Counts(K, Q, k, h)
      BY <2>1 DEF HandleInv
    <3>2. Cardinality(Of(Q, h)) \in Nat /\ One(Processing(k, h)) \in {0, 1} /\ One(h \in K.shutdown_req) \in {0, 1}
      BY <2>1, ReqsAreFinite DEF One
    <3> QED
      BY <3>1, <3>2 DEF Counts
  <2> QED
    BY <2>1 DEF HandleInv
<1>4. h \in Conns => ~(h \in K.shutdown_req /\ K.write_reqs_pending[h] = 0)
  BY <1>1, <1>3 DEF ShutdownIsDue, Shuts, Has
<1>5. PICK C \in {{}, {"CLOSED"}} :
         /\ C = {"CLOSED"} <=> CloseIsDue(L, h)
         /\ M.flags[h] = F \cup C /\ M.activecnt[h] = K.activecnt[h] /\ M.reqs_pending[h] = K.reqs_pending[h]
         /\ M.active_reqs = K.active_reqs /\ M.shutdown_req = K.shutdown_req
         /\ M.write_reqs_pending = K.write_reqs_pending /\ (h \in M.handle_queue <=> h \in K.handle_queue /\ C = {})
         /\ M.pending_accepts = K.pending_accepts /\ M.accept_socket = K.accept_socket
         /\ Kept(L, M, h)
  <2>1. CASE CloseIsDue(L, h)
    <3> DEFINE N == [L EXCEPT !.handle_queue = @ \ {h}, !.active_handles = @ - 1, !.flags[h] = @ \cup {"CLOSED"}]
    <3>1. ~Has(L, h, "CLOSED") /\ L \in LoopType
      BY <1>1, <1>2 DEF Has, LoopOK
    <3>2. M = N
      BY <2>1, <3>1 DEF CloseEnd, HandleClose, Check, SetFlags, ActiveHandleRm, LoopType
    <3>3. /\ N.flags[h] = L.flags[h] \cup {"CLOSED"} /\ (\A g \in Handles \ {h} : N.flags[g] = L.flags[g])
          /\ N.activecnt = L.activecnt /\ N.reqs_pending = L.reqs_pending
          /\ N.active_reqs = L.active_reqs /\ N.shutdown_req = L.shutdown_req
          /\ N.write_reqs_pending = L.write_reqs_pending /\ N.handle_queue = L.handle_queue \ {h}
          /\ N.pending_accepts = L.pending_accepts /\ N.accept_socket = L.accept_socket
          /\ N.kernel = L.kernel /\ N.iocp = L.iocp /\ N.pending = L.pending /\ N.failed = L.failed
      BY <3>1 DEF LoopType
    <3> HIDE DEF N, F
    <3>4. Kept(L, N, h)
      BY <3>3 DEF Kept, Alike
    <3> WITNESS {"CLOSED"} \in {{}, {"CLOSED"}}
    <3> QED
      BY <1>1, <2>1, <3>2, <3>3, <3>4
  <2>2. CASE ~CloseIsDue(L, h)
    <3>1. M = L /\ Kept(L, L, h)
      BY <2>2 DEF Kept, Alike
    <3> HIDE DEF F
    <3> WITNESS {} \in {{}, {"CLOSED"}}
    <3> QED
      BY <1>1, <2>2, <3>1
  <2> QED
    BY <2>1, <2>2
<1>6. /\ \A f : f \notin {"ENDGAME_QUEUED", "CLOSED"} => (f \in M.flags[h] <=> f \in K.flags[h])
      /\ "ENDGAME_QUEUED" \notin M.flags[h]
      /\ "CLOSED" \in M.flags[h] <=> C = {"CLOSED"}
  BY <1>2, <1>5 DEF Has
<1>7. CloseIsDue(L, h) <=> Has(K, h, "CLOSING") /\ (h \in Timers \/ K.reqs_pending[h] = 0)
  BY <1>1 DEF CloseIsDue, Has
<1> HIDE DEF F
<1>8. Lives(M, h)
  <2>1. CASE C = {"CLOSED"}
    <3>1. Has(K, h, "CLOSING") /\ K.reqs_pending[h] = 0
      BY <1>3, <1>5, <1>7, <2>1
    <3> QED
      BY <1>2, <1>5, <1>6, <2>1, <3>1 DEF Lives, Has
  <2>2. CASE C = {}
    <3>1. {} # {"CLOSED"}
      OBVIOUS
    <3>2. Has(K, h, "CLOSING") => K.reqs_pending[h] > 0
      BY <1>2, <1>3, <1>5, <1>7, <2>2, <3>1 DEF Handles
    <3> QED
      BY <1>2, <1>5, <1>6, <2>2, <3>1, <3>2 DEF Lives, Has
  <2> QED
    BY <2>1, <2>2
<1>9. h \in Servers \cup Conns => Counts(M, Q, j, h)
  BY <1>3, <1>5, <1>6 DEF Counts, Has, Processing, One
<1>10. h \in Servers => Listens(M, Q, h)
  BY <1>3, <1>5, <1>6 DEF Listens, Has
<1>11. h \in Conns => Reads(M, Q, j, h)
  BY <1>3, <1>5, <1>6 DEF Reads, Has, InReadLoop
<1>12. h \in Conns => Shuts(M, Q, j, h)
  BY <1>3, <1>4, <1>5, <1>6 DEF Shuts, Has, InShutdown, One
<1>13. h \in Timers => /\ M.reqs_pending[h] = 0
                       /\ M.flags[h] \cap {"LISTENING", "READING", "READABLE", "WRITABLE"} = {}
  BY <1>3, <1>5, <1>6
<1>14. Kept(K, M, h)
  BY <1>1, <1>5, KeptTrans
<1> QED
  BY <1>8, <1>9, <1>10, <1>11, <1>12, <1>13, <1>14 DEF HandleInv

LEMMA ProcessEndgameC ==
    ASSUME IInv, CInv, ProcessEndgame
    PROVE  CInv'
<1> DEFINE h == Head(loop.endgame)
           L == PopEndgame(loop)
           Q == Queued(loop, work)
           r == ShutdownReq(h)
<1>1. /\ pc = "endgames" /\ cb = NoCallback /\ loop.endgame # << >>
      /\ pc' = pc /\ due' = due /\ work' = work
      /\ \/ /\ h \in Conns /\ ShutdownIsDue(L, h) /\ loop' = UnregisterHandleReq(L, h, r)
            /\ request' = [request EXCEPT ![r] = "called"]
            /\ cb' = Callback("shutdown", h, r, IF Has(L, h, "CLOSING") THEN "error" ELSE "ok", "return")
         \/ /\ ~(h \in Conns /\ ShutdownIsDue(L, h)) /\ loop' = IF CloseIsDue(L, h) THEN CloseEnd(L, h) ELSE L
            /\ request' = request
            /\ cb' = Callback("close", h, NoReq, "ok", "return") \/ cb' = cb
  BY DEF ProcessEndgame
<1>2. /\ LoopOK(loop) /\ loop.failed = {} /\ Q \in SUBSET IoReqs /\ loop.active_reqs \in SUBSET ClientReqs
      /\ cb.kind = "none" /\ Placed(loop, work)
  BY <1>1, InvIs, NoneIs
<1>3. /\ h \in Handles /\ Has(loop, h, "ENDGAME_QUEUED")
      /\ Becomes(loop, L, h, loop.flags[h] \ {"ENDGAME_QUEUED"}, loop.activecnt[h], loop.reqs_pending[h])
  BY <1>1, <1>2, PopEndgameBecomes
<1>4. HandleInv(loop, Q, cb, h)
  BY <1>3, InvIs
<1> HIDE DEF h, L, Q
<1>5. CASE /\ h \in Conns /\ ShutdownIsDue(L, h) /\ loop' = UnregisterHandleReq(L, h, r)
           /\ request' = [request EXCEPT ![r] = "called"]
           /\ cb' = Callback("shutdown", h, r, IF Has(L, h, "CLOSING") THEN "error" ELSE "ok", "return")
  <2>1. cb'.handle = h /\ cb'.kind = "shutdown"
    BY <1>5 DEF Callback
  <2>2. /\ loop'.failed = {} /\ loop'.active_reqs = loop.active_reqs \ {ShutdownReq(h)}
        /\ loop'.kernel = loop.kernel /\ loop'.iocp = loop.iocp /\ loop'.pending = loop.pending
        /\ \A g \in Handles \ {h} : Alike(loop, loop', Q, Q, g)
        /\ HandleInv(loop', Q, cb', h)
    <3> DEFINE K == loop
               M == loop'
               k == cb
               j == cb'
    <3>1. /\ LoopOK(K) /\ K.failed = {} /\ K.active_reqs \in SUBSET ClientReqs /\ Q \in SUBSET IoReqs
          /\ k.kind = "none" /\ h \in Conns /\ HandleInv(K, Q, k, h)
          /\ Becomes(K, L, h, K.flags[h] \ {"ENDGAME_QUEUED"}, K.activecnt[h], K.reqs_pending[h])
          /\ ShutdownIsDue(L, h) /\ M = UnregisterHandleReq(L, h, ShutdownReq(h))
          /\ j.handle = h /\ j.kind = "shutdown"
      BY <1>2, <1>3, <1>4, <1>5, <2>1
    <3> HIDE DEF K, M, k, j, r
    <3>2. /\ M.failed = {} /\ M.active_reqs = K.active_reqs \ {ShutdownReq(h)}
          /\ M.kernel = K.kernel /\ M.iocp = K.iocp /\ M.pending = K.pending
          /\ \A g \in Handles \ {h} : Alike(K, M, Q, Q, g)
          /\ HandleInv(M, Q, j, h)
      BY <3>1, ShutdownStarts
    <3> QED
      BY <3>2 DEF K, M, k, j
  <2>3. Queued(loop', work') = Q /\ Placed(loop', work')
    BY <1>1, <1>2, <2>2, QueuedIs DEF Q
  <2>4. Stages' /\ About(cb, h) /\ About(cb', h)
    BY <1>1, <1>2, <2>1 DEF CInv, Stages, About
  <2>5. loop'.active_reqs = {x \in ClientReqs : request'[x] = "issued"}
    <3>1. \A x \in ClientReqs : request'[x] = IF x = r THEN "called" ELSE request[x]
      BY <1>5 DEF IInv, TypeOK
    <3> QED
      BY <2>2, <3>1 DEF CInv
  <2>6. h \notin due' /\ due' \subseteq due \cup {h}
    BY <1>1, <1>5, Kinds DEF CInv, ActiveTimers
  <2> HIDE DEF r
  <2> QED
    BY <1>3, <2>2, <2>3, <2>4, <2>5, <2>6, StepC DEF Q
<1>6. CASE /\ ~(h \in Conns /\ ShutdownIsDue(L, h)) /\ loop' = IF CloseIsDue(L, h) THEN CloseEnd(L, h) ELSE L
           /\ request' = request
           /\ cb' = Callback("close", h, NoReq, "ok", "return") \/ cb' = cb
  <2>1. cb'.kind \in {"none", "close"} /\ (cb'.kind = "close" => cb'.handle = h)
    BY <1>2, <1>6 DEF Callback
  <2>2. Kept(loop, loop', h) /\ HandleInv(loop', Q, cb', h)
    BY <1>2, <1>3, <1>4, <1>6, <2>1, EndgameEnds
  <2>3. Stages' /\ About(cb, h) /\ About(cb', h)
    BY <1>1, <1>2, <2>1 DEF CInv, Stages, About
  <2>4. h \in due' => h \in Timers /\ Has(loop', h, "ACTIVE")
    <3>1. ASSUME h \in due'
          PROVE  h \in Timers /\ Has(loop, h, "ACTIVE") /\ Has(loop', h, "ACTIVE")
      <4>1. h \in Timers /\ Has(loop, h, "ACTIVE")
        BY <1>1, <3>1 DEF CInv, ActiveTimers
      <4>2. ~Has(L, h, "CLOSING")
        BY <1>2, <1>3, <4>1, FieldsAre DEF Becomes, Has
      <4>3. loop' = L
        BY <1>6, <4>2 DEF CloseIsDue
      <4> QED
        BY <1>3, <4>1, <4>3 DEF Becomes, Has
    <3> QED
      BY <3>1
  <2>5. due' \subseteq due \cup {h}
    BY <1>1
  <2> QED
    BY <1>1, <1>3, <1>6, <2>2, <2>3, <2>4, <2>5, KeptC DEF Q
<1> QED
  BY <1>1, <1>5, <1>6

-----------------------------------------------------------------------------
\* The calls about streams.

LEMMA ListenStarts ==
    ASSUME NEW L, LoopOK(L), L.failed = {}, NEW W, Placed(L, W), NEW Q, Q = Queued(L, W), NEW k, NEW s \in Servers,
           HandleInv(L, Q, k, s), s \in L.handle_queue, ~Has(L, s, "CLOSING"), ~Has(L, s, "LISTENING"),
           AcceptReqsOf(s) \cap L.accept_socket = {}, NEW how \in [AcceptReqsOf(s) -> AcceptAnswers],
           NEW soon \in InOrder({r \in AcceptReqsOf(s) : how[r] # "queued"}),
           NEW M, M = TcpListen(L, s, how, soon), NEW R, R = Q \cup AcceptReqsOf(s)
    PROVE  Queues(L, M, W, Q, R, s) /\ HandleInv(M, R, k, s)
<1> DEFINE N == AcceptReqsOf(s)
           A == IncreaseActiveCount(SetFlags(L, s, {"LISTENING"}), s)
<1>1. /\ s \in Handles /\ s \notin Conns /\ s \notin Timers /\ {"LISTENING"} \in SUBSET OtherFlags
      /\ N \in SUBSET AcceptReqsOf(s) /\ N \in SUBSET AcceptReqs /\ IsFiniteSet(N) /\ Q \in SUBSET IoReqs
  BY Kinds, AcceptReqsOfIsFinite DEF AcceptReqsOf, Queued, OtherFlags, Flags
<1>2. Lives(L, s) /\ Counts(L, Q, k, s) /\ Listens(L, Q, s)
  BY DEF HandleInv
<1>3. L.pending_accepts[s] = << >> /\ Of(Q, s) = {} /\ N \cap Q = {}
  <2>1. L.pending_accepts[s] = << >> /\ Of(Q, s) = {}
    BY <1>2 DEF Listens
  <2> QED
    BY <2>1 DEF Of, AcceptReqsOf
<1>4. L.activecnt[s] = 0 /\ Cardinality(Of(L.active_reqs, s)) = 0 /\ ~Has(L, s, "READING")
  BY <1>2, ServerActivity DEF Listens, One
<1>5. PICK G \in SUBSET Flags :
         /\ Becomes(L, A, s, G, L.activecnt[s] + 1, L.reqs_pending[s])
         /\ \A f : f # "ACTIVE" => (f \in G <=> f \in L.flags[s] \/ f \in {"LISTENING"})
         /\ "ACTIVE" \in G <=> Has(L, s, "ACTIVE") \/ L.activecnt[s] = 0
  BY <1>1, <1>4, StartsBecomes
<1>6. M = QueueAccepts(A, s, how, soon)
  BY DEF TcpListen
<1> HIDE DEF A, N
<1>7. /\ LoopOK(A) /\ A.failed = {} /\ A.flags[s] = G /\ A.activecnt[s] = 1 /\ A.reqs_pending[s] = L.reqs_pending[s]
      /\ A.active_reqs = L.active_reqs /\ A.shutdown_req = L.shutdown_req /\ A.handle_queue = L.handle_queue
      /\ A.pending_accepts = L.pending_accepts /\ A.accept_socket = L.accept_socket
      /\ A.kernel = L.kernel /\ A.iocp = L.iocp /\ A.pending = L.pending
  BY <1>4, <1>5 DEF Becomes
<1>8. Placed(A, W) /\ Queued(A, W) = Q
  BY <1>7, QueuedIs
<1>9. Lives(A, s)
  BY <1>2, <1>5, <1>7 DEF Lives, Has
<1>10. Counts(A, Q, k, s)
  <2>1. One(Has(A, s, "READING")) = 0 /\ One(Has(A, s, "LISTENING")) = 1
    BY <1>4, <1>5, <1>7 DEF One, Has
  <2>2. A.activecnt[s] = One(Has(A, s, "READING")) + One(Has(A, s, "LISTENING")) + Cardinality(Of(A.active_reqs, s))
    BY <1>4, <1>7, <2>1
  <2>3. Has(A, s, "ACTIVE")
    BY <1>4, <1>5, <1>7 DEF Has
  <2> QED
    BY <1>2, <1>7, <2>2, <2>3 DEF Counts
<1>11. Listening(A, Q, R, s)
  <2>1. DOMAIN << >> = {}
    OBVIOUS
  <2>2. Has(A, s, "LISTENING") /\ ~Has(A, s, "READING")
    BY <1>4, <1>5, <1>7 DEF Has
  <2> QED
    BY <1>3, <1>7, <2>1, <2>2 DEF Listening, N
<1>12. Soon(soon, N, how)
  <2> DEFINE R1 == {r \in N : how[r] # "queued"}
  <2>1. R1 \in SUBSET AcceptReqs /\ IsFiniteSet(R1) /\ soon \in InOrder(R1)
    BY <1>1, FS_Subset DEF N
  <2>2. R1 \subseteq N /\ \A r : r \in R1 <=> r \in N /\ how[r] # "queued"
    OBVIOUS
  <2> HIDE DEF R1
  <2>3. /\ soon \in Seq(R1)
        /\ \A i, j \in DOMAIN soon : soon[i] = soon[j] => i = j
        /\ \A r : (\E i \in DOMAIN soon : soon[i] = r) <=> r \in R1
    BY <2>1, InOrderIs
  <2>4. soon \in Seq(N)
    BY <2>2, <2>3
  <2> QED
    BY <2>2, <2>3, <2>4 DEF Soon
<1>13. how \in [N -> AcceptAnswers] /\ N \cap A.accept_socket = {} /\ R = Q \cup N
  BY <1>7 DEF N
<1>14. Queues(A, M, W, Q, R, s) /\ HandleInv(M, R, k, s)
  <2>1. /\ LoopOK(A) /\ A.failed = {} /\ Placed(A, W) /\ N \in SUBSET AcceptReqsOf(s)
        /\ how \in [N -> AcceptAnswers] /\ Soon(soon, N, how) /\ N \cap A.accept_socket = {}
        /\ Q = Queued(A, W) /\ N \cap Q = {} /\ M = QueueAccepts(A, s, how, soon) /\ R = Q \cup N
        /\ Lives(A, s) /\ Counts(A, Q, k, s) /\ Listening(A, Q, R, s)
    BY <1>1, <1>3, <1>6, <1>7, <1>8, <1>9, <1>10, <1>11, <1>12, <1>13
  <2> QED
    BY ONLY <2>1, QueueAcceptsKeeps, s \in Servers
<1>15. \A g \in Handles \ {s} : Alike(L, M, Q, R, g)
  <2>1. \A g \in Handles \ {s} : Alike(L, A, Q, Q, g)
    BY <1>5, BecomesApart
  <2>2. \A g \in Handles \ {s} : Alike(A, M, Q, R, g)
    BY <1>14 DEF Queues
  <2> QED
    BY <2>1, <2>2, AlikeTrans
<1> QED
  BY <1>7, <1>14, <1>15 DEF Queues

LEMMA ClientListensC ==
    ASSUME IInv, CInv, NEW s \in Servers, ClientListens(s)
    PROVE  CInv'
<1> DEFINE Q == Queued(loop, work)
           R == Q \cup AcceptReqsOf(s)
<1>1. /\ s \in Handles /\ s \notin Timers /\ LoopOK(loop) /\ loop.failed = {} /\ Placed(loop, work)
      /\ HandleInv(loop, Q, cb, s)
  BY Kinds, InvIs
<1>2. Stages' /\ work' = work /\ cb' = cb /\ due' = due /\ request' = request
  BY CallsC DEF ClientListens
<1>3. /\ s \in loop.handle_queue /\ ~Has(loop, s, "CLOSING") /\ ~Has(loop, s, "LISTENING")
      /\ AcceptReqsOf(s) \cap loop.accept_socket = {}
  BY DEF ClientListens, Open, Opened
<1>4. PICK how \in [AcceptReqsOf(s) -> AcceptAnswers] :
         \E soon \in InOrder({r \in AcceptReqsOf(s) : how[r] # "queued"}) : loop' = TcpListen(loop, s, how, soon)
  BY DEF ClientListens
<1>5. PICK soon \in InOrder({r \in AcceptReqsOf(s) : how[r] # "queued"}) : loop' = TcpListen(loop, s, how, soon)
  BY <1>4
<1> HIDE DEF Q
<1>6. Queues(loop, loop', work, Q, R, s) /\ HandleInv(loop', R, cb, s)
  <2> DEFINE L == loop
             M == loop'
             k == cb
  <2>1. /\ LoopOK(L) /\ L.failed = {} /\ Placed(L, work) /\ Q = Queued(L, work) /\ HandleInv(L, Q, k, s)
        /\ s \in L.handle_queue /\ ~Has(L, s, "CLOSING") /\ ~Has(L, s, "LISTENING")
        /\ AcceptReqsOf(s) \cap L.accept_socket = {} /\ M = TcpListen(L, s, how, soon)
    BY <1>1, <1>3, <1>5 DEF Q
  <2> HIDE DEF L, M, k
  <2>2. Queues(L, M, work, Q, R, s) /\ HandleInv(M, R, k, s)
    BY <2>1, ListenStarts
  <2> QED
    BY <2>2 DEF L, M, k
<1> HIDE DEF R
<1>7. /\ loop'.failed = {} /\ loop'.active_reqs = loop.active_reqs /\ Placed(loop', work') /\ Queued(loop', work') = R
      /\ \A g \in Handles \ {s} : Alike(loop, loop', Q, R, g)
  BY <1>2, <1>6 DEF Queues
<1>8. s \notin due' /\ due' \subseteq due \cup {s}
  BY <1>1, <1>2 DEF CInv, ActiveTimers
<1>9. loop'.active_reqs = {r \in ClientReqs : request'[r] = "issued"}
  BY <1>2, <1>7 DEF CInv
<1>10. \A g \in Handles \ {s} : Alike(loop, loop', Queued(loop, work), Queued(loop', work'), g)
  BY <1>7 DEF Q
<1>11. HandleInv(loop', Queued(loop', work'), cb', s)
  BY <1>2, <1>6, <1>7
<1> QED
  BY <1>1, <1>2, <1>7, <1>8, <1>9, <1>10, <1>11, StepC

\* A call that finds nothing to do.
LEMMA UnchangedC ==
    ASSUME IInv, CInv, NEW h \in Handles, h \notin Timers, Stages', loop' = loop, work' = work, cb' = cb,
           request' = request, due' = due
    PROVE  CInv'
<1>1. LoopOK(loop) /\ HandleInv(loop, Queued(loop, work), cb, h)
  BY InvIs
<1>2. h \notin due'
  BY DEF CInv, ActiveTimers
<1> QED
  BY <1>1, <1>2, BecomesItself, BecomesC

\* uv_read_start: the stream reads, and has its read request queued.
LEMMA ReadStarts ==
    ASSUME NEW L, LoopOK(L), L.failed = {}, NEW Q, NEW k, NEW c \in Conns, HandleInv(L, Q, k, c),
           L.active_reqs \in SUBSET ClientReqs, c \in L.handle_queue, CanReadStart(L, c),
           NEW A, A = IncreaseActiveCount(SetFlags(L, c, {"READING"}), c)
    PROVE  /\ \E G \in SUBSET Flags : \E a :
                 /\ Becomes(L, A, c, G, a, L.reqs_pending[c])
                 /\ \A f : f \notin {"ACTIVE", "READING"} => (f \in G <=> f \in L.flags[c])
                 /\ "READING" \in G
           /\ Lives(A, c) /\ Counts(A, Q, k, c) /\ Shuts(A, Q, k, c)
<1> DEFINE n == Cardinality(Of(L.active_reqs, c))
<1>1. /\ c \in Handles /\ c \notin Servers /\ c \notin Timers /\ {"READING"} \in SUBSET OtherFlags /\ n \in Nat
      /\ {} \in SUBSET IoReqs
  BY Kinds, ReqsAreFinite DEF OtherFlags, Flags
<1>2. /\ Lives(L, c) /\ Counts(L, Q, k, c) /\ Shuts(L, Q, k, c)
      /\ ~Has(L, c, "READING") /\ ~Has(L, c, "CLOSING") /\ ~Has(L, c, "LISTENING")
  BY DEF HandleInv, CanReadStart, Lives, Has, Shuts
<1>3. L.activecnt[c] = n
  BY <1>1, <1>2 DEF Counts, One
<1> HIDE DEF n
<1>4. PICK G \in SUBSET Flags :
         /\ Becomes(L, A, c, G, L.activecnt[c] + 1, L.reqs_pending[c])
         /\ \A f : f # "ACTIVE" => (f \in G <=> f \in L.flags[c] \/ f \in {"READING"})
         /\ "ACTIVE" \in G <=> Has(L, c, "ACTIVE") \/ L.activecnt[c] = 0
  BY <1>1, <1>2, <1>3, StartsBecomes
<1>5. /\ A.flags[c] = G /\ A.activecnt[c] = n + 1 /\ A.reqs_pending[c] = L.reqs_pending[c]
      /\ A.active_reqs = L.active_reqs /\ A.shutdown_req = L.shutdown_req /\ A.handle_queue = L.handle_queue
      /\ A.write_reqs_pending = L.write_reqs_pending
  BY <1>3, <1>4 DEF Becomes
<1>6. /\ \A f : f \notin {"ACTIVE", "READING"} => (f \in G <=> f \in L.flags[c])
      /\ "READING" \in G /\ "ACTIVE" \in G
  <2>1. ~Has(L, c, "CLOSING") => (Has(L, c, "ACTIVE") <=> L.activecnt[c] > 0)
    BY <1>2 DEF Counts
  <2> QED
    BY <1>1, <1>2, <1>3, <1>4, <2>1
<1>7. Lives(A, c)
  BY <1>2, <1>5, <1>6 DEF Lives, Has
<1>8. Counts(A, Q, k, c)
  <2>1. One(Has(A, c, "READING")) = 1 /\ One(Has(A, c, "LISTENING")) = 0
    BY <1>2, <1>5, <1>6 DEF One, Has
  <2>2. A.activecnt[c] = One(Has(A, c, "READING")) + One(Has(A, c, "LISTENING")) + Cardinality(Of(A.active_reqs, c))
    BY <1>1, <1>5, <2>1 DEF n
  <2>3. Has(A, c, "ACTIVE") /\ A.activecnt[c] > 0
    BY <1>1, <1>5, <1>6 DEF Has
  <2> QED
    BY <1>2, <1>5, <2>2, <2>3 DEF Counts
<1>9. Shuts(A, Q, k, c)
  BY <1>2, <1>5, <1>6 DEF Shuts, Has
<1> QED
  BY <1>4, <1>6, <1>7, <1>8, <1>9

LEMMA ClientStartsReadingC ==
    ASSUME IInv, CInv, NEW c \in Conns, ClientStartsReading(c)
    PROVE  CInv'
<1> DEFINE Q == Queued(loop, work)
           A == IncreaseActiveCount(SetFlags(loop, c, {"READING"}), c)
<1>1. /\ c \in Handles /\ c \notin Servers /\ c \notin Timers /\ LoopOK(loop) /\ loop.failed = {} /\ Placed(loop, work)
      /\ HandleInv(loop, Q, cb, c) /\ loop.active_reqs \in SUBSET ClientReqs /\ Q \in SUBSET IoReqs
      /\ Spared
  BY Kinds, InvIs
<1>2. Stages' /\ work' = work /\ cb' = cb /\ due' = due /\ request' = request
  BY CallsC DEF ClientStartsReading
<1>3. c \in loop.handle_queue /\ (ReadsRestart \/ ~Has(loop, c, "ZERO_READ"))
  BY DEF ClientStartsReading, Opened
<1>4. PICK how \in ReadAnswers : loop' = ReadStart(loop, c, how)
  BY DEF ClientStartsReading
<1>5. c \notin due' /\ due' \subseteq due \cup {c}
  BY <1>1, <1>2 DEF CInv, ActiveTimers
<1> HIDE DEF Q
<1>6. CASE ~CanReadStart(loop, c)
  <2>1. loop' = loop
    BY <1>4, <1>6 DEF ReadStart
  <2> QED
    BY <1>1, <1>2, <2>1, UnchangedC
<1>7. CASE CanReadStart(loop, c)
  <2>0. PICK G \in SUBSET Flags :
           \E a : /\ Becomes(loop, A, c, G, a, loop.reqs_pending[c])
                  /\ \A f : f \notin {"ACTIVE", "READING"} => (f \in G <=> f \in loop.flags[c])
                  /\ "READING" \in G
    BY <1>1, <1>3, <1>7, ReadStarts
  <2>1. PICK a : /\ Becomes(loop, A, c, G, a, loop.reqs_pending[c])
                 /\ \A f : f \notin {"ACTIVE", "READING"} => (f \in G <=> f \in loop.flags[c])
                 /\ "READING" \in G
    BY <2>0
  <2>2. Lives(A, c) /\ Counts(A, Q, cb, c) /\ Shuts(A, Q, cb, c)
    BY <1>1, <1>3, <1>7, ReadStarts
  <2>3. loop' = IF Has(loop, c, "READ_PENDING") THEN A ELSE QueueRead(A, c, how)
    BY <1>4, <1>7 DEF ReadStart
  <2>4. Reads(loop, Q, cb, c)
    BY <1>1 DEF HandleInv
  <2> HIDE DEF A
  <2>5. A.flags[c] = G /\ LoopOK(A) /\ A.failed = {} /\ A.active_reqs = loop.active_reqs
    BY <1>1, <2>1 DEF Becomes
  <2>6. Placed(A, work) /\ Queued(A, work) = Q
    BY <1>1, <2>1, QueuedIs DEF Becomes, Q
  <2>7. CASE Has(loop, c, "READ_PENDING")
    <3>1. Reads(A, Q, cb, c)
      BY <2>1, <2>4, <2>5, <2>7 DEF Reads, Has
    <3>2. HandleInv(A, Q, cb, c) /\ loop' = A
      BY <1>1, <2>2, <2>3, <2>7, <3>1 DEF HandleInv
    <3>3. Becomes(loop, loop', c, G, a, loop.reqs_pending[c]) /\ HandleInv(loop', Queued(loop, work), cb', c)
      BY <1>2, <2>1, <3>2 DEF Q
    <3> QED
      BY <1>1, <1>2, <1>5, <3>3, BecomesC
  <2>8. CASE ~Has(loop, c, "READ_PENDING")
    <3> DEFINE R == Q \cup {ReadReq(c)}
               M == loop'
               k == cb
    <3>1. Has(A, c, "READING") /\ ~Has(A, c, "READ_PENDING")
      BY <2>1, <2>5, <2>8 DEF Has
    <3>2. ReadReq(c) \notin Q
      BY <1>1, <1>3, <2>4, <2>8 DEF Reads, Spared, EnvironmentAssumption
    <3>3. ReadsRestart \/ ~(k.handle = c /\ k.kind \in {"alloc", "read", "readloop"})
      BY <1>3, <2>4 DEF Reads
    <3>4. M = QueueRead(A, c, how) /\ Lives(A, c) /\ Counts(A, Q, k, c) /\ Shuts(A, Q, k, c) /\ R = Q \cup {ReadReq(c)}
      BY <2>2, <2>3, <2>8
    <3> HIDE DEF R, M, k
    <3>5. /\ LoopOK(M) /\ M.failed = {} /\ M.active_reqs = A.active_reqs
          /\ Placed(M, work) /\ Queued(M, work) = R
          /\ \A g \in Handles \ {c} : Alike(A, M, Q, R, g)
          /\ HandleInv(M, R, k, c) /\ Has(M, c, "READING")
      BY ONLY c \in Conns, how \in ReadAnswers, <2>5, <2>6, <3>1, <3>2, <3>3, <3>4, QueueReadKeeps
    <3>6. \A g \in Handles \ {c} : Alike(loop, A, Q, Q, g)
      BY <2>1, BecomesApart
    <3>7. \A g \in Handles \ {c} : Alike(loop, M, Q, R, g)
      BY <3>5, <3>6, AlikeTrans
    <3>8. /\ loop'.failed = {} /\ loop'.active_reqs = loop.active_reqs /\ Placed(loop', work') /\ Queued(loop', work') = R
          /\ \A g \in Handles \ {c} : Alike(loop, loop', Queued(loop, work), Queued(loop', work'), g)
          /\ HandleInv(loop', Queued(loop', work'), cb', c)
      BY <1>2, <2>5, <3>5, <3>7 DEF M, k, Q
    <3>9. loop'.active_reqs = {r \in ClientReqs : request'[r] = "issued"}
      BY <1>2, <3>8 DEF CInv
    <3> QED
      BY <1>1, <1>2, <1>5, <3>8, <3>9, StepC
  <2> QED
    BY <2>7, <2>8
<1> QED
  BY <1>6, <1>7

\* A client's request is registered.
LEMMA RegisterIs ==
    ASSUME NEW L, LoopOK(L), L.failed = {}, NEW c \in Handles, ~Has(L, c, "CLOSING"), L.activecnt[c] >= 0,
           NEW r \in ClientReqs, NEW M, M = RegisterHandleReq(L, c, r)
    PROVE  /\ LoopOK(M) /\ M.activecnt[c] = L.activecnt[c] + 1 /\ M.reqs_pending[c] = L.reqs_pending[c]
           /\ \A f : f # "ACTIVE" => (f \in M.flags[c] <=> f \in L.flags[c])
           /\ "ACTIVE" \in M.flags[c] <=> Has(L, c, "ACTIVE") \/ L.activecnt[c] = 0
           /\ \A g \in Handles \ {c} : /\ M.flags[g] = L.flags[g]
                                       /\ M.activecnt[g] = L.activecnt[g]
                                       /\ M.reqs_pending[g] = L.reqs_pending[g]
           /\ M.write_reqs_pending = L.write_reqs_pending /\ M.shutdown_req = L.shutdown_req
           /\ M.handle_queue = L.handle_queue /\ M.active_reqs = L.active_reqs \cup {r}
           /\ M.pending = L.pending /\ M.pending_accepts = L.pending_accepts
           /\ M.accept_socket = L.accept_socket /\ M.kernel = L.kernel /\ M.iocp = L.iocp
           /\ M.failed = L.failed
<1> DEFINE D == IncreaseActiveCount(L, c)
           G == IF L.activecnt[c] = 0 THEN L.flags[c] \cup {"ACTIVE"} ELSE L.flags[c]
<1>1. Becomes(L, D, c, G, L.activecnt[c] + 1, L.reqs_pending[c])
  BY IncreaseBecomes
<1> HIDE DEF D
<1>2. D.active_reqs = L.active_reqs /\ D \in LoopType
  BY <1>1 DEF Becomes, LoopOK
<1>3. M = [D EXCEPT !.active_reqs = L.active_reqs \cup {r}]
  BY <1>2 DEF RegisterHandleReq, ReqRegister, D
<1>4. /\ M.flags = D.flags /\ M.activecnt = D.activecnt /\ M.reqs_pending = D.reqs_pending
      /\ M.write_reqs_pending = D.write_reqs_pending /\ M.shutdown_req = D.shutdown_req
      /\ M.handle_queue = D.handle_queue /\ M.active_reqs = L.active_reqs \cup {r}
      /\ M.pending = D.pending /\ M.pending_accepts = D.pending_accepts
      /\ M.accept_socket = D.accept_socket /\ M.kernel = D.kernel /\ M.iocp = D.iocp
      /\ M.failed = D.failed
  BY <1>2, <1>3 DEF LoopType
<1>5. /\ \A f : f # "ACTIVE" => (f \in G <=> f \in L.flags[c])
      /\ "ACTIVE" \in G <=> Has(L, c, "ACTIVE") \/ L.activecnt[c] = 0
  BY DEF Has
<1>6. LoopOK(M)
  BY HandleReqOK
<1> HIDE DEF G
<1> QED
  BY <1>1, <1>4, <1>5, <1>6 DEF Becomes

\* uv_write, when the stream is writable.
LEMMA WriteStarts ==
    ASSUME NEW L, LoopOK(L), L.failed = {}, L.active_reqs \in SUBSET ClientReqs, NEW W, Placed(L, W),
           NEW Q, Q = Queued(L, W), NEW k, NEW c \in Conns, HandleInv(L, Q, k, c), c \in L.handle_queue,
           Has(L, c, "WRITABLE"), NEW r \in WriteReqs, r.handle = c, r \notin L.active_reqs,
           NEW how \in Answers, NEW M, M = Write(L, r, how)
    PROVE  /\ M.failed = {} /\ M.active_reqs = L.active_reqs \cup {r} /\ Placed(M, W)
           /\ \A g \in Handles \ {c} : Alike(L, M, Q, Queued(M, W), g)
           /\ HandleInv(M, Queued(M, W), k, c)
<1> DEFINE n == L.write_reqs_pending[c] + 1
           p == L.reqs_pending[c] + 1
           A == [L EXCEPT !.reqs_pending[c] = p, !.write_reqs_pending[c] = n]
           B == RegisterHandleReq(A, c, r)
           R == Q \cup {r}
           x == Packet(r, how = "bypass")
           S == L.active_reqs \cup {r}
           m == Cardinality(Of(L.active_reqs, c))
<1>1. /\ c \in Handles /\ c \notin Servers /\ c \notin Timers /\ c \in Servers \cup Conns
      /\ r \in IoReqs /\ r \in ClientReqs /\ r.type = "WRITE"
      /\ Q \in SUBSET IoReqs /\ m \in Nat /\ L \in LoopType /\ L.pending \in Seq(Packets)
      /\ x \in Packets /\ x.req = r
  <2>1. /\ c \in Handles /\ c \notin Servers /\ c \notin Timers /\ c \in Servers \cup Conns
        /\ r \in IoReqs /\ r \in ClientReqs /\ r.type = "WRITE" /\ Q \in SUBSET IoReqs
        /\ L \in LoopType /\ L.pending \in Seq(Packets)
    BY Kinds, IoReqsAre DEF Queued, LoopOK, LoopType
  <2>2. m \in Nat
    BY <2>1, ReqsAreFinite
  <2> QED
    BY <2>1, <2>2 DEF Packet, Packets
<1>2. /\ Lives(L, c) /\ Counts(L, Q, k, c) /\ Reads(L, Q, k, c) /\ Shuts(L, Q, k, c)
      /\ ~Has(L, c, "CLOSING") /\ ~Has(L, c, "CLOSED") /\ Has(L, c, "CONNECTION") /\ c \notin L.shutdown_req /\ r \notin Q
      /\ ~Has(L, c, "LISTENING")
  <2>1. Lives(L, c) /\ Counts(L, Q, k, c) /\ Reads(L, Q, k, c) /\ Shuts(L, Q, k, c)
    BY <1>1 DEF HandleInv
  <2> QED
    BY <2>1 DEF Lives, Shuts, Has
<1>3. /\ L.activecnt[c] = One(Has(L, c, "READING")) + m /\ One(Has(L, c, "READING")) \in {0, 1}
      /\ One(Has(L, c, "LISTENING")) = 0 /\ L.activecnt[c] >= 0 /\ L.activecnt[c] \in Int
      /\ (Has(L, c, "ACTIVE") <=> L.activecnt[c] > 0)
  <2>1. One(Has(L, c, "READING")) \in {0, 1} /\ One(Has(L, c, "LISTENING")) = 0
    BY <1>2 DEF One
  <2>2. L.activecnt[c] = One(Has(L, c, "READING")) + m /\ (Has(L, c, "ACTIVE") <=> L.activecnt[c] > 0)
    BY <1>1, <1>2, <2>1 DEF Counts
  <2> QED
    BY <1>1, <2>1, <2>2
<1>4. p \in Int /\ n \in Int /\ L.write_reqs_pending \in [Handles -> Int] /\ L.reqs_pending \in [Handles -> Int]
  BY <1>1 DEF LoopType
<1>5. A = [IncreasePendingReqCount(L, c, 1) EXCEPT !.write_reqs_pending[c] = @ + 1]
  BY <1>1 DEF IncreasePendingReqCount, LoopType
<1> HIDE DEF p, n, m
<1>6. /\ LoopOK(A) /\ A.failed = {} /\ A.flags = L.flags /\ A.activecnt = L.activecnt
      /\ A.reqs_pending[c] = p /\ A.write_reqs_pending[c] = n
      /\ \A g \in Handles \ {c} : /\ A.reqs_pending[g] = L.reqs_pending[g]
                                  /\ A.write_reqs_pending[g] = L.write_reqs_pending[g]
      /\ A.shutdown_req = L.shutdown_req /\ A.handle_queue = L.handle_queue /\ A.active_reqs = L.active_reqs
      /\ A.pending_accepts = L.pending_accepts /\ A.accept_socket = L.accept_socket
      /\ A.kernel = L.kernel /\ A.iocp = L.iocp /\ A.pending = L.pending
  <2>1. Same(L, A)
    BY <1>1, <1>4 DEF LoopType, Same
  <2>2. LoopOK(A)
    BY <2>1, SameOK
  <2> QED
    BY <1>1, <1>4, <2>2 DEF LoopType
<1>7. M = IF how = "queued" THEN [B EXCEPT !.kernel = @ \cup {r}] ELSE InsertPendingReq(B, r, how = "bypass")
  BY <1>5 DEF Write
<1> HIDE DEF A
<1>8. /\ LoopOK(B) /\ B.activecnt[c] = A.activecnt[c] + 1 /\ B.reqs_pending[c] = A.reqs_pending[c]
      /\ \A f : f # "ACTIVE" => (f \in B.flags[c] <=> f \in A.flags[c])
      /\ "ACTIVE" \in B.flags[c] <=> Has(A, c, "ACTIVE") \/ A.activecnt[c] = 0
      /\ \A g \in Handles \ {c} : /\ B.flags[g] = A.flags[g]
                                  /\ B.activecnt[g] = A.activecnt[g]
                                  /\ B.reqs_pending[g] = A.reqs_pending[g]
      /\ B.write_reqs_pending = A.write_reqs_pending /\ B.shutdown_req = A.shutdown_req
      /\ B.handle_queue = A.handle_queue /\ B.active_reqs = A.active_reqs \cup {r}
      /\ B.pending = A.pending /\ B.pending_accepts = A.pending_accepts
      /\ B.accept_socket = A.accept_socket /\ B.kernel = A.kernel /\ B.iocp = A.iocp
      /\ B.failed = A.failed
  <2>1. ~Has(A, c, "CLOSING") /\ A.activecnt[c] >= 0
    BY <1>2, <1>3, <1>6 DEF Has
  <2> QED
    BY <1>1, <1>6, <2>1, RegisterIs
<1> HIDE DEF B
<1>9. /\ M.flags = B.flags /\ M.activecnt = B.activecnt /\ M.reqs_pending = B.reqs_pending
      /\ M.write_reqs_pending = B.write_reqs_pending /\ M.shutdown_req = B.shutdown_req
      /\ M.handle_queue = B.handle_queue /\ M.active_reqs = B.active_reqs
      /\ M.pending_accepts = B.pending_accepts /\ M.accept_socket = B.accept_socket
      /\ M.iocp = B.iocp /\ M.failed = B.failed
      /\ \/ M.kernel = B.kernel \cup {r} /\ M.pending = B.pending
         \/ M.kernel = B.kernel /\ M.pending = Append(B.pending, x)
  <2>1. B \in LoopType
    BY <1>8 DEF LoopOK
  <2>2. InsertPendingReq(B, r, how = "bypass") = [B EXCEPT !.pending = Append(@, x)]
    <3>1. \A i \in DOMAIN B.pending : B.pending[i].req # r
      BY <1>1, <1>2, <1>6, <1>8 DEF Queued, InQ
    <3> QED
      BY <3>1 DEF InsertPendingReq, Check, x
  <2> HIDE DEF x
  <2>3. CASE how = "queued"
    <3>1. M = [B EXCEPT !.kernel = @ \cup {r}]
      BY <1>7, <2>3
    <3> QED
      BY <2>1, <3>1 DEF LoopType
  <2>4. CASE how # "queued"
    <3>1. M = [B EXCEPT !.pending = Append(@, x)]
      BY <1>7, <2>2, <2>4
    <3> QED
      BY <2>1, <3>1 DEF LoopType
  <2> QED
    BY <2>3, <2>4
<1>10. Placed(M, W) /\ Queued(M, W) = R
  <2>1. M.iocp = L.iocp /\ \/ M.kernel = L.kernel \cup {r} /\ M.pending = L.pending
                           \/ M.kernel = L.kernel /\ M.pending = Append(L.pending, x)
    BY <1>6, <1>8, <1>9
  <2> HIDE DEF x
  <2>2. CASE M.kernel = L.kernel \cup {r} /\ M.pending = L.pending
    BY <1>1, <1>2, <2>1, <2>2, KernelTakes
  <2>3. CASE M.kernel = L.kernel /\ M.pending = Append(L.pending, x)
    BY <1>1, <1>2, <2>1, <2>3, LoopTakes
  <2> QED
    BY <2>1, <2>2, <2>3
<1>11. M.active_reqs = S /\ M.failed = {}
  BY <1>6, <1>8, <1>9
<1>12. /\ Cardinality(Of(Q, c)) \in Nat /\ Cardinality(WritesOf(Q, c)) \in Nat
       /\ Cardinality(Of(R, c)) = Cardinality(Of(Q, c)) + 1
       /\ Cardinality(WritesOf(R, c)) = Cardinality(WritesOf(Q, c)) + 1
       /\ \A g : g # c => Of(R, g) = Of(Q, g)
  <2>1. R = Q \cup {r}
    OBVIOUS
  <2> HIDE DEF R
  <2>2. /\ Cardinality(Of(Q, r.handle)) \in Nat /\ Cardinality(WritesOf(Q, r.handle)) \in Nat
        /\ Cardinality(Of(R, r.handle)) = Cardinality(Of(Q, r.handle)) + 1
        /\ r.type = "WRITE" => Cardinality(WritesOf(R, r.handle)) = Cardinality(WritesOf(Q, r.handle)) + 1
        /\ \A g : g # r.handle => Of(R, g) = Of(Q, g)
    <3>1. Q \in SUBSET IoReqs /\ r \in IoReqs /\ r \notin Q
      BY <1>1, <1>2
    <3> QED
      BY ONLY <2>1, <3>1, QueueGrows
  <2> QED
    BY <1>1, <2>2
<1>13. Cardinality(Of(S, c)) = m + 1 /\ \A g : g # c => Of(S, g) = Of(L.active_reqs, g)
  <2>1. S = L.active_reqs \cup {r}
    OBVIOUS
  <2> HIDE DEF S
  <2> QED
    BY <1>1, <2>1, ReqsGrow DEF m
<1>14. (\A y : y \in R <=> y \in Q \/ y = r) /\ (\A y : y \in S <=> y \in L.active_reqs \/ y = r)
  OBVIOUS
<1> HIDE DEF R, S, x
<1>15. \A g \in Handles \ {c} : Alike(L, M, Q, R, g)
  <2>1. \A g \in Handles \ {c} : Of(R, g) = Of(Q, g) /\ Of(M.active_reqs, g) = Of(L.active_reqs, g)
    BY <1>11, <1>12, <1>13
  <2>2. SUFFICES ASSUME NEW g \in Handles \ {c}
                 PROVE  Alike(L, M, Q, R, g)
    OBVIOUS
  <2>3. /\ M.flags[g] = L.flags[g] /\ M.activecnt[g] = L.activecnt[g] /\ M.reqs_pending[g] = L.reqs_pending[g]
        /\ M.write_reqs_pending[g] = L.write_reqs_pending[g]
    BY <1>6, <1>8, <1>9
  <2>4. /\ M.pending_accepts = L.pending_accepts /\ M.shutdown_req = L.shutdown_req
        /\ M.handle_queue = L.handle_queue /\ M.accept_socket = L.accept_socket
    BY <1>6, <1>8, <1>9
  <2> QED
    BY <2>1, <2>3, <2>4 DEF Alike
<1>16. /\ M.activecnt[c] = L.activecnt[c] + 1 /\ M.reqs_pending[c] = L.reqs_pending[c] + 1
       /\ M.write_reqs_pending[c] = L.write_reqs_pending[c] + 1
       /\ M.shutdown_req = L.shutdown_req /\ M.handle_queue = L.handle_queue
       /\ \A f : f # "ACTIVE" => (f \in M.flags[c] <=> f \in L.flags[c])
       /\ "ACTIVE" \in M.flags[c]
  <2>1. A.activecnt[c] = 0 \/ "ACTIVE" \in A.flags[c]
    BY <1>3, <1>6 DEF Has
  <2> QED
    BY <1>6, <1>8, <1>9, <2>1 DEF Has, p, n
<1>17. Lives(M, c)
  BY <1>2, <1>16 DEF Lives, Has
<1>18. Counts(M, R, k, c)
  <2>1. One(Has(M, c, "READING")) = One(Has(L, c, "READING")) /\ One(Has(M, c, "LISTENING")) = 0
    BY <1>2, <1>16 DEF Has, One
  <2>2. M.activecnt[c] = One(Has(M, c, "READING")) + One(Has(M, c, "LISTENING")) + Cardinality(Of(M.active_reqs, c))
    BY <1>1, <1>3, <1>11, <1>13, <1>16, <2>1
  <2>3. Has(M, c, "ACTIVE") /\ M.activecnt[c] > 0
    BY <1>3, <1>16 DEF Has
  <2>4. M.reqs_pending[c] = Cardinality(Of(R, c)) + One(Processing(k, c)) + One(c \in M.shutdown_req)
    <3>1. One(Processing(k, c)) \in {0, 1} /\ One(c \in L.shutdown_req) \in {0, 1}
      BY DEF One
    <3>2. L.reqs_pending[c] = Cardinality(Of(Q, c)) + One(Processing(k, c)) + One(c \in L.shutdown_req)
      BY <1>2 DEF Counts
    <3> QED
      BY <1>12, <1>16, <3>1, <3>2
  <2> QED
    BY <2>2, <2>3, <2>4 DEF Counts
<1>19. Reads(M, R, k, c)
  <2>1. ReadReq(c) # r
    BY <1>1, IoReqsAre
  <2> QED
    BY <1>2, <1>14, <1>16, <2>1 DEF Reads, Has
<1>20. Shuts(M, R, k, c)
  <2>1. ShutdownReq(c) # r
    BY <1>1, IoReqsAre
  <2>2. M.write_reqs_pending[c] = Cardinality(WritesOf(R, c)) + One(k.handle = c /\ k.kind = "write")
    <3>1. One(k.handle = c /\ k.kind = "write") \in {0, 1}
      BY DEF One
    <3>2. L.write_reqs_pending[c] = Cardinality(WritesOf(Q, c)) + One(k.handle = c /\ k.kind = "write")
      BY <1>2 DEF Shuts
    <3> QED
      BY <1>12, <1>16, <3>1, <3>2
  <2>3. Has(M, c, "CONNECTION") /\ c \notin M.shutdown_req /\ ~Has(M, c, "LISTENING")
    BY <1>2, <1>16 DEF Has
  <2>4. ~InShutdown(k, c) /\ ShutdownReq(c) \notin M.active_reqs
    BY <1>2, <1>11, <1>14, <2>1 DEF Shuts
  <2>5. \A y \in WriteReqs : y.handle = c => (y \in M.active_reqs <=> y \in R)
    BY <1>2, <1>11, <1>14 DEF Shuts
  <2> QED
    BY <2>2, <2>3, <2>4, <2>5 DEF Shuts
<1>21. HandleInv(M, R, k, c)
  BY <1>1, <1>17, <1>18, <1>19, <1>20 DEF HandleInv
<1> QED
  BY <1>10, <1>11, <1>15, <1>21 DEF S

LEMMA ClientWritesC ==
    ASSUME IInv, CInv, NEW r \in WriteReqs, ClientWrites(r)
    PROVE  CInv'
<1> DEFINE c == r.handle
           Q == Queued(loop, work)
<1>1. /\ c \in Conns /\ c \in Handles /\ c \notin Servers /\ c \notin Timers /\ LoopOK(loop) /\ loop.failed = {}
      /\ Placed(loop, work) /\ HandleInv(loop, Q, cb, c) /\ loop.active_reqs \in SUBSET ClientReqs
      /\ r \in ClientReqs
  <2>1. c \in Conns /\ r \in ClientReqs
    BY IoReqsAre
  <2> QED
    BY <2>1, Kinds, InvIs
<1>2. Stages' /\ work' = work /\ cb' = cb /\ due' = due
  BY CallsC DEF ClientWrites
<1>3. /\ c \in loop.handle_queue /\ request[r] = "free"
      /\ request' = [request EXCEPT ![r] = IF Has(loop, c, "WRITABLE") THEN "issued" ELSE @]
  BY DEF ClientWrites, Opened
<1>4. PICK how \in Answers : loop' = Write(loop, r, how)
  BY DEF ClientWrites
<1>5. c \notin due' /\ due' \subseteq due \cup {c}
  BY <1>1, <1>2 DEF CInv, ActiveTimers
<1>6. request \in [ClientReqs -> {"free", "issued", "called"}]
  BY DEF IInv, TypeOK
<1>7. CASE ~Has(loop, c, "WRITABLE")
  <2>1. loop' = loop /\ request' = request
    BY <1>3, <1>4, <1>6, <1>7 DEF Write
  <2> QED
    BY <1>1, <1>2, <2>1, UnchangedC
<1>8. CASE Has(loop, c, "WRITABLE")
  <2> DEFINE L == loop
             M == loop'
             k == cb
  <2>1. r \notin L.active_reqs
    BY <1>3 DEF CInv
  <2>2. /\ LoopOK(L) /\ L.failed = {} /\ L.active_reqs \in SUBSET ClientReqs /\ Placed(L, work)
        /\ Q = Queued(L, work) /\ c \in Conns /\ HandleInv(L, Q, k, c) /\ c \in L.handle_queue
        /\ Has(L, c, "WRITABLE") /\ r \in WriteReqs /\ r.handle = c /\ how \in Answers /\ M = Write(L, r, how)
    BY <1>1, <1>3, <1>4, <1>8
  <2> HIDE DEF L, M, k, Q, c
  <2>3. /\ M.failed = {} /\ M.active_reqs = L.active_reqs \cup {r} /\ Placed(M, work)
        /\ \A g \in Handles \ {c} : Alike(L, M, Q, Queued(M, work), g)
        /\ HandleInv(M, Queued(M, work), k, c)
    BY ONLY <2>1, <2>2, WriteStarts
  <2>4. /\ loop'.failed = {} /\ loop'.active_reqs = loop.active_reqs \cup {r} /\ Placed(loop', work')
        /\ \A g \in Handles \ {c} : Alike(loop, loop', Queued(loop, work), Queued(loop', work'), g)
        /\ HandleInv(loop', Queued(loop', work'), cb', c)
    BY <1>2, <2>3 DEF L, M, k, Q
  <2>5. loop'.active_reqs = {x \in ClientReqs : request'[x] = "issued"}
    <3>1. \A x \in ClientReqs : request'[x] = IF x = r THEN "issued" ELSE request[x]
      BY <1>3, <1>6, <1>8
    <3> QED
      BY <1>1, <2>4, <3>1 DEF CInv
  <2> QED
    BY <1>1, <1>2, <1>5, <2>4, <2>5, StepC
<1> QED
  BY <1>7, <1>8

\* uv_shutdown, when the stream is writable.
LEMMA ShutdownWaits ==
    ASSUME NEW L, LoopOK(L), L.failed = {}, L.active_reqs \in SUBSET ClientReqs,
           NEW Q \in SUBSET IoReqs, NEW k, NEW c \in Conns, HandleInv(L, Q, k, c), c \in L.handle_queue,
           Has(L, c, "WRITABLE"), NEW M, M = Shutdown(L, c)
    PROVE  /\ M.failed = {} /\ M.active_reqs = L.active_reqs \cup {ShutdownReq(c)}
           /\ M.kernel = L.kernel /\ M.iocp = L.iocp /\ M.pending = L.pending
           /\ \A g \in Handles \ {c} : Alike(L, M, Q, Q, g)
           /\ HandleInv(M, Q, k, c)
<1> DEFINE r == ShutdownReq(c)
           p == L.reqs_pending[c] + 1
           F == L.flags[c] \ {"WRITABLE"}
           S == L.shutdown_req \cup {c}
           A == [L EXCEPT !.flags[c] = F, !.shutdown_req = S, !.reqs_pending[c] = p]
           B == RegisterHandleReq(A, c, r)
           T == L.active_reqs \cup {r}
           m == Cardinality(Of(L.active_reqs, c))
<1>1. /\ c \in Handles /\ c \notin Servers /\ c \notin Timers /\ c \in Servers \cup Conns
      /\ r \in ClientReqs /\ r.handle = c /\ r.type = "SHUTDOWN" /\ m \in Nat /\ L \in LoopType
      /\ {"WRITABLE"} \in SUBSET OtherFlags
  <2>1. c \in Servers \cup Conns /\ m \in Nat
    BY ReqsAreFinite
  <2> QED
    BY <2>1, Kinds, IoReqsAre DEF LoopOK, OtherFlags, Flags
<1>2. /\ Lives(L, c) /\ Counts(L, Q, k, c) /\ Reads(L, Q, k, c) /\ Shuts(L, Q, k, c)
      /\ ~Has(L, c, "CLOSING") /\ ~Has(L, c, "CLOSED") /\ Has(L, c, "CONNECTION") /\ c \notin L.shutdown_req
      /\ ~Has(L, c, "LISTENING") /\ r \notin L.active_reqs /\ ~InShutdown(k, c)
  <2>1. Lives(L, c) /\ Counts(L, Q, k, c) /\ Reads(L, Q, k, c) /\ Shuts(L, Q, k, c)
    BY <1>1 DEF HandleInv
  <2> QED
    BY <2>1 DEF Lives, Shuts, Has
<1>3. /\ L.activecnt[c] = One(Has(L, c, "READING")) + m /\ One(Has(L, c, "READING")) \in {0, 1}
      /\ One(Has(L, c, "LISTENING")) = 0 /\ L.activecnt[c] >= 0 /\ L.activecnt[c] \in Int
      /\ (Has(L, c, "ACTIVE") <=> L.activecnt[c] > 0)
  <2>1. One(Has(L, c, "READING")) \in {0, 1} /\ One(Has(L, c, "LISTENING")) = 0
    BY <1>2 DEF One
  <2>2. L.activecnt[c] = One(Has(L, c, "READING")) + m /\ (Has(L, c, "ACTIVE") <=> L.activecnt[c] > 0)
    BY <1>1, <1>2, <2>1 DEF Counts
  <2> QED
    BY <1>1, <2>1, <2>2
<1>4. p \in Int /\ S \in SUBSET Conns /\ F \in SUBSET Flags
  BY <1>1 DEF LoopType
<1>5. A = IncreasePendingReqCount([Clear(L, c, {"WRITABLE"}) EXCEPT !.shutdown_req = @ \cup {c}], c, 1)
  BY <1>1 DEF IncreasePendingReqCount, Clear, LoopType
<1>6. /\ LoopOK(A) /\ A.failed = {} /\ A.flags[c] = F /\ A.activecnt = L.activecnt
      /\ A.reqs_pending[c] = p /\ A.write_reqs_pending = L.write_reqs_pending
      /\ \A g \in Handles \ {c} : A.flags[g] = L.flags[g] /\ A.reqs_pending[g] = L.reqs_pending[g]
      /\ A.shutdown_req = S /\ A.handle_queue = L.handle_queue /\ A.active_reqs = L.active_reqs
      /\ A.pending_accepts = L.pending_accepts /\ A.accept_socket = L.accept_socket
      /\ A.kernel = L.kernel /\ A.iocp = L.iocp /\ A.pending = L.pending
  <2> DEFINE C == Clear(L, c, {"WRITABLE"})
  <2>1. LoopOK(C)
    BY <1>1, ClearOtherOK
  <2>2. A.flags = C.flags /\ A.active_handles = C.active_handles /\ A.endgame = C.endgame /\ A.failed = C.failed
    BY <1>1 DEF LoopType, Clear
  <2> HIDE DEF C, p, S, F
  <2>3. A \in LoopType
    BY <1>1, <1>4 DEF LoopType
  <2>4. LoopOK(A)
    BY <2>1, <2>2, <2>3, SameOK DEF Same
  <2> QED
    BY <1>1, <1>4, <2>4 DEF LoopType
<1>7. M = WantEndgame(B, c)
  BY <1>5 DEF Shutdown
<1> HIDE DEF A, p, m
<1>8. /\ LoopOK(B) /\ B.activecnt[c] = A.activecnt[c] + 1 /\ B.reqs_pending[c] = A.reqs_pending[c]
      /\ \A f : f # "ACTIVE" => (f \in B.flags[c] <=> f \in A.flags[c])
      /\ "ACTIVE" \in B.flags[c] <=> Has(A, c, "ACTIVE") \/ A.activecnt[c] = 0
      /\ \A g \in Handles \ {c} : /\ B.flags[g] = A.flags[g]
                                  /\ B.activecnt[g] = A.activecnt[g]
                                  /\ B.reqs_pending[g] = A.reqs_pending[g]
      /\ B.write_reqs_pending = A.write_reqs_pending /\ B.shutdown_req = A.shutdown_req
      /\ B.handle_queue = A.handle_queue /\ B.active_reqs = A.active_reqs \cup {r}
      /\ B.pending = A.pending /\ B.pending_accepts = A.pending_accepts
      /\ B.accept_socket = A.accept_socket /\ B.kernel = A.kernel /\ B.iocp = A.iocp
      /\ B.failed = A.failed
  <2>1. ~Has(A, c, "CLOSING") /\ A.activecnt[c] >= 0
    BY <1>2, <1>3, <1>6 DEF Has
  <2> QED
    BY <1>1, <1>6, <2>1, RegisterIs
<1> HIDE DEF B
<1> DEFINE G == B.flags[c] \cup {"ENDGAME_QUEUED"}
<1>9. Becomes(B, M, c, G, B.activecnt[c], B.reqs_pending[c])
  BY <1>1, <1>7, <1>8, WantEndgameBecomes
<1>10. M.active_reqs = T /\ M.failed = {} /\ M.kernel = L.kernel /\ M.iocp = L.iocp /\ M.pending = L.pending
  BY <1>6, <1>8, <1>9 DEF Becomes
<1>11. Cardinality(Of(T, c)) = m + 1 /\ \A g : g # c => Of(T, g) = Of(L.active_reqs, g)
  <2> DEFINE D == L.active_reqs
  <2>1. T = D \cup {r} /\ D \in SUBSET ClientReqs /\ r \in ClientReqs /\ r \notin D
    BY <1>1, <1>2
  <2> HIDE DEF T, D, r
  <2>2. /\ Cardinality(Of(T, r.handle)) = Cardinality(Of(D, r.handle)) + 1
        /\ \A g : g # r.handle => Of(T, g) = Of(D, g)
    BY ONLY <2>1, ReqsGrow
  <2> QED
    BY <1>1, <2>2 DEF D, m
<1>12. /\ \A y : y \in T <=> y \in L.active_reqs \/ y = r
       /\ c \in S /\ \A g : g # c => (g \in S <=> g \in L.shutdown_req)
       /\ \A f : f # "WRITABLE" => (f \in F <=> f \in L.flags[c])
       /\ "WRITABLE" \notin F
       /\ \A f : f # "ENDGAME_QUEUED" => (f \in G <=> f \in B.flags[c])
       /\ "ENDGAME_QUEUED" \in G
  OBVIOUS
<1> HIDE DEF T, S, F, G, r
<1>13. \A g \in Handles \ {c} : Alike(L, M, Q, Q, g)
  <2>1. SUFFICES ASSUME NEW g \in Handles \ {c}
                 PROVE  Alike(L, M, Q, Q, g)
    OBVIOUS
  <2>2. /\ M.flags[g] = L.flags[g] /\ M.activecnt[g] = L.activecnt[g] /\ M.reqs_pending[g] = L.reqs_pending[g]
        /\ M.write_reqs_pending = L.write_reqs_pending
    BY <1>6, <1>8, <1>9 DEF Becomes
  <2>3. /\ M.pending_accepts = L.pending_accepts /\ M.shutdown_req = S
        /\ M.handle_queue = L.handle_queue /\ M.accept_socket = L.accept_socket
    BY <1>6, <1>8, <1>9 DEF Becomes
  <2>4. Of(M.active_reqs, g) = Of(L.active_reqs, g)
    BY <1>10, <1>11
  <2> QED
    BY <1>12, <2>2, <2>3, <2>4 DEF Alike
<1>14. /\ M.activecnt[c] = L.activecnt[c] + 1 /\ M.reqs_pending[c] = L.reqs_pending[c] + 1
       /\ M.write_reqs_pending = L.write_reqs_pending
       /\ M.shutdown_req = S /\ M.handle_queue = L.handle_queue
       /\ \A f : f \notin {"ACTIVE", "ENDGAME_QUEUED", "WRITABLE"} => (f \in M.flags[c] <=> f \in L.flags[c])
       /\ "ACTIVE" \in M.flags[c] /\ "ENDGAME_QUEUED" \in M.flags[c] /\ "WRITABLE" \notin M.flags[c]
  <2>1. A.activecnt[c] = 0 \/ "ACTIVE" \in A.flags[c]
    BY <1>3, <1>6, <1>12 DEF Has
  <2>2. M.flags[c] = G /\ M.activecnt[c] = B.activecnt[c] /\ M.reqs_pending[c] = B.reqs_pending[c]
        /\ M.write_reqs_pending = B.write_reqs_pending
        /\ M.shutdown_req = B.shutdown_req /\ M.handle_queue = B.handle_queue
    BY <1>9 DEF Becomes
  <2>3. \A f : f \notin {"ACTIVE", "ENDGAME_QUEUED", "WRITABLE"} => (f \in G <=> f \in L.flags[c])
    BY <1>6, <1>8, <1>12
  <2>4. "ACTIVE" \in G /\ "ENDGAME_QUEUED" \in G /\ "WRITABLE" \notin G
    BY <1>6, <1>8, <1>12, <2>1 DEF Has
  <2>5. M.activecnt[c] = L.activecnt[c] + 1 /\ M.reqs_pending[c] = L.reqs_pending[c] + 1
    BY <1>6, <1>8, <2>2 DEF p
  <2> QED
    BY <1>6, <1>8, <2>2, <2>3, <2>4, <2>5
<1>15. Lives(M, c)
  BY <1>2, <1>14 DEF Lives, Has
<1>16. Counts(M, Q, k, c)
  <2>1. One(Has(M, c, "READING")) = One(Has(L, c, "READING")) /\ One(Has(M, c, "LISTENING")) = 0
    BY <1>2, <1>14 DEF Has, One
  <2>2. M.activecnt[c] = One(Has(M, c, "READING")) + One(Has(M, c, "LISTENING")) + Cardinality(Of(M.active_reqs, c))
    BY <1>1, <1>3, <1>10, <1>11, <1>14, <2>1
  <2>3. Has(M, c, "ACTIVE") /\ M.activecnt[c] > 0
    BY <1>3, <1>14 DEF Has
  <2>4. M.reqs_pending[c] = Cardinality(Of(Q, c)) + One(Processing(k, c)) + One(c \in M.shutdown_req)
    <3>1. One(Processing(k, c)) \in {0, 1} /\ One(c \in L.shutdown_req) = 0 /\ One(c \in M.shutdown_req) = 1
      BY <1>2, <1>12, <1>14 DEF One
    <3>2. L.reqs_pending[c] = Cardinality(Of(Q, c)) + One(Processing(k, c)) + One(c \in L.shutdown_req)
      BY <1>2 DEF Counts
    <3>3. Cardinality(Of(Q, c)) \in Nat
      BY <1>1, ReqsAreFinite
    <3> QED
      BY <1>14, <3>1, <3>2, <3>3
  <2> QED
    BY <2>2, <2>3, <2>4 DEF Counts
<1>17. Reads(M, Q, k, c)
  BY <1>2, <1>14 DEF Reads, Has
<1>18. Shuts(M, Q, k, c)
  <2>1. \A y \in WriteReqs : y # r
    BY <1>1, IoReqsAre
  <2>2. ~Has(M, c, "LISTENING") /\ Has(M, c, "CONNECTION") /\ ~Has(M, c, "WRITABLE") /\ Has(M, c, "ENDGAME_QUEUED")
    BY <1>2, <1>14 DEF Has
  <2>3. M.write_reqs_pending[c] = Cardinality(WritesOf(Q, c)) + One(k.handle = c /\ k.kind = "write")
    BY <1>2, <1>14 DEF Shuts
  <2>4. ShutdownReq(c) \in M.active_reqs /\ c \in M.shutdown_req /\ ~InShutdown(k, c)
    BY <1>2, <1>10, <1>12, <1>14 DEF r
  <2>5. \A y \in WriteReqs : y.handle = c => (y \in M.active_reqs <=> y \in Q)
    BY <1>2, <1>10, <1>12, <2>1 DEF Shuts
  <2> QED
    BY <2>2, <2>3, <2>4, <2>5 DEF Shuts
<1>19. HandleInv(M, Q, k, c)
  BY <1>1, <1>15, <1>16, <1>17, <1>18 DEF HandleInv
<1> QED
  BY <1>10, <1>13, <1>19 DEF T, r

LEMMA ClientShutsDownC ==
    ASSUME IInv, CInv, NEW c \in Conns, ClientShutsDown(c)
    PROVE  CInv'
<1> DEFINE r == ShutdownReq(c)
           Q == Queued(loop, work)
<1>1. /\ c \in Handles /\ c \notin Servers /\ c \notin Timers /\ LoopOK(loop) /\ loop.failed = {}
      /\ Placed(loop, work) /\ HandleInv(loop, Q, cb, c) /\ loop.active_reqs \in SUBSET ClientReqs
      /\ r \in ClientReqs /\ Q \in SUBSET IoReqs
  BY Kinds, InvIs, IoReqsAre
<1>2. Stages' /\ work' = work /\ cb' = cb /\ due' = due
  BY CallsC DEF ClientShutsDown
<1>3. /\ c \in loop.handle_queue /\ loop' = Shutdown(loop, c)
      /\ request' = [request EXCEPT ![r] = IF Has(loop, c, "WRITABLE") THEN "issued" ELSE @]
  BY DEF ClientShutsDown, Opened
<1>4. c \notin due' /\ due' \subseteq due \cup {c}
  BY <1>1, <1>2 DEF CInv, ActiveTimers
<1>5. request \in [ClientReqs -> {"free", "issued", "called"}]
  BY DEF IInv, TypeOK
<1> HIDE DEF Q
<1>6. CASE ~Has(loop, c, "WRITABLE")
  <2>1. loop' = loop
    BY <1>3, <1>6 DEF Shutdown
  <2>2. request' = request
    <3> HIDE DEF r
    <3> QED
      BY <1>3, <1>5, <1>6
  <2> QED
    BY <1>1, <1>2, <2>1, <2>2, UnchangedC
<1>7. CASE Has(loop, c, "WRITABLE")
  <2> DEFINE L == loop
             M == loop'
             k == cb
  <2>1. /\ LoopOK(L) /\ L.failed = {} /\ L.active_reqs \in SUBSET ClientReqs /\ Q \in SUBSET IoReqs
        /\ c \in Conns /\ HandleInv(L, Q, k, c) /\ c \in L.handle_queue
        /\ Has(L, c, "WRITABLE") /\ M = Shutdown(L, c)
    BY <1>1, <1>3, <1>7
  <2> HIDE DEF L, M, k
  <2>2. /\ M.failed = {} /\ M.active_reqs = L.active_reqs \cup {ShutdownReq(c)}
        /\ M.kernel = L.kernel /\ M.iocp = L.iocp /\ M.pending = L.pending
        /\ \A g \in Handles \ {c} : Alike(L, M, Q, Q, g)
        /\ HandleInv(M, Q, k, c)
    BY ONLY <2>1, ShutdownWaits
  <2> HIDE DEF r
  <2>3. /\ loop'.failed = {} /\ loop'.active_reqs = loop.active_reqs \cup {r}
        /\ loop.kernel = loop'.kernel /\ loop.iocp = loop'.iocp /\ loop.pending = loop'.pending
        /\ \A g \in Handles \ {c} : Alike(loop, loop', Q, Q, g)
        /\ HandleInv(loop', Q, cb, c)
    BY <2>2 DEF L, M, k, r
  <2>4. Queued(loop', work') = Q /\ Placed(loop', work')
    BY <1>1, <1>2, <2>3, QueuedIs DEF Q
  <2>5. loop'.active_reqs = {x \in ClientReqs : request'[x] = "issued"}
    <3>1. \A x \in ClientReqs : request'[x] = IF x = r THEN "issued" ELSE request[x]
      BY <1>3, <1>5, <1>7
    <3> QED
      BY <1>1, <2>3, <3>1 DEF CInv
  <2>6. HandleInv(loop', Queued(loop', work'), cb', c)
    BY <1>2, <2>3, <2>4
  <2> QED
    BY <1>1, <1>2, <1>4, <2>3, <2>4, <2>5, <2>6, StepC DEF Q
<1> QED
  BY <1>6, <1>7

\* uv_close of a stream that neither reads nor listens any longer.
LEMMA Closes ==
    ASSUME NEW L, LoopOK(L), L.failed = {}, NEW Q \in SUBSET IoReqs, NEW k, NEW h \in Servers \cup Conns,
           Lives(L, h), Counts(L, Q, k, h), h \in L.handle_queue,
           h \in Conns => Reads(L, Q, k, h) /\ Shuts(L, Q, k, h), NEW K, h \in Servers => Listens(K, Q, h),
           L.pending_accepts = K.pending_accepts, L.accept_socket = K.accept_socket,
           ~Has(L, h, "CLOSING"), ~Has(L, h, "READING"), ~Has(L, h, "LISTENING"), NEW B,
           B = HandleClosing(Clear(SetFlags(L, h, {"SOCKET_CLOSED"}), h, {"READABLE", "WRITABLE"}), h),
           NEW M, M = IF L.reqs_pending[h] = 0 THEN WantEndgame(B, h) ELSE B
    PROVE  (\E G : Becomes(L, M, h, G, L.activecnt[h], L.reqs_pending[h])) /\ HandleInv(M, Q, k, h)
<1> DEFINE A == SetFlags(L, h, {"SOCKET_CLOSED"})
           C == Clear(A, h, {"READABLE", "WRITABLE"})
           E == L.flags[h] \cup {"SOCKET_CLOSED"}
           F == E \ {"READABLE", "WRITABLE"}
           D == (F \cup {"CLOSING"}) \ {"ACTIVE"}
           G == IF L.reqs_pending[h] = 0 THEN D \cup {"ENDGAME_QUEUED"} ELSE D
           a == L.activecnt[h]
           p == L.reqs_pending[h]
<1>1. /\ h \in Handles /\ h \notin Timers /\ {"SOCKET_CLOSED"} \in SUBSET OtherFlags
      /\ {"READABLE", "WRITABLE"} \in SUBSET OtherFlags
  BY Kinds DEF OtherFlags, Flags
<1>2. Becomes(L, A, h, E, a, p)
  BY <1>1, OtherFlagsBecome
<1> HIDE DEF A
<1>3. LoopOK(A) /\ A.flags[h] = E /\ A.activecnt[h] = a /\ A.reqs_pending[h] = p
  BY <1>2 DEF Becomes
<1> HIDE DEF E
<1>4. Becomes(A, C, h, F, a, p)
  BY <1>1, <1>3, OtherFlagsBecome
<1>5. Becomes(L, C, h, F, a, p)
  BY <1>1, <1>2, <1>4, BecomesTrans
<1>6. B = HandleClosing(C, h)
  BY DEF A
<1> HIDE DEF C
<1>7. LoopOK(C) /\ C.flags[h] = F /\ C.activecnt[h] = a /\ C.reqs_pending[h] = p
  BY <1>5 DEF Becomes
<1>8. ~Has(C, h, "CLOSING")
  BY <1>7 DEF Has, E
<1> HIDE DEF F
<1>9. Becomes(C, B, h, D, a, p)
  BY <1>1, <1>6, <1>7, <1>8, HandleClosingBecomes
<1>10. Becomes(L, B, h, D, a, p)
  BY <1>1, <1>5, <1>9, BecomesTrans
<1> HIDE DEF D
<1>11. LoopOK(B) /\ B.flags[h] = D /\ B.activecnt[h] = a /\ B.reqs_pending[h] = p
  BY <1>10 DEF Becomes
<1>12. Becomes(B, M, h, G, a, p)
  BY <1>1, <1>11, WantEndgameBecomes, BecomesItself
<1>13. Becomes(L, M, h, G, a, p)
  BY <1>1, <1>10, <1>12, BecomesTrans
<1>14. /\ \A f : f \notin {"SOCKET_CLOSED", "READABLE", "WRITABLE", "CLOSING", "ACTIVE", "ENDGAME_QUEUED"}
                    => (f \in G <=> f \in L.flags[h])
       /\ "CLOSING" \in G /\ "ACTIVE" \notin G /\ "READABLE" \notin G /\ "WRITABLE" \notin G
       /\ "ENDGAME_QUEUED" \in L.flags[h] => "ENDGAME_QUEUED" \in G
       /\ L.reqs_pending[h] = 0 => "ENDGAME_QUEUED" \in G
  BY DEF D, F, E
<1> HIDE DEF G
<1>15. /\ M.flags[h] = G /\ M.activecnt[h] = a /\ M.reqs_pending[h] = p
       /\ M.write_reqs_pending = L.write_reqs_pending /\ M.shutdown_req = L.shutdown_req
       /\ M.handle_queue = L.handle_queue /\ M.active_reqs = L.active_reqs
       /\ M.pending_accepts = L.pending_accepts /\ M.accept_socket = L.accept_socket
  BY <1>13 DEF Becomes
<1>16. ~Has(L, h, "CLOSED") /\ p \in Int /\ p >= 0
  <2>2. Cardinality(Of(Q, h)) \in Nat
    BY ReqsAreFinite
  <2>3. One(Processing(k, h)) \in {0, 1} /\ One(h \in L.shutdown_req) \in {0, 1}
    BY DEF One
  <2>4. p \in Int /\ p >= 0
    BY <2>2, <2>3 DEF Counts
  <2> QED
    BY <2>4 DEF Lives
<1>17. Lives(M, h)
  BY <1>14, <1>15, <1>16 DEF Lives, Has
<1>18. Counts(M, Q, k, h)
  BY <1>14, <1>15, <1>16 DEF Counts, Has, One
<1>19. h \in Servers => Listens(M, Q, h)
  BY <1>14, <1>15 DEF Listens, Has
<1>20. h \in Conns => Reads(M, Q, k, h)
  BY <1>14, <1>15 DEF Reads, Has
<1>21. h \in Conns => Shuts(M, Q, k, h)
  BY <1>14, <1>15 DEF Shuts, Has
<1> QED
  BY <1>1, <1>13, <1>17, <1>18, <1>19, <1>20, <1>21 DEF HandleInv

\* A server stops listening, to close.
LEMMA ListenStops ==
    ASSUME NEW L, LoopOK(L), L.failed = {}, NEW Q \in SUBSET IoReqs, NEW k, NEW s \in Servers,
           HandleInv(L, Q, k, s), Has(L, s, "LISTENING"),
           NEW M, M = DecreaseActiveCount(Clear(L, s, {"LISTENING"}), s)
    PROVE  /\ \E G \in SUBSET Flags : \E a :
                 /\ Becomes(L, M, s, G, a, L.reqs_pending[s])
                 /\ \A f : f # "ACTIVE" => (f \in G <=> f \in L.flags[s] /\ f \notin {"LISTENING"})
           /\ Lives(M, s) /\ Counts(M, Q, k, s)
<1>1. /\ s \in Handles /\ {"LISTENING"} \in SUBSET OtherFlags
      /\ Lives(L, s) /\ Counts(L, Q, k, s) /\ ~Has(L, s, "READING")
      /\ L.activecnt[s] = 1 /\ Cardinality(Of(L.active_reqs, s)) = 0
  <2>1. L.activecnt[s] = 1 /\ Cardinality(Of(L.active_reqs, s)) = 0
    BY ServerActivity DEF One
  <2> QED
    BY <2>1, Kinds DEF OtherFlags, Flags, HandleInv, Listens
<1>2. PICK G \in SUBSET Flags :
         /\ Becomes(L, M, s, G, L.activecnt[s] - 1, L.reqs_pending[s])
         /\ \A f : f # "ACTIVE" => (f \in G <=> f \in L.flags[s] /\ f \notin {"LISTENING"})
         /\ "ACTIVE" \in G <=> Has(L, s, "ACTIVE") /\ ~(L.activecnt[s] = 1 /\ ~Has(L, s, "CLOSING"))
  BY <1>1, StopsBecomes
<1>3. /\ M.flags[s] = G /\ M.activecnt[s] = 0 /\ M.reqs_pending[s] = L.reqs_pending[s]
      /\ M.active_reqs = L.active_reqs /\ M.shutdown_req = L.shutdown_req /\ M.handle_queue = L.handle_queue
  BY <1>1, <1>2 DEF Becomes
<1>4. Lives(M, s)
  BY <1>1, <1>2, <1>3 DEF Lives, Has
<1>5. Counts(M, Q, k, s)
  <2>1. One(Has(M, s, "READING")) = 0 /\ One(Has(M, s, "LISTENING")) = 0 /\ Cardinality(Of(M.active_reqs, s)) = 0
    BY <1>1, <1>2, <1>3 DEF One, Has
  <2>2. ~Has(M, s, "CLOSING") => ~Has(M, s, "ACTIVE")
    BY <1>1, <1>2, <1>3 DEF Has
  <2> QED
    BY <1>1, <1>3, <2>1, <2>2 DEF Counts
<1> QED
  BY <1>2, <1>4, <1>5

\* uv_tcp_close: what reads or listens stops first.
LEMMA TcpCloses ==
    ASSUME NEW L, LoopOK(L), L.failed = {}, L.active_reqs \in SUBSET ClientReqs, NEW Q \in SUBSET IoReqs, NEW k,
           NEW h \in Servers \cup Conns, HandleInv(L, Q, k, h), h \in L.handle_queue,
           ~Has(L, h, "CLOSING"), ~(k.handle = h /\ k.kind = "alloc"), NEW M, M = TcpClose(L, h)
    PROVE  (\E G : \E a : Becomes(L, M, h, G, a, L.reqs_pending[h])) /\ HandleInv(M, Q, k, h)
<1> DEFINE C == StopIf(L, h, "READING")
           A == StopIf(C, h, "LISTENING")
           B == HandleClosing(Clear(SetFlags(A, h, {"SOCKET_CLOSED"}), h, {"READABLE", "WRITABLE"}), h)
<1>1. h \in Handles /\ h \notin Timers /\ (h \in Servers <=> h \notin Conns)
  BY Kinds
<1>2. M = IF L.reqs_pending[h] = 0 THEN WantEndgame(B, h) ELSE B
  BY DEF TcpClose
<1> HIDE DEF B
<1>3. /\ \E G : \E a : Becomes(L, A, h, G, a, L.reqs_pending[h])
      /\ Lives(A, h) /\ Counts(A, Q, k, h)
      /\ h \in Conns => Reads(A, Q, k, h) /\ Shuts(A, Q, k, h)
      /\ ~Has(A, h, "READING") /\ ~Has(A, h, "LISTENING") /\ ~Has(A, h, "CLOSING")
  <2>1. CASE h \in Conns /\ Has(L, h, "READING")
    <3>1. C = DecreaseActiveCount(Clear(L, h, {"READING"}), h)
      BY <2>1 DEF StopIf
    <3>2. {"READING"} \in {{"READING"}, {"READING", "READABLE"}}
      OBVIOUS
    <3> HIDE DEF C
    <3>3. /\ \E G \in SUBSET Flags : \E a : Becomes(L, C, h, G, a, L.reqs_pending[h])
          /\ HandleInv(C, Q, k, h) /\ ~Has(C, h, "READING") /\ ~Has(C, h, "CLOSING")
      BY <2>1, <3>1, <3>2, ReadStops
    <3>4. Lives(C, h) /\ Counts(C, Q, k, h) /\ Reads(C, Q, k, h) /\ Shuts(C, Q, k, h)
      BY <2>1, <3>3 DEF HandleInv
    <3>5. ~Has(C, h, "LISTENING")
      BY <3>4 DEF Shuts
    <3>6. A = C
      BY <3>5 DEF StopIf
    <3> HIDE DEF A
    <3> QED
      BY <3>3, <3>4, <3>5, <3>6
  <2>2. CASE h \in Conns /\ ~Has(L, h, "READING")
    <3>1. Lives(L, h) /\ Counts(L, Q, k, h) /\ Reads(L, Q, k, h) /\ Shuts(L, Q, k, h)
      BY <2>2 DEF HandleInv
    <3>2. ~Has(L, h, "LISTENING")
      BY <3>1 DEF Shuts
    <3>3. A = L
      BY <2>2, <3>2 DEF StopIf
    <3> HIDE DEF A, C
    <3> QED
      BY <1>1, <2>2, <3>1, <3>2, <3>3, BecomesItself
  <2>3. CASE h \in Servers
    <3>1. Lives(L, h) /\ Counts(L, Q, k, h) /\ Listens(L, Q, h)
      BY <2>3 DEF HandleInv
    <3>2. ~Has(L, h, "READING")
      BY <3>1 DEF Listens
    <3>3. C = L
      BY <3>2 DEF StopIf
    <3>4. CASE Has(L, h, "LISTENING")
      <4>1. A = DecreaseActiveCount(Clear(L, h, {"LISTENING"}), h)
        BY <3>3, <3>4 DEF StopIf
      <4> HIDE DEF A, C
      <4>2. /\ \E G \in SUBSET Flags : \E a :
                 /\ Becomes(L, A, h, G, a, L.reqs_pending[h])
                 /\ \A f : f # "ACTIVE" => (f \in G <=> f \in L.flags[h] /\ f \notin {"LISTENING"})
            /\ Lives(A, h) /\ Counts(A, Q, k, h)
        BY <2>3, <3>4, <4>1, ListenStops
      <4>3. PICK G \in SUBSET Flags : \E a :
                 /\ Becomes(L, A, h, G, a, L.reqs_pending[h])
                 /\ \A f : f # "ACTIVE" => (f \in G <=> f \in L.flags[h] /\ f \notin {"LISTENING"})
        BY <4>2
      <4>4. A.flags[h] = G
        BY <4>3 DEF Becomes
      <4>5. ~Has(A, h, "READING") /\ ~Has(A, h, "LISTENING") /\ ~Has(A, h, "CLOSING")
        BY <3>2, <4>3, <4>4 DEF Has
      <4> QED
        BY <1>1, <2>3, <4>2, <4>3, <4>5
    <3>5. CASE ~Has(L, h, "LISTENING")
      <4>1. A = L
        BY <3>3, <3>5 DEF StopIf
      <4> HIDE DEF A, C
      <4> QED
        BY <1>1, <2>3, <3>1, <3>2, <3>5, <4>1, BecomesItself
    <3> QED
      BY <3>4, <3>5
  <2> QED
    BY <1>1, <2>1, <2>2, <2>3
<1> HIDE DEF A, C
<1>4. PICK G : \E a : Becomes(L, A, h, G, a, L.reqs_pending[h])
  BY <1>3
<1>5. PICK a : Becomes(L, A, h, G, a, L.reqs_pending[h])
  BY <1>4
<1>6. /\ LoopOK(A) /\ A.failed = {} /\ A.reqs_pending[h] = L.reqs_pending[h] /\ h \in A.handle_queue
      /\ A.pending_accepts = L.pending_accepts /\ A.accept_socket = L.accept_socket
      /\ A.activecnt[h] = a
  BY <1>5 DEF Becomes
<1>7. h \in Servers => Listens(L, Q, h)
  BY DEF HandleInv
<1>8. M = IF A.reqs_pending[h] = 0 THEN WantEndgame(B, h) ELSE B
  BY <1>2, <1>6
<1>9. (\E F : Becomes(A, M, h, F, A.activecnt[h], A.reqs_pending[h])) /\ HandleInv(M, Q, k, h)
  <2>1. B = HandleClosing(Clear(SetFlags(A, h, {"SOCKET_CLOSED"}), h, {"READABLE", "WRITABLE"}), h)
    BY DEF B
  <2>2. /\ LoopOK(A) /\ A.failed = {} /\ Q \in SUBSET IoReqs /\ h \in Servers \cup Conns
        /\ Lives(A, h) /\ Counts(A, Q, k, h) /\ h \in A.handle_queue
        /\ h \in Conns => Reads(A, Q, k, h) /\ Shuts(A, Q, k, h)
        /\ h \in Servers => Listens(L, Q, h)
        /\ A.pending_accepts = L.pending_accepts /\ A.accept_socket = L.accept_socket
        /\ ~Has(A, h, "CLOSING") /\ ~Has(A, h, "READING") /\ ~Has(A, h, "LISTENING")
    BY <1>3, <1>6, <1>7
  <2> QED
    BY ONLY <1>8, <2>1, <2>2, Closes
<1>10. PICK F : Becomes(A, M, h, F, A.activecnt[h], A.reqs_pending[h])
  BY <1>9
<1>11. Becomes(L, M, h, F, A.activecnt[h], A.reqs_pending[h])
  BY <1>1, <1>5, <1>10, BecomesTrans
<1> QED
  BY <1>6, <1>9, <1>11

LEMMA TimerCloses ==
    ASSUME NEW L, LoopOK(L), L.failed = {}, NEW Q, NEW k, NEW t \in Timers, HandleInv(L, Q, k, t),
           t \in L.handle_queue, ~Has(L, t, "CLOSING"), NEW M, M = TimerClose(L, t)
    PROVE  (\E G : Becomes(L, M, t, G, L.activecnt[t], L.reqs_pending[t])) /\ HandleInv(M, Q, k, t)
<1> DEFINE A == TimerStop(L, t)
           B == HandleClosing(A, t)
           E == L.flags[t] \ {"ACTIVE"}
           D == (E \cup {"CLOSING"}) \ {"ACTIVE"}
           G == D \cup {"ENDGAME_QUEUED"}
           a == L.activecnt[t]
           p == L.reqs_pending[t]
<1>1. /\ t \in Handles /\ t \notin Servers /\ t \notin Conns /\ Lives(L, t) /\ p = 0
      /\ L.flags[t] \cap {"LISTENING", "READING", "READABLE", "WRITABLE"} = {}
  BY Kinds DEF HandleInv
<1>2. M = WantEndgame(B, t)
  BY DEF TimerClose
<1>3. Becomes(L, A, t, E, a, p)
  BY TimerBecomes
<1> HIDE DEF A
<1>4. LoopOK(A) /\ A.flags[t] = E /\ A.activecnt[t] = a /\ A.reqs_pending[t] = p /\ ~Has(A, t, "CLOSING")
  BY <1>3 DEF Becomes, Has
<1> HIDE DEF E
<1>5. Becomes(A, B, t, D, a, p)
  BY <1>1, <1>4, HandleClosingBecomes
<1>6. Becomes(L, B, t, D, a, p)
  BY <1>1, <1>3, <1>5, BecomesTrans
<1> HIDE DEF B, D
<1>7. LoopOK(B) /\ B.flags[t] = D /\ B.activecnt[t] = a /\ B.reqs_pending[t] = p
  BY <1>6 DEF Becomes
<1>8. Becomes(B, M, t, G, a, p)
  BY <1>1, <1>2, <1>7, WantEndgameBecomes
<1>9. Becomes(L, M, t, G, a, p)
  BY <1>1, <1>6, <1>8, BecomesTrans
<1>10. /\ \A f : f \notin {"ACTIVE", "CLOSING", "ENDGAME_QUEUED"} => (f \in G <=> f \in L.flags[t])
       /\ "CLOSING" \in G /\ "ACTIVE" \notin G /\ "ENDGAME_QUEUED" \in G
  BY DEF D, E
<1> HIDE DEF G
<1>11. M.flags[t] = G /\ M.reqs_pending[t] = 0 /\ M.handle_queue = L.handle_queue
  BY <1>1, <1>9 DEF Becomes
<1>12. ~Has(L, t, "CLOSED") /\ G \cap {"LISTENING", "READING", "READABLE", "WRITABLE"} = {}
  BY <1>1, <1>10 DEF Lives
<1>13. Lives(M, t)
  BY <1>10, <1>11, <1>12 DEF Lives, Has
<1>14. HandleInv(M, Q, k, t)
  BY <1>1, <1>11, <1>12, <1>13 DEF HandleInv
<1> QED
  BY <1>9, <1>14

LEMMA ClientClosesC ==
    ASSUME IInv, CInv, NEW h \in Handles, ClientCloses(h)
    PROVE  CInv'
<1> DEFINE Q == Queued(loop, work)
           L == loop
           M == loop'
           k == cb
<1>1. /\ LoopOK(L) /\ L.failed = {} /\ HandleInv(L, Q, k, h)
      /\ L.active_reqs \in SUBSET ClientReqs /\ Q \in SUBSET IoReqs
  BY InvIs
<1>2. Stages' /\ work' = work /\ cb' = cb /\ due' = due \ {h} /\ request' = request
  BY CallsC DEF ClientCloses
<1>3. h \in L.handle_queue /\ ~Has(L, h, "CLOSING") /\ M = Close(L, h) /\ ~(k.handle = h /\ k.kind = "alloc")
  BY DEF ClientCloses, Open, Opened, MayStop, Allocating, CInv, Spared
<1>4. due' \subseteq due \cup {h} /\ h \notin due'
  BY <1>2
<1> HIDE DEF Q, L, M, k
<1>5. (\E G : \E a : Becomes(L, M, h, G, a, L.reqs_pending[h])) /\ HandleInv(M, Q, k, h)
  <2>1. CASE h \in Timers
    <3>1. M = TimerClose(L, h)
      BY <1>3, <2>1 DEF Close
    <3>2. (\E G : Becomes(L, M, h, G, L.activecnt[h], L.reqs_pending[h])) /\ HandleInv(M, Q, k, h)
      BY ONLY <1>1, <1>3, <2>1, <3>1, TimerCloses
    <3> QED
      BY <3>2
  <2>2. CASE h \notin Timers
    <3>1. M = TcpClose(L, h) /\ h \in Servers \cup Conns
      BY <1>3, <2>2 DEF Close, Handles
    <3> QED
      BY ONLY <1>1, <1>3, <3>1, TcpCloses
  <2> QED
    BY <2>1, <2>2
<1>6. PICK G : \E a : Becomes(L, M, h, G, a, L.reqs_pending[h])
  BY <1>5
<1>7. PICK a : Becomes(L, M, h, G, a, L.reqs_pending[h])
  BY <1>6
<1>8. Becomes(loop, loop', h, G, a, loop.reqs_pending[h])
  BY <1>7 DEF L, M
<1>9. HandleInv(loop', Queued(loop, work), cb', h)
  BY <1>2, <1>5 DEF M, Q, k
<1> QED
  BY <1>2, <1>4, <1>8, <1>9, BecomesC

\* The head of a sequence without repetitions.
LEMMA FirstTaken ==
    ASSUME NEW S, NEW q \in Seq(S), q # << >>, \A i, j \in DOMAIN q : q[i] = q[j] => i = j
    PROVE  /\ Head(q) \in S /\ Tail(q) \in Seq(S) /\ (\E i \in DOMAIN q : q[i] = Head(q))
           /\ \A i \in DOMAIN Tail(q) : Tail(q)[i] # Head(q) /\ \E j \in DOMAIN q : q[j] = Tail(q)[i]
           /\ \A i, j \in DOMAIN Tail(q) : Tail(q)[i] = Tail(q)[j] => i = j
           /\ \A i \in DOMAIN q : q[i] = Head(q) \/ \E j \in DOMAIN Tail(q) : Tail(q)[j] = q[i]
<1> DEFINE n == Len(q)
           t == Tail(q)
<1>1. /\ n \in Nat \ {0} /\ DOMAIN q = 1..n /\ DOMAIN t = 1..(n - 1) /\ Head(q) = q[1]
      /\ \A i \in 1..(n - 1) : t[i] = q[i + 1]
      /\ Head(q) \in S /\ t \in Seq(S)
  OBVIOUS
<1> HIDE DEF n, t
<1>2. /\ 1 \in 1..n
      /\ \A i \in 1..(n - 1) : i + 1 \in 1..n /\ i + 1 # 1
      /\ \A i \in 1..n : i # 1 => i - 1 \in 1..(n - 1) /\ (i - 1) + 1 = i
      /\ \A i, j \in 1..(n - 1) : i + 1 = j + 1 => i = j
  BY <1>1
<1>3. ASSUME NEW i \in 1..(n - 1)
      PROVE  t[i] # Head(q) /\ \E j \in 1..n : q[j] = t[i]
  <2>1. i + 1 \in DOMAIN q /\ 1 \in DOMAIN q /\ t[i] = q[i + 1] /\ i + 1 # 1
    BY <1>1, <1>2
  <2>2. q[i + 1] # q[1]
    BY <2>1
  <2> QED
    BY <1>1, <2>1, <2>2
<1>4. ASSUME NEW i \in 1..(n - 1), NEW j \in 1..(n - 1), t[i] = t[j]
      PROVE  i = j
  <2>1. i + 1 \in DOMAIN q /\ j + 1 \in DOMAIN q /\ q[i + 1] = q[j + 1]
    BY <1>1, <1>2, <1>4
  <2>2. i + 1 = j + 1
    BY <2>1
  <2> QED
    BY <1>2, <2>2
<1>5. ASSUME NEW i \in 1..n, q[i] # Head(q)
      PROVE  \E j \in 1..(n - 1) : t[j] = q[i]
  <2>1. i # 1
    BY <1>1, <1>5
  <2>2. i - 1 \in 1..(n - 1) /\ t[i - 1] = q[i]
    BY <1>1, <1>2, <2>1
  <2> QED
    BY <2>2
<1>6. /\ \A i \in DOMAIN t : t[i] # Head(q) /\ \E j \in DOMAIN q : q[j] = t[i]
      /\ \A i, j \in DOMAIN t : t[i] = t[j] => i = j
      /\ \A i \in DOMAIN q : q[i] = Head(q) \/ \E j \in DOMAIN t : t[j] = q[i]
  BY <1>1, <1>3, <1>4, <1>5
<1> QED
  BY <1>1, <1>2, <1>6 DEF t

\* uv_tcp_accept takes the newest connection, and queues its request again.
LEMMA AcceptIsQueuedAgain ==
    ASSUME NEW L, LoopOK(L), L.failed = {}, NEW W, Placed(L, W), NEW Q, Q = Queued(L, W), NEW k, NEW s \in Servers,
           HandleInv(L, Q, k, s), s \in L.handle_queue, L.pending_accepts[s] # << >>,
           NEW r, r = Head(L.pending_accepts[s]), NEW how \in AcceptAnswers, NEW B,
           B = [L EXCEPT !.pending_accepts[s] = Tail(@), !.accept_socket = @ \ {r}],
           NEW M, M = IF Has(L, s, "CLOSING") THEN B ELSE QueueAccept(B, r, how)
    PROVE  Queues(L, M, W, Q, Queued(M, W), s) /\ HandleInv(M, Queued(M, W), k, s)
<1> DEFINE q == L.pending_accepts[s]
           t == Tail(q)
           R == Q \cup {r}
<1>1. /\ L \in LoopType /\ s \in Handles /\ s \notin Timers /\ s \notin Conns
      /\ q \in Seq(AcceptReqs)
  BY Kinds, FieldsAre DEF LoopOK
<1>2. Lives(L, s) /\ Counts(L, Q, k, s) /\ Listens(L, Q, s)
  BY DEF HandleInv
<1>3. /\ r \in AcceptReqs /\ t \in Seq(AcceptReqs) /\ (\E i \in DOMAIN q : q[i] = r)
      /\ \A i \in DOMAIN t : t[i] # r /\ \E j \in DOMAIN q : q[j] = t[i]
      /\ \A i, j \in DOMAIN t : t[i] = t[j] => i = j
      /\ \A i \in DOMAIN q : q[i] = r \/ \E j \in DOMAIN t : t[j] = q[i]
  <2>1. q # << >> /\ (\A i, j \in DOMAIN q : q[i] = q[j] => i = j) /\ r = Head(q)
    BY <1>2 DEF Listens
  <2> HIDE DEF q
  <2> QED
    BY <1>1, <2>1, FirstTaken
<1>4. /\ B.pending_accepts[s] = t /\ B.accept_socket = L.accept_socket \ {r}
      /\ \A g \in Handles \ {s} : B.pending_accepts[g] = L.pending_accepts[g]
      /\ B.flags = L.flags /\ B.activecnt = L.activecnt
      /\ B.reqs_pending = L.reqs_pending /\ B.write_reqs_pending = L.write_reqs_pending
      /\ B.shutdown_req = L.shutdown_req /\ B.handle_queue = L.handle_queue /\ B.active_reqs = L.active_reqs
      /\ B.kernel = L.kernel /\ B.iocp = L.iocp /\ B.pending = L.pending /\ B.failed = L.failed
      /\ B.active_handles = L.active_handles /\ B.endgame = L.endgame /\ B \in LoopType
  <2> DEFINE P == [L.pending_accepts EXCEPT ![s] = t]
             X == L.accept_socket \ {r}
  <2>1. B = [L EXCEPT !.pending_accepts = P, !.accept_socket = X]
    OBVIOUS
  <2>2. t \in Seq(AcceptReqs)
    BY <1>3
  <2> HIDE DEF t, q
  <2>3. L.pending_accepts \in [Handles -> Seq(AcceptReqs)] /\ X \in SUBSET AcceptReqs
    BY <1>1 DEF LoopType
  <2>4. P \in [Handles -> Seq(AcceptReqs)] /\ P[s] = t /\ \A g \in Handles \ {s} : P[g] = L.pending_accepts[g]
    BY <1>1, <2>2, <2>3
  <2> HIDE DEF P, X
  <2>5. B \in LoopType /\ B.pending_accepts = P /\ B.accept_socket = X
    BY <1>1, <2>1, <2>3, <2>4 DEF LoopType
  <2>6. /\ B.flags = L.flags /\ B.activecnt = L.activecnt
        /\ B.reqs_pending = L.reqs_pending /\ B.write_reqs_pending = L.write_reqs_pending
        /\ B.shutdown_req = L.shutdown_req /\ B.handle_queue = L.handle_queue /\ B.active_reqs = L.active_reqs
        /\ B.kernel = L.kernel /\ B.iocp = L.iocp /\ B.pending = L.pending /\ B.failed = L.failed
        /\ B.active_handles = L.active_handles /\ B.endgame = L.endgame
    BY <1>1, <2>1 DEF LoopType
  <2>7. X = L.accept_socket \ {r}
    BY DEF X
  <2> QED
    BY ONLY <2>4, <2>5, <2>6, <2>7
<1> HIDE DEF t
<1>5. r \in AcceptReqsOf(s) /\ r \notin Q /\ r.handle = s
  BY <1>2, <1>3 DEF Listens, AcceptReqsOf
<1> HIDE DEF q
<1>6. LoopOK(B)
  BY <1>4, SameOK DEF Same
<1>7. Placed(B, W) /\ Queued(B, W) = Q
  <2>1. /\ L.kernel = B.kernel /\ L.iocp = B.iocp /\ L.pending = B.pending
        /\ Placed(L, W) /\ Q = Queued(L, W)
    BY <1>4
  <2> QED
    BY ONLY <2>1, QueuedIs
<1>8. Lives(B, s) /\ Counts(B, Q, k, s)
  BY <1>2, <1>4 DEF Lives, Counts, Has
<1>9. \A g \in Handles \ {s} : Alike(L, B, Q, Q, g)
  <2>1. \A g \in Handles \ {s} : Of(B.accept_socket, g) = Of(L.accept_socket, g)
    BY <1>4, <1>5 DEF Of
  <2> QED
    BY <1>4, <2>1 DEF Alike
<1>10. /\ ~Has(L, s, "READING")
       /\ Has(L, s, "LISTENING") => \A x \in AcceptReqsOf(s) : x \in Q \/ \E i \in DOMAIN q : q[i] = x
       /\ Has(L, s, "LISTENING") \/ Has(L, s, "CLOSING")
       /\ \A i \in DOMAIN q : q[i] \in AcceptReqsOf(s) \ Q /\ q[i] \in L.accept_socket
       /\ ~AcceptMayFail => Of(Q, s) \subseteq L.accept_socket
  BY <1>2 DEF Listens, q
<1>11. /\ \A i \in DOMAIN t : t[i] \in AcceptReqsOf(s) \ R /\ t[i] \in B.accept_socket
       /\ ~AcceptMayFail => Of(Q, s) \subseteq B.accept_socket
  <2>1. \A i \in DOMAIN t : t[i] \in AcceptReqsOf(s) \ R /\ t[i] \in B.accept_socket
    BY <1>3, <1>4, <1>10
  <2>2. ~AcceptMayFail => Of(Q, s) \subseteq B.accept_socket
    BY <1>4, <1>5, <1>10 DEF Of
  <2> QED
    BY <2>1, <2>2
<1>12. CASE ~Has(L, s, "CLOSING")
  <2>1. \A x \in AcceptReqsOf(s) : x \in R \/ \E i \in DOMAIN t : t[i] = x
    BY <1>3, <1>10, <1>12
  <2> HIDE DEF R
  <2>2. Listening(B, Q, R, s)
    <3>1. Has(B, s, "LISTENING") /\ ~Has(B, s, "READING")
      BY <1>4, <1>10, <1>12 DEF Has
    <3>2. \A i, j \in DOMAIN t : t[i] = t[j] => i = j
      BY <1>3
    <3>3. B.pending_accepts[s] = t
      BY <1>4
    <3> QED
      BY ONLY <1>11, <2>1, <3>1, <3>2, <3>3 DEF Listening
  <2>3. /\ B.failed = {} /\ M = QueueAccept(B, r, how) /\ r \notin B.accept_socket /\ R = Q \cup {r}
        /\ Q = Queued(B, W)
    BY <1>4, <1>7, <1>12 DEF R
  <2>4. Queues(B, M, W, Q, R, s) /\ HandleInv(M, R, k, s)
    BY ONLY <1>5, <1>6, <1>7, <1>8, <2>2, <2>3, QueueAcceptKeeps, s \in Servers, how \in AcceptAnswers
  <2>5. /\ LoopOK(M) /\ M.failed = {} /\ M.active_reqs = B.active_reqs /\ Placed(M, W) /\ Queued(M, W) = R
        /\ \A g \in Handles \ {s} : Alike(B, M, Q, R, g)
    BY <2>4 DEF Queues
  <2>6. \A g \in Handles \ {s} : Alike(L, M, Q, R, g)
    BY <1>9, <2>5, AlikeTrans
  <2> QED
    BY <1>4, <2>4, <2>5, <2>6 DEF Queues
<1>13. CASE Has(L, s, "CLOSING")
  <2>1. M = B /\ ~Has(B, s, "LISTENING") /\ ~Has(B, s, "READING") /\ Has(B, s, "CLOSING")
    BY <1>2, <1>4, <1>10, <1>13 DEF Lives, Has
  <2>2. Listens(B, Q, s)
    BY <1>3, <1>4, <1>11, <2>1 DEF Listens
  <2>3. HandleInv(B, Q, k, s)
    BY <1>1, <1>8, <2>2 DEF HandleInv
  <2> QED
    BY <1>4, <1>6, <1>7, <1>9, <2>1, <2>3 DEF Queues
<1> QED
  BY <1>12, <1>13

\* uv_tcp_set_socket makes a handle a connection; it had no writes and no shutdown.
LEMMA Connects ==
    ASSUME NEW L, LoopOK(L), L.failed = {}, NEW Q \in SUBSET IoReqs, NEW k, NEW c \in Conns, HandleInv(L, Q, k, c),
           c \in L.handle_queue, ~Has(L, c, "CLOSING"), ~Has(L, c, "CONNECTION"),
           NEW M, M = [SetFlags(L, c, {"CONNECTION", "READABLE", "WRITABLE"}) EXCEPT
                          !.write_reqs_pending[c] = 0, !.shutdown_req = @ \ {c}]
    PROVE  (\E G : Becomes(L, M, c, G, L.activecnt[c], L.reqs_pending[c])) /\ HandleInv(M, Q, k, c)
<1> DEFINE F == {"CONNECTION", "READABLE", "WRITABLE"}
           A == SetFlags(L, c, F)
           G == L.flags[c] \cup F
<1>1. c \in Handles /\ c \notin Servers /\ c \notin Timers /\ F \in SUBSET OtherFlags
  BY Kinds DEF OtherFlags, Flags
<1>2. Lives(L, c) /\ Counts(L, Q, k, c) /\ Reads(L, Q, k, c) /\ Shuts(L, Q, k, c)
  BY <1>1 DEF HandleInv
<1>3. Becomes(L, A, c, G, L.activecnt[c], L.reqs_pending[c])
  <2> HIDE DEF F
  <2> QED
    BY <1>1, OtherFlagsBecome
<1>4. L.write_reqs_pending[c] = 0 /\ c \notin L.shutdown_req
  BY <1>2 DEF Shuts
<1> HIDE DEF A, F
<1>5. /\ M \in LoopType /\ M.flags = A.flags /\ M.activecnt = A.activecnt /\ M.reqs_pending = A.reqs_pending
      /\ M.handle_queue = A.handle_queue /\ M.active_reqs = A.active_reqs
      /\ M.pending = A.pending /\ M.pending_accepts = A.pending_accepts /\ M.accept_socket = A.accept_socket
      /\ M.kernel = A.kernel /\ M.iocp = A.iocp /\ M.stop_flag = A.stop_flag /\ M.failed = A.failed
      /\ M.active_handles = A.active_handles /\ M.endgame = A.endgame
      /\ M.write_reqs_pending = A.write_reqs_pending /\ M.shutdown_req = A.shutdown_req
  <2>1. /\ A \in LoopType /\ A.write_reqs_pending = L.write_reqs_pending /\ A.shutdown_req = L.shutdown_req
        /\ A.write_reqs_pending \in [Handles -> Int]
    BY <1>3 DEF Becomes, LoopOK, LoopType
  <2>2. [A.write_reqs_pending EXCEPT ![c] = 0] = A.write_reqs_pending /\ A.shutdown_req \ {c} = A.shutdown_req
    BY <1>1, <1>4, <2>1
  <2>3. M = [A EXCEPT !.write_reqs_pending = A.write_reqs_pending, !.shutdown_req = A.shutdown_req]
    <3>1. M = [A EXCEPT !.write_reqs_pending = [A.write_reqs_pending EXCEPT ![c] = 0],
                        !.shutdown_req = A.shutdown_req \ {c}]
      BY DEF A, F
    <3> QED
      BY <2>2, <3>1
  <2>4. M = A
    BY ONLY <2>1, <2>3 DEF LoopType
  <2> QED
    BY ONLY <2>1, <2>4
<1>6. LoopOK(M)
  BY <1>3, <1>5, SameOK DEF Same, Becomes
<1>7. Becomes(L, M, c, G, L.activecnt[c], L.reqs_pending[c])
  BY <1>3, <1>5, <1>6 DEF Becomes
<1>8. /\ M.flags[c] = G /\ M.activecnt[c] = L.activecnt[c] /\ M.reqs_pending[c] = L.reqs_pending[c]
      /\ M.active_reqs = L.active_reqs /\ M.shutdown_req = L.shutdown_req /\ M.handle_queue = L.handle_queue
      /\ M.write_reqs_pending = L.write_reqs_pending
      /\ \A f : f \notin {"CONNECTION", "READABLE", "WRITABLE"} => (f \in G <=> f \in L.flags[c])
      /\ "CONNECTION" \in G
  BY <1>7 DEF Becomes, F
<1> HIDE DEF G
<1>9. Lives(M, c)
  BY <1>2, <1>8 DEF Lives, Has
<1>10. Counts(M, Q, k, c)
  BY <1>2, <1>8 DEF Counts, Has, One
<1>11. Reads(M, Q, k, c)
  BY <1>2, <1>8 DEF Reads, Has
<1>12. Shuts(M, Q, k, c)
  BY <1>2, <1>4, <1>8 DEF Shuts, Has, InShutdown
<1> QED
  BY <1>1, <1>7, <1>9, <1>10, <1>11, <1>12 DEF HandleInv

LEMMA ClientAcceptsC ==
    ASSUME IInv, CInv, NEW s \in Servers, NEW c \in Conns, ClientAccepts(s, c)
    PROVE  CInv'
<1> DEFINE Q == Queued(loop, work)
           L == loop
           M == loop'
           k == cb
           r == Head(L.pending_accepts[s])
<1>1. /\ s \in Handles /\ c \in Handles /\ s # c /\ s \notin Timers /\ c \notin Timers
      /\ LoopOK(L) /\ L.failed = {} /\ Placed(L, work)
      /\ \A g \in Handles : HandleInv(L, Q, k, g)
      /\ L.active_reqs \in SUBSET ClientReqs /\ Q \in SUBSET IoReqs /\ Q = Queued(L, work)
  BY Kinds, InvIs
<1>2. Stages' /\ work' = work /\ cb' = cb /\ due' = due /\ request' = request
  BY CallsC DEF ClientAccepts
<1>3. /\ s \in L.handle_queue /\ c \in L.handle_queue /\ ~Has(L, c, "CLOSING") /\ ~Has(L, c, "CONNECTION")
      /\ L.pending_accepts[s] # << >>
  BY DEF ClientAccepts, Open, Opened
<1>4. PICK sockOk \in BOOLEAN, how \in AcceptAnswers : M = TcpAccept(L, s, c, sockOk, how)
  BY DEF ClientAccepts
<1> DEFINE A == IF ~sockOk THEN L
                ELSE [SetFlags(L, c, {"CONNECTION", "READABLE", "WRITABLE"}) EXCEPT
                        !.write_reqs_pending[c] = 0, !.shutdown_req = @ \ {c}]
           B == [A EXCEPT !.pending_accepts[s] = Tail(@), !.accept_socket = @ \ {r}]
<1>5. M = IF Has(L, s, "CLOSING") THEN B ELSE QueueAccept(B, r, how)
  BY <1>4 DEF TcpAccept
<1> HIDE DEF Q, L, M, k, r, B
<1>6. \E F : Becomes(L, A, c, F, L.activecnt[c], L.reqs_pending[c])
  <2>1. CASE sockOk
    <3>1. A = [SetFlags(L, c, {"CONNECTION", "READABLE", "WRITABLE"}) EXCEPT
                 !.write_reqs_pending[c] = 0, !.shutdown_req = @ \ {c}]
      BY <2>1
    <3>2. HandleInv(L, Q, k, c)
      BY <1>1
    <3> HIDE DEF A
    <3> QED
      BY ONLY <1>1, <1>3, <3>1, <3>2, Connects, c \in Conns
  <2>2. CASE ~sockOk
    BY <1>1, <2>2, BecomesItself
  <2> QED
    BY <2>1, <2>2
<1>7. HandleInv(A, Q, k, c)
  <2>1. CASE sockOk
    <3>1. A = [SetFlags(L, c, {"CONNECTION", "READABLE", "WRITABLE"}) EXCEPT
                 !.write_reqs_pending[c] = 0, !.shutdown_req = @ \ {c}]
      BY <2>1
    <3>2. HandleInv(L, Q, k, c)
      BY <1>1
    <3> HIDE DEF A
    <3> QED
      BY ONLY <1>1, <1>3, <3>1, <3>2, Connects, c \in Conns
  <2>2. CASE ~sockOk
    BY <1>1, <2>2
  <2> QED
    BY <2>1, <2>2
<1> HIDE DEF A
<1>8. PICK F : Becomes(L, A, c, F, L.activecnt[c], L.reqs_pending[c])
  BY <1>6
<1>9. /\ LoopOK(A) /\ A.failed = {} /\ A.active_reqs = L.active_reqs
      /\ A.kernel = L.kernel /\ A.iocp = L.iocp /\ A.pending = L.pending
      /\ A.flags[s] = L.flags[s] /\ A.handle_queue = L.handle_queue /\ A.pending_accepts = L.pending_accepts
  BY <1>1, <1>8 DEF Becomes
<1>10. Placed(A, work) /\ Q = Queued(A, work)
  BY <1>1, <1>9, QueuedIs
<1>11. \A g \in Handles : HandleInv(A, Q, k, g)
  <2>1. \A g \in Handles \ {c} : Alike(L, A, Q, Q, g)
    BY <1>8, BecomesApart
  <2> QED
    BY ONLY <1>1, <1>7, <2>1, OneHandle
<1>12. Queues(A, M, work, Q, Queued(M, work), s) /\ HandleInv(M, Queued(M, work), k, s)
  <2>1. /\ LoopOK(A) /\ A.failed = {} /\ Placed(A, work) /\ Q = Queued(A, work)
        /\ HandleInv(A, Q, k, s) /\ s \in A.handle_queue /\ A.pending_accepts[s] # << >>
        /\ r = Head(A.pending_accepts[s])
        /\ B = [A EXCEPT !.pending_accepts[s] = Tail(@), !.accept_socket = @ \ {r}]
        /\ M = IF Has(A, s, "CLOSING") THEN B ELSE QueueAccept(B, r, how)
    BY <1>1, <1>3, <1>5, <1>9, <1>10, <1>11 DEF r, B, Has
  <2> QED
    BY ONLY <2>1, AcceptIsQueuedAgain, s \in Servers, how \in AcceptAnswers
<1>13. /\ M.failed = {} /\ M.active_reqs = A.active_reqs /\ Placed(M, work)
       /\ \A g \in Handles \ {s} : Alike(A, M, Q, Queued(M, work), g)
  BY <1>12 DEF Queues
<1>14. \A g \in Handles : HandleInv(M, Queued(M, work), k, g)
  BY ONLY <1>1, <1>11, <1>12, <1>13, OneHandle
<1>15. /\ loop'.failed = {} /\ loop'.active_reqs = loop.active_reqs /\ Placed(loop', work')
       /\ \A g \in Handles : HandleInv(loop', Queued(loop', work'), cb', g)
  BY <1>2, <1>9, <1>13, <1>14 DEF L, M, k
<1>16. due' \subseteq ActiveTimers(loop')
  <2>1. ASSUME NEW t \in due
        PROVE  t \in Timers /\ Has(loop', t, "ACTIVE")
    <3>1. t \in Timers /\ Has(L, t, "ACTIVE")
      BY <2>1 DEF CInv, ActiveTimers, L
    <3>2. t \in Handles /\ t # s /\ t # c
      BY <1>1, <3>1, Kinds
    <3>3. M.flags[t] = A.flags[t] /\ A.flags[t] = L.flags[t]
      BY <1>8, <1>13, <3>2 DEF Alike, Becomes
    <3> QED
      BY <3>1, <3>3 DEF M, Has
  <2> QED
    BY <1>2, <2>1 DEF ActiveTimers
<1> QED
  BY <1>2, <1>15, <1>16 DEF CInv

-----------------------------------------------------------------------------
\* The invariant holds at first and is kept.

LEMMA CounterInit ==
    ASSUME Spared, Init
    PROVE  CInv
<1> DEFINE L == LoopInit
           k == NoCallback
           Q == Queued(L, << >>)
<1>1. /\ \A h \in Handles : /\ L.flags[h] = {} /\ L.activecnt[h] = 0 /\ L.reqs_pending[h] = 0
                            /\ L.write_reqs_pending[h] = 0 /\ L.pending_accepts[h] = << >>
      /\ L.shutdown_req = {} /\ L.handle_queue = {} /\ L.active_reqs = {} /\ L.accept_socket = {}
      /\ L.kernel = {} /\ L.iocp = << >> /\ L.pending = << >> /\ L.failed = {}
  BY DEF LoopInit
<1>2. k.kind = "none"
  BY DEF NoCallback, Callback
<1>3. Q = {}
  BY <1>1, EmptyQueue DEF Queued
<1>4. Placed(L, << >>)
  BY <1>1, EmptyQueue DEF Placed
<1> HIDE DEF L, k, Q
<1>5. /\ \A h : Of({}, h) = {} /\ WritesOf({}, h) = {}
      /\ Cardinality({}) = 0
  BY FS_EmptySet DEF Of, WritesOf
<1>6. ASSUME NEW h \in Handles
      PROVE  HandleInv(L, Q, k, h)
  <2>1. Lives(L, h)
    BY <1>1 DEF Lives, Has
  <2>2. Counts(L, Q, k, h)
    <3>1. /\ One(Has(L, h, "READING")) = 0 /\ One(Has(L, h, "LISTENING")) = 0 /\ One(Processing(k, h)) = 0
          /\ One(h \in L.shutdown_req) = 0 /\ ~Has(L, h, "ACTIVE")
      BY <1>1, <1>2 DEF One, Has, Processing
    <3>2. Cardinality(Of(L.active_reqs, h)) = 0 /\ Cardinality(Of(Q, h)) = 0
      BY <1>1, <1>3, <1>5
    <3>3. L.activecnt[h] = 0 /\ L.reqs_pending[h] = 0
      BY <1>1
    <3> QED
      BY ONLY <3>1, <3>2, <3>3 DEF Counts
  <2>3. Listens(L, Q, h)
    <3>1. \A i : i \notin DOMAIN << >>
      OBVIOUS
    <3> QED
      BY <1>1, <1>3, <1>5, <3>1 DEF Listens, Has
  <2>4. Reads(L, Q, k, h)
    BY <1>1, <1>2, <1>3 DEF Reads, Has
  <2>5. h \in Conns => Shuts(L, Q, k, h)
    <3>1. One(k.handle = h /\ k.kind = "write") = 0
      BY <1>2 DEF One
    <3>2. Cardinality(WritesOf(Q, h)) = 0 /\ L.write_reqs_pending[h] = 0 /\ L.flags[h] = {}
      BY <1>1, <1>3, <1>5
    <3>3. ~InShutdown(k, h) /\ h \notin L.shutdown_req
      BY <1>1, <1>2 DEF InShutdown
    <3> QED
      BY ONLY <1>1, <1>3, <3>1, <3>2, <3>3 DEF Shuts, Has
  <2> QED
    BY <1>1, <2>1, <2>2, <2>3, <2>4, <2>5 DEF HandleInv
<1>7. loop.active_reqs = {r \in ClientReqs : request[r] = "issued"}
  BY <1>1 DEF Init, L
<1>8. Stages
  BY <1>2 DEF Stages, Init, k
<1> QED
  BY <1>1, <1>4, <1>6, <1>7, <1>8 DEF CInv, Init, L, k, Q

LEMMA ClientStepC ==
    ASSUME IInv, CInv, ClientStep
    PROVE  CInv'
<1>1. Unrefable \subseteq Handles
  BY EnvironmentAssumption
<1> QED
  BY <1>1, ClientOpensC, ClientClosesC, ClientRefsC, ClientListensC, ClientAcceptsC, ClientStartsReadingC,
     ClientStopsReadingC, ClientShutsDownC, ClientWritesC, ClientTimersC, ClientStopsC DEF ClientStep

LEMMA CounterNext ==
    ASSUME IInv, CInv, [Next]_vars
    PROVE  CInv'
<1>1. CASE LibraryStep
  BY <1>1, RunC, FireTimerC, TimersEndC, ProcessReadReqC, ReadMoreC, ProcessWriteReqC, ProcessAcceptReqC,
     ReqsEndC, PollC, ProcessEndgameC, CallbackReturnsC DEF LibraryStep
<1>2. CASE \E r \in IoReqs : KernelCompletes(r)
  BY <1>2, KernelCompletesC
<1>3. CASE ClientStep
  BY <1>3, ClientStepC
<1>4. CASE UNCHANGED vars
  BY <1>4 DEF vars, CInv, Stages, ActiveTimers
<1> QED
  BY <1>1, <1>2, <1>3, <1>4 DEF Next

-----------------------------------------------------------------------------
\* What it says of the counters: requests are counted packet by packet.

LEMMA PacketsAre ==
    ASSUME NEW q \in Seq(Packets), Once(q), NEW h, NEW S, S = {r \in IoReqs : InQ(q, r) /\ r.handle = h}
    PROVE  IsFiniteSet(S) /\ Cardinality(S) = PacketsOf(q, h)
<1> DEFINE D == {i \in DOMAIN q : q[i].req.handle = h}
           f == [i \in D |-> q[i].req]
           n == Len(q)
<1>1. n \in Nat /\ DOMAIN q = 1..n
  OBVIOUS
<1>2. IsFiniteSet(D)
  <2>1. IsFiniteSet(1..n)
    <3> HIDE DEF n
    <3> QED
      BY <1>1, FS_Interval
  <2>2. D \in SUBSET (1..n)
    BY <1>1
  <2> HIDE DEF D, n
  <2> QED
    BY <2>1, <2>2, FS_Subset
<1>3. f \in [D -> S]
  BY QueueOfRequests
<1>4. \A i, j \in D : f[i] = f[j] => i = j
  BY DEF Once
<1>5. \A r \in S : \E i \in D : f[i] = r
  BY DEF InQ
<1>6. PacketsOf(q, h) = Cardinality(D)
  BY DEF PacketsOf
<1> HIDE DEF D, f
<1>7. f \in Bijection(D, S)
  BY <1>3, <1>4, <1>5 DEF Bijection, Injection, Surjection, IsInjective
<1> QED
  BY <1>2, <1>6, <1>7, FS_Bijection DEF ExistsBijection

\* Four sets of which no two have a member in common.
LEMMA FourSets ==
    ASSUME NEW A, IsFiniteSet(A), NEW B, IsFiniteSet(B), NEW C, IsFiniteSet(C), NEW D, IsFiniteSet(D),
           A \cap B = {}, (A \cup B) \cap C = {}, ((A \cup B) \cup C) \cap D = {}
    PROVE  Cardinality(((A \cup B) \cup C) \cup D) = Cardinality(A) + Cardinality(B) + Cardinality(C) + Cardinality(D)
<1>1. /\ Cardinality(A) \in Nat /\ Cardinality(B) \in Nat /\ Cardinality(C) \in Nat /\ Cardinality(D) \in Nat
      /\ Cardinality({}) = 0
  BY FS_CardinalityType, FS_EmptySet
<1>2. IsFiniteSet(A \cup B) /\ Cardinality(A \cup B) = Cardinality(A) + Cardinality(B)
  <2>1. IsFiniteSet(A \cup B) /\ Cardinality(A \cup B) = Cardinality(A) + Cardinality(B) - Cardinality(A \cap B)
    BY FS_Union
  <2>2. Cardinality(A \cap B) = 0
    BY <1>1
  <2> QED
    BY <1>1, <2>1, <2>2
<1> DEFINE X == A \cup B
<1> HIDE DEF X
<1>3. IsFiniteSet(X \cup C) /\ Cardinality(X \cup C) = Cardinality(A) + Cardinality(B) + Cardinality(C)
  <2>1. IsFiniteSet(X) /\ Cardinality(X) = Cardinality(A) + Cardinality(B) /\ Cardinality(X \cap C) = 0
    BY <1>1, <1>2 DEF X
  <2>2. /\ IsFiniteSet(X \cup C)
        /\ Cardinality(X \cup C) = Cardinality(X) + Cardinality(C) - Cardinality(X \cap C)
    BY <2>1, FS_Union
  <2> QED
    BY <1>1, <2>1, <2>2
<1> DEFINE Y == X \cup C
<1> HIDE DEF Y
<1>4. Cardinality(Y \cup D) = Cardinality(A) + Cardinality(B) + Cardinality(C) + Cardinality(D)
  <2>1. IsFiniteSet(Y) /\ Cardinality(Y) = Cardinality(A) + Cardinality(B) + Cardinality(C) /\ Cardinality(Y \cap D) = 0
    BY <1>1, <1>3 DEF X, Y
  <2>2. /\ IsFiniteSet(Y \cup D)
        /\ Cardinality(Y \cup D) = Cardinality(Y) + Cardinality(D) - Cardinality(Y \cap D)
    BY <2>1, FS_Union
  <2> QED
    BY <1>1, <2>1, <2>2
<1> QED
  BY <1>4 DEF X, Y

LEMMA OutstandingIs ==
    ASSUME IInv, CInv, NEW h \in Servers \cup Conns
    PROVE  Cardinality(Of(Queued(loop, work), h)) = Outstanding(h)
<1> DEFINE K == {r \in loop.kernel : r.handle = h}
           I == {r \in IoReqs : InQ(loop.iocp, r) /\ r.handle = h}
           P == {r \in IoReqs : InQ(loop.pending, r) /\ r.handle = h}
           W == {r \in IoReqs : InQ(work, r) /\ r.handle = h}
<1>1. /\ Placed(loop, work) /\ work \in Seq(Packets) /\ loop.pending \in Seq(Packets) /\ loop.iocp \in Seq(Packets)
      /\ loop.kernel \subseteq IoReqs
  BY InvIs DEF IInv, TypeOK, LoopType
<1>2. IsFiniteSet(K)
  <2>1. IsFiniteSet(Of(IoReqs, h))
    BY FewRequests
  <2>2. K \in SUBSET Of(IoReqs, h)
    BY <1>1 DEF Of
  <2> HIDE DEF K
  <2> QED
    BY <2>1, <2>2, FS_Subset
<1>3. /\ IsFiniteSet(I) /\ Cardinality(I) = PacketsOf(loop.iocp, h)
      /\ IsFiniteSet(P) /\ Cardinality(P) = PacketsOf(loop.pending, h)
      /\ IsFiniteSet(W) /\ Cardinality(W) = PacketsOf(work, h)
  BY <1>1, PacketsAre DEF Placed
<1>4. K \cap I = {} /\ (K \cup I) \cap P = {} /\ ((K \cup I) \cup P) \cap W = {}
  BY <1>1 DEF Placed
<1>5. Of(Queued(loop, work), h) = ((K \cup I) \cup P) \cup W
  BY <1>1 DEF Of, Queued
<1>6. Outstanding(h) = Cardinality(K) + PacketsOf(loop.iocp, h) + PacketsOf(loop.pending, h) + PacketsOf(work, h)
  BY DEF Outstanding
<1> HIDE DEF K, I, P, W
<1>7. Cardinality(((K \cup I) \cup P) \cup W) = Cardinality(K) + Cardinality(I) + Cardinality(P) + Cardinality(W)
  BY <1>2, <1>3, <1>4, FourSets
<1> QED
  BY <1>3, <1>5, <1>6, <1>7

LEMMA CountersFollow ==
    ASSUME IInv, CInv
    PROVE  CountersAreExact
<1>1. ASSUME NEW h \in Servers \cup Conns
      PROVE  Counts(loop, Queued(loop, work), cb, h)
  BY <1>1, InvIs, Kinds DEF HandleInv
<1>2. ActiveCountIsExact
  BY <1>1 DEF ActiveCountIsExact, Activities, Counts, One, Of
<1>3. ReqsPendingIsExact
  BY <1>1, OutstandingIs DEF ReqsPendingIsExact, BeingProcessed, Processing, Counts, One
<1> QED
  BY <1>2, <1>3 DEF CountersAreExact

-----------------------------------------------------------------------------
\* What it says of the loop.

\* When uv_poll waits for ever nothing is queued in the loop but what the kernel has.
LEMMA WaitingIs ==
    ASSUME IInv, CInv, pc = "poll", WaitsForever(loop), loop.iocp = << >>
    PROVE  /\ cb.kind = "none" /\ Queued(loop, work) = loop.kernel
           /\ \A h \in Handles : ~Has(loop, h, "ENDGAME_QUEUED")
<1>1. cb.kind = "none" /\ work = << >> /\ loop.pending = << >> /\ loop.endgame = << >>
  BY NoneIs DEF CInv, Stages, WaitsForever
<1>2. loop.kernel \subseteq IoReqs
  BY DEF IInv, TypeOK, LoopType
<1>3. Queued(loop, work) = loop.kernel
  BY <1>1, <1>2, EmptyQueue DEF Queued
<1>4. \A i : i \notin DOMAIN << >>
  OBVIOUS
<1>5. \A h \in Handles : ~Has(loop, h, "ENDGAME_QUEUED")
  BY <1>1, <1>4 DEF IInv, LoopOK, Threaded
<1> QED
  BY <1>1, <1>3, <1>5

LEMMA NeverStuck ==
    ASSUME IInv, CInv, pc = "poll", WaitsForever(loop), loop.iocp = << >>, loop.kernel = {},
           \A s \in Servers : loop.pending_accepts[s] = << >>
    PROVE  FALSE
<1> DEFINE L == loop
           k == cb
           Q == Queued(loop, work)
<1>1. /\ LoopOK(L) /\ L.failed = {} /\ L.active_reqs \in SUBSET ClientReqs
      /\ \A h \in Handles : HandleInv(L, Q, k, h)
  BY InvIs
<1>2. k.kind = "none" /\ Q = {} /\ \A h \in Handles : ~Has(L, h, "ENDGAME_QUEUED")
  BY WaitingIs
<1>3. /\ L.active_handles > 0 \/ L.active_reqs # {}
      /\ \A t \in Timers : ~Has(L, t, "ACTIVE")
      /\ \A s \in Servers : L.pending_accepts[s] = << >>
  BY DEF WaitsForever, ActiveTimers
<1> HIDE DEF L, k, Q
<1>4. Cardinality({}) = 0 /\ \A h : Of(Q, h) = {} /\ WritesOf(Q, h) = {}
  BY <1>2, FS_EmptySet DEF Of, WritesOf
<1>5. ASSUME NEW c \in Conns
      PROVE  /\ c \notin L.shutdown_req /\ ~Has(L, c, "READING") /\ ~Has(L, c, "LISTENING")
             /\ \A r \in L.active_reqs : r.handle # c
  <2>1. c \in Handles /\ Reads(L, Q, k, c) /\ Shuts(L, Q, k, c)
    BY <1>1, <1>5, Kinds DEF HandleInv
  <2>2. One(k.handle = c /\ k.kind = "write") = 0 /\ ~InShutdown(k, c) /\ ~InReadLoop(k, c)
    BY <1>2 DEF One, InShutdown, InReadLoop
  <2>3. L.write_reqs_pending[c] = 0
    <3>1. Cardinality(WritesOf(Q, c)) = 0
      BY <1>4
    <3> QED
      BY <2>1, <2>2, <3>1 DEF Shuts
  <2>4. c \notin L.shutdown_req
    BY <1>2, <2>1, <2>2, <2>3 DEF Shuts
  <2>5. ~Has(L, c, "READING") /\ ~Has(L, c, "LISTENING")
    BY <1>2, <2>1, <2>2 DEF Reads, Shuts
  <2>6. ASSUME NEW r \in L.active_reqs, r.handle = c
        PROVE  FALSE
    <3>1. r \in {ShutdownReq(c)} \cup Of(WriteReqs, c)
      BY <1>1, <2>6, IoReqsAre DEF Of
    <3>2. r \notin Of(WriteReqs, c)
      BY <1>2, <2>1, <2>6 DEF Shuts, Of
    <3>3. ShutdownReq(c) \notin L.active_reqs
      BY <2>1, <2>4 DEF Shuts
    <3> QED
      BY <2>6, <3>1, <3>2, <3>3
  <2> QED
    BY <2>4, <2>5, <2>6
<1>6. L.active_reqs = {}
  <2>1. \A r \in ClientReqs : r.handle \in Conns
    BY DEF ClientReqs, WriteReqs, ShutdownReqs
  <2> QED
    BY <1>1, <1>5, <2>1
<1>7. ASSUME NEW s \in Servers
      PROVE  ~Has(L, s, "READING") /\ ~Has(L, s, "LISTENING") /\ s \notin L.shutdown_req
  <2>1. s \in Handles /\ s \notin Conns /\ Listens(L, Q, s)
    BY <1>1, <1>7, Kinds DEF HandleInv
  <2>2. [type |-> "ACCEPT", handle |-> s, id |-> 1] \in AcceptReqsOf(s)
    BY CountsAssumption DEF AcceptReqsOf, AcceptReqs
  <2>3. \A i : i \notin DOMAIN << >>
    OBVIOUS
  <2>4. ~Has(L, s, "LISTENING")
    BY <1>2, <1>3, <2>1, <2>2, <2>3 DEF Listens
  <2>5. s \notin L.shutdown_req
    BY <1>1, <2>1 DEF LoopOK, LoopType
  <2> QED
    BY <2>1, <2>4, <2>5 DEF Listens
<1>8. ASSUME NEW h \in Servers \cup Conns
      PROVE  L.activecnt[h] = 0 /\ L.reqs_pending[h] = 0 /\ (Has(L, h, "CLOSING") \/ ~Has(L, h, "ACTIVE"))
  <2>1. h \in Handles /\ Counts(L, Q, k, h)
    BY <1>1, <1>8, Kinds DEF HandleInv
  <2>2. /\ One(Has(L, h, "READING")) = 0 /\ One(Has(L, h, "LISTENING")) = 0 /\ One(Processing(k, h)) = 0
        /\ One(h \in L.shutdown_req) = 0
    BY <1>2, <1>5, <1>7, <1>8 DEF One, Processing
  <2>3. Cardinality(Of(L.active_reqs, h)) = 0 /\ Cardinality(Of(Q, h)) = 0
    BY <1>4, <1>6 DEF Of
  <2> QED
    BY <2>1, <2>2, <2>3 DEF Counts
<1>9. Counted(L) = {}
  <2>1. SUFFICES ASSUME NEW h \in Counted(L)
                 PROVE  FALSE
    OBVIOUS
  <2>2. h \in Handles /\ Lives(L, h) /\ ~Has(L, h, "ENDGAME_QUEUED") /\ (h \in Timers => L.reqs_pending[h] = 0)
    BY <1>1, <1>2, <2>1 DEF Counted, HandleInv
  <2>3. L.reqs_pending[h] = 0
    BY <1>8, <2>2 DEF Handles
  <2>4. ~(Has(L, h, "CLOSING") /\ ~Has(L, h, "CLOSED"))
    BY <2>2, <2>3 DEF Lives
  <2>5. Has(L, h, "ACTIVE")
    BY <2>1, <2>4 DEF Counted, Has
  <2>6. ~Has(L, h, "CLOSING")
    BY <1>1, <2>2, <2>5, FieldsAre
  <2> QED
    BY <1>3, <1>8, <2>2, <2>5, <2>6 DEF Handles
<1>10. L.active_handles = 0
  BY <1>1, <1>4, <1>9 DEF LoopOK, Accounted
<1> QED
  BY <1>3, <1>6, <1>10

LEMMA LoopFollows ==
    ASSUME IInv, CInv
    PROVE  LoopGoesOn
<1>1. ClosingIsUnderWay
  BY InvIs DEF HandleInv, Lives, ClosingIsUnderWay
<1>2. NeverStuckInPoll
  BY NeverStuck DEF NeverStuckInPoll
<1> QED
  BY <1>1, <1>2 DEF LoopGoesOn

LEMMA CounterInv == Spared => (Spec => [](IInv /\ CInv))
<1>1. Spared /\ Init => IInv /\ CInv
  BY InitInv, CounterInit
<1>2. IInv /\ CInv /\ [Next]_vars => (IInv /\ CInv)'
  BY NextInv, CounterNext
<1>3. ASSUME Spared
      PROVE  Spec => [](IInv /\ CInv)
  <2>1. Init => IInv /\ CInv
    BY <1>1, <1>3
  <2> QED
    BY <1>2, <2>1, PTL DEF Spec
<1> QED
  BY <1>3

-----------------------------------------------------------------------------
\* The theorems.

\* Unless reads are refused at once and started again, one of several accepts fails, or
\* an alloc_cb stops or closes the stream it gives memory to, no assert() of the
\* functions modelled is false: no counter of tcp.c, handle-inl.h and req-inl.h is
\* decremented below 0, no request is queued that is queued already, and no handle is
\* closed, started or stopped when it may not be.
THEOREM AssertionsHold == Spared => (Spec => []NoAssertionFails)
<1>1. IInv /\ CInv => NoAssertionFails
  BY DEF CInv, NoAssertionFails
<1> QED
  BY <1>1, CounterInv, PTL

\* Under the same condition activecnt of every stream counts what keeps it active,
\* its reads, its listening and its clients' requests, and reqs_pending counts the
\* requests that will still touch it: with the kernel, on the port, in the loop's
\* queues, in hand, and a shutdown.  A handle is closed only when that is none.
THEOREM CountersExact == Spared => (Spec => []CountersAreExact)
<1>1. IInv /\ CInv => CountersAreExact
  BY CountersFollow
<1> QED
  BY <1>1, CounterInv, PTL

\* Under the same condition active_handles, by which uv_run decides whether to go on,
\* is the number of handles that are active and referenced, or closing.
THEOREM ActiveHandlesExact == Spared => (Spec => []ActiveHandlesIsExact)
<1>1. IInv /\ CInv => ActiveHandlesIsExact
  BY DEF CInv, IInv, LoopOK, Accounted, ActiveHandlesIsExact
<1> QED
  BY <1>1, CounterInv, PTL

\* Under the same condition a handle that is closing is on the list of endgames or
\* held by a request that will put it there, and uv_poll never waits without a
\* timeout when nothing can wake it.
THEOREM LoopProgresses == Spared => (Spec => []LoopGoesOn)
<1>1. IInv /\ CInv => LoopGoesOn
  BY LoopFollows
<1> QED
  BY <1>1, CounterInv, PTL

=============================================================================
