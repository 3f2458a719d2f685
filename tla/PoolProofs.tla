----------------------------- MODULE PoolProofs -----------------------------
(***************************************************************************)
(* Proofs about the thread pool, for any numbers of workers, requests and  *)
(* poll contexts, then about two of the primitives threads meet in,        *)
(* uv_once and the read-write lock of Windows, for any numbers of threads  *)
(* and of rounds.                                                          *)
(***************************************************************************)
EXTENDS PoolProps, Threads, FiniteSetTheorems, SequenceTheorems, TLAPS

Spec == Init /\ [][Next]_vars

-----------------------------------------------------------------------------
(* Queues.  A request is in a queue once, the exit message maybe more often. *)

InQ(s, r) == \E i \in DOMAIN s : s[i] = r

Unique(s) == \A i, j \in DOMAIN s : s[i] = s[j] /\ s[i] # ExitMessage => i = j

LEMMA EmptyIs == Unique(<< >>) /\ \A r : ~InQ(<< >>, r)
<1>1. \A i : i \notin DOMAIN << >>
  OBVIOUS
<1> QED
  BY <1>1 DEF Unique, InQ

LEMMA AppendIs ==
    ASSUME NEW S, NEW s \in Seq(S), NEW e \in S
    PROVE  /\ Append(s, e) \in Seq(S)
           /\ \A r : InQ(Append(s, e), r) <=> InQ(s, r) \/ r = e
           /\ Unique(s) /\ (e = ExitMessage \/ ~InQ(s, e)) => Unique(Append(s, e))
<1>1. /\ DOMAIN s = 1..Len(s) /\ DOMAIN Append(s, e) = 1..(Len(s) + 1) /\ Len(s) \in Nat
      /\ \A i \in 1..Len(s) : Append(s, e)[i] = s[i]
      /\ Append(s, e)[Len(s) + 1] = e
  OBVIOUS
<1> QED
  BY <1>1 DEF InQ, Unique

LEMMA TailIs ==
    ASSUME NEW S, NEW s \in Seq(S), s # << >>
    PROVE  /\ Tail(s) \in Seq(S) /\ Head(s) \in S /\ InQ(s, Head(s))
           /\ Unique(s) /\ Head(s) # ExitMessage =>
                  /\ Unique(Tail(s))
                  /\ \A r : InQ(Tail(s), r) <=> InQ(s, r) /\ r # Head(s)
<1>1. /\ DOMAIN s = 1..Len(s) /\ DOMAIN Tail(s) = 1..(Len(s) - 1) /\ Len(s) \in Nat \ {0}
      /\ \A i \in 1..(Len(s) - 1) : Tail(s)[i] = s[i + 1]
      /\ Head(s) = s[1]
      /\ Tail(s) \in Seq(S)
  OBVIOUS
<1>2. Head(s) \in S /\ InQ(s, Head(s))
  BY <1>1 DEF InQ
<1>3. ASSUME Unique(s), Head(s) # ExitMessage
      PROVE  Unique(Tail(s))
  BY <1>1, <1>3 DEF Unique
<1>4. ASSUME Unique(s), Head(s) # ExitMessage, NEW r
      PROVE  InQ(Tail(s), r) <=> InQ(s, r) /\ r # Head(s)
  <2>1. InQ(Tail(s), r) => InQ(s, r) /\ r # Head(s)
    BY <1>1, <1>4 DEF Unique, InQ
  <2>2. ASSUME InQ(s, r), r # Head(s)
        PROVE  InQ(Tail(s), r)
    <3>1. PICK i \in 1..Len(s) : s[i] = r
      BY <1>1, <2>2 DEF InQ
    <3>2. i # 1 /\ i - 1 \in 1..(Len(s) - 1) /\ s[(i - 1) + 1] = r
      BY <1>1, <2>2, <3>1
    <3> QED
      BY <1>1, <3>2 DEF InQ
  <2> QED
    BY <2>1, <2>2
<1> QED
  BY <1>1, <1>2, <1>3, <1>4

LEMMA WithoutIs ==
    ASSUME NEW S, NEW s \in Seq(S), Unique(s), NEW e, e # ExitMessage
    PROVE  /\ Without(s, e) \in Seq(S) /\ Unique(Without(s, e))
           /\ \A r : InQ(Without(s, e), r) <=> InQ(s, r) /\ r # e
<1>1. CASE ~InQ(s, e)
  BY <1>1 DEF Without, InQ
<1>2. CASE InQ(s, e)
  <2> DEFINE k == CHOOSE i \in DOMAIN s : s[i] = e
             t == Without(s, e)
  <2>1. k \in 1..Len(s) /\ s[k] = e /\ Len(s) \in Nat /\ DOMAIN s = 1..Len(s)
    BY <1>2 DEF InQ
  <2>2. t = SubSeq(s, 1, k - 1) \o SubSeq(s, k + 1, Len(s))
    BY <1>2 DEF Without, RemoveAt, InQ
  <2> HIDE DEF k, t
  <2> DEFINE u == SubSeq(s, 1, k - 1)
             v == SubSeq(s, k + 1, Len(s))
  <2>3. k \in Nat \ {0} /\ k <= Len(s) /\ k - 1 \in Int /\ k + 1 \in Int /\ Len(s) \in Int
    BY <2>1
  <2>4. u \in Seq(S) /\ Len(u) = k - 1 /\ \A i \in 1..(k - 1) : u[i] = s[i]
    <3>1. \A i \in 1..(k - 1) : s[i] \in S
      BY <2>1
    <3>2. /\ u \in Seq(S) /\ Len(u) = IF 1 <= k - 1 THEN (k - 1) - 1 + 1 ELSE 0
          /\ \A i \in 1..((k - 1) - 1 + 1) : u[i] = s[1 + i - 1]
      BY <2>3, <3>1, SubSeqProperties
    <3>3. \A i \in 1..(k - 1) : i \in 1..((k - 1) - 1 + 1) /\ 1 + i - 1 = i
      BY <2>3
    <3> HIDE DEF u
    <3> QED
      BY <2>3, <3>2, <3>3
  <2>5. v \in Seq(S) /\ Len(v) = Len(s) - k /\ \A i \in 1..(Len(s) - k) : v[i] = s[i + k]
    <3>1. \A i \in (k + 1)..Len(s) : s[i] \in S
      BY <2>1
    <3>2. /\ v \in Seq(S) /\ Len(v) = IF k + 1 <= Len(s) THEN Len(s) - (k + 1) + 1 ELSE 0
          /\ \A i \in 1..(Len(s) - (k + 1) + 1) : v[i] = s[(k + 1) + i - 1]
      BY <2>3, <3>1, SubSeqProperties
    <3>3. \A i \in 1..(Len(s) - k) : i \in 1..(Len(s) - (k + 1) + 1) /\ (k + 1) + i - 1 = i + k
      BY <2>3
    <3> HIDE DEF v
    <3> QED
      BY <2>3, <3>2, <3>3
  <2>6. t = u \o v
    BY <2>2
  <2> HIDE DEF t, u, v
  <2>7. /\ t \in Seq(S) /\ Len(t) = Len(u) + Len(v)
         /\ \A i \in 1..(Len(u) + Len(v)) : t[i] = IF i <= Len(u) THEN u[i] ELSE v[i - Len(u)]
    BY <2>6, <2>4, <2>5, ConcatProperties
  <2>8. Len(t) = Len(s) - 1 /\ DOMAIN t = 1..Len(t)
    BY <2>3, <2>4, <2>5, <2>7
  <2>9. ASSUME NEW i \in 1..(Len(s) - 1)
         PROVE  t[i] = IF i < k THEN s[i] ELSE s[i + 1]
    <3>1. i \in 1..(Len(u) + Len(v))
      BY <2>3, <2>4, <2>5
    <3>2. CASE i < k
      <4>1. i \in 1..(k - 1) /\ i <= Len(u)
        BY <2>1, <2>3, <2>4, <3>2
      <4> QED
        BY <2>4, <2>7, <3>1, <3>2, <4>1
    <3>3. CASE ~(i < k)
      <4>1. i - Len(u) \in 1..(Len(s) - k) /\ ~(i <= Len(u)) /\ (i - Len(u)) + k = i + 1
        BY <2>1, <2>3, <2>4, <3>3
      <4> QED
        BY <2>5, <2>7, <3>1, <3>3, <4>1
    <3> QED
      BY <3>2, <3>3
  <2>10. /\ t \in Seq(S) /\ Len(t) = Len(s) - 1 /\ DOMAIN t = 1..(Len(s) - 1)
        /\ \A i \in 1..(Len(s) - 1) : t[i] = IF i < k THEN s[i] ELSE s[i + 1]
    BY <2>7, <2>8, <2>9
  <2>11. Unique(t)
    <3> SUFFICES ASSUME NEW i \in 1..(Len(s) - 1), NEW j \in 1..(Len(s) - 1), t[i] = t[j], t[i] # ExitMessage
                 PROVE  i = j
      BY <2>10 DEF Unique
    <3>1. i \in 1..Len(s) /\ j \in 1..Len(s) /\ i + 1 \in 1..Len(s) /\ j + 1 \in 1..Len(s)
      BY <2>1
    <3>2. \A a, b \in 1..Len(s) : s[a] = s[b] /\ s[a] # ExitMessage => a = b
      BY <2>1 DEF Unique
    <3>3. CASE i < k /\ j < k
      BY <2>10, <3>1, <3>2, <3>3
    <3>4. CASE i < k /\ ~(j < k)
      <4>1. i = j + 1
        BY <2>10, <3>1, <3>2, <3>4
      <4> QED
        BY <2>1, <3>1, <3>4, <4>1
    <3>5. CASE ~(i < k) /\ j < k
      <4>1. i + 1 = j
        BY <2>10, <3>1, <3>2, <3>5
      <4> QED
        BY <2>1, <3>1, <3>5, <4>1
    <3>6. CASE ~(i < k) /\ ~(j < k)
      <4>1. i + 1 = j + 1
        BY <2>10, <3>1, <3>2, <3>6
      <4> QED
        BY <3>1, <4>1
    <3> QED
      BY <3>3, <3>4, <3>5, <3>6
  <2>12. ASSUME NEW r, InQ(t, r)
        PROVE  InQ(s, r) /\ r # e
    BY <2>1, <2>10, <2>12 DEF InQ, Unique
  <2>13. ASSUME NEW r, InQ(s, r), r # e
        PROVE  InQ(t, r)
    <3>1. PICK i \in 1..Len(s) : s[i] = r /\ i # k
      BY <2>1, <2>13 DEF InQ
    <3>2. CASE i < k
      BY <2>1, <2>10, <3>1, <3>2 DEF InQ
    <3>3. CASE i > k
      <4>1. i - 1 \in 1..(Len(s) - 1) /\ ~(i - 1 < k) /\ s[(i - 1) + 1] = r
        BY <2>1, <3>1, <3>3
      <4> QED
        BY <2>10, <4>1 DEF InQ
    <3> QED
      BY <2>1, <3>1, <3>2, <3>3
  <2> QED
    BY <2>10, <2>11, <2>12, <2>13 DEF t
<1> QED
  BY <1>1, <1>2

LEMMA CountOf ==
    ASSUME NEW S, NEW s \in Seq(S), Unique(s), NEW r, r # ExitMessage
    PROVE  Count(s, r) = IF InQ(s, r) THEN 1 ELSE 0
<1>1. CASE InQ(s, r)
  <2>1. PICK i \in DOMAIN s : s[i] = r
    BY <1>1 DEF InQ
  <2>2. {j \in DOMAIN s : s[j] = r} = {i}
    BY <2>1 DEF Unique
  <2> QED
    BY <1>1, <2>2, FS_Singleton DEF Count
<1>2. CASE ~InQ(s, r)
  <2>1. {j \in DOMAIN s : s[j] = r} = {}
    BY <1>2 DEF InQ
  <2> QED
    BY <1>2, <2>1, FS_EmptySet DEF Count
<1> QED
  BY <1>1, <1>2

-----------------------------------------------------------------------------
(* The invariant. *)

Results == {"none", "ok", "error", "ECANCELED"} \cup UNION {p.file : p \in Programs}

Busy == {"works", "worked", "reports"}

InCallback == {"callback", "cancels in callback", "requeues in callback"}

Requeued(r) == lpc \in {"requeues", "requeues in callback"} /\ target = r

\* The types of what the requests and the workers are told by.
Typed ==
    /\ program \in Programs
    /\ wq \in Seq(AllRequests \cup {ExitMessage})
    /\ loop_wq \in Seq(AllRequests) /\ batch \in Seq(AllRequests)
    /\ active \subseteq AllRequests /\ single \subseteq AllRequests
    /\ target \in AllRequests \cup {Nobody} /\ subject \in AllRequests \cup {Nobody}
    /\ started \in BOOLEAN
    /\ pc = [w \in Workers |-> pc[w]]
    /\ job \in [Workers -> AllRequests \cup {Nobody}]
    /\ work \in [AllRequests -> {"work", "NULL", "uv__cancelled"}]
    /\ result \in [AllRequests -> Results]
    /\ ran \in [AllRequests -> Nat] /\ called \in [AllRequests -> Nat]

\* A worker holds a request from the step that takes it to the one that reports it, and
\* `single', which uv_cancel reads of the node, tells whether some worker does.
JobsInv ==
    /\ \A w \in Workers : job[w] # Nobody <=> pc[w] \in Busy
    /\ \A v, w \in Workers : job[v] = job[w] /\ job[v] # Nobody => v = w
    /\ \A r \in AllRequests : r \in single <=> \E w \in Workers : job[w] = r
    /\ ~started => \A w \in Workers : pc[w] \in {"none", "lost"}
    /\ \A w \in Workers : pc[w] = "works" => ran[job[w]] = 0
    /\ \A w \in Workers : pc[w] \in {"worked", "reports"} => ran[job[w]] = 1

\* A request that comes back from a worker or from uv_cancel.
Reported(r) == \/ work[r] = "NULL" /\ ran[r] = 1
               \/ work[r] = "uv__cancelled" /\ ran[r] = 0

\* The places exclude each other, and what is true of a request in each.
PlacesInv ==
    /\ Unique(wq) /\ Unique(loop_wq) /\ Unique(batch)
    /\ \A r \in AllRequests :
          /\ r \in active <=> InQ(wq, r) \/ InQ(loop_wq, r) \/ InQ(batch, r) \/ r \in single \/ Requeued(r)
          /\ InQ(wq, r) => /\ ~InQ(loop_wq, r) /\ ~InQ(batch, r) /\ r \notin single /\ ~Requeued(r)
                           /\ work[r] = "work" /\ ran[r] = 0
          /\ InQ(loop_wq, r) => ~InQ(batch, r) /\ r \notin single /\ ~Requeued(r) /\ Reported(r)
          /\ InQ(batch, r) => r \notin single /\ ~Requeued(r) /\ Reported(r)
          /\ r \in single => ~Requeued(r) /\ work[r] = "work"
          /\ Requeued(r) => ran[r] = 0

\* What the history of a request adds up to.
HistoryInv ==
    \A r \in AllRequests :
        /\ ran[r] \in {0, 1} /\ called[r] \in {0, 1}
        /\ r \in active => called[r] = 0 /\ result[r] # "ECANCELED"
        /\ called[r] = 1 => (result[r] = "ECANCELED" <=> ran[r] = 0)
        /\ r \in Contexts => work[r] # "uv__cancelled"

\* Where the loop's thread is.
LoopInv ==
    /\ lpc \in {"cancels", "cancels in callback", "requeues", "requeues in callback"} =>
           target \in active \cap Requests
    /\ subject # Nobody <=> lpc \in InCallback
    /\ batch # << >> => lpc \in InCallback \cup {"drains"}
    /\ subject \in Contexts => subject \notin active

Context == [alloc : BOOLEAN, parent_handle : BOOLEAN, timer : {"none", "off", "on", "closing"},
            busy_polling : {"0", "1"} \cup Results, statbuf : {"zero"} \cup Results]

\* What holds of a context of a poll handle.
ContextInv(c) ==
    /\ ctx[c].parent_handle <=> handle.active /\ handle.poll_ctx = c
    /\ (c \in active \/ subject = c) <=> ctx[c].timer = "off"
    /\ ctx[c].alloc <=> ctx[c].timer # "none"
    /\ ctx[c].timer = "on" => ctx[c].parent_handle
    /\ ctx[c].timer = "closing" => ~ctx[c].parent_handle

PollInv ==
    /\ handle \in [active : BOOLEAN, closing : BOOLEAN, poll_ctx : Contexts \cup {Nobody}]
    /\ handle.active => handle.poll_ctx \in Contexts
    /\ ctx \in [Contexts -> Context]
    /\ failed = {}
    /\ \A c \in Contexts : ContextInv(c)

IInv == Typed /\ JobsInv /\ PlacesInv /\ HistoryInv /\ LoopInv /\ PollInv
LEMMA Apart ==
    /\ \A r \in AllRequests : r # Nobody /\ r # ExitMessage
    /\ AllRequests = Requests \cup Contexts
    /\ \A r \in Requests : r \notin Contexts
    /\ \A p \in Programs : "ECANCELED" \notin p.file
  BY PoolAssumption DEF AllRequests

-----------------------------------------------------------------------------
(* What leaves a part of the invariant as it is. *)

LEMMA JobsKept ==
    ASSUME JobsInv, UNCHANGED <<job, single, ran>>,
           \A w \in Workers : pc'[w] = pc[w] \/ (pc[w] \notin Busy /\ pc'[w] \notin Busy),
           started' \/ UNCHANGED <<started, pc>>
    PROVE  JobsInv'
  BY DEF JobsInv, Busy

LEMMA PlacesKept ==
    ASSUME PlacesInv, UNCHANGED <<wq, loop_wq, batch, active, single, work, ran>>,
           \A r \in AllRequests : Requeued(r)' <=> Requeued(r)
    PROVE  PlacesInv'
  BY DEF PlacesInv, Reported

LEMMA HistoryKept ==
    ASSUME HistoryInv, UNCHANGED <<active, result, ran, called, work>>
    PROVE  HistoryInv'
  BY DEF HistoryInv

LEMMA LoopKept ==
    ASSUME LoopInv, UNCHANGED <<lpc, target, subject, batch, active>>
    PROVE  LoopInv'
  BY DEF LoopInv

LEMMA PollKept ==
    ASSUME PollInv, UNCHANGED <<handle, ctx, failed>>,
           \A c \in Contexts : c \in active' \/ subject' = c <=> c \in active \/ subject = c
    PROVE  PollInv'
  BY DEF PollInv, ContextInv

-----------------------------------------------------------------------------
(* The steps of the pool. *)

LEMMA PostIs ==
    ASSUME Typed, NEW q \in AllRequests \cup {ExitMessage}, NEW p, Post(q, p),
           p = [w \in Workers |-> p[w]],
           \A w \in Workers : p[w] = pc[w] \/ (pc[w] \notin Busy /\ p[w] \notin Busy)
    PROVE  /\ wq' \in Seq(AllRequests \cup {ExitMessage})
           /\ \A r : InQ(wq', r) <=> InQ(wq, r) \/ r = q
           /\ Unique(wq) /\ (q = ExitMessage \/ ~InQ(wq, q)) => Unique(wq')
           /\ pc' = [w \in Workers |-> pc'[w]]
           /\ \A w \in Workers : pc'[w] = pc[w] \/ (pc[w] \notin Busy /\ pc'[w] \notin Busy)
           /\ Asleep(p) = {} => pc' = p
<1>1. wq' = Append(wq, q) /\ wq \in Seq(AllRequests \cup {ExitMessage})
  BY DEF Post, Typed
<1>2. pc' \in CondSignal(p) \cup {p} /\ (Asleep(p) = {} => pc' = p)
  BY DEF Post, CondSignal
<1>3. pc' = p \/ \E w \in Workers : p[w] = "asleep" /\ pc' = [p EXCEPT ![w] = "awake"]
  BY <1>2 DEF CondSignal, Asleep
<1>4. pc' = [w \in Workers |-> pc'[w]]
  BY <1>3
<1>5. \A w \in Workers : pc'[w] = pc[w] \/ (pc[w] \notin Busy /\ pc'[w] \notin Busy)
  BY <1>3 DEF Busy
<1> QED
  BY <1>1, <1>2, <1>4, <1>5, AppendIs

\* Whoever submits a request that is not on its way: it is in the pool's queue then.
LEMMA WorkSubmitKeeps ==
    ASSUME Typed, JobsInv, PlacesInv, HistoryInv, LoopInv,
           NEW r \in AllRequests, r \notin active, WorkSubmit(r),
           UNCHANGED <<program, job, loop_wq, batch, lpc, subject, target>>
    PROVE  Typed' /\ JobsInv' /\ PlacesInv' /\ HistoryInv'
<1>1. /\ wq' \in Seq(AllRequests \cup {ExitMessage})
      /\ \A q : InQ(wq', q) <=> InQ(wq, q) \/ q = r
      /\ Unique(wq) /\ (r = ExitMessage \/ ~InQ(wq, r)) => Unique(wq')
      /\ started' = TRUE /\ pc' = [w \in Workers |-> pc'[w]]
      /\ \A w \in Workers : pc'[w] = pc[w] \/ (pc[w] \notin Busy /\ pc'[w] \notin Busy)
  <2> DEFINE p == IF started THEN pc ELSE InitThreads
  <2>1. Post(r, p) /\ started' = TRUE
    BY DEF WorkSubmit
  <2>2. /\ p = [w \in Workers |-> p[w]]
        /\ \A w \in Workers : p[w] = pc[w] \/ (pc[w] \notin Busy /\ p[w] \notin Busy)
    <3>1. CASE started
      BY <3>1 DEF Typed
    <3>2. CASE ~started
      <4>1. \A w \in Workers : InitThreads[w] \notin Busy /\ pc[w] \notin Busy
        BY <3>2 DEF InitThreads, Busy, JobsInv
      <4> QED
        BY <3>2, <4>1 DEF InitThreads
    <3> QED
      BY <3>1, <3>2
  <2> HIDE DEF p
  <2> QED
    BY <2>1, <2>2, PostIs
<1>2. /\ active' = active \cup {r}
      /\ work' = [work EXCEPT ![r] = "work"]
      /\ single' = single \ {r}
      /\ result' = [result EXCEPT ![r] = "none"]
      /\ ran' = [ran EXCEPT ![r] = 0]
      /\ called' = [called EXCEPT ![r] = 0]
  BY DEF WorkSubmit
<1>3. Typed'
  BY <1>1, <1>2 DEF Typed, Results
<1>4. ~InQ(wq, r) /\ ~InQ(loop_wq, r) /\ ~InQ(batch, r) /\ r \notin single /\ ~Requeued(r)
  BY DEF PlacesInv
<1>5. \A w \in Workers : job[w] # r
  BY <1>4 DEF JobsInv
<1>6. JobsInv'
  <2>1. \A w \in Workers : job[w] # Nobody => ran'[job[w]] = ran[job[w]]
    BY <1>2, <1>5 DEF Typed
  <2>2. single' = single
    BY <1>2, <1>4
  <2> QED
    BY <1>1, <2>1, <2>2 DEF JobsInv, Busy
<1>7. /\ \A q \in AllRequests : work'[q] = IF q = r THEN "work" ELSE work[q]
      /\ \A q \in AllRequests : ran'[q] = IF q = r THEN 0 ELSE ran[q]
      /\ \A q \in AllRequests : called'[q] = IF q = r THEN 0 ELSE called[q]
      /\ \A q \in AllRequests : result'[q] = IF q = r THEN "none" ELSE result[q]
  BY <1>2 DEF Typed
<1>8. PlacesInv'
  <2>1. Unique(wq') /\ Unique(loop_wq') /\ Unique(batch')
    BY <1>1, <1>4 DEF PlacesInv
  <2>2. \A q \in AllRequests : Requeued(q)' <=> Requeued(q)
    BY DEF Requeued
  <2> QED
    BY <1>1, <1>2, <1>4, <1>7, <2>1, <2>2 DEF PlacesInv, Reported
<1>9. HistoryInv'
  BY <1>2, <1>7 DEF HistoryInv
<1> QED
  BY <1>3, <1>6, <1>8, <1>9

LEMMA SubmitKeeps ==
    ASSUME IInv, NEW r \in Requests, Submit(r), PollUntouched
    PROVE  IInv'
<1>1. r \in AllRequests /\ r \notin active /\ r \notin Contexts /\ active' = active \cup {r}
  BY Apart DEF Submit, AllRequests, WorkSubmit
<1>2. Typed' /\ JobsInv' /\ PlacesInv' /\ HistoryInv'
  BY <1>1, WorkSubmitKeeps DEF Submit, IInv
<1>3. LoopInv'
  BY <1>1 DEF Submit, IInv, LoopInv
<1>4. PollInv'
  BY <1>1, PollKept DEF Submit, IInv, PollUntouched
<1> QED
  BY <1>2, <1>3, <1>4 DEF IInv

-----------------------------------------------------------------------------
(* A worker. *)

\* The steps in which a worker waits, wakes, leaves or locks change no request.
LEMMA WaitingKeeps ==
    ASSUME IInv, NEW w \in Workers, Asynchronous, LoopUntouched, PollUntouched,
           UNCHANGED <<work, loop_wq, result, ran>>,
           \/ FallAsleep(w) \/ Reacquire(w) \/ Spurious(w) \/ TakeExit(w)
           \/ LockLoop(w) /\ UNCHANGED <<wq, job, single>>
    PROVE  IInv'
<1>1. UNCHANGED <<program, started, wq, loop_wq, batch, active, job, single, work, result, ran, called,
                  lpc, subject, target, handle, ctx, failed>>
  BY DEF Asynchronous, LoopUntouched, PollUntouched, FallAsleep, Reacquire, Spurious, TakeExit, LockLoop
<1>2. \E p : /\ pc' = [p EXCEPT ![w] = pc'[w]]
             /\ p = [v \in Workers |-> p[v]]
             /\ \A v \in Workers : p[v] = pc[v] \/ (p[v] \notin Busy /\ pc[v] \notin Busy)
  <2>1. pc = [v \in Workers |-> pc[v]]
    BY DEF IInv, Typed
  <2>2. CASE TakeExit(w)
    <3>1. PICK p \in CondSignal(pc) : pc' = [p EXCEPT ![w] = "gone"]
      BY <2>2 DEF TakeExit
    <3>2. p = pc \/ \E v \in Workers : pc[v] = "asleep" /\ p = [pc EXCEPT ![v] = "awake"]
      BY <3>1 DEF CondSignal, Asleep
    <3>3. p = [v \in Workers |-> p[v]]
      BY <2>1, <3>2
    <3>4. \A v \in Workers : p[v] = pc[v] \/ (p[v] \notin Busy /\ pc[v] \notin Busy)
      BY <2>1, <3>2 DEF Busy
    <3>5. pc' = [p EXCEPT ![w] = pc'[w]]
      BY <3>1, <3>3
    <3> QED
      BY <3>3, <3>4, <3>5
  <2>3. CASE ~TakeExit(w)
    <3>1. pc' = [pc EXCEPT ![w] = pc'[w]]
      BY <2>1, <2>3 DEF FallAsleep, Reacquire, Spurious, LockLoop
    <3> QED
      BY <2>1, <3>1
  <2> QED
    BY <2>2, <2>3
<1>3. pc' = [v \in Workers |-> pc'[v]]
  BY <1>2
<1>4. /\ pc[w] \notin {"none", "lost"}
      /\ \/ pc[w] \notin Busy /\ pc'[w] \notin Busy
         \/ pc[w] = "worked" /\ pc'[w] = "reports"
  <2>1. CASE TakeExit(w)
    BY <1>2, <2>1 DEF TakeExit, Busy, CondSignal, Asleep, IInv, Typed
  <2>2. CASE ~TakeExit(w)
    BY <2>2 DEF FallAsleep, Reacquire, Spurious, LockLoop, Busy, IInv, Typed
  <2> QED
    BY <2>1, <2>2
<1>5. \A v \in Workers : \/ pc'[v] = pc[v]
                         \/ pc'[v] \notin Busy /\ pc[v] \notin Busy
                         \/ pc[v] = "worked" /\ pc'[v] = "reports"
  BY <1>2, <1>4
<1>6. started
  BY <1>4 DEF IInv, JobsInv
<1>7. Typed'
  BY <1>1, <1>3 DEF IInv, Typed
<1>8. JobsInv'
  BY <1>1, <1>5, <1>6 DEF IInv, JobsInv, Busy
<1>9. PlacesInv' /\ HistoryInv' /\ LoopInv' /\ PollInv'
  BY <1>1, PlacesKept, HistoryKept, LoopKept, PollKept DEF IInv, Requeued
<1> QED
  BY <1>7, <1>8, <1>9 DEF IInv

LEMMA TakeKeeps ==
    ASSUME IInv, NEW w \in Workers, Take(w), Asynchronous, LoopUntouched, PollUntouched,
           UNCHANGED <<work, loop_wq, result, ran>>
    PROVE  IInv'
<1> DEFINE r == Head(wq)
<1>1. /\ UNCHANGED <<program, started, loop_wq, batch, active, work, result, ran, called,
                     lpc, subject, target, handle, ctx, failed>>
      /\ wq' = Tail(wq) /\ wq # << >> /\ r # ExitMessage /\ pc[w] = "start"
      /\ single' = single \cup {r}
      /\ job' = [job EXCEPT ![w] = r]
      /\ pc' = [pc EXCEPT ![w] = "works"]
  BY DEF Asynchronous, LoopUntouched, PollUntouched, Take
<1>2. /\ wq' \in Seq(AllRequests \cup {ExitMessage}) /\ r \in AllRequests /\ InQ(wq, r) /\ Unique(wq')
      /\ \A q : InQ(wq', q) <=> InQ(wq, q) /\ q # r
  BY <1>1, TailIs DEF IInv, Typed, PlacesInv
<1> HIDE DEF r
<1>3. /\ r # Nobody /\ r \notin single /\ work[r] = "work" /\ ran[r] = 0
      /\ ~InQ(loop_wq, r) /\ ~InQ(batch, r) /\ ~Requeued(r) /\ r \in active
  BY <1>2, Apart DEF IInv, PlacesInv
<1>4. /\ \A v \in Workers : pc'[v] = IF v = w THEN "works" ELSE pc[v]
      /\ \A v \in Workers : job'[v] = IF v = w THEN r ELSE job[v]
      /\ pc' = [v \in Workers |-> pc'[v]]
      /\ job' \in [Workers -> AllRequests \cup {Nobody}]
  BY <1>1, <1>2 DEF IInv, Typed
<1>5. Typed'
  BY <1>1, <1>2, <1>4 DEF IInv, Typed
<1>6. JobsInv'
  <2>1. \A v \in Workers : job[v] # r
    BY <1>2, <1>3 DEF IInv, JobsInv
  <2>2. job[w] = Nobody /\ started
    BY <1>1 DEF IInv, JobsInv, Busy
  <2>3. \A q \in AllRequests : q \in single' <=> \E v \in Workers : job'[v] = q
    <3>1. \A q \in AllRequests : q \in single <=> \E v \in Workers : job[v] = q
      BY DEF IInv, JobsInv
    <3>2. \A q \in AllRequests : q \in single' <=> q \in single \/ q = r
      BY <1>1
    <3>3. \A q \in AllRequests : q # Nobody
      BY Apart
    <3> QED
      BY <1>4, <2>2, <3>1, <3>2, <3>3
  <2> QED
    BY <1>1, <1>3, <1>4, <2>1, <2>2, <2>3 DEF IInv, JobsInv, Busy
<1>7. PlacesInv'
  <2>1. \A q \in AllRequests : Requeued(q)' <=> Requeued(q)
    BY <1>1 DEF Requeued
  <2> QED
    BY <1>1, <1>2, <1>3, <2>1 DEF IInv, PlacesInv, Reported
<1>8. HistoryInv' /\ LoopInv' /\ PollInv'
  BY <1>1, HistoryKept, LoopKept, PollKept DEF IInv
<1> QED
  BY <1>5, <1>6, <1>7, <1>8 DEF IInv

LEMMA RunKeeps ==
    ASSUME IInv, NEW w \in Workers, Run(w), Asynchronous, LoopUntouched, PollUntouched,
           UNCHANGED <<wq, job, work, single, loop_wq>>
    PROVE  IInv'
<1> DEFINE r == job[w]
<1>1. /\ UNCHANGED <<program, started, wq, job, single, loop_wq, batch, active, work, called,
                     lpc, subject, target, handle, ctx, failed>>
      /\ pc[w] = "works" /\ pc' = [pc EXCEPT ![w] = "worked"]
      /\ ran' = [ran EXCEPT ![r] = @ + 1]
      /\ \E o \in Outcomes(r) : result' = [result EXCEPT ![r] = o]
  BY DEF Asynchronous, LoopUntouched, PollUntouched, Run
<1>2. r \in AllRequests /\ r \in single /\ ran[r] = 0 /\ started
  <2>1. r \in AllRequests /\ ran[r] = 0 /\ job[w] # Nobody
    BY <1>1 DEF IInv, JobsInv, Typed, Busy
  <2>2. r \in single
    BY <2>1 DEF IInv, JobsInv
  <2>3. started
    BY <1>1 DEF IInv, JobsInv
  <2> QED
    BY <2>1, <2>2, <2>3
<1>3. r \in active /\ called[r] = 0 /\ ~InQ(wq, r) /\ ~InQ(loop_wq, r) /\ ~InQ(batch, r) /\ ~Requeued(r)
  BY <1>2 DEF IInv, PlacesInv, HistoryInv
<1>4. PICK o \in Results : o # "ECANCELED" /\ result' = [result EXCEPT ![r] = o]
  <2>1. Outcomes(r) \subseteq Results /\ "ECANCELED" \notin Outcomes(r)
    BY Apart DEF Outcomes, Results, IInv, Typed
  <2> QED
    BY <1>1, <2>1
<1> HIDE DEF r
<1>5. ran[r] + 1 = 1
  BY <1>2
<1>6. /\ \A q \in AllRequests : ran'[q] = IF q = r THEN 1 ELSE ran[q]
      /\ ran' \in [AllRequests -> Nat]
  BY <1>1, <1>2, <1>5 DEF IInv, Typed
<1>7. /\ \A q \in AllRequests : result'[q] = IF q = r THEN o ELSE result[q]
      /\ result' \in [AllRequests -> Results]
  BY <1>4 DEF IInv, Typed
<1>8. /\ \A v \in Workers : pc'[v] = IF v = w THEN "worked" ELSE pc[v]
      /\ pc' = [v \in Workers |-> pc'[v]]
  BY <1>1 DEF IInv, Typed
<1>9. Typed'
  BY <1>1, <1>6, <1>7, <1>8 DEF IInv, Typed
<1>10. JobsInv'
  <2>1. \A v \in Workers : v # w /\ pc[v] \in Busy => job[v] \in AllRequests /\ ran'[job[v]] = ran[job[v]]
    BY <1>1, <1>2, <1>6 DEF IInv, JobsInv, Busy, Typed, r
  <2>2. ran'[job[w]] = 1
    BY <1>2, <1>6 DEF r
  <2> QED
    BY <1>1, <1>2, <1>8, <2>1, <2>2 DEF IInv, JobsInv, Busy
<1>11. PlacesInv'
  <2>1. \A q \in AllRequests : Requeued(q)' <=> Requeued(q)
    BY <1>1 DEF Requeued
  <2> QED
    BY <1>1, <1>3, <1>6, <2>1 DEF IInv, PlacesInv, Reported
<1>12. HistoryInv'
  BY <1>1, <1>3, <1>4, <1>6, <1>7 DEF IInv, HistoryInv
<1>13. LoopInv' /\ PollInv'
  BY <1>1, LoopKept, PollKept DEF IInv
<1> QED
  BY <1>9, <1>10, <1>11, <1>12, <1>13 DEF IInv

LEMMA ReportKeeps ==
    ASSUME IInv, NEW w \in Workers, Report(w), Asynchronous, LoopUntouched, PollUntouched,
           UNCHANGED <<wq, result, ran>>
    PROVE  IInv'
<1> DEFINE r == job[w]
<1>1. /\ UNCHANGED <<program, started, wq, batch, active, result, ran, called,
                     lpc, subject, target, handle, ctx, failed>>
      /\ work' = [work EXCEPT ![r] = "NULL"]
      /\ single' = single \ {r}
      /\ loop_wq' = Append(loop_wq, r)
      /\ job' = [job EXCEPT ![w] = Nobody]
      /\ pc[w] = "reports" /\ pc' = [pc EXCEPT ![w] = "start"]
  BY DEF Asynchronous, LoopUntouched, PollUntouched, Report
<1>2. r \in AllRequests /\ r \in single /\ ran[r] = 1 /\ started /\ r # ExitMessage /\ r # Nobody
  BY <1>1, Apart DEF IInv, JobsInv, Typed, Busy
<1>3. r \in active /\ ~InQ(wq, r) /\ ~InQ(loop_wq, r) /\ ~InQ(batch, r) /\ ~Requeued(r)
  BY <1>2 DEF IInv, PlacesInv
<1>4. /\ loop_wq' \in Seq(AllRequests) /\ Unique(loop_wq')
      /\ \A q : InQ(loop_wq', q) <=> InQ(loop_wq, q) \/ q = r
  BY <1>1, <1>2, <1>3, AppendIs DEF IInv, Typed, PlacesInv
<1>5. /\ \A v \in Workers : pc'[v] = IF v = w THEN "start" ELSE pc[v]
      /\ \A v \in Workers : job'[v] = IF v = w THEN Nobody ELSE job[v]
      /\ pc' = [v \in Workers |-> pc'[v]]
      /\ job' \in [Workers -> AllRequests \cup {Nobody}]
  BY <1>1 DEF IInv, Typed
<1>6. /\ \A q \in AllRequests : work'[q] = IF q = r THEN "NULL" ELSE work[q]
      /\ work' \in [AllRequests -> {"work", "NULL", "uv__cancelled"}]
  BY <1>1 DEF IInv, Typed
<1>7. Typed'
  BY <1>1, <1>4, <1>5, <1>6 DEF IInv, Typed
<1>8. JobsInv'
  <2>1. \A q \in AllRequests : q \in single' <=> \E v \in Workers : job'[v] = q
    <3>1. \A q \in AllRequests : q \in single <=> \E v \in Workers : job[v] = q
      BY DEF IInv, JobsInv
    <3>2. \A q \in AllRequests : q \in single' <=> q \in single /\ q # r
      BY <1>1
    <3>3. \A q \in AllRequests : q # Nobody
      BY Apart
    <3>4. \A v \in Workers : job[v] = r => v = w
      BY <1>2 DEF IInv, JobsInv
    <3> QED
      BY <1>5, <3>1, <3>2, <3>3, <3>4
  <2> QED
    BY <1>1, <1>2, <1>5, <2>1 DEF IInv, JobsInv, Busy
<1> HIDE DEF r
<1>9. PlacesInv'
  <2>1. \A q \in AllRequests : Requeued(q)' <=> Requeued(q)
    BY <1>1 DEF Requeued
  <2> QED
    BY <1>1, <1>2, <1>3, <1>4, <1>6, <2>1 DEF IInv, PlacesInv, Reported
<1>10. HistoryInv'
  BY <1>1, <1>6 DEF IInv, HistoryInv
<1>11. LoopInv' /\ PollInv'
  BY <1>1, LoopKept, PollKept DEF IInv
<1> QED
  BY <1>7, <1>8, <1>9, <1>10, <1>11 DEF IInv

LEMMA WorkerKeeps ==
    ASSUME IInv, NEW w \in Workers, WorkerStep(w) \/ WorkerSpuriouslyWakes(w), PollUntouched
    PROVE  IInv'
<1>1. CASE WorkerSpuriouslyWakes(w)
  BY <1>1, WaitingKeeps DEF WorkerSpuriouslyWakes
<1>2. CASE WorkerStep(w)
  BY <1>2, WaitingKeeps, TakeKeeps, RunKeeps, ReportKeeps DEF WorkerStep
<1> QED
  BY <1>1, <1>2

-----------------------------------------------------------------------------
(* uv_cancel. *)

LEMMA CancelKeeps ==
    ASSUME IInv, NEW r \in Requests, Cancel(r), PollUntouched
    PROVE  IInv'
<1>1. /\ UNCHANGED <<program, started, wq, loop_wq, batch, active, job, single, pc, work, result, ran, called,
                     subject, handle, ctx, failed>>
      /\ lpc \in {"idle", "callback"} /\ r \in active \cap Requests /\ target' = r
      /\ lpc' = IF lpc = "idle" THEN "cancels" ELSE "cancels in callback"
  BY DEF Cancel, Calls, InClient, WorkersUntouched, PollUntouched
<1>2. Typed'
  BY <1>1, Apart DEF IInv, Typed
<1>3. \A q \in AllRequests : Requeued(q)' <=> Requeued(q)
  BY <1>1 DEF Requeued
<1>4. JobsInv' /\ PlacesInv' /\ HistoryInv' /\ PollInv'
  BY <1>1, <1>3, JobsKept, PlacesKept, HistoryKept, PollKept DEF IInv
<1>5. LoopInv'
  BY <1>1 DEF IInv, LoopInv, InCallback
<1> QED
  BY <1>2, <1>4, <1>5 DEF IInv

LEMMA BackIs ==
    ASSUME LoopInv, lpc \in {"cancels", "cancels in callback", "requeues", "requeues in callback"},
           lpc' = BackToClient(lpc), UNCHANGED <<subject, batch, active>>
    PROVE  LoopInv' /\ lpc' \in {"idle", "callback"}
  BY DEF LoopInv, InCallback, BackToClient

\* No request executes that uv_cancel takes away: it is in one of the queues.
LEMMA CancelTestKeeps ==
    ASSUME IInv, CancelTest, PollUntouched
    PROVE  IInv'
<1> DEFINE r == target
<1>1. /\ UNCHANGED <<program, started, wq_mutex, active, job, single, pc, work, result, ran, called,
                     subject, handle, ctx, failed>>
      /\ lpc \in {"cancels", "cancels in callback"}
      /\ \/ /\ r \notin single /\ work[r] # "NULL" /\ target' = target
            /\ wq' = Without(wq, r) /\ loop_wq' = Without(loop_wq, r) /\ batch' = Without(batch, r)
            /\ lpc' = IF lpc = "cancels" THEN "requeues" ELSE "requeues in callback"
         \/ /\ lpc' = BackToClient(lpc) /\ target' = Nobody
            /\ UNCHANGED <<wq, loop_wq, batch>>
  BY DEF CancelTest, WorkersUntouched, Asynchronous, PollUntouched
<1>2. r \in active /\ r \in Requests /\ r \in AllRequests /\ r # ExitMessage /\ r # Nobody
  BY <1>1, Apart DEF IInv, LoopInv
<1>3. \A q \in AllRequests : ~Requeued(q)
  BY <1>1 DEF Requeued
<1>4. CASE lpc' = BackToClient(lpc) /\ target' = Nobody /\ UNCHANGED <<wq, loop_wq, batch>>
  <2>1. LoopInv' /\ lpc' \in {"idle", "callback"}
    BY <1>1, <1>4, BackIs DEF IInv
  <2>2. \A q \in AllRequests : Requeued(q)' <=> Requeued(q)
    BY <1>3, <2>1 DEF Requeued
  <2>3. Typed'
    BY <1>1, <1>4 DEF IInv, Typed
  <2>4. JobsInv' /\ PlacesInv' /\ HistoryInv' /\ PollInv'
    BY <1>1, <1>4, <2>2, JobsKept, PlacesKept, HistoryKept, PollKept DEF IInv
  <2> QED
    BY <2>1, <2>3, <2>4 DEF IInv
<1>5. CASE /\ r \notin single /\ work[r] # "NULL" /\ target' = target
           /\ wq' = Without(wq, r) /\ loop_wq' = Without(loop_wq, r) /\ batch' = Without(batch, r)
           /\ lpc' = IF lpc = "cancels" THEN "requeues" ELSE "requeues in callback"
  <2> HIDE DEF r
  <2>0. /\ wq \in Seq(AllRequests \cup {ExitMessage}) /\ Unique(wq)
        /\ loop_wq \in Seq(AllRequests) /\ Unique(loop_wq)
        /\ batch \in Seq(AllRequests) /\ Unique(batch)
    BY DEF IInv, Typed, PlacesInv
  <2>1. /\ wq' \in Seq(AllRequests \cup {ExitMessage}) /\ Unique(wq')
        /\ \A q : InQ(wq', q) <=> InQ(wq, q) /\ q # r
    BY <1>2, <1>5, <2>0, WithoutIs
  <2>2. /\ loop_wq' \in Seq(AllRequests) /\ Unique(loop_wq')
        /\ \A q : InQ(loop_wq', q) <=> InQ(loop_wq, q) /\ q # r
    BY <1>2, <1>5, <2>0, WithoutIs
  <2>3. /\ batch' \in Seq(AllRequests) /\ Unique(batch')
        /\ \A q : InQ(batch', q) <=> InQ(batch, q) /\ q # r
    BY <1>2, <1>5, <2>0, WithoutIs
  <2>4. \A q \in AllRequests : Requeued(q)' <=> q = r
    BY <1>1, <1>5 DEF Requeued, r
  <2>5. ran[r] = 0
    BY <1>2, <1>3, <1>5 DEF IInv, PlacesInv, Reported
  <2>6. Typed'
    BY <1>1, <1>5, <2>1, <2>2, <2>3 DEF IInv, Typed
  <2>7. PlacesInv'
    BY <1>1, <1>2, <1>3, <1>5, <2>1, <2>2, <2>3, <2>4, <2>5 DEF IInv, PlacesInv, Reported
  <2>8. LoopInv'
    <3>1. batch = << >> => batch' = << >>
      BY <1>5, EmptyIs DEF Without, InQ
    <3>2. batch # << >> => lpc \in InCallback \cup {"drains"}
      BY DEF IInv, LoopInv
    <3> QED
      BY <1>1, <1>2, <1>5, <3>1, <3>2 DEF IInv, LoopInv, InCallback, r
  <2>9. JobsInv' /\ HistoryInv' /\ PollInv'
    BY <1>1, JobsKept, HistoryKept, PollKept DEF IInv
  <2> QED
    BY <2>6, <2>7, <2>8, <2>9 DEF IInv
<1> QED
  BY <1>1, <1>4, <1>5

LEMMA CancelRequeueKeeps ==
    ASSUME IInv, CancelRequeue, PollUntouched
    PROVE  IInv'
<1> DEFINE r == target
<1>1. /\ UNCHANGED <<program, started, wq, batch, active, job, single, pc, result, ran, called,
                     subject, handle, ctx, failed>>
      /\ lpc \in {"requeues", "requeues in callback"}
      /\ work' = [work EXCEPT ![r] = "uv__cancelled"]
      /\ loop_wq' = Append(loop_wq, r)
      /\ lpc' = BackToClient(lpc) /\ target' = Nobody
  BY DEF CancelRequeue, WorkersUntouched, Asynchronous, PollUntouched
<1>2. r \in active /\ r \notin Contexts /\ r \in AllRequests /\ r # ExitMessage /\ r # Nobody
  BY <1>1, Apart DEF IInv, LoopInv
<1>3. \A q \in AllRequests : Requeued(q) <=> q = r
  BY <1>1 DEF Requeued
<1>4. LoopInv' /\ lpc' \in {"idle", "callback"}
  BY <1>1, BackIs DEF IInv
<1>5. \A q \in AllRequests : ~Requeued(q)'
  BY <1>4 DEF Requeued
<1> HIDE DEF r
<1>6. ran[r] = 0 /\ ~InQ(wq, r) /\ ~InQ(loop_wq, r) /\ ~InQ(batch, r) /\ r \notin single
  BY <1>2, <1>3 DEF IInv, PlacesInv
<1>7. /\ loop_wq' \in Seq(AllRequests) /\ Unique(loop_wq')
      /\ \A q : InQ(loop_wq', q) <=> InQ(loop_wq, q) \/ q = r
  <2>1. loop_wq \in Seq(AllRequests) /\ Unique(loop_wq)
    BY DEF IInv, Typed, PlacesInv
  <2>2. /\ Append(loop_wq, r) \in Seq(AllRequests) /\ Unique(Append(loop_wq, r))
        /\ \A q : InQ(Append(loop_wq, r), q) <=> InQ(loop_wq, q) \/ q = r
    BY <1>2, <1>6, <2>1, AppendIs
  <2>3. loop_wq' = Append(loop_wq, r)
    BY <1>1
  <2> QED
    BY <2>2, <2>3
<1>8. /\ \A q \in AllRequests : work'[q] = IF q = r THEN "uv__cancelled" ELSE work[q]
      /\ work' \in [AllRequests -> {"work", "NULL", "uv__cancelled"}]
  BY <1>1 DEF IInv, Typed
<1>9. Typed'
  BY <1>1, <1>7, <1>8 DEF IInv, Typed
<1>10. PlacesInv'
  BY <1>1, <1>3, <1>5, <1>6, <1>7, <1>8 DEF IInv, PlacesInv, Reported
<1>11. HistoryInv'
  BY <1>1, <1>2, <1>8 DEF IInv, HistoryInv
<1>12. JobsInv' /\ PollInv'
  BY <1>1, JobsKept, PollKept DEF IInv
<1> QED
  BY <1>4, <1>9, <1>10, <1>11, <1>12 DEF IInv

-----------------------------------------------------------------------------
(* uv__work_done. *)

LEMMA MoveQueueKeeps ==
    ASSUME IInv, MoveQueue, PollUntouched
    PROVE  IInv'
<1>1. /\ UNCHANGED <<program, started, wq, active, job, single, pc, work, result, ran, called,
                     subject, target, handle, ctx, failed>>
      /\ lpc = "work done" /\ lpc' = "drains"
      /\ batch' = loop_wq /\ loop_wq' = << >>
  BY DEF MoveQueue, WorkersUntouched, Asynchronous, PollUntouched
<1>0. batch = << >>
  BY <1>1 DEF IInv, LoopInv, InCallback
<1>2. Typed'
  <2>1. << >> \in Seq(AllRequests)
    OBVIOUS
  <2> QED
    BY <1>1, <2>1 DEF IInv, Typed
<1>3. \A q \in AllRequests : ~Requeued(q)' /\ ~Requeued(q)
  BY <1>1 DEF Requeued
<1>4. PlacesInv'
  <2>1. Unique(loop_wq') /\ \A q : ~InQ(loop_wq', q) /\ ~InQ(batch, q)
    BY <1>0, <1>1, EmptyIs
  <2>2. Unique(batch') /\ \A q : InQ(batch', q) <=> InQ(loop_wq, q)
    BY <1>1 DEF IInv, PlacesInv
  <2> QED
    BY <1>1, <1>3, <2>1, <2>2 DEF IInv, PlacesInv, Reported
<1>5. LoopInv'
  BY <1>1 DEF IInv, LoopInv, InCallback
<1>6. JobsInv' /\ HistoryInv' /\ PollInv'
  BY <1>1, JobsKept, HistoryKept, PollKept DEF IInv
<1> QED
  BY <1>2, <1>4, <1>5, <1>6 DEF IInv

\* The steps that only take the loop's thread to another point.
LEMMA LoopMoves ==
    ASSUME IInv, PollUntouched,
           UNCHANGED <<program, started, wq, loop_wq, batch, active, job, single, pc, work, result, ran, called,
                       subject, target>>,
           lpc \notin InCallback, lpc' \in {"work done", "idle", "ended"},
           lpc \notin {"cancels", "requeues"}, batch = << >>
    PROVE  IInv'
<1>1. Typed'
  BY DEF IInv, Typed
<1>2. \A q \in AllRequests : Requeued(q)' <=> Requeued(q)
  BY DEF Requeued, InCallback
<1>3. LoopInv'
  BY DEF IInv, LoopInv, InCallback
<1>4. JobsInv' /\ PlacesInv' /\ HistoryInv' /\ PollInv'
  BY <1>2, JobsKept, PlacesKept, HistoryKept, PollKept DEF IInv, PollUntouched
<1> QED
  BY <1>1, <1>3, <1>4 DEF IInv

\* What the loop's thread takes off the batch is called back for the first time, and as
\* cancelled if it is.
LEMMA DoneIs ==
    ASSUME IInv, NEW r, r = Head(batch), lpc = "drains", batch # << >>, batch' = Tail(batch),
           active' = active \ {r}, called' = [called EXCEPT ![r] = @ + 1],
           UNCHANGED <<program, started, wq, loop_wq, pc, job, work, single, target, ran>>,
           lpc' \in {"drains", "callback"}, result' \in [AllRequests -> Results],
           \A q \in AllRequests : q # r => result'[q] = result[q],
           result'[r] = "ECANCELED" <=> work[r] = "uv__cancelled",
           subject' = IF lpc' = "callback" THEN r ELSE subject
    PROVE  /\ Typed' /\ JobsInv' /\ PlacesInv' /\ HistoryInv' /\ LoopInv'
           /\ r \in active /\ r \in AllRequests /\ subject = Nobody
<1>1. /\ batch' \in Seq(AllRequests) /\ r \in AllRequests /\ r # ExitMessage /\ r # Nobody
      /\ InQ(batch, r) /\ Unique(batch')
      /\ \A q : InQ(batch', q) <=> InQ(batch, q) /\ q # r
  <2>1. r \in AllRequests /\ r # ExitMessage /\ r # Nobody
    BY TailIs, Apart DEF IInv, Typed
  <2> QED
    BY <2>1, TailIs DEF IInv, Typed, PlacesInv
<1>2. ~InQ(wq, r) /\ ~InQ(loop_wq, r) /\ r \notin single /\ r \in active /\ Reported(r)
  BY <1>1 DEF IInv, PlacesInv
<1>3. called[r] = 0 /\ called[r] + 1 = 1
  BY <1>1, <1>2 DEF IInv, HistoryInv
<1>4. /\ \A q \in AllRequests : called'[q] = IF q = r THEN 1 ELSE called[q]
      /\ called' \in [AllRequests -> Nat]
  BY <1>1, <1>3 DEF IInv, Typed
<1>5. subject = Nobody
  BY DEF IInv, LoopInv, InCallback
<1>6. Typed'
  BY <1>1, <1>4, <1>5 DEF IInv, Typed
<1>7. \A q \in AllRequests : ~Requeued(q) /\ ~Requeued(q)'
  BY DEF Requeued
<1>8. PlacesInv'
  BY <1>1, <1>2, <1>7 DEF IInv, PlacesInv, Reported
<1>9. HistoryInv'
  BY <1>1, <1>2, <1>4 DEF IInv, HistoryInv, Reported
<1>10. LoopInv'
  <2>1. subject' # Nobody <=> lpc' \in InCallback
    BY <1>1, <1>5 DEF InCallback
  <2>2. subject' \in Contexts => subject' \notin active'
    <3>1. CASE lpc' = "callback"
      BY <3>1
    <3>2. CASE lpc' # "callback"
      BY <1>5, <2>1, <3>2, Apart DEF AllRequests, InCallback
    <3> QED
      BY <3>1, <3>2
  <2> QED
    BY <2>1, <2>2 DEF LoopInv, InCallback
<1>11. JobsInv'
  BY JobsKept DEF IInv
<1> QED
  BY <1>1, <1>2, <1>5, <1>6, <1>8, <1>9, <1>10, <1>11

LEMMA HeadIs ==
    ASSUME IInv, batch # << >>
    PROVE  Head(batch) \in active /\ Head(batch) \in AllRequests /\ Reported(Head(batch))
<1>1. Head(batch) \in AllRequests /\ InQ(batch, Head(batch))
  BY TailIs DEF IInv, Typed
<1> QED
  BY <1>1 DEF IInv, PlacesInv

LEMMA DoneRequestKeeps ==
    ASSUME IInv, DoneRequest, PollUntouched
    PROVE  IInv'
<1> DEFINE r == Head(batch)
<1>1. /\ UNCHANGED <<program, started, wq, loop_wq, pc, job, work, single, target, ran, handle, ctx, failed>>
      /\ lpc = "drains" /\ batch # << >> /\ r \in Requests
      /\ batch' = Tail(batch)
      /\ active' = active \ {r}
      /\ called' = [called EXCEPT ![r] = @ + 1]
      /\ \E o \in IF work[r] = "uv__cancelled" THEN {"ECANCELED"} ELSE Converted(r) :
            result' = [result EXCEPT ![r] = o]
      /\ lpc' = "callback" /\ subject' = r
  BY DEF DoneRequest, Asynchronous, PollUntouched
<1>2. r \in active /\ r \in AllRequests /\ r \notin Contexts
  BY <1>1, HeadIs, Apart
<1>3. result[r] \in Results /\ result[r] # "ECANCELED" /\ {"ok", "error", "ECANCELED"} \subseteq Results
  BY <1>2 DEF IInv, HistoryInv, Typed, Results
<1>4. PICK o \in Results : /\ result' = [result EXCEPT ![r] = o]
                           /\ o = "ECANCELED" <=> work[r] = "uv__cancelled"
  <2>1. CASE work[r] = "uv__cancelled"
    BY <1>1, <1>3, <2>1
  <2>2. CASE work[r] # "uv__cancelled"
    BY <1>1, <1>3, <2>2 DEF Converted
  <2> QED
    BY <2>1, <2>2
<1> HIDE DEF r
<1>5. /\ \A q \in AllRequests : result'[q] = IF q = r THEN o ELSE result[q]
      /\ result' \in [AllRequests -> Results]
  BY <1>4 DEF IInv, Typed
<1>6. /\ Typed' /\ JobsInv' /\ PlacesInv' /\ HistoryInv' /\ LoopInv'
      /\ subject = Nobody
  <2>1. result'[r] = "ECANCELED" <=> work[r] = "uv__cancelled"
    BY <1>2, <1>4, <1>5
  <2>2. \A q \in AllRequests : q # r => result'[q] = result[q]
    BY <1>5
  <2>3. lpc' \in {"drains", "callback"} /\ subject' = IF lpc' = "callback" THEN r ELSE subject
    BY <1>1
  <2> QED
    BY <1>1, <1>5, <2>1, <2>2, <2>3, DoneIs DEF r
<1>7. PollInv'
  <2>1. \A c \in Contexts : c \in active' \/ subject' = c <=> c \in active \/ subject = c
    BY <1>1, <1>2, <1>6, Apart
  <2> QED
    BY <1>1, <2>1, PollKept DEF IInv
<1> QED
  BY <1>6, <1>7 DEF IInv

\* A callback returns, of a request or of a poll handle.
LEMMA ReturnIs ==
    ASSUME IInv, lpc = "callback", lpc' = "drains", subject' = Nobody,
           UNCHANGED <<program, started, wq, pc, job, work, single, loop_wq, batch, active, target, result,
                       ran, called>>
    PROVE  Typed' /\ JobsInv' /\ PlacesInv' /\ HistoryInv' /\ LoopInv'
<1>1. Typed'
  BY DEF IInv, Typed
<1>2. \A q \in AllRequests : Requeued(q)' <=> Requeued(q)
  BY DEF Requeued
<1>3. LoopInv'
  BY Apart DEF IInv, LoopInv, InCallback, AllRequests
<1> QED
  BY <1>1, <1>2, <1>3, JobsKept, PlacesKept, HistoryKept DEF IInv

LEMMA CallbackReturnsKeeps ==
    ASSUME IInv, CallbackReturns, PollUntouched
    PROVE  IInv'
<1>1. Typed' /\ JobsInv' /\ PlacesInv' /\ HistoryInv' /\ LoopInv'
  BY ReturnIs DEF CallbackReturns, Asynchronous
<1>2. PollInv'
  <2>1. \A c \in Contexts : c \in active' \/ subject' = c <=> c \in active \/ subject = c
    BY Apart DEF CallbackReturns
  <2> QED
    BY <2>1, PollKept DEF IInv, PollUntouched
<1> QED
  BY <1>1, <1>2 DEF IInv

LEMMA PoolLoopKeeps ==
    ASSUME IInv, PoolLoop, PollUntouched
    PROVE  IInv'
<1>1. CASE AsyncWakes \/ Drained \/ Joined
  <2>1. /\ UNCHANGED <<program, started, wq, loop_wq, batch, active, job, single, pc, work, result, ran, called,
                       subject, target>>
        /\ lpc \in {"idle", "drains", "joins"} /\ lpc' \in {"work done", "idle", "ended"}
        /\ lpc = "drains" => batch = << >>
    BY <1>1 DEF AsyncWakes, Drained, Joined, WorkersUntouched, Asynchronous
  <2>2. batch = << >>
    BY <2>1 DEF IInv, LoopInv, InCallback
  <2> QED
    BY <2>1, <2>2, LoopMoves DEF InCallback
<1> QED
  BY <1>1, CancelTestKeeps, CancelRequeueKeeps, MoveQueueKeeps, DoneRequestKeeps, CallbackReturnsKeeps
     DEF PoolLoop

-----------------------------------------------------------------------------
(* The end of the process, and fork. *)

LEMMA ExitKeeps ==
    ASSUME IInv, Exit, PollUntouched
    PROVE  IInv'
<1>1. /\ UNCHANGED <<program, loop_wq, batch, active, job, single, work, result, ran, called,
                     subject, target, handle, ctx, failed>>
      /\ lpc = "idle" /\ lpc' = "joins" /\ Post(ExitMessage, pc) /\ UNCHANGED started
  BY DEF Exit, Asynchronous, PollUntouched
<1>2. /\ wq' \in Seq(AllRequests \cup {ExitMessage})
      /\ \A r : InQ(wq', r) <=> InQ(wq, r) \/ r = ExitMessage
      /\ Unique(wq) => Unique(wq')
      /\ pc' = [w \in Workers |-> pc'[w]]
      /\ \A w \in Workers : pc'[w] = pc[w] \/ (pc[w] \notin Busy /\ pc'[w] \notin Busy)
      /\ Asleep(pc) = {} => pc' = pc
  <2>1. pc = [w \in Workers |-> pc[w]]
    BY DEF IInv, Typed
  <2> QED
    BY <1>1, <2>1, PostIs DEF IInv
<1>3. Typed'
  BY <1>1, <1>2 DEF IInv, Typed
<1>4. PlacesInv'
  <2>1. \A q \in AllRequests : ~Requeued(q)' /\ ~Requeued(q) /\ (InQ(wq', q) <=> InQ(wq, q))
    BY <1>1, <1>2, Apart DEF Requeued
  <2> QED
    BY <1>1, <1>2, <2>1 DEF IInv, PlacesInv, Reported
<1>5. LoopInv'
  BY <1>1 DEF IInv, LoopInv, InCallback
<1>6. started' \/ UNCHANGED <<started, pc>>
  <2>1. ~started => Asleep(pc) = {}
    BY DEF IInv, JobsInv, Asleep
  <2> QED
    BY <1>1, <1>2, <2>1 DEF IInv, Typed
<1>7. JobsInv' /\ HistoryInv' /\ PollInv'
  BY <1>1, <1>2, <1>6, JobsKept, HistoryKept, PollKept DEF IInv
<1> QED
  BY <1>3, <1>4, <1>5, <1>7 DEF IInv

LEMMA ForkKeeps ==
    ASSUME IInv, Fork, PollUntouched
    PROVE  IInv'
<1>1. /\ UNCHANGED <<program, loop_wq, batch, active, job, single, work, result, ran, called, lpc,
                     subject, target, handle, ctx, failed>>
      /\ active = {} /\ started' = FALSE /\ wq' = wq /\ pc' = [w \in Workers |-> "lost"]
  BY DEF Fork, PollUntouched
<1>2. Typed'
  BY <1>1 DEF IInv, Typed
<1>3. JobsInv'
  <2>1. \A w \in Workers : job[w] = Nobody
    <3>1. \A r \in AllRequests : r \notin single
      BY <1>1 DEF IInv, PlacesInv
    <3> QED
      BY <3>1 DEF IInv, JobsInv, Typed
  <2> QED
    BY <1>1, <2>1 DEF IInv, JobsInv, Busy
<1>4. PlacesInv'
  <2>1. \A q \in AllRequests : Requeued(q)' <=> Requeued(q)
    BY <1>1 DEF Requeued
  <2> QED
    BY <1>1, <2>1, PlacesKept DEF IInv
<1>5. HistoryInv' /\ LoopInv' /\ PollInv'
  BY <1>1, HistoryKept, LoopKept, PollKept DEF IInv
<1> QED
  BY <1>2, <1>3, <1>4, <1>5 DEF IInv

-----------------------------------------------------------------------------
(* A poll handle. *)

\* One context changes.
LEMMA ContextChanges ==
    ASSUME PollInv, NEW c \in Contexts, NEW x \in Context, ctx' = [ctx EXCEPT ![c] = x],
           failed' = failed, UNCHANGED handle,
           \A d \in Contexts \ {c} : d \in active' \/ subject' = d <=> d \in active \/ subject = d,
           x.parent_handle = ctx[c].parent_handle,
           (c \in active' \/ subject' = c) <=> x.timer = "off",
           x.alloc <=> x.timer # "none",
           x.timer = "on" => x.parent_handle, x.timer = "closing" => ~x.parent_handle
    PROVE  PollInv'
<1>1. ctx' \in [Contexts -> Context] /\ ctx'[c] = x /\ \A d \in Contexts \ {c} : ctx'[d] = ctx[d]
  BY DEF PollInv
<1>2. ASSUME NEW d \in Contexts
      PROVE  ContextInv(d)'
  <2>1. ContextInv(d)
    BY DEF PollInv
  <2>2. CASE d = c
    <3>1. ctx'[d].parent_handle <=> handle'.active /\ handle'.poll_ctx = d
      BY <1>1, <2>1, <2>2 DEF ContextInv
    <3>2. (d \in active' \/ subject' = d) <=> ctx'[d].timer = "off"
      BY <1>1, <2>2
    <3>3. /\ ctx'[d].alloc <=> ctx'[d].timer # "none"
          /\ ctx'[d].timer = "on" => ctx'[d].parent_handle
          /\ ctx'[d].timer = "closing" => ~ctx'[d].parent_handle
      BY <1>1, <2>2
    <3> QED
      BY <3>1, <3>2, <3>3 DEF ContextInv
  <2>3. CASE d # c
    BY <1>1, <2>1, <2>3 DEF ContextInv
  <2> QED
    BY <2>2, <2>3
<1> QED
  BY <1>1, <1>2 DEF PollInv

LEMMA NoContextIs ==
    /\ NoContext \in Context
    /\ NoContext.alloc = FALSE /\ NoContext.parent_handle = FALSE /\ NoContext.timer = "none"
  BY DEF NoContext, Context

LEMMA FsPollStartKeeps ==
    ASSUME IInv, NEW c \in Contexts, FsPollStart(c)
    PROVE  IInv'
<1> DEFINE x == [NoContext EXCEPT !.alloc = TRUE, !.parent_handle = TRUE, !.timer = "off"]
<1>1. /\ UNCHANGED <<program, job, loop_wq, batch, lpc, subject, target, failed>>
      /\ ~handle.active /\ ~ctx[c].alloc /\ WorkSubmit(c)
      /\ ctx' = [ctx EXCEPT ![c] = x]
      /\ handle' = [handle EXCEPT !.active = TRUE, !.poll_ctx = c]
  BY DEF FsPollStart
<1>2. PollInv
  BY DEF IInv
<1>3. c \notin active /\ subject # c /\ c \in AllRequests
  BY <1>1, <1>2, Apart DEF ContextInv, PollInv
<1>4. Typed' /\ JobsInv' /\ PlacesInv' /\ HistoryInv'
  BY <1>1, <1>3, WorkSubmitKeeps DEF IInv
<1>5. active' = active \cup {c}
  BY <1>1 DEF WorkSubmit
<1>6. LoopInv'
  BY <1>1, <1>3, <1>5 DEF IInv, LoopInv
<1>7. x \in Context /\ x.alloc = TRUE /\ x.parent_handle = TRUE /\ x.timer = "off"
  BY DEF NoContext, Context
<1> HIDE DEF x
<1>8. ctx' \in [Contexts -> Context] /\ ctx'[c] = x /\ \A d \in Contexts \ {c} : ctx'[d] = ctx[d]
  BY <1>1, <1>2, <1>7 DEF PollInv
<1>9. /\ handle' \in [active : BOOLEAN, closing : BOOLEAN, poll_ctx : Contexts \cup {Nobody}]
      /\ handle'.active = TRUE /\ handle'.poll_ctx = c
  BY <1>1, <1>2 DEF PollInv
<1>10. ASSUME NEW d \in Contexts
       PROVE  ContextInv(d)'
  <2>1. ContextInv(d)
    BY <1>2 DEF PollInv
  <2>2. CASE d = c
    BY <1>5, <1>7, <1>8, <1>9, <2>2 DEF ContextInv
  <2>3. CASE d # c
    BY <1>1, <1>5, <1>8, <1>9, <2>1, <2>3 DEF ContextInv
  <2> QED
    BY <2>2, <2>3
<1>11. PollInv'
  BY <1>1, <1>2, <1>8, <1>9, <1>10 DEF PollInv
<1> QED
  BY <1>4, <1>6, <1>11 DEF IInv

LEMMA StopKeeps ==
    ASSUME PollInv, NEW closing \in BOOLEAN, Stop(closing), UNCHANGED <<active, subject>>
    PROVE  PollInv'
<1> DEFINE c == handle.poll_ctx
<1>1. handle' = [active |-> FALSE, closing |-> closing, poll_ctx |-> Nobody]
  BY DEF Stop
<1>2. /\ handle' \in [active : BOOLEAN, closing : BOOLEAN, poll_ctx : Contexts \cup {Nobody}]
      /\ handle'.active = FALSE
  BY <1>1
<1>3. CASE ~handle.active
  <2>1. UNCHANGED <<ctx, failed>>
    BY <1>3 DEF Stop
  <2>2. \A d \in Contexts : ContextInv(d)'
    BY <1>2, <1>3, <2>1 DEF ContextInv, PollInv
  <2> QED
    BY <1>2, <2>1, <2>2 DEF PollInv
<1>4. CASE handle.active
  <2>1. c \in Contexts /\ ContextInv(c) /\ ctx[c] \in Context /\ ctx[c].parent_handle
    BY <1>4 DEF ContextInv, PollInv
  <2>2. PICK x \in Context : /\ ctx' = [ctx EXCEPT ![c] = x] /\ failed' = failed
                             /\ x.parent_handle = FALSE /\ x.alloc = ctx[c].alloc
                             /\ x.timer = IF ctx[c].timer = "on" THEN "closing" ELSE ctx[c].timer
    <3>1. CASE ctx[c].timer = "on"
      <4> DEFINE x == [Detached(c) EXCEPT !.timer = "closing"]
      <4>1. CloseTimer(c, Detached(c))
        BY <1>4, <3>1 DEF Stop
      <4>2. /\ Detached(c) \in Context /\ Detached(c).parent_handle = FALSE
            /\ Detached(c).alloc = ctx[c].alloc /\ Detached(c).timer = "on"
        BY <2>1, <3>1 DEF Detached, Context
      <4>3. x \in Context /\ x.parent_handle = FALSE /\ x.alloc = ctx[c].alloc /\ x.timer = "closing"
        BY <4>2 DEF Context
      <4>4. ctx[c].alloc
        BY <2>1, <3>1 DEF ContextInv
      <4>5. failed' = failed /\ ctx' = [ctx EXCEPT ![c] = x]
        BY <4>1, <4>2, <4>4 DEF CloseTimer, Check
      <4> QED
        BY <3>1, <4>3, <4>5
    <3>2. CASE ctx[c].timer # "on"
      <4>1. ctx' = [ctx EXCEPT ![c] = Detached(c)] /\ failed' = failed
        BY <1>4, <2>1, <3>2 DEF Stop, Check
      <4>2. /\ Detached(c) \in Context /\ Detached(c).parent_handle = FALSE
            /\ Detached(c).alloc = ctx[c].alloc /\ Detached(c).timer = ctx[c].timer
        BY <2>1 DEF Detached, Context
      <4> QED
        BY <3>2, <4>1, <4>2
    <3> QED
      BY <3>1, <3>2
  <2>3. ctx' \in [Contexts -> Context] /\ ctx'[c] = x /\ \A d \in Contexts \ {c} : ctx'[d] = ctx[d]
    BY <2>1, <2>2 DEF PollInv
  <2> HIDE DEF c
  <2>4. ASSUME NEW d \in Contexts
        PROVE  ContextInv(d)'
    <3>1. ContextInv(d)
      BY DEF PollInv
    <3>2. CASE d = c
      BY <1>2, <2>1, <2>2, <2>3, <3>2 DEF ContextInv
    <3>3. CASE d # c
      <4>1. ~ctx[d].parent_handle
        BY <3>1, <3>3 DEF ContextInv, c
      <4> QED
        BY <1>2, <2>3, <3>1, <3>3, <4>1 DEF ContextInv
    <3> QED
      BY <3>2, <3>3
  <2> QED
    BY <1>2, <2>2, <2>3, <2>4 DEF PollInv
<1> QED
  BY <1>3, <1>4

LEMMA FsPollStopKeeps ==
    ASSUME IInv, FsPollStop \/ FsPollClose
    PROVE  IInv'
<1>1. /\ UNCHANGED <<program, started, wq, loop_wq, batch, active, job, single, pc, work, result, ran, called,
                     lpc, subject, target>>
      /\ Stop(FALSE) \/ Stop(TRUE)
  BY DEF FsPollStop, FsPollClose, PoolUntouched
<1>2. Typed'
  BY <1>1 DEF IInv, Typed
<1>3. \A q \in AllRequests : Requeued(q)' <=> Requeued(q)
  BY <1>1 DEF Requeued
<1>4. PollInv'
  BY <1>1, StopKeeps DEF IInv
<1> QED
  BY <1>1, <1>2, <1>3, <1>4, JobsKept, PlacesKept, HistoryKept, LoopKept DEF IInv

LEMMA TimerFiresKeeps ==
    ASSUME IInv, NEW c \in Contexts, TimerFires(c)
    PROVE  IInv'
<1> DEFINE x == [ctx[c] EXCEPT !.timer = "off"]
<1>1. /\ UNCHANGED <<program, job, loop_wq, batch, lpc, subject, target, handle>>
      /\ ctx[c].timer = "on" /\ WorkSubmit(c)
      /\ ctx' = [ctx EXCEPT ![c] = x]
      /\ Check(ctx[c].parent_handle /\ handle.poll_ctx = c, "timer_cb")
  BY DEF TimerFires
<1>2. PollInv /\ ContextInv(c) /\ ctx[c] \in Context
  BY DEF IInv, PollInv
<1>3. c \notin active /\ subject # c /\ c \in AllRequests
  BY <1>1, <1>2, Apart DEF ContextInv
<1>4. Typed' /\ JobsInv' /\ PlacesInv' /\ HistoryInv'
  BY <1>1, <1>3, WorkSubmitKeeps DEF IInv
<1>5. active' = active \cup {c}
  BY <1>1 DEF WorkSubmit
<1>6. LoopInv'
  BY <1>1, <1>3, <1>5 DEF IInv, LoopInv
<1>7. /\ x \in Context /\ x.alloc = ctx[c].alloc /\ x.parent_handle = ctx[c].parent_handle
      /\ x.timer = "off"
  BY <1>2 DEF Context
<1>8. ctx[c].alloc /\ failed' = failed
  BY <1>1, <1>2 DEF ContextInv, Check
<1> HIDE DEF x
<1>9. PollInv'
  <2>1. \A d \in Contexts \ {c} : d \in active' \/ subject' = d <=> d \in active \/ subject = d
    BY <1>1, <1>5
  <2>2. (c \in active' \/ subject' = c) <=> x.timer = "off"
    BY <1>5, <1>7
  <2> QED
    BY <1>1, <1>2, <1>7, <1>8, <2>1, <2>2, ContextChanges
<1> QED
  BY <1>4, <1>6, <1>9 DEF IInv

LEMMA TimerClosesKeeps ==
    ASSUME IInv, NEW c \in Contexts, TimerCloses(c)
    PROVE  IInv'
<1>1. /\ UNCHANGED <<program, started, wq, loop_wq, batch, active, job, single, pc, work, result, ran, called,
                     lpc, subject, target, handle, failed>>
      /\ ctx[c].timer = "closing" /\ ctx' = [ctx EXCEPT ![c] = NoContext]
  BY DEF TimerCloses, PoolUntouched
<1>2. PollInv /\ ContextInv(c)
  BY DEF IInv, PollInv
<1>3. Typed'
  BY <1>1 DEF IInv, Typed
<1>4. \A q \in AllRequests : Requeued(q)' <=> Requeued(q)
  BY <1>1 DEF Requeued
<1>5. PollInv'
  <2>1. c \notin active /\ subject # c /\ ctx[c].parent_handle = FALSE
    BY <1>1, <1>2 DEF ContextInv, PollInv, Context
  <2> QED
    BY <1>1, <1>2, <2>1, NoContextIs, ContextChanges
<1> QED
  BY <1>1, <1>3, <1>4, <1>5, JobsKept, PlacesKept, HistoryKept, LoopKept DEF IInv

-----------------------------------------------------------------------------
(* poll_cb. *)

LEMMA RememberIs ==
    ASSUME NEW x \in Context, NEW r \in Results
    PROVE  /\ Remember(x, r) \in Context /\ Remember(x, r).parent_handle = x.parent_handle
           /\ Remember(x, r).alloc = x.alloc /\ Remember(x, r).timer = x.timer
<1>1. CASE r \in Errors
  BY <1>1 DEF Remember, Context
<1>2. CASE r \notin Errors
  BY <1>2 DEF Remember, Context
<1> QED
  BY <1>1, <1>2

\* The timer of a context goes on, or is closed.
LEMMA OutKeeps ==
    ASSUME PollInv, NEW c \in Contexts, NEW x \in Context, Out(c, x), UNCHANGED handle,
           ctx[c].timer = "off", x.timer = "off", x.alloc = ctx[c].alloc,
           x.parent_handle = ctx[c].parent_handle,
           \A d \in Contexts \ {c} : d \in active' \/ subject' = d <=> d \in active \/ subject = d,
           c \notin active', subject' # c
    PROVE  PollInv'
<1>1. x.alloc
  BY DEF PollInv, ContextInv
<1>2. CASE x.parent_handle
  <2> DEFINE y == [x EXCEPT !.timer = "on"]
  <2>1. ctx' = [ctx EXCEPT ![c] = y] /\ failed' = failed
    BY <1>2 DEF Out
  <2>2. y \in Context /\ y.timer = "on" /\ y.alloc = x.alloc /\ y.parent_handle = x.parent_handle
    BY DEF Context
  <2> HIDE DEF y
  <2> QED
    BY <1>1, <1>2, <2>1, <2>2, ContextChanges
<1>3. CASE ~x.parent_handle
  <2> DEFINE y == [x EXCEPT !.timer = "closing"]
  <2>1. ctx' = [ctx EXCEPT ![c] = y] /\ failed' = failed
    BY <1>1, <1>3 DEF Out, CloseTimer, Check
  <2>2. y \in Context /\ y.timer = "closing" /\ y.alloc = x.alloc /\ y.parent_handle = x.parent_handle
    BY DEF Context
  <2> HIDE DEF y
  <2> QED
    BY <1>1, <1>3, <2>1, <2>2, ContextChanges
<1> QED
  BY <1>2, <1>3

LEMMA DonePollKeeps ==
    ASSUME IInv, DonePoll
    PROVE  IInv'
<1> DEFINE c == Head(batch)
           x == Remember(ctx[c], result[c])
<1>1. /\ UNCHANGED <<program, started, wq, loop_wq, pc, job, work, single, target, result, ran, handle>>
      /\ lpc = "drains" /\ batch # << >> /\ c \in Contexts
      /\ batch' = Tail(batch)
      /\ active' = active \ {c}
      /\ called' = [called EXCEPT ![c] = @ + 1]
      /\ \/ ctx' = [ctx EXCEPT ![c] = x] /\ lpc' = "callback" /\ subject' = c /\ failed' = failed
         \/ /\ Out(c, IF ctx[c].parent_handle THEN x ELSE ctx[c])
            /\ UNCHANGED <<lpc, subject>>
  BY DEF DonePoll
<1>2. c \in active /\ c \in AllRequests
  BY <1>1, HeadIs
<1>3. result[c] # "ECANCELED" /\ work[c] # "uv__cancelled" /\ result[c] \in Results
  BY <1>1, <1>2 DEF IInv, HistoryInv, Typed
<1>4. PollInv /\ ContextInv(c) /\ ctx[c] \in Context
  BY <1>1 DEF IInv, PollInv
<1>5. ctx[c].timer = "off" /\ ctx[c].alloc
  BY <1>2, <1>4 DEF ContextInv
<1>6. /\ x \in Context /\ x.parent_handle = ctx[c].parent_handle
      /\ x.alloc = ctx[c].alloc /\ x.timer = ctx[c].timer
  BY <1>3, <1>4, RememberIs
<1> HIDE DEF c, x
<1>7. /\ Typed' /\ JobsInv' /\ PlacesInv' /\ HistoryInv' /\ LoopInv'
      /\ subject = Nobody
  <2>1. /\ lpc' \in {"drains", "callback"} /\ subject' = IF lpc' = "callback" THEN c ELSE subject
        /\ result' \in [AllRequests -> Results]
        /\ result'[c] = "ECANCELED" <=> work[c] = "uv__cancelled"
        /\ \A q \in AllRequests : q # c => result'[q] = result[q]
    BY <1>1, <1>3 DEF IInv, Typed
  <2> QED
    BY <1>1, <2>1, DoneIs DEF c
<1>8. c # Nobody /\ \A d \in Contexts : d # Nobody
  BY <1>2, Apart
<1>9. PollInv'
  <2>1. CASE ctx' = [ctx EXCEPT ![c] = x] /\ lpc' = "callback" /\ subject' = c /\ failed' = failed
    <3>1. \A d \in Contexts \ {c} : d \in active' \/ subject' = d <=> d \in active \/ subject = d
      BY <1>1, <1>7, <1>8, <2>1
    <3>2. c \in active' \/ subject' = c <=> x.timer = "off"
      BY <1>5, <1>6, <2>1
    <3> QED
      BY <1>1, <1>4, <1>5, <1>6, <2>1, <3>1, <3>2, ContextChanges
  <2>2. CASE Out(c, IF ctx[c].parent_handle THEN x ELSE ctx[c]) /\ UNCHANGED <<lpc, subject>>
    <3>1. PICK y \in {x, ctx[c]} : Out(c, y)
      BY <2>2
    <3>2. /\ y \in Context /\ y.parent_handle = ctx[c].parent_handle
          /\ y.alloc = ctx[c].alloc /\ y.timer = "off"
      BY <1>4, <1>5, <1>6, <3>1
    <3>3. \A d \in Contexts \ {c} : d \in active' \/ subject' = d <=> d \in active \/ subject = d
      BY <1>1, <2>2
    <3>4. c \notin active' /\ subject' # c
      BY <1>1, <1>7, <1>8, <2>2
    <3> QED
      BY <1>1, <1>4, <1>5, <3>1, <3>2, <3>3, <3>4, OutKeeps
  <2> QED
    BY <1>1, <2>1, <2>2
<1> QED
  BY <1>7, <1>9 DEF IInv

LEMMA PollReturnsKeeps ==
    ASSUME IInv, PollReturns
    PROVE  IInv'
<1>1. /\ UNCHANGED <<program, started, wq, pc, job, work, single, loop_wq, batch, active, target, result,
                     ran, called, handle>>
      /\ lpc = "callback" /\ lpc' = "drains" /\ subject' = Nobody /\ subject \in Contexts
      /\ Out(subject, ctx[subject])
  BY DEF PollReturns
<1>2. Typed' /\ JobsInv' /\ PlacesInv' /\ HistoryInv' /\ LoopInv'
  BY <1>1, ReturnIs
<1>3. PollInv /\ ContextInv(subject) /\ ctx[subject] \in Context /\ subject \notin active
  BY <1>1 DEF IInv, PollInv, LoopInv
<1>4. ctx[subject].timer = "off" /\ subject # Nobody
  BY <1>1, <1>3, Apart DEF ContextInv, AllRequests
<1>5. \A d \in Contexts \ {subject} : d \in active' \/ subject' = d <=> d \in active \/ subject = d
  BY <1>1, Apart DEF AllRequests
<1>6. PollInv'
  BY <1>1, <1>3, <1>4, <1>5, OutKeeps
<1> QED
  BY <1>2, <1>6 DEF IInv

-----------------------------------------------------------------------------
(* The theorems. *)

LEMMA InitIsRight == Init => IInv
<1> SUFFICES ASSUME Init
             PROVE  IInv
  OBVIOUS
<1>1. /\ program \in Programs /\ started = FALSE /\ wq = << >> /\ loop_wq = << >> /\ batch = << >>
      /\ pc = [w \in Workers |-> "none"] /\ job = [w \in Workers |-> Nobody]
      /\ work = [r \in AllRequests |-> "NULL"] /\ single = {} /\ active = {}
      /\ lpc = "idle" /\ subject = Nobody /\ target = Nobody
      /\ result = [r \in AllRequests |-> "none"]
      /\ ran = [r \in AllRequests |-> 0] /\ called = [r \in AllRequests |-> 0]
      /\ handle = [active |-> FALSE, closing |-> FALSE, poll_ctx |-> Nobody]
      /\ ctx = [c \in Contexts |-> NoContext] /\ failed = {}
  BY DEF Init, PoolInit
<1>2. Typed
  <2>1. << >> \in Seq(AllRequests) /\ << >> \in Seq(AllRequests \cup {ExitMessage})
    OBVIOUS
  <2> QED
    BY <1>1, <2>1 DEF Typed, Results
<1>3. JobsInv
  BY <1>1, Apart DEF JobsInv, Busy
<1>4. PlacesInv
  <2>1. Unique(wq) /\ Unique(loop_wq) /\ Unique(batch)
    BY <1>1, EmptyIs
  <2>2. \A r \in AllRequests : ~InQ(wq, r) /\ ~InQ(loop_wq, r) /\ ~InQ(batch, r) /\ ~Requeued(r)
    BY <1>1, EmptyIs DEF Requeued
  <2> QED
    BY <1>1, <2>1, <2>2 DEF PlacesInv
<1>5. HistoryInv /\ LoopInv
  BY <1>1, Apart DEF HistoryInv, LoopInv, InCallback, AllRequests
<1>6. PollInv
  <2>1. \A c \in Contexts : ctx[c] = NoContext /\ c # Nobody
    BY <1>1, Apart DEF AllRequests
  <2>2. \A c \in Contexts : ContextInv(c)
    BY <1>1, <2>1, NoContextIs DEF ContextInv
  <2> QED
    BY <1>1, <2>2, NoContextIs DEF PollInv
<1> QED
  BY <1>2, <1>3, <1>4, <1>5, <1>6 DEF IInv

LEMMA NextKeeps == IInv /\ [Next]_vars => IInv'
<1> SUFFICES ASSUME IInv, [Next]_vars
             PROVE  IInv'
  OBVIOUS
<1>1. CASE UNCHANGED vars
  <2>1. Typed' /\ LoopInv' /\ PollInv'
    BY <1>1 DEF vars, poolVars, IInv, Typed, LoopInv, PollInv, ContextInv
  <2>2. \A q \in AllRequests : Requeued(q)' <=> Requeued(q)
    BY <1>1 DEF Requeued, vars, poolVars
  <2>3. UNCHANGED <<started, wq, loop_wq, batch, active, job, single, pc, work, result, ran, called>>
    BY <1>1 DEF vars, poolVars
  <2> QED
    BY <2>1, <2>2, <2>3, JobsKept, PlacesKept, HistoryKept DEF IInv
<1>2. CASE LoopStep
  BY <1>2, PoolLoopKeeps, DonePollKeeps, PollReturnsKeeps, TimerClosesKeeps DEF LoopStep
<1>3. CASE ClientStep
  BY <1>3, ForkKeeps, SubmitKeeps, CancelKeeps, FsPollStopKeeps, FsPollStartKeeps DEF ClientStep, PoolClient
<1>4. CASE Exit /\ PollUntouched
  BY <1>4, ExitKeeps
<1>5. CASE \E c \in Contexts : TimerFires(c)
  BY <1>5, TimerFiresKeeps
<1>6. CASE \E w \in Workers : (WorkerStep(w) \/ WorkerSpuriouslyWakes(w)) /\ PollUntouched
  BY <1>6, WorkerKeeps
<1> QED
  BY <1>1, <1>2, <1>3, <1>4, <1>5, <1>6 DEF Next

\* Every step of the loop, of a worker, of the client and of the process keeps the invariant:
\* where each request is, which thread works on which, and what a poll context waits for
\* (threadpool.c, fs-poll.c).
THEOREM InvariantHolds == Spec => []IInv
  BY InitIsRight, NextKeeps, PTL DEF Spec

LEMMA HeldOnce == IInv => RequestsAreHeldOnce
<1> SUFFICES ASSUME IInv, NEW r \in AllRequests
             PROVE  /\ Places(r) = IF r \in active THEN 1 ELSE 0
                    /\ ran[r] <= 1 /\ called[r] <= 1
                    /\ r \in active => called[r] = 0
                    /\ called[r] = 1 => (result[r] = "ECANCELED" <=> ran[r] = 0)
  BY DEF RequestsAreHeldOnce
<1>1. /\ ran[r] <= 1 /\ called[r] <= 1
      /\ r \in active => called[r] = 0
      /\ called[r] = 1 => (result[r] = "ECANCELED" <=> ran[r] = 0)
  BY DEF IInv, HistoryInv
<1> DEFINE a == Count(wq, r)
           b == Count(loop_wq, r)
           c == Count(batch, r)
           d == Cardinality({w \in Workers : job[w] = r})
           e == IF lpc \in {"requeues", "requeues in callback"} /\ target = r THEN 1 ELSE 0
<1>2. r # ExitMessage /\ r # Nobody
  BY Apart
<1>3. /\ a = IF InQ(wq, r) THEN 1 ELSE 0
      /\ b = IF InQ(loop_wq, r) THEN 1 ELSE 0
      /\ c = IF InQ(batch, r) THEN 1 ELSE 0
  <2>1. /\ wq \in Seq(AllRequests \cup {ExitMessage}) /\ Unique(wq)
        /\ loop_wq \in Seq(AllRequests) /\ Unique(loop_wq)
        /\ batch \in Seq(AllRequests) /\ Unique(batch)
    BY DEF IInv, Typed, PlacesInv
  <2> QED
    BY <1>2, <2>1, CountOf
<1>4. d = IF r \in single THEN 1 ELSE 0
  <2>1. CASE r \in single
    <3>1. PICK w \in Workers : job[w] = r
      BY <2>1 DEF IInv, JobsInv
    <3>2. {v \in Workers : job[v] = r} = {w}
      BY <1>2, <3>1 DEF IInv, JobsInv
    <3> QED
      BY <2>1, <3>2, FS_Singleton
  <2>2. CASE r \notin single
    <3>1. {v \in Workers : job[v] = r} = {}
      BY <2>2 DEF IInv, JobsInv
    <3> QED
      BY <2>2, <3>1, FS_EmptySet
  <2> QED
    BY <2>1, <2>2
<1>5. e = IF Requeued(r) THEN 1 ELSE 0
  BY DEF Requeued
<1>6. Places(r) = a + b + c + d + e
  BY DEF Places
<1> HIDE DEF a, b, c, d, e
<1>7. /\ r \in active <=> InQ(wq, r) \/ InQ(loop_wq, r) \/ InQ(batch, r) \/ r \in single \/ Requeued(r)
      /\ InQ(wq, r) => ~InQ(loop_wq, r) /\ ~InQ(batch, r) /\ r \notin single /\ ~Requeued(r)
      /\ InQ(loop_wq, r) => ~InQ(batch, r) /\ r \notin single /\ ~Requeued(r)
      /\ InQ(batch, r) => r \notin single /\ ~Requeued(r)
      /\ r \in single => ~Requeued(r)
  BY DEF IInv, PlacesInv
<1>8. a + b + c + d + e = IF r \in active THEN 1 ELSE 0
  BY <1>3, <1>4, <1>5, <1>7
<1> QED
  BY <1>1, <1>6, <1>8

LEMMA OwnedOnce == IInv => ContextsAreOwned
  BY DEF IInv, PollInv, ContextInv, ContextsAreOwned

-----------------------------------------------------------------------------
(* The memory of the requests. *)

Blocks == {"input", "bufs", "answer", "addrinfow", "path"}

\* What is malloced for a request in each of its states: a thread of Unix that has run a
\* read or write leaves none of it, and between the callback and the cleaning up in it a
\* resolver's request has its answer only.
MemoryInv ==
    /\ memory \in [AllRequests -> SUBSET Blocks]
    /\ \A r \in AllRequests :
          /\ r \notin active /\ subject # r => memory[r] = {} \/ LeftByCancel(r)
          /\ r \in Requests \ (Writes \cup Resolves) => memory[r] = {}
          /\ r \in Resolves /\ r \notin active => memory[r] \subseteq {"answer"}
          /\ r \in Writes => memory[r] \subseteq {"bufs"}
          /\ r \in Writes /\ ~program.windows /\ ran[r] = 1 => memory[r] = {}
          /\ r \in Writes /\ ~program.windows /\ r \notin active => memory[r] = {} \/ LeftByCancel(r)

LEMMA Kinds ==
    /\ \A r \in Writes : r \notin Resolves /\ r \notin Contexts /\ r \in Requests
    /\ \A r \in Resolves : r \notin Writes /\ r \notin Contexts /\ r \in Requests
  BY PoolAssumption DEF Requests

LEMMA OwnedIs ==
    ASSUME NEW r \in AllRequests
    PROVE  /\ Owned(r) \in SUBSET Blocks
           /\ r \in Requests \ (Writes \cup Resolves) => Owned(r) = {}
           /\ r \in Writes => Owned(r) \subseteq {"bufs"}
<1>1. CASE r \in Contexts
  BY <1>1, Kinds, Apart DEF Owned, Blocks
<1>2. CASE r \notin Contexts
  BY <1>2, Kinds DEF Owned, Blocks
<1> QED
  BY <1>1, <1>2

\* What the invariant looks at stays as it is, or the request of a callback that has
\* returned loses it.
LEMMA MemoryKept ==
    ASSUME MemoryInv, memory' = memory, UNCHANGED <<program, active, subject, result, ran>>
    PROVE  MemoryInv'
  BY DEF MemoryInv, LeftByCancel

LEMMA MemorySubmitted ==
    ASSUME Typed, MemoryInv, NEW r \in AllRequests, WorkSubmit(r), UNCHANGED <<program, subject>>
    PROVE  MemoryInv'
<1>1. /\ active' = active \cup {r}
      /\ result' = [result EXCEPT ![r] = "none"]
      /\ memory' = [memory EXCEPT ![r] = Owned(r)]
      /\ ran' = [ran EXCEPT ![r] = 0]
  BY DEF WorkSubmit
<1>2. /\ memory' \in [AllRequests -> SUBSET Blocks]
      /\ memory'[r] = Owned(r) /\ ran'[r] = 0
      /\ \A q \in AllRequests \ {r} : memory'[q] = memory[q] /\ ran'[q] = ran[q] /\ result'[q] = result[q]
  BY <1>1, OwnedIs DEF MemoryInv, Typed
<1>3. ASSUME NEW q \in AllRequests, q # r
      PROVE  LeftByCancel(q)' <=> LeftByCancel(q)
  BY <1>2, <1>3 DEF LeftByCancel
<1> QED
  BY <1>1, <1>2, <1>3, OwnedIs DEF MemoryInv

LEMMA MemoryRun ==
    ASSUME IInv, MemoryInv, NEW w \in Workers, Run(w), UNCHANGED <<program, active, subject>>
    PROVE  MemoryInv'
<1> DEFINE r == job[w]
<1>1. r \in AllRequests /\ r \in active /\ ran[r] = 0
  <2>1. pc[w] = "works"
    BY DEF Run
  <2>2. r \in AllRequests /\ r \in single /\ ran[r] = 0
    BY <2>1 DEF IInv, JobsInv, Typed, Busy
  <2> QED
    BY <2>2 DEF IInv, PlacesInv
<1>2. PICK o \in Outcomes(r) :
          /\ result' = [result EXCEPT ![r] = o]
          /\ memory' = [memory EXCEPT ![r] = IF o = "error" THEN memory[r] \ (Owned(r) \ AfterWork(r))
                                             ELSE AfterWork(r)]
  BY DEF Run
<1> DEFINE new == IF o = "error" THEN memory[r] \ (Owned(r) \ AfterWork(r)) ELSE AfterWork(r)
<1>3. ran' = [ran EXCEPT ![r] = @ + 1] /\ memory' = [memory EXCEPT ![r] = new]
  BY <1>2 DEF Run
<1>4. /\ new \in SUBSET Blocks
      /\ r \in Requests \ (Writes \cup Resolves) => new = {}
      /\ r \in Writes => new \subseteq {"bufs"}
      /\ r \in Writes /\ ~program.windows => new = {}
  <2>1. AfterWork(r) \in SUBSET Blocks /\ memory[r] \in SUBSET Blocks
    BY <1>1 DEF AfterWork, MemoryInv, Blocks
  <2>2. new \in SUBSET Blocks
    BY <2>1
  <2>3. ASSUME r \in Requests \ (Writes \cup Resolves)
        PROVE  new = {}
    BY <1>1, <2>3 DEF AfterWork, MemoryInv
  <2>4. ASSUME r \in Writes
        PROVE  o = "ok" /\ new = IF program.windows THEN memory[r] ELSE memory[r] \ {"bufs"}
    <3>1. Outcomes(r) = {"ok"}
      BY <2>4, Kinds DEF Outcomes
    <3>2. AfterWork(r) = IF program.windows THEN memory[r] ELSE memory[r] \ {"bufs"}
      BY <2>4, Kinds DEF AfterWork
    <3>3. o = "ok" /\ "ok" # "error"
      BY <3>1
    <3> QED
      BY <3>2, <3>3
  <2>5. ASSUME r \in Writes
        PROVE  memory[r] \subseteq {"bufs"}
    BY <1>1, <2>5 DEF MemoryInv
  <2> HIDE DEF new
  <2>6. ASSUME r \in Writes
        PROVE  new \subseteq {"bufs"} /\ (~program.windows => new = {})
    BY <2>4, <2>5, <2>6
  <2> QED
    BY <2>2, <2>3, <2>6
<1> HIDE DEF r, new
<1>5. /\ memory' \in [AllRequests -> SUBSET Blocks] /\ memory'[r] = new
      /\ \A q \in AllRequests \ {r} : memory'[q] = memory[q] /\ ran'[q] = ran[q] /\ result'[q] = result[q]
  BY <1>1, <1>2, <1>3, <1>4 DEF MemoryInv, IInv, Typed
<1>6. ASSUME NEW q \in AllRequests, q # r
      PROVE  LeftByCancel(q)' <=> LeftByCancel(q)
  BY <1>5, <1>6 DEF LeftByCancel
<1> QED
  BY <1>1, <1>4, <1>5, <1>6 DEF MemoryInv

LEMMA MemoryWorker ==
    ASSUME IInv, MemoryInv, NEW w \in Workers, WorkerStep(w) \/ WorkerSpuriouslyWakes(w)
    PROVE  MemoryInv'
<1>1. UNCHANGED <<program, active, subject>>
  BY DEF WorkerStep, WorkerSpuriouslyWakes, Asynchronous, LoopUntouched
<1>2. CASE Run(w)
  BY <1>1, <1>2, MemoryRun
<1>3. CASE ~Run(w)
  <2>1. UNCHANGED <<result, memory, ran>>
    BY <1>3 DEF WorkerStep, WorkerSpuriouslyWakes
  <2> QED
    BY <1>1, <2>1, MemoryKept
<1> QED
  BY <1>2, <1>3

LEMMA MemoryDone ==
    ASSUME IInv, MemoryInv, DoneRequest
    PROVE  MemoryInv'
<1> DEFINE r == Head(batch)
<1>1. /\ UNCHANGED <<program, ran, work>> /\ batch # << >> /\ r \in Requests
      /\ lpc = "drains" /\ active' = active \ {r} /\ subject' = r
  BY DEF DoneRequest, Asynchronous
<1>2. PICK o \in IF work[r] = "uv__cancelled" THEN {"ECANCELED"} ELSE Converted(r) :
          /\ result' = [result EXCEPT ![r] = o]
          /\ memory' = [memory EXCEPT ![r] = AfterDone(r, o)]
  BY DEF DoneRequest
<1>3. r \in AllRequests /\ Reported(r) /\ subject = Nobody
  BY <1>1, HeadIs DEF IInv, LoopInv, InCallback
<1> HIDE DEF r
<1>4. /\ AfterDone(r, o) \in SUBSET Blocks
      /\ r \in Requests \ (Writes \cup Resolves) => AfterDone(r, o) = {}
      /\ r \in Resolves => AfterDone(r, o) \subseteq {"answer"}
      /\ r \in Writes => AfterDone(r, o) = memory[r]
  <2>1. r \notin Resolves => AfterDone(r, o) = memory[r]
    BY DEF AfterDone
  <2>2. r \in Resolves => AfterDone(r, o) \subseteq {"answer"}
    BY DEF AfterDone
  <2> QED
    BY <1>3, <2>1, <2>2, Kinds DEF MemoryInv, Blocks
<1>5. /\ memory' \in [AllRequests -> SUBSET Blocks] /\ memory'[r] = AfterDone(r, o) /\ result'[r] = o
      /\ \A q \in AllRequests \ {r} : memory'[q] = memory[q] /\ result'[q] = result[q]
  BY <1>2, <1>3, <1>4 DEF MemoryInv, IInv, Typed
<1>6. ASSUME NEW q \in AllRequests, q # r
      PROVE  LeftByCancel(q)' <=> LeftByCancel(q)
  BY <1>1, <1>5, <1>6 DEF LeftByCancel
<1>7. \A q \in AllRequests : q # Nobody
  BY Apart
<1>8. ASSUME r \in Writes, ~program.windows
      PROVE  memory'[r] = {} \/ result'[r] = "ECANCELED"
  <2>1. CASE ran[r] = 1
    BY <1>3, <1>4, <1>5, <1>8, <2>1 DEF MemoryInv
  <2>2. CASE ran[r] # 1
    <3>1. work[r] = "uv__cancelled"
      BY <1>3, <2>2 DEF Reported
    <3>2. o = "ECANCELED"
      BY <1>2, <3>1
    <3> QED
      BY <1>5, <3>2
  <2> QED
    BY <2>1, <2>2
<1>9. ASSUME NEW q \in AllRequests, q # r
      PROVE  /\ q \notin active /\ subject # q => memory[q] = {} \/ LeftByCancel(q)
             /\ subject # q /\ (q \in active' <=> q \in active)
  BY <1>1, <1>3, <1>7, <1>9 DEF MemoryInv
<1>10. r \in Writes => memory'[r] \subseteq {"bufs"} /\ (~program.windows /\ ran[r] = 1 => memory'[r] = {})
  BY <1>3, <1>4, <1>5 DEF MemoryInv
<1>11. ASSUME NEW q \in AllRequests, q # r
       PROVE  /\ q \notin active' /\ subject' # q => memory'[q] = {} \/ LeftByCancel(q)'
              /\ q \in Requests \ (Writes \cup Resolves) => memory'[q] = {}
              /\ q \in Resolves /\ q \notin active' => memory'[q] \subseteq {"answer"}
              /\ q \in Writes => memory'[q] \subseteq {"bufs"}
              /\ q \in Writes /\ ~program'.windows /\ ran'[q] = 1 => memory'[q] = {}
              /\ q \in Writes /\ ~program'.windows /\ q \notin active' => memory'[q] = {} \/ LeftByCancel(q)'
  <2>1. memory'[q] = memory[q] /\ (LeftByCancel(q)' <=> LeftByCancel(q)) /\ program' = program /\ ran' = ran
    BY <1>1, <1>5, <1>6, <1>11
  <2> QED
    BY <1>9, <1>11, <2>1 DEF MemoryInv
<1>12. /\ r \in Requests \ (Writes \cup Resolves) => memory'[r] = {}
       /\ r \in Resolves => memory'[r] \subseteq {"answer"}
       /\ r \in Writes => memory'[r] \subseteq {"bufs"}
       /\ r \in Writes /\ ~program'.windows => memory'[r] = {} \/ result'[r] = "ECANCELED"
       /\ r \in Writes /\ ~program'.windows /\ ran'[r] = 1 => memory'[r] = {}
       /\ subject' = r
  BY <1>1, <1>4, <1>5, <1>8, <1>10
<1> QED
  <2>1. ASSUME NEW q \in AllRequests, q = r
        PROVE  /\ subject' = q
               /\ q \in Requests \ (Writes \cup Resolves) => memory'[q] = {}
               /\ q \in Resolves => memory'[q] \subseteq {"answer"}
               /\ q \in Writes => memory'[q] \subseteq {"bufs"}
               /\ q \in Writes /\ ~program'.windows /\ ran'[q] = 1 => memory'[q] = {}
               /\ q \in Writes /\ ~program'.windows => memory'[q] = {} \/ LeftByCancel(q)'
    BY <1>12, <2>1 DEF LeftByCancel
  <2> QED
    BY <1>5, <1>11, <2>1 DEF MemoryInv


LEMMA MemoryReturned ==
    ASSUME IInv, MemoryInv, CallbackReturns
    PROVE  MemoryInv'
<1>1. /\ UNCHANGED <<program, active, result, ran>> /\ subject \in Requests /\ subject' = Nobody
      /\ memory' = [memory EXCEPT ![subject] = Cleaned(subject)]
  BY DEF CallbackReturns, Asynchronous
<1>2. subject \in AllRequests /\ Nobody \notin AllRequests
  BY <1>1, Apart DEF AllRequests
<1> DEFINE r == subject
           new == Cleaned(r)
<1>3. /\ new \in SUBSET Blocks
      /\ r \in Requests \ (Writes \cup Resolves) => new = {}
      /\ r \in Resolves => new = memory[r] \ {"answer"}
      /\ r \in Writes => new = IF program.windows THEN {} ELSE memory[r]
  <2>1. r \in Resolves => new = memory[r] \ {"answer"}
    BY Kinds DEF Cleaned
  <2>2. r \in Writes => new = IF program.windows THEN {} ELSE memory[r]
    BY Kinds DEF Cleaned
  <2>3. r \in Requests \ (Writes \cup Resolves) => new = {}
    BY DEF Cleaned
  <2>4. memory[r] \in SUBSET Blocks
    BY <1>2 DEF MemoryInv
  <2> QED
    BY <1>1, <2>1, <2>2, <2>3, <2>4
<1> HIDE DEF new
<1>4. /\ memory' \in [AllRequests -> SUBSET Blocks] /\ memory'[r] = new
      /\ \A q \in AllRequests \ {r} : memory'[q] = memory[q]
  BY <1>1, <1>2, <1>3 DEF MemoryInv, new
<1>5. \A q \in AllRequests : LeftByCancel(q)' <=> LeftByCancel(q)
  BY <1>1 DEF LeftByCancel
<1>6. r \notin active => new = {} \/ LeftByCancel(r)
  <2>1. CASE r \in Writes
    BY <1>2, <1>3, <2>1 DEF MemoryInv
  <2>2. CASE r \in Resolves
    BY <1>2, <1>3, <2>2 DEF MemoryInv
  <2>3. CASE r \notin Writes \cup Resolves
    BY <1>1, <1>3, <2>3
  <2> QED
    BY <2>1, <2>2, <2>3
<1>7. /\ r \in Writes => new \subseteq {"bufs"} /\ (~program.windows /\ ran[r] = 1 => new = {})
      /\ r \in Resolves /\ r \notin active => new \subseteq {"answer"}
  BY <1>2, <1>3 DEF MemoryInv
<1> HIDE DEF r
<1>8. ASSUME NEW q \in AllRequests, q # r, q \notin active
      PROVE  memory[q] = {} \/ LeftByCancel(q)
  BY <1>8 DEF MemoryInv, r
<1> QED
  BY <1>1, <1>2, <1>3, <1>4, <1>5, <1>6, <1>7, <1>8 DEF MemoryInv, r

\* What frees the path of a context, or keeps it for the callback.
LEMMA MemoryPolled ==
    ASSUME IInv, MemoryInv, NEW c \in Contexts, UNCHANGED <<program, result, ran>>,
           \/ memory' = memory /\ subject' = c /\ subject = Nobody /\ active' = active \ {c}
           \/ memory' = [memory EXCEPT ![c] = {}] /\ active' \in {active, active \ {c}}
              /\ \/ subject' = subject
                 \/ subject' = Nobody /\ subject = c
    PROVE  MemoryInv'
<1>1. c \in AllRequests /\ c \notin Requests /\ c \notin Writes /\ c \notin Resolves
  BY Apart, Kinds
<1>2. \A q \in AllRequests : LeftByCancel(q)' <=> LeftByCancel(q)
  BY DEF LeftByCancel
<1>3. \A q \in AllRequests : q # Nobody
  BY Apart
<1>4. /\ memory' \in [AllRequests -> SUBSET Blocks]
      /\ \A q \in AllRequests \ {c} : memory'[q] = memory[q]
      /\ memory'[c] = memory[c] \/ memory'[c] = {}
  BY DEF MemoryInv
<1>5. subject' = c \/ memory'[c] = {}
  BY <1>1 DEF MemoryInv
<1>6. ASSUME NEW q \in AllRequests, q # c
      PROVE  /\ q \in active' <=> q \in active
             /\ subject' = q <=> subject = q
  BY <1>3, <1>6
<1> QED
  BY <1>1, <1>2, <1>4, <1>5, <1>6 DEF MemoryInv

LEMMA MemoryPolls ==
    ASSUME IInv, MemoryInv,
           \/ DonePoll \/ PollReturns \/ FsPollStop \/ FsPollClose
           \/ \E c \in Contexts : TimerCloses(c) \/ TimerFires(c) \/ FsPollStart(c)
    PROVE  MemoryInv'
<1>1. CASE DonePoll
  <2>1. lpc = "drains" /\ Head(batch) \in Contexts
    BY <1>1 DEF DonePoll
  <2>2. subject = Nobody
    BY <2>1 DEF IInv, LoopInv, InCallback
  <2> QED
    BY <1>1, <2>1, <2>2, MemoryPolled DEF DonePoll
<1>2. CASE PollReturns
  BY <1>2, MemoryPolled DEF PollReturns
<1>3. CASE FsPollStop \/ FsPollClose \/ \E c \in Contexts : TimerCloses(c)
  BY <1>3, MemoryKept DEF FsPollStop, FsPollClose, TimerCloses, PoolUntouched
<1>4. ASSUME NEW c \in Contexts, TimerFires(c) \/ FsPollStart(c)
      PROVE  MemoryInv'
  <2>1. WorkSubmit(c) /\ UNCHANGED <<program, subject>> /\ c \in AllRequests
    BY <1>4, Apart DEF TimerFires, FsPollStart
  <2> QED
    BY <2>1, MemorySubmitted DEF IInv
<1> QED
  BY <1>1, <1>2, <1>3, <1>4

LEMMA MemoryCalls ==
    ASSUME IInv, MemoryInv, PoolLoop \/ PoolClient \/ Exit
    PROVE  MemoryInv'
<1>1. CASE CancelTest \/ CancelRequeue \/ AsyncWakes \/ MoveQueue \/ Drained \/ Joined
  BY <1>1, MemoryKept DEF CancelTest, CancelRequeue, AsyncWakes, MoveQueue, Drained, Joined, WorkersUntouched,
                          Asynchronous
<1>2. CASE Fork \/ Exit
  BY <1>2, MemoryKept DEF Fork, Exit, Asynchronous
<1>3. ASSUME NEW r \in Requests, Submit(r)
      PROVE  MemoryInv'
  BY <1>3, MemorySubmitted, Apart DEF Submit, IInv
<1>4. ASSUME NEW r \in Requests, Cancel(r)
      PROVE  MemoryInv'
  BY <1>4, MemoryKept DEF Cancel, WorkersUntouched
<1> QED
  BY <1>1, <1>2, <1>3, <1>4, MemoryDone, MemoryReturned DEF PoolLoop, PoolClient

LEMMA MemoryInit == Init => MemoryInv
  BY DEF Init, PoolInit, MemoryInv

LEMMA MemoryNext == IInv /\ MemoryInv /\ [Next]_vars => MemoryInv'
<1> SUFFICES ASSUME IInv, MemoryInv, [Next]_vars
             PROVE  MemoryInv'
  OBVIOUS
<1>1. CASE UNCHANGED vars
  BY <1>1, MemoryKept DEF vars, poolVars
<1>2. CASE LoopStep
  BY <1>2, MemoryCalls, MemoryPolls DEF LoopStep
<1>3. CASE ClientStep
  BY <1>3, MemoryCalls, MemoryPolls DEF ClientStep
<1>4. CASE \E w \in Workers : WorkerStep(w) \/ WorkerSpuriouslyWakes(w)
  BY <1>4, MemoryWorker
<1> QED
  BY <1>1, <1>2, <1>3, <1>4, MemoryCalls, MemoryPolls DEF Next

-----------------------------------------------------------------------------
(* What a poll handle tells. *)

\* What a context remembers is what the last stat found.
Remembered(c) ==
    IF seen[c] = "none" THEN ctx[c].busy_polling = "0"
    ELSE IF seen[c] \in Errors THEN ctx[c].busy_polling = seen[c]
    ELSE ctx[c].busy_polling = "1" /\ ctx[c].statbuf = seen[c]

SeenInv ==
    /\ seen = [c \in Contexts |-> seen[c]]
    /\ \A c \in Contexts : ran[c] = 1 => result[c] \in program.file
    /\ \A c \in Contexts : ctx[c].parent_handle => Remembered(c)

LEMMA SeenKept ==
    ASSUME SeenInv, UNCHANGED <<program, ctx, seen>>,
           \A c \in Contexts : ran'[c] = 1 => ran[c] = 1 /\ result'[c] = result[c]
    PROVE  SeenInv'
  BY DEF SeenInv, Remembered

LEMMA SeenRun ==
    ASSUME IInv, SeenInv, NEW w \in Workers, Run(w), UNCHANGED <<program, ctx, seen>>
    PROVE  SeenInv'
<1> DEFINE r == job[w]
<1>1. r \in AllRequests
  BY DEF Run, IInv, JobsInv, Typed, Busy
<1>2. PICK o \in Outcomes(r) : result' = [result EXCEPT ![r] = o]
  BY DEF Run
<1>3. ran' = [ran EXCEPT ![r] = @ + 1]
  BY DEF Run
<1>4. r \in Contexts => o \in program.file
  BY <1>2 DEF Outcomes
<1> HIDE DEF r
<1>5. ASSUME NEW c \in Contexts, ran'[c] = 1
      PROVE  result'[c] \in program.file
  <2>1. c \in AllRequests
    BY Apart
  <2>2. CASE c = r
    BY <1>1, <1>2, <1>4, <2>1, <2>2 DEF IInv, Typed
  <2>3. CASE c # r
    <3>1. ran'[c] = ran[c] /\ result'[c] = result[c]
      BY <1>1, <1>2, <1>3, <2>1, <2>3 DEF IInv, Typed
    <3> QED
      BY <1>5, <3>1 DEF SeenInv
  <2> QED
    BY <2>2, <2>3
<1> QED
  BY <1>5 DEF SeenInv, Remembered

\* One context changes, and the others keep what they remember.
LEMMA SeenChanges ==
    ASSUME IInv, SeenInv, NEW c \in Contexts, NEW x, NEW found,
           ctx' = [ctx EXCEPT ![c] = x], seen' = [seen EXCEPT ![c] = found], UNCHANGED program,
           \A d \in Contexts : ran'[d] = 1 => ran[d] = 1 /\ result'[d] = result[d],
           x.parent_handle => IF found = "none" THEN x.busy_polling = "0"
                              ELSE IF found \in Errors THEN x.busy_polling = found
                              ELSE x.busy_polling = "1" /\ x.statbuf = found
    PROVE  SeenInv'
<1>1. /\ ctx'[c] = x /\ seen'[c] = found /\ seen' = [d \in Contexts |-> seen'[d]]
      /\ \A d \in Contexts \ {c} : ctx'[d] = ctx[d] /\ seen'[d] = seen[d]
  BY DEF IInv, PollInv, SeenInv
<1>2. ASSUME NEW d \in Contexts, ctx'[d].parent_handle
      PROVE  Remembered(d)'
  <2>1. CASE d = c
    BY <1>1, <1>2, <2>1 DEF Remembered
  <2>2. CASE d # c
    BY <1>1, <1>2, <2>2 DEF Remembered, SeenInv
  <2> QED
    BY <2>1, <2>2
<1> QED
  BY <1>1, <1>2 DEF SeenInv

LEMMA SubmittedRuns ==
    ASSUME IInv, NEW r \in AllRequests, WorkSubmit(r)
    PROVE  \A c \in Contexts : ran'[c] = 1 => ran[c] = 1 /\ result'[c] = result[c]
<1>1. ran' = [ran EXCEPT ![r] = 0] /\ result' = [result EXCEPT ![r] = "none"]
  BY DEF WorkSubmit
<1> QED
  BY <1>1, Apart DEF IInv, Typed

\* What poll_cb does with the timer leaves what the context remembers.
LEMMA OutRemembers ==
    ASSUME NEW c \in Contexts, NEW x \in Context, Out(c, x)
    PROVE  \E y \in Context : /\ ctx' = [ctx EXCEPT ![c] = y]
                              /\ y.parent_handle = x.parent_handle
                              /\ y.busy_polling = x.busy_polling /\ y.statbuf = x.statbuf
<1>1. ASSUME NEW t \in {"on", "closing"}
      PROVE  /\ [x EXCEPT !.timer = t] \in Context
             /\ [x EXCEPT !.timer = t].parent_handle = x.parent_handle
             /\ [x EXCEPT !.timer = t].busy_polling = x.busy_polling
             /\ [x EXCEPT !.timer = t].statbuf = x.statbuf
  BY DEF Context
<1>2. \E t \in {"on", "closing"} : ctx' = [ctx EXCEPT ![c] = [x EXCEPT !.timer = t]]
  BY DEF Out, CloseTimer
<1> QED
  BY <1>1, <1>2

\* The stat that DonePoll deals with has run, and is not "none".
LEMMA StatIs ==
    ASSUME IInv, SeenInv, DonePoll
    PROVE  /\ Head(batch) \in Contexts /\ result[Head(batch)] # "none"
           /\ result[Head(batch)] \in Results /\ ctx[Head(batch)] \in Context
<1> DEFINE c == Head(batch)
<1>1. batch # << >> /\ c \in Contexts
  BY DEF DonePoll
<1>2. Reported(c) /\ c \in AllRequests
  BY <1>1, HeadIs
<1>3. ran[c] = 1
  BY <1>1, <1>2 DEF Reported, IInv, HistoryInv
<1>4. result[c] \in program.file /\ program \in Programs
  BY <1>1, <1>3 DEF SeenInv, IInv, Typed
<1> QED
  BY <1>1, <1>2, <1>4, FsPollAssumption DEF IInv, Typed, PollInv

LEMMA RememberRemembers ==
    ASSUME NEW x \in Context, NEW r \in Results
    PROVE  IF r \in Errors THEN Remember(x, r).busy_polling = r
           ELSE Remember(x, r).busy_polling = "1" /\ Remember(x, r).statbuf = r
<1>1. CASE r \in Errors
  BY <1>1 DEF Remember, Context
<1>2. CASE r \notin Errors
  BY <1>2 DEF Remember, Context
<1> QED
  BY <1>1, <1>2

LEMMA SeenDone ==
    ASSUME IInv, SeenInv, DonePoll
    PROVE  SeenInv'
<1> DEFINE c == Head(batch)
           r == result[c]
           x == Remember(ctx[c], r)
<1>1. c \in Contexts /\ r # "none" /\ r \in Results /\ ctx[c] \in Context
  BY StatIs
<1>2. /\ UNCHANGED <<program, ran, result>> /\ seen' = [seen EXCEPT ![c] = r]
      /\ \/ ctx' = [ctx EXCEPT ![c] = x]
         \/ Out(c, IF ctx[c].parent_handle THEN x ELSE ctx[c])
  BY DEF DonePoll
<1>3. x \in Context /\ x.parent_handle = ctx[c].parent_handle
  BY <1>1, RememberIs
<1>4. IF r \in Errors THEN x.busy_polling = r ELSE x.busy_polling = "1" /\ x.statbuf = r
  BY <1>1, RememberRemembers
<1> HIDE DEF c, r, x
<1>5. CASE ctx' = [ctx EXCEPT ![c] = x]
  BY <1>1, <1>2, <1>4, <1>5, SeenChanges
<1>6. CASE Out(c, IF ctx[c].parent_handle THEN x ELSE ctx[c])
  <2>1. PICK z \in Context : Out(c, z) /\ (z = x \/ ~z.parent_handle)
    BY <1>1, <1>3, <1>6
  <2>2. PICK y \in Context : /\ ctx' = [ctx EXCEPT ![c] = y]
                             /\ y.parent_handle = z.parent_handle
                             /\ y.busy_polling = z.busy_polling /\ y.statbuf = z.statbuf
    BY <1>1, <2>1, OutRemembers
  <2>3. y.parent_handle => IF r = "none" THEN y.busy_polling = "0"
                           ELSE IF r \in Errors THEN y.busy_polling = r
                           ELSE y.busy_polling = "1" /\ y.statbuf = r
    BY <1>1, <1>4, <2>1, <2>2
  <2> QED
    BY <1>1, <1>2, <2>2, <2>3, SeenChanges
<1> QED
  BY <1>2, <1>5, <1>6

\* A step of poll_cb, of a timer or of a call on the handle.
LEMMA SeenPolls ==
    ASSUME IInv, SeenInv,
           \/ DonePoll \/ PollReturns \/ FsPollStop \/ FsPollClose
           \/ \E c \in Contexts : TimerCloses(c) \/ TimerFires(c) \/ FsPollStart(c)
    PROVE  SeenInv'
<1>1. ASSUME NEW c \in Contexts
      PROVE  ctx[c] \in Context /\ seen = [seen EXCEPT ![c] = seen[c]] /\ c \in AllRequests
  BY Apart DEF IInv, PollInv, SeenInv
<1>2. CASE PollReturns
  <2> DEFINE c == subject
  <2>1. c \in Contexts /\ Out(c, ctx[c]) /\ UNCHANGED <<program, result, ran, seen>>
    BY <1>2 DEF PollReturns
  <2>2. PICK y \in Context : /\ ctx' = [ctx EXCEPT ![c] = y]
                             /\ y.parent_handle = ctx[c].parent_handle
                             /\ y.busy_polling = ctx[c].busy_polling /\ y.statbuf = ctx[c].statbuf
    BY <1>1, <2>1, OutRemembers
  <2> HIDE DEF c
  <2>3. ctx[c].parent_handle => Remembered(c)
    BY <2>1 DEF SeenInv
  <2>4. seen' = [seen EXCEPT ![c] = seen[c]]
    BY <1>1, <2>1
  <2>5. y.parent_handle =>
          IF seen[c] = "none" THEN y.busy_polling = "0"
          ELSE IF seen[c] \in Errors THEN y.busy_polling = seen[c]
          ELSE y.busy_polling = "1" /\ y.statbuf = seen[c]
    BY <2>2, <2>3 DEF Remembered
  <2>6. \A d \in Contexts : ran'[d] = 1 => ran[d] = 1 /\ result'[d] = result[d]
    BY <2>1
  <2> QED
    BY <2>1, <2>2, <2>4, <2>5, <2>6, SeenChanges
<1>3. CASE FsPollStop \/ FsPollClose
  <2>1. Stop(FALSE) \/ Stop(TRUE)
    BY <1>3 DEF FsPollStop, FsPollClose
  <2>2. UNCHANGED <<program, result, ran, seen>>
    BY <1>3 DEF FsPollStop, FsPollClose, PoolUntouched
  <2>3. CASE ctx' = ctx
    BY <2>2, <2>3, SeenKept
  <2>4. CASE ctx' # ctx
    <3> DEFINE c == handle.poll_ctx
               x == IF ctx[c].timer = "on" THEN [Detached(c) EXCEPT !.timer = "closing"] ELSE Detached(c)
    <3>1. handle.active /\ ctx' = [ctx EXCEPT ![c] = x]
      BY <2>1, <2>4 DEF Stop, CloseTimer
    <3>2. c \in Contexts
      BY <3>1 DEF IInv, PollInv
    <3>3. x.parent_handle = FALSE
      BY <1>1, <3>2 DEF Detached, Context
    <3> HIDE DEF c, x
    <3>4. seen' = [seen EXCEPT ![c] = seen[c]]
      BY <1>1, <2>2, <3>2
    <3> QED
      BY <2>2, <3>1, <3>2, <3>3, <3>4, SeenChanges
  <2> QED
    BY <2>3, <2>4
<1>4. ASSUME NEW c \in Contexts, TimerCloses(c)
      PROVE  SeenInv'
  <2>1. ctx' = [ctx EXCEPT ![c] = NoContext] /\ UNCHANGED <<program, result, ran, seen>>
    BY <1>4 DEF TimerCloses, PoolUntouched
  <2>2. seen' = [seen EXCEPT ![c] = seen[c]]
    BY <1>1, <2>1
  <2> QED
    BY <2>1, <2>2, NoContextIs, SeenChanges
<1>5. ASSUME NEW c \in Contexts, TimerFires(c)
      PROVE  SeenInv'
  <2> DEFINE x == [ctx[c] EXCEPT !.timer = "off"]
  <2>1. WorkSubmit(c) /\ ctx' = [ctx EXCEPT ![c] = x] /\ UNCHANGED <<program, seen>>
    BY <1>5 DEF TimerFires
  <2>2. /\ x.parent_handle = ctx[c].parent_handle /\ x.busy_polling = ctx[c].busy_polling
        /\ x.statbuf = ctx[c].statbuf
    BY <1>1 DEF Context
  <2> HIDE DEF x
  <2>3. \A d \in Contexts : ran'[d] = 1 => ran[d] = 1 /\ result'[d] = result[d]
    BY <1>1, <2>1, SubmittedRuns
  <2>4. seen' = [seen EXCEPT ![c] = seen[c]]
    BY <1>1, <2>1
  <2>5. ctx[c].parent_handle => Remembered(c)
    BY DEF SeenInv
  <2>6. x.parent_handle =>
          IF seen[c] = "none" THEN x.busy_polling = "0"
          ELSE IF seen[c] \in Errors THEN x.busy_polling = seen[c]
          ELSE x.busy_polling = "1" /\ x.statbuf = seen[c]
    BY <2>2, <2>5 DEF Remembered
  <2> QED
    BY <2>1, <2>3, <2>4, <2>6, SeenChanges
<1>6. ASSUME NEW c \in Contexts, FsPollStart(c)
      PROVE  SeenInv'
  <2> DEFINE x == [NoContext EXCEPT !.alloc = TRUE, !.parent_handle = TRUE, !.timer = "off"]
  <2>1. /\ WorkSubmit(c) /\ ctx' = [ctx EXCEPT ![c] = x] /\ UNCHANGED program
        /\ seen' = [seen EXCEPT ![c] = "none"]
    BY <1>6 DEF FsPollStart
  <2>2. x.busy_polling = "0"
    BY DEF NoContext
  <2> HIDE DEF x
  <2>3. \A d \in Contexts : ran'[d] = 1 => ran[d] = 1 /\ result'[d] = result[d]
    BY <1>1, <2>1, SubmittedRuns
  <2> QED
    BY <2>1, <2>2, <2>3, SeenChanges
<1> QED
  BY <1>2, <1>3, <1>4, <1>5, <1>6, SeenDone

LEMMA SeenPool ==
    ASSUME IInv, SeenInv, PollUntouched,
           PoolLoop \/ PoolClient \/ Exit \/ \E w \in Workers : WorkerStep(w) \/ WorkerSpuriouslyWakes(w)
    PROVE  SeenInv'
<1> USE DEF PollUntouched
<1>1. CASE CancelTest \/ CancelRequeue \/ AsyncWakes \/ MoveQueue \/ Drained \/ Joined \/ CallbackReturns
  BY <1>1, SeenKept DEF CancelTest, CancelRequeue, AsyncWakes, MoveQueue, Drained, Joined, CallbackReturns,
                        WorkersUntouched, Asynchronous
<1>2. CASE DoneRequest
  <2> DEFINE r == Head(batch)
  <2>1. /\ r \in Requests /\ UNCHANGED <<program, ran>>
        /\ \E o : result' = [result EXCEPT ![r] = o]
    BY <1>2 DEF DoneRequest, Asynchronous
  <2>2. \A c \in Contexts : result'[c] = result[c]
    BY <2>1, Apart DEF IInv, Typed
  <2> QED
    BY <2>1, <2>2, SeenKept
<1>3. CASE Fork \/ Exit
  BY <1>3, SeenKept DEF Fork, Exit, Asynchronous
<1>4. ASSUME NEW r \in Requests, Submit(r)
      PROVE  SeenInv'
  <2>1. WorkSubmit(r) /\ UNCHANGED program /\ r \in AllRequests
    BY <1>4, Apart DEF Submit
  <2> QED
    BY <2>1, SubmittedRuns, SeenKept
<1>5. ASSUME NEW r \in Requests, Cancel(r)
      PROVE  SeenInv'
  BY <1>5, SeenKept DEF Cancel, WorkersUntouched
<1>6. ASSUME NEW w \in Workers, WorkerStep(w) \/ WorkerSpuriouslyWakes(w)
      PROVE  SeenInv'
  <2>1. UNCHANGED program
    BY <1>6 DEF WorkerStep, WorkerSpuriouslyWakes, Asynchronous
  <2>2. CASE Run(w)
    BY <2>1, <2>2, SeenRun
  <2>3. CASE ~Run(w)
    <3>1. UNCHANGED <<result, ran>>
      BY <1>6, <2>3 DEF WorkerStep, WorkerSpuriouslyWakes
    <3> QED
      BY <2>1, <3>1, SeenKept
  <2> QED
    BY <2>2, <2>3
<1> QED
  BY <1>1, <1>2, <1>3, <1>4, <1>5, <1>6 DEF PoolLoop, PoolClient

LEMMA SeenInit == Init => SeenInv
<1> SUFFICES ASSUME Init
             PROVE  SeenInv
  OBVIOUS
<1>1. /\ seen = [c \in Contexts |-> "none"] /\ ran = [r \in AllRequests |-> 0]
      /\ ctx = [c \in Contexts |-> NoContext]
  BY DEF Init, PoolInit
<1>2. \A c \in Contexts : ran[c] # 1 /\ ctx[c].parent_handle = FALSE
  BY <1>1, Apart, NoContextIs
<1> QED
  BY <1>1, <1>2 DEF SeenInv

LEMMA SeenNext == IInv /\ SeenInv /\ [Next]_vars => SeenInv'
<1> SUFFICES ASSUME IInv, SeenInv, [Next]_vars
             PROVE  SeenInv'
  OBVIOUS
<1>1. CASE UNCHANGED vars
  BY <1>1, SeenKept DEF vars, poolVars
<1>2. CASE LoopStep
  BY <1>2, SeenPool, SeenPolls DEF LoopStep
<1>3. CASE ClientStep
  BY <1>3, SeenPool, SeenPolls DEF ClientStep
<1>4. CASE \E w \in Workers : (WorkerStep(w) \/ WorkerSpuriouslyWakes(w)) /\ PollUntouched
  BY <1>4, SeenPool
<1> QED
  BY <1>1, <1>2, <1>3, <1>4, SeenPool, SeenPolls DEF Next

LEMMA TailIsShorter ==
    ASSUME NEW S, NEW q \in Seq(S), q # << >>
    PROVE  Tail(q) # q
<1>1. Len(Tail(q)) = Len(q) - 1 /\ Len(q) \in Nat
  OBVIOUS
<1>2. \A n \in Nat : n - 1 # n
  OBVIOUS
<1> QED
  BY <1>1, <1>2

\* Only DonePoll takes the stat of a context off the batch.
LEMMA OnlyDonePoll ==
    ASSUME IInv, Next, NEW c \in Contexts, lpc = "drains", batch # << >>, Head(batch) = c, batch' = Tail(batch)
    PROVE  DonePoll
<1>1. batch' # batch
  BY TailIsShorter DEF IInv, Typed
<1>2. c \notin Requests
  BY Apart
<1>3. ASSUME PoolLoop
      PROVE  FALSE
  BY <1>1, <1>2, <1>3 DEF PoolLoop, CancelTest, CancelRequeue, AsyncWakes, MoveQueue, DoneRequest, Drained,
                          CallbackReturns, Joined
<1>4. ASSUME PoolClient \/ Exit
      PROVE  FALSE
  BY <1>1, <1>4 DEF PoolClient, Fork, Submit, Cancel, Exit
<1>5. ASSUME \/ PollReturns \/ FsPollStop \/ FsPollClose
             \/ \E d \in Contexts : TimerCloses(d) \/ TimerFires(d) \/ FsPollStart(d)
      PROVE  FALSE
  BY <1>1, <1>5 DEF PollReturns, FsPollStop, FsPollClose, TimerCloses, TimerFires, FsPollStart
<1>6. ASSUME NEW w \in Workers, WorkerStep(w) \/ WorkerSpuriouslyWakes(w)
      PROVE  FALSE
  BY <1>1, <1>6 DEF WorkerStep, WorkerSpuriouslyWakes, LoopUntouched
<1> QED
  BY <1>3, <1>4, <1>5, <1>6 DEF Next, LoopStep, ClientStep

LEMMA NewsIs ==
    ASSUME NEW c \in Contexts, NEW r, Remembered(c)
    PROVE  IsNews(ctx[c], r) <=> IF seen[c] = "none" THEN r \in Errors ELSE r # seen[c]
<1>1. "0" \notin Errors /\ "1" \notin Errors
  BY FsPollAssumption
<1>2. CASE seen[c] = "none"
  BY <1>1, <1>2 DEF Remembered, IsNews
<1>3. CASE seen[c] # "none" /\ seen[c] \in Errors
  BY <1>1, <1>3 DEF Remembered, IsNews
<1>4. CASE seen[c] # "none" /\ seen[c] \notin Errors
  BY <1>1, <1>4 DEF Remembered, IsNews
<1> QED
  BY <1>2, <1>3, <1>4

LEMMA TellsChanges ==
    ASSUME IInv, SeenInv, [Next]_vars
    PROVE  [\A c \in Contexts : TellsChange(c)]_vars
<1> SUFFICES ASSUME Next, NEW c \in Contexts,
                    lpc = "drains", batch # << >>, Head(batch) = c, batch' = Tail(batch), ctx[c].parent_handle
             PROVE  (lpc' = "callback") <=> IF seen[c] = "none" THEN result[c] \in Errors
                                            ELSE result[c] # seen[c]
  BY DEF TellsChange
<1>1. DonePoll
  BY OnlyDonePoll
<1>2. lpc' = "callback" <=> IsNews(ctx[c], result[c])
  BY <1>1 DEF DonePoll
<1>3. Remembered(c)
  BY DEF SeenInv
<1> QED
  BY <1>2, <1>3, NewsIs

\* A request is in one place until it is called back, whatever the workers, uv_cancel,
\* uv__work_done, fork and exit do between each other's steps (threadpool.c): for any
\* numbers of workers, requests and contexts, and any number of calls.
THEOREM RequestsHeldOnce == Spec => []RequestsAreHeldOnce
  BY InvariantHolds, HeldOnce, PTL

\* Whatever becomes of a request, what libuv mallocs for it is freed, but for the buffers
\* that a cancelled read or write leaves on Unix.  No stop, restart or close of a poll
\* handle, in whichever state of the stat, the timer and the user's callback it comes,
\* frees a context twice or under any of them, and no assertion of fs-poll.c fails.
THEOREM MemoryHasOneOwner == Spec => []MemoryIsOwned
<1>1. Spec => []MemoryInv
  <2>1. Init => MemoryInv
    BY MemoryInit
  <2>2. IInv /\ MemoryInv /\ [Next]_vars => MemoryInv'
    BY MemoryNext
  <2> QED
    BY <2>1, <2>2, InvariantHolds, PTL DEF Spec
<1>2. IInv /\ MemoryInv => MemoryIsOwned
  BY OwnedOnce DEF MemoryIsOwned, MemoryIsReleased, MemoryInv, AllRequests
<1> QED
  BY <1>1, <1>2, InvariantHolds, PTL

\* A poll handle tells its user of exactly the changes, whatever the file does and however
\* often the handle is stopped and started (fs-poll.c: poll_cb).
THEOREM ChangesReported == Spec => ChangesAreReported
<1>1. Spec => []SeenInv
  BY SeenInit, SeenNext, InvariantHolds, PTL DEF Spec
<1>2. IInv /\ SeenInv /\ [Next]_vars => [\A c \in Contexts : TellsChange(c)]_vars
  BY TellsChanges
<1> QED
  BY <1>1, <1>2, InvariantHolds, PTL DEF Spec, ChangesAreReported

-----------------------------------------------------------------------------
(* uv_once. *)

OncePoints == {"out", "created", "calls back", "sets", "marks", "waits"}

OnceType ==
    /\ at \in [Threads -> OncePoints] /\ round \in [Threads -> Nat]
    /\ shared \in [event : Threads \cup {Free}, signaled : BOOLEAN, ran : BOOLEAN]
    /\ log \in [calls : Nat, done : BOOLEAN, serial : Nat]

\* The caller that wins the race is the only one to call back, which it does once; the
\* others get past the event, or the flag, only when it has.
OnceFacts ==
    /\ \A t \in Threads : at[t] \in {"calls back", "sets", "marks"} => shared.event = t
    /\ shared.event = Free => log.calls = 0
    /\ \A t \in Threads : at[t] = "calls back" => log.calls = 0
    /\ log.calls <= 1
    /\ \A t \in Threads : at[t] \in {"sets", "marks"} => log.done
    /\ shared.signaled \/ shared.ran => log.done
    /\ \A t \in Threads : at[t] = "out" /\ round[t] > 0 => log.done

OnceInv == OnceType /\ OnceFacts

LEMMA OnceInit == ThreadsInit /\ use.primitive = "once" => OnceInv
<1> SUFFICES ASSUME ThreadsInit, use.primitive = "once" PROVE OnceInv
  OBVIOUS
<1>1. shared = [event |-> Free, signaled |-> FALSE, ran |-> FALSE]
  BY DEF ThreadsInit, Fields
<1>2. at = [t \in Threads |-> "out"] /\ round = [t \in Threads |-> 0]
      /\ log = [calls |-> 0, done |-> FALSE, serial |-> 0]
  BY DEF ThreadsInit
<1>3. OnceType
  BY <1>1, <1>2 DEF OnceType, OncePoints
<1>4. OnceFacts
  BY <1>1, <1>2 DEF OnceFacts
<1> QED
  BY <1>3, <1>4 DEF OnceInv

LEMMA OnceStep ==
    ASSUME OnceInv, NEW t \in Threads, Once(t)
    PROVE  OnceInv'
<1>0. OnceType /\ OnceFacts
  BY DEF OnceInv
<1>1. CASE OnceBegin(t)
  <2>1. /\ at' = [at EXCEPT ![t] = IF shared.ran THEN "out" ELSE "created"]
        /\ round' = [round EXCEPT ![t] = @ + 1] /\ shared' = shared /\ log' = log
    BY <1>1 DEF OnceBegin, Go, Rounds
  <2>2. OnceType'
    <3>1. round[t] + 1 \in Nat
      BY <1>0 DEF OnceType
    <3> QED
      BY <1>0, <2>1, <3>1 DEF OnceType, OncePoints
  <2>3. OnceFacts'
    BY <1>0, <2>1 DEF OnceType, OnceFacts
  <2> QED
    BY <2>2, <2>3 DEF OnceInv
<1>2. CASE OnceWin(t)
  <2>1. /\ at' = [at EXCEPT ![t] = "calls back"] /\ shared.event = Free
        /\ shared' = [shared EXCEPT !.event = t] /\ round' = round /\ log' = log
    BY <1>2 DEF OnceWin, Go, Same
  <2>2. OnceType'
    BY <1>0, <2>1 DEF OnceType, OncePoints
  <2>3. \A u \in Threads : at[u] \notin {"calls back", "sets", "marks"}
    BY <1>0, <2>1, ThreadsAssumption DEF OnceFacts
  <2>4. shared'.event = t /\ shared'.signaled = shared.signaled /\ shared'.ran = shared.ran
    BY <1>0, <2>1 DEF OnceType
  <2>5. OnceFacts'
    BY <1>0, <2>1, <2>3, <2>4, ThreadsAssumption DEF OnceType, OnceFacts
  <2> QED
    BY <2>2, <2>5 DEF OnceInv
<1>3. CASE OnceLose(t)
  <2>1. at' = [at EXCEPT ![t] = "waits"] /\ shared' = shared /\ round' = round /\ log' = log
    BY <1>3 DEF OnceLose, Go, Same
  <2>2. OnceType'
    BY <1>0, <2>1 DEF OnceType, OncePoints
  <2>3. OnceFacts'
    BY <1>0, <2>1 DEF OnceType, OnceFacts
  <2> QED
    BY <2>2, <2>3 DEF OnceInv
<1>4. CASE OnceCallback(t)
  <2>1. /\ at' = [at EXCEPT ![t] = "sets"] /\ shared' = shared /\ round' = round
        /\ log' = [log EXCEPT !.calls = @ + 1, !.done = TRUE] /\ at[t] = "calls back"
    BY <1>4 DEF OnceCallback, Go
  <2>2. log.calls = 0 /\ shared.event = t
    BY <1>0, <2>1 DEF OnceFacts
  <2>3. DOMAIN log = {"calls", "done", "serial"}
    BY <1>0 DEF OnceType
  <2>4. log'.done
    BY <2>1, <2>3
  <2>5. log'.calls = 1
    <3>1. log'.calls = log.calls + 1
      BY <2>1, <2>3
    <3> QED
      BY <2>2, <3>1
  <2>6. log' \in [calls : Nat, done : BOOLEAN, serial : Nat]
    <3>1. log.calls + 1 \in Nat
      BY <2>2
    <3> QED
      BY <1>0, <2>1, <3>1 DEF OnceType
  <2>7. OnceType'
    BY <1>0, <2>1, <2>6 DEF OnceType, OncePoints
  <2>8. \A u \in Threads : at'[u] # "calls back"
    BY <1>0, <2>1, <2>2 DEF OnceType, OnceFacts
  <2>9. shared'.event # Free
    BY <2>1, <2>2, ThreadsAssumption
  <2>10. \A u \in Threads : at'[u] \in {"calls back", "sets", "marks"} => shared'.event = u
    BY <1>0, <2>1, <2>2 DEF OnceType, OnceFacts
  <2>11. log'.calls <= 1
    BY <2>5
  <2>12. OnceFacts'
    BY <2>4, <2>8, <2>9, <2>10, <2>11, Zenon DEF OnceFacts
  <2> QED
    BY <2>7, <2>12 DEF OnceInv
<1>5. CASE OnceSet(t)
  <2>1. /\ at' = [at EXCEPT ![t] = "marks"] /\ shared' = [shared EXCEPT !.signaled = TRUE]
        /\ round' = round /\ log' = log /\ at[t] = "sets"
    BY <1>5 DEF OnceSet, Go, Same
  <2>2. OnceType'
    BY <1>0, <2>1 DEF OnceType, OncePoints
  <2>3. shared'.event = shared.event /\ shared'.ran = shared.ran
    BY <1>0, <2>1 DEF OnceType
  <2>4. OnceFacts'
    BY <1>0, <2>1, <2>3 DEF OnceType, OnceFacts
  <2> QED
    BY <2>2, <2>4 DEF OnceInv
<1>6. CASE OnceRan(t)
  <2>1. /\ at' = [at EXCEPT ![t] = "out"] /\ shared' = [shared EXCEPT !.ran = TRUE]
        /\ round' = round /\ log' = log /\ at[t] = "marks"
    BY <1>6 DEF OnceRan, Go, Same
  <2>2. OnceType'
    BY <1>0, <2>1 DEF OnceType, OncePoints
  <2>3. shared'.event = shared.event /\ shared'.signaled = shared.signaled
    BY <1>0, <2>1 DEF OnceType
  <2>4. OnceFacts'
    BY <1>0, <2>1, <2>3 DEF OnceType, OnceFacts
  <2> QED
    BY <2>2, <2>4 DEF OnceInv
<1>7. CASE OnceWait(t)
  <2>1. /\ at' = [at EXCEPT ![t] = "out"] /\ shared' = shared /\ round' = round /\ log' = log
        /\ shared.signaled
    BY <1>7 DEF OnceWait, Go, Same
  <2>2. OnceType'
    BY <1>0, <2>1 DEF OnceType, OncePoints
  <2>3. OnceFacts'
    BY <1>0, <2>1 DEF OnceType, OnceFacts
  <2> QED
    BY <2>2, <2>3 DEF OnceInv
<1> QED
  BY <1>1, <1>2, <1>3, <1>4, <1>5, <1>6, <1>7 DEF Once

-----------------------------------------------------------------------------
(* The read-write lock. *)

RwPoints == {"out", "rdlock", "counts", "waits", "counted", "reads", "uncounts",
             "tryrdlock", "tries", "wrlock", "writes"}

Holding  == {"counts", "waits", "counted", "tries", "uncounts"}   \* num_readers_lock
Counting == {"waits", "counted", "reads", "uncounts"}             \* in num_readers
Reading  == {"counted", "reads", "uncounts"}                      \* under the writers' lock

RwShared == [num_readers : Nat, num_readers_lock : Threads \cup {Free}, write_semaphore : {0, 1}]

CountedIn(f) == {t \in Threads : f[t] \in Counting}

RwType == at \in [Threads -> RwPoints] /\ shared \in RwShared

\* The readers, as a group, or one writer have the semaphore.
RwFacts ==
    /\ \A t \in Threads : at[t] \in Holding => shared.num_readers_lock = t
    /\ shared.num_readers = Cardinality(CountedIn(at))
    /\ \A t \in Threads : at[t] \in Reading \cup {"writes"} => shared.write_semaphore = 0
    /\ \A t, u \in Threads : at[t] = "writes" /\ at[u] \in Reading \cup {"writes"} => t = u

RwInv == RwType /\ RwFacts

Others(t) == Threads \ {t}

\* What thread t must see to when it moves on.
LEMMA RwMoves ==
    ASSUME RwInv, NEW t \in Threads, NEW to \in RwPoints,
           at' = [at EXCEPT ![t] = to], shared' \in RwShared,
           to \in Holding => shared'.num_readers_lock = t,
           \/ shared'.num_readers_lock = shared.num_readers_lock
           \/ \A u \in Others(t) : at[u] \notin Holding,
           shared'.num_readers = Cardinality(CountedIn(at')),
           \/ shared'.write_semaphore = 0
           \/ /\ to \notin Reading \cup {"writes"}
              /\ \A u \in Others(t) : at[u] \notin Reading \cup {"writes"},
           to = "writes" => \A u \in Others(t) : at[u] \notin Reading \cup {"writes"},
           to \in Reading => \A u \in Others(t) : at[u] # "writes"
    PROVE  RwInv'
<1>1. at \in [Threads -> RwPoints] /\ RwFacts
  BY DEF RwInv, RwType
<1>2. \A u \in Threads : at'[u] = IF u = t THEN to ELSE at[u]
  BY <1>1
<1>3. RwType'
  BY <1>1 DEF RwType
<1>4. \A u \in Threads : at'[u] \in Holding => shared'.num_readers_lock = u
  BY <1>1, <1>2 DEF RwFacts, Others
<1>5. \A u \in Threads : at'[u] \in Reading \cup {"writes"} => shared'.write_semaphore = 0
  BY <1>1, <1>2 DEF RwFacts, Others
<1>6. \A v, u \in Threads : at'[v] = "writes" /\ at'[u] \in Reading \cup {"writes"} => v = u
  BY <1>1, <1>2 DEF RwFacts, Others
<1> QED
  BY <1>3, <1>4, <1>5, <1>6 DEF RwInv, RwFacts

LEMMA CountIs ==
    ASSUME NEW t \in Threads, NEW to, at \in [Threads -> RwPoints], at' = [at EXCEPT ![t] = to]
    PROVE  /\ IsFiniteSet(CountedIn(at)) /\ Cardinality(CountedIn(at)) \in Nat
           /\ (at[t] \in Counting <=> to \in Counting) =>
                  Cardinality(CountedIn(at')) = Cardinality(CountedIn(at))
           /\ at[t] \notin Counting /\ to \in Counting =>
                  Cardinality(CountedIn(at')) = Cardinality(CountedIn(at)) + 1
           /\ at[t] \in Counting /\ to \notin Counting =>
                  Cardinality(CountedIn(at')) = Cardinality(CountedIn(at)) - 1
<1>1. IsFiniteSet(CountedIn(at)) /\ Cardinality(CountedIn(at)) \in Nat
  <2>1. CountedIn(at) \subseteq Threads
    BY DEF CountedIn
  <2> QED
    BY <2>1, ThreadsAssumption, FS_Subset, FS_CardinalityType
<1>2. \A u \in Threads : at'[u] = IF u = t THEN to ELSE at[u]
  OBVIOUS
<1>3. CASE at[t] \in Counting <=> to \in Counting
  <2>1. CountedIn(at') = CountedIn(at)
    BY <1>2, <1>3 DEF CountedIn
  <2> QED
    BY <1>1, <1>3, <2>1
<1>4. CASE at[t] \notin Counting /\ to \in Counting
  <2>1. CountedIn(at') = CountedIn(at) \cup {t} /\ t \notin CountedIn(at)
    BY <1>2, <1>4 DEF CountedIn
  <2> QED
    BY <1>1, <1>4, <2>1, FS_AddElement
<1>5. CASE at[t] \in Counting /\ to \notin Counting
  <2>1. CountedIn(at') = CountedIn(at) \ {t} /\ t \in CountedIn(at)
    BY <1>2, <1>5 DEF CountedIn
  <2> QED
    BY <1>1, <1>5, <2>1, FS_RemoveElement
<1> QED
  BY <1>1, <1>3, <1>4, <1>5

LEMMA CountOfOne ==
    ASSUME NEW t \in Threads, at[t] \in Counting, at \in [Threads -> RwPoints],
           Cardinality(CountedIn(at)) = 1
    PROVE  \A u \in Others(t) : at[u] \notin Counting
<1>1. IsFiniteSet(CountedIn(at)) /\ t \in CountedIn(at)
  BY ThreadsAssumption, FS_Subset DEF CountedIn
<1>2. PICK x : CountedIn(at) = {x}
  BY <1>1, FS_Singleton
<1> QED
  BY <1>1, <1>2 DEF CountedIn, Others

LEMMA CountOfNone ==
    ASSUME at \in [Threads -> RwPoints], Cardinality(CountedIn(at)) = 0
    PROVE  \A u \in Threads : at[u] \notin Counting
<1>1. IsFiniteSet(CountedIn(at))
  BY ThreadsAssumption, FS_Subset DEF CountedIn
<1>2. CountedIn(at) = {}
  BY <1>1, FS_EmptySet
<1> QED
  BY <1>2 DEF CountedIn

\* EnterCriticalSection: no thread held the lock.
LEMMA LockReadersStep ==
    ASSUME RwInv, NEW t \in Threads, NEW from, NEW to \in {"counts", "tries", "uncounts"},
           LockReaders(t, from, to), from \in Reading <=> to \in Reading,
           from \in Counting <=> to \in Counting
    PROVE  RwInv'
<1>1. /\ at[t] = from /\ at' = [at EXCEPT ![t] = to] /\ shared.num_readers_lock = Free
      /\ shared' = [shared EXCEPT !.num_readers_lock = t]
  BY DEF LockReaders, Go
<1>2. at \in [Threads -> RwPoints] /\ shared \in RwShared /\ RwFacts
  BY DEF RwInv, RwType
<1>3. /\ shared' \in RwShared /\ shared'.num_readers_lock = t
      /\ shared'.num_readers = shared.num_readers
      /\ shared'.write_semaphore = shared.write_semaphore
  BY <1>1, <1>2 DEF RwShared
<1>4. \A u \in Others(t) : at[u] \notin Holding
  BY <1>1, <1>2, ThreadsAssumption DEF RwFacts, Others
<1>5. shared'.num_readers = Cardinality(CountedIn(at'))
  BY <1>1, <1>2, <1>3, CountIs DEF RwFacts
<1>6. CASE to \in Reading
  <2>1. shared'.write_semaphore = 0 /\ \A u \in Others(t) : at[u] # "writes"
    BY <1>1, <1>2, <1>3, <1>6 DEF RwFacts, Others
  <2> QED
    BY <1>1, <1>3, <1>4, <1>5, <2>1, RwMoves DEF RwPoints
<1>7. CASE to \notin Reading
  <2>1. \/ shared'.write_semaphore = 0
        \/ \A u \in Others(t) : at[u] \notin Reading \cup {"writes"}
    BY <1>2, <1>3 DEF RwFacts, Others, RwShared
  <2> QED
    BY <1>1, <1>3, <1>4, <1>5, <1>7, <2>1, RwMoves DEF RwPoints
<1> QED
  BY <1>6, <1>7

\* A step that leaves the lock and the fields as they are, and is outside both.
LEMMA OutsideStep ==
    ASSUME RwInv, NEW t \in Threads, NEW from, NEW to \in {"out", "rdlock", "tryrdlock", "wrlock"},
           Go(t, from, to, shared), from \notin Counting
    PROVE  RwInv'
<1>1. at[t] = from /\ at' = [at EXCEPT ![t] = to] /\ shared' = shared
  BY DEF Go
<1>2. at \in [Threads -> RwPoints] /\ shared \in RwShared /\ RwFacts
  BY DEF RwInv, RwType
<1>3. shared'.num_readers = Cardinality(CountedIn(at'))
  BY <1>1, <1>2, CountIs DEF RwFacts, Counting
<1>4. \/ shared'.write_semaphore = 0
      \/ \A u \in Others(t) : at[u] \notin Reading \cup {"writes"}
  BY <1>1, <1>2 DEF RwFacts, Others, RwShared
<1> QED
  BY <1>1, <1>2, <1>3, <1>4, RwMoves DEF RwPoints, Holding, Reading

\* A reader comes to hold the writers' lock, alone or with others.
LEMMA ReaderEnters ==
    ASSUME RwInv, NEW t \in Threads, NEW to \in {"counted", "reads"},
           at[t] \in Holding, at' = [at EXCEPT ![t] = to],
           shared' \in RwShared, shared'.write_semaphore = 0,
           shared'.num_readers_lock = IF to = "counted" THEN t ELSE Free,
           shared'.num_readers = Cardinality(CountedIn(at')),
           \A u \in Others(t) : at[u] # "writes"
    PROVE  RwInv'
<1>1. at \in [Threads -> RwPoints] /\ RwFacts
  BY DEF RwInv, RwType
<1>2. \A u \in Others(t) : at[u] \notin Holding
  BY <1>1 DEF RwFacts, Others
<1> QED
  BY <1>2, RwMoves DEF RwPoints, Holding, Reading

LEMMA RdlockStep ==
    ASSUME RwInv, NEW t \in Threads, Rdlock(t)
    PROVE  RwInv'
<1>0. at \in [Threads -> RwPoints] /\ shared \in RwShared /\ RwFacts
  BY DEF RwInv, RwType
<1>1. CASE Begin(t, "rdlock")
  BY <1>1, OutsideStep DEF Begin, Counting
<1>2. CASE LockReaders(t, "rdlock", "counts")
  BY <1>2, LockReadersStep DEF Reading, Counting
<1>3. CASE Go(t, "counts", IF shared.num_readers = 0 THEN "waits" ELSE "counted",
              [shared EXCEPT !.num_readers = @ + 1])
  <2> DEFINE to == IF shared.num_readers = 0 THEN "waits" ELSE "counted"
  <2>1. at[t] = "counts" /\ at' = [at EXCEPT ![t] = to] /\ shared' = [shared EXCEPT !.num_readers = @ + 1]
    BY <1>3 DEF Go
  <2>2. /\ shared' \in RwShared /\ shared'.num_readers = shared.num_readers + 1
        /\ shared'.num_readers_lock = shared.num_readers_lock
        /\ shared'.write_semaphore = shared.write_semaphore
    <3>1. shared.num_readers + 1 \in Nat
      BY <1>0 DEF RwShared
    <3> QED
      BY <1>0, <2>1, <3>1 DEF RwShared
  <2>3. shared.num_readers_lock = t /\ \A u \in Others(t) : at[u] \notin Holding
    BY <1>0, <2>1 DEF RwFacts, Holding, Others
  <2>4. shared'.num_readers = Cardinality(CountedIn(at'))
    BY <1>0, <2>1, <2>2, CountIs DEF RwFacts, Counting
  <2>5. CASE shared.num_readers = 0
    <3>1. \/ shared'.write_semaphore = 0
          \/ \A u \in Others(t) : at[u] \notin Reading \cup {"writes"}
      BY <1>0, <2>2 DEF RwFacts, Others, RwShared
    <3> QED
      BY <2>1, <2>2, <2>3, <2>4, <2>5, <3>1, RwMoves DEF RwPoints, Holding, Reading
  <2>6. CASE shared.num_readers # 0
    <3>1. PICK u \in Threads : at[u] \in Counting
      BY <1>0, <2>6, FS_EmptySet DEF RwFacts, CountedIn
    <3>2. at[u] \in Reading
      BY <2>1, <2>3, <3>1 DEF Counting, Reading, Holding, Others
    <3>3. shared.write_semaphore = 0 /\ \A v \in Others(t) : at[v] # "writes"
      BY <1>0, <3>2 DEF RwFacts, Others, Reading
    <3> QED
      BY <2>1, <2>2, <2>3, <2>4, <2>6, <3>3, ReaderEnters DEF Holding
  <2> QED
    BY <2>5, <2>6
<1>4. CASE Go(t, "waits", "counted", [shared EXCEPT !.write_semaphore = 0]) /\ shared.write_semaphore = 1
  <2>1. at[t] = "waits" /\ at' = [at EXCEPT ![t] = "counted"] /\ shared' = [shared EXCEPT !.write_semaphore = 0]
    BY <1>4 DEF Go
  <2>2. /\ shared' \in RwShared /\ shared'.num_readers = shared.num_readers
        /\ shared'.num_readers_lock = shared.num_readers_lock
        /\ shared'.write_semaphore = 0
    BY <1>0, <2>1 DEF RwShared
  <2>3. shared.num_readers_lock = t
    BY <1>0, <2>1 DEF RwFacts, Holding
  <2>4. shared'.num_readers = Cardinality(CountedIn(at'))
    BY <1>0, <2>1, <2>2, CountIs DEF RwFacts, Counting
  <2>5. \A u \in Others(t) : at[u] # "writes"
    BY <1>0, <1>4 DEF RwFacts, Others
  <2> QED
    BY <2>1, <2>2, <2>3, <2>4, <2>5, ReaderEnters DEF Holding
<1>5. CASE Go(t, "counted", "reads", [shared EXCEPT !.num_readers_lock = Free])
  <2>1. at[t] = "counted" /\ at' = [at EXCEPT ![t] = "reads"] /\ shared' = [shared EXCEPT !.num_readers_lock = Free]
    BY <1>5 DEF Go
  <2>2. /\ shared' \in RwShared /\ shared'.num_readers = shared.num_readers
        /\ shared'.num_readers_lock = Free
        /\ shared'.write_semaphore = shared.write_semaphore
    BY <1>0, <2>1 DEF RwShared
  <2>3. shared'.num_readers = Cardinality(CountedIn(at'))
    BY <1>0, <2>1, <2>2, CountIs DEF RwFacts, Counting
  <2>4. shared.write_semaphore = 0 /\ \A u \in Others(t) : at[u] # "writes"
    BY <1>0, <2>1 DEF RwFacts, Others, Reading
  <2> QED
    BY <2>1, <2>2, <2>3, <2>4, ReaderEnters DEF Holding
<1> QED
  BY <1>1, <1>2, <1>3, <1>4, <1>5 DEF Rdlock

LEMMA TryrdlockStep ==
    ASSUME RwInv, NEW t \in Threads, Tryrdlock(t)
    PROVE  RwInv'
<1>0. at \in [Threads -> RwPoints] /\ shared \in RwShared /\ RwFacts
  BY DEF RwInv, RwType
<1>1. CASE Begin(t, "tryrdlock")
  BY <1>1, OutsideStep DEF Begin, Counting
<1>2. CASE LockReaders(t, "tryrdlock", "tries")
  BY <1>2, LockReadersStep DEF Reading, Counting
<1>3. CASE Go(t, "tryrdlock", "out", shared)
  BY <1>3, OutsideStep DEF Counting
<1>4. CASE /\ shared.num_readers = 0 /\ shared.write_semaphore = 1
           /\ Go(t, "tries", "reads", [shared EXCEPT !.write_semaphore = 0, !.num_readers = 1,
                                                     !.num_readers_lock = Free])
  <2>1. /\ at[t] = "tries" /\ at' = [at EXCEPT ![t] = "reads"]
        /\ shared' = [shared EXCEPT !.write_semaphore = 0, !.num_readers = 1, !.num_readers_lock = Free]
    BY <1>4 DEF Go
  <2>2. /\ shared' \in RwShared /\ shared'.num_readers = 1
        /\ shared'.num_readers_lock = Free /\ shared'.write_semaphore = 0
    BY <1>0, <2>1 DEF RwShared
  <2>3. shared'.num_readers = Cardinality(CountedIn(at'))
    <3>1. at[t] \notin Counting /\ "reads" \in Counting
      BY <2>1 DEF Counting
    <3>2. shared.num_readers = Cardinality(CountedIn(at))
      BY <1>0 DEF RwFacts
    <3>3. Cardinality(CountedIn(at')) = Cardinality(CountedIn(at)) + 1
      BY <1>0, <2>1, <3>1, CountIs
    <3>4. Cardinality(CountedIn(at)) = 0
      BY <1>4, <3>2
    <3>5. Cardinality(CountedIn(at')) = 1
      BY <3>3, <3>4
    <3> QED
      BY <2>2, <3>5
  <2>4. \A u \in Others(t) : at[u] # "writes"
    BY <1>0, <1>4 DEF RwFacts, Others
  <2> QED
    BY <2>1, <2>2, <2>3, <2>4, ReaderEnters DEF Holding
<1>5. CASE Go(t, "tries", "out", [shared EXCEPT !.num_readers_lock = Free])
  <2>1. /\ at[t] = "tries" /\ at' = [at EXCEPT ![t] = "out"]
        /\ shared' = [shared EXCEPT !.num_readers_lock = Free]
    BY <1>5 DEF Go
  <2>2. /\ shared' \in RwShared /\ shared'.num_readers = shared.num_readers
        /\ shared'.num_readers_lock = Free
        /\ shared'.write_semaphore = shared.write_semaphore
    BY <1>0, <2>1 DEF RwShared
  <2>3. shared'.num_readers = Cardinality(CountedIn(at'))
    <3>1. at[t] \notin Counting /\ "out" \notin Counting
      BY <2>1 DEF Counting
    <3>2. shared.num_readers = Cardinality(CountedIn(at))
      BY <1>0 DEF RwFacts
    <3>3. Cardinality(CountedIn(at')) = Cardinality(CountedIn(at))
      BY <1>0, <2>1, <3>1, CountIs
    <3> QED
      BY <2>2, <3>2, <3>3
  <2>4. \A u \in Others(t) : at[u] \notin Holding
    BY <1>0, <2>1 DEF RwFacts, Holding, Others
  <2>5. \/ shared'.write_semaphore = 0
        \/ \A u \in Others(t) : at[u] \notin Reading \cup {"writes"}
    BY <1>0, <2>2 DEF RwFacts, Others, RwShared
  <2> QED
    BY <2>1, <2>2, <2>3, <2>4, <2>5, RwMoves DEF RwPoints, Holding, Reading
<1>6. CASE /\ shared.num_readers # 0
           /\ Go(t, "tries", "reads", [shared EXCEPT !.num_readers = @ + 1, !.num_readers_lock = Free])
  <2>1. /\ at[t] = "tries" /\ at' = [at EXCEPT ![t] = "reads"]
        /\ shared' = [shared EXCEPT !.num_readers = @ + 1, !.num_readers_lock = Free]
    BY <1>6 DEF Go
  <2>2. /\ shared' \in RwShared /\ shared'.num_readers = shared.num_readers + 1
        /\ shared'.num_readers_lock = Free
        /\ shared'.write_semaphore = shared.write_semaphore
    <3>1. shared.num_readers + 1 \in Nat
      BY <1>0 DEF RwShared
    <3> QED
      BY <1>0, <2>1, <3>1 DEF RwShared
  <2>3. shared'.num_readers = Cardinality(CountedIn(at'))
    BY <1>0, <2>1, <2>2, CountIs DEF RwFacts, Counting
  <2>4. PICK u \in Threads : at[u] \in Counting
    BY <1>0, <1>6, FS_EmptySet DEF RwFacts, CountedIn
  <2>5. at[u] \in Reading
    BY <1>0, <2>1, <2>4 DEF RwFacts, Counting, Reading, Holding
  <2>6. shared.write_semaphore = 0 /\ \A v \in Others(t) : at[v] # "writes"
    BY <1>0, <2>5 DEF RwFacts, Others, Reading
  <2> QED
    BY <2>1, <2>2, <2>3, <2>6, ReaderEnters DEF Holding
<1> QED
  BY <1>1, <1>2, <1>3, <1>4, <1>5, <1>6 DEF Tryrdlock

\* The last reader, and only he, gives the writers' lock back.
LEMMA RdunlockStep ==
    ASSUME RwInv, NEW t \in Threads, Rdunlock(t)
    PROVE  RwInv'
<1>0. at \in [Threads -> RwPoints] /\ shared \in RwShared /\ RwFacts
  BY DEF RwInv, RwType
<1>1. CASE LockReaders(t, "reads", "uncounts")
  BY <1>1, LockReadersStep DEF Reading, Counting
<1>2. CASE Go(t, "uncounts", "out",
              [shared EXCEPT !.num_readers = @ - 1, !.num_readers_lock = Free,
                             !.write_semaphore = IF shared.num_readers = 1 THEN 1 ELSE @])
  <2>1. /\ at[t] = "uncounts" /\ at' = [at EXCEPT ![t] = "out"]
        /\ shared' = [shared EXCEPT !.num_readers = @ - 1, !.num_readers_lock = Free,
                                    !.write_semaphore = IF shared.num_readers = 1 THEN 1 ELSE @]
    BY <1>2 DEF Go
  <2>2. shared.num_readers - 1 \in Nat
    <3>1. CountedIn(at) # {}
      BY <2>1 DEF CountedIn, Counting
    <3>2. shared.num_readers # 0
      BY <1>0, <3>1, CountOfNone DEF RwFacts, CountedIn
    <3> QED
      BY <1>0, <3>2 DEF RwShared
  <2>3. /\ shared' \in RwShared /\ shared'.num_readers = shared.num_readers - 1
        /\ shared'.num_readers_lock = Free
        /\ shared.num_readers # 1 => shared'.write_semaphore = shared.write_semaphore
    BY <1>0, <2>1, <2>2 DEF RwShared
  <2>4. shared'.num_readers = Cardinality(CountedIn(at'))
    <3>1. at[t] \in Counting /\ "out" \notin Counting
      BY <2>1 DEF Counting
    <3>2. shared.num_readers = Cardinality(CountedIn(at))
      BY <1>0 DEF RwFacts
    <3> QED
      BY <1>0, <2>1, <2>3, <3>1, <3>2, CountIs
  <2>5. \A u \in Others(t) : at[u] \notin Holding /\ at[u] # "writes"
    BY <1>0, <2>1 DEF RwFacts, Holding, Reading, Others
  <2>6. \/ shared'.write_semaphore = 0
        \/ \A u \in Others(t) : at[u] \notin Reading \cup {"writes"}
    <3>1. CASE shared.num_readers = 1
      BY <1>0, <2>1, <2>5, <3>1, CountOfOne DEF RwFacts, Counting, Reading
    <3>2. CASE shared.num_readers # 1
      BY <1>0, <2>1, <2>3, <3>2 DEF RwFacts, Reading
    <3> QED
      BY <3>1, <3>2
  <2> QED
    BY <2>1, <2>3, <2>4, <2>5, <2>6, RwMoves DEF RwPoints, Holding, Reading
<1> QED
  BY <1>1, <1>2 DEF Rdunlock

LEMMA WriterEnters ==
    ASSUME RwInv, NEW t \in Threads, NEW from \in {"out", "wrlock"}, shared.write_semaphore = 1,
           Go(t, from, "writes", [shared EXCEPT !.write_semaphore = 0])
    PROVE  RwInv'
<1>0. at \in [Threads -> RwPoints] /\ shared \in RwShared /\ RwFacts
  BY DEF RwInv, RwType
<1>1. /\ at[t] = from /\ at' = [at EXCEPT ![t] = "writes"]
      /\ shared' = [shared EXCEPT !.write_semaphore = 0]
  BY DEF Go
<1>2. /\ shared' \in RwShared /\ shared'.num_readers = shared.num_readers
      /\ shared'.num_readers_lock = shared.num_readers_lock
      /\ shared'.write_semaphore = 0
  BY <1>0, <1>1 DEF RwShared
<1>3. shared'.num_readers = Cardinality(CountedIn(at'))
  <2>1. at[t] \notin Counting /\ "writes" \notin Counting
    BY <1>1 DEF Counting
  <2>2. shared.num_readers = Cardinality(CountedIn(at))
    BY <1>0 DEF RwFacts
  <2> QED
    BY <1>0, <1>1, <1>2, <2>1, <2>2, CountIs
<1>4. \A u \in Others(t) : at[u] \notin Reading \cup {"writes"}
  BY <1>0 DEF RwFacts, Others
<1> QED
  BY <1>1, <1>2, <1>3, <1>4, RwMoves DEF RwPoints, Holding, Reading

LEMMA WriterStep ==
    ASSUME RwInv, NEW t \in Threads, Wrlock(t) \/ Trywrlock(t) \/ Wrunlock(t)
    PROVE  RwInv'
<1>0. at \in [Threads -> RwPoints] /\ shared \in RwShared /\ RwFacts
  BY DEF RwInv, RwType
<1>1. CASE Wrlock(t)
  <2>1. CASE Begin(t, "wrlock")
    BY <2>1, OutsideStep DEF Begin, Counting
  <2>2. CASE Go(t, "wrlock", "writes", [shared EXCEPT !.write_semaphore = 0]) /\ shared.write_semaphore = 1
    BY <2>2, WriterEnters
  <2> QED
    BY <1>1, <2>1, <2>2 DEF Wrlock
<1>2. CASE Trywrlock(t)
  <2>1. CASE shared.write_semaphore = 1
    BY <1>2, <2>1, WriterEnters DEF Trywrlock
  <2>2. CASE shared.write_semaphore # 1
    BY <1>2, <2>2, OutsideStep DEF Trywrlock, Counting
  <2> QED
    BY <2>1, <2>2
<1>3. CASE Wrunlock(t)
  <2>1. /\ at[t] = "writes" /\ at' = [at EXCEPT ![t] = "out"]
        /\ shared' = [shared EXCEPT !.write_semaphore = 1]
    BY <1>3 DEF Wrunlock, Go
  <2>2. /\ shared' \in RwShared /\ shared'.num_readers = shared.num_readers
        /\ shared'.num_readers_lock = shared.num_readers_lock
    BY <1>0, <2>1 DEF RwShared
  <2>3. shared'.num_readers = Cardinality(CountedIn(at'))
    <3>1. at[t] \notin Counting /\ "out" \notin Counting
      BY <2>1 DEF Counting
    <3>2. shared.num_readers = Cardinality(CountedIn(at))
      BY <1>0 DEF RwFacts
    <3> QED
      BY <1>0, <2>1, <2>2, <3>1, <3>2, CountIs
  <2>4. \A u \in Others(t) : at[u] \notin Reading \cup {"writes"}
    BY <1>0, <2>1 DEF RwFacts, Others
  <2> QED
    BY <2>1, <2>2, <2>3, <2>4, RwMoves DEF RwPoints, Holding, Reading
<1> QED
  BY <1>1, <1>2, <1>3

LEMMA RwStep ==
    ASSUME RwInv, NEW t \in Threads, Rwlock(t)
    PROVE  RwInv'
  BY RdlockStep, TryrdlockStep, RdunlockStep, WriterStep DEF Rwlock

LEMMA RwInit == ThreadsInit /\ use.primitive = "rwlock" => RwInv
<1> SUFFICES ASSUME ThreadsInit, use.primitive = "rwlock" PROVE RwInv
  OBVIOUS
<1>1. /\ shared = [num_readers |-> 0, num_readers_lock |-> Free, write_semaphore |-> 1]
      /\ at = [t \in Threads |-> "out"]
  BY DEF ThreadsInit, Fields
<1>2. CountedIn(at) = {}
  BY <1>1 DEF CountedIn, Counting
<1> QED
  BY <1>1, <1>2, FS_EmptySet DEF RwInv, RwType, RwFacts, RwShared, RwPoints, Holding, Reading

-----------------------------------------------------------------------------
(* The barriers: how many threads are at some points, as one of them moves. *)

PlacedAt(f, where) == {t \in Threads : f[t] \in where}

\* Thread t at f[t] is one of them before, at to after.
CountFollows(f, g, where, t, to) ==
    /\ Cardinality(PlacedAt(f, where)) \in Nat
    /\ (f[t] \in where <=> to \in where) =>
           Cardinality(PlacedAt(g, where)) = Cardinality(PlacedAt(f, where))
    /\ f[t] \notin where /\ to \in where =>
           Cardinality(PlacedAt(g, where)) = Cardinality(PlacedAt(f, where)) + 1
    /\ f[t] \in where /\ to \notin where =>
           Cardinality(PlacedAt(g, where)) = Cardinality(PlacedAt(f, where)) - 1

LEMMA PlacedMoves ==
    ASSUME NEW points, NEW f \in [Threads -> points], NEW where, NEW t \in Threads, NEW to,
           NEW g, g = [f EXCEPT ![t] = to]
    PROVE  CountFollows(f, g, where, t, to)
<1>1. IsFiniteSet(PlacedAt(f, where)) /\ Cardinality(PlacedAt(f, where)) \in Nat
  <2>1. PlacedAt(f, where) \subseteq Threads
    BY DEF PlacedAt
  <2> QED
    BY <2>1, ThreadsAssumption, FS_Subset, FS_CardinalityType
<1>2. \A u \in Threads : g[u] = IF u = t THEN to ELSE f[u]
  OBVIOUS
<1>3. ASSUME f[t] \in where <=> to \in where
      PROVE  PlacedAt(g, where) = PlacedAt(f, where)
  BY <1>2, <1>3 DEF PlacedAt
<1>4. ASSUME f[t] \notin where, to \in where
      PROVE  Cardinality(PlacedAt(g, where)) = Cardinality(PlacedAt(f, where)) + 1
  <2>1. PlacedAt(g, where) = PlacedAt(f, where) \cup {t} /\ t \notin PlacedAt(f, where)
    BY <1>2, <1>4 DEF PlacedAt
  <2> QED
    BY <1>1, <2>1, FS_AddElement
<1>5. ASSUME f[t] \in where, to \notin where
      PROVE  Cardinality(PlacedAt(g, where)) = Cardinality(PlacedAt(f, where)) - 1
  <2>1. PlacedAt(g, where) = PlacedAt(f, where) \ {t} /\ t \in PlacedAt(f, where)
    BY <1>2, <1>5 DEF PlacedAt
  <2> QED
    BY <1>1, <2>1, FS_RemoveElement
<1> QED
  BY <1>1, <1>3, <1>4, <1>5 DEF CountFollows

\* The last to come meets all the others.
LEMMA AllHaveCome ==
    ASSUME NEW f, NEW where, NEW t \in Threads, f[t] \notin where,
           Cardinality(PlacedAt(f, where)) + 1 = N
    PROVE  \A u \in Threads \ {t} : f[u] \in where
<1>1. /\ PlacedAt(f, where) \subseteq Threads \ {t}
      /\ IsFiniteSet(Threads \ {t}) /\ Cardinality(Threads \ {t}) = Cardinality(Threads) - 1
  BY ThreadsAssumption, FS_RemoveElement DEF PlacedAt
<1>2. Cardinality(Threads) \in Nat /\ Cardinality(PlacedAt(f, where)) \in Nat
  BY <1>1, ThreadsAssumption, FS_CardinalityType, FS_Subset
<1>3. Cardinality(PlacedAt(f, where)) = Cardinality(Threads \ {t})
  BY <1>1, <1>2 DEF N
<1>4. PlacedAt(f, where) = Threads \ {t}
  BY <1>1, <1>3, FS_Subset
<1> QED
  BY <1>4 DEF PlacedAt

\* The last to leave is the only one left.
LEMMA AllHaveLeft ==
    ASSUME NEW f, NEW where, NEW t \in Threads, f[t] \in where,
           Cardinality(PlacedAt(f, where)) = 1
    PROVE  \A u \in Threads \ {t} : f[u] \notin where
<1>1. PlacedAt(f, where) \subseteq Threads /\ t \in PlacedAt(f, where)
  BY DEF PlacedAt
<1>2. IsFiniteSet(PlacedAt(f, where))
  BY <1>1, ThreadsAssumption, FS_Subset
<1>3. PICK x : PlacedAt(f, where) = {x}
  BY <1>2, FS_Singleton
<1> QED
  BY <1>1, <1>3 DEF PlacedAt

-----------------------------------------------------------------------------
(* The barrier of two turnstiles. *)

BarrierPoints ==
    {"out", "closes_second", "first", "posts_first", "leaves", "closes_first", "second", "posts_second"}

\* Where a thread is among those counted.
Counted == {"closes_second", "first", "posts_first", "leaves"}

BarrierType ==
    /\ at \in [Threads -> BarrierPoints] /\ round \in [Threads -> Nat]
    /\ shared \in [count : Nat, mutex : Threads \cup {Free}, turnstile1 : {0, 1}, turnstile2 : {0, 1}]
    /\ log \in [calls : Nat, done : BOOLEAN, serial : Nat]

\* While threads gather for the next round the first turnstile is shut, and those of the
\* last round still go through the second, one at a time.
Gathering ==
    /\ shared.turnstile1 = 0
    /\ \A t \in Threads : \/ at[t] \in {"out", "second", "posts_second"} /\ round[t] = log.serial
                          \/ at[t] \in {"first", "closes_second"} /\ round[t] = log.serial + 1
    /\ \A t, u \in Threads : at[t] = "posts_second" /\ at[u] = "posts_second" => t = u
    /\ \A t \in Threads : at[t] = "posts_second" => shared.turnstile2 = 0
    /\ \A t \in Threads : at[t] = "closes_second" =>
           shared.mutex = t /\ \A u \in Threads \ {t} : at[u] = "first"

\* While they leave the second is shut, nobody is out, and the round is the same for all;
\* the last of them has told one it is the serial one.
Leaving ==
    /\ shared.turnstile2 = 0
    /\ \A t \in Threads : /\ at[t] \in {"first", "posts_first", "leaves", "closes_first", "second"}
                          /\ round[t] = IF shared.count = 0 THEN log.serial ELSE log.serial + 1
    /\ \A t, u \in Threads : at[t] = "posts_first" /\ at[u] = "posts_first" => t = u
    /\ \A t \in Threads : at[t] = "posts_first" => shared.turnstile1 = 0
    /\ \A t \in Threads : at[t] = "closes_first" =>
           shared.mutex = t /\ \A u \in Threads \ {t} : at[u] = "second"

BarrierInv ==
    /\ BarrierType
    /\ shared.count = Cardinality(PlacedAt(at, Counted))
    /\ Gathering \/ Leaving

LEMMA BarrierInit == ThreadsInit /\ use.primitive = "barrier" => BarrierInv
<1> SUFFICES ASSUME ThreadsInit, use.primitive = "barrier" PROVE BarrierInv
  OBVIOUS
<1>1. /\ shared = [count |-> 0, mutex |-> Free, turnstile1 |-> 0, turnstile2 |-> 1]
      /\ at = [t \in Threads |-> "out"] /\ round = [t \in Threads |-> 0]
      /\ log = [calls |-> 0, done |-> FALSE, serial |-> 0]
  BY DEF ThreadsInit, Fields
<1>2. PlacedAt(at, Counted) = {}
  BY <1>1 DEF PlacedAt, Counted
<1>3. Cardinality(PlacedAt(at, Counted)) = 0
  BY <1>2, FS_EmptySet
<1>4. BarrierType
  BY <1>1 DEF BarrierType, BarrierPoints
<1>5. Gathering
  BY <1>1 DEF Gathering
<1> QED
  BY <1>1, <1>3, <1>4, <1>5 DEF BarrierInv

\* What a step does to the points and the rounds, and that a thread counted makes the
\* count positive.
LEMMA BarrierMoves ==
    ASSUME BarrierInv, NEW t \in Threads, NEW from, NEW to \in BarrierPoints, NEW f, Go(t, from, to, f)
    PROVE  /\ at[t] = from /\ shared' = f /\ at' \in [Threads -> BarrierPoints]
           /\ \A u \in Threads : at'[u] = IF u = t THEN to ELSE at[u]
           /\ (from \in Counted <=> to \in Counted) => Cardinality(PlacedAt(at', Counted)) = shared.count
           /\ from \notin Counted /\ to \in Counted =>
                  Cardinality(PlacedAt(at', Counted)) = shared.count + 1
           /\ from \in Counted /\ to \notin Counted =>
                  Cardinality(PlacedAt(at', Counted)) = shared.count - 1
           /\ from \in Counted => shared.count \in Nat /\ shared.count > 0
<1>1. at \in [Threads -> BarrierPoints] /\ shared.count = Cardinality(PlacedAt(at, Counted))
  BY DEF BarrierInv, BarrierType
<1>2. at[t] = from /\ at' = [at EXCEPT ![t] = to] /\ shared' = f
  BY DEF Go
<1>3. /\ (from \in Counted <=> to \in Counted) => Cardinality(PlacedAt(at', Counted)) = shared.count
      /\ from \notin Counted /\ to \in Counted =>
             Cardinality(PlacedAt(at', Counted)) = shared.count + 1
      /\ from \in Counted /\ to \notin Counted =>
             Cardinality(PlacedAt(at', Counted)) = shared.count - 1
  <2>1. CountFollows(at, at', Counted, t, to)
    BY <1>1, <1>2, PlacedMoves
  <2> QED
    BY <1>1, <1>2, <2>1 DEF CountFollows
<1>4. ASSUME from \in Counted PROVE shared.count \in Nat /\ shared.count > 0
  <2>1. t \in PlacedAt(at, Counted) /\ IsFiniteSet(PlacedAt(at, Counted))
    BY <1>2, <1>4, ThreadsAssumption, FS_Subset DEF PlacedAt
  <2>2. Cardinality(PlacedAt(at, Counted)) # 0 /\ Cardinality(PlacedAt(at, Counted)) \in Nat
    BY <2>1, FS_EmptySet, FS_CardinalityType
  <2> QED
    BY <1>1, <2>2
<1> QED
  BY <1>1, <1>2, <1>3, <1>4

\* A thread comes: the last of its round finds all the others waiting.
LEMMA ArriveStep ==
    ASSUME BarrierInv, NEW t \in Threads, Arrive(t)
    PROVE  BarrierInv'
<1>0. BarrierType /\ (Gathering \/ Leaving) /\ shared.count = Cardinality(PlacedAt(at, Counted))
  BY DEF BarrierInv
<1>1. CASE /\ Rounds(t) /\ UNCHANGED log /\ shared.mutex = Free
           /\ Go(t, "out", IF shared.count + 1 = N THEN "closes_second" ELSE "first",
                 [shared EXCEPT !.count = @ + 1, !.mutex = IF shared.count + 1 = N THEN t ELSE Free])
  <2> DEFINE to == IF shared.count + 1 = N THEN "closes_second" ELSE "first"
  <2>1. /\ at[t] = "out" /\ at' \in [Threads -> BarrierPoints]
        /\ \A u \in Threads : at'[u] = IF u = t THEN to ELSE at[u]
        /\ shared' = [shared EXCEPT !.count = @ + 1, !.mutex = IF shared.count + 1 = N THEN t ELSE Free]
        /\ Cardinality(PlacedAt(at', Counted)) = shared.count + 1
    <3>1. to \in BarrierPoints /\ to \in Counted /\ "out" \notin Counted
      BY DEF BarrierPoints, Counted
    <3> HIDE DEF to
    <3>2. Go(t, "out", to, [shared EXCEPT !.count = @ + 1, !.mutex = IF shared.count + 1 = N THEN t ELSE Free])
      BY <1>1 DEF to
    <3> QED
      BY <3>1, <3>2, BarrierMoves
  <2>2. Gathering
    BY <1>0, <2>1 DEF Leaving
  <2>3. /\ shared'.count = shared.count + 1 /\ shared'.mutex = (IF to = "closes_second" THEN t ELSE Free)
        /\ shared'.turnstile1 = shared.turnstile1 /\ shared'.turnstile2 = shared.turnstile2
        /\ shared' \in [count : Nat, mutex : Threads \cup {Free}, turnstile1 : {0, 1}, turnstile2 : {0, 1}]
    <3>1. shared.count + 1 \in Nat
      BY <1>0 DEF BarrierType
    <3> QED
      BY <1>0, <2>1, <3>1 DEF BarrierType
  <2>4. /\ round' \in [Threads -> Nat] /\ log' = log
        /\ \A u \in Threads : round'[u] = IF u = t THEN round[t] + 1 ELSE round[u]
    <3>1. round \in [Threads -> Nat] /\ round' = [round EXCEPT ![t] = round[t] + 1] /\ log' = log
      BY <1>0, <1>1 DEF BarrierType, Rounds
    <3>2. round[t] + 1 \in Nat
      BY <3>1
    <3> QED
      BY <3>1, <3>2
  <2>5. BarrierType'
    BY <1>0, <2>1, <2>3, <2>4 DEF BarrierType
  <2>6. \A u \in Threads : at[u] # "closes_second"
    BY <1>1, <2>2, ThreadsAssumption DEF Gathering
  <2>7. to = "closes_second" => \A u \in Threads \ {t} : at[u] = "first"
    <3>1. SUFFICES ASSUME shared.count + 1 = N PROVE \A u \in Threads \ {t} : at[u] = "first"
      OBVIOUS
    <3>2. \A u \in Threads \ {t} : at[u] \in Counted
      BY <1>0, <2>1, <3>1, AllHaveCome DEF Counted
    <3> QED
      BY <2>2, <2>6, <3>2 DEF Gathering, Counted
  <2>8. to \in {"first", "closes_second"}
    OBVIOUS
  <2> HIDE DEF to
  <2>9. Gathering'
    BY <2>1, <2>2, <2>3, <2>4, <2>6, <2>7, <2>8 DEF Gathering
  <2> QED
    BY <2>1, <2>3, <2>5, <2>9 DEF BarrierInv
<1>2. CASE /\ shared.turnstile2 > 0 /\ Same
           /\ Go(t, "closes_second", "first",
                 [shared EXCEPT !.turnstile2 = @ - 1, !.turnstile1 = @ + 1, !.mutex = Free])
  <2>1. /\ at[t] = "closes_second" /\ at' \in [Threads -> BarrierPoints]
        /\ \A u \in Threads : at'[u] = IF u = t THEN "first" ELSE at[u]
        /\ shared' = [shared EXCEPT !.turnstile2 = @ - 1, !.turnstile1 = @ + 1, !.mutex = Free]
        /\ Cardinality(PlacedAt(at', Counted)) = shared.count
        /\ shared.count > 0
    <3>1. "first" \in BarrierPoints /\ "closes_second" \in Counted /\ "first" \in Counted
      BY DEF BarrierPoints, Counted
    <3> QED
      BY <1>2, <3>1, BarrierMoves
  <2>2. Gathering
    BY <1>0, <2>1 DEF Leaving
  <2>3. /\ shared'.count = shared.count /\ shared'.mutex = Free
        /\ shared'.turnstile1 = 1 /\ shared'.turnstile2 = 0
        /\ shared' \in [count : Nat, mutex : Threads \cup {Free}, turnstile1 : {0, 1}, turnstile2 : {0, 1}]
    <3>1. shared.turnstile1 = 0 /\ shared.turnstile2 = 1
      BY <1>0, <1>2, <2>2 DEF BarrierType, Gathering
    <3>2. shared.turnstile1 + 1 = 1 /\ shared.turnstile2 - 1 = 0
      BY <3>1
    <3>3. shared' = [shared EXCEPT !.turnstile2 = 0, !.turnstile1 = 1, !.mutex = Free]
      BY <2>1, <3>2, Zenon
    <3> QED
      BY <1>0, <3>3 DEF BarrierType
  <2>4. round' = round /\ log' = log
    BY <1>2 DEF Same
  <2>5. BarrierType'
    BY <1>0, <2>1, <2>3, <2>4 DEF BarrierType
  <2>6. \A u \in Threads : at'[u] = "first" /\ round[u] = log.serial + 1
    BY <2>1, <2>2 DEF Gathering
  <2>7. Leaving'
    BY <2>1, <2>3, <2>4, <2>6 DEF Leaving
  <2> QED
    BY <2>1, <2>3, <2>5, <2>7 DEF BarrierInv
<1> QED
  BY <1>1, <1>2 DEF Arrive

\* The first turnstile: one at a time.
LEMMA Pass1Step ==
    ASSUME BarrierInv, NEW t \in Threads, Pass1(t)
    PROVE  BarrierInv'
<1>0. BarrierType /\ (Gathering \/ Leaving) /\ shared.count = Cardinality(PlacedAt(at, Counted))
  BY DEF BarrierInv
<1>1. CASE shared.turnstile1 > 0 /\ Same /\ Go(t, "first", "posts_first", [shared EXCEPT !.turnstile1 = @ - 1])
  <2>1. /\ at[t] = "first" /\ at' \in [Threads -> BarrierPoints]
        /\ \A u \in Threads : at'[u] = IF u = t THEN "posts_first" ELSE at[u]
        /\ shared' = [shared EXCEPT !.turnstile1 = @ - 1]
        /\ Cardinality(PlacedAt(at', Counted)) = shared.count
    <3>1. "posts_first" \in BarrierPoints /\ "first" \in Counted /\ "posts_first" \in Counted
      BY DEF BarrierPoints, Counted
    <3> QED
      BY <1>1, <3>1, BarrierMoves
  <2>2. Leaving /\ shared.turnstile1 = 1
    BY <1>0, <1>1 DEF Gathering, BarrierType
  <2>3. /\ shared'.count = shared.count /\ shared'.mutex = shared.mutex
        /\ shared'.turnstile1 = 0 /\ shared'.turnstile2 = shared.turnstile2
        /\ shared' \in [count : Nat, mutex : Threads \cup {Free}, turnstile1 : {0, 1}, turnstile2 : {0, 1}]
    <3>1. shared.turnstile1 - 1 = 0
      BY <2>2
    <3>2. shared' = [shared EXCEPT !.turnstile1 = 0]
      BY <2>1, <3>1, Zenon
    <3> QED
      BY <1>0, <3>2 DEF BarrierType
  <2>4. round' = round /\ log' = log
    BY <1>1 DEF Same
  <2>5. BarrierType'
    BY <1>0, <2>1, <2>3, <2>4 DEF BarrierType
  <2>6. Leaving'
    BY <2>1, <2>2, <2>3, <2>4 DEF Leaving
  <2> QED
    BY <2>1, <2>3, <2>5, <2>6 DEF BarrierInv
<1>2. CASE Same /\ Go(t, "posts_first", "leaves", [shared EXCEPT !.turnstile1 = @ + 1])
  <2>1. /\ at[t] = "posts_first" /\ at' \in [Threads -> BarrierPoints]
        /\ \A u \in Threads : at'[u] = IF u = t THEN "leaves" ELSE at[u]
        /\ shared' = [shared EXCEPT !.turnstile1 = @ + 1]
        /\ Cardinality(PlacedAt(at', Counted)) = shared.count
    <3>1. "leaves" \in BarrierPoints /\ "leaves" \in Counted /\ "posts_first" \in Counted
      BY DEF BarrierPoints, Counted
    <3> QED
      BY <1>2, <3>1, BarrierMoves
  <2>2. Leaving /\ shared.turnstile1 = 0
    BY <1>0, <2>1 DEF Gathering, Leaving
  <2>3. /\ shared'.count = shared.count /\ shared'.mutex = shared.mutex
        /\ shared'.turnstile2 = shared.turnstile2
        /\ shared' \in [count : Nat, mutex : Threads \cup {Free}, turnstile1 : {0, 1}, turnstile2 : {0, 1}]
    <3>1. shared.turnstile1 + 1 = 1
      BY <2>2
    <3>2. shared' = [shared EXCEPT !.turnstile1 = 1]
      BY <2>1, <3>1, Zenon
    <3> QED
      BY <1>0, <3>2 DEF BarrierType
  <2>4. round' = round /\ log' = log
    BY <1>2 DEF Same
  <2>5. BarrierType'
    BY <1>0, <2>1, <2>3, <2>4 DEF BarrierType
  <2>6. \A u \in Threads : at'[u] # "posts_first"
    BY <2>1, <2>2 DEF Leaving
  <2>7. Leaving'
    BY <2>1, <2>2, <2>3, <2>4, <2>6 DEF Leaving
  <2> QED
    BY <2>1, <2>3, <2>5, <2>7 DEF BarrierInv
<1> QED
  BY <1>1, <1>2 DEF Pass1

\* A thread goes: the last of its round leaves all the others at the second turnstile.
LEMMA DepartStep ==
    ASSUME BarrierInv, NEW t \in Threads, Depart(t)
    PROVE  BarrierInv'
<1>0. BarrierType /\ (Gathering \/ Leaving) /\ shared.count = Cardinality(PlacedAt(at, Counted))
  BY DEF BarrierInv
<1>1. CASE /\ shared.mutex = Free /\ UNCHANGED round
           /\ log' = IF shared.count = 1 THEN [log EXCEPT !.serial = @ + 1] ELSE log
           /\ Go(t, "leaves", IF shared.count = 1 THEN "closes_first" ELSE "second",
                 [shared EXCEPT !.count = @ - 1, !.mutex = IF shared.count = 1 THEN t ELSE Free])
  <2> DEFINE to == IF shared.count = 1 THEN "closes_first" ELSE "second"
  <2>1. /\ at[t] = "leaves" /\ at' \in [Threads -> BarrierPoints]
        /\ \A u \in Threads : at'[u] = IF u = t THEN to ELSE at[u]
        /\ shared' = [shared EXCEPT !.count = @ - 1, !.mutex = IF shared.count = 1 THEN t ELSE Free]
        /\ Cardinality(PlacedAt(at', Counted)) = shared.count - 1
        /\ shared.count \in Nat /\ shared.count > 0
    <3>1. to \in BarrierPoints /\ to \notin Counted /\ "leaves" \in Counted
      BY DEF BarrierPoints, Counted
    <3> HIDE DEF to
    <3>2. Go(t, "leaves", to, [shared EXCEPT !.count = @ - 1, !.mutex = IF shared.count = 1 THEN t ELSE Free])
      BY <1>1 DEF to
    <3> QED
      BY <3>1, <3>2, BarrierMoves
  <2>2. Leaving
    BY <1>0, <2>1 DEF Gathering
  <2>3. /\ shared'.count = shared.count - 1 /\ shared'.mutex = (IF to = "closes_first" THEN t ELSE Free)
        /\ shared'.turnstile1 = shared.turnstile1 /\ shared'.turnstile2 = shared.turnstile2
        /\ shared' \in [count : Nat, mutex : Threads \cup {Free}, turnstile1 : {0, 1}, turnstile2 : {0, 1}]
    <3>1. shared.count - 1 \in Nat
      BY <2>1
    <3> QED
      BY <1>0, <2>1, <3>1 DEF BarrierType
  <2>4. /\ round' = round /\ log' \in [calls : Nat, done : BOOLEAN, serial : Nat]
        /\ log'.serial = IF to = "closes_first" THEN log.serial + 1 ELSE log.serial
    <3>1. log.serial + 1 \in Nat
      BY <1>0 DEF BarrierType
    <3> QED
      BY <1>0, <1>1, <3>1 DEF BarrierType
  <2>5. BarrierType'
    BY <1>0, <2>1, <2>3, <2>4 DEF BarrierType
  <2>6. \A u \in Threads : at[u] # "closes_first"
    BY <1>1, <2>2, ThreadsAssumption DEF Leaving
  <2>7. to = "closes_first" => \A u \in Threads \ {t} : at[u] = "second"
    <3>1. SUFFICES ASSUME shared.count = 1 PROVE \A u \in Threads \ {t} : at[u] = "second"
      OBVIOUS
    <3>2. \A u \in Threads \ {t} : at[u] \notin Counted
      BY <1>0, <2>1, <3>1, AllHaveLeft DEF Counted
    <3> QED
      BY <2>2, <2>6, <3>2 DEF Leaving, Counted
  <2>8. /\ to \in {"closes_first", "second"}
        /\ to = "closes_first" <=> shared'.count = 0
    BY <2>1, <2>3
  <2>9. shared.count # 0 /\ \A u \in Threads : round[u] = log.serial + 1
    BY <2>1, <2>2 DEF Leaving
  <2> HIDE DEF to
  <2>10. \A u \in Threads : round'[u] = IF shared'.count = 0 THEN log'.serial ELSE log'.serial + 1
    BY <2>4, <2>8, <2>9
  <2>11. Leaving'
    BY <2>1, <2>2, <2>3, <2>6, <2>7, <2>8, <2>10 DEF Leaving
  <2> QED
    BY <2>1, <2>3, <2>5, <2>11 DEF BarrierInv
<1>2. CASE /\ shared.turnstile1 > 0 /\ Same
           /\ Go(t, "closes_first", "second",
                 [shared EXCEPT !.turnstile1 = @ - 1, !.turnstile2 = @ + 1, !.mutex = Free])
  <2>1. /\ at[t] = "closes_first" /\ at' \in [Threads -> BarrierPoints]
        /\ \A u \in Threads : at'[u] = IF u = t THEN "second" ELSE at[u]
        /\ shared' = [shared EXCEPT !.turnstile1 = @ - 1, !.turnstile2 = @ + 1, !.mutex = Free]
        /\ Cardinality(PlacedAt(at', Counted)) = shared.count
    <3>1. "second" \in BarrierPoints /\ "closes_first" \notin Counted /\ "second" \notin Counted
      BY DEF BarrierPoints, Counted
    <3> QED
      BY <1>2, <3>1, BarrierMoves
  <2>2. Leaving
    BY <1>0, <2>1 DEF Gathering
  <2>3. /\ shared'.count = shared.count /\ shared'.mutex = Free
        /\ shared'.turnstile1 = 0 /\ shared'.turnstile2 = 1
        /\ shared' \in [count : Nat, mutex : Threads \cup {Free}, turnstile1 : {0, 1}, turnstile2 : {0, 1}]
    <3>1. shared.turnstile1 = 1 /\ shared.turnstile2 = 0
      BY <1>0, <1>2, <2>2 DEF BarrierType, Leaving
    <3>2. shared.turnstile1 - 1 = 0 /\ shared.turnstile2 + 1 = 1
      BY <3>1
    <3>3. shared' = [shared EXCEPT !.turnstile1 = 0, !.turnstile2 = 1, !.mutex = Free]
      BY <2>1, <3>2, Zenon
    <3> QED
      BY <1>0, <3>3 DEF BarrierType
  <2>4. round' = round /\ log' = log
    BY <1>2 DEF Same
  <2>5. BarrierType'
    BY <1>0, <2>1, <2>3, <2>4 DEF BarrierType
  <2>6. \A u \in Threads : at[u] \in {"closes_first", "second"} /\ at'[u] = "second"
    BY <2>1, <2>2 DEF Leaving
  <2>7. shared.count = 0
    <3>1. PlacedAt(at, Counted) = {}
      BY <2>6 DEF PlacedAt, Counted
    <3> QED
      BY <1>0, <3>1, FS_EmptySet
  <2>8. Gathering'
    BY <2>2, <2>3, <2>4, <2>6, <2>7 DEF Leaving, Gathering
  <2> QED
    BY <2>1, <2>3, <2>5, <2>8 DEF BarrierInv
<1> QED
  BY <1>1, <1>2 DEF Depart

\* The second turnstile: one at a time.
LEMMA Pass2Step ==
    ASSUME BarrierInv, NEW t \in Threads, Pass2(t)
    PROVE  BarrierInv'
<1>0. BarrierType /\ (Gathering \/ Leaving) /\ shared.count = Cardinality(PlacedAt(at, Counted))
  BY DEF BarrierInv
<1>1. CASE shared.turnstile2 > 0 /\ Same /\ Go(t, "second", "posts_second", [shared EXCEPT !.turnstile2 = @ - 1])
  <2>1. /\ at[t] = "second" /\ at' \in [Threads -> BarrierPoints]
        /\ \A u \in Threads : at'[u] = IF u = t THEN "posts_second" ELSE at[u]
        /\ shared' = [shared EXCEPT !.turnstile2 = @ - 1]
        /\ Cardinality(PlacedAt(at', Counted)) = shared.count
    <3>1. "posts_second" \in BarrierPoints /\ "second" \notin Counted /\ "posts_second" \notin Counted
      BY DEF BarrierPoints, Counted
    <3> QED
      BY <1>1, <3>1, BarrierMoves
  <2>2. Gathering /\ shared.turnstile2 = 1
    BY <1>0, <1>1 DEF Leaving, BarrierType
  <2>3. /\ shared'.count = shared.count /\ shared'.mutex = shared.mutex
        /\ shared'.turnstile1 = shared.turnstile1 /\ shared'.turnstile2 = 0
        /\ shared' \in [count : Nat, mutex : Threads \cup {Free}, turnstile1 : {0, 1}, turnstile2 : {0, 1}]
    <3>1. shared.turnstile2 - 1 = 0
      BY <2>2
    <3>2. shared' = [shared EXCEPT !.turnstile2 = 0]
      BY <2>1, <3>1, Zenon
    <3> QED
      BY <1>0, <3>2 DEF BarrierType
  <2>4. round' = round /\ log' = log
    BY <1>1 DEF Same
  <2>5. BarrierType'
    BY <1>0, <2>1, <2>3, <2>4 DEF BarrierType
  <2>6. Gathering'
    BY <2>1, <2>2, <2>3, <2>4 DEF Gathering
  <2> QED
    BY <2>1, <2>3, <2>5, <2>6 DEF BarrierInv
<1>2. CASE Same /\ Go(t, "posts_second", "out", [shared EXCEPT !.turnstile2 = @ + 1])
  <2>1. /\ at[t] = "posts_second" /\ at' \in [Threads -> BarrierPoints]
        /\ \A u \in Threads : at'[u] = IF u = t THEN "out" ELSE at[u]
        /\ shared' = [shared EXCEPT !.turnstile2 = @ + 1]
        /\ Cardinality(PlacedAt(at', Counted)) = shared.count
    <3>1. "out" \in BarrierPoints /\ "out" \notin Counted /\ "posts_second" \notin Counted
      BY DEF BarrierPoints, Counted
    <3> QED
      BY <1>2, <3>1, BarrierMoves
  <2>2. Gathering /\ shared.turnstile2 = 0
    BY <1>0, <2>1 DEF Gathering, Leaving
  <2>3. /\ shared'.count = shared.count /\ shared'.mutex = shared.mutex
        /\ shared'.turnstile1 = shared.turnstile1
        /\ shared' \in [count : Nat, mutex : Threads \cup {Free}, turnstile1 : {0, 1}, turnstile2 : {0, 1}]
    <3>1. shared.turnstile2 + 1 = 1
      BY <2>2
    <3>2. shared' = [shared EXCEPT !.turnstile2 = 1]
      BY <2>1, <3>1, Zenon
    <3> QED
      BY <1>0, <3>2 DEF BarrierType
  <2>4. round' = round /\ log' = log
    BY <1>2 DEF Same
  <2>5. BarrierType'
    BY <1>0, <2>1, <2>3, <2>4 DEF BarrierType
  <2>6. \A u \in Threads : at'[u] # "posts_second"
    BY <2>1, <2>2 DEF Gathering
  <2>7. Gathering'
    BY <2>1, <2>2, <2>3, <2>4, <2>6 DEF Gathering
  <2> QED
    BY <2>1, <2>3, <2>5, <2>7 DEF BarrierInv
<1> QED
  BY <1>1, <1>2 DEF Pass2

LEMMA BarrierStep ==
    ASSUME BarrierInv, NEW t \in Threads, Barrier(t)
    PROVE  BarrierInv'
  BY ArriveStep, Pass1Step, DepartStep, Pass2Step DEF Barrier

LEMMA BarrierInvIsEnough == BarrierInv => RoundsAreKept
<1> SUFFICES ASSUME BarrierInv PROVE RoundsAreKept
  OBVIOUS
<1>1. BarrierType /\ (Gathering \/ Leaving)
  BY DEF BarrierInv
<1>2. CASE Gathering
  <2>1. log.serial \in Nat /\ \A t \in Threads : round[t] \in Nat /\ round[t] >= log.serial
    BY <1>1, <1>2 DEF BarrierType, Gathering
  <2>2. \A t \in Threads : at[t] = "out" => round[t] = log.serial
    BY <1>2 DEF Gathering
  <2> QED
    BY <2>1, <2>2 DEF RoundsAreKept
<1>3. CASE Leaving
  BY <1>3 DEF Leaving, RoundsAreKept
<1> QED
  BY <1>1, <1>2, <1>3

-----------------------------------------------------------------------------
(* The barrier of a count and a condition variable, through one round. *)

PthreadType ==
    /\ at \in [Threads -> {"out", "waits"}] /\ round \in [Threads -> Nat]
    /\ shared \in [in : Nat, out : Int, asleep : SUBSET Threads]

\* Until the last has come, those who have wait; from then on nobody has to.
Awaited ==
    /\ shared.in = Cardinality(PlacedAt(at, {"waits"})) /\ log.serial = 0
    /\ \A t \in Threads : round[t] = IF at[t] = "waits" THEN 1 ELSE 0

Complete == shared.in = 0 /\ log.serial = 1 /\ \A t \in Threads : round[t] = 1

PthreadInv == PthreadType /\ log \in [calls : Nat, done : BOOLEAN, serial : Nat] /\ (Awaited \/ Complete)

LEMMA PthreadInit == ThreadsInit /\ use.primitive = "pthread_barrier" => PthreadInv
<1> SUFFICES ASSUME ThreadsInit, use.primitive = "pthread_barrier" PROVE PthreadInv
  OBVIOUS
<1>1. /\ shared = [in |-> 0, out |-> 0, asleep |-> {}]
      /\ at = [t \in Threads |-> "out"] /\ round = [t \in Threads |-> 0]
      /\ log = [calls |-> 0, done |-> FALSE, serial |-> 0]
  BY DEF ThreadsInit, Fields
<1>2. PlacedAt(at, {"waits"}) = {}
  BY <1>1 DEF PlacedAt
<1>3. Cardinality(PlacedAt(at, {"waits"})) = 0
  BY <1>2, FS_EmptySet
<1> QED
  BY <1>1, <1>3 DEF PthreadInv, PthreadType, Awaited

LEMMA WokeType == ASSUME NEW s \in SUBSET Threads PROVE \A woken \in Woke(s) : woken \in SUBSET Threads
  BY DEF Woke

\* The thread that completes the round lets all the others go.
LEMMA PthreadArriveStep ==
    ASSUME PthreadInv, use.rounds \in {0, 1}, NEW t \in Threads, PthreadArrive(t)
    PROVE  PthreadInv'
<1>0. PthreadType /\ log \in [calls : Nat, done : BOOLEAN, serial : Nat]
  BY DEF PthreadInv
<1>1. round' = [round EXCEPT ![t] = round[t] + 1] /\ round[t] < use.rounds /\ round[t] \in Nat
  BY <1>0 DEF PthreadArrive, Rounds, PthreadType
<1>2. round[t] = 0
  BY <1>1
<1>3. Awaited
  BY <1>2 DEF PthreadInv, Complete
<1>4. round' = [round EXCEPT ![t] = 1] /\ round' \in [Threads -> Nat]
  <2>1. round[t] + 1 = 1
    BY <1>2
  <2>2. round' = [round EXCEPT ![t] = 1]
    BY <1>1, <2>1, Zenon
  <2> QED
    BY <1>0, <2>2 DEF PthreadType
<1>5. at[t] = "out" /\ at[t] \notin {"waits"}
  BY <1>0, <1>2, <1>3 DEF Awaited, PthreadType
<1>6. CASE shared.in + 1 = N
  <2>1. PICK s \in Woke(shared.asleep) :
            Go(t, "out", "out", [shared EXCEPT !.in = 0, !.out = N - 1, !.asleep = s])
    BY <1>6 DEF PthreadArrive
  <2>2. at' = at /\ shared' = [shared EXCEPT !.in = 0, !.out = N - 1, !.asleep = s]
    <3>1. at' = [at EXCEPT ![t] = "out"] /\ shared' = [shared EXCEPT !.in = 0, !.out = N - 1, !.asleep = s]
      BY <2>1 DEF Go
    <3> QED
      BY <1>0, <1>5, <3>1 DEF PthreadType
  <2>3. log' = [log EXCEPT !.serial = @ + 1]
    BY <1>6 DEF PthreadArrive
  <2>4. log' \in [calls : Nat, done : BOOLEAN, serial : Nat] /\ log'.serial = 1
    <3>1. log.serial + 1 = 1
      BY <1>3 DEF Awaited
    <3>2. log' = [log EXCEPT !.serial = 1]
      BY <2>3, <3>1, Zenon
    <3> QED
      BY <1>0, <3>2
  <2>5. s \in SUBSET Threads
    BY <1>0, WokeType DEF PthreadType
  <2>6. N - 1 \in Int
    BY ThreadsAssumption, FS_CardinalityType DEF N
  <2>7. shared' \in [in : Nat, out : Int, asleep : SUBSET Threads] /\ shared'.in = 0
    BY <1>0, <2>2, <2>5, <2>6 DEF PthreadType
  <2>8. \A u \in Threads \ {t} : at[u] \in {"waits"}
    BY <1>3, <1>5, <1>6, AllHaveCome DEF Awaited
  <2>9. \A u \in Threads : round'[u] = 1
    BY <1>0, <1>3, <1>4, <2>8 DEF Awaited, PthreadType
  <2> QED
    BY <1>0, <1>4, <2>2, <2>4, <2>7, <2>9 DEF PthreadInv, PthreadType, Complete
<1>7. CASE shared.in + 1 # N
  <2>1. /\ at' = [at EXCEPT ![t] = "waits"] /\ log' = log
        /\ shared' = [shared EXCEPT !.in = @ + 1, !.asleep = @ \cup {t}]
    BY <1>7 DEF PthreadArrive, Go
  <2>2. /\ shared' \in [in : Nat, out : Int, asleep : SUBSET Threads] /\ shared'.in = shared.in + 1
    <3>1. shared.in + 1 \in Nat /\ shared.asleep \cup {t} \in SUBSET Threads
      BY <1>0 DEF PthreadType
    <3> QED
      BY <1>0, <2>1, <3>1 DEF PthreadType
  <2>3. shared'.in = Cardinality(PlacedAt(at', {"waits"}))
    <3>1. at[t] \notin {"waits"} /\ "waits" \in {"waits"} /\ at \in [Threads -> {"out", "waits"}]
      BY <1>0, <1>5 DEF PthreadType
    <3>2. CountFollows(at, at', {"waits"}, t, "waits")
      BY <2>1, <3>1, PlacedMoves
    <3>3. Cardinality(PlacedAt(at', {"waits"})) = Cardinality(PlacedAt(at, {"waits"})) + 1
      BY <3>1, <3>2 DEF CountFollows
    <3> QED
      BY <1>3, <2>2, <3>3 DEF Awaited
  <2>4. at' \in [Threads -> {"out", "waits"}]
    BY <1>0, <2>1 DEF PthreadType
  <2>5. \A u \in Threads : round'[u] = IF at'[u] = "waits" THEN 1 ELSE 0
    BY <1>0, <1>3, <1>4, <2>1 DEF Awaited, PthreadType
  <2>6. Awaited'
    BY <1>3, <2>1, <2>3, <2>5 DEF Awaited
  <2> QED
    BY <1>0, <1>4, <2>1, <2>2, <2>4, <2>6 DEF PthreadInv, PthreadType
<1> QED
  BY <1>6, <1>7

\* One who waits and wakes stays while the round is open, and goes once it is complete.
LEMMA PthreadStayOrLeave ==
    ASSUME PthreadInv, NEW t \in Threads, PthreadLeave(t) \/ PthreadWake(t)
    PROVE  PthreadInv'
<1>0. PthreadType /\ log \in [calls : Nat, done : BOOLEAN, serial : Nat]
  BY DEF PthreadInv
<1>1. round' = round /\ log' = log /\ at[t] = "waits"
  BY DEF PthreadLeave, PthreadWake, Same
<1>2. ASSUME NEW s \in SUBSET Threads, Go(t, "waits", "waits", [shared EXCEPT !.asleep = s])
      PROVE  PthreadInv'
  <2>1. at' = at /\ shared' = [shared EXCEPT !.asleep = s]
    <3>1. at' = [at EXCEPT ![t] = "waits"] /\ shared' = [shared EXCEPT !.asleep = s]
      BY <1>2 DEF Go
    <3> QED
      BY <1>0, <1>1, <3>1 DEF PthreadType
  <2>2. shared' \in [in : Nat, out : Int, asleep : SUBSET Threads] /\ shared'.in = shared.in
    BY <1>0, <2>1 DEF PthreadType
  <2> QED
    BY <1>0, <1>1, <2>1, <2>2 DEF PthreadInv, PthreadType, Awaited, Complete
<1>3. CASE PthreadWake(t)
  <2>1. shared.asleep \ {t} \in SUBSET Threads
    BY <1>0 DEF PthreadType
  <2> QED
    BY <1>2, <1>3, <2>1 DEF PthreadWake
<1>4. CASE PthreadLeave(t) /\ shared.in # 0
  <2>1. shared.asleep \cup {t} \in SUBSET Threads
    BY <1>0 DEF PthreadType
  <2> QED
    BY <1>2, <1>4, <2>1 DEF PthreadLeave
<1>5. CASE PthreadLeave(t) /\ shared.in = 0
  <2>1. PICK s \in Woke(shared.asleep) : Go(t, "waits", "out", [shared EXCEPT !.out = @ - 1, !.asleep = s])
    BY <1>5 DEF PthreadLeave
  <2>2. at' = [at EXCEPT ![t] = "out"] /\ shared' = [shared EXCEPT !.out = @ - 1, !.asleep = s]
    BY <2>1 DEF Go
  <2>3. Complete
    <3>1. t \in PlacedAt(at, {"waits"}) /\ IsFiniteSet(PlacedAt(at, {"waits"}))
      BY <1>1, ThreadsAssumption, FS_Subset DEF PlacedAt
    <3>2. Cardinality(PlacedAt(at, {"waits"})) # 0
      BY <3>1, FS_EmptySet
    <3> QED
      BY <1>5, <3>2 DEF PthreadInv, Awaited
  <2>4. shared' \in [in : Nat, out : Int, asleep : SUBSET Threads] /\ shared'.in = shared.in
    <3>1. s \in SUBSET Threads /\ shared.out - 1 \in Int
      BY <1>0, WokeType DEF PthreadType
    <3> QED
      BY <1>0, <2>2, <3>1 DEF PthreadType
  <2>5. at' \in [Threads -> {"out", "waits"}]
    BY <1>0, <2>2 DEF PthreadType
  <2> QED
    BY <1>0, <1>1, <2>3, <2>4, <2>5 DEF PthreadInv, PthreadType, Complete
<1> QED
  BY <1>3, <1>4, <1>5

LEMMA PthreadInvIsEnough == PthreadInv => RoundsAreKept
<1> SUFFICES ASSUME PthreadInv PROVE RoundsAreKept
  OBVIOUS
<1>1. CASE Awaited
  <2>1. \A t \in Threads : round[t] \in Nat /\ (at[t] = "out" => round[t] = 0) /\ log.serial = 0
    BY <1>1 DEF Awaited
  <2> QED
    BY <2>1 DEF RoundsAreKept
<1>2. CASE Complete
  BY <1>2 DEF Complete, RoundsAreKept
<1> QED
  BY <1>1, <1>2 DEF PthreadInv

-----------------------------------------------------------------------------
(* The theorems. *)

PrimitivesInv ==
    /\ use.primitive = "once" => OnceInv
    /\ use.primitive = "rwlock" => RwInv
    /\ use.primitive = "barrier" => BarrierInv
    /\ use.primitive = "pthread_barrier" /\ use.rounds \in {0, 1} => PthreadInv

LEMMA InitInv == ThreadsInit => PrimitivesInv
  BY OnceInit, RwInit, BarrierInit, PthreadInit DEF PrimitivesInv

LEMMA NextInv ==
    ASSUME PrimitivesInv, [ThreadsNext]_threadVars
    PROVE  PrimitivesInv'
<1>1. CASE UNCHANGED threadVars
  <2>1. use' = use
    BY <1>1 DEF threadVars
  <2>2. OnceInv => OnceInv'
    BY <1>1 DEF OnceInv, OnceType, OnceFacts, threadVars
  <2>3. RwInv => RwInv'
    BY <1>1 DEF RwInv, RwType, RwFacts, CountedIn, threadVars
  <2>4. BarrierInv => BarrierInv'
    BY <1>1 DEF BarrierInv, BarrierType, Gathering, Leaving, PlacedAt, threadVars
  <2>5. PthreadInv => PthreadInv'
    BY <1>1 DEF PthreadInv, PthreadType, Awaited, Complete, PlacedAt, threadVars
  <2> QED
    BY <2>1, <2>2, <2>3, <2>4, <2>5 DEF PrimitivesInv
<1>2. CASE ThreadsNext
  <2>1. PICK t \in Threads : ThreadStep(t) \/ SpuriousWake(t)
    BY <1>2 DEF ThreadsNext
  <2>2. use' = use
    BY <2>1 DEF ThreadStep, SpuriousWake, Uses1
  <2>3. CASE use.primitive = "once"
    <3>1. Once(t)
      BY <2>1, <2>3 DEF ThreadStep, SpuriousWake, Uses1
    <3> QED
      BY <2>2, <2>3, <3>1, OnceStep DEF PrimitivesInv
  <2>4. CASE use.primitive = "rwlock"
    <3>1. Rwlock(t)
      BY <2>1, <2>4 DEF ThreadStep, SpuriousWake, Uses1
    <3> QED
      BY <2>2, <2>4, <3>1, RwStep DEF PrimitivesInv
  <2>5. CASE use.primitive = "barrier"
    <3>1. Barrier(t)
      BY <2>1, <2>5 DEF ThreadStep, SpuriousWake, Uses1
    <3> QED
      BY <2>2, <2>5, <3>1, BarrierStep DEF PrimitivesInv
  <2>6. CASE use.primitive = "pthread_barrier" /\ use.rounds \in {0, 1}
    <3>1. PthreadArrive(t) \/ PthreadLeave(t) \/ PthreadWake(t)
      BY <2>1, <2>6 DEF ThreadStep, SpuriousWake, Uses1
    <3>2. PthreadInv
      BY <2>6 DEF PrimitivesInv
    <3>3. PthreadInv'
      BY <2>6, <3>1, <3>2, PthreadArriveStep, PthreadStayOrLeave
    <3> QED
      BY <2>2, <2>6, <3>3 DEF PrimitivesInv
  <2> QED
    BY <2>2, <2>3, <2>4, <2>5, <2>6 DEF PrimitivesInv
<1> QED
  BY <1>1, <1>2

LEMMA OnceInvIsEnough == OnceInv => OnceIsDone
  BY DEF OnceInv, OnceFacts, OnceIsDone

LEMMA RwInvIsEnough == RwInv => ReadersExcludeWriters
<1> SUFFICES ASSUME RwInv PROVE ReadersExcludeWriters
  OBVIOUS
<1> DEFINE readers == Inside({"reads", "uncounts"})
           writers == Inside({"writes"})
<1>1. RwFacts
  BY DEF RwInv
<1>2. Cardinality(writers) <= 1
  <2>1. CASE writers = {}
    BY <2>1, FS_EmptySet
  <2>2. CASE writers # {}
    <3>1. PICK t : writers = {t}
      BY <1>1, <2>2 DEF RwFacts, Inside
    <3> QED
      BY <3>1, FS_Singleton
  <2> QED
    BY <2>1, <2>2
<1>3. writers # {} => readers = {}
  BY <1>1 DEF RwFacts, Inside, Reading
<1>4. shared.write_semaphore = 1 => readers = {} /\ writers = {}
  BY <1>1 DEF RwFacts, Inside, Reading
<1> QED
  BY <1>2, <1>3, <1>4 DEF ReadersExcludeWriters

\* uv_once calls back once and lets nobody past before the callback has returned, the
\* read-write lock lets in a writer alone or readers only, and nobody leaves a barrier
\* before all have come, for any number of threads that come any number of times
\* (win/thread.c); the barrier of unix/thread.c, which has no generation, through one round.
THEOREM PrimitivesAlwaysHold ==
    ThreadsSpec => []((use.primitive = "pthread_barrier" => use.rounds \in {0, 1}) => PrimitivesHold)
<1>1. PrimitivesInv =>
          ((use.primitive = "pthread_barrier" => use.rounds \in {0, 1}) => PrimitivesHold)
  BY OnceInvIsEnough, RwInvIsEnough, BarrierInvIsEnough, PthreadInvIsEnough DEF PrimitivesInv, PrimitivesHold
<1>2. PrimitivesInv /\ [ThreadsNext]_threadVars => PrimitivesInv'
  BY NextInv
<1> QED
  BY <1>1, <1>2, InitInv, PTL DEF ThreadsSpec

=============================================================================
