----------------------------- MODULE UvppProofs -----------------------------
(***************************************************************************)
(* Lemmas about the wrappers of uvpp: what each call and each callback     *)
(* keeps of the record uv, for every set of servers, connections and       *)
(* timers.  The proofs about programs and servers rest on them.            *)
(***************************************************************************)
EXTENDS Uvpp, TLAPS

-----------------------------------------------------------------------------
\* The record uv, its fields of Streams and of Uvpp together.

States    == {"unborn", "open", "closing", "closed"}
Statuses  == {"ok", "data", "empty", "nobufs", "eof", "error"}
CallbackType == [kind : Kinds \cup {"none"}, handle : Handles \cup {"none"}, status : Statuses]

UvppType ==
    [state     : [Handles -> States],
     refs      : SUBSET Handles,
     active    : SUBSET Handles,
     backlog   : [Servers -> Nat],
     connected : SUBSET Conns,
     writable  : SUBSET Conns,
     readable  : SUBSET Conns,
     writes    : [Conns -> Nat],
     shutting  : SUBSET Conns,
     running   : BOOLEAN,
     stopped   : BOOLEAN,
     cb        : CallbackType,
     alive     : SUBSET Handles,
     isRunning : BOOLEAN,
     failed    : SUBSET Faults]

StreamsFields == {"state", "refs", "active", "backlog", "connected", "writable", "readable",
                  "writes", "shutting", "running", "stopped", "cb"}
UvppFields == {"alive", "isRunning", "failed"}

LEMMA FieldsAre == DOMAIN UvInit = StreamsFields /\ DOMAIN Added = UvppFields
  BY DEF UvInit, Added, StreamsFields, UvppFields

LEMMA InitIs ==
    UvppInit = [f \in StreamsFields \cup UvppFields |->
                   IF f \in UvppFields THEN Added[f] ELSE UvInit[f]]
  BY FieldsAre DEF UvppInit

LEMMA InitTyped == UvppInit \in UvppType
  BY InitIs DEF StreamsFields, UvppFields, Added, UvInit, UvppType, CallbackType, None, States, Statuses, Faults

LEMMA Typed ==
    ASSUME uv \in UvppType
    PROVE  UvppTypeOK
<1>1. [f \in DOMAIN UvInit |-> uv[f]] \in UvType
  BY FieldsAre DEF StreamsFields, UvType, UvppType, CallbackType, States, Statuses
<1> QED
  BY <1>1 DEF UvppTypeOK, UvppType

LEMMA KindsOfHandles == Servers \subseteq Handles /\ Conns \subseteq Handles /\ Timers \subseteq Handles
  BY DEF Handles

-----------------------------------------------------------------------------
\* What the fields say of each other, whatever the program.

Opened(U) == {h \in Handles : Open(U, h)}

\* What the loop links is alive and no deleted wrapper has been used; only what is
\* open is active, read or written; and a stream that owes its client a callback is a
\* connection the loop links.
Sound(U) ==
    /\ U \in UvppType
    /\ Queued(U) \subseteq U.alive
    /\ "deleted wrapper" \notin U.failed
    /\ U.active \subseteq Opened(U)
    /\ U.readable \cup U.writable \subseteq Opened(U) \cap U.connected
    /\ U.active \cap Conns \subseteq U.connected
    /\ \A c \in Conns : ~Answered(U, c) => c \in Queued(U) /\ c \in U.connected

\* A callback that has just begun is about a handle the library may tell of.
Begun(U) ==
    LET h == U.cb.handle IN
    /\ U.cb.kind = "connection" => /\ h \in Servers /\ Open(U, h)
                                   /\ U.cb.status \in {"ok", "error"}
                                   /\ U.cb.status = "ok" => U.backlog[h] > 0
    /\ U.cb.kind = "read" => /\ h \in Conns /\ Open(U, h) /\ h \in U.connected
                             /\ U.cb.status \in {"data", "empty"} => h \in U.active
    /\ U.cb.kind \in {"write", "shutdown"} => h \in Conns /\ h \in Queued(U) /\ h \in U.connected
    /\ U.cb.kind = "timer" => h \in Timers /\ Open(U, h)
    /\ U.cb.kind = "close" => h \in Handles /\ h \in U.alive /\ U.state[h] = "closed"

\* From U to V the handles stay what they are ...
Kept(U, V) == V.state = U.state /\ V.refs = U.refs /\ V.alive = U.alive /\ V.failed = U.failed

\* ... and the loop does what it did.
Went(U, V) == V.running = U.running /\ V.stopped = U.stopped /\ V.isRunning = U.isRunning

LEMMA KeptSound ==
    ASSUME NEW U, NEW V, Sound(U), V \in UvppType, Kept(U, V),
           V.active \subseteq Opened(U),
           V.readable \cup V.writable \subseteq Opened(U) \cap V.connected,
           V.active \cap Conns \subseteq V.connected,
           \A c \in Conns : ~Answered(V, c) => c \in Queued(U) /\ c \in V.connected
    PROVE  Sound(V)
<1>1. Opened(V) = Opened(U) /\ Queued(V) = Queued(U)
  BY DEF Kept, Opened, Queued, Open
<1> QED
  BY <1>1 DEF Sound, Kept

-----------------------------------------------------------------------------
\* The calls

LEMMA ReadStartSound ==
    ASSUME NEW U, Sound(U), NEW c \in Conns
    PROVE  LET V == UvReadStart(U, c)
           IN  /\ Sound(V) /\ Kept(U, V) /\ Went(U, V) /\ V.cb = U.cb /\ V.connected = U.connected
               /\ V.active = IF CanRead(U, c) THEN U.active \cup {c} ELSE U.active
<1> DEFINE V == UvReadStart(U, c)
<1>1. U \in UvppType /\ c \in Handles
  BY KindsOfHandles DEF Sound
<1>2. CASE CanRead(U, c)
  <2>1. V = [U EXCEPT !.active = @ \cup {c}]
    BY <1>2 DEF UvReadStart
  <2>2. /\ V \in UvppType /\ Kept(U, V) /\ Went(U, V) /\ V.cb = U.cb /\ V.connected = U.connected
        /\ V.readable = U.readable /\ V.writable = U.writable
        /\ V.writes = U.writes /\ V.shutting = U.shutting
        /\ V.active = U.active \cup {c}
    BY <1>1, <2>1 DEF UvppType, Kept, Went
  <2> HIDE DEF V
  <2>3. c \in Opened(U) /\ c \in U.connected
    BY <1>2 DEF CanRead, Sound
  <2>4. /\ V.active \subseteq Opened(U) /\ V.active \cap Conns \subseteq V.connected
        /\ V.readable \cup V.writable \subseteq Opened(U) \cap V.connected
        /\ \A d \in Conns : ~Answered(V, d) => d \in Queued(U) /\ d \in V.connected
    BY <2>2, <2>3 DEF Sound, Answered
  <2>9. Sound(V)
    BY <2>2, <2>4, KeptSound
  <2> QED
    BY <1>2, <2>2, <2>9 DEF V
<1>3. CASE ~CanRead(U, c)
  BY <1>3 DEF UvReadStart, Kept, Went
<1> QED
  BY <1>2, <1>3

LEMMA ReadStopSound ==
    ASSUME NEW U, Sound(U), NEW c
    PROVE  LET V == UvReadStop(U, c)
           IN  /\ Sound(V) /\ Kept(U, V) /\ Went(U, V) /\ V.cb = U.cb /\ V.connected = U.connected
               /\ V.active = U.active \ {c}
<1> DEFINE V == UvReadStop(U, c)
<1>0. U \in UvppType
  BY DEF Sound
<1>1. /\ V \in UvppType /\ Kept(U, V) /\ Went(U, V) /\ V.cb = U.cb /\ V.connected = U.connected
      /\ V.readable = U.readable /\ V.writable = U.writable
      /\ V.writes = U.writes /\ V.shutting = U.shutting
      /\ V.active = U.active \ {c}
  BY <1>0 DEF UvReadStop, UvppType, Kept, Went
<1> HIDE DEF V
<1>2. /\ V.active \subseteq Opened(U) /\ V.active \cap Conns \subseteq V.connected
      /\ V.readable \cup V.writable \subseteq Opened(U) \cap V.connected
      /\ \A d \in Conns : ~Answered(V, d) => d \in Queued(U) /\ d \in V.connected
  BY <1>1 DEF Sound, Answered
<1>9. Sound(V)
  BY <1>1, <1>2, KeptSound
<1> QED
  BY <1>1, <1>9 DEF V

LEMMA WriteSound ==
    ASSUME NEW U, Sound(U), NEW c \in Conns
    PROVE  LET V == UvWrite(U, c)
           IN  /\ Sound(V) /\ Kept(U, V) /\ Went(U, V) /\ V.cb = U.cb /\ V.connected = U.connected
               /\ V.active = U.active /\ V.shutting = U.shutting
<1> DEFINE V == UvWrite(U, c)
<1>0. U \in UvppType
  BY DEF Sound
<1>1. CASE c \in U.writable
  <2>1. V = [U EXCEPT !.writes[c] = @ + 1]
    BY <1>1 DEF UvWrite
  <2>2. U.writes[c] + 1 \in Nat
    BY <1>0 DEF UvppType
  <2>3. /\ V \in UvppType /\ Kept(U, V) /\ Went(U, V) /\ V.cb = U.cb /\ V.connected = U.connected
        /\ V.readable = U.readable /\ V.writable = U.writable /\ V.active = U.active
        /\ V.shutting = U.shutting
        /\ \A d \in Conns : d # c => V.writes[d] = U.writes[d]
    BY <1>0, <2>1, <2>2 DEF UvppType, Kept, Went
  <2> HIDE DEF V
  <2>4. c \in Queued(U) /\ c \in U.connected
    BY <1>1 DEF Sound, Opened, Queued, Open
  <2>5. /\ V.active \subseteq Opened(U) /\ V.active \cap Conns \subseteq V.connected
        /\ V.readable \cup V.writable \subseteq Opened(U) \cap V.connected
        /\ \A d \in Conns : ~Answered(V, d) => d \in Queued(U) /\ d \in V.connected
    BY <2>3, <2>4 DEF Sound, Answered
  <2>9. Sound(V)
    BY <2>3, <2>5, KeptSound
  <2> QED
    BY <2>3, <2>9 DEF V
<1>2. CASE c \notin U.writable
  BY <1>2 DEF UvWrite, Kept, Went
<1> QED
  BY <1>1, <1>2

LEMMA ShutdownSound ==
    ASSUME NEW U, Sound(U), NEW c \in Conns
    PROVE  LET V == UvShutdown(U, c)
           IN  /\ Sound(V) /\ Kept(U, V) /\ Went(U, V) /\ V.cb = U.cb /\ V.connected = U.connected
               /\ V.active = U.active
<1> DEFINE V == UvShutdown(U, c)
<1>0. U \in UvppType
  BY DEF Sound
<1>1. CASE c \in U.writable
  <2>1. V = [U EXCEPT !.writable = @ \ {c}, !.shutting = @ \cup {c}]
    BY <1>1 DEF UvShutdown
  <2>1a. U.writable \ {c} \in SUBSET Conns /\ U.shutting \cup {c} \in SUBSET Conns
    BY <1>0 DEF UvppType
  <2>2. /\ V \in UvppType /\ Kept(U, V) /\ Went(U, V) /\ V.cb = U.cb /\ V.connected = U.connected
        /\ V.readable = U.readable /\ V.writable = U.writable \ {c} /\ V.active = U.active
        /\ V.writes = U.writes /\ V.shutting = U.shutting \cup {c}
    BY <1>0, <2>1, <2>1a DEF UvppType, Kept, Went
  <2> HIDE DEF V
  <2>3. c \in Queued(U) /\ c \in U.connected
    BY <1>1 DEF Sound, Opened, Queued, Open
  <2>4. /\ V.active \subseteq Opened(U) /\ V.active \cap Conns \subseteq V.connected
        /\ V.readable \cup V.writable \subseteq Opened(U) \cap V.connected
        /\ \A d \in Conns : ~Answered(V, d) => d \in Queued(U) /\ d \in V.connected
    BY <2>2, <2>3 DEF Sound, Answered
  <2>9. Sound(V)
    BY <2>2, <2>4, KeptSound
  <2> QED
    BY <2>2, <2>9 DEF V
<1>2. CASE c \notin U.writable
  BY <1>2 DEF UvShutdown, Kept, Went
<1> QED
  BY <1>1, <1>2

\* uv_timer_start and uv_listen: something of its own is active.
LEMMA ListenIs == \A U, s : UvListen(U, s) = UvTimerStart(U, s)
  BY DEF UvListen, UvTimerStart

LEMMA StartSound ==
    ASSUME NEW U, Sound(U), NEW h \in Servers \cup Timers, h \notin Conns, Open(U, h)
    PROVE  LET V == UvTimerStart(U, h)
           IN  /\ Sound(V) /\ Kept(U, V) /\ Went(U, V) /\ V.cb = U.cb /\ V.connected = U.connected
               /\ V.active = U.active \cup {h} /\ V.backlog = U.backlog /\ V.shutting = U.shutting
               /\ V.writes = U.writes
<1> DEFINE V == UvTimerStart(U, h)
<1>0. U \in UvppType
  BY DEF Sound
<1>1. h \in Handles
  BY KindsOfHandles
<1>2. /\ V \in UvppType /\ Kept(U, V) /\ Went(U, V) /\ V.cb = U.cb /\ V.connected = U.connected
      /\ V.readable = U.readable /\ V.writable = U.writable /\ V.active = U.active \cup {h}
      /\ V.writes = U.writes /\ V.shutting = U.shutting /\ V.backlog = U.backlog
  BY <1>0, <1>1 DEF UvTimerStart, UvppType, Kept, Went
<1> HIDE DEF V
<1>3. h \in Opened(U)
  BY <1>1 DEF Opened
<1>4. /\ V.active \subseteq Opened(U) /\ V.active \cap Conns \subseteq V.connected
      /\ V.readable \cup V.writable \subseteq Opened(U) \cap V.connected
      /\ \A d \in Conns : ~Answered(V, d) => d \in Queued(U) /\ d \in V.connected
  BY <1>2, <1>3 DEF Sound, Answered
<1>9. Sound(V)
  BY <1>2, <1>4, KeptSound
<1> QED
  BY <1>2, <1>9 DEF V

LEMMA AcceptSound ==
    ASSUME NEW U, Sound(U), NEW s \in Servers, NEW c \in Conns, NEW ok \in BOOLEAN,
           U.backlog[s] > 0, Open(U, c)
    PROVE  LET V == UvAccept(U, s, c, ok)
           IN  /\ Sound(V) /\ Kept(U, V) /\ Went(U, V) /\ V.cb = U.cb
               /\ V.connected = IF ok THEN U.connected \cup {c} ELSE U.connected
               /\ V.active = U.active /\ V.shutting = U.shutting
               /\ ok => c \in V.readable
<1> DEFINE V == UvAccept(U, s, c, ok)
           C == IF ok THEN {c} ELSE {}
<1>0. U \in UvppType
  BY DEF Sound
<1>1. U.backlog[s] - 1 \in Nat
  BY <1>0 DEF UvppType
<1>2. /\ V \in UvppType /\ Kept(U, V) /\ Went(U, V) /\ V.cb = U.cb
      /\ V.connected = U.connected \cup C /\ V.readable = U.readable \cup C
      /\ V.writable = U.writable \cup C /\ V.active = U.active
      /\ V.writes = U.writes /\ V.shutting = U.shutting
  <2>1. CASE ok
    BY <1>0, <1>1, <2>1 DEF UvAccept, UvppType, Kept, Went
  <2>2. CASE ~ok
    BY <1>0, <1>1, <2>2 DEF UvAccept, UvppType, Kept, Went
  <2> QED
    BY <2>1, <2>2
<1> HIDE DEF V
<1>3. c \in Opened(U)
  BY KindsOfHandles DEF Opened
<1>4. /\ V.active \subseteq Opened(U) /\ V.active \cap Conns \subseteq V.connected
      /\ V.readable \cup V.writable \subseteq Opened(U) \cap V.connected
      /\ \A d \in Conns : ~Answered(V, d) => d \in Queued(U) /\ d \in V.connected
  BY <1>2, <1>3 DEF Sound, Answered
<1>9. Sound(V)
  BY <1>2, <1>4, KeptSound
<1> QED
  BY <1>2, <1>9 DEF V

LEMMA UsingIs ==
    ASSUME NEW U, NEW h, h \in U.alive
    PROVE  Using(U, h) = U
  BY DEF Using, Check

\* A check that fails leaves its name, and nothing else.
Fails(U, n) == [U EXCEPT !.failed = @ \cup {n}]

LEMMA FailSound ==
    ASSUME NEW U, Sound(U), NEW n \in Faults \ {"deleted wrapper"}
    PROVE  LET V == Fails(U, n)
           IN  /\ Sound(V) /\ Went(U, V) /\ V.cb = U.cb
               /\ V.state = U.state /\ V.refs = U.refs /\ V.alive = U.alive /\ V.active = U.active
               /\ V.connected = U.connected /\ V.readable = U.readable /\ V.writes = U.writes
               /\ V.shutting = U.shutting /\ V.backlog = U.backlog
               /\ V.failed = U.failed \cup {n}
<1> DEFINE V == Fails(U, n)
<1>0. U \in UvppType
  BY DEF Sound
<1>1. U.failed \cup {n} \in SUBSET Faults
  BY <1>0 DEF UvppType
<1>2. /\ V \in UvppType /\ Went(U, V) /\ V.cb = U.cb
      /\ V.state = U.state /\ V.refs = U.refs /\ V.alive = U.alive /\ V.active = U.active
      /\ V.connected = U.connected /\ V.readable = U.readable /\ V.writable = U.writable
      /\ V.writes = U.writes /\ V.shutting = U.shutting /\ V.backlog = U.backlog
      /\ V.failed = U.failed \cup {n}
  BY <1>0, <1>1 DEF Fails, UvppType, Went
<1> HIDE DEF V
<1>3. Opened(V) = Opened(U) /\ Queued(V) = Queued(U) /\ \A c \in Conns : Answered(V, c) <=> Answered(U, c)
  BY <1>2 DEF Opened, Queued, Open, Answered
<1>4. Sound(V)
  BY <1>2, <1>3 DEF Sound
<1> QED
  BY <1>2, <1>4 DEF V

LEMMA NewSound ==
    ASSUME NEW U, Sound(U), NEW h \in Handles, U.state[h] = "unborn"
    PROVE  LET V == New(U, h)
           IN  /\ Sound(V) /\ Went(U, V) /\ V.cb = U.cb
               /\ V.state = [U.state EXCEPT ![h] = "open"] /\ V.state[h] = "open"
               /\ V.refs = U.refs \cup {h} /\ V.alive = U.alive \cup {h} /\ V.active = U.active
               /\ V.connected = U.connected /\ V.failed = U.failed /\ V.backlog = U.backlog
               /\ V.shutting = U.shutting /\ V.writes = U.writes
<1> DEFINE V == New(U, h)
<1>0. U \in UvppType /\ U.state \in [Handles -> States]
  BY DEF Sound, UvppType
<1>1. V = [[U EXCEPT !.alive = @ \cup {h}] EXCEPT !.state[h] = "open", !.refs = @ \cup {h}]
  BY DEF New, UvOpen
<1>1a. V = [U EXCEPT !.state = [U.state EXCEPT ![h] = "open"], !.refs = U.refs \cup {h}, !.alive = U.alive \cup {h}]
  BY <1>0, <1>1 DEF UvppType
<1>2. /\ U.alive \cup {h} \in SUBSET Handles /\ U.refs \cup {h} \in SUBSET Handles
      /\ [U.state EXCEPT ![h] = "open"] \in [Handles -> States]
  BY <1>0 DEF UvppType, States
<1>3. /\ V \in UvppType /\ Went(U, V) /\ V.cb = U.cb
      /\ V.state = [U.state EXCEPT ![h] = "open"]
      /\ V.refs = U.refs \cup {h} /\ V.alive = U.alive \cup {h} /\ V.active = U.active
      /\ V.connected = U.connected /\ V.failed = U.failed /\ V.backlog = U.backlog
      /\ V.readable = U.readable /\ V.writable = U.writable
      /\ V.writes = U.writes /\ V.shutting = U.shutting
  BY <1>0, <1>1a, <1>2 DEF UvppType, Went
<1> HIDE DEF V
<1>4. /\ V.state[h] = "open" /\ \A g \in Handles \ {h} : V.state[g] = U.state[g]
  BY <1>0, <1>3
<1>5. /\ Opened(U) \subseteq Opened(V) /\ Queued(V) = Queued(U) \cup {h}
      /\ \A c \in Conns : Answered(V, c) <=> Answered(U, c)
  BY <1>3, <1>4 DEF Opened, Queued, Open, Answered
<1>6. Sound(V)
  BY <1>3, <1>5 DEF Sound
<1> QED
  BY <1>3, <1>4, <1>6 DEF V

\* What has become of a connection just created, whether it was accepted or not.
Admitted(U, V, c) ==
    /\ Sound(V) /\ Went(U, V) /\ V.cb = U.cb
    /\ \A g \in Handles : V.state[g] = IF g = c THEN "open" ELSE U.state[g]
    /\ V.refs = U.refs \cup {c} /\ V.active = U.active /\ V.failed = U.failed

LEMMA AdmitSound ==
    ASSUME NEW U, Sound(U), NEW s \in Servers, U.backlog[s] > 0, NEW c \in Conns, U.state[c] = "unborn",
           NEW ok \in BOOLEAN
    PROVE  LET V == UvAccept(New(U, c), s, c, ok)
           IN  /\ Admitted(U, V, c)
               /\ V.connected = IF ok THEN U.connected \cup {c} ELSE U.connected
               /\ ok => c \in V.readable
<1> DEFINE W == New(U, c)
           V == UvAccept(W, s, c, ok)
<1>0. c \in Handles /\ U.state \in [Handles -> States]
  BY KindsOfHandles DEF Sound, UvppType
<1>1. /\ Sound(W) /\ Went(U, W) /\ W.cb = U.cb
      /\ W.state = [U.state EXCEPT ![c] = "open"] /\ W.state[c] = "open"
      /\ W.refs = U.refs \cup {c} /\ W.active = U.active
      /\ W.connected = U.connected /\ W.failed = U.failed /\ W.backlog = U.backlog
  BY <1>0, NewSound
<1> HIDE DEF W
<1>2. /\ Sound(V) /\ Kept(W, V) /\ Went(W, V) /\ V.cb = W.cb /\ V.active = W.active
      /\ V.connected = IF ok THEN W.connected \cup {c} ELSE W.connected
      /\ ok => c \in V.readable
  BY <1>0, <1>1, AcceptSound DEF Open
<1> HIDE DEF V
<1>3. \A g \in Handles : V.state[g] = IF g = c THEN "open" ELSE U.state[g]
  <2>1. V.state = W.state
    BY <1>2 DEF Kept
  <2> QED
    BY <1>0, <1>1, <2>1
<1>4. Went(U, V)
  BY <1>1, <1>2 DEF Went
<1>5. Admitted(U, V, c)
  BY <1>1, <1>2, <1>3, <1>4 DEF Admitted, Kept
<1> QED
  BY <1>1, <1>2, <1>5 DEF V, W

-----------------------------------------------------------------------------
\* DelayDelete

\* What becomes of the handles that DelayDelete closes, those of O.
ClosesThem(U, V, O) ==
    /\ Sound(V) /\ Went(U, V) /\ V.cb = U.cb
    /\ \A h \in Handles : V.state[h] = IF h \in O THEN "closing" ELSE U.state[h]
    /\ V.refs = U.refs /\ V.alive = U.alive /\ V.active = U.active \ O
    /\ V.connected = U.connected /\ V.shutting = U.shutting /\ V.writes = U.writes
    /\ V.backlog = U.backlog

LEMMA ClosesSound ==
    ASSUME NEW U, Sound(U), NEW O \in SUBSET Opened(U),
           NEW V, V = [U EXCEPT !.state = [h \in Handles |-> IF h \in O THEN "closing" ELSE @[h]],
                                !.active = @ \ O, !.writable = @ \ O, !.readable = @ \ O]
    PROVE  ClosesThem(U, V, O) /\ V.failed = U.failed
<1>0. U \in UvppType /\ U.state \in [Handles -> States]
  BY DEF Sound, UvppType
<1> DEFINE S == [h \in Handles |-> IF h \in O THEN "closing" ELSE U.state[h]]
<1>1. S \in [Handles -> States]
  BY <1>0 DEF States
<1>2. /\ U.active \ O \in SUBSET Handles /\ U.writable \ O \in SUBSET Conns /\ U.readable \ O \in SUBSET Conns
  BY <1>0 DEF UvppType
<1>3. V = [U EXCEPT !.state = S, !.active = @ \ O, !.writable = @ \ O, !.readable = @ \ O]
  OBVIOUS
<1> HIDE DEF S
<1>4. /\ V \in UvppType /\ Went(U, V) /\ V.cb = U.cb /\ V.state = S
      /\ V.refs = U.refs /\ V.alive = U.alive /\ V.active = U.active \ O
      /\ V.connected = U.connected /\ V.failed = U.failed
      /\ V.readable = U.readable \ O /\ V.writable = U.writable \ O
      /\ V.writes = U.writes /\ V.shutting = U.shutting /\ V.backlog = U.backlog
  BY <1>0, <1>1, <1>2, <1>3 DEF UvppType, Went
<1>5. \A h \in Handles : V.state[h] = IF h \in O THEN "closing" ELSE U.state[h]
  BY <1>4 DEF S
<1>6. /\ Opened(V) = Opened(U) \ O /\ Queued(V) = Queued(U)
      /\ \A c \in Conns : Answered(V, c) <=> Answered(U, c)
  BY <1>4, <1>5 DEF Opened, Queued, Open, Answered
<1>7. Sound(V)
  BY <1>4, <1>6 DEF Sound
<1> QED
  BY <1>4, <1>5, <1>7 DEF ClosesThem

LEMMA DelayDeleteEachSound ==
    ASSUME NEW U, Sound(U), U.isRunning, NEW S \in SUBSET U.alive
    PROVE  LET V == DelayDeleteEach(U, S)
               O == S \cap Opened(U)
           IN  ClosesThem(U, V, O)
               /\ V.failed = IF O = S THEN U.failed ELSE U.failed \cup {"uv_close: not closing"}
<1> DEFINE O == S \cap Opened(U)
           W == [U EXCEPT !.state = [h \in Handles |-> IF h \in O THEN "closing" ELSE @[h]],
                          !.active = @ \ O, !.writable = @ \ O, !.readable = @ \ O]
           V == DelayDeleteEach(U, S)
<1>0. U \in UvppType /\ S \subseteq Handles
  BY DEF Sound, UvppType
<1>1. {h \in S : Open(U, h)} = O
  BY <1>0 DEF Opened
<1>2. Check(U, "deleted wrapper", S \subseteq U.alive) = U
  BY DEF Check
<1> DEFINE e == O = S
<1>3. V = Check(W, "uv_close: not closing", e)
  BY <1>1, <1>2 DEF DelayDeleteEach
<1>4. ClosesThem(U, W, O) /\ W.failed = U.failed
  BY ClosesSound
<1>4a. Sound(W)
  BY <1>4 DEF ClosesThem
<1> HIDE DEF W, O, e
<1>5. "uv_close: not closing" \in Faults \ {"deleted wrapper"}
  BY DEF Faults
<1>6. /\ Sound(V) /\ Went(W, V) /\ V.cb = W.cb
      /\ V.state = W.state /\ V.refs = W.refs /\ V.alive = W.alive /\ V.active = W.active
      /\ V.connected = W.connected /\ V.shutting = W.shutting /\ V.writes = W.writes
      /\ V.backlog = W.backlog
      /\ V.failed = IF e THEN W.failed ELSE W.failed \cup {"uv_close: not closing"}
  <2>1. CASE e
    <3>1. V = W
      BY <1>3, <2>1 DEF Check
    <3> QED
      BY <1>4a, <2>1, <3>1 DEF Went
  <2>2. CASE ~e
    <3>1. V = Fails(W, "uv_close: not closing")
      BY <1>3, <2>2 DEF Check, Fails
    <3> HIDE DEF V
    <3> QED
      BY <1>4a, <1>5, <2>2, <3>1, FailSound
  <2> QED
    BY <2>1, <2>2
<1> HIDE DEF V
<1>7. ClosesThem(U, V, O)
  BY <1>4, <1>6 DEF ClosesThem, Went
<1> QED
  BY <1>4, <1>6, <1>7 DEF O, V, e

\* DelayDelete of one wrapper is that of a set of one.
LEMMA DelayDeleteIs ==
    ASSUME NEW U \in UvppType, NEW h \in Handles
    PROVE  DelayDelete(U, h) = DelayDeleteEach(U, {h})
<1> DEFINE V == Using(U, h)
<1>1. V = Check(U, "deleted wrapper", {h} \subseteq U.alive)
  BY DEF Using, Check
<1>2. V \in UvppType /\ V.state = U.state
  BY DEF Using, Check, UvppType, Faults
<1>3. {g \in {h} : Open(U, g)} = IF Open(V, h) THEN {h} ELSE {}
  BY <1>2 DEF Open
<1> HIDE DEF V
<1>4. CASE ~V.isRunning
  <2>1. CASE h \in Timers
    <3>1. {h} \cap Timers = {h}
      BY <2>1
    <3>2. DelayDelete(U, h) = [[V EXCEPT !.active = @ \ {h}] EXCEPT !.alive = @ \ {h}]
      BY <1>4, <2>1 DEF DelayDelete, Delete, UvTimerStop, V
    <3>3. DelayDeleteEach(U, {h}) = [V EXCEPT !.alive = @ \ {h}, !.active = @ \ {h}]
      BY <1>1, <1>4, <3>1 DEF DelayDeleteEach
    <3> QED
      BY <1>2, <3>2, <3>3 DEF UvppType
  <2>2. CASE h \notin Timers
    <3>1. {h} \cap Timers = {}
      BY <2>2
    <3>2. DelayDelete(U, h) = [V EXCEPT !.alive = @ \ {h}]
      BY <1>4, <2>2 DEF DelayDelete, Delete, V
    <3>3. DelayDeleteEach(U, {h}) = [V EXCEPT !.alive = @ \ {h}, !.active = @ \ {}]
      BY <1>1, <1>4, <3>1 DEF DelayDeleteEach
    <3>4. V.active \ {} = V.active
      OBVIOUS
    <3>5. [V EXCEPT !.alive = @ \ {h}, !.active = @ \ {}] = [V EXCEPT !.alive = @ \ {h}, !.active = V.active]
      BY <1>2, <3>4 DEF UvppType
    <3>6. [V EXCEPT !.alive = @ \ {h}, !.active = V.active] = [V EXCEPT !.alive = @ \ {h}]
      BY <1>2 DEF UvppType
    <3> QED
      BY <3>2, <3>3, <3>5, <3>6
  <2> QED
    BY <2>1, <2>2
<1>5. CASE V.isRunning /\ Open(V, h)
  <2>1. DelayDelete(U, h) = UvClose(V, h)
    BY <1>5 DEF DelayDelete, V
  <2>2. [V.state EXCEPT ![h] = "closing"] = [g \in Handles |-> IF g \in {h} THEN "closing" ELSE V.state[g]]
    BY <1>2 DEF UvppType
  <2>3. DelayDeleteEach(U, {h}) =
        [V EXCEPT !.state = [g \in Handles |-> IF g \in {h} THEN "closing" ELSE @[g]],
                  !.active = @ \ {h}, !.writable = @ \ {h}, !.readable = @ \ {h}]
    BY <1>1, <1>3, <1>5 DEF DelayDeleteEach, Check
  <2> QED
    BY <1>2, <2>1, <2>2, <2>3 DEF UvClose, UvppType
<1>6. CASE V.isRunning /\ ~Open(V, h)
  <2>1. DelayDelete(U, h) = Check(V, "uv_close: not closing", FALSE)
    BY <1>6 DEF DelayDelete, V
  <2> DEFINE W == [V EXCEPT !.state = [g \in Handles |-> IF g \in {} THEN "closing" ELSE @[g]],
                            !.active = @ \ {}, !.writable = @ \ {}, !.readable = @ \ {}]
  <2>2. DelayDeleteEach(U, {h}) = Check(W, "uv_close: not closing", FALSE)
    BY <1>1, <1>3, <1>6 DEF DelayDeleteEach
  <2>3. [g \in Handles |-> IF g \in {} THEN "closing" ELSE V.state[g]] = V.state
    BY <1>2 DEF UvppType
  <2>4. W = V
    BY <1>2, <2>3 DEF UvppType
  <2> QED
    BY <2>1, <2>2, <2>4
<1> QED
  BY <1>4, <1>5, <1>6

LEMMA DelayDeleteSound ==
    ASSUME NEW U, Sound(U), U.isRunning, NEW h \in U.alive
    PROVE  LET V == DelayDelete(U, h)
           IN  /\ ClosesThem(U, V, {h} \cap Opened(U))
               /\ V.failed = IF Open(U, h) THEN U.failed ELSE U.failed \cup {"uv_close: not closing"}
<1>1. U \in UvppType /\ h \in Handles /\ {h} \in SUBSET U.alive
  BY DEF Sound, UvppType
<1>2. Open(U, h) <=> {h} \cap Opened(U) = {h}
  BY <1>1 DEF Opened
<1>3. DelayDelete(U, h) = DelayDeleteEach(U, {h})
  BY <1>1, DelayDeleteIs
<1> QED
  BY <1>1, <1>2, <1>3, DelayDeleteEachSound

-----------------------------------------------------------------------------
\* The callbacks

\* The library has begun a callback of kind about h, and changed nothing else but what
\* it tells: a handle is closed, a request answered, something is not active any longer.
Told(U, V, kind, h) ==
    /\ U.running /\ U.cb = None
    /\ Sound(V) /\ Begun(V) /\ Went(U, V)
    /\ V.cb.kind = kind /\ V.cb.handle = h
    /\ \A g \in Handles : V.state[g] = IF kind = "close" /\ g = h THEN "closed" ELSE U.state[g]
    /\ V.refs = U.refs /\ V.alive = U.alive /\ V.failed = U.failed /\ V.connected = U.connected
    /\ V.shutting \subseteq U.shutting /\ V.readable \subseteq U.readable
    /\ V.active \subseteq U.active /\ U.active \subseteq V.active \cup {h}

LEMMA BeginsIs ==
    ASSUME NEW U \in UvppType, NEW kind \in Kinds, NEW h \in Handles, NEW status \in Statuses,
           NEW V, V = Begins(U, kind, h, status)
    PROVE  /\ V \in UvppType /\ Kept(U, V) /\ Went(U, V)
           /\ V.cb.kind = kind /\ V.cb.handle = h /\ V.cb.status = status
           /\ V.active = U.active /\ V.backlog = U.backlog /\ V.connected = U.connected
           /\ V.writable = U.writable /\ V.readable = U.readable
           /\ V.writes = U.writes /\ V.shutting = U.shutting
  BY DEF Begins, UvppType, CallbackType, Kept, Went

LEMMA ConnectionTold ==
    ASSUME Sound(uv), NEW s \in Servers, Connection(s), s \notin Conns
    PROVE  Told(uv, uv', "connection", s)
<1>0. uv \in UvppType /\ s \in Handles /\ uv.running /\ uv.cb = None /\ Open(uv, s)
  BY KindsOfHandles DEF Sound, Connection, InLoop
<1>1. PICK ok \in BOOLEAN :
         /\ uv' = Begins(IF ok THEN [uv EXCEPT !.backlog[s] = @ + 1] ELSE [uv EXCEPT !.active = @ \ {s}],
                         "connection", s, IF ok THEN "ok" ELSE "error")
         /\ ~ok => s \in uv.active
  BY DEF Connection
<1> DEFINE U == IF ok THEN [uv EXCEPT !.backlog[s] = @ + 1] ELSE [uv EXCEPT !.active = @ \ {s}]
           status == IF ok THEN "ok" ELSE "error"
<1>2. uv.backlog[s] + 1 \in Nat /\ uv.active \ {s} \in SUBSET Handles
  BY <1>0 DEF UvppType
<1>3. /\ U \in UvppType /\ Kept(uv, U) /\ Went(uv, U) /\ (ok => U.backlog[s] = uv.backlog[s] + 1)
      /\ U.active = IF ok THEN uv.active ELSE uv.active \ {s}
      /\ U.connected = uv.connected /\ U.writable = uv.writable /\ U.readable = uv.readable
      /\ U.writes = uv.writes /\ U.shutting = uv.shutting
  <2>1. CASE ok
    BY <1>0, <1>2, <2>1 DEF UvppType, Kept, Went
  <2>2. CASE ~ok
    BY <1>0, <1>2, <2>2 DEF UvppType, Kept, Went
  <2> QED
    BY <2>1, <2>2
<1>4. uv' = Begins(U, "connection", s, status) /\ status \in Statuses /\ "connection" \in Kinds
  BY <1>1 DEF Statuses, Kinds
<1> HIDE DEF U
<1>5. /\ uv' \in UvppType /\ Kept(uv, uv') /\ Went(uv, uv')
      /\ uv'.cb.kind = "connection" /\ uv'.cb.handle = s /\ uv'.cb.status = status
      /\ ok => uv'.backlog[s] = uv.backlog[s] + 1
      /\ uv'.active = IF ok THEN uv.active ELSE uv.active \ {s}
      /\ uv'.connected = uv.connected /\ uv'.writable = uv.writable /\ uv'.readable = uv.readable
      /\ uv'.writes = uv.writes /\ uv'.shutting = uv.shutting
  <2> HIDE DEF status
  <2>1. U \in UvppType /\ s \in Handles
    BY <1>0, <1>3
  <2>2. /\ uv' \in UvppType /\ Kept(U, uv') /\ Went(U, uv')
        /\ uv'.cb.kind = "connection" /\ uv'.cb.handle = s /\ uv'.cb.status = status
        /\ uv'.active = U.active /\ uv'.backlog = U.backlog /\ uv'.connected = U.connected
        /\ uv'.writable = U.writable /\ uv'.readable = U.readable
        /\ uv'.writes = U.writes /\ uv'.shutting = U.shutting
    BY <1>4, <2>1, BeginsIs
  <2> QED
    BY <1>3, <2>2 DEF Kept, Went
<1>6. /\ uv'.active \subseteq Opened(uv) /\ uv'.active \cap Conns \subseteq uv'.connected
      /\ uv'.readable \cup uv'.writable \subseteq Opened(uv) \cap uv'.connected
      /\ \A c \in Conns : ~Answered(uv', c) => c \in Queued(uv) /\ c \in uv'.connected
  BY <1>5 DEF Sound, Answered
<1>7. Sound(uv')
  BY <1>5, <1>6, KeptSound
<1>8. Begun(uv')
  <2>1. ok => uv'.backlog[s] > 0
    BY <1>0, <1>5 DEF UvppType
  <2> QED
    BY <1>0, <1>5, <2>1 DEF Begun, Open, Kept
<1> QED
  BY <1>0, <1>5, <1>7, <1>8 DEF Told, Kept

LEMMA ReadTold ==
    ASSUME Sound(uv), NEW c \in Conns, Read(c)
    PROVE  /\ Told(uv, uv', "read", c)
           /\ uv'.cb.status \in {"data", "empty"} => uv'.active = uv.active
<1>0. /\ uv \in UvppType /\ c \in Handles /\ uv.running /\ uv.cb = None /\ Open(uv, c)
      /\ c \in uv.active /\ c \in uv.connected
  BY KindsOfHandles DEF Sound, Read, ReadCallback, InLoop
<1>1. PICK A \in {uv.active, uv.active \ {c}}, R \in {uv.readable, uv.readable \ {c}}, status \in Statuses :
         /\ uv' = Begins([uv EXCEPT !.active = A, !.readable = R], "read", c, status)
         /\ status \in {"data", "empty"} => A = uv.active
  <2>1. CASE \E status \in {"data", "empty", "nobufs"} : uv' = Begins(uv, "read", c, status)
    <3>1. uv = [uv EXCEPT !.active = uv.active, !.readable = uv.readable]
      BY <1>0 DEF UvppType
    <3> QED
      BY <2>1, <3>1 DEF Statuses
  <2>2. CASE uv' = Begins([uv EXCEPT !.active = @ \ {c}, !.readable = @ \ {c}], "read", c, "eof")
    BY <2>2 DEF Statuses
  <2>3. CASE uv' = Begins([uv EXCEPT !.active = @ \ {c}], "read", c, "error")
    <3>1. [uv EXCEPT !.active = @ \ {c}] = [uv EXCEPT !.active = uv.active \ {c}, !.readable = uv.readable]
      BY <1>0 DEF UvppType
    <3> QED
      BY <2>3, <3>1 DEF Statuses
  <2> QED
    BY <2>1, <2>2, <2>3 DEF Read, ReadCallback
<1> DEFINE U == [uv EXCEPT !.active = A, !.readable = R]
<1>2. /\ A \in SUBSET Handles /\ R \in SUBSET Conns /\ A \subseteq uv.active /\ R \subseteq uv.readable
      /\ uv.active \subseteq A \cup {c}
  BY <1>0 DEF UvppType
<1>3. /\ U \in UvppType /\ Kept(uv, U) /\ Went(uv, U) /\ U.active = A /\ U.readable = R
      /\ U.connected = uv.connected /\ U.writable = uv.writable
      /\ U.writes = uv.writes /\ U.shutting = uv.shutting
  BY <1>0, <1>2 DEF UvppType, Kept, Went
<1>4. uv' = Begins(U, "read", c, status) /\ "read" \in Kinds
  BY <1>1 DEF Kinds
<1> HIDE DEF U
<1>5. /\ uv' \in UvppType /\ Kept(uv, uv') /\ Went(uv, uv')
      /\ uv'.cb.kind = "read" /\ uv'.cb.handle = c /\ uv'.cb.status = status
      /\ uv'.active = A /\ uv'.readable = R
      /\ uv'.connected = uv.connected /\ uv'.writable = uv.writable
      /\ uv'.writes = uv.writes /\ uv'.shutting = uv.shutting
  <2>1. U \in UvppType /\ c \in Handles
    BY <1>0, <1>3
  <2>2. /\ uv' \in UvppType /\ Kept(U, uv') /\ Went(U, uv')
        /\ uv'.cb.kind = "read" /\ uv'.cb.handle = c /\ uv'.cb.status = status
        /\ uv'.active = U.active /\ uv'.backlog = U.backlog /\ uv'.connected = U.connected
        /\ uv'.writable = U.writable /\ uv'.readable = U.readable
        /\ uv'.writes = U.writes /\ uv'.shutting = U.shutting
    BY <1>4, <2>1, BeginsIs
  <2> QED
    BY <1>3, <2>2 DEF Kept, Went
<1>6. /\ uv'.active \subseteq Opened(uv) /\ uv'.active \cap Conns \subseteq uv'.connected
      /\ uv'.readable \cup uv'.writable \subseteq Opened(uv) \cap uv'.connected
      /\ \A d \in Conns : ~Answered(uv', d) => d \in Queued(uv) /\ d \in uv'.connected
  BY <1>2, <1>5 DEF Sound, Answered
<1>7. Sound(uv')
  BY <1>5, <1>6, KeptSound
<1>8. Begun(uv')
  BY <1>0, <1>1, <1>5 DEF Begun, Open, Kept
<1> QED
  BY <1>0, <1>1, <1>2, <1>5, <1>7, <1>8 DEF Told, Kept

LEMMA WrittenTold ==
    ASSUME Sound(uv), NEW c \in Conns, Written(c)
    PROVE  Told(uv, uv', "write", c) /\ uv'.active = uv.active
<1>0. /\ uv \in UvppType /\ c \in Handles /\ uv.running /\ uv.cb = None
      /\ uv.writes[c] > 0
  BY KindsOfHandles DEF Sound, Written, InLoop
<1>0a. uv.writes[c] \in Nat /\ uv.writes[c] - 1 \in Nat /\ uv.writes[c] # 0
  <2>1. uv.writes[c] \in Nat
    BY <1>0 DEF UvppType
  <2> QED
    BY <1>0, <2>1
<1>1. PICK status \in Statuses : uv' = Begins([uv EXCEPT !.writes[c] = @ - 1], "write", c, status)
  BY DEF Written, Statuses
<1> DEFINE U == [uv EXCEPT !.writes[c] = @ - 1]
<1>3. /\ U \in UvppType /\ Kept(uv, U) /\ Went(uv, U) /\ U.active = uv.active /\ U.readable = uv.readable
      /\ U.connected = uv.connected /\ U.writable = uv.writable
      /\ U.shutting = uv.shutting
      /\ \A d \in Conns \ {c} : U.writes[d] = uv.writes[d]
  BY <1>0, <1>0a DEF UvppType, Kept, Went
<1>4. uv' = Begins(U, "write", c, status) /\ "write" \in Kinds
  BY <1>1 DEF Kinds
<1> HIDE DEF U
<1>5. /\ uv' \in UvppType /\ Kept(uv, uv') /\ Went(uv, uv')
      /\ uv'.cb.kind = "write" /\ uv'.cb.handle = c
      /\ uv'.active = uv.active /\ uv'.readable = uv.readable
      /\ uv'.connected = uv.connected /\ uv'.writable = uv.writable
      /\ uv'.shutting = uv.shutting
      /\ \A d \in Conns \ {c} : uv'.writes[d] = uv.writes[d]
  <2>1. U \in UvppType /\ c \in Handles
    BY <1>0, <1>3
  <2>2. /\ uv' \in UvppType /\ Kept(U, uv') /\ Went(U, uv')
        /\ uv'.cb.kind = "write" /\ uv'.cb.handle = c /\ uv'.cb.status = status
        /\ uv'.active = U.active /\ uv'.backlog = U.backlog /\ uv'.connected = U.connected
        /\ uv'.writable = U.writable /\ uv'.readable = U.readable
        /\ uv'.writes = U.writes /\ uv'.shutting = U.shutting
    BY <1>4, <2>1, BeginsIs
  <2> QED
    BY <1>3, <2>2 DEF Kept, Went
<1>5a. c \in Queued(uv) /\ c \in uv.connected
  BY <1>0a DEF Sound, Answered
<1>6. /\ uv'.active \subseteq Opened(uv) /\ uv'.active \cap Conns \subseteq uv'.connected
      /\ uv'.readable \cup uv'.writable \subseteq Opened(uv) \cap uv'.connected
      /\ \A d \in Conns : ~Answered(uv', d) => d \in Queued(uv) /\ d \in uv'.connected
  BY <1>5, <1>5a DEF Sound, Answered
<1>7. Sound(uv')
  BY <1>5, <1>6, KeptSound
<1>8. Begun(uv')
  BY <1>5, <1>5a DEF Begun, Queued, Kept
<1> QED
  BY <1>0, <1>5, <1>7, <1>8 DEF Told, Kept

LEMMA ShutDownTold ==
    ASSUME Sound(uv), NEW c \in Conns, ShutDown(c)
    PROVE  Told(uv, uv', "shutdown", c) /\ uv'.active = uv.active
<1>0. /\ uv \in UvppType /\ c \in Handles /\ uv.running /\ uv.cb = None
      /\ c \in uv.shutting /\ uv.shutting \ {c} \in SUBSET Conns
  BY KindsOfHandles DEF Sound, ShutDown, InLoop, UvppType
<1>1. PICK status \in Statuses : uv' = Begins([uv EXCEPT !.shutting = @ \ {c}], "shutdown", c, status)
  BY DEF ShutDown, Statuses
<1> DEFINE U == [uv EXCEPT !.shutting = @ \ {c}]
<1>3. /\ U \in UvppType /\ Kept(uv, U) /\ Went(uv, U) /\ U.active = uv.active /\ U.readable = uv.readable
      /\ U.connected = uv.connected /\ U.writable = uv.writable
      /\ U.shutting = uv.shutting \ {c} /\ U.writes = uv.writes
  BY <1>0 DEF UvppType, Kept, Went
<1>4. uv' = Begins(U, "shutdown", c, status) /\ "shutdown" \in Kinds
  BY <1>1 DEF Kinds
<1> HIDE DEF U
<1>5. /\ uv' \in UvppType /\ Kept(uv, uv') /\ Went(uv, uv')
      /\ uv'.cb.kind = "shutdown" /\ uv'.cb.handle = c
      /\ uv'.active = uv.active /\ uv'.readable = uv.readable
      /\ uv'.connected = uv.connected /\ uv'.writable = uv.writable
      /\ uv'.shutting = uv.shutting \ {c} /\ uv'.writes = uv.writes
  <2>1. U \in UvppType /\ c \in Handles
    BY <1>0, <1>3
  <2>2. /\ uv' \in UvppType /\ Kept(U, uv') /\ Went(U, uv')
        /\ uv'.cb.kind = "shutdown" /\ uv'.cb.handle = c /\ uv'.cb.status = status
        /\ uv'.active = U.active /\ uv'.backlog = U.backlog /\ uv'.connected = U.connected
        /\ uv'.writable = U.writable /\ uv'.readable = U.readable
        /\ uv'.writes = U.writes /\ uv'.shutting = U.shutting
    BY <1>4, <2>1, BeginsIs
  <2> QED
    BY <1>3, <2>2 DEF Kept, Went
<1>5a. c \in Queued(uv) /\ c \in uv.connected
  BY <1>0 DEF Sound, Answered
<1>6. /\ uv'.active \subseteq Opened(uv) /\ uv'.active \cap Conns \subseteq uv'.connected
      /\ uv'.readable \cup uv'.writable \subseteq Opened(uv) \cap uv'.connected
      /\ \A d \in Conns : ~Answered(uv', d) => d \in Queued(uv) /\ d \in uv'.connected
  BY <1>5 DEF Sound, Answered
<1>7. Sound(uv')
  BY <1>5, <1>6, KeptSound
<1>8. Begun(uv')
  BY <1>5, <1>5a DEF Begun, Queued, Kept
<1> QED
  BY <1>0, <1>5, <1>7, <1>8 DEF Told, Kept

LEMMA TickTold ==
    ASSUME Sound(uv), NEW t \in Timers, Tick(t)
    PROVE  Told(uv, uv', "timer", t)
<1>0. /\ uv \in UvppType /\ t \in Handles /\ uv.running /\ uv.cb = None /\ Open(uv, t)
  BY KindsOfHandles DEF Sound, Tick, InLoop
<1>1. PICK A \in {uv.active, uv.active \ {t}} : uv' = Begins([uv EXCEPT !.active = A], "timer", t, "ok")
  BY DEF Tick
<1> DEFINE U == [uv EXCEPT !.active = A]
<1>2. A \in SUBSET Handles /\ A \subseteq uv.active /\ uv.active \subseteq A \cup {t}
  BY <1>0 DEF UvppType
<1>3. /\ U \in UvppType /\ Kept(uv, U) /\ Went(uv, U) /\ U.active = A /\ U.readable = uv.readable
      /\ U.connected = uv.connected /\ U.writable = uv.writable
      /\ U.shutting = uv.shutting /\ U.writes = uv.writes
  BY <1>0, <1>2 DEF UvppType, Kept, Went
<1>4. uv' = Begins(U, "timer", t, "ok") /\ "timer" \in Kinds /\ "ok" \in Statuses
  BY <1>1 DEF Kinds, Statuses
<1> HIDE DEF U
<1>5. /\ uv' \in UvppType /\ Kept(uv, uv') /\ Went(uv, uv')
      /\ uv'.cb.kind = "timer" /\ uv'.cb.handle = t
      /\ uv'.active = A /\ uv'.readable = uv.readable
      /\ uv'.connected = uv.connected /\ uv'.writable = uv.writable
      /\ uv'.shutting = uv.shutting /\ uv'.writes = uv.writes
  <2>1. U \in UvppType /\ t \in Handles
    BY <1>0, <1>3
  <2>2. /\ uv' \in UvppType /\ Kept(U, uv') /\ Went(U, uv')
        /\ uv'.cb.kind = "timer" /\ uv'.cb.handle = t
        /\ uv'.active = U.active /\ uv'.connected = U.connected
        /\ uv'.writable = U.writable /\ uv'.readable = U.readable
        /\ uv'.writes = U.writes /\ uv'.shutting = U.shutting
    BY <1>4, <2>1, BeginsIs
  <2> QED
    BY <1>3, <2>2 DEF Kept, Went
<1>6. /\ uv'.active \subseteq Opened(uv) /\ uv'.active \cap Conns \subseteq uv'.connected
      /\ uv'.readable \cup uv'.writable \subseteq Opened(uv) \cap uv'.connected
      /\ \A d \in Conns : ~Answered(uv', d) => d \in Queued(uv) /\ d \in uv'.connected
  BY <1>2, <1>5 DEF Sound, Answered
<1>7. Sound(uv')
  BY <1>5, <1>6, KeptSound
<1>8. Begun(uv')
  BY <1>0, <1>5 DEF Begun, Open, Kept
<1> QED
  BY <1>0, <1>2, <1>5, <1>7, <1>8 DEF Told, Kept

LEMMA ClosedTold ==
    ASSUME Sound(uv), NEW h \in Handles, Closed(h)
    PROVE  Told(uv, uv', "close", h) /\ uv'.active = uv.active /\ uv.state[h] = "closing"
<1>0. /\ uv \in UvppType /\ uv.running /\ uv.cb = None /\ uv.state[h] = "closing" /\ Answered(uv, h)
      /\ uv.state \in [Handles -> States] /\ h \in uv.alive
  BY DEF Sound, Closed, InLoop, UvppType, Queued
<1>1. uv' = Begins([uv EXCEPT !.state[h] = "closed"], "close", h, "ok")
  BY DEF Closed
<1> DEFINE U == [uv EXCEPT !.state[h] = "closed"]
<1>3. /\ U \in UvppType /\ Went(uv, U) /\ U.state = [uv.state EXCEPT ![h] = "closed"]
      /\ U.refs = uv.refs /\ U.alive = uv.alive /\ U.failed = uv.failed
      /\ U.active = uv.active /\ U.readable = uv.readable
      /\ U.connected = uv.connected /\ U.writable = uv.writable
      /\ U.shutting = uv.shutting /\ U.writes = uv.writes
  BY <1>0 DEF UvppType, States, Went
<1>4. uv' = Begins(U, "close", h, "ok") /\ "close" \in Kinds /\ "ok" \in Statuses
  BY <1>1 DEF Kinds, Statuses
<1> HIDE DEF U
<1>5. /\ uv' \in UvppType /\ Went(uv, uv') /\ uv'.state = [uv.state EXCEPT ![h] = "closed"]
      /\ uv'.refs = uv.refs /\ uv'.alive = uv.alive /\ uv'.failed = uv.failed
      /\ uv'.cb.kind = "close" /\ uv'.cb.handle = h
      /\ uv'.active = uv.active /\ uv'.readable = uv.readable
      /\ uv'.connected = uv.connected /\ uv'.writable = uv.writable
      /\ uv'.shutting = uv.shutting /\ uv'.writes = uv.writes
  <2>1. U \in UvppType /\ h \in Handles
    BY <1>0, <1>3
  <2>2. /\ uv' \in UvppType /\ Kept(U, uv') /\ Went(U, uv')
        /\ uv'.cb.kind = "close" /\ uv'.cb.handle = h /\ uv'.cb.status = "ok"
        /\ uv'.active = U.active /\ uv'.backlog = U.backlog /\ uv'.connected = U.connected
        /\ uv'.writable = U.writable /\ uv'.readable = U.readable
        /\ uv'.writes = U.writes /\ uv'.shutting = U.shutting
    BY <1>4, <2>1, BeginsIs
  <2> QED
    BY <1>3, <2>2 DEF Kept, Went
<1>6. /\ \A g \in Handles : uv'.state[g] = IF g = h THEN "closed" ELSE uv.state[g]
  BY <1>0, <1>5
<1>7. /\ Opened(uv') = Opened(uv) /\ Queued(uv') = Queued(uv) \ {h}
      /\ \A c \in Conns : Answered(uv', c) <=> Answered(uv, c)
  BY <1>0, <1>5, <1>6 DEF Opened, Queued, Open, Answered
<1>8. Sound(uv')
  BY <1>0, <1>5, <1>7 DEF Sound
<1>9. Begun(uv')
  BY <1>0, <1>5, <1>6 DEF Begun
<1> QED
  BY <1>0, <1>5, <1>6, <1>8, <1>9 DEF Told

-----------------------------------------------------------------------------
\* A callback returns, and the wrapper of a closed handle is deleted when close_cb does.

\* Nothing changes from U to V but the callback.
Still(U, V) ==
    /\ Kept(U, V) /\ Went(U, V)
    /\ V.active = U.active /\ V.backlog = U.backlog /\ V.connected = U.connected
    /\ V.readable = U.readable /\ V.shutting = U.shutting /\ V.writes = U.writes

LEMMA ReturnSound ==
    ASSUME NEW U, Sound(U)
    PROVE  LET V == [U EXCEPT !.cb = None]
           IN  Sound(V) /\ Begun(V) /\ Still(U, V) /\ V.cb = None
<1> DEFINE V == [U EXCEPT !.cb = None]
<1>0. U \in UvppType
  BY DEF Sound
<1>1. None \in CallbackType
  BY DEF None, CallbackType, Statuses
<1>2. V \in UvppType /\ Still(U, V) /\ V.cb = None /\ V.writable = U.writable
  BY <1>0, <1>1 DEF UvppType, Still, Kept, Went
<1> HIDE DEF V
<1>3. /\ V.active \subseteq Opened(U) /\ V.active \cap Conns \subseteq V.connected
      /\ V.readable \cup V.writable \subseteq Opened(U) \cap V.connected
      /\ \A d \in Conns : ~Answered(V, d) => d \in Queued(U) /\ d \in V.connected
  BY <1>2 DEF Sound, Answered, Still
<1>4. Sound(V)
  BY <1>2, <1>3, KeptSound DEF Still
<1>5. Begun(V)
  BY <1>2 DEF Begun, None
<1> QED
  BY <1>2, <1>4, <1>5 DEF V

LEMMA OnCloseSound ==
    ASSUME Sound(uv), Begun(uv), OnClose
    PROVE  /\ Sound(uv') /\ Begun(uv') /\ Went(uv, uv') /\ uv'.cb = None
           /\ uv'.state = uv.state /\ uv'.refs = uv.refs /\ uv'.failed = uv.failed
           /\ uv'.alive = uv.alive \ {uv.cb.handle} /\ uv'.connected = uv.connected
           /\ uv'.active = uv.active /\ uv'.shutting = uv.shutting /\ uv'.writes = uv.writes
           /\ uv'.backlog = uv.backlog
<1> DEFINE h == uv.cb.handle
           V == IF h \in Timers THEN UvTimerStop(uv, h) ELSE uv
           W == [V EXCEPT !.alive = @ \ {h}]
<1>0. uv \in UvppType /\ h \in uv.alive /\ h \in Handles /\ uv.state[h] = "closed"
  BY DEF Begun, OnClose, Sound
<1>1. uv' = [W EXCEPT !.cb = None]
  BY <1>0, UsingIs DEF OnClose, Delete
<1>2. uv.active \ {h} = uv.active
  BY <1>0 DEF Sound, Opened, Open
<1>3. V = uv
  <2>1. [uv EXCEPT !.active = uv.active] = uv
    BY <1>0 DEF UvppType
  <2> QED
    BY <1>2, <2>1 DEF UvTimerStop
<1> HIDE DEF V
<1>4. /\ W \in UvppType /\ Went(uv, W) /\ W.cb = uv.cb
      /\ W.state = uv.state /\ W.refs = uv.refs /\ W.failed = uv.failed
      /\ W.alive = uv.alive \ {h} /\ W.connected = uv.connected
      /\ W.active = uv.active /\ W.shutting = uv.shutting /\ W.writes = uv.writes
      /\ W.readable = uv.readable /\ W.writable = uv.writable /\ W.backlog = uv.backlog
  <2>1. uv.alive \ {h} \in SUBSET Handles
    BY <1>0 DEF UvppType
  <2> QED
    BY <1>0, <1>3, <2>1 DEF UvppType, Went
<1> HIDE DEF W
<1>5. /\ Opened(W) = Opened(uv) /\ Queued(W) = Queued(uv) /\ h \notin Queued(uv)
      /\ \A c \in Conns : Answered(W, c) <=> Answered(uv, c)
  BY <1>0, <1>4 DEF Opened, Queued, Open, Answered
<1>6. Sound(W)
  BY <1>4, <1>5 DEF Sound
<1>7. Sound(uv') /\ Begun(uv') /\ Still(W, uv') /\ uv'.cb = None
  BY <1>1, <1>6, ReturnSound
<1> QED
  BY <1>4, <1>7 DEF Still, Kept, Went

-----------------------------------------------------------------------------
\* uv_run

LEMMA RunSound ==
    ASSUME Sound(uv), Begun(uv), Run
    PROVE  /\ Sound(uv') /\ Begun(uv') /\ Kept(uv, uv') /\ uv'.cb = uv.cb
           /\ uv'.active = uv.active /\ uv'.backlog = uv.backlog /\ uv'.connected = uv.connected
           /\ uv'.shutting = uv.shutting /\ uv'.writes = uv.writes
           /\ uv'.isRunning
           /\ ~uv.stopped => ~uv'.stopped /\ (uv'.running <=> Alive(uv))
<1>0. uv \in UvppType /\ ~uv.running
  BY DEF Sound, Run
<1>1. /\ uv' \in UvppType /\ Kept(uv, uv') /\ uv'.cb = uv.cb
      /\ uv'.active = uv.active /\ uv'.backlog = uv.backlog /\ uv'.connected = uv.connected
      /\ uv'.shutting = uv.shutting /\ uv'.writes = uv.writes
      /\ uv'.readable = uv.readable /\ uv'.writable = uv.writable
      /\ uv'.isRunning
      /\ ~uv.stopped => ~uv'.stopped /\ (uv'.running <=> Alive(uv))
  <2> DEFINE U == [uv EXCEPT !.isRunning = TRUE]
  <2>1. /\ U \in UvppType /\ U.stopped = uv.stopped /\ U.running = uv.running
        /\ Alive(U) <=> Alive(uv)
    BY <1>0 DEF UvppType, Alive, Answered
  <2>2. CASE Alive(uv) /\ ~U.stopped
    <3>1. uv' = [uv EXCEPT !.isRunning = TRUE, !.running = TRUE]
      BY <1>0, <2>1, <2>2 DEF Run, UvppType
    <3> QED
      BY <1>0, <2>1, <2>2, <3>1 DEF UvppType, Kept
  <2>3. CASE ~(Alive(uv) /\ ~U.stopped)
    <3>1. uv' = [uv EXCEPT !.isRunning = TRUE, !.stopped = FALSE]
      BY <1>0, <2>1, <2>3 DEF Run, UvppType
    <3> QED
      BY <1>0, <2>1, <2>3, <3>1 DEF UvppType, Kept
  <2> QED
    BY <2>2, <2>3
<1>2. /\ uv'.active \subseteq Opened(uv) /\ uv'.active \cap Conns \subseteq uv'.connected
      /\ uv'.readable \cup uv'.writable \subseteq Opened(uv) \cap uv'.connected
      /\ \A d \in Conns : ~Answered(uv', d) => d \in Queued(uv) /\ d \in uv'.connected
  BY <1>1 DEF Sound, Answered
<1>3. Sound(uv')
  BY <1>1, <1>2, KeptSound
<1>4. Begun(uv')
  BY <1>1 DEF Begun, Kept, Open, Queued
<1> QED
  BY <1>1, <1>3, <1>4

\* When uv_run returns of itself nothing is left but handles that are open and neither
\* active nor referenced.
LEMMA RunEndsSound ==
    ASSUME Sound(uv), RunEnds
    PROVE  /\ Sound(uv') /\ Begun(uv') /\ Kept(uv, uv') /\ uv'.cb = None /\ uv.cb = None
           /\ uv'.active = uv.active /\ uv'.backlog = uv.backlog /\ uv'.connected = uv.connected
           /\ uv'.shutting = uv.shutting /\ uv'.writes = uv.writes
           /\ ~uv'.running /\ ~uv'.stopped /\ uv'.isRunning = uv.isRunning
           /\ uv.running /\ (uv.stopped \/ ~Alive(uv))
<1>0. uv \in UvppType /\ uv.running /\ uv.cb = None /\ (uv.stopped \/ ~Alive(uv))
  BY DEF Sound, RunEnds, InLoop
<1>1. /\ uv' \in UvppType /\ Kept(uv, uv') /\ uv'.cb = uv.cb
      /\ uv'.active = uv.active /\ uv'.backlog = uv.backlog /\ uv'.connected = uv.connected
      /\ uv'.shutting = uv.shutting /\ uv'.writes = uv.writes
      /\ uv'.readable = uv.readable /\ uv'.writable = uv.writable
      /\ ~uv'.running /\ ~uv'.stopped /\ uv'.isRunning = uv.isRunning
  BY <1>0 DEF RunEnds, UvppType, Kept
<1>2. /\ uv'.active \subseteq Opened(uv) /\ uv'.active \cap Conns \subseteq uv'.connected
      /\ uv'.readable \cup uv'.writable \subseteq Opened(uv) \cap uv'.connected
      /\ \A d \in Conns : ~Answered(uv', d) => d \in Queued(uv) /\ d \in uv'.connected
  BY <1>1 DEF Sound, Answered
<1>3. Sound(uv')
  BY <1>1, <1>2, KeptSound
<1>4. Begun(uv')
  BY <1>0, <1>1 DEF Begun, None
<1> QED
  BY <1>0, <1>1, <1>3, <1>4

LEMMA StopSound ==
    ASSUME NEW U, Sound(U), Begun(U)
    PROVE  LET V == Stop(U)
           IN  /\ Sound(V) /\ Begun(V) /\ Kept(U, V) /\ V.running = U.running /\ V.cb = U.cb
               /\ V.active = U.active /\ V.connected = U.connected
<1> DEFINE V == Stop(U)
<1>0. U \in UvppType
  BY DEF Sound
<1>1. /\ V \in UvppType /\ Kept(U, V) /\ V.running = U.running /\ V.cb = U.cb /\ V.backlog = U.backlog
      /\ V.active = U.active /\ V.connected = U.connected
      /\ V.readable = U.readable /\ V.writable = U.writable
      /\ V.shutting = U.shutting /\ V.writes = U.writes
  BY <1>0 DEF Stop, UvStop, UvppType, Kept
<1> HIDE DEF V
<1>2. /\ V.active \subseteq Opened(U) /\ V.active \cap Conns \subseteq V.connected
      /\ V.readable \cup V.writable \subseteq Opened(U) \cap V.connected
      /\ \A d \in Conns : ~Answered(V, d) => d \in Queued(U) /\ d \in V.connected
  BY <1>1 DEF Sound, Answered
<1>3. Sound(V)
  BY <1>1, <1>2, KeptSound
<1>4. Begun(V)
  BY <1>1 DEF Begun, Kept, Open, Queued
<1> QED
  BY <1>1, <1>3, <1>4 DEF V

LEMMA InitSound == Sound(UvppInit) /\ Begun(UvppInit)
<1>1. /\ UvppInit.state = [h \in Handles |-> "unborn"] /\ UvppInit.cb = None
      /\ UvppInit.alive = {} /\ UvppInit.failed = {} /\ UvppInit.active = {}
      /\ UvppInit.readable = {} /\ UvppInit.writable = {} /\ UvppInit.shutting = {}
      /\ UvppInit.writes = [c \in Conns |-> 0]
  BY InitIs DEF StreamsFields, UvppFields, Added, UvInit
<1>2. Queued(UvppInit) = {} /\ \A c \in Conns : Answered(UvppInit, c)
  BY <1>1 DEF Queued, Answered, Handles
<1> QED
  BY <1>1, <1>2, InitTyped DEF Sound, Begun, None

=============================================================================
