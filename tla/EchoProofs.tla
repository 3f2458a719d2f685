----------------------------- MODULE EchoProofs -----------------------------
(***************************************************************************)
(* Proofs about the echo server of TestServer.cpp, for every number of     *)
(* connections and of echoes in progress, whatever fails.                  *)
(***************************************************************************)
EXTENDS EchoServer, UvppProofs, FiniteSetTheorems

-----------------------------------------------------------------------------
\* The inductive invariant

Phases == {"start", "ready", "running", "returned", "ended"}

\* The connections the server counts.
Clients(U) == {c \in Conns : Open(U, c) /\ c \in U.connected}

\* Both timers run, so that uv_run does not return.
TimersRun(U) == \A t \in Timers : Open(U, t) /\ t \in U.active \cap U.refs

\* Where ServerLoop is tells what the loop does.
LoopFollowsMain ==
    /\ main = "start" => uv = UvppInit
    /\ uv.running <=> main = "running"
    /\ ~uv.running => uv.cb = None
    /\ uv.running => uv.isRunning
    /\ main # "ended" => ~uv.stopped
    /\ main \in {"start", "ready"} => ~exiting

\* Until the operator ends the server its timers keep it running, and then nothing is
\* open any more and nothing opens again; so when uv_run returns nothing is left.
EndIsClean ==
    /\ IF exiting THEN Opened(uv) = {} ELSE main # "start" => TimersRun(uv)
    /\ main = "returned" => LoopCloses(uv)
    /\ LoopIsClosedClean

EchoInv ==
    /\ Sound(uv) /\ Begun(uv)
    /\ main \in Phases /\ numClients \in Int /\ overwritten \subseteq Conns /\ exiting \in BOOLEAN
    /\ LoopFollowsMain
    /\ EndIsClean
    /\ ClientsAreCounted
    /\ uv.cb.kind = "connection" /\ uv.cb.status = "ok" => Fresh # {}

-----------------------------------------------------------------------------
\* What keeps the invariant

LEMMA ClientsAreFinite ==
    ASSUME NEW U
    PROVE  IsFiniteSet(Clients(U)) /\ Cardinality(Clients(U)) \in Nat
<1>1. IsFiniteSet(Conns) /\ Clients(U) \in SUBSET Conns
  BY EchoAssumption DEF Clients
<1>2. IsFiniteSet(Clients(U))
  BY <1>1, FS_Subset
<1> QED
  BY <1>2, FS_CardinalityType

LEMMA CountIs ==
    ClientsAreCounted <=> (uv.failed = {} /\ ~exiting => numClients = Cardinality(Clients(uv)))
  BY DEF ClientsAreCounted, Clients

LEMMA CountPrimeIs ==
    ClientsAreCounted' <=> (uv'.failed = {} /\ ~exiting' => numClients' = Cardinality(Clients(uv')))
  BY DEF ClientsAreCounted, Clients

LEMMA RunningFacts ==
    ASSUME EchoInv, uv.running
    PROVE  /\ Sound(uv) /\ Begun(uv) /\ uv \in UvppType /\ main = "running"
           /\ uv.isRunning /\ ~uv.stopped
           /\ ~exiting => TimersRun(uv)
           /\ exiting => Opened(uv) = {}
  BY DEF EchoInv, Sound, LoopFollowsMain, EndIsClean

\* A callback begins.
LEMMA CallbackKeepsInv ==
    ASSUME EchoInv, NEW kind, NEW h, Told(uv, uv', kind, h), UNCHANGED <<main, numClients, exiting>>,
           overwritten' \subseteq Conns, uv.active \cap Timers \subseteq uv'.active,
           kind = "connection" /\ uv'.cb.status = "ok" => Fresh # {},
           kind = "close" => uv.state[h] = "closing"
    PROVE  EchoInv'
<1>1. /\ uv.running /\ Sound(uv') /\ Begun(uv') /\ Went(uv, uv') /\ uv'.cb.kind = kind
      /\ uv'.refs = uv.refs /\ uv'.failed = uv.failed /\ uv'.connected = uv.connected
      /\ \A g \in Handles : uv'.state[g] = IF kind = "close" /\ g = h THEN "closed" ELSE uv.state[g]
  BY DEF Told
<1>2. /\ main = "running" /\ main' = "running" /\ uv'.running /\ uv'.isRunning /\ ~uv'.stopped
      /\ ~exiting => TimersRun(uv)
      /\ exiting => Opened(uv) = {}
  BY <1>1, RunningFacts DEF Went
<1>3. \A g \in Handles : /\ Open(uv', g) <=> Open(uv, g)
                         /\ uv'.state[g] = "unborn" <=> uv.state[g] = "unborn"
  BY <1>1 DEF Open
<1>4. Opened(uv') = Opened(uv) /\ Clients(uv') = Clients(uv)
  BY <1>1, <1>3, KindsOfHandles DEF Opened, Clients
<1>5. TimersRun(uv) => TimersRun(uv')
  BY <1>1, <1>3, KindsOfHandles DEF TimersRun
<1>6. LoopFollowsMain'
  BY <1>2 DEF LoopFollowsMain
<1>7. EndIsClean'
  BY <1>1, <1>2, <1>4, <1>5 DEF EndIsClean, EchoInv, LoopIsClosedClean
<1>8. ClientsAreCounted'
  BY <1>1, <1>4, CountIs, CountPrimeIs DEF EchoInv
<1>9. Fresh' = Fresh
  BY <1>3, KindsOfHandles DEF Fresh
<1> QED
  BY <1>1, <1>6, <1>7, <1>8, <1>9 DEF EchoInv

\* A callback has been handled, and returns.
LEMMA HandlerKeepsInv ==
    ASSUME EchoInv, uv.cb.kind # "none", UNCHANGED <<main, overwritten>>,
           Sound(uv'), Begun(uv'), Went(uv, uv'), uv'.cb = None,
           IF exiting' THEN Opened(uv') = {} ELSE TimersRun(uv'),
           LoopIsClosedClean', ClientsAreCounted', numClients' \in Int, exiting' \in BOOLEAN
    PROVE  EchoInv'
<1>1. uv.cb # None
  BY DEF None
<1>2. uv.running
  BY <1>1 DEF EchoInv, LoopFollowsMain
<1>3. main = "running" /\ main' = "running" /\ uv'.running /\ uv'.isRunning /\ ~uv'.stopped
  BY <1>2, RunningFacts DEF Went
<1>4. LoopFollowsMain'
  BY <1>3 DEF LoopFollowsMain
<1>5. EndIsClean'
  BY <1>3 DEF EndIsClean
<1>6. uv'.cb.kind = "none"
  BY DEF None
<1> QED
  BY <1>3, <1>4, <1>5, <1>6 DEF EchoInv

-----------------------------------------------------------------------------
\* The library calls back

LEMMA ConnectsKeepsInv ==
    ASSUME EchoInv, Connects
    PROVE  EchoInv'
<1>1. pServer \in Servers /\ pServer \notin Conns /\ pServer \notin Timers
  BY EchoAssumption
<1>2. Told(uv, uv', "connection", pServer)
  BY <1>1, ConnectionTold DEF Connects, EchoInv
<1>3. uv.active \cap Timers \subseteq uv'.active
  BY <1>1, <1>2 DEF Told
<1> QED
  BY <1>2, <1>3, CallbackKeepsInv DEF Connects, EchoInv

LEMMA ReceivesKeepsInv ==
    ASSUME EchoInv, NEW c \in Conns, Receives(c)
    PROVE  EchoInv'
<1>1. Told(uv, uv', "read", c)
  BY ReadTold DEF Receives, EchoInv
<1>2. uv.active \cap Timers \subseteq uv'.active
  BY <1>1, EchoAssumption DEF Told
<1>3. overwritten' \subseteq Conns
  BY DEF Receives, EchoInv
<1> QED
  BY <1>1, <1>2, <1>3, CallbackKeepsInv DEF Receives

LEMMA CallsBackKeepsInv ==
    ASSUME EchoInv, CallsBack
    PROVE  EchoInv'
<1>1. Sound(uv) /\ UNCHANGED <<main, numClients, exiting>> /\ overwritten' \subseteq Conns
  BY DEF EchoInv, CallsBack
<1>2. ASSUME NEW c \in Conns, Written(c) PROVE EchoInv'
  <2>1. Told(uv, uv', "write", c) /\ uv'.active = uv.active
    BY <1>1, <1>2, WrittenTold
  <2> QED
    BY <1>1, <2>1, CallbackKeepsInv
<1>3. ASSUME NEW c \in Conns, ShutDown(c) PROVE EchoInv'
  <2>1. Told(uv, uv', "shutdown", c) /\ uv'.active = uv.active
    BY <1>1, <1>3, ShutDownTold
  <2> QED
    BY <1>1, <2>1, CallbackKeepsInv
<1>4. ASSUME NEW t \in Timers, Tick(t), t \in uv'.active PROVE EchoInv'
  <2>1. Told(uv, uv', "timer", t)
    BY <1>1, <1>4, TickTold
  <2>2. uv.active \cap Timers \subseteq uv'.active
    BY <1>4, <2>1 DEF Told
  <2> QED
    BY <1>1, <2>1, <2>2, CallbackKeepsInv
<1>5. ASSUME NEW h \in Handles, Closed(h) PROVE EchoInv'
  <2>1. Told(uv, uv', "close", h) /\ uv'.active = uv.active /\ uv.state[h] = "closing"
    BY <1>1, <1>5, ClosedTold
  <2> QED
    BY <1>1, <2>1, CallbackKeepsInv
<1> QED
  BY <1>2, <1>3, <1>4, <1>5 DEF CallsBack

-----------------------------------------------------------------------------
\* The lambdas

LEMMA HandlerFacts ==
    ASSUME EchoInv, uv.cb.kind # "none"
    PROVE  /\ Sound(uv) /\ Begun(uv) /\ uv \in UvppType /\ uv.running /\ uv.isRunning
           /\ main = "running" /\ LoopIsClosedClean /\ numClients \in Int /\ exiting \in BOOLEAN
           /\ ~exiting => TimersRun(uv)
           /\ exiting => Opened(uv) = {}
<1>1. uv.cb # None
  BY DEF None
<1>2. uv.running
  BY <1>1 DEF EchoInv, LoopFollowsMain
<1> QED
  BY <1>2, RunningFacts DEF EchoInv, EndIsClean

LEMMA ReturnKeepsInv ==
    ASSUME EchoInv, uv.cb.kind # "none", UNCHANGED <<main, overwritten>>,
           NEW U, Sound(U), Went(uv, U), uv' = Returning(U),
           IF exiting' THEN Opened(U) = {} ELSE TimersRun(U),
           "loop_close: not busy" \notin U.failed,
           U.failed = {} /\ ~exiting' => numClients' = Cardinality(Clients(U)),
           numClients' \in Int, exiting' \in BOOLEAN
    PROVE  EchoInv'
<1>1. Sound(uv') /\ Begun(uv') /\ Still(U, uv') /\ uv'.cb = None
  BY ReturnSound DEF Returning
<1>2. Opened(uv') = Opened(U) /\ Clients(uv') = Clients(U) /\ uv'.failed = U.failed /\ Went(uv, uv')
  BY <1>1 DEF Still, Kept, Went, Opened, Clients, Open
<1>3. TimersRun(U) => TimersRun(uv')
  BY <1>1 DEF Still, Kept, TimersRun, Open
<1>4. ClientsAreCounted' /\ LoopIsClosedClean'
  BY <1>2, CountPrimeIs DEF LoopIsClosedClean
<1> QED
  BY <1>1, <1>2, <1>3, <1>4, HandlerKeepsInv

\* From U to V nothing changes that the invariant looks at, but that a check may fail.
Steady(U, V) ==
    /\ Sound(V) /\ Went(U, V) /\ V.cb = U.cb
    /\ V.state = U.state /\ V.refs = U.refs /\ V.alive = U.alive /\ V.connected = U.connected
    /\ V.active \cap Timers = U.active \cap Timers
    /\ U.failed \subseteq V.failed
    /\ V.failed \subseteq U.failed \cup {"deleted counter"}

LEMMA SteadyFacts ==
    ASSUME NEW U, NEW V, Steady(U, V)
    PROVE  /\ Opened(V) = Opened(U) /\ Clients(V) = Clients(U) /\ Queued(V) = Queued(U)
           /\ TimersRun(U) => TimersRun(V)
  BY DEF Steady, Opened, Clients, Open, Queued, TimersRun

LEMMA SteadyIsTransitive ==
    ASSUME NEW U, NEW V, NEW W, Steady(U, V), Steady(V, W)
    PROVE  Steady(U, W)
  BY DEF Steady, Went

LEMMA CallsAreSteady ==
    ASSUME NEW U, Sound(U), NEW c \in Conns
    PROVE  /\ Steady(U, Counting(U))
           /\ Steady(U, UvShutdown(U, c)) /\ Steady(U, UvReadStop(U, c)) /\ Steady(U, UvWrite(U, c))
<1>1. c \notin Timers
  BY EchoAssumption
<1>2. Steady(U, Counting(U))
  <2>1. CASE pServer \in U.alive
    <3>1. Counting(U) = U
      BY <2>1 DEF Counting, Check
    <3> QED
      BY <3>1 DEF Steady, Went
  <2>2. CASE pServer \notin U.alive
    <3>1. Counting(U) = Fails(U, "deleted counter")
      BY <2>2 DEF Counting, Check, Fails
    <3>2. "deleted counter" \in Faults \ {"deleted wrapper"}
      BY DEF Faults
    <3> DEFINE V == Fails(U, "deleted counter")
    <3>3. /\ Sound(V) /\ Went(U, V) /\ V.cb = U.cb
          /\ V.state = U.state /\ V.refs = U.refs /\ V.alive = U.alive /\ V.active = U.active
          /\ V.connected = U.connected /\ V.failed = U.failed \cup {"deleted counter"}
      BY <3>2, FailSound
    <3> HIDE DEF V
    <3>4. Steady(U, V)
      BY <3>3 DEF Steady
    <3> QED
      BY <3>1, <3>4 DEF V
  <2> QED
    BY <2>1, <2>2
<1>3. Steady(U, UvShutdown(U, c))
  BY ShutdownSound DEF Steady, Kept
<1>4. Steady(U, UvReadStop(U, c))
  BY <1>1, ReadStopSound DEF Steady, Kept
<1>5. Steady(U, UvWrite(U, c))
  BY WriteSound DEF Steady, Kept
<1> QED
  BY <1>2, <1>3, <1>4, <1>5

\* The lambda returns and has done nothing to what the invariant looks at.
LEMMA SteadyKeepsInv ==
    ASSUME EchoInv, uv.cb.kind # "none", UNCHANGED <<main, numClients, overwritten, exiting>>,
           NEW U, Steady(uv, U), uv' = Returning(U)
    PROVE  EchoInv'
<1>1. /\ IF exiting' THEN Opened(U) = {} ELSE TimersRun(U)
      /\ "loop_close: not busy" \notin U.failed
  BY HandlerFacts, SteadyFacts DEF Steady, LoopIsClosedClean
<1>2. U.failed = {} /\ ~exiting' => numClients' = Cardinality(Clients(U))
  BY SteadyFacts, CountIs DEF Steady, EchoInv
<1> QED
  BY <1>1, <1>2, ReturnKeepsInv, HandlerFacts DEF Steady

\* A client that leaves was counted, unless its deletion had begun; then uv_close fails.
LEMMA LeavingKeepsInv ==
    ASSUME EchoInv, uv.cb.kind # "none", UNCHANGED <<main, overwritten, exiting>>,
           NEW c \in Conns, c \in Queued(uv), c \in uv.connected,
           NEW U, Steady(uv, U), uv' = Returning(DelayDelete(U, c)), numClients' = numClients - 1
    PROVE  EchoInv'
<1> DEFINE V == DelayDelete(U, c)
<1>1. Sound(U) /\ U.isRunning /\ c \in U.alive /\ c \in Handles /\ c \notin Timers
  BY HandlerFacts, EchoAssumption, KindsOfHandles DEF Steady, Went, Sound
<1>2. /\ ClosesThem(U, V, {c} \cap Opened(U))
      /\ V.failed = IF Open(U, c) THEN U.failed ELSE U.failed \cup {"uv_close: not closing"}
  BY <1>1, DelayDeleteSound
<1> HIDE DEF V
<1>3. \A g \in Handles : V.state[g] = IF g = c /\ Open(U, c) THEN "closing" ELSE U.state[g]
  BY <1>1, <1>2 DEF ClosesThem, Opened
<1>4. Opened(V) = Opened(U) \ {c}
  BY <1>3 DEF Opened, Open
<1>5. TimersRun(U) => TimersRun(V)
  BY <1>1, <1>2, <1>3, KindsOfHandles DEF TimersRun, ClosesThem, Open
<1>6. /\ IF exiting' THEN Opened(V) = {} ELSE TimersRun(V)
      /\ "loop_close: not busy" \notin V.failed
  BY <1>2, <1>4, <1>5, HandlerFacts, SteadyFacts DEF Steady, LoopIsClosedClean
<1>7. ASSUME V.failed = {}, ~exiting'
      PROVE  numClients' = Cardinality(Clients(V))
  <2>1. Open(U, c) /\ uv.failed = {}
    BY <1>2, <1>7 DEF Steady
  <2>2. numClients = Cardinality(Clients(U))
    BY <1>7, <2>1, CountIs, SteadyFacts DEF EchoInv
  <2>3. c \in Clients(U)
    BY <2>1 DEF Clients, Steady
  <2>4. Clients(V) = Clients(U) \ {c}
    BY <1>2, <1>3, <2>1, KindsOfHandles DEF Clients, ClosesThem, Open
  <2>5. Cardinality(Clients(U) \ {c}) = Cardinality(Clients(U)) - 1
    BY <2>3, ClientsAreFinite, FS_RemoveElement
  <2> QED
    BY <2>2, <2>4, <2>5
<1>8. Sound(V) /\ Went(uv, V)
  BY <1>2 DEF ClosesThem, Steady, Went
<1>9. numClients' \in Int /\ exiting' \in BOOLEAN
  BY HandlerFacts
<1> QED
  BY <1>6, <1>7, <1>8, <1>9, ReturnKeepsInv DEF V

LEMMA OnReadErrorKeepsInv ==
    ASSUME EchoInv, OnReadError
    PROVE  EchoInv'
<1> DEFINE c == uv.cb.handle
           U == Counting(uv)
<1>1. uv.cb.kind = "read" /\ Sound(uv) /\ UNCHANGED <<main, overwritten, exiting>>
      /\ numClients' = numClients - 1
  BY HandlerFacts DEF OnReadError
<1>2. c \in Conns /\ c \in Queued(uv) /\ c \in uv.connected /\ c \in uv.alive
  BY <1>1, HandlerFacts, KindsOfHandles DEF Begun, Queued, Open, Sound
<1>3. Using(uv, c) = uv
  BY <1>2, UsingIs
<1>4. uv' = Returning(DelayDelete(UvShutdown(U, c), c))
  BY <1>3 DEF OnReadError
<1>5. Steady(uv, UvShutdown(U, c))
  <2>1. Steady(uv, U)
    BY <1>1, <1>2, CallsAreSteady
  <2>2. Sound(U)
    BY <2>1 DEF Steady
  <2>3. Steady(U, UvShutdown(U, c))
    BY <1>2, <2>2, CallsAreSteady
  <2> QED
    BY <2>1, <2>3, SteadyIsTransitive
<1> QED
  BY <1>1, <1>2, <1>4, <1>5, LeavingKeepsInv

LEMMA OnWriteKeepsInv ==
    ASSUME EchoInv, OnWrite
    PROVE  EchoInv'
<1> DEFINE c == uv.cb.handle
           U == Counting(uv)
<1>1. uv.cb.kind = "write" /\ Sound(uv) /\ UNCHANGED <<main, overwritten, exiting>>
      /\ numClients' = numClients - 1
  BY HandlerFacts DEF OnWrite
<1>2. c \in Conns /\ c \in Queued(uv) /\ c \in uv.connected /\ c \in uv.alive
  BY <1>1, HandlerFacts DEF Begun, Sound
<1>3. Using(uv, c) = uv
  BY <1>2, UsingIs
<1>4. uv' = Returning(DelayDelete(UvReadStop(U, c), c))
  BY <1>3 DEF OnWrite
<1>5. Steady(uv, UvReadStop(U, c))
  <2>1. Steady(uv, U)
    BY <1>1, <1>2, CallsAreSteady
  <2>2. Sound(U)
    BY <2>1 DEF Steady
  <2>3. Steady(U, UvReadStop(U, c))
    BY <1>2, <2>2, CallsAreSteady
  <2> QED
    BY <2>1, <2>3, SteadyIsTransitive
<1> QED
  BY <1>1, <1>2, <1>4, <1>5, LeavingKeepsInv

LEMMA NoChangeIsSteady ==
    ASSUME NEW U, Sound(U)
    PROVE  Steady(U, U)
  BY DEF Steady, Went

LEMMA OnReadKeepsInv ==
    ASSUME EchoInv, OnRead
    PROVE  EchoInv'
<1> DEFINE c == uv.cb.handle
<1>1. uv.cb.kind = "read" /\ Sound(uv) /\ UNCHANGED <<main, numClients, overwritten, exiting>>
  BY HandlerFacts DEF OnRead
<1>2. c \in Conns /\ c \in uv.alive
  BY <1>1, HandlerFacts, KindsOfHandles DEF Begun, Queued, Open, Sound
<1>3. uv' = Returning(UvWrite(uv, c))
  BY <1>2, UsingIs DEF OnRead
<1>4. Steady(uv, UvWrite(uv, c))
  BY <1>1, <1>2, CallsAreSteady
<1> QED
  BY <1>1, <1>3, <1>4, SteadyKeepsInv

LEMMA OnShutdownKeepsInv ==
    ASSUME EchoInv, OnShutdown
    PROVE  EchoInv'
<1>1. uv.cb.kind = "shutdown" /\ Sound(uv) /\ UNCHANGED <<main, numClients, overwritten, exiting>>
  BY HandlerFacts DEF OnShutdown
<1>2. uv.cb.handle \in uv.alive
  BY <1>1, HandlerFacts DEF Begun, Sound
<1>3. uv' = Returning(uv)
  BY <1>2, UsingIs DEF OnShutdown
<1> QED
  BY <1>1, <1>3, NoChangeIsSteady, SteadyKeepsInv

\* Walk gives every wrapper to DelayDelete: nothing is open any more.
LEMMA OnTimerKeepsInv ==
    ASSUME EchoInv, OnTimer
    PROVE  EchoInv'
<1> DEFINE h == uv.cb.handle
           U == WalkDelayDelete(uv)
<1>1. uv.cb.kind = "timer" /\ Sound(uv) /\ uv.isRunning /\ UNCHANGED <<main, numClients, overwritten>>
      /\ numClients \in Int
  BY HandlerFacts DEF OnTimer
<1>2. h \in uv.alive
  BY <1>1, HandlerFacts, KindsOfHandles DEF Begun, Queued, Open, Sound
<1>3. CASE uv' = Returning(Using(uv, h)) /\ UNCHANGED exiting
  <2>1. uv' = Returning(uv)
    BY <1>2, <1>3, UsingIs
  <2> QED
    BY <1>1, <1>3, <2>1, NoChangeIsSteady, SteadyKeepsInv
<1>4. CASE h = pStopTmr /\ uv' = Returning(WalkDelayDelete(Using(uv, pStopTmr))) /\ exiting' = TRUE
  <2>1. uv' = Returning(U)
    BY <1>2, <1>4, UsingIs
  <2>2. Queued(uv) \in SUBSET uv.alive /\ Queued(uv) \cap Opened(uv) = Opened(uv)
    BY <1>1 DEF Sound, Queued, Opened, Open
  <2>3. /\ ClosesThem(uv, U, Opened(uv))
        /\ U.failed \subseteq uv.failed \cup {"uv_close: not closing"}
    BY <1>1, <2>2, DelayDeleteEachSound DEF WalkDelayDelete
  <2> HIDE DEF U
  <2>4. Opened(U) = {}
    BY <2>3 DEF ClosesThem, Opened, Open
  <2>5. Sound(U) /\ Went(uv, U) /\ "loop_close: not busy" \notin U.failed
    BY <1>1, <2>3, HandlerFacts DEF ClosesThem, LoopIsClosedClean
  <2> QED
    BY <1>1, <1>4, <2>1, <2>4, <2>5, ReturnKeepsInv
<1> QED
  BY <1>3, <1>4 DEF OnTimer

LEMMA OnClosedKeepsInv ==
    ASSUME EchoInv, OnClosed
    PROVE  EchoInv'
<1>1. uv.cb.kind = "close" /\ OnClose /\ UNCHANGED <<main, numClients, overwritten, exiting>>
  BY DEF OnClosed, OnClose
<1>2. /\ Sound(uv') /\ Begun(uv') /\ Went(uv, uv') /\ uv'.cb = None
      /\ uv'.state = uv.state /\ uv'.refs = uv.refs /\ uv'.failed = uv.failed
      /\ uv'.connected = uv.connected /\ uv'.active = uv.active
  BY <1>1, OnCloseSound, HandlerFacts
<1>3. Opened(uv') = Opened(uv) /\ Clients(uv') = Clients(uv) /\ (TimersRun(uv) => TimersRun(uv'))
  BY <1>2 DEF Opened, Clients, TimersRun, Open
<1>4. ClientsAreCounted' /\ LoopIsClosedClean' /\ numClients' \in Int /\ exiting' \in BOOLEAN
  BY <1>1, <1>2, <1>3, CountIs, CountPrimeIs, HandlerFacts DEF LoopIsClosedClean, EchoInv
<1>5. IF exiting' THEN Opened(uv') = {} ELSE TimersRun(uv')
  BY <1>1, <1>3, HandlerFacts
<1> QED
  BY <1>1, <1>2, <1>4, <1>5, HandlerKeepsInv

\* What has become of a connection just created, whether it was accepted or not.
Created(U, V, c) ==
    /\ Sound(V) /\ Went(U, V)
    /\ \A g \in Handles : V.state[g] = IF g = c THEN "open" ELSE U.state[g]
    /\ V.refs = U.refs \cup {c} /\ V.active = U.active /\ U.failed \subseteq V.failed
    /\ V.failed \subseteq U.failed \cup {"getpeername: succeeds"}

LEMMA AcceptCreates ==
    ASSUME Sound(uv), uv.backlog[pServer] > 0, NEW c \in Conns, uv.state[c] = "unborn",
           NEW ok \in BOOLEAN, NEW named \in BOOLEAN,
           NEW V, V = GetPeerName(UvAccept(New(uv, c), pServer, c, ok), named)
    PROVE  /\ Created(uv, V, c)
           /\ V.connected = IF ok THEN uv.connected \cup {c} ELSE uv.connected
           /\ ~named => V.failed # {}
<1> DEFINE A == UvAccept(New(uv, c), pServer, c, ok)
<1>1. pServer \in Servers
  BY EchoAssumption
<1>2. Admitted(uv, A, c) /\ A.connected = IF ok THEN uv.connected \cup {c} ELSE uv.connected
  BY <1>1, AdmitSound
<1>2a. Sound(A)
  BY <1>2 DEF Admitted
<1> HIDE DEF A
<1>3. V = IF named THEN A ELSE [A EXCEPT !.failed = @ \cup {"getpeername: succeeds"}]
  BY DEF A, GetPeerName, Check
<1>4. /\ Sound(V) /\ Went(A, V) /\ V.state = A.state /\ V.refs = A.refs /\ V.active = A.active
      /\ V.connected = A.connected
      /\ V.failed = IF named THEN A.failed ELSE A.failed \cup {"getpeername: succeeds"}
  <2>1. CASE named
    BY <1>2a, <1>3, <2>1 DEF Went
  <2>2. CASE ~named
    <3>1. "getpeername: succeeds" \in Faults \ {"deleted wrapper"}
      BY DEF Faults
    <3> DEFINE F == Fails(A, "getpeername: succeeds")
    <3>2. V = F
      BY <1>3, <2>2 DEF Fails
    <3>3. /\ Sound(F) /\ Went(A, F) /\ F.state = A.state /\ F.refs = A.refs /\ F.active = A.active
          /\ F.connected = A.connected /\ F.failed = A.failed \cup {"getpeername: succeeds"}
      BY <1>2a, <3>1, FailSound
    <3> HIDE DEF F
    <3> QED
      BY <2>2, <3>2, <3>3
  <2> QED
    BY <2>1, <2>2
<1> QED
  BY <1>2, <1>4 DEF Admitted, Created, Went

LEMMA OnConnectionKeepsInv ==
    ASSUME EchoInv, OnConnection
    PROVE  EchoInv'
<1> DEFINE c == CHOOSE x \in Fresh : TRUE
<1>1. /\ uv.cb.kind = "connection" /\ UNCHANGED <<main, overwritten, exiting>>
      /\ Sound(uv) /\ Begun(uv) /\ uv.isRunning /\ numClients \in Int /\ exiting \in BOOLEAN
  BY HandlerFacts DEF OnConnection
<1>2. /\ Open(uv, pServer) /\ pServer \in Handles /\ pServer \in uv.alive
      /\ uv.cb.status = "ok" => uv.backlog[pServer] > 0
  BY <1>1, KindsOfHandles, EchoAssumption DEF Begun, Queued, Open, Sound
<1>3. Using(uv, pServer) = uv
  BY <1>2, UsingIs
<1>4. ~exiting /\ TimersRun(uv)
  BY <1>1, <1>2, HandlerFacts DEF Opened
<1>4a. LoopIsClosedClean
  BY <1>1, HandlerFacts
<1>5. CASE uv.cb.status # "ok"
  <2>1. uv' = Returning(uv) /\ UNCHANGED numClients
    BY <1>3, <1>5 DEF OnConnection
  <2> QED
    BY <1>1, <2>1, NoChangeIsSteady, SteadyKeepsInv
<1>6. CASE uv.cb.status = "ok"
  <2>1. c \in Fresh
    BY <1>1, <1>6 DEF EchoInv
  <2>2. c \in Conns /\ uv.state[c] = "unborn" /\ c \in Handles /\ c \notin Timers
    BY <2>1, KindsOfHandles, EchoAssumption DEF Fresh
  <2> HIDE DEF c
  <2>3. ASSUME NEW named \in BOOLEAN,
               uv' = Returning(UvReadStart(GetPeerName(UvAccept(New(uv, c), pServer, c, TRUE), named), c)),
               numClients' = numClients + 1
        PROVE  EchoInv'
    <3> DEFINE G == GetPeerName(UvAccept(New(uv, c), pServer, c, TRUE), named)
               V == UvReadStart(G, c)
    <3>1. Created(uv, G, c) /\ G.connected = uv.connected \cup {c}
      BY <1>1, <1>2, <1>6, <2>2, AcceptCreates
    <3> HIDE DEF G
    <3>1a. /\ Sound(G) /\ Went(uv, G) /\ uv.failed \subseteq G.failed
           /\ G.failed \subseteq uv.failed \cup {"getpeername: succeeds"}
      BY <3>1 DEF Created
    <3>2. /\ Sound(V) /\ Kept(G, V) /\ Went(G, V) /\ V.connected = G.connected
          /\ V.active = IF CanRead(G, c) THEN G.active \cup {c} ELSE G.active
      BY <2>2, <3>1a, ReadStartSound
    <3>2a. G.active \subseteq V.active
      BY <3>2
    <3>3. uv' = Returning(V)
      BY <2>3 DEF G
    <3> HIDE DEF V
    <3>4. \A g \in Handles : Open(V, g) <=> g = c \/ Open(uv, g)
      BY <3>1, <3>2 DEF Created, Kept, Open
    <3>5. TimersRun(V)
      BY <1>4, <3>1, <3>2, <3>2a, <3>4, KindsOfHandles DEF TimersRun, Created, Kept
    <3>6. "loop_close: not busy" \notin V.failed /\ uv.failed \subseteq V.failed
      <4>1. V.failed = G.failed
        BY <3>2 DEF Kept
      <4>2. "loop_close: not busy" \notin uv.failed
        BY <1>4a DEF LoopIsClosedClean
      <4>3. uv.failed \subseteq V.failed /\ V.failed \subseteq uv.failed \cup {"getpeername: succeeds"}
        BY <3>1a, <4>1
      <4> QED
        BY <4>2, <4>3
    <3>7. ASSUME V.failed = {} PROVE numClients' = Cardinality(Clients(V))
      <4>1. numClients = Cardinality(Clients(uv))
        BY <1>4, <3>6, <3>7, CountIs DEF EchoInv
      <4>2. Clients(V) = Clients(uv) \cup {c}
        BY <2>2, <3>1, <3>2, <3>4, KindsOfHandles DEF Clients
      <4>3. c \notin Clients(uv)
        BY <2>2 DEF Clients, Open
      <4>4. Cardinality(Clients(uv) \cup {c}) = Cardinality(Clients(uv)) + 1
        BY <4>3, ClientsAreFinite, FS_AddElement
      <4> QED
        BY <2>3, <4>1, <4>2, <4>4
    <3>8. Sound(V) /\ Went(uv, V)
      BY <3>1a, <3>2 DEF Went
    <3>9. numClients' \in Int
      BY <1>1, <2>3
    <3> QED
      BY <1>1, <1>4, <3>3, <3>5, <3>6, <3>7, <3>8, <3>9, ReturnKeepsInv
  <2>4. ASSUME uv' = Returning(DelayDelete(GetPeerName(UvAccept(New(uv, c), pServer, c, FALSE), FALSE), c)),
               UNCHANGED numClients
        PROVE  EchoInv'
    <3> DEFINE G == GetPeerName(UvAccept(New(uv, c), pServer, c, FALSE), FALSE)
               V == DelayDelete(G, c)
    <3>1. Created(uv, G, c) /\ G.failed # {}
      BY <1>1, <1>2, <1>6, <2>2, AcceptCreates
    <3> HIDE DEF G
    <3>2. Sound(G) /\ G.isRunning /\ c \in G.alive /\ Open(G, c)
      BY <1>1, <2>2, <3>1 DEF Created, Went, Sound, Queued, Open
    <3>3. ClosesThem(G, V, {c} \cap Opened(G)) /\ V.failed = G.failed
      BY <3>2, DelayDeleteSound
    <3>4. uv' = Returning(V)
      BY <2>4 DEF G
    <3> HIDE DEF V
    <3>5. \A t \in Timers : Open(V, t) <=> Open(uv, t)
      BY <2>2, <3>1, <3>3, KindsOfHandles DEF Created, ClosesThem, Open
    <3>6. TimersRun(V)
      BY <1>4, <2>2, <3>1, <3>3, <3>5 DEF TimersRun, Created, ClosesThem
    <3>7. "loop_close: not busy" \notin V.failed /\ V.failed # {}
      <4>1. G.failed \subseteq uv.failed \cup {"getpeername: succeeds"}
        BY <3>1 DEF Created
      <4>2. "loop_close: not busy" \notin uv.failed
        BY <1>4a DEF LoopIsClosedClean
      <4>3. V.failed = G.failed /\ G.failed # {}
        BY <3>1, <3>3
      <4>4. V.failed \subseteq uv.failed \cup {"getpeername: succeeds"}
        BY <4>1, <4>3
      <4> QED
        BY <4>2, <4>3, <4>4
    <3>8. Sound(V) /\ Went(uv, V)
      BY <3>1, <3>3 DEF Created, ClosesThem, Went
    <3>9. numClients' \in Int
      BY <1>1, <2>4
    <3> QED
      BY <1>1, <1>4, <3>4, <3>6, <3>7, <3>8, <3>9, ReturnKeepsInv
  <2>5. \/ \E named \in BOOLEAN :
              /\ uv' = Returning(UvReadStart(GetPeerName(UvAccept(New(uv, c), pServer, c, TRUE), named), c))
              /\ numClients' = numClients + 1
        \/ /\ uv' = Returning(DelayDelete(GetPeerName(UvAccept(New(uv, c), pServer, c, FALSE), FALSE), c))
           /\ UNCHANGED numClients
    BY <1>3, <1>6, EchoAssumption DEF OnConnection, c
  <2> QED
    BY <2>3, <2>4, <2>5
<1> QED
  BY <1>5, <1>6

-----------------------------------------------------------------------------
\* ServerLoop

LEMMA InitFacts ==
    /\ Sound(UvppInit) /\ Begun(UvppInit) /\ UvppInit.cb = None
    /\ UvppInit.state = [h \in Handles |-> "unborn"]
    /\ UvppInit.connected = {} /\ UvppInit.failed = {}
    /\ ~UvppInit.running /\ ~UvppInit.stopped
  BY InitSound, InitIs DEF StreamsFields, UvppFields, Added, UvInit

LEMMA InitKeepsInv == Init => EchoInv
<1> SUFFICES ASSUME Init PROVE EchoInv
  OBVIOUS
<1>1. uv = UvppInit /\ main = "start" /\ numClients = 0 /\ overwritten = {} /\ exiting = FALSE
  BY DEF Init
<1>2. LoopFollowsMain /\ EndIsClean
  BY <1>1, InitFacts DEF LoopFollowsMain, EndIsClean, LoopIsClosedClean
<1>3. Clients(uv) = {}
  BY <1>1, InitFacts DEF Clients
<1>4. ClientsAreCounted
  BY <1>1, <1>3, CountIs, FS_EmptySet
<1>5. Sound(uv) /\ Begun(uv) /\ uv.cb.kind = "none"
  BY <1>1, InitFacts DEF None
<1>6. main \in Phases /\ numClients \in Int /\ overwritten \subseteq Conns
  BY <1>1 DEF Phases
<1>7. exiting \in BOOLEAN
  BY <1>1
<1> QED
  BY <1>2, <1>4, <1>5, <1>6, <1>7 DEF EchoInv

LEMMA SetupKeepsInv ==
    ASSUME EchoInv, Setup
    PROVE  EchoInv'
<1> DEFINE U1 == New(uv, pServer)
           U2 == New(U1, pFlushTmr)
           U3 == New(U2, pStopTmr)
           U4 == UvTimerStart(U3, pFlushTmr)
           U5 == UvTimerStart(U4, pStopTmr)
<1>0. /\ pServer \in Servers /\ pFlushTmr \in Timers /\ pStopTmr \in Timers /\ Timers = {pFlushTmr, pStopTmr}
      /\ pServer \notin Conns \cup Timers /\ pFlushTmr \notin Conns /\ pStopTmr \notin Conns
      /\ pFlushTmr # pStopTmr
      /\ pServer \in Handles /\ pFlushTmr \in Handles /\ pStopTmr \in Handles
  BY EchoAssumption, KindsOfHandles
<1>1. /\ uv = UvppInit /\ main = "start" /\ main' = "ready" /\ ~exiting
      /\ UNCHANGED <<numClients, overwritten, exiting>>
  BY DEF Setup, EchoInv, LoopFollowsMain
<1>2. /\ Sound(uv) /\ uv.cb = None /\ uv.state = [h \in Handles |-> "unborn"]
      /\ uv.connected = {} /\ uv.failed = {} /\ ~uv.running /\ ~uv.stopped
  BY <1>1, InitFacts
<1>3. /\ Sound(U1) /\ Went(uv, U1) /\ U1.cb = uv.cb /\ U1.state = [uv.state EXCEPT ![pServer] = "open"]
      /\ U1.refs = uv.refs \cup {pServer} /\ U1.connected = uv.connected /\ U1.failed = uv.failed
  BY <1>0, <1>2, NewSound
<1> HIDE DEF U1
<1>3a. U1.state[pServer] = "open" /\ U1.state[pFlushTmr] = "unborn" /\ U1.state[pStopTmr] = "unborn"
       /\ U1.state \in [Handles -> States]
  BY <1>0, <1>2, <1>3 DEF States
<1>4. /\ Sound(U2) /\ Went(U1, U2) /\ U2.cb = U1.cb /\ U2.state = [U1.state EXCEPT ![pFlushTmr] = "open"]
      /\ U2.refs = U1.refs \cup {pFlushTmr} /\ U2.connected = U1.connected /\ U2.failed = U1.failed
  BY <1>0, <1>3, <1>3a, NewSound
<1> HIDE DEF U2
<1>4a. U2.state[pServer] = "open" /\ U2.state[pFlushTmr] = "open" /\ U2.state[pStopTmr] = "unborn"
       /\ U2.state \in [Handles -> States]
  BY <1>0, <1>3a, <1>4 DEF States
<1>5. /\ Sound(U3) /\ Went(U2, U3) /\ U3.cb = U2.cb /\ U3.state = [U2.state EXCEPT ![pStopTmr] = "open"]
      /\ U3.refs = U2.refs \cup {pStopTmr} /\ U3.connected = U2.connected /\ U3.failed = U2.failed
  BY <1>0, <1>4, <1>4a, NewSound
<1> HIDE DEF U3
<1>6. U3.state[pServer] = "open" /\ U3.state[pFlushTmr] = "open" /\ U3.state[pStopTmr] = "open"
  BY <1>0, <1>4a, <1>5
<1>7. /\ Sound(U4) /\ Kept(U3, U4) /\ Went(U3, U4) /\ U4.cb = U3.cb /\ U4.connected = U3.connected
      /\ U4.active = U3.active \cup {pFlushTmr}
  <2>1. Open(U3, pFlushTmr) /\ pFlushTmr \in Servers \cup Timers
    BY <1>0, <1>6 DEF Open
  <2> QED
    BY <1>0, <1>5, <2>1, StartSound
<1> HIDE DEF U4
<1>8. /\ Sound(U5) /\ Kept(U4, U5) /\ Went(U4, U5) /\ U5.cb = U4.cb /\ U5.connected = U4.connected
      /\ U5.active = U4.active \cup {pStopTmr}
  <2>1. U4.state[pStopTmr] = "open"
    BY <1>6, <1>7 DEF Kept
  <2> QED
    BY <1>0, <1>7, <2>1, StartSound DEF Open
<1>9. uv' = U5 \/ uv' = UvListen(U5, pServer)
  BY DEF Setup, U1, U2, U3, U4, U5
<1> HIDE DEF U5
<1>10. /\ Sound(uv') /\ Kept(U5, uv') /\ Went(U5, uv') /\ uv'.cb = U5.cb /\ uv'.connected = U5.connected
       /\ U5.active \subseteq uv'.active
  <2>1. CASE uv' = U5
    BY <1>8, <2>1 DEF Kept, Went
  <2>2. CASE uv' = UvListen(U5, pServer)
    <3>1. U5.state[pServer] = "open"
      BY <1>6, <1>7, <1>8 DEF Kept
    <3>2. uv' = UvTimerStart(U5, pServer)
      BY <2>2, ListenIs
    <3> QED
      BY <1>0, <1>8, <3>1, <3>2, StartSound DEF Open
  <2> QED
    BY <1>9, <2>1, <2>2
<1>11. /\ uv'.cb = None /\ uv'.failed = {} /\ ~uv'.running /\ ~uv'.stopped /\ uv'.connected = {}
  BY <1>2, <1>3, <1>4, <1>5, <1>7, <1>8, <1>10 DEF Kept, Went
<1>12. TimersRun(uv')
  BY <1>0, <1>4, <1>5, <1>6, <1>7, <1>8, <1>10 DEF TimersRun, Open, Kept
<1>13. ClientsAreCounted'
  <2>1. Clients(uv) = {} /\ Clients(uv') = {}
    BY <1>2, <1>11 DEF Clients
  <2> QED
    BY <1>1, <1>2, <1>11, <2>1, CountIs, CountPrimeIs DEF EchoInv
<1>14. LoopFollowsMain' /\ EndIsClean'
  BY <1>1, <1>11, <1>12 DEF LoopFollowsMain, EndIsClean, LoopIsClosedClean
<1> QED
  BY <1>1, <1>10, <1>11, <1>13, <1>14 DEF EchoInv, Begun, None, Phases

LEMMA RunLoopKeepsInv ==
    ASSUME EchoInv, RunLoop
    PROVE  EchoInv'
<1>1. /\ main = "ready" /\ main' = "running" /\ Run /\ UNCHANGED <<numClients, overwritten, exiting>>
      /\ Sound(uv) /\ Begun(uv) /\ ~uv.stopped /\ ~exiting /\ TimersRun(uv) /\ LoopIsClosedClean
      /\ uv.cb = None
  BY DEF RunLoop, EchoInv, LoopFollowsMain, EndIsClean
<1>2. Alive(uv)
  <2>1. pStopTmr \in Timers /\ pStopTmr \in Handles
    BY EchoAssumption, KindsOfHandles
  <2> QED
    BY <1>1, <2>1 DEF Alive, TimersRun
<1>3. /\ Sound(uv') /\ Begun(uv') /\ Kept(uv, uv') /\ uv'.cb = uv.cb
      /\ uv'.active = uv.active /\ uv'.connected = uv.connected
      /\ uv'.isRunning /\ ~uv'.stopped /\ uv'.running
  BY <1>1, <1>2, RunSound
<1>4. Clients(uv') = Clients(uv) /\ TimersRun(uv')
  BY <1>1, <1>3 DEF Clients, TimersRun, Open, Kept
<1>5. ClientsAreCounted'
  BY <1>1, <1>3, <1>4, CountIs, CountPrimeIs DEF EchoInv, Kept
<1>6. LoopFollowsMain' /\ EndIsClean'
  BY <1>1, <1>3, <1>4 DEF LoopFollowsMain, EndIsClean, LoopIsClosedClean, Kept
<1> QED
  BY <1>1, <1>3, <1>5, <1>6 DEF EchoInv, Phases, None

\* uv_run returns only when the operator has ended the server.
LEMMA RunReturnsKeepsInv ==
    ASSUME EchoInv, RunReturns
    PROVE  EchoInv'
<1>1. /\ main = "running" /\ main' = "returned" /\ RunEnds /\ UNCHANGED <<numClients, overwritten, exiting>>
      /\ Sound(uv) /\ ~uv.stopped /\ LoopIsClosedClean
      /\ IF exiting THEN Opened(uv) = {} ELSE TimersRun(uv)
  BY DEF RunReturns, EchoInv, LoopFollowsMain, EndIsClean
<1>2. /\ Sound(uv') /\ Begun(uv') /\ Kept(uv, uv') /\ uv'.cb = None
      /\ uv'.active = uv.active /\ uv'.connected = uv.connected
      /\ uv'.shutting = uv.shutting /\ uv'.writes = uv.writes
      /\ ~uv'.running /\ ~uv'.stopped /\ ~Alive(uv)
  BY <1>1, RunEndsSound
<1>3. exiting /\ Opened(uv) = {}
  <2>1. pStopTmr \in Timers /\ pStopTmr \in Handles
    BY EchoAssumption, KindsOfHandles
  <2> QED
    BY <1>1, <1>2, <2>1 DEF Alive, TimersRun
<1>4. LoopCloses(uv')
  <2>1. Queued(uv') = {}
    BY <1>2, <1>3 DEF Alive, Queued, Opened, Open, Kept
  <2>2. \A c \in Conns : Answered(uv', c)
    BY <1>2 DEF Alive, Answered
  <2> QED
    BY <2>1, <2>2 DEF LoopCloses
<1>5. Opened(uv') = {}
  BY <1>2, <1>3 DEF Opened, Open, Kept
<1>6. ClientsAreCounted'
  BY <1>1, <1>3, CountPrimeIs
<1>7. LoopFollowsMain' /\ EndIsClean'
  BY <1>1, <1>2, <1>3, <1>4, <1>5 DEF LoopFollowsMain, EndIsClean, LoopIsClosedClean, Kept
<1> QED
  BY <1>1, <1>2, <1>6, <1>7 DEF EchoInv, Phases, None

\* uv_loop_close succeeds: what is left is not touched by the end of the loop.
LEMMA LeaveKeepsInv ==
    ASSUME EchoInv, Leave
    PROVE  EchoInv'
<1>1. /\ main = "returned" /\ main' = "ended" /\ UNCHANGED <<numClients, overwritten, exiting>>
      /\ Sound(uv) /\ Begun(uv) /\ ~uv.running /\ uv.cb = None /\ LoopCloses(uv) /\ LoopIsClosedClean
      /\ IF exiting THEN Opened(uv) = {} ELSE TimersRun(uv)
  BY DEF Leave, EchoInv, LoopFollowsMain, EndIsClean
<1>2. uv' = Stop(uv)
  BY <1>1 DEF Leave, DestroyLoop, Check
<1>3. /\ Sound(uv') /\ Begun(uv') /\ Kept(uv, uv') /\ ~uv'.running /\ uv'.cb = None
      /\ uv'.active = uv.active /\ uv'.connected = uv.connected
  BY <1>1, <1>2, StopSound
<1>4. Clients(uv') = Clients(uv) /\ Opened(uv') = Opened(uv) /\ (TimersRun(uv) => TimersRun(uv'))
  BY <1>3 DEF Clients, TimersRun, Opened, Open, Kept
<1>5. ClientsAreCounted'
  BY <1>1, <1>3, <1>4, CountIs, CountPrimeIs DEF EchoInv, Kept
<1>6. LoopFollowsMain' /\ EndIsClean'
  BY <1>1, <1>3, <1>4 DEF LoopFollowsMain, EndIsClean, LoopIsClosedClean, Kept
<1> QED
  BY <1>1, <1>3, <1>5, <1>6 DEF EchoInv, Phases, None

-----------------------------------------------------------------------------
\* The theorems

LEMMA NextKeepsInv == EchoInv /\ [Next]_vars => EchoInv'
<1> SUFFICES ASSUME EchoInv, [Next]_vars PROVE EchoInv'
  OBVIOUS
<1>1. CASE UNCHANGED vars
  BY <1>1 DEF vars, EchoInv, LoopFollowsMain, EndIsClean, LoopIsClosedClean, ClientsAreCounted, Fresh
<1>2. CASE Handlers
  BY <1>2, OnConnectionKeepsInv, OnReadErrorKeepsInv, OnReadKeepsInv, OnWriteKeepsInv,
     OnShutdownKeepsInv, OnTimerKeepsInv, OnClosedKeepsInv DEF Handlers
<1>3. CASE Setup \/ RunLoop \/ RunReturns \/ Leave
  BY <1>3, SetupKeepsInv, RunLoopKeepsInv, RunReturnsKeepsInv, LeaveKeepsInv
<1>4. CASE Connects \/ (\E c \in Conns : Receives(c)) \/ CallsBack
  BY <1>4, ConnectsKeepsInv, ReceivesKeepsInv, CallsBackKeepsInv
<1> QED
  BY <1>1, <1>2, <1>3, <1>4 DEF Next

LEMMA EchoInvariant == Spec => []EchoInv
  BY InitKeepsInv, NextKeepsInv, PTL DEF Spec

\* The echo server deletes its wrappers when nothing uses them any more, and the loop it
\* leaves can be closed, whatever accept, getpeername, reads and writes return and however
\* many clients and echoes there are when the operator ends it (TestServer.cpp).
THEOREM ServerEndsClean == Spec => []EndsClean
<1>1. EchoInv => EndsClean
  <2> SUFFICES ASSUME EchoInv PROVE EndsClean
    OBVIOUS
  <2>1. Sound(uv) /\ uv \in UvppType
    BY DEF EchoInv, Sound
  <2>2. TypeOK
    BY <2>1, Typed DEF EchoInv, TypeOK, Phases
  <2>3. WrappersAreSafe
    BY <2>1 DEF Sound, WrappersAreSafe, NoHandleIsFreedInUse, NoDeletedWrapperIsUsed
  <2> QED
    BY <2>2, <2>3 DEF EndsClean, EchoInv, EndIsClean
<1> QED
  BY <1>1, EchoInvariant, PTL

\* As long as no assertion has failed, the number the server logs is the number of clients
\* it has accepted and not begun to delete (TestServer.cpp).
THEOREM ServerCountsItsClients == Spec => []ClientsAreCounted
<1>1. EchoInv => ClientsAreCounted
  BY DEF EchoInv
<1> QED
  BY <1>1, EchoInvariant, PTL

=============================================================================
