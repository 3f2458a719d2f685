---------------------------- MODULE StreamProofs ----------------------------
(***************************************************************************)
(* The proof that the event loop implements Streams: what libuv promises   *)
(* its clients is kept by every step of the library, of the kernel and of  *)
(* the clients, for every value of the constants but for the two           *)
(* situations the findings are about.                                      *)
(***************************************************************************)
EXTENDS CounterProofs

-----------------------------------------------------------------------------
\* What the invariant of the counters leaves open.

\* A handle is wanted for its endgame by its close, or by a shutdown that is not
\* answered.
Wanted(L, h) ==
    Has(L, h, "ENDGAME_QUEUED") => Has(L, h, "CLOSING") \/ (h \in Conns /\ ShutdownReq(h) \in L.active_reqs)

\* The socket of a stream is closed by uv_close itself.
Shut(L, h) == Has(L, h, "CLOSING") => h \in Timers \/ Has(L, h, "SOCKET_CLOSED")

SInv == \A h \in Handles : Wanted(loop, h) /\ Shut(loop, h)

-----------------------------------------------------------------------------
\* What a step of the library shows of a handle.

\* The flags a client cannot tell.
Hidden(h) == IF h \in Timers THEN {"ENDGAME_QUEUED"}
             ELSE {"ENDGAME_QUEUED", "ACTIVE", "READ_PENDING", "ZERO_READ"}

Face(L, h) == L.flags[h] \ Hidden(h)

\* From L to M only closing handles come on the list of endgames.
Lists(L, M) ==
    \A g \in Handles : Has(M, g, "ENDGAME_QUEUED") => Has(L, g, "ENDGAME_QUEUED") \/ Has(M, g, "CLOSING")

\* What a client can tell besides the flags stays.
Beside(L, M) ==
    M.handle_queue = L.handle_queue /\ M.pending_accepts = L.pending_accepts /\ M.stop_flag = L.stop_flag

\* From L to M nothing shows ...
Unseen(L, M) == Beside(L, M) /\ Lists(L, M) /\ \A g \in Handles : Face(M, g) = Face(L, g)

\* ... but that the face of h becomes F.
Turns(L, M, h, F) ==
    /\ Beside(L, M) /\ Lists(L, M)
    /\ Face(M, h) = F /\ ("CLOSING" \in Face(L, h) => "CLOSING" \in F)
    /\ \A g \in Handles \ {h} : Face(M, g) = Face(L, g)

\* A flag that is not hidden is in the face.
LEMMA FaceIs ==
    ASSUME NEW L, NEW h, NEW f
    PROVE  f \notin Hidden(h) => (Has(L, h, f) <=> f \in Face(L, h))
  BY DEF Face, Has

LEMMA ClosingShows ==
    ASSUME NEW L, NEW h
    PROVE  Has(L, h, "CLOSING") <=> "CLOSING" \in Face(L, h)
  BY DEF Face, Has, Hidden

LEMMA UnseenTrans ==
    ASSUME NEW L, NEW M, NEW N, Unseen(L, M), Unseen(M, N)
    PROVE  Unseen(L, N)
<1>1. Lists(L, N)
  BY ClosingShows DEF Unseen, Lists
<1> QED
  BY <1>1 DEF Unseen, Beside

LEMMA TurnsTrans ==
    ASSUME NEW L, NEW M, NEW N, NEW h \in Handles, NEW F, NEW G, Turns(L, M, h, F), Turns(M, N, h, G)
    PROVE  Turns(L, N, h, G)
<1>1. \A g \in Handles : Has(M, g, "CLOSING") => Has(N, g, "CLOSING")
  BY ClosingShows DEF Turns
<1>2. Lists(L, N)
  BY <1>1 DEF Turns, Lists
<1> QED
  BY <1>2 DEF Turns, Beside

LEMMA TurnsNot ==
    ASSUME NEW L, NEW M, NEW h \in Handles
    PROVE  Turns(L, M, h, Face(L, h)) <=> Unseen(L, M)
  BY DEF Turns, Unseen

LEMMA TurnsUnseen ==
    ASSUME NEW L, NEW M, NEW N, NEW h \in Handles, NEW F
    PROVE  /\ Turns(L, M, h, F) /\ Unseen(M, N) => Turns(L, N, h, F)
           /\ Unseen(L, M) /\ Turns(M, N, h, F) => Turns(L, N, h, F)
<1>1. ASSUME Turns(L, M, h, F), Unseen(M, N) PROVE Turns(L, N, h, F)
  <2>1. Face(M, h) = F
    BY <1>1 DEF Turns
  <2> QED
    BY <1>1, <2>1, TurnsNot, TurnsTrans
<1>2. ASSUME Unseen(L, M), Turns(M, N, h, F) PROVE Turns(L, N, h, F)
  <2>1. Turns(L, M, h, Face(L, h))
    BY <1>2, TurnsNot
  <2> QED
    BY <1>2, <2>1, TurnsTrans
<1> QED
  BY <1>1, <1>2

\* What the macros change alone.
LEMMA BecomesTurns ==
    ASSUME NEW L, NEW M, NEW h \in Handles, NEW F, NEW a, NEW p, Becomes(L, M, h, F, a, p),
           "ENDGAME_QUEUED" \in F => Has(L, h, "ENDGAME_QUEUED") \/ "CLOSING" \in F,
           Has(L, h, "CLOSING") => "CLOSING" \in F
    PROVE  Turns(L, M, h, F \ Hidden(h))
<1>1. Lists(L, M)
  BY DEF Becomes, Lists, Has
<1>2. Face(M, h) = F \ Hidden(h) /\ ("CLOSING" \in Face(L, h) => "CLOSING" \in F \ Hidden(h))
  BY DEF Becomes, Face, Hidden, Has
<1> QED
  BY <1>1, <1>2 DEF Becomes, Turns, Beside, Face

\* Nothing shows of changes to the other fields, nor of the hidden flags.
LEMMA AsideUnseen ==
    ASSUME NEW L, NEW M, M.flags = L.flags, Beside(L, M)
    PROVE  Unseen(L, M)
  BY DEF Unseen, Lists, Face, Has

LEMMA CheckUnseen ==
    ASSUME NEW L, LoopOK(L), NEW n, NEW e
    PROVE  Unseen(L, Check(L, n, e))
<1>1. /\ Check(L, n, e).flags = L.flags /\ Check(L, n, e).handle_queue = L.handle_queue
      /\ Check(L, n, e).pending_accepts = L.pending_accepts /\ Check(L, n, e).stop_flag = L.stop_flag
  BY DEF LoopOK, LoopType, Check
<1> QED
  BY <1>1, AsideUnseen DEF Beside

LEMMA OthersUnseen ==
    ASSUME NEW L \in LoopType, NEW x
    PROVE  /\ Unseen(L, [L EXCEPT !.activecnt = x])
           /\ Unseen(L, [L EXCEPT !.reqs_pending = x])
           /\ Unseen(L, [L EXCEPT !.write_reqs_pending = x])
           /\ Unseen(L, [L EXCEPT !.shutdown_req = x])
           /\ Unseen(L, [L EXCEPT !.active_handles = x])
           /\ Unseen(L, [L EXCEPT !.active_reqs = x])
           /\ Unseen(L, [L EXCEPT !.accept_socket = x])
           /\ Unseen(L, [L EXCEPT !.kernel = x])
           /\ Unseen(L, [L EXCEPT !.iocp = x])
           /\ Unseen(L, [L EXCEPT !.pending = x])
<1>1. Unseen(L, [L EXCEPT !.activecnt = x])
  <2> DEFINE M == [L EXCEPT !.activecnt = x]
  <2>1. M.flags = L.flags /\ M.handle_queue = L.handle_queue /\ M.pending_accepts = L.pending_accepts /\ M.stop_flag = L.stop_flag
    BY DEF LoopType
  <2> HIDE DEF M
  <2>2. Unseen(L, M)
    BY <2>1, AsideUnseen DEF Beside
  <2> QED
    BY <2>2 DEF M
<1>2. Unseen(L, [L EXCEPT !.reqs_pending = x])
  <2> DEFINE M == [L EXCEPT !.reqs_pending = x]
  <2>1. M.flags = L.flags /\ M.handle_queue = L.handle_queue /\ M.pending_accepts = L.pending_accepts /\ M.stop_flag = L.stop_flag
    BY DEF LoopType
  <2> HIDE DEF M
  <2>2. Unseen(L, M)
    BY <2>1, AsideUnseen DEF Beside
  <2> QED
    BY <2>2 DEF M
<1>3. Unseen(L, [L EXCEPT !.write_reqs_pending = x])
  <2> DEFINE M == [L EXCEPT !.write_reqs_pending = x]
  <2>1. M.flags = L.flags /\ M.handle_queue = L.handle_queue /\ M.pending_accepts = L.pending_accepts /\ M.stop_flag = L.stop_flag
    BY DEF LoopType
  <2> HIDE DEF M
  <2>2. Unseen(L, M)
    BY <2>1, AsideUnseen DEF Beside
  <2> QED
    BY <2>2 DEF M
<1>4. Unseen(L, [L EXCEPT !.shutdown_req = x])
  <2> DEFINE M == [L EXCEPT !.shutdown_req = x]
  <2>1. M.flags = L.flags /\ M.handle_queue = L.handle_queue /\ M.pending_accepts = L.pending_accepts /\ M.stop_flag = L.stop_flag
    BY DEF LoopType
  <2> HIDE DEF M
  <2>2. Unseen(L, M)
    BY <2>1, AsideUnseen DEF Beside
  <2> QED
    BY <2>2 DEF M
<1>5. Unseen(L, [L EXCEPT !.active_handles = x])
  <2> DEFINE M == [L EXCEPT !.active_handles = x]
  <2>1. M.flags = L.flags /\ M.handle_queue = L.handle_queue /\ M.pending_accepts = L.pending_accepts /\ M.stop_flag = L.stop_flag
    BY DEF LoopType
  <2> HIDE DEF M
  <2>2. Unseen(L, M)
    BY <2>1, AsideUnseen DEF Beside
  <2> QED
    BY <2>2 DEF M
<1>6. Unseen(L, [L EXCEPT !.active_reqs = x])
  <2> DEFINE M == [L EXCEPT !.active_reqs = x]
  <2>1. M.flags = L.flags /\ M.handle_queue = L.handle_queue /\ M.pending_accepts = L.pending_accepts /\ M.stop_flag = L.stop_flag
    BY DEF LoopType
  <2> HIDE DEF M
  <2>2. Unseen(L, M)
    BY <2>1, AsideUnseen DEF Beside
  <2> QED
    BY <2>2 DEF M
<1>7. Unseen(L, [L EXCEPT !.accept_socket = x])
  <2> DEFINE M == [L EXCEPT !.accept_socket = x]
  <2>1. M.flags = L.flags /\ M.handle_queue = L.handle_queue /\ M.pending_accepts = L.pending_accepts /\ M.stop_flag = L.stop_flag
    BY DEF LoopType
  <2> HIDE DEF M
  <2>2. Unseen(L, M)
    BY <2>1, AsideUnseen DEF Beside
  <2> QED
    BY <2>2 DEF M
<1>8. Unseen(L, [L EXCEPT !.kernel = x])
  <2> DEFINE M == [L EXCEPT !.kernel = x]
  <2>1. M.flags = L.flags /\ M.handle_queue = L.handle_queue /\ M.pending_accepts = L.pending_accepts /\ M.stop_flag = L.stop_flag
    BY DEF LoopType
  <2> HIDE DEF M
  <2>2. Unseen(L, M)
    BY <2>1, AsideUnseen DEF Beside
  <2> QED
    BY <2>2 DEF M
<1>9. Unseen(L, [L EXCEPT !.iocp = x])
  <2> DEFINE M == [L EXCEPT !.iocp = x]
  <2>1. M.flags = L.flags /\ M.handle_queue = L.handle_queue /\ M.pending_accepts = L.pending_accepts /\ M.stop_flag = L.stop_flag
    BY DEF LoopType
  <2> HIDE DEF M
  <2>2. Unseen(L, M)
    BY <2>1, AsideUnseen DEF Beside
  <2> QED
    BY <2>2 DEF M
<1>10. Unseen(L, [L EXCEPT !.pending = x])
  <2> DEFINE M == [L EXCEPT !.pending = x]
  <2>1. M.flags = L.flags /\ M.handle_queue = L.handle_queue /\ M.pending_accepts = L.pending_accepts /\ M.stop_flag = L.stop_flag
    BY DEF LoopType
  <2> HIDE DEF M
  <2>2. Unseen(L, M)
    BY <2>1, AsideUnseen DEF Beside
  <2> QED
    BY <2>2 DEF M
<1> QED
  BY <1>1, <1>2, <1>3, <1>4, <1>5, <1>6, <1>7, <1>8, <1>9, <1>10

\* The flags of one handle are changed, and nothing else that shows.
LEMMA FlagsTurn ==
    ASSUME NEW L, LoopOK(L), NEW h \in Handles, NEW M, NEW G, M.flags = [L.flags EXCEPT ![h] = G], Beside(L, M),
           "ENDGAME_QUEUED" \in G => Has(L, h, "ENDGAME_QUEUED"), Has(L, h, "CLOSING") => "CLOSING" \in G
    PROVE  Turns(L, M, h, G \ Hidden(h))
<1>1. L.flags \in [Handles -> SUBSET Flags]
  BY DEF LoopOK, LoopType
<1>2. M.flags[h] = G /\ \A g \in Handles \ {h} : M.flags[g] = L.flags[g]
  BY <1>1
<1>3. Lists(L, M)
  BY <1>2 DEF Lists, Has
<1>4. Face(M, h) = G \ Hidden(h) /\ \A g \in Handles \ {h} : Face(M, g) = Face(L, g)
  BY <1>2 DEF Face
<1>5. "CLOSING" \in Face(L, h) => "CLOSING" \in G \ Hidden(h)
  BY DEF Face, Has, Hidden
<1> QED
  BY <1>3, <1>4, <1>5 DEF Turns

LEMMA SetFlagsTurns ==
    ASSUME NEW L, LoopOK(L), NEW h \in Handles, NEW F, "ENDGAME_QUEUED" \notin F
    PROVE  Turns(L, SetFlags(L, h, F), h, Face(L, h) \cup (F \ Hidden(h)))
<1> DEFINE M == SetFlags(L, h, F)
           G == L.flags[h] \cup F
<1>1. M.flags = [L.flags EXCEPT ![h] = G] /\ Beside(L, M)
  BY DEF LoopOK, LoopType, SetFlags, Beside
<1>2. /\ "ENDGAME_QUEUED" \in G => Has(L, h, "ENDGAME_QUEUED")
      /\ Has(L, h, "CLOSING") => "CLOSING" \in G
  BY DEF Has
<1>3. G \ Hidden(h) = Face(L, h) \cup (F \ Hidden(h))
  BY DEF Face
<1> HIDE DEF M, G
<1>4. Turns(L, M, h, G \ Hidden(h))
  BY <1>1, <1>2, FlagsTurn
<1> QED
  BY <1>3, <1>4 DEF M

LEMMA ClearTurns ==
    ASSUME NEW L, LoopOK(L), NEW h \in Handles, NEW F, "CLOSING" \notin F
    PROVE  Turns(L, Clear(L, h, F), h, Face(L, h) \ F)
<1> DEFINE M == Clear(L, h, F)
           G == L.flags[h] \ F
<1>1. M.flags = [L.flags EXCEPT ![h] = G] /\ Beside(L, M)
  BY DEF LoopOK, LoopType, Clear, Beside
<1>2. /\ "ENDGAME_QUEUED" \in G => Has(L, h, "ENDGAME_QUEUED")
      /\ Has(L, h, "CLOSING") => "CLOSING" \in G
  BY DEF Has
<1>3. G \ Hidden(h) = Face(L, h) \ F
  BY DEF Face
<1> HIDE DEF M, G
<1>4. Turns(L, M, h, G \ Hidden(h))
  BY <1>1, <1>2, FlagsTurn
<1> QED
  BY <1>3, <1>4 DEF M

\* Hidden flags come and go unseen.
LEMMA HiddenUnseen ==
    ASSUME NEW L, LoopOK(L), NEW h \in Servers \cup Conns, NEW F \in SUBSET {"ACTIVE", "READ_PENDING", "ZERO_READ"}
    PROVE  Unseen(L, SetFlags(L, h, F)) /\ Unseen(L, Clear(L, h, F))
<1>1. h \in Handles /\ F \subseteq Hidden(h) /\ "CLOSING" \notin F /\ "ENDGAME_QUEUED" \notin F
  BY Kinds DEF Hidden
<1>2. Turns(L, SetFlags(L, h, F), h, Face(L, h) \cup (F \ Hidden(h))) /\ Turns(L, Clear(L, h, F), h, Face(L, h) \ F)
  BY <1>1, SetFlagsTurns, ClearTurns
<1>3. Face(L, h) \cup (F \ Hidden(h)) = Face(L, h) /\ Face(L, h) \ F = Face(L, h)
  BY <1>1 DEF Face
<1> QED
  BY <1>1, <1>2, <1>3, TurnsNot

\* win/handle-inl.h and uv-common.h: what keeps a stream active is hidden.

LEMMA StartUnseen ==
    ASSUME NEW L, LoopOK(L), NEW h \in Servers \cup Conns
    PROVE  Unseen(L, HandleStart(L, h)) /\ Unseen(L, HandleStop(L, h))
<1> DEFINE A == Check(L, "start: not closing", ~Has(L, h, "CLOSING"))
           B == Check(L, "stop: not closing", ~Has(L, h, "CLOSING"))
           C == SetFlags(A, h, {"ACTIVE"})
           D == Clear(B, h, {"ACTIVE"})
<1>1. h \in Handles
  BY Kinds
<1>2. Unseen(L, A) /\ LoopOK(A) /\ Unseen(L, B) /\ LoopOK(B)
  BY CheckUnseen, CheckOK DEF Assertions
<1> HIDE DEF A, B
<1>3. Unseen(A, C) /\ Unseen(B, D)
  BY <1>2, HiddenUnseen
<1>4. C \in LoopType /\ D \in LoopType
  BY <1>1, <1>2, SetFlagsIs DEF LoopOK, Flagged, Flags
<1> HIDE DEF C, D
<1>5. Unseen(C, ActiveHandleAdd(C)) /\ Unseen(D, ActiveHandleRm(D))
  BY <1>4, OthersUnseen DEF ActiveHandleAdd, ActiveHandleRm
<1>6. HandleStart(L, h) \in {A, C, ActiveHandleAdd(C)} /\ HandleStop(L, h) \in {B, D, ActiveHandleRm(D)}
  BY DEF HandleStart, HandleStop, A, B, C, D
<1> QED
  BY <1>2, <1>3, <1>5, <1>6, UnseenTrans

LEMMA CountUnseen ==
    ASSUME NEW L, LoopOK(L), NEW h \in Servers \cup Conns
    PROVE  Unseen(L, IncreaseActiveCount(L, h)) /\ Unseen(L, DecreaseActiveCount(L, h))
<1> DEFINE a == L.activecnt[h] + 1
           c == L.activecnt[h] - 1
           A == [L EXCEPT !.activecnt[h] = a]
           B == IF L.activecnt[h] = 0 THEN HandleStart(A, h) ELSE A
           C == [L EXCEPT !.activecnt[h] = c]
           D == IF C.activecnt[h] = 0 /\ ~Has(L, h, "CLOSING") THEN HandleStop(C, h) ELSE C
<1>1. h \in Handles /\ L \in LoopType /\ a \in Int /\ c \in Int
  BY Kinds DEF LoopOK, LoopType
<1> HIDE DEF a, c
<1>2. Same(L, A) /\ Same(L, C)
  BY <1>1 DEF LoopType, Same
<1>3. Unseen(L, A) /\ Unseen(L, C)
  BY <1>1, OthersUnseen
<1>4. LoopOK(A) /\ LoopOK(C)
  BY <1>2, SameOK
<1>5. IncreaseActiveCount(L, h) = Check(B, "activecnt > 0", B.activecnt[h] > 0)
  BY DEF IncreaseActiveCount, a
<1>6. DecreaseActiveCount(L, h) = Check(D, "activecnt >= 0", D.activecnt[h] >= 0)
  BY DEF DecreaseActiveCount, c
<1> HIDE DEF A, C
<1>7. LoopOK(B) /\ Unseen(L, B)
  BY <1>1, <1>3, <1>4, StartUnseen, HandleStartOK, UnseenTrans
<1>8. LoopOK(D) /\ Unseen(L, D)
  BY <1>1, <1>3, <1>4, StartUnseen, HandleStopOK, UnseenTrans
<1> HIDE DEF B, D
<1> QED
  BY <1>5, <1>6, <1>7, <1>8, CheckUnseen, UnseenTrans

LEMMA RequestUnseen ==
    ASSUME NEW L, LoopOK(L), NEW h \in Servers \cup Conns, NEW r \in ClientReqs
    PROVE  Unseen(L, RegisterHandleReq(L, h, r)) /\ Unseen(L, UnregisterHandleReq(L, h, r))
<1> DEFINE A == IncreaseActiveCount(L, h)
           B == DecreaseActiveCount(L, h)
           C == Check(B, "unregister: has active reqs", B.active_reqs # {})
<1>1. h \in Handles
  BY Kinds
<1>2. LoopOK(A) /\ Unseen(L, A) /\ LoopOK(B) /\ Unseen(L, B)
  BY <1>1, CountUnseen, IncreaseActiveCountOK, DecreaseActiveCountOK
<1> HIDE DEF A, B
<1>3. LoopOK(C) /\ Unseen(B, C)
  BY <1>2, CheckUnseen, CheckOK DEF Assertions
<1> HIDE DEF C
<1>4. Unseen(A, ReqRegister(A, r)) /\ Unseen(C, [C EXCEPT !.active_reqs = @ \ {r}])
  BY <1>2, <1>3, OthersUnseen DEF ReqRegister, LoopOK
<1>5. RegisterHandleReq(L, h, r) = ReqRegister(A, r)
  BY DEF RegisterHandleReq, A
<1>6. UnregisterHandleReq(L, h, r) = [C EXCEPT !.active_reqs = @ \ {r}]
  BY DEF UnregisterHandleReq, ReqUnregister, B, C
<1> QED
  BY <1>2, <1>3, <1>4, <1>5, <1>6, UnseenTrans

\* A handle that is closing is wanted for its endgame unseen.
LEMMA WantEndgameUnseen ==
    ASSUME NEW L, LoopOK(L), NEW h \in Handles, Has(L, h, "CLOSING")
    PROVE  Unseen(L, WantEndgame(L, h))
<1> DEFINE F == L.flags[h] \cup {"ENDGAME_QUEUED"}
<1>1. Turns(L, WantEndgame(L, h), h, F \ Hidden(h))
  BY WantEndgameBecomes, BecomesTurns DEF Has
<1>2. F \ Hidden(h) = Face(L, h)
  BY DEF Face, Hidden
<1> QED
  BY <1>1, <1>2, TurnsNot

LEMMA PendingCountUnseen ==
    ASSUME NEW L, LoopOK(L), NEW h \in Servers \cup Conns
    PROVE  Unseen(L, IncreasePendingReqCount(L, h, 1)) /\ Unseen(L, DecreasePendingReqCount(L, h))
<1> DEFINE A == Check(L, "reqs_pending > 0", L.reqs_pending[h] > 0)
           B == [A EXCEPT !.reqs_pending[h] = @ - 1]
<1>1. h \in Handles /\ LoopOK(A) /\ Unseen(L, A)
  BY Kinds, CheckUnseen, CheckOK DEF Assertions
<1>2. DecreasePendingReqCount(L, h) =
          IF Has(B, h, "CLOSING") /\ B.reqs_pending[h] = 0 THEN WantEndgame(B, h) ELSE B
  BY DEF DecreasePendingReqCount
<1>3. Unseen(L, IncreasePendingReqCount(L, h, 1))
  BY OthersUnseen DEF IncreasePendingReqCount, LoopOK
<1> HIDE DEF A
<1>4. Same(A, B)
  <2> DEFINE n == A.reqs_pending[h] - 1
  <2>1. A \in LoopType /\ A.reqs_pending[h] - 1 = n /\ n \in Int
    BY <1>1 DEF LoopOK, LoopType
  <2> HIDE DEF n
  <2> QED
    BY <1>1, <2>1 DEF LoopType, Same
<1>5. LoopOK(B)
  BY <1>1, <1>4, SameOK
<1>6. Unseen(A, B)
  BY <1>1, OthersUnseen DEF LoopOK
<1> HIDE DEF B
<1> QED
  BY <1>1, <1>2, <1>3, <1>5, <1>6, WantEndgameUnseen, UnseenTrans

-----------------------------------------------------------------------------
\* What the functions of Tcp show.

LEMMA InsertPendingUnseen ==
    ASSUME NEW L, LoopOK(L), NEW r, NEW ok
    PROVE  Unseen(L, InsertPendingReq(L, r, ok))
<1> DEFINE A == Check(L, "pending: not queued", \A i \in DOMAIN L.pending : L.pending[i].req # r)
<1>1. LoopOK(A) /\ Unseen(L, A)
  BY CheckUnseen, CheckOK DEF Assertions
<1> HIDE DEF A
<1>2. Unseen(A, [A EXCEPT !.pending = Append(@, Packet(r, ok))])
  BY <1>1, OthersUnseen DEF LoopOK
<1> QED
  BY <1>1, <1>2, UnseenTrans DEF A, InsertPendingReq

LEMMA QueueReadUnseen ==
    ASSUME NEW L, LoopOK(L), NEW c \in Conns, NEW how \in Answers
    PROVE  Unseen(L, QueueRead(L, c, how))
<1> DEFINE A == Check(L, "queue_read: reading", Has(L, c, "READING"))
           pend == ~Has(L, c, "READ_PENDING")
           B == Check(A, "queue_read: no read pending", pend)
           F == {"ZERO_READ"} \cup IF how = "failed" THEN {} ELSE {"READ_PENDING"}
           C == SetFlags(B, c, F)
           D == IncreasePendingReqCount(C, c, 1)
           K == [D EXCEPT !.kernel = @ \cup {ReadReq(c)}]
           ok == how = "bypass"
<1> HIDE DEF pend
<1>1. /\ c \in Handles /\ c \in Servers \cup Conns /\ F \in SUBSET OtherFlags
      /\ F \in SUBSET {"ACTIVE", "READ_PENDING", "ZERO_READ"}
  BY DEF Handles, OtherFlags, Flags
<1> HIDE DEF F, ok
<1>2. LoopOK(A) /\ Unseen(L, A)
  BY CheckOK, CheckUnseen DEF Assertions
<1> HIDE DEF A
<1>3. LoopOK(B) /\ Unseen(A, B)
  BY <1>2, CheckOK, CheckUnseen DEF Assertions
<1> HIDE DEF B
<1>4. LoopOK(C) /\ Unseen(B, C)
  BY <1>1, <1>3, SetOtherOK, HiddenUnseen
<1> HIDE DEF C
<1>5. LoopOK(D) /\ Unseen(C, D)
  BY <1>1, <1>4, IncreasePendingReqCountOK, PendingCountUnseen
<1> HIDE DEF D
<1>6. Unseen(D, K) /\ Unseen(D, InsertPendingReq(D, ReadReq(c), ok))
  BY <1>5, OthersUnseen, InsertPendingUnseen DEF LoopOK
<1>7. QueueRead(L, c, how) \in {K, InsertPendingReq(D, ReadReq(c), ok)}
  BY DEF K, D, C, B, A, F, ok, pend, QueueRead
<1> HIDE DEF K
<1> QED
  BY <1>2, <1>3, <1>4, <1>5, <1>6, <1>7, UnseenTrans

LEMMA QueueAcceptsUnseen ==
    ASSUME NEW L, LoopOK(L), NEW s \in Servers, NEW how, NEW soon
    PROVE  Unseen(L, QueueAccepts(L, s, how, soon))
<1> DEFINE A == Check(L, "queue_accept: listening", Has(L, s, "LISTENING"))
           e == DOMAIN how \cap L.accept_socket = {}
           B == Check(A, "queue_accept: no socket", DOMAIN how \cap L.accept_socket = {})
           w == B.accept_socket \cup {r \in DOMAIN how : how[r] # "failed"}
           x == B.kernel \cup {r \in DOMAIN how : how[r] = "queued"}
           y == B.pending \o [i \in DOMAIN soon |-> Packet(soon[i], how[soon[i]] = "bypass")]
           z == B.reqs_pending[s] + Cardinality(DOMAIN how)
           M == [B EXCEPT !.accept_socket = w, !.kernel = x, !.pending = y, !.reqs_pending[s] = z]
<1>1. LoopOK(A) /\ Unseen(L, A)
  BY CheckOK, CheckUnseen DEF Assertions
<1> HIDE DEF A, e
<1>2. LoopOK(B) /\ Unseen(A, B)
  BY <1>1, CheckOK, CheckUnseen DEF Assertions
<1>3. QueueAccepts(L, s, how, soon) = M
  BY DEF QueueAccepts, A
<1> HIDE DEF B, w, x, y, z
<1>4. M.flags = B.flags /\ M.handle_queue = B.handle_queue /\ M.pending_accepts = B.pending_accepts /\ M.stop_flag = B.stop_flag
  BY <1>2 DEF LoopOK, LoopType
<1> HIDE DEF M
<1>5. Unseen(B, M)
  BY <1>4, AsideUnseen DEF Beside
<1> QED
  BY <1>1, <1>2, <1>3, <1>5, UnseenTrans

LEMMA QueueAcceptUnseen ==
    ASSUME NEW L, LoopOK(L), NEW r \in AcceptReqs, NEW how
    PROVE  Unseen(L, QueueAccept(L, r, how))
<1>1. r.handle \in Servers
  BY DEF AcceptReqs
<1> QED
  BY <1>1, QueueAcceptsUnseen DEF QueueAccept

\* A stream starts or stops what F says.
LEMMA StartsTurns ==
    ASSUME NEW L, LoopOK(L), NEW h \in Servers \cup Conns, NEW F \in SUBSET OtherFlags
    PROVE  /\ Turns(L, IncreaseActiveCount(SetFlags(L, h, F), h), h, Face(L, h) \cup (F \ Hidden(h)))
           /\ Turns(L, DecreaseActiveCount(Clear(L, h, F), h), h, Face(L, h) \ F)
<1> DEFINE A == SetFlags(L, h, F)
           B == Clear(L, h, F)
<1>1. h \in Handles /\ "ENDGAME_QUEUED" \notin F /\ "CLOSING" \notin F
  BY Kinds DEF OtherFlags
<1>2. /\ LoopOK(A) /\ Turns(L, A, h, Face(L, h) \cup (F \ Hidden(h)))
      /\ LoopOK(B) /\ Turns(L, B, h, Face(L, h) \ F)
  BY <1>1, SetOtherOK, ClearOtherOK, SetFlagsTurns, ClearTurns
<1> HIDE DEF A, B
<1>3. Unseen(A, IncreaseActiveCount(A, h)) /\ Unseen(B, DecreaseActiveCount(B, h))
  BY <1>2, CountUnseen
<1>4. /\ Turns(L, IncreaseActiveCount(A, h), h, Face(L, h) \cup (F \ Hidden(h)))
      /\ Turns(L, DecreaseActiveCount(B, h), h, Face(L, h) \ F)
  BY <1>1, <1>2, <1>3, TurnsUnseen
<1> QED
  BY <1>4 DEF A, B

\* uv_read_start
LEMMA ReadStartTurns ==
    ASSUME NEW L, LoopOK(L), NEW c \in Conns, NEW how \in Answers, CanReadStart(L, c)
    PROVE  Turns(L, ReadStart(L, c, how), c, Face(L, c) \cup {"READING"})
<1> DEFINE S == SetFlags(L, c, {"READING"})
           A == IncreaseActiveCount(S, c)
<1>1. /\ c \in Handles /\ c \in Servers \cup Conns /\ {"READING"} \in SUBSET OtherFlags
      /\ {"READING"} \ Hidden(c) = {"READING"}
  BY Kinds DEF OtherFlags, Flags, Hidden
<1>2. Turns(L, A, c, Face(L, c) \cup {"READING"})
  <2>1. Turns(L, A, c, Face(L, c) \cup ({"READING"} \ Hidden(c)))
    BY <1>1, StartsTurns
  <2> QED
    BY <1>1, <2>1
<1>3. LoopOK(S)
  BY <1>1, SetOtherOK
<1>4. ReadStart(L, c, how) \in {A, QueueRead(A, c, how)}
  BY DEF ReadStart
<1> HIDE DEF S
<1>5. LoopOK(A)
  BY <1>1, <1>3, IncreaseActiveCountOK
<1> HIDE DEF A
<1>6. Turns(L, QueueRead(A, c, how), c, Face(L, c) \cup {"READING"})
  BY <1>1, <1>2, <1>5, QueueReadUnseen, TurnsUnseen
<1> QED
  BY <1>2, <1>4, <1>6

LEMMA StopIfTurns ==
    ASSUME NEW L, LoopOK(L), NEW h \in Servers \cup Conns, NEW f \in {"READING", "LISTENING"}
    PROVE  Turns(L, StopIf(L, h, f), h, Face(L, h) \ {f})
<1>1. h \in Handles /\ {f} \in SUBSET OtherFlags /\ f \notin Hidden(h)
  BY Kinds DEF OtherFlags, Flags, Hidden
<1>2. CASE Has(L, h, f)
  BY <1>1, <1>2, StartsTurns DEF StopIf
<1>3. CASE ~Has(L, h, f)
  <2>1. Face(L, h) \ {f} = Face(L, h) /\ StopIf(L, h, f) = L
    BY <1>3 DEF Face, Has, StopIf
  <2>2. Unseen(L, L)
    BY AsideUnseen DEF Beside
  <2> QED
    BY <1>1, <2>1, <2>2, TurnsNot
<1> QED
  BY <1>2, <1>3

LEMMA ReadReqEndUnseen ==
    ASSUME NEW L, LoopOK(L), NEW c \in Conns, NEW how \in Answers
    PROVE  Unseen(L, ReadReqEnd(L, c, how))
<1> DEFINE A == IF Has(L, c, "READING") /\ ~Has(L, c, "READ_PENDING")
                THEN QueueRead(L, c, how) ELSE L
<1>1. Unseen(L, L)
  BY AsideUnseen DEF Beside
<1>2. LoopOK(A) /\ Unseen(L, A)
  BY <1>1, QueueReadOK, QueueReadUnseen
<1>3. ReadReqEnd(L, c, how) = DecreasePendingReqCount(A, c)
  BY DEF ReadReqEnd
<1> HIDE DEF A
<1> QED
  BY <1>2, <1>3, PendingCountUnseen, UnseenTrans

LEMMA WriteUnseen ==
    ASSUME NEW L, LoopOK(L), NEW r \in WriteReqs, NEW how \in Answers
    PROVE  Unseen(L, Write(L, r, how))
<1> DEFINE c == r.handle
           P == IncreasePendingReqCount(L, c, 1)
           n == P.write_reqs_pending[c] + 1
           A == [P EXCEPT !.write_reqs_pending[c] = n]
           B == RegisterHandleReq(A, c, r)
           K == [B EXCEPT !.kernel = @ \cup {r}]
           ok == how = "bypass"
<1>1. /\ c \in Handles /\ c \in Servers \cup Conns /\ r \in ClientReqs
  BY DEF Handles, ClientReqs, WriteReqs
<1>2. LoopOK(P) /\ Unseen(L, P)
  BY <1>1, IncreasePendingReqCountOK, PendingCountUnseen
<1> HIDE DEF P, ok
<1>3. n \in Int
  BY <1>1, <1>2 DEF LoopOK, LoopType
<1> HIDE DEF n
<1>4. LoopOK(A) /\ Unseen(P, A)
  BY <1>1, <1>2, <1>3, WriteCountIs, OthersUnseen DEF LoopOK
<1> HIDE DEF A
<1>5. LoopOK(B) /\ Unseen(A, B)
  BY <1>1, <1>4, HandleReqOK, RequestUnseen
<1> HIDE DEF B
<1>6. Unseen(B, K) /\ Unseen(B, InsertPendingReq(B, r, ok))
  BY <1>5, OthersUnseen, InsertPendingUnseen DEF LoopOK
<1>7. Write(L, r, how) \in {L, K, InsertPendingReq(B, r, ok)}
  BY DEF K, B, A, n, P, ok, Write
<1>8. Unseen(L, L)
  BY AsideUnseen DEF Beside
<1> HIDE DEF K
<1> QED
  BY <1>2, <1>4, <1>5, <1>6, <1>7, <1>8, UnseenTrans

\* From L to M nothing shows, and c may come on the list of endgames when e.
Settles(L, M, c, e) ==
    /\ Beside(L, M) /\ \A g \in Handles : Face(M, g) = Face(L, g)
    /\ \A g \in Handles : Has(M, g, "ENDGAME_QUEUED") =>
           Has(L, g, "ENDGAME_QUEUED") \/ Has(M, g, "CLOSING") \/ (g = c /\ e)

LEMMA WantEndgameSettles ==
    ASSUME NEW L, LoopOK(L), NEW c \in Handles
    PROVE  Settles(L, WantEndgame(L, c), c, TRUE)
<1> DEFINE M == WantEndgame(L, c)
           F == L.flags[c] \cup {"ENDGAME_QUEUED"}
<1>1. Becomes(L, M, c, F, L.activecnt[c], L.reqs_pending[c])
  BY WantEndgameBecomes
<1> HIDE DEF M
<1>2. Beside(L, M)
  BY <1>1 DEF Becomes, Beside
<1>3. \A g \in Handles : Face(M, g) = Face(L, g)
  BY <1>1 DEF Becomes, Face, Hidden
<1>4. \A g \in Handles : Has(M, g, "ENDGAME_QUEUED") => Has(L, g, "ENDGAME_QUEUED") \/ g = c
  BY <1>1 DEF Becomes, Has
<1> QED
  BY <1>2, <1>3, <1>4 DEF M, Settles

LEMMA SettlesUnseen ==
    ASSUME NEW L, NEW M, NEW N, NEW c, NEW e
    PROVE  /\ Settles(L, M, c, e) /\ Unseen(M, N) => Settles(L, N, c, e)
           /\ Unseen(L, M) /\ Settles(M, N, c, e) => Settles(L, N, c, e)
           /\ Unseen(L, N) => Settles(L, N, c, e)
<1>1. ASSUME Settles(L, M, c, e), Unseen(M, N) PROVE Settles(L, N, c, e)
  <2>1. \A g \in Handles : Has(N, g, "ENDGAME_QUEUED") => Has(M, g, "ENDGAME_QUEUED") \/ Has(N, g, "CLOSING")
    BY <1>1 DEF Unseen, Lists
  <2>2. \A g \in Handles : Has(M, g, "CLOSING") <=> Has(N, g, "CLOSING")
    BY <1>1, ClosingShows DEF Unseen
  <2> QED
    BY <1>1, <2>1, <2>2 DEF Settles, Unseen, Beside
<1>2. ASSUME Unseen(L, M), Settles(M, N, c, e) PROVE Settles(L, N, c, e)
  <2>1. \A g \in Handles : Has(M, g, "ENDGAME_QUEUED") => Has(L, g, "ENDGAME_QUEUED") \/ Has(M, g, "CLOSING")
    BY <1>2 DEF Unseen, Lists
  <2>2. \A g \in Handles : Has(M, g, "CLOSING") <=> Has(N, g, "CLOSING")
    BY <1>2, ClosingShows DEF Settles
  <2> QED
    BY <1>2, <2>1, <2>2 DEF Settles, Unseen, Beside
<1>3. ASSUME Unseen(L, N) PROVE Settles(L, N, c, e)
  BY <1>3 DEF Settles, Unseen, Lists
<1> QED
  BY <1>1, <1>2, <1>3

\* uv_process_tcp_write_req: the last write lets the shutdown go on.
LEMMA WriteReqEndSettles ==
    ASSUME NEW L, LoopOK(L), NEW c \in Conns
    PROVE  Settles(L, WriteReqEnd(L, c), c, c \in L.shutdown_req)
<1> DEFINE n == L.write_reqs_pending[c] - 1
           A == [L EXCEPT !.write_reqs_pending[c] = n]
           B == IF c \in A.shutdown_req /\ A.write_reqs_pending[c] = 0
                THEN WantEndgame(A, c) ELSE A
<1>1. c \in Handles /\ c \in Servers \cup Conns
  BY DEF Handles
<1>2. n \in Int
  BY <1>1 DEF LoopOK, LoopType
<1> HIDE DEF n
<1>3. LoopOK(A) /\ Unseen(L, A) /\ A.shutdown_req = L.shutdown_req
  BY <1>1, <1>2, WriteCountIs, OthersUnseen DEF LoopOK, LoopType
<1> HIDE DEF A
<1>4. LoopOK(B) /\ Settles(A, B, c, c \in L.shutdown_req)
  <2>1. CASE c \in A.shutdown_req /\ A.write_reqs_pending[c] = 0
    BY <1>1, <1>3, <2>1, WantEndgameOK, WantEndgameSettles
  <2>2. CASE ~(c \in A.shutdown_req /\ A.write_reqs_pending[c] = 0)
    <3>1. Unseen(A, A)
      BY AsideUnseen DEF Beside
    <3> QED
      BY <1>3, <2>2, <3>1, SettlesUnseen
  <2> QED
    BY <2>1, <2>2
<1> HIDE DEF B
<1>5. Settles(L, B, c, c \in L.shutdown_req)
  BY <1>3, <1>4, SettlesUnseen
<1>6. Unseen(B, DecreasePendingReqCount(B, c))
  BY <1>1, <1>4, PendingCountUnseen
<1>7. WriteReqEnd(L, c) = DecreasePendingReqCount(B, c)
  BY DEF B, A, n, WriteReqEnd
<1> QED
  BY <1>5, <1>6, <1>7, SettlesUnseen

LEMMA ShutdownEndUnseen ==
    ASSUME NEW L, LoopOK(L), NEW c \in Conns
    PROVE  Unseen(L, ShutdownEnd(L, c))
<1> DEFINE S == L.shutdown_req \ {c}
           A == [L EXCEPT !.shutdown_req = S]
<1>1. c \in Servers \cup Conns /\ S \in SUBSET Conns
  BY DEF LoopOK, LoopType
<1> HIDE DEF S
<1>2. LoopOK(A) /\ Unseen(L, A)
  BY <1>1, ShutdownReqIs, OthersUnseen DEF LoopOK
<1>3. ShutdownEnd(L, c) = DecreasePendingReqCount(A, c)
  BY DEF ShutdownEnd, S
<1> HIDE DEF A
<1> QED
  BY <1>1, <1>2, <1>3, PendingCountUnseen, UnseenTrans

\* uv_shutdown: the stream is no longer writable, and wanted for its endgame.
LEMMA ShutdownSettles ==
    ASSUME NEW L, LoopOK(L), NEW c \in Conns, Has(L, c, "WRITABLE")
    PROVE  \E C : Turns(L, C, c, Face(L, c) \ {"WRITABLE"}) /\ Settles(C, Shutdown(L, c), c, TRUE)
<1> DEFINE C == Clear(L, c, {"WRITABLE"})
           S == C.shutdown_req \cup {c}
           A == [C EXCEPT !.shutdown_req = S]
           P == IncreasePendingReqCount(A, c, 1)
           B == RegisterHandleReq(P, c, ShutdownReq(c))
<1>1. /\ c \in Handles /\ c \in Servers \cup Conns /\ ShutdownReq(c) \in ClientReqs
      /\ {"WRITABLE"} \in SUBSET OtherFlags
  BY DEF Handles, ShutdownReq, ShutdownReqs, ClientReqs, OtherFlags, Flags
<1>2. LoopOK(C) /\ Turns(L, C, c, Face(L, c) \ {"WRITABLE"})
  BY <1>1, ClearOtherOK, ClearTurns
<1>3. Shutdown(L, c) = WantEndgame(B, c)
  BY DEF Shutdown
<1> HIDE DEF C
<1>4. S \in SUBSET Conns
  BY <1>2 DEF LoopOK, LoopType
<1> HIDE DEF S
<1>5. LoopOK(A) /\ Unseen(C, A)
  BY <1>2, <1>4, ShutdownReqIs, OthersUnseen DEF LoopOK
<1> HIDE DEF A
<1>6. LoopOK(P) /\ Unseen(A, P)
  BY <1>1, <1>5, IncreasePendingReqCountOK, PendingCountUnseen
<1> HIDE DEF P
<1>7. LoopOK(B) /\ Unseen(P, B)
  BY <1>1, <1>6, HandleReqOK, RequestUnseen
<1> HIDE DEF B
<1>8. Unseen(C, B)
  BY <1>5, <1>6, <1>7, UnseenTrans
<1>9. Settles(B, WantEndgame(B, c), c, TRUE)
  BY <1>1, <1>7, WantEndgameSettles
<1> QED
  BY <1>2, <1>3, <1>8, <1>9, SettlesUnseen

LEMMA TcpListenTurns ==
    ASSUME NEW L, LoopOK(L), NEW s \in Servers, NEW how, NEW soon
    PROVE  Turns(L, TcpListen(L, s, how, soon), s, Face(L, s) \cup {"LISTENING"})
<1> DEFINE S == SetFlags(L, s, {"LISTENING"})
           A == IncreaseActiveCount(S, s)
<1>1. /\ s \in Handles /\ s \in Servers \cup Conns /\ {"LISTENING"} \in SUBSET OtherFlags
      /\ {"LISTENING"} \ Hidden(s) = {"LISTENING"}
  BY Kinds DEF OtherFlags, Flags, Hidden
<1>2. Turns(L, A, s, Face(L, s) \cup {"LISTENING"})
  <2>1. Turns(L, A, s, Face(L, s) \cup ({"LISTENING"} \ Hidden(s)))
    BY <1>1, StartsTurns
  <2> QED
    BY <1>1, <2>1
<1>3. LoopOK(S)
  BY <1>1, SetOtherOK
<1>4. TcpListen(L, s, how, soon) = QueueAccepts(A, s, how, soon)
  BY DEF TcpListen
<1> HIDE DEF S
<1>5. LoopOK(A)
  BY <1>1, <1>3, IncreaseActiveCountOK
<1> HIDE DEF A
<1> QED
  BY <1>1, <1>2, <1>4, <1>5, QueueAcceptsUnseen, TurnsUnseen

LEMMA AcceptRefusedUnseen ==
    ASSUME NEW L, LoopOK(L), NEW r \in AcceptReqs, NEW how \in Answers
    PROVE  Unseen(L, DecreasePendingReqCount(AcceptRefused(L, r, how), r.handle))
<1> DEFINE x == L.accept_socket \ {r}
           A == [L EXCEPT !.accept_socket = x]
           B == AcceptRefused(L, r, how)
<1>1. r.handle \in Servers \cup Conns /\ x \in SUBSET AcceptReqs
  BY DEF AcceptReqs, LoopOK, LoopType
<1>2. B \in {A, QueueAccept(A, r, how)}
  BY DEF AcceptRefused
<1>3. LoopOK(B)
  BY AcceptRefusedOK
<1> HIDE DEF x, B
<1>4. Unseen(L, A) /\ Same(L, A)
  BY <1>1, OthersUnseen DEF LoopOK, LoopType, Same
<1>5. LoopOK(A)
  BY <1>4, SameOK
<1> HIDE DEF A
<1>6. Unseen(L, B)
  BY <1>2, <1>4, <1>5, QueueAcceptUnseen, UnseenTrans
<1>7. Unseen(B, DecreasePendingReqCount(B, r.handle))
  BY <1>1, <1>3, PendingCountUnseen
<1> QED
  BY <1>6, <1>7, UnseenTrans DEF B

\* A pending connection is stored, or accepted: its request is queued again.
LEMMA AcceptStoredShows ==
    ASSUME NEW L, LoopOK(L), NEW r \in AcceptReqs, NEW M, M = AcceptStored(L, r)
    PROVE  /\ M.flags = L.flags /\ M.handle_queue = L.handle_queue /\ M.stop_flag = L.stop_flag
           /\ M.pending_accepts = [L.pending_accepts EXCEPT ![r.handle] = <<r>> \o L.pending_accepts[r.handle]]
  BY DEF LoopOK, LoopType, AcceptStored

LEMMA TcpAcceptShows ==
    ASSUME NEW L, LoopOK(L), NEW s \in Servers, NEW c \in Conns, L.pending_accepts[s] # << >>,
           NEW sockOk \in BOOLEAN, NEW how \in Answers, NEW M, M = TcpAccept(L, s, c, sockOk, how)
    PROVE  /\ Lists(L, M) /\ M.handle_queue = L.handle_queue /\ M.stop_flag = L.stop_flag
           /\ M.pending_accepts = [L.pending_accepts EXCEPT ![s] = Tail(L.pending_accepts[s])]
           /\ Face(M, c) = Face(L, c) \cup IF sockOk THEN {"CONNECTION", "READABLE", "WRITABLE"} ELSE {}
           /\ \A g \in Handles \ {c} : Face(M, g) = Face(L, g)
<1> DEFINE r == Head(L.pending_accepts[s])
           F == {"CONNECTION", "READABLE", "WRITABLE"}
           G == Face(L, c) \cup IF sockOk THEN F ELSE {}
           S == SetFlags(L, c, F)
           T == [S EXCEPT !.write_reqs_pending[c] = 0, !.shutdown_req = @ \ {c}]
           A == IF ~sockOk THEN L ELSE T
           B == [A EXCEPT !.pending_accepts[s] = Tail(@), !.accept_socket = @ \ {r}]
<1>1. /\ s \in Handles /\ c \in Handles /\ F \in SUBSET OtherFlags /\ "ENDGAME_QUEUED" \notin F
      /\ F \ Hidden(c) = F
  BY Kinds DEF OtherFlags, Flags, Hidden
<1>2. r \in AcceptReqs
  BY <1>1 DEF LoopOK, LoopType
<1>3. LoopOK(S) /\ Turns(L, S, c, Face(L, c) \cup (F \ Hidden(c)))
  BY <1>1, SetOtherOK, SetFlagsTurns
<1>4. S.pending_accepts = L.pending_accepts /\ S.handle_queue = L.handle_queue
      /\ S.stop_flag = L.stop_flag
  BY <1>3 DEF Turns, Beside
<1> HIDE DEF S, r, F
<1>5. Same(S, T)
  <2>1. S \in LoopType /\ 0 \in Int
    BY <1>3 DEF LoopOK
  <2>2. /\ T.flags = S.flags /\ T.active_handles = S.active_handles
        /\ T.endgame = S.endgame /\ T.failed = S.failed
    BY <2>1 DEF LoopType
  <2>3. T \in LoopType
    BY <2>1 DEF LoopType
  <2> QED
    BY <2>2, <2>3 DEF Same
<1>6. T.flags = S.flags /\ T.pending_accepts = S.pending_accepts /\ T.handle_queue = S.handle_queue
      /\ T.stop_flag = S.stop_flag
  BY <1>3 DEF LoopOK, LoopType
<1>7. LoopOK(T)
  BY <1>3, <1>5, SameOK
<1> HIDE DEF T
<1>8. Unseen(S, T)
  BY <1>6, AsideUnseen DEF Beside
<1>9. LoopOK(A) /\ Turns(L, A, c, G)
  <2>1. CASE sockOk
    BY <1>1, <1>3, <1>7, <1>8, <2>1, TurnsUnseen
  <2>2. CASE ~sockOk
    <3>1. Unseen(L, L) /\ G = Face(L, c)
      BY <2>2, AsideUnseen DEF Beside
    <3> QED
      BY <1>1, <2>2, <3>1, TurnsNot
  <2> QED
    BY <2>1, <2>2
<1> HIDE DEF A, G
<1>10. A.pending_accepts = L.pending_accepts /\ A.handle_queue = L.handle_queue /\ A.stop_flag = L.stop_flag
  BY <1>9 DEF Turns, Beside
<1>11. Same(A, B)
  <2>1. A \in LoopType /\ A.pending_accepts \in [Handles -> Seq(AcceptReqs)]
    BY <1>9 DEF LoopOK, LoopType
  <2>2. Tail(A.pending_accepts[s]) \in Seq(AcceptReqs)
    BY <1>1, <1>10, <2>1
  <2>3. /\ B.flags = A.flags /\ B.active_handles = A.active_handles
        /\ B.endgame = A.endgame /\ B.failed = A.failed
    BY <2>1 DEF LoopType
  <2>4. B \in LoopType
    BY <2>1, <2>2 DEF LoopType
  <2> QED
    BY <2>3, <2>4 DEF Same
<1>12. /\ B.flags = A.flags /\ B.handle_queue = A.handle_queue /\ B.stop_flag = A.stop_flag
       /\ B.pending_accepts = [A.pending_accepts EXCEPT ![s] = Tail(A.pending_accepts[s])]
  BY <1>9 DEF LoopOK, LoopType
<1>13. LoopOK(B)
  BY <1>9, <1>11, SameOK
<1>14. M \in {B, QueueAccept(B, r, how)}
  BY DEF TcpAccept, A, B, T, S, F, r
<1> HIDE DEF B
<1>15. Unseen(B, M)
  <2>1. Unseen(B, B)
    BY AsideUnseen DEF Beside
  <2> QED
    BY <1>2, <1>13, <1>14, <2>1, QueueAcceptUnseen
<1>16. \A g \in Handles : Face(B, g) = Face(A, g) /\ Has(B, g, "ENDGAME_QUEUED") = Has(A, g, "ENDGAME_QUEUED")
  BY <1>12 DEF Face, Has
<1>17. Lists(L, M)
  <2>1. \A g \in Handles : Has(A, g, "CLOSING") => Has(M, g, "CLOSING")
    BY <1>15, <1>16, ClosingShows DEF Unseen
  <2> QED
    BY <1>9, <1>15, <1>16, <2>1 DEF Turns, Unseen, Lists
<1>18. /\ M.handle_queue = L.handle_queue /\ M.stop_flag = L.stop_flag
       /\ M.pending_accepts = [L.pending_accepts EXCEPT ![s] = Tail(L.pending_accepts[s])]
  BY <1>10, <1>12, <1>15 DEF Unseen, Beside
<1>19. Face(M, c) = G /\ \A g \in Handles \ {c} : Face(M, g) = Face(L, g)
  BY <1>1, <1>9, <1>15, <1>16 DEF Turns, Unseen
<1> QED
  BY <1>17, <1>18, <1>19 DEF G, F

\* Timers show what they are.
LEMMA TimerTurns ==
    ASSUME NEW L, LoopOK(L), L.failed = {}, NEW t \in Timers
    PROVE  /\ Turns(L, TimerStop(L, t), t, Face(L, t) \ {"ACTIVE"})
           /\ ~Has(L, t, "CLOSING") => Turns(L, TimerStart(L, t), t, Face(L, t) \cup {"ACTIVE"})
<1>1. t \in Handles /\ Hidden(t) = {"ENDGAME_QUEUED"}
  BY Kinds DEF Hidden
<1>2. Turns(L, TimerStop(L, t), t, (L.flags[t] \ {"ACTIVE"}) \ Hidden(t))
  BY <1>1, TimerBecomes, BecomesTurns DEF Has
<1>3. ASSUME ~Has(L, t, "CLOSING") PROVE Turns(L, TimerStart(L, t), t, (L.flags[t] \cup {"ACTIVE"}) \ Hidden(t))
  <2>1. Becomes(L, TimerStart(L, t), t, L.flags[t] \cup {"ACTIVE"}, L.activecnt[t], L.reqs_pending[t])
    BY <1>3, TimerBecomes
  <2>2. /\ "ENDGAME_QUEUED" \in L.flags[t] \cup {"ACTIVE"} => Has(L, t, "ENDGAME_QUEUED")
        /\ Has(L, t, "CLOSING") => "CLOSING" \in L.flags[t] \cup {"ACTIVE"}
    BY DEF Has
  <2> QED
    BY <1>1, <2>1, <2>2, BecomesTurns
<1>4. /\ (L.flags[t] \ {"ACTIVE"}) \ Hidden(t) = Face(L, t) \ {"ACTIVE"}
      /\ (L.flags[t] \cup {"ACTIVE"}) \ Hidden(t) = Face(L, t) \cup {"ACTIVE"}
  BY <1>1 DEF Face
<1> QED
  BY <1>2, <1>3, <1>4

-----------------------------------------------------------------------------
\* Opening, closing and referencing handles.

LEMMA HandleClosingTurns ==
    ASSUME NEW L, LoopOK(L), NEW h \in Handles, ~Has(L, h, "CLOSING")
    PROVE  Turns(L, HandleClosing(L, h), h, (Face(L, h) \cup {"CLOSING"}) \ {"ACTIVE"})
<1> DEFINE F == (L.flags[h] \cup {"CLOSING"}) \ {"ACTIVE"}
<1>1. Turns(L, HandleClosing(L, h), h, F \ Hidden(h))
  BY HandleClosingBecomes, BecomesTurns
<1>2. F \ Hidden(h) = (Face(L, h) \cup {"CLOSING"}) \ {"ACTIVE"}
  BY DEF Face, Hidden
<1> QED
  BY <1>1, <1>2

\* What uv_close leaves of the face of a handle.
ClosedFace(h, F) ==
    IF h \in Timers THEN ((F \ {"ACTIVE"}) \cup {"CLOSING"}) \ {"ACTIVE"}
    ELSE (((((F \ {"READING"}) \ {"LISTENING"}) \cup {"SOCKET_CLOSED"}) \ {"READABLE", "WRITABLE"}) \cup {"CLOSING"})
         \ {"ACTIVE"}

LEMMA CloseTurns ==
    ASSUME NEW L, LoopOK(L), L.failed = {}, NEW h \in Handles, ~Has(L, h, "CLOSING")
    PROVE  Turns(L, Close(L, h), h, ClosedFace(h, Face(L, h)))
<1>1. CASE h \in Timers
  <2> DEFINE A == TimerStop(L, h)
             F == Face(L, h) \ {"ACTIVE"}
             B == HandleClosing(A, h)
             G == (F \cup {"CLOSING"}) \ {"ACTIVE"}
  <2>1. LoopOK(A) /\ Turns(L, A, h, F)
    BY <1>1, TimerOK, TimerTurns
  <2>2. Close(L, h) = WantEndgame(B, h) /\ ClosedFace(h, Face(L, h)) = G
    BY <1>1 DEF Close, TimerClose, ClosedFace
  <2> HIDE DEF A
  <2>3. Face(A, h) = F /\ ~Has(A, h, "CLOSING")
    <3>1. Face(A, h) = F
      BY <2>1 DEF Turns
    <3> QED
      BY <3>1, ClosingShows
  <2>4. LoopOK(B) /\ Turns(A, B, h, G)
    BY <2>1, <2>3, HandleClosingOK, HandleClosingTurns
  <2> HIDE DEF B, F
  <2>5. Has(B, h, "CLOSING")
    BY <2>4, ClosingShows DEF Turns
  <2>6. Unseen(B, WantEndgame(B, h))
    BY <2>4, <2>5, WantEndgameUnseen
  <2> HIDE DEF G
  <2> QED
    BY <2>1, <2>2, <2>4, <2>6, TurnsTrans, TurnsUnseen
<1>2. CASE h \notin Timers
  <2> DEFINE A == StopIf(L, h, "READING")
             F == Face(L, h) \ {"READING"}
             B == StopIf(A, h, "LISTENING")
             G == F \ {"LISTENING"}
             C == SetFlags(B, h, {"SOCKET_CLOSED"})
             P == G \cup {"SOCKET_CLOSED"}
             D == Clear(C, h, {"READABLE", "WRITABLE"})
             Q == P \ {"READABLE", "WRITABLE"}
             E == HandleClosing(D, h)
             R == (Q \cup {"CLOSING"}) \ {"ACTIVE"}
  <2>1. /\ h \in Servers \cup Conns /\ {"SOCKET_CLOSED"} \ Hidden(h) = {"SOCKET_CLOSED"}
        /\ {"READING", "LISTENING"} \subseteq OtherFlags
        /\ {"SOCKET_CLOSED"} \in SUBSET OtherFlags /\ {"READABLE", "WRITABLE"} \in SUBSET OtherFlags
    BY <1>2 DEF Handles, Hidden, OtherFlags, Flags
  <2>2. Close(L, h) \in {E, WantEndgame(E, h)} /\ ClosedFace(h, Face(L, h)) = R
    BY <1>2 DEF Close, TcpClose, ClosedFace
  <2>3. LoopOK(A) /\ Turns(L, A, h, F)
    BY <2>1, StopIfOK, StopIfTurns
  <2> HIDE DEF A
  <2>4. Face(A, h) = F
    BY <2>3 DEF Turns
  <2>5. LoopOK(B) /\ Turns(A, B, h, G)
    <3>1. LoopOK(B) /\ Turns(A, B, h, Face(A, h) \ {"LISTENING"})
      BY <2>1, <2>3, StopIfOK, StopIfTurns
    <3> QED
      BY <2>4, <3>1
  <2> HIDE DEF B
  <2>6. Face(B, h) = G
    BY <2>5 DEF Turns
  <2>7. LoopOK(C) /\ Turns(B, C, h, P)
    <3>1. LoopOK(C) /\ Turns(B, C, h, Face(B, h) \cup ({"SOCKET_CLOSED"} \ Hidden(h)))
      BY <2>1, <2>5, SetOtherOK, SetFlagsTurns
    <3> QED
      BY <2>1, <2>6, <3>1
  <2> HIDE DEF C
  <2>8. Face(C, h) = P
    BY <2>7 DEF Turns
  <2>9. LoopOK(D) /\ Turns(C, D, h, Q)
    <3>1. LoopOK(D) /\ Turns(C, D, h, Face(C, h) \ {"READABLE", "WRITABLE"})
      BY <2>1, <2>7, ClearOtherOK, ClearTurns
    <3> QED
      BY <2>8, <3>1
  <2> HIDE DEF D
  <2>10. Face(D, h) = Q /\ ~Has(D, h, "CLOSING")
    <3>1. Face(D, h) = Q
      BY <2>9 DEF Turns
    <3> QED
      BY <3>1, ClosingShows
  <2>11. LoopOK(E) /\ Turns(D, E, h, R)
    BY <2>9, <2>10, HandleClosingOK, HandleClosingTurns
  <2> HIDE DEF E
  <2>12. Has(E, h, "CLOSING")
    BY <2>11, ClosingShows DEF Turns
  <2>13. Unseen(E, WantEndgame(E, h))
    BY <2>11, <2>12, WantEndgameUnseen
  <2> HIDE DEF F, G, P, Q, R
  <2>14. Turns(L, E, h, R)
    BY <2>3, <2>5, <2>7, <2>9, <2>11, TurnsTrans
  <2> QED
    BY <2>2, <2>13, <2>14, TurnsUnseen
<1> QED
  BY <1>1, <1>2

LEMMA RefTurns ==
    ASSUME NEW L, LoopOK(L), NEW h \in Handles
    PROVE  /\ Turns(L, HandleRef(L, h), h, Face(L, h) \cup {"REF"})
           /\ Turns(L, HandleUnref(L, h), h, Face(L, h) \ {"REF"})
<1>1. Turns(L, HandleRef(L, h), h, (L.flags[h] \cup {"REF"}) \ Hidden(h))
  BY HandleRefBecomes, BecomesTurns DEF Has
<1>2. Turns(L, HandleUnref(L, h), h, (L.flags[h] \ {"REF"}) \ Hidden(h))
  BY HandleUnrefBecomes, BecomesTurns DEF Has
<1>3. /\ (L.flags[h] \cup {"REF"}) \ Hidden(h) = Face(L, h) \cup {"REF"}
      /\ (L.flags[h] \ {"REF"}) \ Hidden(h) = Face(L, h) \ {"REF"}
  BY DEF Face, Hidden
<1> QED
  BY <1>1, <1>2, <1>3

\* A handle is initialised, and closed.
LEMMA HandleInitShows ==
    ASSUME NEW L, LoopOK(L), NEW h \in Handles,
           NEW M, M = IF h \in Timers THEN HandleInit(L, h) ELSE TcpInit(L, h)
    PROVE  /\ M.flags = [L.flags EXCEPT ![h] = {"REF"}] /\ M.handle_queue = L.handle_queue \cup {h}
           /\ M.pending_accepts = L.pending_accepts /\ M.stop_flag = L.stop_flag
  BY DEF LoopOK, LoopType, HandleInit, TcpInit

LEMMA PopUnseen ==
    ASSUME NEW L, LoopOK(L), L.endgame # << >>, NEW h, h = Head(L.endgame)
    PROVE  /\ h \in Handles /\ LoopOK(PopEndgame(L)) /\ Unseen(L, PopEndgame(L)) /\ ~Has(PopEndgame(L), h, "ENDGAME_QUEUED")
           /\ \A g \in Handles : Has(PopEndgame(L), g, "CLOSING") <=> Has(L, g, "CLOSING")
<1> DEFINE M == PopEndgame(L)
           F == L.flags[h] \ {"ENDGAME_QUEUED"}
<1>1. h \in Handles /\ Becomes(L, M, h, F, L.activecnt[h], L.reqs_pending[h])
  BY PopEndgameBecomes
<1>2. LoopOK(M) /\ ~Has(M, h, "ENDGAME_QUEUED")
  BY <1>1 DEF Becomes, Has
<1>3. Turns(L, M, h, F \ Hidden(h))
  BY <1>1, BecomesTurns DEF Has
<1>4. F \ Hidden(h) = Face(L, h)
  BY DEF Face, Hidden
<1> HIDE DEF M
<1>5. Unseen(L, M)
  BY <1>1, <1>3, <1>4, TurnsNot
<1>6. \A g \in Handles : Has(M, g, "CLOSING") <=> Has(L, g, "CLOSING")
  BY <1>5, ClosingShows DEF Unseen
<1> QED
  BY <1>1, <1>2, <1>5, <1>6 DEF M

LEMMA CloseEndShows ==
    ASSUME NEW L, LoopOK(L), NEW h \in Handles, ~Has(L, h, "CLOSED"), NEW M, M = CloseEnd(L, h)
    PROVE  /\ M.flags = [L.flags EXCEPT ![h] = L.flags[h] \cup {"CLOSED"}] /\ M.handle_queue = L.handle_queue \ {h}
           /\ M.pending_accepts = L.pending_accepts /\ M.stop_flag = L.stop_flag
<1>1. M = HandleClose(L, h)
  BY DEF CloseEnd, Check
<1> QED
  BY <1>1 DEF LoopOK, LoopType, HandleClose, ActiveHandleRm, SetFlags

-----------------------------------------------------------------------------
\* What a client sees, of a loop L where uv_run is at p with the callback k, and of
\* what has become of its requests q.

StateIn(L, h) ==
    CASE Has(L, h, "CLOSED")  -> "closed"
      [] Has(L, h, "CLOSING") /\ ~Has(L, h, "CLOSED") -> "closing"
      [] h \in L.handle_queue /\ ~Has(L, h, "CLOSING") -> "open"
      [] OTHER -> "unborn"

ActiveIn(L, h) ==
    \/ h \in Servers /\ Has(L, h, "LISTENING")
    \/ h \in Conns /\ Has(L, h, "READING")
    \/ h \in Timers /\ Has(L, h, "ACTIVE")

StatesIn(L)    == [h \in Handles |-> StateIn(L, h)]
RefsIn(L)      == {h \in Handles : Has(L, h, "REF")}
ActivesIn(L)   == {h \in Handles : ActiveIn(L, h)}
BacklogIn(L)   == [s \in Servers |-> Len(L.pending_accepts[s])]
ConnsWith(L, f) == {c \in Conns : Has(L, c, f)}
WritesIn(q)    == [c \in Conns |-> Cardinality({r \in WriteReqs : r.handle = c /\ q[r] = "issued"})]
ShuttingIn(q)  == {c \in Conns : q[ShutdownReq(c)] = "issued"}

CallbackSeen(k) ==
    [kind   |-> IF k.kind = "readloop" THEN "none" ELSE k.kind,
     handle |-> IF k.kind = "readloop" THEN "none" ELSE k.handle,
     status |-> IF k.kind = "readloop" THEN "ok" ELSE k.status]

View(st, re, ac, ba, co, wr, rd, ws, sh, ru, sp, cl) ==
    [state |-> st, refs |-> re, active |-> ac, backlog |-> ba, connected |-> co, writable |-> wr, readable |-> rd,
     writes |-> ws, shutting |-> sh, running |-> ru, stopped |-> sp, cb |-> cl]

SeenIn(L, p, k, q) ==
    View(StatesIn(L), RefsIn(L), ActivesIn(L), BacklogIn(L), ConnsWith(L, "CONNECTION"), ConnsWith(L, "WRITABLE"),
         ConnsWith(L, "READABLE"), WritesIn(q), ShuttingIn(q), p # "outside", L.stop_flag, CallbackSeen(k))

LEMMA SeenIs == Seen = SeenIn(loop, pc, cb, request) /\ Seen' = SeenIn(loop', pc', cb', request')
  BY DEF Seen, SeenIn, View, StatesIn, StateOf, StateIn, RefsIn, ActivesIn, ActiveIn, IsActive, BacklogIn, ConnsWith,
         WritesIn, ShuttingIn, CallbackSeen

\* What it is made of.
LEMMA ViewIs ==
    ASSUME NEW st, NEW re, NEW ac, NEW ba, NEW co, NEW wr, NEW rd, NEW ws, NEW sh, NEW ru, NEW sp, NEW cl, NEW U,
           U = View(st, re, ac, ba, co, wr, rd, ws, sh, ru, sp, cl)
    PROVE  /\ U.state = st /\ U.refs = re /\ U.active = ac /\ U.backlog = ba /\ U.connected = co /\ U.writable = wr
           /\ U.readable = rd /\ U.writes = ws /\ U.shutting = sh /\ U.running = ru /\ U.stopped = sp /\ U.cb = cl
  BY DEF View

-----------------------------------------------------------------------------
\* What the calls and the callbacks of Streams do to what a client sees.

LEMMA UvOpenIs ==
    ASSUME NEW st, NEW re, NEW ac, NEW ba, NEW co, NEW wr, NEW rd, NEW ws, NEW sh, NEW ru, NEW sp, NEW cl, NEW U,
           U = View(st, re, ac, ba, co, wr, rd, ws, sh, ru, sp, cl), NEW h
    PROVE  Promised!UvOpen(U, h) = View([st EXCEPT ![h] = "open"], re \cup {h}, ac, ba, co, wr, rd, ws, sh, ru, sp, cl)
<1> DEFINE v1 == [U.state EXCEPT ![h] = "open"]
           v2 == U.refs \cup {h}
           V1 == [U EXCEPT !.state = v1]
           V2 == [V1 EXCEPT !.refs = v2]
<1>1. v1 = [st EXCEPT ![h] = "open"] /\ v2 = re \cup {h}
  BY ViewIs
<1>2. Promised!UvOpen(U, h) = V2
  BY ViewIs DEF Promised!UvOpen
<1> HIDE DEF v1, v2
<1>3. V1 = View(v1, re, ac, ba, co, wr, rd, ws, sh, ru, sp, cl)
  BY DEF View
<1> HIDE DEF V1
<1>4. V2 = View(v1, v2, ac, ba, co, wr, rd, ws, sh, ru, sp, cl)
  BY <1>3 DEF View
<1> HIDE DEF V2
<1> QED
  BY <1>1, <1>2, <1>4

LEMMA UvListenIs ==
    ASSUME NEW st, NEW re, NEW ac, NEW ba, NEW co, NEW wr, NEW rd, NEW ws, NEW sh, NEW ru, NEW sp, NEW cl, NEW U,
           U = View(st, re, ac, ba, co, wr, rd, ws, sh, ru, sp, cl), NEW h
    PROVE  Promised!UvListen(U, h) = View(st, re, ac \cup {h}, ba, co, wr, rd, ws, sh, ru, sp, cl)
  BY DEF View, Promised!UvListen

LEMMA UvRefuseIs ==
    ASSUME NEW st, NEW re, NEW ac, NEW ba, NEW co, NEW wr, NEW rd, NEW ws, NEW sh, NEW ru, NEW sp, NEW cl, NEW U,
           U = View(st, re, ac, ba, co, wr, rd, ws, sh, ru, sp, cl), NEW B
    PROVE  [U EXCEPT !.backlog = B] = View(st, re, ac, B, co, wr, rd, ws, sh, ru, sp, cl)
  BY DEF View

\* uv_accept takes a connection off the backlog and makes it one of these.
Accepted(U, B, C, W, R) ==
    [[[[U EXCEPT !.backlog = B] EXCEPT !.connected = C] EXCEPT !.writable = W] EXCEPT !.readable = R]

LEMMA UvAcceptIs ==
    ASSUME NEW st, NEW re, NEW ac, NEW ba, NEW co, NEW wr, NEW rd, NEW ws, NEW sh, NEW ru, NEW sp, NEW cl, NEW U,
           U = View(st, re, ac, ba, co, wr, rd, ws, sh, ru, sp, cl), NEW B, NEW C, NEW W, NEW R
    PROVE  Accepted(U, B, C, W, R) = View(st, re, ac, B, C, W, R, ws, sh, ru, sp, cl)
<1> DEFINE V1 == [U EXCEPT !.backlog = B]
           V2 == [V1 EXCEPT !.connected = C]
           V3 == [V2 EXCEPT !.writable = W]
           V4 == [V3 EXCEPT !.readable = R]
<1>1. Accepted(U, B, C, W, R) = V4
  BY DEF Accepted
<1>2. V1 = View(st, re, ac, B, co, wr, rd, ws, sh, ru, sp, cl)
  BY DEF View
<1> HIDE DEF V1
<1>3. V2 = View(st, re, ac, B, C, wr, rd, ws, sh, ru, sp, cl)
  BY <1>2 DEF View
<1> HIDE DEF V2
<1>4. V3 = View(st, re, ac, B, C, W, rd, ws, sh, ru, sp, cl)
  BY <1>3 DEF View
<1> HIDE DEF V3
<1>5. V4 = View(st, re, ac, B, C, W, R, ws, sh, ru, sp, cl)
  BY <1>4 DEF View
<1> HIDE DEF V4
<1> QED
  BY <1>1, <1>5

LEMMA UvReadStartIs ==
    ASSUME NEW st, NEW re, NEW ac, NEW ba, NEW co, NEW wr, NEW rd, NEW ws, NEW sh, NEW ru, NEW sp, NEW cl, NEW U,
           U = View(st, re, ac, ba, co, wr, rd, ws, sh, ru, sp, cl), NEW c
    PROVE  Promised!UvReadStart(U, c) = IF c \in rd /\ c \notin ac THEN View(st, re, ac \cup {c}, ba, co, wr, rd, ws, sh, ru, sp, cl) ELSE U
  BY DEF View, Promised!UvReadStart, Promised!CanRead

LEMMA UvReadStopIs ==
    ASSUME NEW st, NEW re, NEW ac, NEW ba, NEW co, NEW wr, NEW rd, NEW ws, NEW sh, NEW ru, NEW sp, NEW cl, NEW U,
           U = View(st, re, ac, ba, co, wr, rd, ws, sh, ru, sp, cl), NEW c
    PROVE  Promised!UvReadStop(U, c) = View(st, re, ac \ {c}, ba, co, wr, rd, ws, sh, ru, sp, cl)
  BY DEF View, Promised!UvReadStop

LEMMA UvWriteIs ==
    ASSUME NEW st, NEW re, NEW ac, NEW ba, NEW co, NEW wr, NEW rd, NEW ws, NEW sh, NEW ru, NEW sp, NEW cl, NEW U,
           U = View(st, re, ac, ba, co, wr, rd, ws, sh, ru, sp, cl), NEW c
    PROVE  Promised!UvWrite(U, c) = IF c \in wr THEN View(st, re, ac, ba, co, wr, rd, [ws EXCEPT ![c] = ws[c] + 1], sh, ru, sp, cl) ELSE U
  BY DEF View, Promised!UvWrite

LEMMA UvShutdownIs ==
    ASSUME NEW st, NEW re, NEW ac, NEW ba, NEW co, NEW wr, NEW rd, NEW ws, NEW sh, NEW ru, NEW sp, NEW cl, NEW U,
           U = View(st, re, ac, ba, co, wr, rd, ws, sh, ru, sp, cl), NEW c
    PROVE  Promised!UvShutdown(U, c) = IF c \in wr THEN View(st, re, ac, ba, co, wr \ {c}, rd, ws, sh \cup {c}, ru, sp, cl) ELSE U
<1> DEFINE v1 == U.writable \ {c}
           v2 == U.shutting \cup {c}
           V1 == [U EXCEPT !.writable = v1]
           V2 == [V1 EXCEPT !.shutting = v2]
<1>1. v1 = wr \ {c} /\ v2 = sh \cup {c}
  BY ViewIs
<1>2. Promised!UvShutdown(U, c) = IF c \in wr THEN V2 ELSE U
  BY ViewIs DEF Promised!UvShutdown
<1> HIDE DEF v1, v2
<1>3. V1 = View(st, re, ac, ba, co, v1, rd, ws, sh, ru, sp, cl)
  BY DEF View
<1> HIDE DEF V1
<1>4. V2 = View(st, re, ac, ba, co, v1, rd, ws, v2, ru, sp, cl)
  BY <1>3 DEF View
<1> HIDE DEF V2
<1> QED
  BY <1>1, <1>2, <1>4

LEMMA UvTimerStartIs ==
    ASSUME NEW st, NEW re, NEW ac, NEW ba, NEW co, NEW wr, NEW rd, NEW ws, NEW sh, NEW ru, NEW sp, NEW cl, NEW U,
           U = View(st, re, ac, ba, co, wr, rd, ws, sh, ru, sp, cl), NEW t
    PROVE  Promised!UvTimerStart(U, t) = View(st, re, ac \cup {t}, ba, co, wr, rd, ws, sh, ru, sp, cl)
  BY DEF View, Promised!UvTimerStart

LEMMA UvTimerStopIs ==
    ASSUME NEW st, NEW re, NEW ac, NEW ba, NEW co, NEW wr, NEW rd, NEW ws, NEW sh, NEW ru, NEW sp, NEW cl, NEW U,
           U = View(st, re, ac, ba, co, wr, rd, ws, sh, ru, sp, cl), NEW t
    PROVE  Promised!UvTimerStop(U, t) = View(st, re, ac \ {t}, ba, co, wr, rd, ws, sh, ru, sp, cl)
  BY DEF View, Promised!UvTimerStop

LEMMA UvCloseIs ==
    ASSUME NEW st, NEW re, NEW ac, NEW ba, NEW co, NEW wr, NEW rd, NEW ws, NEW sh, NEW ru, NEW sp, NEW cl, NEW U,
           U = View(st, re, ac, ba, co, wr, rd, ws, sh, ru, sp, cl), NEW h
    PROVE  Promised!UvClose(U, h) = View([st EXCEPT ![h] = "closing"], re, ac \ {h}, ba, co, wr \ {h}, rd \ {h}, ws, sh, ru, sp, cl)
<1> DEFINE v1 == [U.state EXCEPT ![h] = "closing"]
           v2 == U.active \ {h}
           v3 == U.writable \ {h}
           v4 == U.readable \ {h}
           V1 == [U EXCEPT !.state = v1]
           V2 == [V1 EXCEPT !.active = v2]
           V3 == [V2 EXCEPT !.writable = v3]
           V4 == [V3 EXCEPT !.readable = v4]
<1>1. v1 = [st EXCEPT ![h] = "closing"] /\ v2 = ac \ {h} /\ v3 = wr \ {h} /\ v4 = rd \ {h}
  BY ViewIs
<1>2. Promised!UvClose(U, h) = V4
  BY ViewIs DEF Promised!UvClose
<1> HIDE DEF v1, v2, v3, v4
<1>3. V1 = View(v1, re, ac, ba, co, wr, rd, ws, sh, ru, sp, cl)
  BY DEF View
<1> HIDE DEF V1
<1>4. V2 = View(v1, re, v2, ba, co, wr, rd, ws, sh, ru, sp, cl)
  BY <1>3 DEF View
<1> HIDE DEF V2
<1>5. V3 = View(v1, re, v2, ba, co, v3, rd, ws, sh, ru, sp, cl)
  BY <1>4 DEF View
<1> HIDE DEF V3
<1>6. V4 = View(v1, re, v2, ba, co, v3, v4, ws, sh, ru, sp, cl)
  BY <1>5 DEF View
<1> HIDE DEF V4
<1> QED
  BY <1>1, <1>2, <1>6

LEMMA BeginsIs ==
    ASSUME NEW st, NEW re, NEW ac, NEW ba, NEW co, NEW wr, NEW rd, NEW ws, NEW sh, NEW ru, NEW sp, NEW cl, NEW U,
           U = View(st, re, ac, ba, co, wr, rd, ws, sh, ru, sp, cl), NEW kind, NEW h, NEW status
    PROVE  Promised!Begins(U, kind, h, status) = View(st, re, ac, ba, co, wr, rd, ws, sh, ru, sp, [kind |-> kind, handle |-> h, status |-> status])
  BY DEF View, Promised!Begins

LEMMA BeginsReported ==
    ASSUME NEW st, NEW re, NEW ac, NEW ba, NEW co, NEW wr, NEW rd, NEW ws, NEW sh, NEW ru, NEW sp, NEW cl, NEW U,
           U = View(st, re, ac, ba, co, wr, rd, ws, sh, ru, sp, cl), NEW kind, NEW h, NEW status
    PROVE  Promised!Begins([U EXCEPT !.backlog[h] = @ + 1], kind, h, status) = View(st, re, ac, [ba EXCEPT ![h] = ba[h] + 1], co, wr, rd, ws, sh, ru, sp, [kind |-> kind, handle |-> h, status |-> status])
<1> DEFINE v1 == [U.backlog EXCEPT ![h] = U.backlog[h] + 1]
           v2 == [kind |-> kind, handle |-> h, status |-> status]
           V1 == [U EXCEPT !.backlog = v1]
           V2 == [V1 EXCEPT !.cb = v2]
<1>1. v1 = [ba EXCEPT ![h] = ba[h] + 1] /\ v2 = [kind |-> kind, handle |-> h, status |-> status]
  BY ViewIs
<1>2. Promised!Begins([U EXCEPT !.backlog[h] = @ + 1], kind, h, status) = V2
  BY ViewIs DEF Promised!Begins
<1> HIDE DEF v1, v2
<1>3. V1 = View(st, re, ac, v1, co, wr, rd, ws, sh, ru, sp, cl)
  BY DEF View
<1> HIDE DEF V1
<1>4. V2 = View(st, re, ac, v1, co, wr, rd, ws, sh, ru, sp, v2)
  BY <1>3 DEF View
<1> HIDE DEF V2
<1> QED
  BY <1>1, <1>2, <1>4

LEMMA BeginsInactive ==
    ASSUME NEW st, NEW re, NEW ac, NEW ba, NEW co, NEW wr, NEW rd, NEW ws, NEW sh, NEW ru, NEW sp, NEW cl, NEW U,
           U = View(st, re, ac, ba, co, wr, rd, ws, sh, ru, sp, cl), NEW kind, NEW h, NEW status, NEW A
    PROVE  Promised!Begins([U EXCEPT !.active = A], kind, h, status) = View(st, re, A, ba, co, wr, rd, ws, sh, ru, sp, [kind |-> kind, handle |-> h, status |-> status])
<1> DEFINE v1 == A
           v2 == [kind |-> kind, handle |-> h, status |-> status]
           V1 == [U EXCEPT !.active = v1]
           V2 == [V1 EXCEPT !.cb = v2]
<1>1. v1 = A /\ v2 = [kind |-> kind, handle |-> h, status |-> status]
  BY ViewIs
<1>2. Promised!Begins([U EXCEPT !.active = A], kind, h, status) = V2
  BY ViewIs DEF Promised!Begins
<1> HIDE DEF v1, v2
<1>3. V1 = View(st, re, v1, ba, co, wr, rd, ws, sh, ru, sp, cl)
  BY DEF View
<1> HIDE DEF V1
<1>4. V2 = View(st, re, v1, ba, co, wr, rd, ws, sh, ru, sp, v2)
  BY <1>3 DEF View
<1> HIDE DEF V2
<1> QED
  BY <1>1, <1>2, <1>4

LEMMA BeginsWritten ==
    ASSUME NEW st, NEW re, NEW ac, NEW ba, NEW co, NEW wr, NEW rd, NEW ws, NEW sh, NEW ru, NEW sp, NEW cl, NEW U,
           U = View(st, re, ac, ba, co, wr, rd, ws, sh, ru, sp, cl), NEW kind, NEW h, NEW status
    PROVE  Promised!Begins([U EXCEPT !.writes[h] = @ - 1], kind, h, status) = View(st, re, ac, ba, co, wr, rd, [ws EXCEPT ![h] = ws[h] - 1], sh, ru, sp, [kind |-> kind, handle |-> h, status |-> status])
<1> DEFINE v1 == [U.writes EXCEPT ![h] = U.writes[h] - 1]
           v2 == [kind |-> kind, handle |-> h, status |-> status]
           V1 == [U EXCEPT !.writes = v1]
           V2 == [V1 EXCEPT !.cb = v2]
<1>1. v1 = [ws EXCEPT ![h] = ws[h] - 1] /\ v2 = [kind |-> kind, handle |-> h, status |-> status]
  BY ViewIs
<1>2. Promised!Begins([U EXCEPT !.writes[h] = @ - 1], kind, h, status) = V2
  BY ViewIs DEF Promised!Begins
<1> HIDE DEF v1, v2
<1>3. V1 = View(st, re, ac, ba, co, wr, rd, v1, sh, ru, sp, cl)
  BY DEF View
<1> HIDE DEF V1
<1>4. V2 = View(st, re, ac, ba, co, wr, rd, v1, sh, ru, sp, v2)
  BY <1>3 DEF View
<1> HIDE DEF V2
<1> QED
  BY <1>1, <1>2, <1>4

LEMMA BeginsShut ==
    ASSUME NEW st, NEW re, NEW ac, NEW ba, NEW co, NEW wr, NEW rd, NEW ws, NEW sh, NEW ru, NEW sp, NEW cl, NEW U,
           U = View(st, re, ac, ba, co, wr, rd, ws, sh, ru, sp, cl), NEW kind, NEW h, NEW status
    PROVE  Promised!Begins([U EXCEPT !.shutting = @ \ {h}], kind, h, status) = View(st, re, ac, ba, co, wr, rd, ws, sh \ {h}, ru, sp, [kind |-> kind, handle |-> h, status |-> status])
<1> DEFINE v1 == U.shutting \ {h}
           v2 == [kind |-> kind, handle |-> h, status |-> status]
           V1 == [U EXCEPT !.shutting = v1]
           V2 == [V1 EXCEPT !.cb = v2]
<1>1. v1 = sh \ {h} /\ v2 = [kind |-> kind, handle |-> h, status |-> status]
  BY ViewIs
<1>2. Promised!Begins([U EXCEPT !.shutting = @ \ {h}], kind, h, status) = V2
  BY ViewIs DEF Promised!Begins
<1> HIDE DEF v1, v2
<1>3. V1 = View(st, re, ac, ba, co, wr, rd, ws, v1, ru, sp, cl)
  BY DEF View
<1> HIDE DEF V1
<1>4. V2 = View(st, re, ac, ba, co, wr, rd, ws, v1, ru, sp, v2)
  BY <1>3 DEF View
<1> HIDE DEF V2
<1> QED
  BY <1>1, <1>2, <1>4

LEMMA RunsIs ==
    ASSUME NEW st, NEW re, NEW ac, NEW ba, NEW co, NEW wr, NEW rd, NEW ws, NEW sh, NEW ru, NEW sp, NEW cl, NEW U,
           U = View(st, re, ac, ba, co, wr, rd, ws, sh, ru, sp, cl), NEW x
    PROVE  [U EXCEPT !.running = x] = View(st, re, ac, ba, co, wr, rd, ws, sh, x, sp, cl)
  BY DEF View

LEMMA StopsIs ==
    ASSUME NEW st, NEW re, NEW ac, NEW ba, NEW co, NEW wr, NEW rd, NEW ws, NEW sh, NEW ru, NEW sp, NEW cl, NEW U,
           U = View(st, re, ac, ba, co, wr, rd, ws, sh, ru, sp, cl), NEW x
    PROVE  [U EXCEPT !.stopped = x] = View(st, re, ac, ba, co, wr, rd, ws, sh, ru, x, cl)
  BY DEF View

LEMMA ReturnsIs ==
    ASSUME NEW st, NEW re, NEW ac, NEW ba, NEW co, NEW wr, NEW rd, NEW ws, NEW sh, NEW ru, NEW sp, NEW cl, NEW U,
           U = View(st, re, ac, ba, co, wr, rd, ws, sh, ru, sp, cl), NEW x
    PROVE  [U EXCEPT !.cb = x] = View(st, re, ac, ba, co, wr, rd, ws, sh, ru, sp, x)
  BY DEF View

LEMMA RefsIs ==
    ASSUME NEW st, NEW re, NEW ac, NEW ba, NEW co, NEW wr, NEW rd, NEW ws, NEW sh, NEW ru, NEW sp, NEW cl, NEW U,
           U = View(st, re, ac, ba, co, wr, rd, ws, sh, ru, sp, cl), NEW x
    PROVE  [U EXCEPT !.refs = x] = View(st, x, ac, ba, co, wr, rd, ws, sh, ru, sp, cl)
  BY DEF View

LEMMA UvStopIs ==
    ASSUME NEW st, NEW re, NEW ac, NEW ba, NEW co, NEW wr, NEW rd, NEW ws, NEW sh, NEW ru, NEW sp, NEW cl, NEW U,
           U = View(st, re, ac, ba, co, wr, rd, ws, sh, ru, sp, cl)
    PROVE  Promised!UvStop(U) = View(st, re, ac, ba, co, wr, rd, ws, sh, ru, TRUE, cl)
<1> DEFINE x == TRUE
<1>1. Promised!UvStop(U) = [U EXCEPT !.stopped = x]
  BY DEF Promised!UvStop
<1> HIDE DEF x
<1>2. [U EXCEPT !.stopped = x] = View(st, re, ac, ba, co, wr, rd, ws, sh, ru, x, cl)
  BY DEF View
<1> QED
  BY <1>1, <1>2 DEF x

-----------------------------------------------------------------------------
\* From the flags to what a client sees.

LEMMA StateIs ==
    ASSUME NEW L, NEW h
    PROVE  /\ Has(L, h, "CLOSED") /\ Has(L, h, "CLOSING") => StateIn(L, h) = "closed"
           /\ ~Has(L, h, "CLOSED") /\ Has(L, h, "CLOSING") => StateIn(L, h) = "closing"
           /\ ~Has(L, h, "CLOSED") /\ ~Has(L, h, "CLOSING") /\ h \in L.handle_queue => StateIn(L, h) = "open"
           /\ ~Has(L, h, "CLOSED") /\ ~Has(L, h, "CLOSING") /\ h \notin L.handle_queue => StateIn(L, h) = "unborn"
  BY DEF StateIn, Has

\* The flags that show of every handle.
Shown == {"REF", "CLOSING", "CLOSED", "LISTENING", "CONNECTION", "READABLE", "WRITABLE", "READING", "SOCKET_CLOSED"}

LEMMA ShownIs ==
    ASSUME NEW L, NEW h
    PROVE  /\ \A f \in Shown : Has(L, h, f) <=> f \in Face(L, h)
           /\ h \in Timers => (Has(L, h, "ACTIVE") <=> "ACTIVE" \in Face(L, h))
<1>1. \A f \in Shown : f \notin Hidden(h)
  BY DEF Shown, Hidden
<1>2. h \in Timers => "ACTIVE" \notin Hidden(h)
  BY DEF Hidden
<1> QED
  BY <1>1, <1>2, FaceIs

LEMMA FaceTells ==
    ASSUME NEW L, NEW M, NEW g, Face(M, g) = Face(L, g), g \in M.handle_queue <=> g \in L.handle_queue
    PROVE  /\ \A f \in Shown : Has(M, g, f) <=> Has(L, g, f)
           /\ ActiveIn(M, g) <=> ActiveIn(L, g)
           /\ StateIn(M, g) = StateIn(L, g)
<1>1. \A f \in Shown : Has(M, g, f) <=> Has(L, g, f)
  BY ShownIs
<1>2. g \in Timers => (Has(M, g, "ACTIVE") <=> Has(L, g, "ACTIVE"))
  BY ShownIs
<1>3. ActiveIn(M, g) <=> ActiveIn(L, g)
  BY <1>1, <1>2 DEF ActiveIn, Shown
<1>4. (Has(M, g, "CLOSED") <=> Has(L, g, "CLOSED")) /\ (Has(M, g, "CLOSING") <=> Has(L, g, "CLOSING"))
  BY <1>1 DEF Shown
<1>5. StateIn(M, g) = StateIn(L, g)
  BY <1>4 DEF StateIn
<1> QED
  BY <1>1, <1>3, <1>5

Put(S, x, e) == IF e THEN S \cup {x} ELSE S \ {x}

LEMMA PutIs ==
    ASSUME NEW S, NEW x, NEW e
    PROVE  /\ e => Put(S, x, e) = S \cup {x}
           /\ ~e => Put(S, x, e) = S \ {x}
           /\ (e <=> x \in S) => Put(S, x, e) = S
  BY DEF Put

\* What shows of all handles is this.
Shows(M, st, re, ac, co, wr, rd) ==
    /\ StatesIn(M) = st /\ RefsIn(M) = re /\ ActivesIn(M) = ac
    /\ ConnsWith(M, "CONNECTION") = co /\ ConnsWith(M, "WRITABLE") = wr /\ ConnsWith(M, "READABLE") = rd

\* Only one handle shows something new.
LEMMA OneShows ==
    ASSUME NEW L, NEW M, NEW h \in Handles,
           \A g \in Handles \ {h} : Face(M, g) = Face(L, g) /\ (g \in M.handle_queue <=> g \in L.handle_queue)
    PROVE  Shows(M, [StatesIn(L) EXCEPT ![h] = StateIn(M, h)], Put(RefsIn(L), h, Has(M, h, "REF")),
                 Put(ActivesIn(L), h, ActiveIn(M, h)),
                 Put(ConnsWith(L, "CONNECTION"), h, h \in Conns /\ Has(M, h, "CONNECTION")),
                 Put(ConnsWith(L, "WRITABLE"), h, h \in Conns /\ Has(M, h, "WRITABLE")),
                 Put(ConnsWith(L, "READABLE"), h, h \in Conns /\ Has(M, h, "READABLE")))
<1>1. \A g \in Handles \ {h} :
        /\ \A f \in Shown : Has(M, g, f) <=> Has(L, g, f)
        /\ ActiveIn(M, g) <=> ActiveIn(L, g)
        /\ StateIn(M, g) = StateIn(L, g)
  BY FaceTells
<1>2. StatesIn(M) = [StatesIn(L) EXCEPT ![h] = StateIn(M, h)]
  BY <1>1 DEF StatesIn
<1>3. RefsIn(M) = Put(RefsIn(L), h, Has(M, h, "REF"))
  <2>1. \A g \in Handles \ {h} : Has(M, g, "REF") <=> Has(L, g, "REF")
    BY <1>1 DEF Shown
  <2> QED
    BY <2>1 DEF RefsIn, Put
<1>4. ActivesIn(M) = Put(ActivesIn(L), h, ActiveIn(M, h))
  BY <1>1 DEF ActivesIn, Put
<1>5. ASSUME NEW f \in {"CONNECTION", "WRITABLE", "READABLE"}
      PROVE  ConnsWith(M, f) = Put(ConnsWith(L, f), h, h \in Conns /\ Has(M, h, f))
  <2>1. \A g \in Conns \ {h} : Has(M, g, f) <=> Has(L, g, f)
    BY <1>1, Kinds DEF Shown
  <2> QED
    BY <2>1 DEF ConnsWith, Put
<1> QED
  BY <1>2, <1>3, <1>4, <1>5 DEF Shows

\* Nothing shows.
LEMMA NoneShows ==
    ASSUME NEW L, NEW M,
           \A g \in Handles : Face(M, g) = Face(L, g) /\ (g \in M.handle_queue <=> g \in L.handle_queue)
    PROVE  Shows(M, StatesIn(L), RefsIn(L), ActivesIn(L), ConnsWith(L, "CONNECTION"), ConnsWith(L, "WRITABLE"),
                 ConnsWith(L, "READABLE"))
<1>1. \A g \in Handles :
        /\ \A f \in Shown : Has(M, g, f) <=> Has(L, g, f)
        /\ ActiveIn(M, g) <=> ActiveIn(L, g)
        /\ StateIn(M, g) = StateIn(L, g)
  BY FaceTells
<1>2. \A c \in Conns : c \in Handles
  BY Kinds
<1>3. \A f \in {"CONNECTION", "WRITABLE", "READABLE"} : ConnsWith(M, f) = ConnsWith(L, f)
  BY <1>1, <1>2 DEF ConnsWith, Shown
<1>4. StatesIn(M) = StatesIn(L) /\ ActivesIn(M) = ActivesIn(L)
  BY <1>1 DEF StatesIn, ActivesIn
<1>5. RefsIn(M) = RefsIn(L)
  BY <1>1 DEF RefsIn, Shown
<1> QED
  BY <1>3, <1>4, <1>5 DEF Shows

LEMMA SeenOf ==
    ASSUME NEW M, NEW st, NEW re, NEW ac, NEW co, NEW wr, NEW rd, Shows(M, st, re, ac, co, wr, rd), NEW p, NEW k, NEW q
    PROVE  SeenIn(M, p, k, q) = View(st, re, ac, BacklogIn(M), co, wr, rd, WritesIn(q), ShuttingIn(q), p # "outside",
                                     M.stop_flag, CallbackSeen(k))
  BY DEF Shows, SeenIn

\* What makes a handle with the face F active.
Acts(h, F) ==
    \/ h \in Servers /\ "LISTENING" \in F
    \/ h \in Conns /\ "READING" \in F
    \/ h \in Timers /\ "ACTIVE" \in F

LEMMA ActsIs ==
    ASSUME NEW L, NEW h
    PROVE  ActiveIn(L, h) <=> Acts(h, Face(L, h))
  BY ShownIs DEF ActiveIn, Acts, Shown

\* A face turns into another, in the same state.
LEMMA TurnShows ==
    ASSUME NEW L, NEW M, NEW h \in Handles, NEW F, Turns(L, M, h, F),
           "CLOSING" \in F <=> "CLOSING" \in Face(L, h), "CLOSED" \in F <=> "CLOSED" \in Face(L, h)
    PROVE  /\ Shows(M, StatesIn(L), Put(RefsIn(L), h, "REF" \in F), Put(ActivesIn(L), h, Acts(h, F)),
                    Put(ConnsWith(L, "CONNECTION"), h, h \in Conns /\ "CONNECTION" \in F),
                    Put(ConnsWith(L, "WRITABLE"), h, h \in Conns /\ "WRITABLE" \in F),
                    Put(ConnsWith(L, "READABLE"), h, h \in Conns /\ "READABLE" \in F))
           /\ BacklogIn(M) = BacklogIn(L) /\ M.stop_flag = L.stop_flag
<1>1. Face(M, h) = F /\ M.handle_queue = L.handle_queue /\ M.pending_accepts = L.pending_accepts
      /\ M.stop_flag = L.stop_flag /\ \A g \in Handles \ {h} : Face(M, g) = Face(L, g)
  BY DEF Turns, Beside
<1>2. Shows(M, [StatesIn(L) EXCEPT ![h] = StateIn(M, h)], Put(RefsIn(L), h, Has(M, h, "REF")),
            Put(ActivesIn(L), h, ActiveIn(M, h)),
            Put(ConnsWith(L, "CONNECTION"), h, h \in Conns /\ Has(M, h, "CONNECTION")),
            Put(ConnsWith(L, "WRITABLE"), h, h \in Conns /\ Has(M, h, "WRITABLE")),
            Put(ConnsWith(L, "READABLE"), h, h \in Conns /\ Has(M, h, "READABLE")))
  BY <1>1, OneShows
<1>3. /\ Has(M, h, "REF") = ("REF" \in F) /\ Has(M, h, "CONNECTION") = ("CONNECTION" \in F)
      /\ Has(M, h, "WRITABLE") = ("WRITABLE" \in F) /\ Has(M, h, "READABLE") = ("READABLE" \in F)
  <2>1. \A f \in Shown : Has(M, h, f) <=> f \in F
    BY <1>1, ShownIs
  <2> QED
    BY <2>1 DEF Shown, Has
<1>4. ActiveIn(M, h) = Acts(h, F)
  <2>1. ActiveIn(M, h) <=> Acts(h, F)
    BY <1>1, ActsIs
  <2> QED
    BY <2>1 DEF ActiveIn, Acts
<1>5. [StatesIn(L) EXCEPT ![h] = StateIn(M, h)] = StatesIn(L)
  <2>1. (Has(M, h, "CLOSED") <=> Has(L, h, "CLOSED")) /\ (Has(M, h, "CLOSING") <=> Has(L, h, "CLOSING"))
    BY <1>1, ShownIs DEF Shown
  <2>2. StateIn(M, h) = StateIn(L, h)
    BY <1>1, <2>1 DEF StateIn
  <2> QED
    BY <2>2 DEF StatesIn
<1>6. BacklogIn(M) = BacklogIn(L)
  BY <1>1 DEF BacklogIn
<1> QED
  BY <1>1, <1>2, <1>3, <1>4, <1>5, <1>6

LEMMA PutsSame ==
    ASSUME NEW L, NEW h \in Handles
    PROVE  /\ Put(RefsIn(L), h, "REF" \in Face(L, h)) = RefsIn(L)
           /\ Put(ActivesIn(L), h, Acts(h, Face(L, h))) = ActivesIn(L)
           /\ \A f \in {"CONNECTION", "WRITABLE", "READABLE"} :
                 Put(ConnsWith(L, f), h, h \in Conns /\ f \in Face(L, h)) = ConnsWith(L, f)
<1>1. h \in RefsIn(L) <=> "REF" \in Face(L, h)
  BY ShownIs DEF RefsIn, Shown
<1>2. h \in ActivesIn(L) <=> Acts(h, Face(L, h))
  BY ActsIs DEF ActivesIn
<1>3. \A f \in {"CONNECTION", "WRITABLE", "READABLE"} : h \in ConnsWith(L, f) <=> h \in Conns /\ f \in Face(L, h)
  BY ShownIs DEF ConnsWith, Shown
<1> QED
  BY <1>1, <1>2, <1>3 DEF Put

\* A handle starts or stops what makes it active, and that is all.
LEMMA ActiveShows ==
    ASSUME NEW L, NEW M, NEW h \in Handles, NEW F, Turns(L, M, h, F),
           F \ {"LISTENING", "READING", "ACTIVE"} = Face(L, h) \ {"LISTENING", "READING", "ACTIVE"}
    PROVE  /\ Shows(M, StatesIn(L), RefsIn(L), Put(ActivesIn(L), h, Acts(h, F)), ConnsWith(L, "CONNECTION"),
                    ConnsWith(L, "WRITABLE"), ConnsWith(L, "READABLE"))
           /\ BacklogIn(M) = BacklogIn(L) /\ M.stop_flag = L.stop_flag
<1>1. \A f \in {"REF", "CLOSING", "CLOSED", "CONNECTION", "WRITABLE", "READABLE"} : f \in F <=> f \in Face(L, h)
  OBVIOUS
<1>2. /\ Shows(M, StatesIn(L), Put(RefsIn(L), h, "REF" \in F), Put(ActivesIn(L), h, Acts(h, F)),
               Put(ConnsWith(L, "CONNECTION"), h, h \in Conns /\ "CONNECTION" \in F),
               Put(ConnsWith(L, "WRITABLE"), h, h \in Conns /\ "WRITABLE" \in F),
               Put(ConnsWith(L, "READABLE"), h, h \in Conns /\ "READABLE" \in F))
      /\ BacklogIn(M) = BacklogIn(L) /\ M.stop_flag = L.stop_flag
  BY <1>1, TurnShows
<1>3. /\ ("REF" \in F) = ("REF" \in Face(L, h)) /\ ("CONNECTION" \in F) = ("CONNECTION" \in Face(L, h))
      /\ ("WRITABLE" \in F) = ("WRITABLE" \in Face(L, h)) /\ ("READABLE" \in F) = ("READABLE" \in Face(L, h))
  BY <1>1
<1> QED
  BY <1>2, <1>3, PutsSame

\* Nothing shows of a step of the loop's own.
LEMMA UnseenShows ==
    ASSUME NEW L, NEW M, Unseen(L, M)
    PROVE  /\ Shows(M, StatesIn(L), RefsIn(L), ActivesIn(L), ConnsWith(L, "CONNECTION"), ConnsWith(L, "WRITABLE"),
                    ConnsWith(L, "READABLE"))
           /\ BacklogIn(M) = BacklogIn(L) /\ M.stop_flag = L.stop_flag
<1>1. /\ \A g \in Handles : Face(M, g) = Face(L, g) /\ (g \in M.handle_queue <=> g \in L.handle_queue)
      /\ BacklogIn(M) = BacklogIn(L) /\ M.stop_flag = L.stop_flag
  BY DEF Unseen, Beside, BacklogIn
<1> QED
  BY <1>1, NoneShows

-----------------------------------------------------------------------------
\* The invariant is kept.

\* From L to M handles stay closing, with their sockets closed, and only closing ones
\* come on the list of endgames.
Steady(L, M) ==
    /\ Lists(L, M)
    /\ \A g \in Handles : (Has(L, g, "CLOSING") => Has(M, g, "CLOSING")) /\ (Shut(L, g) => Shut(M, g))

LEMMA ShutIs ==
    ASSUME NEW L, NEW g
    PROVE  Shut(L, g) <=> ("CLOSING" \in Face(L, g) => g \in Timers \/ "SOCKET_CLOSED" \in Face(L, g))
  BY ShownIs DEF Shut, Shown

LEMMA UnseenSteady ==
    ASSUME NEW L, NEW M, Unseen(L, M)
    PROVE  Steady(L, M)
<1>1. \A g \in Handles : (Has(L, g, "CLOSING") => Has(M, g, "CLOSING")) /\ (Shut(L, g) => Shut(M, g))
  BY ClosingShows, ShutIs DEF Unseen
<1> QED
  BY <1>1 DEF Unseen, Steady

LEMMA TurnSteady ==
    ASSUME NEW L, NEW M, NEW h \in Handles, NEW F, Turns(L, M, h, F),
           "CLOSING" \in F => h \in Timers \/ "SOCKET_CLOSED" \in F
    PROVE  Steady(L, M)
<1>1. Lists(L, M) /\ Face(M, h) = F /\ ("CLOSING" \in Face(L, h) => "CLOSING" \in F)
      /\ \A g \in Handles \ {h} : Face(M, g) = Face(L, g)
  BY DEF Turns
<1>2. \A g \in Handles : (Has(L, g, "CLOSING") => Has(M, g, "CLOSING")) /\ (Shut(L, g) => Shut(M, g))
  BY <1>1, ClosingShows, ShutIs
<1> QED
  BY <1>1, <1>2 DEF Steady

LEMMA SteadyInv ==
    ASSUME SInv, CInv, CInv', Steady(loop, loop'),
           \A c \in Conns : request[ShutdownReq(c)] = "issued" => request'[ShutdownReq(c)] = "issued"
    PROVE  SInv'
<1>1. \A c \in Conns : ShutdownReq(c) \in loop.active_reqs => ShutdownReq(c) \in loop'.active_reqs
  BY DEF CInv
<1>2. ASSUME NEW h \in Handles
      PROVE  Wanted(loop', h) /\ Shut(loop', h)
  <2>1. Wanted(loop, h) /\ Shut(loop, h)
    BY DEF SInv
  <2> QED
    BY <1>1, <2>1 DEF Steady, Lists, Wanted
<1> QED
  BY <1>2 DEF SInv

-----------------------------------------------------------------------------
\* What a client sees of the loop.

LEMMA SeenFields ==
    /\ Seen.state = StatesIn(loop) /\ Seen.refs = RefsIn(loop) /\ Seen.active = ActivesIn(loop)
    /\ Seen.backlog = BacklogIn(loop) /\ Seen.connected = ConnsWith(loop, "CONNECTION")
    /\ Seen.writable = ConnsWith(loop, "WRITABLE") /\ Seen.readable = ConnsWith(loop, "READABLE")
    /\ Seen.writes = WritesIn(request) /\ Seen.shutting = ShuttingIn(request)
    /\ Seen.running = (pc # "outside") /\ Seen.stopped = loop.stop_flag /\ Seen.cb = CallbackSeen(cb)
<1>1. Seen = View(StatesIn(loop), RefsIn(loop), ActivesIn(loop), BacklogIn(loop), ConnsWith(loop, "CONNECTION"),
                  ConnsWith(loop, "WRITABLE"), ConnsWith(loop, "READABLE"), WritesIn(request), ShuttingIn(request),
                  pc # "outside", loop.stop_flag, CallbackSeen(cb))
  BY SeenIs DEF SeenIn
<1> QED
  BY <1>1, ViewIs

LEMMA HandlesAre == Promised!Handles = Handles
  BY DEF Promised!Handles, Handles

\* A handle that may be used is open, and one that is active may be used.
LEMMA OpenIs ==
    ASSUME IInv, CInv, NEW h \in Handles
    PROVE  /\ h \in loop.handle_queue /\ ~Has(loop, h, "CLOSING") <=> Seen.state[h] = "open"
           /\ Has(loop, h, "CLOSING") /\ ~Has(loop, h, "CLOSED") <=> Seen.state[h] = "closing"
           /\ h \notin loop.handle_queue /\ loop.flags[h] = {} => Seen.state[h] = "unborn"
           /\ h \in loop.handle_queue => Seen.state[h] \in {"open", "closing"}
           /\ ActiveIn(loop, h) => Seen.state[h] = "open"
<1>1. Lives(loop, h) /\ (Has(loop, h, "CLOSED") => Has(loop, h, "CLOSING"))
  BY InvIs DEF HandleInv, Lives
<1>2. Seen.state[h] = StateIn(loop, h)
  BY SeenFields DEF StatesIn
<1>3. ActiveIn(loop, h) => h \in loop.handle_queue /\ ~Has(loop, h, "CLOSING")
  BY <1>1 DEF Lives, Has, ActiveIn
<1>4. h \in loop.handle_queue => ~Has(loop, h, "CLOSED")
  BY <1>1 DEF Lives
<1>5. loop.flags[h] = {} => ~Has(loop, h, "CLOSED") /\ ~Has(loop, h, "CLOSING")
  BY DEF Has
<1> QED
  BY <1>1, <1>2, <1>3, <1>4, <1>5, StateIs

LEMMA CallbackIsSeen ==
    ASSUME NEW kind, NEW h, NEW r, NEW status, NEW next
    PROVE  /\ kind # "readloop" =>
                  CallbackSeen(Callback(kind, h, r, status, next)) = [kind |-> kind, handle |-> h, status |-> status]
           /\ CallbackSeen(Callback("readloop", h, r, status, next)) = Promised!None
           /\ CallbackSeen(NoCallback) = Promised!None
  BY DEF CallbackSeen, Callback, NoCallback, Promised!None

LEMMA NoneSeen ==
    ASSUME cb = NoCallback \/ cb.kind = "readloop"
    PROVE  Seen.cb = Promised!None
<1>1. cb.kind = "readloop" => CallbackSeen(cb) = Promised!None
  BY DEF CallbackSeen, Promised!None
<1> QED
  BY <1>1, SeenFields, CallbackIsSeen

\* The loop calls back only when no callback is in progress.
LEMMA InLoopIs ==
    ASSUME pc # "outside", cb = NoCallback \/ cb.kind = "readloop"
    PROVE  Promised!InLoop
  BY SeenFields, NoneSeen DEF Promised!InLoop

\* Where a client may call, it may.
LEMMA MayCallIs ==
    ASSUME MayCall
    PROVE  Promised!MayCall
<1>1. CASE pc = "outside"
  BY <1>1, SeenFields DEF Promised!MayCall
<1>2. CASE cb.kind \in Callbacks
  <2>1. cb.kind # "none" /\ cb.kind # "readloop"
    BY <1>2 DEF Callbacks
  <2>2. CallbackSeen(cb).kind # "none"
    BY <2>1 DEF CallbackSeen
  <2>3. Promised!None.kind = "none"
    BY DEF Promised!None
  <2> QED
    BY <2>2, <2>3, SeenFields DEF Promised!MayCall
<1> QED
  BY <1>1, <1>2 DEF MayCall

\* What a step does is one of the things Streams allows, or nothing a client sees.
Mapped == Promised!StreamsNext \/ UNCHANGED Seen

\* The client sees nothing of a step that shows nothing, leaves uv_run where it is seen
\* and makes no callback.
LEMMA UnseenStep ==
    ASSUME SInv, CInv, CInv', Unseen(loop, loop'), request' = request, (pc' # "outside") = (pc # "outside"),
           CallbackSeen(cb') = CallbackSeen(cb)
    PROVE  SInv' /\ Mapped
<1>1. SInv'
  BY UnseenSteady, SteadyInv
<1>2. Seen' = View(StatesIn(loop), RefsIn(loop), ActivesIn(loop), BacklogIn(loop'), ConnsWith(loop, "CONNECTION"),
                   ConnsWith(loop, "WRITABLE"), ConnsWith(loop, "READABLE"), WritesIn(request'), ShuttingIn(request'),
                   pc' # "outside", loop'.stop_flag, CallbackSeen(cb'))
  BY UnseenShows, SeenOf, SeenIs
<1>3. BacklogIn(loop') = BacklogIn(loop) /\ loop'.stop_flag = loop.stop_flag
  BY UnseenShows
<1>4. Seen' = Seen
  BY <1>2, <1>3, SeenIs DEF SeenIn
<1> QED
  BY <1>1, <1>4 DEF Mapped

-----------------------------------------------------------------------------
\* The requests of the clients.

Issued(q, c) == {r \in WriteReqs : r.handle = c /\ q[r] = "issued"}

LEMMA IssuedIs ==
    ASSUME NEW q, NEW c \in Conns
    PROVE  /\ IsFiniteSet(Issued(q, c)) /\ Cardinality(Issued(q, c)) \in Nat
           /\ Cardinality(Issued(q, c)) = 0 <=> Issued(q, c) = {}
           /\ WritesIn(q)[c] = Cardinality(Issued(q, c))
<1>1. Issued(q, c) \subseteq Of(ClientReqs, c)
  BY DEF Issued, Of, ClientReqs
<1>2. IsFiniteSet(Issued(q, c))
  BY <1>1, FewRequests, FS_Subset
<1>3. Cardinality(Issued(q, c)) \in Nat /\ (Cardinality(Issued(q, c)) = 0 <=> Issued(q, c) = {})
  BY <1>2, FS_CardinalityType, FS_EmptySet
<1>4. WritesIn(q)[c] = Cardinality(Issued(q, c))
  BY DEF WritesIn, Issued
<1> QED
  BY <1>2, <1>3, <1>4

\* What becomes of a request.
Marked(q, r, x) == [q EXCEPT ![r] = x]

\* A write is issued, and called back.
LEMMA WritesChange ==
    ASSUME NEW q \in [ClientReqs -> {"free", "issued", "called"}], NEW r \in WriteReqs, NEW x \in {"issued", "called"},
           NEW p, p = Marked(q, r, x), NEW c, c = r.handle
    PROVE  /\ x = "issued" /\ q[r] # "issued" => WritesIn(p) = [WritesIn(q) EXCEPT ![c] = WritesIn(q)[c] + 1]
           /\ x = "called" /\ q[r] = "issued" => /\ WritesIn(p) = [WritesIn(q) EXCEPT ![c] = WritesIn(q)[c] - 1]
                                                 /\ WritesIn(q)[c] > 0
           /\ ShuttingIn(p) = ShuttingIn(q)
           /\ \A d \in Conns : p[ShutdownReq(d)] = q[ShutdownReq(d)]
<1>1. c \in Conns /\ r \in ClientReqs /\ r.type = "WRITE"
  BY IoReqsAre
<1>2. \A w \in WriteReqs : w \in ClientReqs
  BY IoReqsAre
<1>3. /\ x = "issued" => Issued(p, c) = Issued(q, c) \cup {r}
      /\ x = "called" => Issued(p, c) = Issued(q, c) \ {r}
      /\ \A d \in Conns \ {c} : Issued(p, d) = Issued(q, d)
  <2>1. p[r] = x /\ \A w \in WriteReqs : w # r => p[w] = q[w]
    BY <1>1, <1>2 DEF Marked
  <2>2. x = "issued" => Issued(p, c) = Issued(q, c) \cup {r}
    BY <2>1 DEF Issued
  <2>3. x = "called" => Issued(p, c) = Issued(q, c) \ {r}
    BY <2>1 DEF Issued
  <2>4. \A d \in Conns \ {c} : Issued(p, d) = Issued(q, d)
    BY <2>1 DEF Issued
  <2> QED
    BY <2>2, <2>3, <2>4
<1>4. r \in Issued(q, c) <=> q[r] = "issued"
  BY <1>1 DEF Issued
<1>5. /\ IsFiniteSet(Issued(q, c)) /\ WritesIn(q)[c] = Cardinality(Issued(q, c))
      /\ \A d \in Conns : WritesIn(p)[d] = Cardinality(Issued(p, d)) /\ WritesIn(q)[d] = Cardinality(Issued(q, d))
  BY <1>1, IssuedIs
<1>6. \A d \in Conns \ {c} : WritesIn(p)[d] = WritesIn(q)[d]
  BY <1>3, <1>5
<1>7. ASSUME x = "issued", q[r] # "issued"
      PROVE  WritesIn(p) = [WritesIn(q) EXCEPT ![c] = WritesIn(q)[c] + 1]
  <2>1. Issued(p, c) = Issued(q, c) \cup {r} /\ r \notin Issued(q, c)
    BY <1>1, <1>3, <1>4, <1>7
  <2>2. Cardinality(Issued(q, c) \cup {r}) = Cardinality(Issued(q, c)) + 1
    BY <1>5, <2>1, CountChanges
  <2>3. WritesIn(p)[c] = WritesIn(q)[c] + 1
    BY <1>1, <1>5, <2>1, <2>2
  <2> QED
    BY <1>6, <2>3 DEF WritesIn
<1>8. ASSUME x = "called", q[r] = "issued"
      PROVE  WritesIn(p) = [WritesIn(q) EXCEPT ![c] = WritesIn(q)[c] - 1] /\ WritesIn(q)[c] > 0
  <2>1. Issued(p, c) = Issued(q, c) \ {r} /\ r \in Issued(q, c)
    BY <1>1, <1>3, <1>4, <1>8
  <2>2. Cardinality(Issued(q, c) \ {r}) = Cardinality(Issued(q, c)) - 1 /\ Cardinality(Issued(q, c)) > 0
    BY <1>5, <2>1, CountChanges
  <2>3. WritesIn(p)[c] = WritesIn(q)[c] - 1 /\ WritesIn(q)[c] > 0
    BY <1>1, <1>5, <2>1, <2>2
  <2> QED
    BY <1>6, <2>3 DEF WritesIn
<1>9. \A d \in Conns : p[ShutdownReq(d)] = q[ShutdownReq(d)]
  BY <1>1, IoReqsAre DEF Marked
<1>10. ShuttingIn(p) = ShuttingIn(q)
  BY <1>9 DEF ShuttingIn
<1> QED
  BY <1>7, <1>8, <1>9, <1>10

\* A shutdown is issued, and called back.
LEMMA ShutdownsChange ==
    ASSUME NEW q \in [ClientReqs -> {"free", "issued", "called"}], NEW c \in Conns, NEW x \in {"issued", "called"},
           NEW p, p = Marked(q, ShutdownReq(c), x)
    PROVE  /\ x = "issued" => ShuttingIn(p) = ShuttingIn(q) \cup {c}
           /\ x = "called" => ShuttingIn(p) = ShuttingIn(q) \ {c}
           /\ WritesIn(p) = WritesIn(q)
           /\ \A d \in Conns \ {c} : p[ShutdownReq(d)] = q[ShutdownReq(d)]
<1>1. \A d \in Conns : ShutdownReq(d) \in ClientReqs /\ ShutdownReq(d).handle = d
  BY IoReqsAre
<1>2. \A d \in Conns \ {c} : p[ShutdownReq(d)] = q[ShutdownReq(d)]
  BY <1>1 DEF Marked
<1>3. p[ShutdownReq(c)] = x
  BY <1>1 DEF Marked
<1>4. /\ x = "issued" => ShuttingIn(p) = ShuttingIn(q) \cup {c}
      /\ x = "called" => ShuttingIn(p) = ShuttingIn(q) \ {c}
  BY <1>2, <1>3 DEF ShuttingIn
<1>5. \A w \in WriteReqs : p[w] = q[w]
  <2>1. \A w \in WriteReqs : w \in ClientReqs /\ w # ShutdownReq(c)
    BY IoReqsAre
  <2> QED
    BY <2>1 DEF Marked
<1>6. WritesIn(p) = WritesIn(q)
  BY <1>5 DEF WritesIn
<1> QED
  BY <1>2, <1>4, <1>6

-----------------------------------------------------------------------------
\* The loop is alive exactly when the client has left it something to do.

LEMMA HandlesAlive ==
    ASSUME IInv, CInv, NEW h \in Handles
    PROVE  h \in Counted(loop) =>
               \/ Seen.state[h] = "closing"
               \/ h \in Seen.active /\ h \in Seen.refs
               \/ h \in Conns /\ \E r \in loop.active_reqs : r.handle = h
<1>1. HandleInv(loop, Queued(loop, work), cb, h) /\ loop.active_reqs \in SUBSET ClientReqs
      /\ Queued(loop, work) \in SUBSET IoReqs
  BY InvIs
<1>2. CASE Has(loop, h, "CLOSING") /\ ~Has(loop, h, "CLOSED")
  BY <1>2, OpenIs
<1>3. CASE {"ACTIVE", "REF"} \subseteq loop.flags[h]
  <2>1. Has(loop, h, "ACTIVE") /\ Has(loop, h, "REF") /\ h \in Seen.refs
    BY <1>3, SeenFields DEF Has, RefsIn
  <2>2. h \in Seen.active <=> ActiveIn(loop, h)
    BY SeenFields DEF ActivesIn
  <2>3. CASE h \in Timers
    BY <2>1, <2>2, <2>3 DEF ActiveIn
  <2>4. CASE h \in Servers \cup Conns
    <3>1. Counts(loop, Queued(loop, work), cb, h) /\ ~Has(loop, h, "CLOSING")
      BY <1>1, <2>1, <2>4, ActiveIsOpen DEF HandleInv
    <3>2. loop.activecnt[h] > 0
      BY <2>1, <3>1 DEF Counts
    <3>3. CASE Of(loop.active_reqs, h) = {}
      <4>1. Cardinality(Of(loop.active_reqs, h)) = 0
        BY <3>3, FS_EmptySet
      <4>2. Has(loop, h, "READING") \/ Has(loop, h, "LISTENING")
        BY <3>1, <3>2, <4>1 DEF Counts, One
      <4>3. (h \in Servers => ~Has(loop, h, "READING")) /\ (h \in Conns => ~Has(loop, h, "LISTENING"))
        BY <1>1 DEF HandleInv, Listens, Shuts
      <4> QED
        BY <2>1, <2>2, <2>4, <4>2, <4>3 DEF ActiveIn
    <3>4. CASE Of(loop.active_reqs, h) # {}
      <4>1. PICK r \in loop.active_reqs : r.handle = h
        BY <3>4 DEF Of
      <4>2. h \in Conns
        BY <1>1, <4>1 DEF ClientReqs, WriteReqs, ShutdownReqs
      <4> QED
        BY <4>1, <4>2
    <3> QED
      BY <3>3, <3>4
  <2> QED
    BY <2>3, <2>4 DEF Handles
<1> QED
  BY <1>2, <1>3 DEF Counted

LEMMA ActiveIsCounted ==
    ASSUME IInv, CInv, NEW h \in Handles, Seen.state[h] = "closing" \/ (h \in Seen.active /\ h \in Seen.refs)
    PROVE  h \in Counted(loop)
<1>1. HandleInv(loop, Queued(loop, work), cb, h) /\ loop.active_reqs \in SUBSET ClientReqs
      /\ Queued(loop, work) \in SUBSET IoReqs
  BY InvIs
<1>2. CASE Seen.state[h] = "closing"
  BY <1>2, OpenIs DEF Counted
<1>3. CASE h \in Seen.active /\ h \in Seen.refs
  <2>1. ActiveIn(loop, h) /\ Has(loop, h, "REF")
    BY <1>3, SeenFields DEF ActivesIn, RefsIn
  <2>2. ~Has(loop, h, "CLOSING")
    BY <2>1, OpenIs
  <2>3. Has(loop, h, "ACTIVE")
    <3>1. CASE h \in Timers
      BY <2>1, <3>1, Kinds DEF ActiveIn
    <3>2. CASE h \in Servers \cup Conns
      <4>1. Counts(loop, Queued(loop, work), cb, h)
        BY <1>1, <3>2 DEF HandleInv
      <4>2. Has(loop, h, "READING") \/ Has(loop, h, "LISTENING")
        BY <2>1, <3>2, Kinds DEF ActiveIn
      <4>3. Cardinality(Of(loop.active_reqs, h)) \in Nat
        BY <1>1, <3>2, ReqsAreFinite
      <4>4. loop.activecnt[h] > 0
        BY <4>1, <4>2, <4>3 DEF Counts, One
      <4> QED
        BY <2>2, <4>1, <4>4 DEF Counts
    <3> QED
      BY <3>1, <3>2 DEF Handles
  <2> QED
    BY <2>1, <2>3 DEF Counted, Has
<1> QED
  BY <1>2, <1>3

LEMMA ReqsAlive ==
    ASSUME IInv, CInv
    PROVE  loop.active_reqs # {} <=> \E c \in Conns : ~Promised!Answered(Seen, c)
<1>1. loop.active_reqs = {r \in ClientReqs : request[r] = "issued"}
  BY DEF CInv
<1>2. \A c \in Conns : ~Promised!Answered(Seen, c) <=> Issued(request, c) # {} \/ request[ShutdownReq(c)] = "issued"
  <2>1. \A c \in Conns : /\ Seen.writes[c] = Cardinality(Issued(request, c))
                         /\ Cardinality(Issued(request, c)) = 0 <=> Issued(request, c) = {}
                         /\ c \in Seen.shutting <=> request[ShutdownReq(c)] = "issued"
    BY SeenFields, IssuedIs DEF ShuttingIn
  <2> QED
    BY <2>1 DEF Promised!Answered
<1>3. ASSUME NEW r \in loop.active_reqs
      PROVE  \E c \in Conns : Issued(request, c) # {} \/ request[ShutdownReq(c)] = "issued"
  <2>1. r \in ClientReqs /\ request[r] = "issued"
    BY <1>1
  <2>2. CASE r \in WriteReqs
    BY <2>1, <2>2, IoReqsAre DEF Issued
  <2>3. CASE r \in ShutdownReqs
    <3>1. r.handle \in Conns /\ r = ShutdownReq(r.handle)
      BY <2>3 DEF ShutdownReqs, ShutdownReq
    <3> QED
      BY <2>1, <3>1
  <2> QED
    BY <2>1, <2>2, <2>3 DEF ClientReqs
<1>4. ASSUME NEW c \in Conns, Issued(request, c) # {} \/ request[ShutdownReq(c)] = "issued"
      PROVE  loop.active_reqs # {}
  BY <1>1, <1>4, IoReqsAre DEF Issued
<1> QED
  BY <1>2, <1>3, <1>4

LEMMA AliveIs ==
    ASSUME IInv, CInv, SInv
    PROVE  Promised!Alive(Seen) <=> LoopAlive(loop)
<1>1. LoopOK(loop) /\ loop.active_handles = Cardinality(Counted(loop)) /\ Threaded(loop)
  BY InvIs DEF LoopOK, Accounted
<1>2. /\ IsFiniteSet(Counted(loop)) /\ Cardinality(Counted(loop)) \in Nat
      /\ Cardinality(Counted(loop)) = 0 <=> Counted(loop) = {}
  <2>1. IsFiniteSet(Counted(loop))
    BY HandlesAssumption, FS_Subset DEF Counted
  <2> QED
    BY <2>1, FS_CardinalityType, FS_EmptySet
<1>3. loop.active_handles > 0 <=> Counted(loop) # {}
  BY <1>1, <1>2
<1>4. ASSUME Promised!Alive(Seen) PROVE LoopAlive(loop)
  <2>1. CASE \E c \in Conns : ~Promised!Answered(Seen, c)
    BY <2>1, ReqsAlive DEF LoopAlive
  <2>2. CASE \E h \in Promised!Handles : Seen.state[h] = "closing" \/ h \in Seen.active \cap Seen.refs
    <3>1. PICK h \in Handles : Seen.state[h] = "closing" \/ h \in Seen.active \cap Seen.refs
      BY <2>2, HandlesAre
    <3>2. h \in Counted(loop)
      BY <3>1, ActiveIsCounted
    <3> QED
      BY <1>3, <3>2 DEF LoopAlive
  <2> QED
    BY <1>4, <2>1, <2>2 DEF Promised!Alive
<1>5. ASSUME NEW h \in Handles, h \in Counted(loop) PROVE Promised!Alive(Seen)
  <2>1. CASE Seen.state[h] = "closing" \/ (h \in Seen.active /\ h \in Seen.refs)
    BY <2>1, HandlesAre DEF Promised!Alive
  <2>2. CASE \E r \in loop.active_reqs : r.handle = h
    BY <2>2, ReqsAlive DEF Promised!Alive
  <2> QED
    BY <1>5, <2>1, <2>2, HandlesAlive
<1>6. ASSUME loop.endgame # << >> PROVE Promised!Alive(Seen)
  <2>1. loop.endgame \in Seq(Handles)
    BY <1>1 DEF LoopOK, LoopType
  <2>2. 1 \in DOMAIN loop.endgame /\ loop.endgame[1] \in Handles
    BY <1>6, <2>1
  <2> DEFINE h == loop.endgame[1]
  <2>3. Has(loop, h, "ENDGAME_QUEUED") /\ Wanted(loop, h) /\ Lives(loop, h)
    BY <1>1, <2>2, InvIs DEF Threaded, SInv, HandleInv
  <2>4. CASE Has(loop, h, "CLOSING")
    <3>1. h \in Counted(loop)
      BY <2>2, <2>3, <2>4 DEF Lives, Counted
    <3> QED
      BY <1>5, <2>2, <3>1
  <2>5. CASE h \in Conns /\ ShutdownReq(h) \in loop.active_reqs
    BY <2>5, ReqsAlive DEF Promised!Alive
  <2> QED
    BY <2>3, <2>4, <2>5 DEF Wanted
<1>7. ASSUME LoopAlive(loop) PROVE Promised!Alive(Seen)
  <2>1. CASE loop.active_handles > 0
    <3>1. PICK h \in Handles : h \in Counted(loop)
      BY <1>3, <2>1 DEF Counted
    <3> QED
      BY <1>5, <3>1
  <2>2. CASE loop.active_reqs # {}
    BY <2>2, ReqsAlive DEF Promised!Alive
  <2> QED
    BY <1>6, <1>7, <2>1, <2>2 DEF LoopAlive
<1> QED
  BY <1>4, <1>7

-----------------------------------------------------------------------------
\* The steps of uv_run and of the kernel.

LEMMA StutterS ==
    ASSUME IInv, CInv, SInv, CInv',
           TimersEnd \/ ReqsEnd \/ Poll \/ ReadLoopEnd \/ \E r \in IoReqs : KernelCompletes(r)
    PROVE  SInv' /\ Mapped
<1>1. LoopOK(loop) /\ loop \in LoopType
  BY InvIs DEF LoopOK
<1>2. CASE TimersEnd
  <2>1. loop' = [loop EXCEPT !.pending = << >>] /\ request' = request /\ pc # "outside" /\ pc' # "outside" /\ cb' = cb
    BY <1>2 DEF TimersEnd
  <2>2. Unseen(loop, loop')
    BY <1>1, <2>1, OthersUnseen
  <2> QED
    BY <2>1, <2>2, UnseenStep
<1>3. CASE ReqsEnd
  <2>1. loop' = loop /\ request' = request /\ pc # "outside" /\ pc' # "outside" /\ cb' = cb
    BY <1>3 DEF ReqsEnd
  <2>2. Unseen(loop, loop')
    BY <2>1, AsideUnseen DEF Beside
  <2> QED
    BY <2>1, <2>2, UnseenStep
<1>4. CASE Poll
  <2> DEFINE fresh == \A p \in DOMAIN loop.pending, q \in DOMAIN loop.iocp : loop.pending[p].req # loop.iocp[q].req
             L == Check(loop, "pending: not queued", fresh)
             x == L.pending \o L.iocp
             A == [L EXCEPT !.pending = x]
             B == [A EXCEPT !.iocp = << >>]
  <2>1. loop' = [L EXCEPT !.pending = x, !.iocp = << >>]
        /\ request' = request /\ pc # "outside" /\ pc' # "outside" /\ cb' = cb
    BY <1>4 DEF Poll
  <2> HIDE DEF fresh
  <2>2. LoopOK(L) /\ Unseen(loop, L)
    BY <1>1, CheckOK, CheckUnseen DEF Assertions
  <2> HIDE DEF L, x
  <2>3. loop'.flags = L.flags /\ loop'.handle_queue = L.handle_queue
        /\ loop'.pending_accepts = L.pending_accepts /\ loop'.stop_flag = L.stop_flag
    BY <2>1, <2>2 DEF LoopOK, LoopType
  <2>4. Unseen(L, loop')
    BY <2>3, AsideUnseen DEF Beside
  <2>5. Unseen(loop, loop')
    BY <2>2, <2>4, UnseenTrans
  <2> QED
    BY <2>1, <2>5, UnseenStep
<1>5. CASE ReadLoopEnd
  <2>1. /\ cb.kind = "readloop" /\ cb.handle \in Conns /\ loop' = DecreasePendingReqCount(loop, cb.handle)
        /\ cb' = NoCallback /\ pc' = pc /\ request' = request
    BY <1>5 DEF ReadLoopEnd, IInv, Fits
  <2>2. Unseen(loop, loop')
    BY <1>1, <2>1, PendingCountUnseen
  <2>3. CallbackSeen(cb) = Promised!None /\ CallbackSeen(cb') = Promised!None
    BY <2>1, CallbackIsSeen DEF CallbackSeen, Promised!None
  <2> QED
    BY <2>1, <2>2, <2>3, UnseenStep
<1>6. ASSUME NEW r \in IoReqs, KernelCompletes(r)
      PROVE  SInv' /\ Mapped
  <2>1. PICK ok \in BOOLEAN : loop' = [loop EXCEPT !.kernel = @ \ {r}, !.iocp = Append(@, Packet(r, ok))]
    BY <1>6 DEF KernelCompletes
  <2>2. loop'.flags = loop.flags /\ loop'.handle_queue = loop.handle_queue
        /\ loop'.pending_accepts = loop.pending_accepts /\ loop'.stop_flag = loop.stop_flag
    BY <1>1, <2>1 DEF LoopType
  <2>3. Unseen(loop, loop')
    BY <2>2, AsideUnseen DEF Beside
  <2>4. request' = request /\ pc' = pc /\ cb' = cb
    BY <1>6 DEF KernelCompletes
  <2> QED
    BY <2>3, <2>4, UnseenStep
<1> QED
  BY <1>2, <1>3, <1>4, <1>5, <1>6

\* Where the loop only learns whether it goes on.
LEMMA FlagStep2 ==
    ASSUME IInv, CInv, SInv, CInv', request' = request, cb' = cb,
           loop' = loop \/ loop' = [loop EXCEPT !.stop_flag = FALSE]
    PROVE  /\ SInv'
           /\ Seen' = View(Seen.state, Seen.refs, Seen.active, Seen.backlog, Seen.connected, Seen.writable, Seen.readable,
                           Seen.writes, Seen.shutting, pc' # "outside", loop'.stop_flag, Seen.cb)
<1>1. loop'.flags = loop.flags /\ loop'.handle_queue = loop.handle_queue /\ loop'.pending_accepts = loop.pending_accepts
  <2>1. loop \in LoopType
    BY InvIs DEF LoopOK
  <2> QED
    BY <2>1 DEF LoopType
<1>2. Steady(loop, loop')
  BY <1>1 DEF Steady, Lists, Shut, Has
<1>3. SInv'
  BY <1>2, SteadyInv
<1>4. Shows(loop', StatesIn(loop), RefsIn(loop), ActivesIn(loop), ConnsWith(loop, "CONNECTION"),
            ConnsWith(loop, "WRITABLE"), ConnsWith(loop, "READABLE"))
      /\ BacklogIn(loop') = BacklogIn(loop)
  BY <1>1, NoneShows DEF Face, BacklogIn
<1>5. Seen' = View(StatesIn(loop), RefsIn(loop), ActivesIn(loop), BacklogIn(loop'), ConnsWith(loop, "CONNECTION"),
                   ConnsWith(loop, "WRITABLE"), ConnsWith(loop, "READABLE"), WritesIn(request'), ShuttingIn(request'),
                   pc' # "outside", loop'.stop_flag, CallbackSeen(cb'))
  BY <1>4, SeenOf, SeenIs
<1> QED
  BY <1>3, <1>4, <1>5, SeenFields

LEMMA SeenIsView ==
    Seen = View(Seen.state, Seen.refs, Seen.active, Seen.backlog, Seen.connected, Seen.writable, Seen.readable,
                Seen.writes, Seen.shutting, Seen.running, Seen.stopped, Seen.cb)
<1>1. Seen = View(StatesIn(loop), RefsIn(loop), ActivesIn(loop), BacklogIn(loop), ConnsWith(loop, "CONNECTION"),
                  ConnsWith(loop, "WRITABLE"), ConnsWith(loop, "READABLE"), WritesIn(request), ShuttingIn(request),
                  pc # "outside", loop.stop_flag, CallbackSeen(cb))
  BY SeenIs DEF SeenIn
<1> QED
  BY <1>1, SeenFields

LEMMA RunS ==
    ASSUME IInv, CInv, SInv, CInv', RunBegin \/ EndgamesEnd
    PROVE  SInv' /\ Mapped
<1>1. /\ NextIteration /\ request' = request /\ cb' = cb
      /\ RunBegin => pc = "outside"
      /\ EndgamesEnd => pc = "endgames" /\ cb = NoCallback
  BY DEF RunBegin, EndgamesEnd
<1>2. loop' = loop \/ loop' = [loop EXCEPT !.stop_flag = FALSE]
  BY <1>1 DEF NextIteration
<1>3. /\ SInv'
      /\ Seen' = View(Seen.state, Seen.refs, Seen.active, Seen.backlog, Seen.connected, Seen.writable, Seen.readable,
                      Seen.writes, Seen.shutting, pc' # "outside", loop'.stop_flag, Seen.cb)
  BY <1>1, <1>2, FlagStep2
<1>4. /\ Seen.running = (pc # "outside") /\ Seen.stopped = loop.stop_flag
      /\ Promised!Alive(Seen) <=> LoopAlive(loop)
  BY SeenFields, AliveIs
<1>5. CASE LoopAlive(loop) /\ ~loop.stop_flag
  <2> DEFINE x == TRUE
  <2>1. pc' = "timers" /\ loop' = loop
    BY <1>1, <1>5 DEF NextIteration
  <2>2. (pc' # "outside") = x /\ loop'.stop_flag = Seen.stopped
    BY <1>4, <2>1
  <2> HIDE DEF x
  <2>3. Seen' = [Seen EXCEPT !.running = x]
    BY <1>3, <2>2, SeenIsView, RunsIs
  <2>4. CASE RunBegin
    <3>1. ~Seen.running /\ ~Seen.stopped /\ Promised!Alive(Seen)
      BY <1>1, <1>4, <1>5, <2>4
    <3>2. Promised!RunBegins
      BY <2>3, <3>1 DEF Promised!RunBegins, x
    <3> QED
      BY <1>3, <3>2 DEF Mapped, Promised!StreamsNext
  <2>5. CASE EndgamesEnd
    <3>1. Seen.running = (pc' # "outside")
      BY <1>1, <1>4, <2>1, <2>5
    <3>2. Seen' = Seen
      BY <1>3, <2>2, <3>1, SeenIsView
    <3> QED
      BY <1>3, <3>2 DEF Mapped
  <2> QED
    BY <2>4, <2>5
<1>6. CASE ~(LoopAlive(loop) /\ ~loop.stop_flag)
  <2> DEFINE x == FALSE
  <2>1. pc' = "outside" /\ loop' = [loop EXCEPT !.stop_flag = FALSE]
    BY <1>1, <1>6 DEF NextIteration
  <2>2. loop'.stop_flag = x
    <3>1. loop \in LoopType
      BY InvIs DEF LoopOK
    <3> QED
      BY <2>1, <3>1 DEF LoopType
  <2>3. (pc' # "outside") = x
    BY <2>1
  <2> HIDE DEF x
  <2>4. CASE RunBegin
    <3>1. ~Seen.running /\ ~(Promised!Alive(Seen) /\ ~Seen.stopped) /\ Seen.running = (pc' # "outside")
      BY <1>1, <1>4, <1>6, <2>1, <2>4
    <3>2. Seen' = [Seen EXCEPT !.stopped = x]
      BY <1>3, <2>2, <3>1, SeenIsView, StopsIs
    <3>3. Promised!RunBegins
      BY <3>1, <3>2 DEF Promised!RunBegins, x
    <3> QED
      BY <1>3, <3>3 DEF Mapped, Promised!StreamsNext
  <2>5. CASE EndgamesEnd
    <3>1. Promised!InLoop
      BY <1>1, <2>5, InLoopIs
    <3>2. Seen.stopped \/ ~Promised!Alive(Seen)
      BY <1>4, <1>6
    <3>3. Seen' = View(Seen.state, Seen.refs, Seen.active, Seen.backlog, Seen.connected, Seen.writable, Seen.readable,
                       Seen.writes, Seen.shutting, x, x, Seen.cb)
      BY <1>3, <2>2, <2>3
    <3>4. Seen' = [Seen EXCEPT !.running = x, !.stopped = x]
      <4> DEFINE U == Seen
      <4>1. U = View(U.state, U.refs, U.active, U.backlog, U.connected, U.writable, U.readable, U.writes, U.shutting,
                     U.running, U.stopped, U.cb)
        BY SeenIsView
      <4> HIDE DEF U
      <4> DEFINE V == [U EXCEPT !.running = x]
      <4>2. V = View(U.state, U.refs, U.active, U.backlog, U.connected, U.writable, U.readable, U.writes, U.shutting,
                     x, U.stopped, U.cb)
        BY <4>1, RunsIs
      <4>3. [V EXCEPT !.stopped = x] = [U EXCEPT !.running = x, !.stopped = x]
        OBVIOUS
      <4> HIDE DEF V
      <4>4. [V EXCEPT !.stopped = x] = View(U.state, U.refs, U.active, U.backlog, U.connected, U.writable, U.readable,
                                            U.writes, U.shutting, x, x, U.cb)
        BY <4>2, StopsIs
      <4> QED
        BY <3>3, <4>3, <4>4 DEF U
    <3>5. Promised!RunEnds
      BY <3>1, <3>2, <3>4 DEF Promised!RunEnds, x
    <3> QED
      BY <1>3, <3>5 DEF Mapped, Promised!StreamsNext
  <2> QED
    BY <2>4, <2>5
<1> QED
  BY <1>5, <1>6

-----------------------------------------------------------------------------
\* Callbacks begin.

LEMMA BeginsSeen ==
    ASSUME NEW st, NEW re, NEW ac, NEW ba, NEW co, NEW wr, NEW rd, NEW ws, NEW sh,
           Shows(loop', st, re, ac, co, wr, rd), BacklogIn(loop') = ba, WritesIn(request') = ws, ShuttingIn(request') = sh,
           loop'.stop_flag = loop.stop_flag, pc' = pc,
           NEW kind, NEW h, NEW r, NEW status, NEW next, cb' = Callback(kind, h, r, status, next), kind # "readloop"
    PROVE  Seen' = View(st, re, ac, ba, co, wr, rd, ws, sh, Seen.running, Seen.stopped,
                        [kind |-> kind, handle |-> h, status |-> status])
<1>1. Seen' = View(st, re, ac, BacklogIn(loop'), co, wr, rd, WritesIn(request'), ShuttingIn(request'), pc' # "outside",
                   loop'.stop_flag, CallbackSeen(cb'))
  BY SeenOf, SeenIs
<1>2. CallbackSeen(cb') = [kind |-> kind, handle |-> h, status |-> status]
  BY CallbackIsSeen
<1>3. (pc' # "outside") = Seen.running /\ loop'.stop_flag = Seen.stopped
  BY SeenFields
<1> QED
  BY <1>1, <1>2, <1>3

\* The same when no request is called back.
LEMMA ActiveBegins ==
    ASSUME NEW h \in Handles, NEW F, Turns(loop, loop', h, F),
           F \ {"LISTENING", "READING", "ACTIVE"} = Face(loop, h) \ {"LISTENING", "READING", "ACTIVE"},
           request' = request, pc' = pc,
           NEW kind, NEW g, NEW r, NEW status, NEW next, cb' = Callback(kind, g, r, status, next), kind # "readloop"
    PROVE  Seen' = View(Seen.state, Seen.refs, Put(Seen.active, h, Acts(h, F)), Seen.backlog, Seen.connected,
                        Seen.writable, Seen.readable, Seen.writes, Seen.shutting, Seen.running, Seen.stopped,
                        [kind |-> kind, handle |-> g, status |-> status])
<1>1. /\ Shows(loop', Seen.state, Seen.refs, Put(Seen.active, h, Acts(h, F)), Seen.connected, Seen.writable, Seen.readable)
      /\ BacklogIn(loop') = Seen.backlog /\ loop'.stop_flag = loop.stop_flag
  BY ActiveShows, SeenFields
<1>2. WritesIn(request') = Seen.writes /\ ShuttingIn(request') = Seen.shutting
  BY SeenFields
<1> QED
  BY <1>1, <1>2, BeginsSeen

\* A face that differs in these flags is as closed and as shut as it was.
LEMMA ActiveSteady ==
    ASSUME NEW h \in Handles, NEW F, Turns(loop, loop', h, F), SInv,
           F \ {"LISTENING", "READING", "ACTIVE"} = Face(loop, h) \ {"LISTENING", "READING", "ACTIVE"}
    PROVE  Steady(loop, loop')
<1>1. "CLOSING" \in F => h \in Timers \/ "SOCKET_CLOSED" \in F
  <2>1. "CLOSING" \in Face(loop, h) => h \in Timers \/ "SOCKET_CLOSED" \in Face(loop, h)
    BY ShutIs DEF SInv
  <2>2. \A f \in {"CLOSING", "SOCKET_CLOSED"} : f \in F <=> f \in Face(loop, h)
    OBVIOUS
  <2> QED
    BY <2>1, <2>2
<1> QED
  BY <1>1, TurnSteady

LEMMA FireTimerS ==
    ASSUME IInv, CInv, SInv, CInv', NEW t \in Timers, FireTimer(t)
    PROVE  SInv' /\ Mapped
<1>1. /\ LoopOK(loop) /\ loop.failed = {} /\ t \in Handles /\ pc # "outside" /\ cb = NoCallback /\ t \in due
      /\ request' = request /\ pc' = pc /\ cb' = Callback("timer", t, NoReq, "ok", "return")
  BY InvIs, Kinds DEF FireTimer
<1>2. Has(loop, t, "ACTIVE") /\ ~Has(loop, t, "CLOSING")
  BY <1>1, ActiveIsOpen DEF CInv, ActiveTimers
<1>3. \E F : /\ Turns(loop, loop', t, F)
             /\ F \ {"LISTENING", "READING", "ACTIVE"} = Face(loop, t) \ {"LISTENING", "READING", "ACTIVE"}
  <2> DEFINE A == TimerStop(loop, t)
             G == Face(loop, t) \ {"ACTIVE"}
  <2>1. LoopOK(A) /\ A.failed = {} /\ Turns(loop, A, t, G)
    <3>1. A.failed = loop.failed
      BY <1>1, TimerBecomes DEF Becomes
    <3> QED
      BY <1>1, <3>1, TimerOK, TimerTurns
  <2>2. loop' = A \/ loop' = TimerStart(A, t)
    BY DEF FireTimer
  <2> HIDE DEF A
  <2>3. Face(A, t) = G /\ ~Has(A, t, "CLOSING")
    <3>1. Face(A, t) = G
      BY <2>1 DEF Turns
    <3>2. "CLOSING" \notin G
      BY <1>2, ClosingShows
    <3> QED
      BY <3>1, <3>2, ClosingShows
  <2>4. Turns(A, TimerStart(A, t), t, G \cup {"ACTIVE"})
    BY <2>1, <2>3, TimerTurns
  <2>5. CASE loop' = A
    BY <2>1, <2>5
  <2>6. CASE loop' = TimerStart(A, t)
    <3>1. Turns(loop, loop', t, G \cup {"ACTIVE"})
      BY <1>1, <2>1, <2>4, <2>6, TurnsTrans
    <3>2. (G \cup {"ACTIVE"}) \ {"LISTENING", "READING", "ACTIVE"} = Face(loop, t) \ {"LISTENING", "READING", "ACTIVE"}
      OBVIOUS
    <3> QED
      BY <3>1, <3>2
  <2> QED
    BY <2>2, <2>5, <2>6
<1>4. PICK F : /\ Turns(loop, loop', t, F)
               /\ F \ {"LISTENING", "READING", "ACTIVE"} = Face(loop, t) \ {"LISTENING", "READING", "ACTIVE"}
  BY <1>3
<1>5. SInv'
  BY <1>1, <1>4, ActiveSteady, SteadyInv
<1>6. t \in Seen.active /\ Seen.state[t] = "open"
  BY <1>1, <1>2, OpenIs, SeenFields DEF ActivesIn, ActiveIn
<1> DEFINE A == Put(Seen.active, t, Acts(t, F))
<1>7. A \in {Seen.active, Seen.active \ {t}}
  BY <1>6, PutIs
<1>8. Seen' = View(Seen.state, Seen.refs, A, Seen.backlog, Seen.connected, Seen.writable, Seen.readable, Seen.writes,
                   Seen.shutting, Seen.running, Seen.stopped, [kind |-> "timer", handle |-> t, status |-> "ok"])
  BY <1>1, <1>4, ActiveBegins
<1> HIDE DEF A
<1>9. Seen' = Promised!Begins([Seen EXCEPT !.active = A], "timer", t, "ok")
  BY <1>8, SeenIsView, BeginsInactive
<1>10. Promised!Tick(t)
  BY <1>1, <1>6, <1>7, <1>9, InLoopIs DEF Promised!Tick, Promised!Open
<1> QED
  BY <1>5, <1>10 DEF Mapped, Promised!StreamsNext, Promised!Callbacks


-----------------------------------------------------------------------------
\* Reading.

\* A callback begins and nothing else shows.
LEMMA UnseenBegins ==
    ASSUME Unseen(loop, loop'), request' = request, pc' = pc,
           NEW kind, NEW h, NEW r, NEW status, NEW next, cb' = Callback(kind, h, r, status, next), kind # "readloop"
    PROVE  Seen' = Promised!Begins(Seen, kind, h, status)
<1>1. /\ Shows(loop', Seen.state, Seen.refs, Seen.active, Seen.connected, Seen.writable, Seen.readable)
      /\ BacklogIn(loop') = Seen.backlog /\ loop'.stop_flag = loop.stop_flag
  BY UnseenShows, SeenFields
<1>2. WritesIn(request') = Seen.writes /\ ShuttingIn(request') = Seen.shutting
  BY SeenFields
<1>3. Seen' = View(Seen.state, Seen.refs, Seen.active, Seen.backlog, Seen.connected, Seen.writable, Seen.readable,
                   Seen.writes, Seen.shutting, Seen.running, Seen.stopped, [kind |-> kind, handle |-> h, status |-> status])
  BY <1>1, <1>2, BeginsSeen
<1> QED
  BY <1>3, SeenIsView, BeginsIs

\* A handle is called back and no longer active.
LEMMA StopBegins ==
    ASSUME SInv, CInv, CInv', NEW h \in Handles, NEW f \in {"LISTENING", "READING"}, ~Acts(h, Face(loop, h) \ {f}),
           Turns(loop, loop', h, Face(loop, h) \ {f}), request' = request, pc' = pc,
           NEW kind, NEW r, NEW status, NEW next, cb' = Callback(kind, h, r, status, next), kind # "readloop"
    PROVE  SInv' /\ Seen' = Promised!Begins([Seen EXCEPT !.active = @ \ {h}], kind, h, status)
<1> DEFINE F == Face(loop, h) \ {f}
           A == Put(Seen.active, h, Acts(h, F))
<1>1. F \ {"LISTENING", "READING", "ACTIVE"} = Face(loop, h) \ {"LISTENING", "READING", "ACTIVE"}
  OBVIOUS
<1>2. SInv'
  BY <1>1, ActiveSteady, SteadyInv
<1>3. A = Seen.active \ {h}
  BY PutIs
<1>4. Seen' = View(Seen.state, Seen.refs, A, Seen.backlog, Seen.connected, Seen.writable, Seen.readable, Seen.writes,
                   Seen.shutting, Seen.running, Seen.stopped, [kind |-> kind, handle |-> h, status |-> status])
  BY <1>1, ActiveBegins
<1> HIDE DEF A
<1>5. Seen' = Promised!Begins([Seen EXCEPT !.active = A], kind, h, status)
  BY <1>4, SeenIsView, BeginsInactive
<1> QED
  BY <1>2, <1>3, <1>5

LEMMA ReadBegins ==
    ASSUME IInv, CInv, SInv, CInv', NEW c \in Conns, Has(loop, c, "READING"),
           pc # "outside", request' = request, pc' = pc,
           cb = NoCallback \/ cb.kind = "readloop" \/ (cb.kind = "alloc" /\ cb.handle = c),
           NEW r, NEW status, NEW next, cb' = Callback("read", c, r, status, next),
           \/ status \in {"data", "empty", "nobufs"} /\ Unseen(loop, loop')
           \/ status = "error" /\ Turns(loop, loop', c, Face(loop, c) \ {"READING"})
           \/ status = "eof" /\ Turns(loop, loop', c, Face(loop, c) \ {"READING", "READABLE"})
    PROVE  SInv' /\ Mapped
<1>1. c \in Handles /\ c \notin Servers /\ c \notin Timers
  BY Kinds
<1>2. /\ ActiveIn(loop, c)
      /\ Promised!InLoop \/ (Seen.running /\ Seen.cb.kind = "alloc" /\ Seen.cb.handle = c)
  <2>1. cb.kind = "alloc" => CallbackSeen(cb).kind = "alloc" /\ CallbackSeen(cb).handle = cb.handle
    BY DEF CallbackSeen
  <2> QED
    BY <2>1, InLoopIs, SeenFields DEF ActiveIn
<1>3. c \in Seen.active /\ Seen.state[c] = "open"
  BY <1>1, <1>2, OpenIs, SeenFields DEF ActivesIn
<1>4. Promised!ReadCallback(c) => Mapped
  <2>1. Promised!ReadCallback(c) => Promised!Read(c) \/ Promised!Received(c)
    BY <1>2 DEF Promised!Read, Promised!Received
  <2> QED
    BY <2>1 DEF Mapped, Promised!StreamsNext, Promised!Callbacks
<1>5. CASE status \in {"data", "empty", "nobufs"} /\ Unseen(loop, loop')
  <2>1. SInv'
    BY <1>5, UnseenSteady, SteadyInv
  <2>2. Seen' = Promised!Begins(Seen, "read", c, status)
    BY <1>5, UnseenBegins
  <2>3. Promised!ReadCallback(c)
    BY <1>3, <1>5, <2>2 DEF Promised!ReadCallback, Promised!Open
  <2> QED
    BY <1>4, <2>1, <2>3
<1>6. CASE status = "error" /\ Turns(loop, loop', c, Face(loop, c) \ {"READING"})
  <2>1. ~Acts(c, Face(loop, c) \ {"READING"})
    BY <1>1 DEF Acts
  <2>2. SInv' /\ Seen' = Promised!Begins([Seen EXCEPT !.active = @ \ {c}], "read", c, "error")
    BY <1>1, <1>6, <2>1, StopBegins
  <2>3. Promised!ReadCallback(c)
    BY <1>3, <2>2 DEF Promised!ReadCallback, Promised!Open
  <2> QED
    BY <1>4, <2>2, <2>3
<1>7. CASE status = "eof" /\ Turns(loop, loop', c, Face(loop, c) \ {"READING", "READABLE"})
  <2> DEFINE F == Face(loop, c) \ {"READING", "READABLE"}
  <2>1. \A f \in {"REF", "CLOSING", "CLOSED", "CONNECTION", "WRITABLE", "SOCKET_CLOSED"} : f \in F <=> f \in Face(loop, c)
    OBVIOUS
  <2>2. "READING" \notin F /\ "READABLE" \notin F
    OBVIOUS
  <2>3. Turns(loop, loop', c, F)
    BY <1>7
  <2> HIDE DEF F
  <2>4. SInv'
    <3>1. "CLOSING" \in F => c \in Timers \/ "SOCKET_CLOSED" \in F
      BY <1>1, <2>1, ShutIs DEF SInv
    <3> QED
      BY <1>1, <2>3, <3>1, TurnSteady, SteadyInv
  <2>5. /\ Shows(loop', StatesIn(loop), Put(RefsIn(loop), c, "REF" \in F), Put(ActivesIn(loop), c, Acts(c, F)),
                 Put(ConnsWith(loop, "CONNECTION"), c, c \in Conns /\ "CONNECTION" \in F),
                 Put(ConnsWith(loop, "WRITABLE"), c, c \in Conns /\ "WRITABLE" \in F),
                 Put(ConnsWith(loop, "READABLE"), c, c \in Conns /\ "READABLE" \in F))
        /\ BacklogIn(loop') = BacklogIn(loop) /\ loop'.stop_flag = loop.stop_flag
    BY <1>1, <2>1, <2>3, TurnShows
  <2>6. /\ ("REF" \in F) = ("REF" \in Face(loop, c)) /\ ("CONNECTION" \in F) = ("CONNECTION" \in Face(loop, c))
        /\ ("WRITABLE" \in F) = ("WRITABLE" \in Face(loop, c))
    BY <2>1
  <2>7. Put(ActivesIn(loop), c, Acts(c, F)) = Seen.active \ {c}
    <3>1. ~Acts(c, F)
      BY <1>1, <2>2 DEF Acts
    <3> QED
      BY <3>1, PutIs, SeenFields
  <2>8. Put(ConnsWith(loop, "READABLE"), c, c \in Conns /\ "READABLE" \in F) = Seen.readable \ {c}
    <3>1. ~(c \in Conns /\ "READABLE" \in F)
      BY <2>2
    <3> QED
      BY <3>1, SeenFields DEF Put
  <2>9. Shows(loop', Seen.state, Seen.refs, Seen.active \ {c}, Seen.connected, Seen.writable, Seen.readable \ {c})
    BY <1>1, <2>5, <2>6, <2>7, <2>8, PutsSame, SeenFields
  <2>10. WritesIn(request') = Seen.writes /\ ShuttingIn(request') = Seen.shutting /\ BacklogIn(loop') = Seen.backlog
    BY <2>5, SeenFields
  <2>11. Seen' = View(Seen.state, Seen.refs, Seen.active \ {c}, Seen.backlog, Seen.connected, Seen.writable,
                      Seen.readable \ {c}, Seen.writes, Seen.shutting, Seen.running, Seen.stopped,
                      [kind |-> "read", handle |-> c, status |-> "eof"])
    BY <1>7, <2>5, <2>9, <2>10, BeginsSeen
  <2>12. Seen' = Promised!Begins([Seen EXCEPT !.active = @ \ {c}, !.readable = @ \ {c}], "read", c, "eof")
    <3> DEFINE U == Seen
               A == U.active \ {c}
               R == U.readable \ {c}
               V == [U EXCEPT !.active = A]
               W == [V EXCEPT !.readable = R]
    <3>1. U = View(U.state, U.refs, U.active, U.backlog, U.connected, U.writable, U.readable, U.writes, U.shutting,
                   U.running, U.stopped, U.cb)
      BY SeenIsView
    <3> HIDE DEF U
    <3>2. V.readable = U.readable
      BY <3>1 DEF View
    <3>3. W = [U EXCEPT !.active = @ \ {c}, !.readable = @ \ {c}]
      BY <3>2
    <3> HIDE DEF A, R
    <3>4. V = View(U.state, U.refs, A, U.backlog, U.connected, U.writable, U.readable, U.writes, U.shutting,
                   U.running, U.stopped, U.cb)
      BY <3>1 DEF View
    <3> HIDE DEF V
    <3>5. W = View(U.state, U.refs, A, U.backlog, U.connected, U.writable, R, U.writes, U.shutting,
                   U.running, U.stopped, U.cb)
      BY <3>4 DEF View
    <3> HIDE DEF W
    <3>6. Promised!Begins(W, "read", c, "eof") =
          View(U.state, U.refs, A, U.backlog, U.connected, U.writable, R, U.writes, U.shutting, U.running, U.stopped,
               [kind |-> "read", handle |-> c, status |-> "eof"])
      BY <3>5, BeginsIs
    <3> QED
      BY <2>11, <3>3, <3>6 DEF U, A, R
  <2>13. Promised!ReadCallback(c)
    BY <1>3, <2>12 DEF Promised!ReadCallback, Promised!Open
  <2> QED
    BY <1>4, <2>4, <2>13
<1> QED
  BY <1>5, <1>6, <1>7

\* A connection that reads is given memory.
LEMMA ReadMoreS ==
    ASSUME IInv, CInv, SInv, CInv', ReadMore
    PROVE  SInv' /\ Mapped
<1> DEFINE c == cb.handle
<1>1. /\ cb.kind = "readloop" /\ Has(loop, c, "READING") /\ c \in Conns /\ request' = request /\ pc' = pc
      /\ loop' = loop /\ cb' = Callback("alloc", c, cb.req, "ok", "return")
  BY DEF ReadMore, IInv, Fits
<1> HIDE DEF c
<1>2. pc # "outside" /\ c \in Handles /\ c \notin Servers /\ c \notin Timers
  BY <1>1, Kinds DEF CInv, Stages
<1>3. ActiveIn(loop, c) /\ Promised!InLoop
  BY <1>1, <1>2, InLoopIs DEF ActiveIn
<1>4. c \in Seen.active /\ Seen.state[c] = "open"
  BY <1>2, <1>3, OpenIs, SeenFields DEF ActivesIn
<1>5. Unseen(loop, loop')
  <2>1. Unseen(loop, loop)
    BY AsideUnseen DEF Beside
  <2> QED
    BY <1>1, <2>1
<1>6. SInv'
  BY <1>1, <1>5, UnseenSteady, SteadyInv
<1>7. Seen' = Promised!Begins(Seen, "alloc", c, "ok")
  BY <1>1, <1>5, UnseenBegins
<1>8. Promised!Alloc(c)
  BY <1>3, <1>4, <1>7 DEF Promised!Alloc, Promised!Open
<1> QED
  BY <1>1, <1>6, <1>8 DEF Mapped, Promised!StreamsNext, Promised!Callbacks

LEMMA RecvS ==
    ASSUME IInv, CInv, SInv, CInv', Recv
    PROVE  SInv' /\ Mapped
<1> DEFINE c == cb.handle
<1>1. /\ cb.kind = "alloc" /\ Has(loop, c, "READING") /\ c \in Conns /\ request' = request /\ pc' = pc
      /\ LoopOK(loop)
  <2>1. cb.kind = "alloc" /\ c \in Conns /\ request' = request /\ pc' = pc
    BY DEF Recv, IInv, Fits
  <2>2. LoopOK(loop) /\ Reads(loop, Queued(loop, work), cb, c)
    BY <2>1, Kinds, InvIs DEF HandleInv
  <2> QED
    BY <2>1, <2>2 DEF Reads
<1>2. pc # "outside"
  BY <1>1 DEF CInv, Stages
<1>3. PICK status, next :
        /\ cb' = Callback("read", c, cb.req, status, next)
        /\ \/ status \in {"data", "empty", "nobufs"} /\ loop' = loop
           \/ status = "eof" /\ loop' = ReadEof(loop, c)
           \/ status = "error" /\ loop' = ReadFailed(loop, c)
  BY DEF Recv
<1>6. cb.handle = c
  OBVIOUS
<1> HIDE DEF c
<1>4. Unseen(loop, loop)
  BY AsideUnseen DEF Beside
<1>5. /\ Turns(loop, ReadEof(loop, c), c, Face(loop, c) \ {"READING", "READABLE"})
      /\ Turns(loop, ReadFailed(loop, c), c, Face(loop, c) \ {"READING"})
  <2>1. {"READING", "READABLE"} \in SUBSET OtherFlags /\ {"READING"} \in SUBSET OtherFlags
    BY DEF OtherFlags, Flags
  <2> QED
    BY <1>1, <2>1, StartsTurns DEF ReadEof, ReadFailed
<1> QED
  BY <1>1, <1>2, <1>3, <1>4, <1>5, <1>6, ReadBegins

LEMMA ProcessReadReqS ==
    ASSUME IInv, CInv, SInv, CInv', ProcessReadReq
    PROVE  SInv' /\ Mapped
<1> DEFINE r == Head(work).req
           c == r.handle
           L == ReadReqDone(loop, c)
           Q == Queued(loop, work)
           k == Callback("readloop", c, r, "ok", "return")
<1>1. /\ NextReq("READ") /\ request' = request
      /\ \/ loop' = L /\ cb' = k
         \/ ErrorIsRead(L, c) /\ loop' = ReadFailed(L, c) /\ cb' = Callback("read", c, r, "error", "end")
         \/ ~ErrorIsRead(L, c) /\ loop' = DecreasePendingReqCount(L, c) /\ cb' = NoCallback
  BY DEF ProcessReadReq
<1>2. pc = "reqs" /\ pc' = pc /\ cb = NoCallback /\ work # << >>
  BY <1>1 DEF NextReq
<1>3. r \in ReadReqs /\ c \in Conns
  BY <1>1, NextReqIs
<1>4. /\ LoopOK(loop) /\ Q \in SUBSET IoReqs /\ c \in Handles /\ HandleInv(loop, Q, cb, c) /\ cb.kind = "none"
      /\ r = ReadReq(c) /\ r \in Q
  BY <1>1, <1>2, <1>3, Kinds, InvIs, NoneIs, WorkGives DEF ReadReqs, ReadReq
<1>5. k.handle = c /\ k.kind = "readloop"
  BY DEF Callback
<1>6. CallbackSeen(k) = CallbackSeen(cb) /\ CallbackSeen(NoCallback) = CallbackSeen(cb)
  BY <1>2, CallbackIsSeen
<1> HIDE DEF Q, c, L, k, r
<1>7. LoopOK(L) /\ Unseen(loop, L)
  <2>1. {"READ_PENDING"} \in SUBSET {"ACTIVE", "READ_PENDING", "ZERO_READ"}
    OBVIOUS
  <2> QED
    BY <1>3, <1>4, <2>1, ReadReqDoneOK, HiddenUnseen DEF L, ReadReqDone
<1>8. Has(L, c, "ZERO_READ") /\ (Has(L, c, "READING") <=> Has(loop, c, "READING"))
  <2>1. /\ Becomes(loop, L, c, loop.flags[c] \ {"READ_PENDING"}, loop.activecnt[c], loop.reqs_pending[c])
        /\ Has(loop, c, "ZERO_READ")
    BY <1>3, <1>4, <1>5, ReadTaken DEF L
  <2> QED
    BY <2>1 DEF Becomes, Has
<1>9. CASE loop' = L /\ cb' = k
  BY <1>1, <1>2, <1>6, <1>7, <1>9, UnseenStep
<1>10. CASE ErrorIsRead(L, c) /\ loop' = ReadFailed(L, c) /\ cb' = Callback("read", c, r, "error", "end")
  <2>1. Has(loop, c, "READING")
    BY <1>8, <1>10 DEF ErrorIsRead
  <2>2. {"READING"} \in SUBSET OtherFlags
    BY DEF OtherFlags, Flags
  <2>3. Turns(L, loop', c, Face(L, c) \ {"READING"})
    BY <1>3, <1>7, <1>10, <2>2, StartsTurns DEF ReadFailed
  <2>4. Face(L, c) = Face(loop, c)
    BY <1>4, <1>7 DEF Unseen
  <2>5. Turns(loop, loop', c, Face(loop, c) \ {"READING"})
    BY <1>4, <1>7, <2>3, <2>4, TurnsUnseen
  <2> QED
    BY <1>1, <1>2, <1>3, <1>10, <2>1, <2>5, ReadBegins
<1>11. CASE ~ErrorIsRead(L, c) /\ loop' = DecreasePendingReqCount(L, c) /\ cb' = NoCallback
  <2>1. Unseen(L, loop')
    BY <1>3, <1>7, <1>11, PendingCountUnseen
  <2>2. Unseen(loop, loop')
    BY <1>7, <2>1, UnseenTrans
  <2> QED
    BY <1>1, <1>2, <1>6, <1>11, <2>2, UnseenStep
<1> QED
  BY <1>1, <1>9, <1>10, <1>11

-----------------------------------------------------------------------------
\* Writes and connections.

LEMMA ProcessWriteReqS ==
    ASSUME IInv, CInv, SInv, CInv', ProcessWriteReq
    PROVE  SInv' /\ Mapped
<1> DEFINE r == Head(work).req
           c == r.handle
           Q == Queued(loop, work)
           status == IF Head(work).ok THEN "ok" ELSE "error"
<1>1. /\ NextReq("WRITE") /\ loop' = UnregisterHandleReq(loop, c, r) /\ request' = [request EXCEPT ![r] = "called"]
      /\ cb' = Callback("write", c, r, status, "return") /\ status \in {"ok", "error"}
  BY DEF ProcessWriteReq
<1>2. pc = "reqs" /\ pc' = pc /\ cb = NoCallback /\ work # << >>
  BY <1>1 DEF NextReq
<1>3. r \in WriteReqs /\ c \in Conns /\ r \in ClientReqs
  BY <1>1, NextReqIs, IoReqsAre
<1>4. /\ LoopOK(loop) /\ c \in Handles /\ HandleInv(loop, Q, cb, c) /\ r \in Q /\ r.handle = c
      /\ request \in [ClientReqs -> {"free", "issued", "called"}]
  BY <1>1, <1>2, <1>3, Kinds, InvIs, WorkGives DEF IInv, TypeOK
<1> HIDE DEF Q, c, r, status
<1>5. request[r] = "issued"
  <2>1. Shuts(loop, Q, cb, c)
    BY <1>3, <1>4 DEF HandleInv
  <2>2. r \in loop.active_reqs
    BY <1>3, <1>4, <2>1 DEF Shuts
  <2> QED
    BY <2>2 DEF CInv
<1>6. Unseen(loop, loop')
  BY <1>1, <1>3, <1>4, RequestUnseen
<1>7. /\ WritesIn(request') = [WritesIn(request) EXCEPT ![c] = WritesIn(request)[c] - 1] /\ WritesIn(request)[c] > 0
      /\ ShuttingIn(request') = ShuttingIn(request)
      /\ \A d \in Conns : request'[ShutdownReq(d)] = request[ShutdownReq(d)]
  <2> DEFINE x == "called"
             p == request'
             q == request
  <2>1. /\ q \in [ClientReqs -> {"free", "issued", "called"}] /\ r \in WriteReqs /\ x \in {"issued", "called"}
        /\ p = Marked(q, r, x) /\ c = r.handle /\ q[r] = "issued" /\ x = "called"
    BY <1>1, <1>3, <1>4, <1>5 DEF Marked
  <2> HIDE DEF x, p, q
  <2>2. /\ WritesIn(p) = [WritesIn(q) EXCEPT ![c] = WritesIn(q)[c] - 1] /\ WritesIn(q)[c] > 0
        /\ ShuttingIn(p) = ShuttingIn(q)
        /\ \A d \in Conns : p[ShutdownReq(d)] = q[ShutdownReq(d)]
    BY ONLY <2>1, WritesChange
  <2> QED
    BY <2>2 DEF p, q
<1>8. SInv'
  BY <1>6, <1>7, UnseenSteady, SteadyInv
<1>9. /\ Shows(loop', Seen.state, Seen.refs, Seen.active, Seen.connected, Seen.writable, Seen.readable)
      /\ BacklogIn(loop') = Seen.backlog /\ loop'.stop_flag = loop.stop_flag
  BY <1>6, UnseenShows, SeenFields
<1> DEFINE W == [Seen.writes EXCEPT ![c] = Seen.writes[c] - 1]
<1>10. WritesIn(request') = W /\ Seen.writes[c] > 0 /\ ShuttingIn(request') = Seen.shutting
  BY <1>7, SeenFields
<1> HIDE DEF W
<1>11. Seen' = View(Seen.state, Seen.refs, Seen.active, Seen.backlog, Seen.connected, Seen.writable, Seen.readable,
                    W, Seen.shutting, Seen.running, Seen.stopped, [kind |-> "write", handle |-> c, status |-> status])
  <2>1. /\ Shows(loop', Seen.state, Seen.refs, Seen.active, Seen.connected, Seen.writable, Seen.readable)
        /\ BacklogIn(loop') = Seen.backlog /\ WritesIn(request') = W /\ ShuttingIn(request') = Seen.shutting
        /\ loop'.stop_flag = loop.stop_flag /\ pc' = pc
        /\ cb' = Callback("write", c, r, status, "return") /\ "write" # "readloop"
    BY <1>1, <1>2, <1>9, <1>10
  <2> QED
    BY ONLY <2>1, BeginsSeen
<1>12. Seen' = Promised!Begins([Seen EXCEPT !.writes[c] = @ - 1], "write", c, status)
  BY <1>11, SeenIsView, BeginsWritten DEF W
<1>13. Promised!InLoop
  BY <1>2, InLoopIs
<1>14. Promised!Written(c)
  BY <1>1, <1>10, <1>12, <1>13 DEF Promised!Written
<1> QED
  BY <1>3, <1>8, <1>14 DEF Mapped, Promised!StreamsNext, Promised!Callbacks

LEMMA ProcessAcceptReqS ==
    ASSUME IInv, CInv, SInv, CInv', ProcessAcceptReq
    PROVE  SInv' /\ Mapped
<1> DEFINE r == Head(work).req
           s == r.handle
           Q == Queued(loop, work)
<1>1. /\ NextReq("ACCEPT") /\ request' = request
      /\ \/ /\ Has(loop, s, "LISTENING") /\ loop' = StopIf(loop, s, "LISTENING")
            /\ cb' = Callback("connection", s, r, "error", "return")
         \/ loop' = DecreasePendingReqCount(loop, s) /\ cb' = NoCallback
         \/ /\ ~Has(loop, s, "SOCKET_CLOSED") /\ loop' = AcceptStored(loop, r)
            /\ cb' = Callback("connection", s, r, "ok", "return")
         \/ /\ \E how \in AcceptAnswers : loop' = DecreasePendingReqCount(AcceptRefused(loop, r, how), s)
            /\ cb' = NoCallback
  BY DEF ProcessAcceptReq
<1>2. pc = "reqs" /\ pc' = pc /\ cb = NoCallback /\ work # << >>
  BY <1>1 DEF NextReq
<1>3. r \in AcceptReqs /\ s \in Servers /\ r \in IoReqs /\ s \in Handles /\ s \notin Conns /\ s \notin Timers
  BY <1>1, NextReqIs, IoReqsAre, Kinds
<1>4. LoopOK(loop) /\ HandleInv(loop, Q, cb, s) /\ r \in Q /\ r.handle = s
  BY <1>1, <1>2, <1>3, InvIs, WorkGives
<1>5. Promised!InLoop
  BY <1>2, InLoopIs
<1>6. CallbackSeen(NoCallback) = CallbackSeen(cb)
  BY <1>2
<1>7. Promised!Connection(s) => Mapped
  BY <1>3 DEF Mapped, Promised!StreamsNext, Promised!Callbacks
<1>8. Has(loop, s, "LISTENING") => s \in Seen.active /\ Seen.state[s] = "open"
  <2>1. Has(loop, s, "LISTENING") => ActiveIn(loop, s)
    BY <1>3 DEF ActiveIn
  <2> QED
    BY <1>3, <2>1, OpenIs, SeenFields DEF ActivesIn
<1> HIDE DEF Q, s, r
<1>9. CASE /\ Has(loop, s, "LISTENING") /\ loop' = StopIf(loop, s, "LISTENING")
           /\ cb' = Callback("connection", s, r, "error", "return")
  <2>1. Turns(loop, loop', s, Face(loop, s) \ {"LISTENING"})
    BY <1>3, <1>4, <1>9, StopIfTurns
  <2>2. ~Acts(s, Face(loop, s) \ {"LISTENING"})
    BY <1>3 DEF Acts
  <2>3. SInv' /\ Seen' = Promised!Begins([Seen EXCEPT !.active = @ \ {s}], "connection", s, "error")
    BY <1>1, <1>2, <1>3, <1>9, <2>1, <2>2, StopBegins
  <2>4. Promised!Connection(s)
    BY <1>5, <1>8, <1>9, <2>3 DEF Promised!Connection, Promised!Open
  <2> QED
    BY <1>7, <2>3, <2>4
<1>10. CASE loop' = DecreasePendingReqCount(loop, s) /\ cb' = NoCallback
  <2>1. Unseen(loop, loop')
    BY <1>3, <1>4, <1>10, PendingCountUnseen
  <2> QED
    BY <1>1, <1>2, <1>6, <1>10, <2>1, UnseenStep
<1>11. CASE /\ ~Has(loop, s, "SOCKET_CLOSED") /\ loop' = AcceptStored(loop, r)
            /\ cb' = Callback("connection", s, r, "ok", "return")
  <2> DEFINE B == [Seen.backlog EXCEPT ![s] = Seen.backlog[s] + 1]
  <2>1. /\ loop'.flags = loop.flags /\ loop'.handle_queue = loop.handle_queue /\ loop'.stop_flag = loop.stop_flag
        /\ loop'.pending_accepts = [loop.pending_accepts EXCEPT ![s] = <<r>> \o loop.pending_accepts[s]]
    BY <1>3, <1>4, <1>11, AcceptStoredShows
  <2>2. SInv'
    <3>1. Steady(loop, loop')
      BY <2>1 DEF Steady, Lists, Shut, Has
    <3> QED
      BY <1>1, <3>1, SteadyInv
  <2>3. Shows(loop', Seen.state, Seen.refs, Seen.active, Seen.connected, Seen.writable, Seen.readable)
    <3>1. \A g \in Handles : Face(loop', g) = Face(loop, g) /\ (g \in loop'.handle_queue <=> g \in loop.handle_queue)
      BY <2>1 DEF Face
    <3> QED
      BY <3>1, NoneShows, SeenFields
  <2>4. BacklogIn(loop') = B
    <3>1. loop.pending_accepts \in [Handles -> Seq(AcceptReqs)]
      BY <1>4 DEF LoopOK, LoopType
    <3>2. Len(<<r>> \o loop.pending_accepts[s]) = Len(loop.pending_accepts[s]) + 1
      BY <1>3, <3>1
    <3>3. \A t \in Servers : Len(loop'.pending_accepts[t]) = IF t = s THEN Len(loop.pending_accepts[s]) + 1
                                                            ELSE Len(loop.pending_accepts[t])
      BY <1>3, <2>1, <3>1, <3>2, Kinds
    <3>4. B = [BacklogIn(loop) EXCEPT ![s] = BacklogIn(loop)[s] + 1]
      BY SeenFields
    <3> QED
      BY <1>3, <3>3, <3>4 DEF BacklogIn
  <2>5. WritesIn(request') = Seen.writes /\ ShuttingIn(request') = Seen.shutting
    BY <1>1, SeenFields
  <2>6. Seen' = View(Seen.state, Seen.refs, Seen.active, B, Seen.connected, Seen.writable, Seen.readable,
                     Seen.writes, Seen.shutting, Seen.running, Seen.stopped,
                     [kind |-> "connection", handle |-> s, status |-> "ok"])
    BY <1>2, <1>11, <2>1, <2>3, <2>4, <2>5, BeginsSeen
  <2>7. Seen' = Promised!Begins([Seen EXCEPT !.backlog[s] = @ + 1], "connection", s, "ok")
    BY <2>6, SeenIsView, BeginsReported
  <2>8. Has(loop, s, "LISTENING")
    <3>1. Listens(loop, Q, s) /\ Shut(loop, s)
      BY <1>3, <1>4 DEF HandleInv, SInv
    <3>2. r \in Of(Q, s)
      BY <1>4 DEF Of
    <3> QED
      BY <1>3, <1>11, <3>1, <3>2 DEF Listens, Shut
  <2>9. Promised!Connection(s)
    BY <1>5, <1>8, <2>7, <2>8 DEF Promised!Connection, Promised!Open
  <2> QED
    BY <1>7, <2>2, <2>9
<1>12. CASE /\ \E how \in AcceptAnswers : loop' = DecreasePendingReqCount(AcceptRefused(loop, r, how), s)
            /\ cb' = NoCallback
  <2>1. PICK how \in Answers : loop' = DecreasePendingReqCount(AcceptRefused(loop, r, how), s)
    BY <1>12 DEF AcceptAnswers
  <2>2. Unseen(loop, loop')
    BY <1>3, <1>4, <2>1, AcceptRefusedUnseen
  <2> QED
    BY <1>1, <1>2, <1>6, <1>12, <2>2, UnseenStep
<1> QED
  BY <1>1, <1>9, <1>10, <1>11, <1>12

-----------------------------------------------------------------------------
\* Endgames.

\* The face of one handle becomes F.
LEMMA FaceShows ==
    ASSUME NEW L, NEW M, NEW h \in Handles, NEW F, Face(M, h) = F,
           \A g \in Handles \ {h} : Face(M, g) = Face(L, g) /\ (g \in M.handle_queue <=> g \in L.handle_queue)
    PROVE  Shows(M, [StatesIn(L) EXCEPT ![h] = StateIn(M, h)], Put(RefsIn(L), h, "REF" \in F),
                 Put(ActivesIn(L), h, Acts(h, F)),
                 Put(ConnsWith(L, "CONNECTION"), h, h \in Conns /\ "CONNECTION" \in F),
                 Put(ConnsWith(L, "WRITABLE"), h, h \in Conns /\ "WRITABLE" \in F),
                 Put(ConnsWith(L, "READABLE"), h, h \in Conns /\ "READABLE" \in F))
<1>1. Shows(M, [StatesIn(L) EXCEPT ![h] = StateIn(M, h)], Put(RefsIn(L), h, Has(M, h, "REF")),
            Put(ActivesIn(L), h, ActiveIn(M, h)),
            Put(ConnsWith(L, "CONNECTION"), h, h \in Conns /\ Has(M, h, "CONNECTION")),
            Put(ConnsWith(L, "WRITABLE"), h, h \in Conns /\ Has(M, h, "WRITABLE")),
            Put(ConnsWith(L, "READABLE"), h, h \in Conns /\ Has(M, h, "READABLE")))
  BY OneShows
<1>2. /\ Has(M, h, "REF") = ("REF" \in F) /\ Has(M, h, "CONNECTION") = ("CONNECTION" \in F)
      /\ Has(M, h, "WRITABLE") = ("WRITABLE" \in F) /\ Has(M, h, "READABLE") = ("READABLE" \in F)
  <2>1. \A f \in Shown : Has(M, h, f) <=> f \in F
    BY ShownIs
  <2> QED
    BY <2>1 DEF Shown, Has
<1>3. ActiveIn(M, h) = Acts(h, F)
  <2>1. ActiveIn(M, h) <=> Acts(h, F)
    BY ActsIs
  <2> QED
    BY <2>1 DEF ActiveIn, Acts
<1> QED
  BY <1>1, <1>2, <1>3

\* The counters of a connection tell what its client waits for.
LEMMA CountersTell ==
    ASSUME IInv, CInv, cb.kind = "none", NEW c \in Conns
    PROVE  /\ loop.write_reqs_pending[c] = 0 => Seen.writes[c] = 0
           /\ c \in loop.shutdown_req => request[ShutdownReq(c)] = "issued"
           /\ loop.reqs_pending[c] = 0 => Promised!Answered(Seen, c)
<1> DEFINE Q == Queued(loop, work)
<1>1. /\ Q \in SUBSET IoReqs /\ Counts(loop, Q, cb, c) /\ Shuts(loop, Q, cb, c) /\ c \in Handles
  BY Kinds, InvIs DEF HandleInv
<1> HIDE DEF Q
<1>2. loop.active_reqs = {r \in ClientReqs : request[r] = "issued"}
  BY DEF CInv
<1>3. Issued(request, c) \subseteq WritesOf(Q, c) /\ Issued(request, c) \subseteq Of(Q, c)
  <2>1. ASSUME NEW r \in Issued(request, c) PROVE r \in Q /\ r.handle = c /\ r.type = "WRITE"
    BY <1>1, <1>2, <2>1, IoReqsAre DEF Issued, Shuts
  <2> QED
    BY <2>1 DEF WritesOf, Of
<1>4. /\ Cardinality(WritesOf(Q, c)) \in Nat /\ (Cardinality(WritesOf(Q, c)) = 0 <=> WritesOf(Q, c) = {})
      /\ Cardinality(Of(Q, c)) \in Nat /\ (Cardinality(Of(Q, c)) = 0 <=> Of(Q, c) = {})
  <2>1. IsFiniteSet(Of(IoReqs, c))
    BY FewRequests
  <2>2. IsFiniteSet(WritesOf(Q, c)) /\ IsFiniteSet(Of(Q, c))
    <3>1. WritesOf(Q, c) \subseteq Of(IoReqs, c) /\ Of(Q, c) \subseteq Of(IoReqs, c)
      BY <1>1 DEF WritesOf, Of
    <3> QED
      BY <2>1, <3>1, FS_Subset
  <2> QED
    BY <2>2, FS_CardinalityType, FS_EmptySet
<1>5. Seen.writes[c] = 0 <=> Issued(request, c) = {}
  BY IssuedIs, SeenFields
<1>6. ASSUME loop.write_reqs_pending[c] = 0 PROVE Seen.writes[c] = 0
  <2>1. Cardinality(WritesOf(Q, c)) = 0
    BY <1>1, <1>4, <1>6 DEF Shuts, One
  <2> QED
    BY <1>3, <1>4, <1>5, <2>1
<1>7. c \in loop.shutdown_req <=> request[ShutdownReq(c)] = "issued"
  BY <1>1, <1>2, IoReqsAre DEF Shuts, InShutdown
<1>8. ASSUME loop.reqs_pending[c] = 0 PROVE Promised!Answered(Seen, c)
  <2>1. Cardinality(Of(Q, c)) = 0 /\ c \notin loop.shutdown_req
    BY <1>1, <1>4, <1>8 DEF Counts, Processing, One
  <2>2. Seen.writes[c] = 0
    BY <1>3, <1>4, <1>5, <2>1
  <2>3. c \notin Seen.shutting
    BY <1>7, <2>1, SeenFields DEF ShuttingIn
  <2> QED
    BY <2>2, <2>3 DEF Promised!Answered
<1> QED
  BY <1>6, <1>7, <1>8

\* uv_tcp_endgame gives a shutdown back.
LEMMA ShutdownBegins ==
    ASSUME IInv, CInv, SInv, CInv', pc = "endgames", pc' = pc, cb = NoCallback, loop.endgame # << >>,
           NEW h \in Conns, h = Head(loop.endgame), NEW L, L = PopEndgame(loop), ShutdownIsDue(L, h),
           loop' = UnregisterHandleReq(L, h, ShutdownReq(h)), request' = [request EXCEPT ![ShutdownReq(h)] = "called"],
           NEW status, status = IF Has(L, h, "CLOSING") THEN "error" ELSE "ok",
           cb' = Callback("shutdown", h, ShutdownReq(h), status, "return")
    PROVE  SInv' /\ Mapped
<1> DEFINE r == ShutdownReq(h)
<1>1. /\ LoopOK(loop) /\ h \in Handles /\ r \in ClientReqs /\ cb.kind = "none"
      /\ request \in [ClientReqs -> {"free", "issued", "called"}]
  BY Kinds, InvIs, NoneIs, IoReqsAre DEF IInv, TypeOK
<1>2. /\ Has(loop, h, "ENDGAME_QUEUED") /\ LoopOK(L)
      /\ L.shutdown_req = loop.shutdown_req /\ L.write_reqs_pending = loop.write_reqs_pending
  BY <1>1, PopEndgameBecomes DEF Becomes
<1>3. /\ Unseen(loop, L) /\ ~Has(L, h, "ENDGAME_QUEUED")
      /\ Has(L, h, "CLOSING") <=> Has(loop, h, "CLOSING")
  BY <1>1, PopUnseen
<1>4. Unseen(L, loop')
  BY <1>1, <1>2, RequestUnseen
<1>5. Unseen(loop, loop')
  BY <1>3, <1>4, UnseenTrans
<1>6. request[r] = "issued" /\ Seen.writes[h] = 0
  BY <1>1, <1>2, CountersTell DEF ShutdownIsDue
<1>7. /\ ShuttingIn(request') = ShuttingIn(request) \ {h} /\ WritesIn(request') = WritesIn(request)
      /\ \A d \in Conns \ {h} : request'[ShutdownReq(d)] = request[ShutdownReq(d)]
  <2> DEFINE x == "called"
             p == request'
             q == request
  <2>1. /\ q \in [ClientReqs -> {"free", "issued", "called"}] /\ h \in Conns /\ x \in {"issued", "called"}
        /\ p = Marked(q, ShutdownReq(h), x) /\ x = "called"
    BY <1>1 DEF Marked
  <2> HIDE DEF x, p, q
  <2>2. /\ ShuttingIn(p) = ShuttingIn(q) \ {h} /\ WritesIn(p) = WritesIn(q)
        /\ \A d \in Conns \ {h} : p[ShutdownReq(d)] = q[ShutdownReq(d)]
    BY ONLY <2>1, ShutdownsChange
  <2> QED
    BY <2>2 DEF p, q
<1>8. SInv'
  <2>1. Steady(loop, loop')
    BY <1>5, UnseenSteady
  <2>2. \A c \in Conns \ {h} : ShutdownReq(c) \in loop.active_reqs => ShutdownReq(c) \in loop'.active_reqs
    BY <1>7 DEF CInv
  <2>3. Has(loop', h, "ENDGAME_QUEUED") => Has(loop', h, "CLOSING")
    BY <1>1, <1>3, <1>4 DEF Unseen, Lists
  <2>4. ASSUME NEW g \in Handles
        PROVE  Wanted(loop', g) /\ Shut(loop', g)
    <3>1. Wanted(loop, g) /\ Shut(loop, g)
      BY DEF SInv
    <3> QED
      BY <2>1, <2>2, <2>3, <3>1 DEF Steady, Lists, Wanted
  <2> QED
    BY <2>4 DEF SInv
<1> DEFINE S == Seen.shutting \ {h}
<1>9. Seen' = View(Seen.state, Seen.refs, Seen.active, Seen.backlog, Seen.connected, Seen.writable, Seen.readable,
                   Seen.writes, S, Seen.running, Seen.stopped,
                   [kind |-> "shutdown", handle |-> h, status |-> status])
  <2>1. /\ Shows(loop', Seen.state, Seen.refs, Seen.active, Seen.connected, Seen.writable, Seen.readable)
        /\ BacklogIn(loop') = Seen.backlog /\ loop'.stop_flag = loop.stop_flag
    BY <1>5, UnseenShows, SeenFields
  <2>2. WritesIn(request') = Seen.writes /\ ShuttingIn(request') = S
    BY <1>7, SeenFields
  <2> HIDE DEF S
  <2>3. /\ Shows(loop', Seen.state, Seen.refs, Seen.active, Seen.connected, Seen.writable, Seen.readable)
        /\ BacklogIn(loop') = Seen.backlog /\ WritesIn(request') = Seen.writes /\ ShuttingIn(request') = S
        /\ loop'.stop_flag = loop.stop_flag /\ pc' = pc
        /\ cb' = Callback("shutdown", h, ShutdownReq(h), status, "return") /\ "shutdown" # "readloop"
    BY <2>1, <2>2
  <2> QED
    BY ONLY <2>3, BeginsSeen
<1>10. Seen' = Promised!Begins([Seen EXCEPT !.shutting = @ \ {h}], "shutdown", h, status)
  BY <1>9, SeenIsView, BeginsShut
<1>11. status = IF Seen.state[h] = "closing" THEN "error" ELSE "ok"
  <2>1. ~Has(loop, h, "CLOSED")
    BY <1>1, <1>2, InvIs DEF HandleInv, Lives
  <2> QED
    BY <1>1, <1>3, <2>1, OpenIs
<1>12. Promised!InLoop /\ h \in Seen.shutting
  BY <1>6, InLoopIs, SeenFields DEF ShuttingIn
<1>13. Promised!ShutDown(h)
  BY <1>6, <1>10, <1>11, <1>12 DEF Promised!ShutDown
<1> QED
  BY <1>8, <1>13 DEF Mapped, Promised!StreamsNext, Promised!Callbacks

\* The last callback of a handle.
LEMMA CloseBegins ==
    ASSUME IInv, CInv, SInv, CInv', pc = "endgames", pc' = pc, cb = NoCallback, loop.endgame # << >>,
           NEW h, h = Head(loop.endgame), NEW L, L = PopEndgame(loop), CloseIsDue(L, h),
           loop' = CloseEnd(L, h), request' = request, cb' = Callback("close", h, NoReq, "ok", "return")
    PROVE  SInv' /\ Mapped
<1>1. LoopOK(loop) /\ cb.kind = "none"
  BY InvIs, NoneIs
<1>2. /\ h \in Handles /\ LoopOK(L) /\ Unseen(loop, L)
      /\ \A g \in Handles : Has(L, g, "CLOSING") <=> Has(loop, g, "CLOSING")
  BY <1>1, PopUnseen
<1>3. /\ Has(loop, h, "ENDGAME_QUEUED") /\ L.reqs_pending[h] = loop.reqs_pending[h]
      /\ L.flags[h] = loop.flags[h] \ {"ENDGAME_QUEUED"}
  <2>1. /\ Has(loop, h, "ENDGAME_QUEUED")
        /\ Becomes(loop, L, h, loop.flags[h] \ {"ENDGAME_QUEUED"}, loop.activecnt[h], loop.reqs_pending[h])
    BY <1>1, PopEndgameBecomes
  <2> QED
    BY <2>1 DEF Becomes
<1>4. ~Has(loop, h, "CLOSED") /\ Has(loop, h, "CLOSING") /\ ~Has(L, h, "CLOSED") /\ Has(L, h, "CLOSING")
  BY <1>2, <1>3, InvIs DEF HandleInv, Lives, CloseIsDue, Has
<1>5. /\ loop'.flags = [L.flags EXCEPT ![h] = L.flags[h] \cup {"CLOSED"}] /\ loop'.handle_queue = L.handle_queue \ {h}
      /\ loop'.pending_accepts = L.pending_accepts /\ loop'.stop_flag = L.stop_flag
  BY <1>2, <1>4, CloseEndShows
<1> DEFINE F == Face(loop, h) \cup {"CLOSED"}
<1>6. /\ loop'.flags[h] = L.flags[h] \cup {"CLOSED"}
      /\ \A g \in Handles \ {h} : loop'.flags[g] = L.flags[g]
      /\ L.handle_queue = loop.handle_queue /\ L.pending_accepts = loop.pending_accepts /\ L.stop_flag = loop.stop_flag
  <2>1. L.flags \in [Handles -> SUBSET Flags]
    BY <1>2 DEF LoopOK, LoopType
  <2> QED
    BY <1>2, <1>5, <2>1 DEF Unseen, Beside
<1>7. /\ Face(loop', h) = F
      /\ \A g \in Handles \ {h} : Face(loop', g) = Face(loop, g)
  <2>1. \A g \in Handles \ {h} : Face(loop', g) = Face(L, g)
    BY <1>6 DEF Face
  <2>2. Face(loop', h) = Face(L, h) \cup {"CLOSED"}
    BY <1>6 DEF Face, Hidden
  <2> QED
    BY <1>2, <2>1, <2>2 DEF Unseen
<1>8. SInv'
  <2>1. Lists(loop, loop')
    <3>1. \A g \in Handles : Has(loop', g, "ENDGAME_QUEUED") => Has(L, g, "ENDGAME_QUEUED")
      BY <1>6 DEF Has
    <3>2. \A g \in Handles : Has(L, g, "CLOSING") => Has(loop', g, "CLOSING")
      BY <1>6 DEF Has
    <3> QED
      BY <1>2, <3>1, <3>2 DEF Unseen, Lists
  <2>2. \A g \in Handles : /\ Has(loop', g, "CLOSING") <=> Has(loop, g, "CLOSING")
                           /\ "SOCKET_CLOSED" \in Face(loop, g) => "SOCKET_CLOSED" \in Face(loop', g)
                           /\ "CLOSING" \in Face(loop, g) <=> "CLOSING" \in Face(loop', g)
    BY <1>4, <1>7, ClosingShows
  <2>3. Steady(loop, loop')
    BY <2>1, <2>2, ShutIs DEF Steady
  <2> QED
    BY <2>3, SteadyInv
<1>9. Shows(loop', [StatesIn(loop) EXCEPT ![h] = StateIn(loop', h)], Put(RefsIn(loop), h, "REF" \in F),
            Put(ActivesIn(loop), h, Acts(h, F)),
            Put(ConnsWith(loop, "CONNECTION"), h, h \in Conns /\ "CONNECTION" \in F),
            Put(ConnsWith(loop, "WRITABLE"), h, h \in Conns /\ "WRITABLE" \in F),
            Put(ConnsWith(loop, "READABLE"), h, h \in Conns /\ "READABLE" \in F))
  <2> DEFINE K == loop
             M == loop'
  <2>1. /\ h \in Handles /\ Face(M, h) = F
        /\ \A g \in Handles \ {h} : Face(M, g) = Face(K, g) /\ (g \in M.handle_queue <=> g \in K.handle_queue)
    BY <1>2, <1>5, <1>6, <1>7
  <2> HIDE DEF K, M, F
  <2>2. Shows(M, [StatesIn(K) EXCEPT ![h] = StateIn(M, h)], Put(RefsIn(K), h, "REF" \in F),
              Put(ActivesIn(K), h, Acts(h, F)),
              Put(ConnsWith(K, "CONNECTION"), h, h \in Conns /\ "CONNECTION" \in F),
              Put(ConnsWith(K, "WRITABLE"), h, h \in Conns /\ "WRITABLE" \in F),
              Put(ConnsWith(K, "READABLE"), h, h \in Conns /\ "READABLE" \in F))
    BY ONLY <2>1, FaceShows
  <2> QED
    BY <2>2 DEF K, M
<1>10. /\ ("REF" \in F) = ("REF" \in Face(loop, h)) /\ ("CONNECTION" \in F) = ("CONNECTION" \in Face(loop, h))
       /\ ("WRITABLE" \in F) = ("WRITABLE" \in Face(loop, h)) /\ ("READABLE" \in F) = ("READABLE" \in Face(loop, h))
       /\ Acts(h, F) = Acts(h, Face(loop, h))
  BY DEF Acts
<1>11. StateIn(loop', h) = "closed"
  <2>1. Has(loop', h, "CLOSED") /\ Has(loop', h, "CLOSING")
    BY <1>4, <1>6 DEF Has
  <2> QED
    BY <2>1, StateIs
<1> DEFINE T == [Seen.state EXCEPT ![h] = "closed"]
<1>12. Shows(loop', T, Seen.refs, Seen.active, Seen.connected, Seen.writable, Seen.readable)
  <2> HIDE DEF F
  <2> QED
    BY <1>2, <1>9, <1>10, <1>11, PutsSame, SeenFields
<1>13. Seen' = View(T, Seen.refs, Seen.active, Seen.backlog, Seen.connected, Seen.writable, Seen.readable,
                    Seen.writes, Seen.shutting, Seen.running, Seen.stopped, [kind |-> "close", handle |-> h, status |-> "ok"])
  <2> DEFINE s == "ok"
             n == NoReq
  <2> HIDE DEF T, s, n
  <2>1. BacklogIn(loop') = Seen.backlog /\ WritesIn(request') = Seen.writes /\ ShuttingIn(request') = Seen.shutting
    BY <1>5, <1>6, SeenFields DEF BacklogIn
  <2>2. /\ Shows(loop', T, Seen.refs, Seen.active, Seen.connected, Seen.writable, Seen.readable)
        /\ BacklogIn(loop') = Seen.backlog /\ WritesIn(request') = Seen.writes /\ ShuttingIn(request') = Seen.shutting
        /\ loop'.stop_flag = loop.stop_flag /\ pc' = pc
        /\ cb' = Callback("close", h, n, s, "return") /\ "close" # "readloop"
    BY <1>5, <1>6, <1>12, <2>1 DEF n, s
  <2>3. Seen' = View(T, Seen.refs, Seen.active, Seen.backlog, Seen.connected, Seen.writable, Seen.readable,
                     Seen.writes, Seen.shutting, Seen.running, Seen.stopped, [kind |-> "close", handle |-> h, status |-> s])
    BY ONLY <2>2, BeginsSeen
  <2> QED
    BY <2>3 DEF s, T
<1>14. Seen' = Promised!Begins([Seen EXCEPT !.state[h] = "closed"], "close", h, "ok")
  <2> DEFINE U == Seen
             V == [U EXCEPT !.state = T]
  <2>1. U = View(U.state, U.refs, U.active, U.backlog, U.connected, U.writable, U.readable, U.writes, U.shutting,
                 U.running, U.stopped, U.cb)
    BY SeenIsView
  <2> HIDE DEF U, T
  <2>2. V = View(T, U.refs, U.active, U.backlog, U.connected, U.writable, U.readable, U.writes, U.shutting,
                 U.running, U.stopped, U.cb)
    BY <2>1 DEF View
  <2> HIDE DEF V
  <2>3. Promised!Begins(V, "close", h, "ok") =
        View(T, U.refs, U.active, U.backlog, U.connected, U.writable, U.readable, U.writes, U.shutting,
             U.running, U.stopped, [kind |-> "close", handle |-> h, status |-> "ok"])
    BY <2>2, BeginsIs
  <2> QED
    BY <1>13, <2>3 DEF U, V, T
<1>15. Promised!InLoop /\ Seen.state[h] = "closing"
  BY <1>2, <1>4, InLoopIs, OpenIs
<1>16. Promised!Answered(Seen, h)
  <2>1. CASE h \in Conns
    <3>1. loop.reqs_pending[h] = 0
      BY <1>3, <2>1, Kinds DEF CloseIsDue
    <3> QED
      BY <1>1, <2>1, <3>1, CountersTell
  <2>2. CASE h \notin Conns
    BY <2>2 DEF Promised!Answered
  <2> QED
    BY <2>1, <2>2
<1>17. Promised!Closed(h)
  BY <1>14, <1>15, <1>16 DEF Promised!Closed
<1> QED
  BY <1>2, <1>8, <1>17, HandlesAre DEF Mapped, Promised!StreamsNext, Promised!Callbacks

LEMMA ProcessEndgameS ==
    ASSUME IInv, CInv, SInv, CInv', ProcessEndgame
    PROVE  SInv' /\ Mapped
<1> DEFINE h == Head(loop.endgame)
           L == PopEndgame(loop)
           status == IF Has(L, h, "CLOSING") THEN "error" ELSE "ok"
<1>1. /\ pc = "endgames" /\ cb = NoCallback /\ loop.endgame # << >> /\ pc' = pc
      /\ \/ /\ h \in Conns /\ ShutdownIsDue(L, h) /\ loop' = UnregisterHandleReq(L, h, ShutdownReq(h))
            /\ request' = [request EXCEPT ![ShutdownReq(h)] = "called"]
            /\ cb' = Callback("shutdown", h, ShutdownReq(h), status, "return")
         \/ /\ CloseIsDue(L, h) /\ loop' = CloseEnd(L, h) /\ request' = request
            /\ cb' = Callback("close", h, NoReq, "ok", "return")
         \/ loop' = L /\ request' = request /\ cb' = cb
  BY DEF ProcessEndgame
<1>2. LoopOK(loop)
  BY InvIs
<1>3. Unseen(loop, L)
  BY <1>1, <1>2, PopUnseen
<1> HIDE DEF h, L, status
<1>4. CASE loop' = L /\ request' = request /\ cb' = cb
  BY <1>1, <1>3, <1>4, UnseenStep
<1> QED
  BY <1>1, <1>4, ShutdownBegins, CloseBegins DEF h, L, status

-----------------------------------------------------------------------------
\* Returns.

LEMMA Returned ==
    ASSUME SInv, CInv, CInv', request' = request, pc' = pc, cb.kind \in Callbacks, CallbackSeen(cb') = Promised!None,
           NEW c, NEW e, Settles(loop, loop', c, e), e => c \in Conns /\ request[ShutdownReq(c)] = "issued"
    PROVE  SInv' /\ Mapped
<1>1. /\ Beside(loop, loop') /\ \A g \in Handles : Face(loop', g) = Face(loop, g)
      /\ \A g \in Handles : Has(loop', g, "ENDGAME_QUEUED") =>
             Has(loop, g, "ENDGAME_QUEUED") \/ Has(loop', g, "CLOSING") \/ (g = c /\ e)
  BY DEF Settles
<1>2. loop'.active_reqs = loop.active_reqs /\ (e => ShutdownReq(c) \in loop.active_reqs)
  <2>1. c \in Conns => ShutdownReq(c) \in ClientReqs
    BY IoReqsAre
  <2> QED
    BY <2>1 DEF CInv
<1>3. ASSUME NEW g \in Handles
      PROVE  Wanted(loop', g) /\ Shut(loop', g)
  <2>1. Wanted(loop, g) /\ Shut(loop, g)
    BY DEF SInv
  <2>2. Shut(loop', g) /\ (Has(loop', g, "CLOSING") <=> Has(loop, g, "CLOSING"))
    BY <1>1, <2>1, ShutIs, ClosingShows
  <2> QED
    BY <1>1, <1>2, <2>1, <2>2 DEF Wanted
<1>4. SInv'
  BY <1>3 DEF SInv
<1>5. Shows(loop', Seen.state, Seen.refs, Seen.active, Seen.connected, Seen.writable, Seen.readable)
  <2>1. \A g \in Handles : Face(loop', g) = Face(loop, g) /\ (g \in loop'.handle_queue <=> g \in loop.handle_queue)
    BY <1>1 DEF Beside
  <2> QED
    BY <2>1, NoneShows, SeenFields
<1> DEFINE n == Promised!None
<1>6. Seen' = View(Seen.state, Seen.refs, Seen.active, Seen.backlog, Seen.connected, Seen.writable, Seen.readable,
                   Seen.writes, Seen.shutting, Seen.running, Seen.stopped, n)
  <2>1. BacklogIn(loop') = Seen.backlog /\ WritesIn(request') = Seen.writes /\ ShuttingIn(request') = Seen.shutting
        /\ (pc' # "outside") = Seen.running /\ loop'.stop_flag = Seen.stopped
    BY <1>1, SeenFields DEF Beside, BacklogIn
  <2>2. Seen' = View(Seen.state, Seen.refs, Seen.active, BacklogIn(loop'), Seen.connected, Seen.writable, Seen.readable,
                     WritesIn(request'), ShuttingIn(request'), pc' # "outside", loop'.stop_flag, CallbackSeen(cb'))
    BY <1>5, SeenOf, SeenIs
  <2> QED
    BY <2>1, <2>2
<1>7. Seen' = [Seen EXCEPT !.cb = n]
  <2> HIDE DEF n
  <2> QED
    BY <1>6, SeenIsView, ReturnsIs
<1>8. Seen.cb # n
  <2>1. cb.kind # "readloop" /\ cb.kind # "none"
    BY DEF Callbacks
  <2>2. CallbackSeen(cb).kind # "none" /\ n.kind = "none"
    BY <2>1 DEF CallbackSeen, Promised!None
  <2> QED
    BY <2>2, SeenFields
<1>9. Promised!Return
  BY <1>7, <1>8 DEF Promised!Return
<1> QED
  BY <1>4, <1>9 DEF Mapped, Promised!StreamsNext

LEMMA CallbackReturnsS ==
    ASSUME IInv, CInv, SInv, CInv', CallbackReturns
    PROVE  SInv' /\ Mapped
<1> DEFINE c == cb.handle
<1>1. /\ request' = request /\ pc' = pc /\ LoopOK(loop) /\ cb.kind \in Callbacks
      /\ cb' = NoCallback \/ \E r : cb' = Callback("readloop", c, r, "ok", "return")
      /\ \/ loop' = loop
         \/ cb.kind \in {"connection", "read"} /\ loop' = DecreasePendingReqCount(loop, c)
         \/ cb.kind = "write" /\ loop' = WriteReqEnd(loop, c)
         \/ cb.kind = "shutdown" /\ loop' = ShutdownEnd(loop, c)
         \/ cb.kind = "read" /\ \E how \in ReadAnswers : loop' = ReadReqEnd(loop, c, how)
  BY InvIs DEF CallbackReturns, Callbacks
<1>2. /\ cb.kind \in {"connection", "read"} => c \in Servers \cup Conns
      /\ cb.kind \in {"read", "write", "shutdown"} => c \in Conns
  BY DEF IInv, Fits
<1>3. CallbackSeen(cb') = Promised!None
  BY <1>1, CallbackIsSeen
<1>4. Unseen(loop, loop) /\ \A how \in ReadAnswers : how \in Answers
  BY AsideUnseen DEF Beside, ReadAnswers
<1> HIDE DEF c
<1>5. CASE cb.kind = "write" /\ loop' = WriteReqEnd(loop, c)
  <2>1. c \in Conns /\ Settles(loop, loop', c, c \in loop.shutdown_req)
    BY <1>1, <1>2, <1>5, WriteReqEndSettles
  <2>2. c \in loop.shutdown_req => request[ShutdownReq(c)] = "issued"
    <3>1. Shuts(loop, Queued(loop, work), cb, c)
      BY <2>1, Kinds, InvIs DEF HandleInv
    <3>2. c \in loop.shutdown_req => ShutdownReq(c) \in loop.active_reqs
      BY <1>5, <3>1 DEF Shuts, InShutdown
    <3> QED
      BY <3>2 DEF CInv
  <2> DEFINE e == c \in loop.shutdown_req
  <2>3. Settles(loop, loop', c, e) /\ (e => c \in Conns /\ request[ShutdownReq(c)] = "issued")
    BY <2>1, <2>2
  <2> HIDE DEF e
  <2> QED
    BY <1>1, <1>3, <2>3, Returned
<1>6. CASE ~(cb.kind = "write" /\ loop' = WriteReqEnd(loop, c))
  <2>1. Unseen(loop, loop')
    BY <1>1, <1>2, <1>4, <1>6, PendingCountUnseen, ShutdownEndUnseen, ReadReqEndUnseen
  <2> DEFINE e == FALSE
  <2>2. e => c \in Conns /\ request[ShutdownReq(c)] = "issued"
    OBVIOUS
  <2> HIDE DEF e
  <2>3. Settles(loop, loop', c, e)
    BY <2>1, SettlesUnseen
  <2> QED
    BY <1>1, <1>3, <2>2, <2>3, Returned
<1> QED
  BY <1>5, <1>6

-----------------------------------------------------------------------------
\* The calls of the clients.

LEMMA CallSeen ==
    ASSUME NEW st, NEW re, NEW ac, NEW ba, NEW co, NEW wr, NEW rd, NEW ws, NEW sh,
           Shows(loop', st, re, ac, co, wr, rd), BacklogIn(loop') = ba, WritesIn(request') = ws, ShuttingIn(request') = sh,
           pc' = pc, cb' = cb
    PROVE  Seen' = View(st, re, ac, ba, co, wr, rd, ws, sh, Seen.running, loop'.stop_flag, Seen.cb)
<1>1. Seen' = View(st, re, ac, BacklogIn(loop'), co, wr, rd, WritesIn(request'), ShuttingIn(request'), pc' # "outside",
                   loop'.stop_flag, CallbackSeen(cb'))
  BY SeenOf, SeenIs
<1>2. CallbackSeen(cb') = Seen.cb /\ (pc' # "outside") = Seen.running
  BY SeenFields
<1> QED
  BY <1>1, <1>2

\* A call that only starts or stops what makes a handle active.
LEMMA ActiveCall ==
    ASSUME SInv, CInv, CInv', NEW h \in Handles, NEW F, Turns(loop, loop', h, F),
           F \ {"LISTENING", "READING", "ACTIVE"} = Face(loop, h) \ {"LISTENING", "READING", "ACTIVE"},
           request' = request, pc' = pc, cb' = cb
    PROVE  /\ SInv'
           /\ Seen' = View(Seen.state, Seen.refs, Put(Seen.active, h, Acts(h, F)), Seen.backlog, Seen.connected,
                           Seen.writable, Seen.readable, Seen.writes, Seen.shutting, Seen.running, Seen.stopped, Seen.cb)
<1>1. SInv'
  BY ActiveSteady, SteadyInv
<1>2. /\ Shows(loop', Seen.state, Seen.refs, Put(Seen.active, h, Acts(h, F)), Seen.connected, Seen.writable, Seen.readable)
      /\ BacklogIn(loop') = Seen.backlog /\ loop'.stop_flag = Seen.stopped
  BY ActiveShows, SeenFields
<1>3. WritesIn(request') = Seen.writes /\ ShuttingIn(request') = Seen.shutting
  BY SeenFields
<1>4. Seen' = View(Seen.state, Seen.refs, Put(Seen.active, h, Acts(h, F)), Seen.backlog, Seen.connected,
                   Seen.writable, Seen.readable, Seen.writes, Seen.shutting, Seen.running, loop'.stop_flag, Seen.cb)
  BY <1>2, <1>3, CallSeen
<1> QED
  BY <1>1, <1>2, <1>4

LEMMA TimerCallS ==
    ASSUME IInv, CInv, SInv, CInv', NEW t \in Timers, ClientStartsTimer(t) \/ ClientStopsTimer(t)
    PROVE  SInv' /\ Mapped
<1>1. /\ LoopOK(loop) /\ loop.failed = {} /\ t \in Handles /\ Promised!MayCall
      /\ request' = request /\ pc' = pc /\ cb' = cb
  BY InvIs, Kinds, MayCallIs DEF ClientStartsTimer, ClientStopsTimer, Calls
<1>2. CASE ClientStartsTimer(t)
  <2> DEFINE F == Face(loop, t) \cup {"ACTIVE"}
  <2>1. t \in loop.handle_queue /\ ~Has(loop, t, "CLOSING") /\ loop' = TimerStart(loop, t)
    BY <1>2 DEF ClientStartsTimer, Open, Opened
  <2>2. /\ Turns(loop, loop', t, F) /\ Acts(t, F)
        /\ F \ {"LISTENING", "READING", "ACTIVE"} = Face(loop, t) \ {"LISTENING", "READING", "ACTIVE"}
    BY <1>1, <2>1, TimerTurns DEF Acts
  <2> HIDE DEF F
  <2>3. /\ SInv'
        /\ Seen' = View(Seen.state, Seen.refs, Put(Seen.active, t, Acts(t, F)), Seen.backlog, Seen.connected,
                        Seen.writable, Seen.readable, Seen.writes, Seen.shutting, Seen.running, Seen.stopped, Seen.cb)
    BY <1>1, <2>2, ActiveCall
  <2>4. Put(Seen.active, t, Acts(t, F)) = Seen.active \cup {t}
    BY <2>2 DEF Put
  <2>5. Seen' = Promised!UvTimerStart(Seen, t)
    BY <2>3, <2>4, SeenIsView, UvTimerStartIs
  <2>6. Promised!Open(Seen, t)
    BY <1>1, <2>1, OpenIs DEF Promised!Open
  <2>7. Promised!Call
    BY <1>1, <2>5, <2>6 DEF Promised!Call
  <2> QED
    BY <2>3, <2>7 DEF Mapped, Promised!StreamsNext
<1>3. CASE ClientStopsTimer(t)
  <2> DEFINE F == Face(loop, t) \ {"ACTIVE"}
  <2>1. /\ Turns(loop, loop', t, F)
        /\ F \ {"LISTENING", "READING", "ACTIVE"} = Face(loop, t) \ {"LISTENING", "READING", "ACTIVE"}
    BY <1>1, <1>3, TimerTurns DEF ClientStopsTimer
  <2>2. ~Acts(t, F)
    BY Kinds DEF Acts
  <2> HIDE DEF F
  <2>3. /\ SInv'
        /\ Seen' = View(Seen.state, Seen.refs, Put(Seen.active, t, Acts(t, F)), Seen.backlog, Seen.connected,
                        Seen.writable, Seen.readable, Seen.writes, Seen.shutting, Seen.running, Seen.stopped, Seen.cb)
    BY <1>1, <2>1, ActiveCall
  <2>4. Put(Seen.active, t, Acts(t, F)) = Seen.active \ {t}
    BY <2>2, PutIs
  <2>5. Seen' = Promised!UvTimerStop(Seen, t)
    BY <2>3, <2>4, SeenIsView, UvTimerStopIs
  <2>6. Promised!Call
    BY <1>1, <2>5 DEF Promised!Call
  <2> QED
    BY <2>3, <2>6 DEF Mapped, Promised!StreamsNext
<1> QED
  BY <1>2, <1>3

LEMMA ReadingCallS ==
    ASSUME IInv, CInv, SInv, CInv', NEW c \in Conns, ClientStartsReading(c) \/ ClientStopsReading(c)
    PROVE  SInv' /\ Mapped
<1>1. /\ LoopOK(loop) /\ c \in Handles /\ c \notin Servers /\ c \notin Timers /\ Promised!MayCall
      /\ request' = request /\ pc' = pc /\ cb' = cb
  BY InvIs, Kinds, MayCallIs DEF ClientStartsReading, ClientStopsReading, Calls
<1>2. CASE ClientStopsReading(c)
  <2> DEFINE F == Face(loop, c) \ {"READING"}
  <2>1. /\ Turns(loop, loop', c, F)
        /\ F \ {"LISTENING", "READING", "ACTIVE"} = Face(loop, c) \ {"LISTENING", "READING", "ACTIVE"}
    BY <1>1, <1>2, StopIfTurns DEF ClientStopsReading, ReadStop
  <2>2. ~Acts(c, F)
    BY <1>1 DEF Acts
  <2> HIDE DEF F
  <2>3. /\ SInv'
        /\ Seen' = View(Seen.state, Seen.refs, Put(Seen.active, c, Acts(c, F)), Seen.backlog, Seen.connected,
                        Seen.writable, Seen.readable, Seen.writes, Seen.shutting, Seen.running, Seen.stopped, Seen.cb)
    BY <1>1, <2>1, ActiveCall
  <2>4. Put(Seen.active, c, Acts(c, F)) = Seen.active \ {c}
    BY <2>2, PutIs
  <2>5. Seen' = Promised!UvReadStop(Seen, c)
    BY <2>3, <2>4, SeenIsView, UvReadStopIs
  <2>6. Promised!Call
    BY <1>1, <2>5 DEF Promised!Call
  <2> QED
    BY <2>3, <2>6 DEF Mapped, Promised!StreamsNext
<1>3. CASE ClientStartsReading(c)
  <2>1. PICK how \in Answers : loop' = ReadStart(loop, c, how)
    BY <1>3 DEF ClientStartsReading, ReadAnswers
  <2>2. CASE ~CanReadStart(loop, c)
    <3>1. loop' = loop
      BY <2>1, <2>2 DEF ReadStart
    <3>2. Unseen(loop, loop')
      BY <3>1 DEF Unseen, Beside, Lists
    <3> QED
      BY <1>1, <3>2, UnseenStep
  <2>3. CASE CanReadStart(loop, c)
    <3> DEFINE F == Face(loop, c) \cup {"READING"}
    <3>1. /\ Turns(loop, loop', c, F)
          /\ F \ {"LISTENING", "READING", "ACTIVE"} = Face(loop, c) \ {"LISTENING", "READING", "ACTIVE"}
      BY <1>1, <2>1, <2>3, ReadStartTurns
    <3>2. Acts(c, F)
      BY DEF Acts
    <3> HIDE DEF F
    <3>3. /\ SInv'
          /\ Seen' = View(Seen.state, Seen.refs, Put(Seen.active, c, Acts(c, F)), Seen.backlog, Seen.connected,
                          Seen.writable, Seen.readable, Seen.writes, Seen.shutting, Seen.running, Seen.stopped, Seen.cb)
      BY <1>1, <3>1, ActiveCall
    <3>4. Put(Seen.active, c, Acts(c, F)) = Seen.active \cup {c}
      BY <3>2 DEF Put
    <3>5. c \in Seen.readable /\ c \notin Seen.active
      BY <1>1, <2>3, SeenFields DEF CanReadStart, ConnsWith, ActivesIn, ActiveIn
    <3>6. Seen' = Promised!UvReadStart(Seen, c)
      BY <3>3, <3>4, <3>5, SeenIsView, UvReadStartIs
    <3>7. Promised!Call
      BY <1>1, <3>6 DEF Promised!Call
    <3> QED
      BY <3>3, <3>7 DEF Mapped, Promised!StreamsNext
  <2> QED
    BY <2>2, <2>3
<1> QED
  BY <1>2, <1>3

LEMMA ClientListensS ==
    ASSUME IInv, CInv, SInv, CInv', NEW s \in Servers, ClientListens(s)
    PROVE  SInv' /\ Mapped
<1>1. /\ LoopOK(loop) /\ s \in Handles /\ Promised!MayCall /\ request' = request /\ pc' = pc /\ cb' = cb
      /\ s \in loop.handle_queue /\ ~Has(loop, s, "CLOSING")
  BY InvIs, Kinds, MayCallIs DEF ClientListens, Calls, Open, Opened
<1>2. \E how, soon : loop' = TcpListen(loop, s, how, soon)
  BY DEF ClientListens
<1> DEFINE F == Face(loop, s) \cup {"LISTENING"}
<1>3. /\ Turns(loop, loop', s, F) /\ Acts(s, F)
      /\ F \ {"LISTENING", "READING", "ACTIVE"} = Face(loop, s) \ {"LISTENING", "READING", "ACTIVE"}
  BY <1>1, <1>2, TcpListenTurns DEF Acts
<1> HIDE DEF F
<1>4. /\ SInv'
      /\ Seen' = View(Seen.state, Seen.refs, Put(Seen.active, s, Acts(s, F)), Seen.backlog, Seen.connected,
                      Seen.writable, Seen.readable, Seen.writes, Seen.shutting, Seen.running, Seen.stopped, Seen.cb)
  BY <1>1, <1>3, ActiveCall
<1>5. Put(Seen.active, s, Acts(s, F)) = Seen.active \cup {s}
  BY <1>3 DEF Put
<1>6. Seen' = Promised!UvListen(Seen, s)
  BY <1>4, <1>5, SeenIsView, UvListenIs
<1>7. Promised!Open(Seen, s)
  BY <1>1, OpenIs DEF Promised!Open
<1>8. Promised!Call
  BY <1>1, <1>6, <1>7 DEF Promised!Call
<1> QED
  BY <1>4, <1>8 DEF Mapped, Promised!StreamsNext

LEMMA ClientRefsS ==
    ASSUME IInv, CInv, SInv, CInv', NEW h \in Handles, ClientRefs(h)
    PROVE  SInv' /\ Mapped
<1>1. /\ LoopOK(loop) /\ Promised!MayCall /\ request' = request /\ pc' = pc /\ cb' = cb /\ h \in loop.handle_queue
      /\ loop' = HandleRef(loop, h) \/ loop' = HandleUnref(loop, h)
  BY InvIs, MayCallIs DEF ClientRefs, Calls, Opened
<1>2. ASSUME NEW F, Turns(loop, loop', h, F), F \ {"REF"} = Face(loop, h) \ {"REF"}
      PROVE  /\ SInv'
             /\ Seen' = [Seen EXCEPT !.refs = Put(Seen.refs, h, "REF" \in F)]
  <2>1. \A f \in {"CLOSING", "CLOSED", "CONNECTION", "WRITABLE", "READABLE", "SOCKET_CLOSED"} : f \in F <=> f \in Face(loop, h)
    BY <1>2
  <2>2. SInv'
    <3>1. "CLOSING" \in F => h \in Timers \/ "SOCKET_CLOSED" \in F
      BY <2>1, ShutIs DEF SInv
    <3> QED
      BY <1>1, <1>2, <3>1, TurnSteady, SteadyInv
  <2> DEFINE R == Put(Seen.refs, h, "REF" \in F)
  <2>3. /\ Shows(loop', StatesIn(loop), Put(RefsIn(loop), h, "REF" \in F), Put(ActivesIn(loop), h, Acts(h, F)),
                 Put(ConnsWith(loop, "CONNECTION"), h, h \in Conns /\ "CONNECTION" \in F),
                 Put(ConnsWith(loop, "WRITABLE"), h, h \in Conns /\ "WRITABLE" \in F),
                 Put(ConnsWith(loop, "READABLE"), h, h \in Conns /\ "READABLE" \in F))
        /\ BacklogIn(loop') = BacklogIn(loop) /\ loop'.stop_flag = loop.stop_flag
    BY <1>2, <2>1, TurnShows
  <2>4. /\ ("CONNECTION" \in F) = ("CONNECTION" \in Face(loop, h)) /\ ("WRITABLE" \in F) = ("WRITABLE" \in Face(loop, h))
        /\ ("READABLE" \in F) = ("READABLE" \in Face(loop, h)) /\ Acts(h, F) = Acts(h, Face(loop, h))
    BY <1>2, <2>1 DEF Acts
  <2>5. R = Put(RefsIn(loop), h, "REF" \in F)
    BY SeenFields
  <2> HIDE DEF R
  <2>6. Shows(loop', Seen.state, R, Seen.active, Seen.connected, Seen.writable, Seen.readable)
    BY <2>3, <2>4, <2>5, PutsSame, SeenFields
  <2>7. BacklogIn(loop') = Seen.backlog /\ WritesIn(request') = Seen.writes /\ ShuttingIn(request') = Seen.shutting
        /\ loop'.stop_flag = Seen.stopped
    BY <1>1, <2>3, SeenFields
  <2>8. Seen' = View(Seen.state, R, Seen.active, Seen.backlog, Seen.connected, Seen.writable, Seen.readable, Seen.writes,
                     Seen.shutting, Seen.running, Seen.stopped, Seen.cb)
    BY <1>1, <2>6, <2>7, CallSeen
  <2>9. Seen' = [Seen EXCEPT !.refs = R]
    BY <2>8, SeenIsView, RefsIs
  <2> QED
    BY <2>2, <2>9 DEF R
<1>3. Seen.state[h] \in {"open", "closing"}
  BY <1>1, OpenIs
<1>4. ASSUME SInv', Seen' \in {[Seen EXCEPT !.refs = @ \cup {h}], [Seen EXCEPT !.refs = @ \ {h}]}
      PROVE  SInv' /\ Mapped
  <2>1. Promised!Call
    BY <1>1, <1>3, <1>4, HandlesAre DEF Promised!Call
  <2> QED
    BY <1>4, <2>1 DEF Mapped, Promised!StreamsNext
<1>5. CASE loop' = HandleRef(loop, h)
  <2> DEFINE F == Face(loop, h) \cup {"REF"}
  <2>1. Turns(loop, loop', h, F) /\ F \ {"REF"} = Face(loop, h) \ {"REF"}
    BY <1>1, <1>5, RefTurns
  <2>2. Put(Seen.refs, h, "REF" \in F) = Seen.refs \cup {h}
    BY DEF Put
  <2> HIDE DEF F
  <2>3. SInv' /\ Seen' = [Seen EXCEPT !.refs = Put(Seen.refs, h, "REF" \in F)]
    BY <1>2, <2>1
  <2> QED
    BY <1>4, <2>2, <2>3
<1>6. CASE loop' = HandleUnref(loop, h)
  <2> DEFINE F == Face(loop, h) \ {"REF"}
  <2>1. Turns(loop, loop', h, F) /\ F \ {"REF"} = Face(loop, h) \ {"REF"}
    BY <1>1, <1>6, RefTurns
  <2>2. Put(Seen.refs, h, "REF" \in F) = Seen.refs \ {h}
    BY DEF Put
  <2> HIDE DEF F
  <2>3. SInv' /\ Seen' = [Seen EXCEPT !.refs = Put(Seen.refs, h, "REF" \in F)]
    BY <1>2, <2>1
  <2> QED
    BY <1>4, <2>2, <2>3
<1> QED
  BY <1>1, <1>5, <1>6

LEMMA ClientStopsS ==
    ASSUME IInv, CInv, SInv, CInv', ClientStops
    PROVE  SInv' /\ Mapped
<1>1. /\ loop \in LoopType /\ Promised!MayCall /\ request' = request /\ pc' = pc /\ cb' = cb
      /\ loop' = [loop EXCEPT !.stop_flag = TRUE]
  BY InvIs, MayCallIs DEF ClientStops, Calls, LoopOK
<1> DEFINE x == TRUE
<1>2. loop'.flags = loop.flags /\ loop'.handle_queue = loop.handle_queue /\ loop'.pending_accepts = loop.pending_accepts
      /\ loop'.stop_flag = x
  BY <1>1 DEF LoopType
<1> HIDE DEF x
<1>3. Steady(loop, loop')
  BY <1>2 DEF Steady, Lists, Shut, Has
<1>4. SInv'
  BY <1>1, <1>3, SteadyInv
<1>5. Shows(loop', Seen.state, Seen.refs, Seen.active, Seen.connected, Seen.writable, Seen.readable)
      /\ BacklogIn(loop') = Seen.backlog
  <2>1. Shows(loop', StatesIn(loop), RefsIn(loop), ActivesIn(loop), ConnsWith(loop, "CONNECTION"),
              ConnsWith(loop, "WRITABLE"), ConnsWith(loop, "READABLE"))
        /\ BacklogIn(loop') = BacklogIn(loop)
    BY <1>2, NoneShows DEF Face, BacklogIn
  <2> QED
    BY <2>1, SeenFields
<1>6. WritesIn(request') = Seen.writes /\ ShuttingIn(request') = Seen.shutting
  BY <1>1, SeenFields
<1>7. Seen' = View(Seen.state, Seen.refs, Seen.active, Seen.backlog, Seen.connected, Seen.writable, Seen.readable,
                   Seen.writes, Seen.shutting, Seen.running, x, Seen.cb)
  <2>1. /\ Shows(loop', Seen.state, Seen.refs, Seen.active, Seen.connected, Seen.writable, Seen.readable)
        /\ BacklogIn(loop') = Seen.backlog /\ WritesIn(request') = Seen.writes /\ ShuttingIn(request') = Seen.shutting
        /\ pc' = pc /\ cb' = cb
    BY <1>1, <1>5, <1>6
  <2>2. Seen' = View(Seen.state, Seen.refs, Seen.active, Seen.backlog, Seen.connected, Seen.writable, Seen.readable,
                     Seen.writes, Seen.shutting, Seen.running, loop'.stop_flag, Seen.cb)
    BY ONLY <2>1, CallSeen
  <2> QED
    BY <1>2, <2>2
<1>8. Seen' = Promised!UvStop(Seen)
  <2>1. Promised!UvStop(Seen) = [Seen EXCEPT !.stopped = x]
    BY DEF Promised!UvStop, x
  <2>2. [Seen EXCEPT !.stopped = x] =
        View(Seen.state, Seen.refs, Seen.active, Seen.backlog, Seen.connected, Seen.writable, Seen.readable,
             Seen.writes, Seen.shutting, Seen.running, x, Seen.cb)
    BY SeenIsView, StopsIs
  <2> QED
    BY <1>7, <2>1, <2>2
<1>9. Promised!Call
  BY <1>1, <1>8 DEF Promised!Call
<1> QED
  BY <1>4, <1>9 DEF Mapped, Promised!StreamsNext

LEMMA ClientWritesS ==
    ASSUME IInv, CInv, SInv, CInv', NEW w \in WriteReqs, ClientWrites(w)
    PROVE  SInv' /\ Mapped
<1> DEFINE c == w.handle
<1>1. /\ LoopOK(loop) /\ Promised!MayCall /\ pc' = pc /\ cb' = cb /\ request[w] = "free"
      /\ request' = [request EXCEPT ![w] = IF Has(loop, c, "WRITABLE") THEN "issued" ELSE request[w]]
      /\ request \in [ClientReqs -> {"free", "issued", "called"}] /\ c \in Conns /\ c \in Handles
  BY InvIs, MayCallIs, IoReqsAre, Kinds DEF ClientWrites, Calls, IInv, TypeOK
<1>2. PICK how \in Answers : loop' = Write(loop, w, how)
  BY DEF ClientWrites
<1>3. Unseen(loop, loop')
  BY <1>1, <1>2, WriteUnseen
<1>4. CASE ~Has(loop, c, "WRITABLE")
  <2>1. request' = request
    BY <1>1, <1>4
  <2> QED
    BY <1>1, <1>3, <2>1, UnseenStep
<1>5. CASE Has(loop, c, "WRITABLE")
  <2>1. /\ WritesIn(request') = [WritesIn(request) EXCEPT ![c] = WritesIn(request)[c] + 1]
        /\ ShuttingIn(request') = ShuttingIn(request)
        /\ \A d \in Conns : request'[ShutdownReq(d)] = request[ShutdownReq(d)]
    <3> DEFINE x == "issued"
               p == request'
               q == request
               d == w.handle
    <3>1. /\ q \in [ClientReqs -> {"free", "issued", "called"}] /\ w \in WriteReqs /\ x \in {"issued", "called"}
          /\ p = Marked(q, w, x) /\ x = "issued" /\ q[w] # "issued" /\ d = w.handle
      BY <1>1, <1>5 DEF Marked
    <3> HIDE DEF x, p, q, d
    <3>2. /\ WritesIn(p) = [WritesIn(q) EXCEPT ![d] = WritesIn(q)[d] + 1]
          /\ ShuttingIn(p) = ShuttingIn(q)
          /\ \A e \in Conns : p[ShutdownReq(e)] = q[ShutdownReq(e)]
      BY ONLY <3>1, WritesChange
    <3> QED
      BY <3>2 DEF p, q, d
  <2>2. SInv'
    BY <1>3, <2>1, UnseenSteady, SteadyInv
  <2> DEFINE W == [Seen.writes EXCEPT ![c] = Seen.writes[c] + 1]
  <2>3. Seen' = View(Seen.state, Seen.refs, Seen.active, Seen.backlog, Seen.connected, Seen.writable, Seen.readable,
                     W, Seen.shutting, Seen.running, Seen.stopped, Seen.cb)
    <3>1. /\ Shows(loop', Seen.state, Seen.refs, Seen.active, Seen.connected, Seen.writable, Seen.readable)
          /\ BacklogIn(loop') = Seen.backlog /\ loop'.stop_flag = Seen.stopped
      BY <1>3, UnseenShows, SeenFields
    <3>2. WritesIn(request') = W /\ ShuttingIn(request') = Seen.shutting
      BY <2>1, SeenFields
    <3> HIDE DEF W
    <3>3. /\ Shows(loop', Seen.state, Seen.refs, Seen.active, Seen.connected, Seen.writable, Seen.readable)
          /\ BacklogIn(loop') = Seen.backlog /\ WritesIn(request') = W /\ ShuttingIn(request') = Seen.shutting
          /\ pc' = pc /\ cb' = cb
      BY <1>1, <3>1, <3>2
    <3>4. Seen' = View(Seen.state, Seen.refs, Seen.active, Seen.backlog, Seen.connected, Seen.writable, Seen.readable,
                       W, Seen.shutting, Seen.running, loop'.stop_flag, Seen.cb)
      BY ONLY <3>3, CallSeen
    <3> QED
      BY <3>1, <3>4
  <2>4. c \in Seen.writable
    BY <1>1, <1>5, SeenFields DEF ConnsWith
  <2>5. Seen' = Promised!UvWrite(Seen, c)
    BY <2>3, <2>4, SeenIsView, UvWriteIs
  <2>6. Promised!Call
    BY <1>1, <2>5 DEF Promised!Call
  <2> QED
    BY <2>2, <2>6 DEF Mapped, Promised!StreamsNext
<1> QED
  BY <1>4, <1>5

LEMMA ClientShutsDownS ==
    ASSUME IInv, CInv, SInv, CInv', NEW c \in Conns, ClientShutsDown(c)
    PROVE  SInv' /\ Mapped
<1> DEFINE r == ShutdownReq(c)
<1>1. /\ LoopOK(loop) /\ Promised!MayCall /\ pc' = pc /\ cb' = cb /\ request[r] = "free" /\ loop' = Shutdown(loop, c)
      /\ request' = [request EXCEPT ![r] = IF Has(loop, c, "WRITABLE") THEN "issued" ELSE request[r]]
      /\ request \in [ClientReqs -> {"free", "issued", "called"}] /\ c \in Handles /\ c \notin Timers /\ c \notin Servers
  BY InvIs, MayCallIs, Kinds DEF ClientShutsDown, Calls, IInv, TypeOK
<1>2. CASE ~Has(loop, c, "WRITABLE")
  <2>1. request' = request /\ loop' = loop
    BY <1>1, <1>2 DEF Shutdown
  <2>2. Unseen(loop, loop')
    BY <2>1 DEF Unseen, Beside, Lists
  <2> QED
    BY <1>1, <2>1, <2>2, UnseenStep
<1>3. CASE Has(loop, c, "WRITABLE")
  <2>1. /\ ShuttingIn(request') = ShuttingIn(request) \cup {c} /\ WritesIn(request') = WritesIn(request)
        /\ \A d \in Conns \ {c} : request'[ShutdownReq(d)] = request[ShutdownReq(d)]
    <3> DEFINE x == "issued"
               p == request'
               q == request
    <3>1. /\ q \in [ClientReqs -> {"free", "issued", "called"}] /\ c \in Conns /\ x \in {"issued", "called"}
          /\ p = Marked(q, ShutdownReq(c), x) /\ x = "issued"
      BY <1>1, <1>3 DEF Marked
    <3> HIDE DEF x, p, q
    <3>2. /\ ShuttingIn(p) = ShuttingIn(q) \cup {c} /\ WritesIn(p) = WritesIn(q)
          /\ \A d \in Conns \ {c} : p[ShutdownReq(d)] = q[ShutdownReq(d)]
      BY ONLY <3>1, ShutdownsChange
    <3> QED
      BY <3>2 DEF p, q
  <2> DEFINE F == Face(loop, c) \ {"WRITABLE"}
  <2>2. PICK C : Turns(loop, C, c, F) /\ Settles(C, loop', c, TRUE)
    BY <1>1, <1>3, ShutdownSettles
  <2>3. /\ Beside(loop, loop') /\ Face(loop', c) = F
        /\ \A g \in Handles \ {c} : Face(loop', g) = Face(loop, g)
        /\ \A g \in Handles : Has(loop', g, "ENDGAME_QUEUED") =>
               Has(loop, g, "ENDGAME_QUEUED") \/ Has(loop', g, "CLOSING") \/ g = c
    <3>1. Beside(loop, loop')
      BY <2>2 DEF Turns, Settles, Beside
    <3>2. \A g \in Handles : Face(loop', g) = Face(C, g)
      BY <2>2 DEF Settles
    <3>3. Face(loop', c) = F /\ \A g \in Handles \ {c} : Face(loop', g) = Face(loop, g)
      BY <1>1, <2>2, <3>2 DEF Turns
    <3>4. \A g \in Handles : Has(C, g, "CLOSING") <=> Has(loop', g, "CLOSING")
      BY <3>2, ClosingShows
    <3>5. ASSUME NEW g \in Handles, Has(loop', g, "ENDGAME_QUEUED")
          PROVE  Has(loop, g, "ENDGAME_QUEUED") \/ Has(loop', g, "CLOSING") \/ g = c
      BY <2>2, <3>4, <3>5 DEF Turns, Lists, Settles
    <3> QED
      BY <3>1, <3>3, <3>5
  <2>4. \A g \in Handles : /\ Has(loop', g, "CLOSING") <=> Has(loop, g, "CLOSING")
                           /\ "SOCKET_CLOSED" \in Face(loop', g) <=> "SOCKET_CLOSED" \in Face(loop, g)
                           /\ "CLOSING" \in Face(loop', g) <=> "CLOSING" \in Face(loop, g)
    BY <2>3, ClosingShows
  <2>5. SInv'
    <3>1. \A d \in Conns : ShutdownReq(d) \in loop.active_reqs \/ d = c => ShutdownReq(d) \in loop'.active_reqs
      <4>1. request'[r] = "issued" /\ \A d \in Conns : ShutdownReq(d) \in ClientReqs
        BY <1>1, <1>3, IoReqsAre
      <4> QED
        BY <2>1, <4>1 DEF CInv
    <3>2. ASSUME NEW g \in Handles
          PROVE  Wanted(loop', g) /\ Shut(loop', g)
      <4>1. Wanted(loop, g) /\ Shut(loop, g)
        BY DEF SInv
      <4>2. Shut(loop', g)
        BY <2>4, <4>1, ShutIs
      <4>3. Wanted(loop', g)
        BY <2>3, <2>4, <3>1, <4>1 DEF Wanted
      <4> QED
        BY <4>2, <4>3
    <3> QED
      BY <3>2 DEF SInv
  <2>6. /\ StateIn(loop', c) = StateIn(loop, c) /\ Acts(c, F) = Acts(c, Face(loop, c))
        /\ ("REF" \in F) = ("REF" \in Face(loop, c)) /\ ("CONNECTION" \in F) = ("CONNECTION" \in Face(loop, c))
        /\ ("READABLE" \in F) = ("READABLE" \in Face(loop, c)) /\ "WRITABLE" \notin F
    <3>1. Has(loop', c, "CLOSED") <=> Has(loop, c, "CLOSED")
      BY <2>3, ShownIs DEF Shown
    <3>2. StateIn(loop', c) = StateIn(loop, c)
      BY <1>1, <2>3, <2>4, <3>1 DEF StateIn, Beside
    <3> QED
      BY <3>2 DEF Acts
  <2>7. Shows(loop', [StatesIn(loop) EXCEPT ![c] = StateIn(loop', c)], Put(RefsIn(loop), c, "REF" \in F),
              Put(ActivesIn(loop), c, Acts(c, F)),
              Put(ConnsWith(loop, "CONNECTION"), c, c \in Conns /\ "CONNECTION" \in F),
              Put(ConnsWith(loop, "WRITABLE"), c, c \in Conns /\ "WRITABLE" \in F),
              Put(ConnsWith(loop, "READABLE"), c, c \in Conns /\ "READABLE" \in F))
    <3> DEFINE K == loop
               M == loop'
    <3>1. /\ c \in Handles /\ Face(M, c) = F
          /\ \A g \in Handles \ {c} : Face(M, g) = Face(K, g) /\ (g \in M.handle_queue <=> g \in K.handle_queue)
      BY <1>1, <2>3 DEF Beside
    <3> HIDE DEF K, M, F
    <3>2. Shows(M, [StatesIn(K) EXCEPT ![c] = StateIn(M, c)], Put(RefsIn(K), c, "REF" \in F),
                Put(ActivesIn(K), c, Acts(c, F)),
                Put(ConnsWith(K, "CONNECTION"), c, c \in Conns /\ "CONNECTION" \in F),
                Put(ConnsWith(K, "WRITABLE"), c, c \in Conns /\ "WRITABLE" \in F),
                Put(ConnsWith(K, "READABLE"), c, c \in Conns /\ "READABLE" \in F))
      BY ONLY <3>1, FaceShows
    <3> QED
      BY <3>2 DEF K, M
  <2> DEFINE W == Seen.writable \ {c}
             S == Seen.shutting \cup {c}
  <2>8. Shows(loop', Seen.state, Seen.refs, Seen.active, Seen.connected, W, Seen.readable)
    <3>1. [StatesIn(loop) EXCEPT ![c] = StateIn(loop', c)] = Seen.state
      BY <1>1, <2>6, SeenFields DEF StatesIn
    <3>2. Put(ConnsWith(loop, "WRITABLE"), c, c \in Conns /\ "WRITABLE" \in F) = W
      BY <2>6, SeenFields DEF Put
    <3> HIDE DEF F, W
    <3> QED
      BY <1>1, <2>6, <2>7, <3>1, <3>2, PutsSame, SeenFields
  <2>9. Seen' = View(Seen.state, Seen.refs, Seen.active, Seen.backlog, Seen.connected, W, Seen.readable,
                     Seen.writes, S, Seen.running, Seen.stopped, Seen.cb)
    <3>1. /\ BacklogIn(loop') = Seen.backlog /\ loop'.stop_flag = Seen.stopped
          /\ WritesIn(request') = Seen.writes /\ ShuttingIn(request') = S
      BY <2>1, <2>3, SeenFields DEF Beside, BacklogIn
    <3> HIDE DEF W, S
    <3>2. /\ Shows(loop', Seen.state, Seen.refs, Seen.active, Seen.connected, W, Seen.readable)
          /\ BacklogIn(loop') = Seen.backlog /\ WritesIn(request') = Seen.writes /\ ShuttingIn(request') = S
          /\ pc' = pc /\ cb' = cb
      BY <1>1, <2>8, <3>1
    <3>3. Seen' = View(Seen.state, Seen.refs, Seen.active, Seen.backlog, Seen.connected, W, Seen.readable,
                       Seen.writes, S, Seen.running, loop'.stop_flag, Seen.cb)
      BY ONLY <3>2, CallSeen
    <3> QED
      BY <3>1, <3>3
  <2>10. c \in Seen.writable
    BY <1>3, SeenFields DEF ConnsWith
  <2>11. Seen' = Promised!UvShutdown(Seen, c)
    BY <2>9, <2>10, SeenIsView, UvShutdownIs
  <2>12. Promised!Call
    BY <1>1, <2>11 DEF Promised!Call
  <2> QED
    BY <2>5, <2>12 DEF Mapped, Promised!StreamsNext
<1> QED
  BY <1>2, <1>3

LEMMA ClientOpensS ==
    ASSUME IInv, CInv, SInv, CInv', NEW h \in Handles, ClientOpens(h)
    PROVE  SInv' /\ Mapped
<1>1. /\ LoopOK(loop) /\ Promised!MayCall /\ request' = request /\ pc' = pc /\ cb' = cb
      /\ h \notin loop.handle_queue /\ loop.flags[h] = {} /\ loop.flags \in [Handles -> SUBSET Flags]
  BY InvIs, MayCallIs DEF ClientOpens, Calls, Opened, LoopOK, LoopType
<1>2. /\ loop'.flags = [loop.flags EXCEPT ![h] = {"REF"}] /\ loop'.handle_queue = loop.handle_queue \cup {h}
      /\ loop'.pending_accepts = loop.pending_accepts /\ loop'.stop_flag = loop.stop_flag
  BY <1>1, HandleInitShows DEF ClientOpens
<1>3. loop'.flags[h] = {"REF"} /\ \A g \in Handles \ {h} : loop'.flags[g] = loop.flags[g]
  BY <1>1, <1>2
<1> DEFINE F == {"REF"}
<1>4. Face(loop', h) = F /\ Face(loop, h) = {} /\ \A g \in Handles \ {h} : Face(loop', g) = Face(loop, g)
  BY <1>1, <1>3 DEF Face, Hidden
<1>5. SInv'
  <2>1. \A g \in Handles : /\ Has(loop', g, "ENDGAME_QUEUED") => Has(loop, g, "ENDGAME_QUEUED")
                           /\ Has(loop', g, "CLOSING") <=> Has(loop, g, "CLOSING")
                           /\ Has(loop', g, "SOCKET_CLOSED") <=> Has(loop, g, "SOCKET_CLOSED")
    BY <1>1, <1>3 DEF Has
  <2>2. Steady(loop, loop')
    BY <2>1 DEF Steady, Lists, Shut
  <2> QED
    BY <1>1, <2>2, SteadyInv
<1>6. Shows(loop', [StatesIn(loop) EXCEPT ![h] = StateIn(loop', h)], Put(RefsIn(loop), h, "REF" \in F),
            Put(ActivesIn(loop), h, Acts(h, F)),
            Put(ConnsWith(loop, "CONNECTION"), h, h \in Conns /\ "CONNECTION" \in F),
            Put(ConnsWith(loop, "WRITABLE"), h, h \in Conns /\ "WRITABLE" \in F),
            Put(ConnsWith(loop, "READABLE"), h, h \in Conns /\ "READABLE" \in F))
  <2> DEFINE K == loop
             M == loop'
  <2>1. /\ h \in Handles /\ Face(M, h) = F
        /\ \A g \in Handles \ {h} : Face(M, g) = Face(K, g) /\ (g \in M.handle_queue <=> g \in K.handle_queue)
    BY <1>2, <1>4
  <2> HIDE DEF K, M, F
  <2>2. Shows(M, [StatesIn(K) EXCEPT ![h] = StateIn(M, h)], Put(RefsIn(K), h, "REF" \in F),
              Put(ActivesIn(K), h, Acts(h, F)),
              Put(ConnsWith(K, "CONNECTION"), h, h \in Conns /\ "CONNECTION" \in F),
              Put(ConnsWith(K, "WRITABLE"), h, h \in Conns /\ "WRITABLE" \in F),
              Put(ConnsWith(K, "READABLE"), h, h \in Conns /\ "READABLE" \in F))
    BY ONLY <2>1, FaceShows
  <2> QED
    BY <2>2 DEF K, M
<1>7. /\ ("CONNECTION" \in F) = ("CONNECTION" \in Face(loop, h)) /\ ("WRITABLE" \in F) = ("WRITABLE" \in Face(loop, h))
      /\ ("READABLE" \in F) = ("READABLE" \in Face(loop, h)) /\ Acts(h, F) = Acts(h, Face(loop, h))
  BY <1>4 DEF Acts
<1>8. StateIn(loop', h) = "open"
  <2>1. ~Has(loop', h, "CLOSED") /\ ~Has(loop', h, "CLOSING") /\ h \in loop'.handle_queue
    BY <1>2, <1>3 DEF Has
  <2> QED
    BY <2>1, StateIs
<1> DEFINE T == [Seen.state EXCEPT ![h] = "open"]
           R == Seen.refs \cup {h}
<1>9. Shows(loop', T, R, Seen.active, Seen.connected, Seen.writable, Seen.readable)
  <2>1. [StatesIn(loop) EXCEPT ![h] = StateIn(loop', h)] = T
    BY <1>8, SeenFields
  <2>2. Put(RefsIn(loop), h, "REF" \in F) = R
    BY SeenFields DEF Put
  <2> HIDE DEF F, T, R
  <2> QED
    BY <1>6, <1>7, <2>1, <2>2, PutsSame, SeenFields
<1>10. Seen' = View(T, R, Seen.active, Seen.backlog, Seen.connected, Seen.writable, Seen.readable,
                    Seen.writes, Seen.shutting, Seen.running, Seen.stopped, Seen.cb)
  <2>1. /\ BacklogIn(loop') = Seen.backlog /\ loop'.stop_flag = Seen.stopped
        /\ WritesIn(request') = Seen.writes /\ ShuttingIn(request') = Seen.shutting
    BY <1>1, <1>2, SeenFields DEF BacklogIn
  <2> HIDE DEF T, R
  <2>2. /\ Shows(loop', T, R, Seen.active, Seen.connected, Seen.writable, Seen.readable)
        /\ BacklogIn(loop') = Seen.backlog /\ WritesIn(request') = Seen.writes /\ ShuttingIn(request') = Seen.shutting
        /\ pc' = pc /\ cb' = cb
    BY <1>1, <1>9, <2>1
  <2>3. Seen' = View(T, R, Seen.active, Seen.backlog, Seen.connected, Seen.writable, Seen.readable,
                     Seen.writes, Seen.shutting, Seen.running, loop'.stop_flag, Seen.cb)
    BY ONLY <2>2, CallSeen
  <2> QED
    BY <2>1, <2>3
<1>11. Seen' = Promised!UvOpen(Seen, h)
  BY <1>10, SeenIsView, UvOpenIs
<1>12. Seen.state[h] = "unborn"
  BY <1>1, OpenIs
<1>13. Promised!Call
  BY <1>1, <1>11, <1>12, HandlesAre DEF Promised!Call
<1> QED
  BY <1>5, <1>13 DEF Mapped, Promised!StreamsNext

LEMMA ClientClosesS ==
    ASSUME IInv, CInv, SInv, CInv', NEW h \in Handles, ClientCloses(h)
    PROVE  SInv' /\ Mapped
<1>1. /\ LoopOK(loop) /\ loop.failed = {} /\ Promised!MayCall /\ request' = request /\ pc' = pc /\ cb' = cb
      /\ h \in loop.handle_queue /\ ~Has(loop, h, "CLOSING") /\ loop' = Close(loop, h)
  BY InvIs, MayCallIs DEF ClientCloses, Calls, Opened, Open
<1> DEFINE F == ClosedFace(h, Face(loop, h))
<1>2. Turns(loop, loop', h, F)
  BY <1>1, CloseTurns
<1>3. /\ "CLOSING" \in F /\ (h \in Timers \/ "SOCKET_CLOSED" \in F) /\ ~Acts(h, F)
      /\ ("CLOSED" \in F) = ("CLOSED" \in Face(loop, h))
      /\ ("REF" \in F) = ("REF" \in Face(loop, h)) /\ ("CONNECTION" \in F) = ("CONNECTION" \in Face(loop, h))
      /\ h \in Conns => "WRITABLE" \notin F /\ "READABLE" \notin F
  BY Kinds DEF ClosedFace, Acts
<1> HIDE DEF F
<1>4. SInv'
  BY <1>1, <1>2, <1>3, TurnSteady, SteadyInv
<1>5. /\ Beside(loop, loop') /\ Face(loop', h) = F /\ \A g \in Handles \ {h} : Face(loop', g) = Face(loop, g)
  BY <1>2 DEF Turns
<1>6. Shows(loop', [StatesIn(loop) EXCEPT ![h] = StateIn(loop', h)], Put(RefsIn(loop), h, "REF" \in F),
            Put(ActivesIn(loop), h, Acts(h, F)),
            Put(ConnsWith(loop, "CONNECTION"), h, h \in Conns /\ "CONNECTION" \in F),
            Put(ConnsWith(loop, "WRITABLE"), h, h \in Conns /\ "WRITABLE" \in F),
            Put(ConnsWith(loop, "READABLE"), h, h \in Conns /\ "READABLE" \in F))
  <2> DEFINE K == loop
             M == loop'
  <2>1. /\ h \in Handles /\ Face(M, h) = F
        /\ \A g \in Handles \ {h} : Face(M, g) = Face(K, g) /\ (g \in M.handle_queue <=> g \in K.handle_queue)
    BY <1>5 DEF Beside
  <2> HIDE DEF K, M
  <2>2. Shows(M, [StatesIn(K) EXCEPT ![h] = StateIn(M, h)], Put(RefsIn(K), h, "REF" \in F),
              Put(ActivesIn(K), h, Acts(h, F)),
              Put(ConnsWith(K, "CONNECTION"), h, h \in Conns /\ "CONNECTION" \in F),
              Put(ConnsWith(K, "WRITABLE"), h, h \in Conns /\ "WRITABLE" \in F),
              Put(ConnsWith(K, "READABLE"), h, h \in Conns /\ "READABLE" \in F))
    BY ONLY <2>1, FaceShows
  <2> QED
    BY <2>2 DEF K, M
<1>7. ~Has(loop, h, "CLOSED")
  BY <1>1, InvIs DEF HandleInv, Lives
<1>8. StateIn(loop', h) = "closing"
  <2>1. ~Has(loop', h, "CLOSED") /\ Has(loop', h, "CLOSING")
    BY <1>3, <1>5, <1>7, ShownIs DEF Shown
  <2> QED
    BY <2>1, StateIs
<1> DEFINE T == [Seen.state EXCEPT ![h] = "closing"]
           A == Seen.active \ {h}
           W == Seen.writable \ {h}
           R == Seen.readable \ {h}
<1>9. Shows(loop', T, Seen.refs, A, Seen.connected, W, R)
  <2>1. [StatesIn(loop) EXCEPT ![h] = StateIn(loop', h)] = T
    BY <1>8, SeenFields
  <2>2. Put(ActivesIn(loop), h, Acts(h, F)) = A
    BY <1>3, SeenFields DEF Put
  <2>3. Put(ConnsWith(loop, "WRITABLE"), h, h \in Conns /\ "WRITABLE" \in F) = W
        /\ Put(ConnsWith(loop, "READABLE"), h, h \in Conns /\ "READABLE" \in F) = R
    BY <1>3, SeenFields DEF Put
  <2> HIDE DEF T, A, W, R
  <2> QED
    BY <1>3, <1>6, <2>1, <2>2, <2>3, PutsSame, SeenFields
<1>10. Seen' = View(T, Seen.refs, A, Seen.backlog, Seen.connected, W, R, Seen.writes, Seen.shutting, Seen.running,
                    Seen.stopped, Seen.cb)
  <2>1. /\ BacklogIn(loop') = Seen.backlog /\ loop'.stop_flag = Seen.stopped
        /\ WritesIn(request') = Seen.writes /\ ShuttingIn(request') = Seen.shutting
    BY <1>1, <1>5, SeenFields DEF Beside, BacklogIn
  <2> HIDE DEF T, A, W, R
  <2>2. /\ Shows(loop', T, Seen.refs, A, Seen.connected, W, R)
        /\ BacklogIn(loop') = Seen.backlog /\ WritesIn(request') = Seen.writes /\ ShuttingIn(request') = Seen.shutting
        /\ pc' = pc /\ cb' = cb
    BY <1>1, <1>9, <2>1
  <2>3. Seen' = View(T, Seen.refs, A, Seen.backlog, Seen.connected, W, R, Seen.writes, Seen.shutting, Seen.running,
                     loop'.stop_flag, Seen.cb)
    BY ONLY <2>2, CallSeen
  <2> QED
    BY <2>1, <2>3
<1>11. Seen' = Promised!UvClose(Seen, h)
  BY <1>10, SeenIsView, UvCloseIs
<1>12. Promised!Open(Seen, h)
  BY <1>1, OpenIs DEF Promised!Open
<1>13. Promised!Call
  BY <1>1, <1>11, <1>12, HandlesAre DEF Promised!Call
<1> QED
  BY <1>4, <1>13 DEF Mapped, Promised!StreamsNext

LEMMA ClientAcceptsS ==
    ASSUME IInv, CInv, SInv, CInv', NEW s \in Servers, NEW c \in Conns, ClientAccepts(s, c)
    PROVE  SInv' /\ Mapped
<1>1. /\ LoopOK(loop) /\ loop \in LoopType /\ Promised!MayCall /\ request' = request /\ pc' = pc /\ cb' = cb
      /\ c \in loop.handle_queue /\ ~Has(loop, c, "CLOSING") /\ ~Has(loop, c, "CONNECTION")
      /\ loop.pending_accepts[s] # << >> /\ c \in Handles /\ s \in Handles /\ c \notin Timers /\ c \notin Servers
  BY InvIs, MayCallIs, Kinds DEF ClientAccepts, Calls, Opened, Open, LoopOK
<1>2. PICK sockOk \in BOOLEAN : \E how \in Answers : loop' = TcpAccept(loop, s, c, sockOk, how)
  BY DEF ClientAccepts, AcceptAnswers
<1> DEFINE F == Face(loop, c) \cup IF sockOk THEN {"CONNECTION", "READABLE", "WRITABLE"} ELSE {}
<1>3. /\ Lists(loop, loop') /\ loop'.handle_queue = loop.handle_queue /\ loop'.stop_flag = loop.stop_flag
      /\ loop'.pending_accepts = [loop.pending_accepts EXCEPT ![s] = Tail(loop.pending_accepts[s])]
      /\ Face(loop', c) = F
      /\ \A g \in Handles \ {c} : Face(loop', g) = Face(loop, g)
  <2> DEFINE M == loop'
             K == loop
  <2>1. PICK how \in Answers : M = TcpAccept(K, s, c, sockOk, how)
    BY <1>2
  <2>2. LoopOK(K) /\ K.pending_accepts[s] # << >> /\ s \in Servers /\ c \in Conns /\ sockOk \in BOOLEAN /\ how \in Answers
        /\ M = TcpAccept(K, s, c, sockOk, how)
    BY <1>1, <2>1
  <2> HIDE DEF M, K
  <2>3. /\ Lists(K, M) /\ M.handle_queue = K.handle_queue /\ M.stop_flag = K.stop_flag
        /\ M.pending_accepts = [K.pending_accepts EXCEPT ![s] = Tail(K.pending_accepts[s])]
        /\ Face(M, c) = Face(K, c) \cup IF sockOk THEN {"CONNECTION", "READABLE", "WRITABLE"} ELSE {}
        /\ \A g \in Handles \ {c} : Face(M, g) = Face(K, g)
    BY ONLY <2>2, TcpAcceptShows
  <2> QED
    BY <2>3 DEF M, K
<1>4. /\ Acts(c, F) = Acts(c, Face(loop, c)) /\ ("REF" \in F) = ("REF" \in Face(loop, c))
      /\ ("CLOSING" \in F) = ("CLOSING" \in Face(loop, c)) /\ ("CLOSED" \in F) = ("CLOSED" \in Face(loop, c))
      /\ ("SOCKET_CLOSED" \in F) = ("SOCKET_CLOSED" \in Face(loop, c))
      /\ sockOk => "CONNECTION" \in F /\ "WRITABLE" \in F /\ "READABLE" \in F
      /\ ~sockOk => F = Face(loop, c)
  BY DEF Acts
<1>5. SInv'
  <2>1. \A g \in Handles : (Has(loop', g, "CLOSING") <=> Has(loop, g, "CLOSING")) /\ (Shut(loop, g) => Shut(loop', g))
    BY <1>3, <1>4, ClosingShows, ShutIs
  <2>2. Steady(loop, loop')
    BY <1>3, <2>1 DEF Steady
  <2> QED
    BY <1>1, <2>2, SteadyInv
<1>6. Shows(loop', [StatesIn(loop) EXCEPT ![c] = StateIn(loop', c)], Put(RefsIn(loop), c, "REF" \in F),
            Put(ActivesIn(loop), c, Acts(c, F)),
            Put(ConnsWith(loop, "CONNECTION"), c, c \in Conns /\ "CONNECTION" \in F),
            Put(ConnsWith(loop, "WRITABLE"), c, c \in Conns /\ "WRITABLE" \in F),
            Put(ConnsWith(loop, "READABLE"), c, c \in Conns /\ "READABLE" \in F))
  <2> DEFINE K == loop
             M == loop'
  <2>1. /\ c \in Handles /\ Face(M, c) = F
        /\ \A g \in Handles \ {c} : Face(M, g) = Face(K, g) /\ (g \in M.handle_queue <=> g \in K.handle_queue)
    BY <1>1, <1>3
  <2> HIDE DEF K, M, F
  <2>2. Shows(M, [StatesIn(K) EXCEPT ![c] = StateIn(M, c)], Put(RefsIn(K), c, "REF" \in F),
              Put(ActivesIn(K), c, Acts(c, F)),
              Put(ConnsWith(K, "CONNECTION"), c, c \in Conns /\ "CONNECTION" \in F),
              Put(ConnsWith(K, "WRITABLE"), c, c \in Conns /\ "WRITABLE" \in F),
              Put(ConnsWith(K, "READABLE"), c, c \in Conns /\ "READABLE" \in F))
    BY ONLY <2>1, FaceShows
  <2> QED
    BY <2>2 DEF K, M
<1>7. [StatesIn(loop) EXCEPT ![c] = StateIn(loop', c)] = Seen.state
  <2>1. (Has(loop', c, "CLOSED") <=> Has(loop, c, "CLOSED")) /\ (Has(loop', c, "CLOSING") <=> Has(loop, c, "CLOSING"))
    BY <1>3, <1>4, ShownIs DEF Shown
  <2>2. StateIn(loop', c) = StateIn(loop, c)
    BY <1>3, <2>1 DEF StateIn
  <2> QED
    BY <1>1, <2>2, SeenFields DEF StatesIn
<1> DEFINE B == [Seen.backlog EXCEPT ![s] = Seen.backlog[s] - 1]
           C == IF sockOk THEN Seen.connected \cup {c} ELSE Seen.connected
           W == IF sockOk THEN Seen.writable \cup {c} ELSE Seen.writable
           R == IF sockOk THEN Seen.readable \cup {c} ELSE Seen.readable
<1>8. Shows(loop', Seen.state, Seen.refs, Seen.active, C, W, R)
  <2>1. /\ Put(ConnsWith(loop, "CONNECTION"), c, c \in Conns /\ "CONNECTION" \in F) = C
        /\ Put(ConnsWith(loop, "WRITABLE"), c, c \in Conns /\ "WRITABLE" \in F) = W
        /\ Put(ConnsWith(loop, "READABLE"), c, c \in Conns /\ "READABLE" \in F) = R
    <3>1. CASE sockOk
      BY <1>4, <3>1, SeenFields DEF Put
    <3>2. CASE ~sockOk
      BY <1>1, <1>4, <3>2, PutsSame, SeenFields
    <3> QED
      BY <3>1, <3>2
  <2> HIDE DEF F, C, W, R
  <2> QED
    BY <1>1, <1>4, <1>6, <1>7, <2>1, PutsSame, SeenFields
<1>9. BacklogIn(loop') = B /\ Seen.backlog[s] > 0
  <2>1. loop.pending_accepts \in [Handles -> Seq(AcceptReqs)]
    BY <1>1 DEF LoopType
  <2>2. Len(loop.pending_accepts[s]) > 0 /\ Len(Tail(loop.pending_accepts[s])) = Len(loop.pending_accepts[s]) - 1
    BY <1>1, <2>1
  <2>3. \A g \in Servers : g \in Handles
    BY Kinds
  <2>4. \A g \in Servers : Len(loop'.pending_accepts[g]) =
            IF g = s THEN Len(loop.pending_accepts[s]) - 1 ELSE Len(loop.pending_accepts[g])
    BY <1>3, <2>1, <2>2, <2>3
  <2>5. BacklogIn(loop') = [BacklogIn(loop) EXCEPT ![s] = BacklogIn(loop)[s] - 1]
    BY <2>4 DEF BacklogIn
  <2>6. BacklogIn(loop)[s] > 0
    BY <2>2 DEF BacklogIn
  <2> QED
    BY <2>5, <2>6, SeenFields
<1>10. Seen' = View(Seen.state, Seen.refs, Seen.active, B, C, W, R, Seen.writes, Seen.shutting, Seen.running,
                    Seen.stopped, Seen.cb)
  <2>1. /\ loop'.stop_flag = Seen.stopped /\ WritesIn(request') = Seen.writes /\ ShuttingIn(request') = Seen.shutting
    BY <1>1, <1>3, SeenFields
  <2> HIDE DEF B, C, W, R
  <2>2. /\ Shows(loop', Seen.state, Seen.refs, Seen.active, C, W, R)
        /\ BacklogIn(loop') = B /\ WritesIn(request') = Seen.writes /\ ShuttingIn(request') = Seen.shutting
        /\ pc' = pc /\ cb' = cb
    BY <1>1, <1>8, <1>9, <2>1
  <2>3. Seen' = View(Seen.state, Seen.refs, Seen.active, B, C, W, R, Seen.writes, Seen.shutting, Seen.running,
                     loop'.stop_flag, Seen.cb)
    BY ONLY <2>2, CallSeen
  <2> QED
    BY <2>1, <2>3
<1>11. Seen' = Promised!UvAccept(Seen, s, c, sockOk)
  <2> DEFINE U == Seen
             C1 == U.connected \cup {c}
             W1 == U.writable \cup {c}
             R1 == U.readable \cup {c}
  <2>1. U = View(U.state, U.refs, U.active, U.backlog, U.connected, U.writable, U.readable, U.writes, U.shutting,
                 U.running, U.stopped, U.cb)
    BY SeenIsView
  <2>2. B = [U.backlog EXCEPT ![s] = U.backlog[s] - 1]
    OBVIOUS
  <2>3. Seen' = View(U.state, U.refs, U.active, B, C, W, R, U.writes, U.shutting, U.running, U.stopped, U.cb)
    BY <1>10
  <2>4. CASE sockOk
    <3>1. C = C1 /\ W = W1 /\ R = R1
      BY <2>4
    <3> HIDE DEF U, B, C, W, R
    <3>2. Promised!UvAccept(U, s, c, sockOk) = Accepted(U, B, C1, W1, R1)
      BY <2>2, <2>4 DEF Promised!UvAccept, Accepted
    <3> HIDE DEF C1, W1, R1
    <3>3. Accepted(U, B, C1, W1, R1) =
          View(U.state, U.refs, U.active, B, C1, W1, R1, U.writes, U.shutting, U.running, U.stopped, U.cb)
      BY ONLY <2>1, UvAcceptIs
    <3>4. Seen' = Promised!UvAccept(U, s, c, sockOk)
      BY <2>3, <3>1, <3>2, <3>3
    <3> QED
      BY <3>4 DEF U
  <2>5. CASE ~sockOk
    <3>1. C = U.connected /\ W = U.writable /\ R = U.readable
      BY <2>5
    <3> HIDE DEF U, B, C, W, R
    <3>2. Promised!UvAccept(U, s, c, sockOk) = [U EXCEPT !.backlog = B]
      BY <2>2, <2>5 DEF Promised!UvAccept
    <3>3. [U EXCEPT !.backlog = B] =
          View(U.state, U.refs, U.active, B, U.connected, U.writable, U.readable, U.writes, U.shutting, U.running,
               U.stopped, U.cb)
      BY ONLY <2>1, UvRefuseIs
    <3>4. Seen' = Promised!UvAccept(U, s, c, sockOk)
      BY <2>3, <3>1, <3>2, <3>3
    <3> QED
      BY <3>4 DEF U
  <2> QED
    BY <2>4, <2>5
<1>12. Promised!Open(Seen, c) /\ c \notin Seen.connected
  BY <1>1, OpenIs, SeenFields DEF Promised!Open, ConnsWith
<1>13. Promised!Call
  BY <1>1, <1>9, <1>11, <1>12 DEF Promised!Call
<1> QED
  BY <1>5, <1>13 DEF Mapped, Promised!StreamsNext

-----------------------------------------------------------------------------
\* Together.

LEMMA ClientStepS ==
    ASSUME IInv, CInv, SInv, CInv', ClientStep
    PROVE  SInv' /\ Mapped
<1>1. \A h \in Unrefable : h \in Handles
  BY EnvironmentAssumption
<1> QED
  BY <1>1, ClientOpensS, ClientClosesS, ClientRefsS, ClientListensS, ClientAcceptsS, ReadingCallS, ClientShutsDownS,
     ClientWritesS, TimerCallS, ClientStopsS DEF ClientStep

LEMMA StreamsStep ==
    ASSUME IInv, CInv, SInv, CInv', [Next]_vars
    PROVE  SInv' /\ Mapped
<1>1. CASE LibraryStep
  BY <1>1, RunS, FireTimerS, StutterS, ProcessReadReqS, ReadMoreS, RecvS, ProcessWriteReqS, ProcessAcceptReqS,
     ProcessEndgameS, CallbackReturnsS DEF LibraryStep
<1>2. CASE \E r \in IoReqs : KernelCompletes(r)
  BY <1>2, StutterS
<1>3. CASE ClientStep
  BY <1>3, ClientStepS
<1>4. CASE UNCHANGED vars
  <2>1. loop' = loop /\ request' = request /\ pc' = pc /\ cb' = cb
    BY <1>4 DEF vars
  <2>2. Unseen(loop, loop')
    BY <2>1 DEF Unseen, Beside, Lists
  <2> QED
    BY <2>1, <2>2, UnseenStep
<1> QED
  BY <1>1, <1>2, <1>3, <1>4 DEF Next

LEMMA StreamsBegins ==
    ASSUME Init
    PROVE  SInv /\ Promised!StreamsInit
<1>1. /\ \A h \in Handles : loop.flags[h] = {} /\ loop.pending_accepts[h] = << >>
      /\ loop.handle_queue = {} /\ loop.stop_flag = FALSE /\ pc = "outside" /\ cb = NoCallback
      /\ \A r \in ClientReqs : request[r] = "free"
  BY DEF Init, LoopInit
<1>2. \A h \in Handles : Face(loop, h) = {} /\ \A f : ~Has(loop, h, f)
  BY <1>1 DEF Face, Has
<1>3. SInv
  BY <1>2 DEF SInv, Wanted, Shut
<1>4. /\ Seen.state = [h \in Handles |-> "unborn"] /\ Seen.refs = {} /\ Seen.active = {}
      /\ Seen.connected = {} /\ Seen.writable = {} /\ Seen.readable = {}
  <2>1. \A h \in Handles : StateIn(loop, h) = "unborn"
    BY <1>1, <1>2, StateIs
  <2>2. StatesIn(loop) = [h \in Handles |-> "unborn"] /\ RefsIn(loop) = {} /\ ActivesIn(loop) = {}
    BY <1>2, <2>1 DEF StatesIn, RefsIn, ActivesIn, ActiveIn
  <2>3. \A f \in {"CONNECTION", "WRITABLE", "READABLE"} : ConnsWith(loop, f) = {}
    BY <1>2, Kinds DEF ConnsWith
  <2> QED
    BY <2>2, <2>3, SeenFields
<1>5. Seen.backlog = [s \in Servers |-> 0]
  <2>1. \A s \in Servers : Len(loop.pending_accepts[s]) = 0
    BY <1>1, Kinds
  <2> QED
    BY <2>1, SeenFields DEF BacklogIn
<1>6. Seen.writes = [c \in Conns |-> 0] /\ Seen.shutting = {}
  <2>1. ASSUME NEW c \in Conns
        PROVE  Cardinality(Issued(request, c)) = 0 /\ request[ShutdownReq(c)] # "issued"
    <3>1. Issued(request, c) = {}
      BY <1>1, IoReqsAre DEF Issued
    <3> QED
      BY <1>1, <3>1, IoReqsAre, FS_EmptySet
  <2>2. WritesIn(request) = [c \in Conns |-> 0]
    BY <2>1 DEF WritesIn, Issued
  <2>3. ShuttingIn(request) = {}
    BY <2>1 DEF ShuttingIn
  <2> QED
    BY <2>2, <2>3, SeenFields
<1> DEFINE x == FALSE
           n == Promised!None
<1>7. Seen.running = x /\ Seen.stopped = x /\ Seen.cb = n
  BY <1>1, SeenFields, CallbackIsSeen
<1> HIDE DEF x, n
<1>8. Seen = View([h \in Handles |-> "unborn"], {}, {}, [s \in Servers |-> 0], {}, {}, {}, [c \in Conns |-> 0], {}, x, x, n)
  BY <1>4, <1>5, <1>6, <1>7, SeenIsView
<1>9. Seen = Promised!UvInit
  BY <1>8, HandlesAre DEF View, Promised!UvInit, x, n
<1> QED
  BY <1>3, <1>9 DEF Promised!StreamsInit

\* The event loop implements Streams: whatever the library, the kernel and the
\* clients do, what a client can tell of it is what libuv promises - which calls have
\* which effect, which callbacks may come when, and when uv_run may return - but for
\* the two situations the findings are about, and where an alloc_cb stops or closes the
\* stream it gives memory to.
THEOREM ImplementsPromises == Spared => (Spec => ImplementsStreams)
<1>1. Init => SInv /\ Promised!StreamsInit
  BY StreamsBegins
<1>2. IInv /\ CInv /\ SInv /\ [Next]_vars => SInv' /\ [Promised!StreamsNext]_Seen
  <2> SUFFICES ASSUME IInv, CInv, SInv, [Next]_vars PROVE SInv' /\ [Promised!StreamsNext]_Seen
    OBVIOUS
  <2>1. CInv'
    BY CounterNext
  <2> QED
    BY <2>1, StreamsStep DEF Mapped
<1>3. ASSUME Spared
      PROVE  Spec => ImplementsStreams
  <2>1. Spec => [](IInv /\ CInv)
    BY <1>3, CounterInv
  <2> QED
    BY <1>1, <1>2, <2>1, PTL DEF Spec, ImplementsStreams, Promised!StreamsSpec
<1> QED
  BY <1>3

=============================================================================
