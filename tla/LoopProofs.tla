----------------------------- MODULE LoopProofs -----------------------------
(***************************************************************************)
(* Proofs about the event loop, for every value of the constants.          *)
(***************************************************************************)
EXTENDS LoopProps, FiniteSetTheorems, TLAPS

-----------------------------------------------------------------------------
\* The invariant of the loop record that every macro of the library keeps.

Accounted(L) ==
    L.failed = {} =>
        /\ L.active_handles = Cardinality(Counted(L))
        /\ \A h \in Handles : /\ Has(L, h, "CLOSED") => Has(L, h, "CLOSING")
                              /\ Has(L, h, "CLOSING") => ~Has(L, h, "ACTIVE")

Threaded(L) ==
    /\ \A h \in Handles : Has(L, h, "ENDGAME_QUEUED") <=>
                              \E i \in DOMAIN L.endgame : L.endgame[i] = h
    /\ \A i, j \in DOMAIN L.endgame : L.endgame[i] = L.endgame[j] => i = j

LoopOK(L) == L \in LoopType /\ Accounted(L) /\ Threaded(L)

\* The flags neither part of the invariant looks at.
OtherFlags == Flags \ {"REF", "ACTIVE", "CLOSING", "CLOSED", "ENDGAME_QUEUED"}

\* What the invariant looks at stays as it is, from L to M.
Same(L, M) ==
    /\ M \in LoopType
    /\ M.flags = L.flags /\ M.active_handles = L.active_handles
    /\ M.endgame = L.endgame /\ L.failed \subseteq M.failed

\* Only the flags of h change, from L to M, and they become F.
Flagged(L, M, h, F) ==
    /\ M \in LoopType
    /\ M.flags = [L.flags EXCEPT ![h] = F] /\ M.active_handles = L.active_handles
    /\ M.endgame = L.endgame /\ M.failed = L.failed

\* What a handle with flags F adds to active_handles.
CountOf(F) ==
    IF {"ACTIVE", "REF"} \subseteq F \/ ("CLOSING" \in F /\ "CLOSED" \notin F) THEN 1 ELSE 0

-----------------------------------------------------------------------------
\* What the updates of the record change.

LEMMA CheckIs ==
    ASSUME NEW L \in LoopType, NEW n \in Assertions, NEW e
    PROVE  /\ Same(L, Check(L, n, e))
           /\ Check(L, n, e).failed = {} => e
<1>1. CASE e
  BY <1>1 DEF Check, Same
<1>2. CASE ~e
  <2> DEFINE M == [L EXCEPT !.failed = @ \cup {n}]
  <2>1. M \in LoopType /\ M.failed = L.failed \cup {n}
    BY DEF LoopType
  <2>2. Same(L, M)
    BY <2>1 DEF LoopType, Same
  <2> QED
    BY <1>2, <2>1, <2>2 DEF Check
<1> QED
  BY <1>1, <1>2

LEMMA SetFlagsIs ==
    ASSUME NEW L \in LoopType, NEW h \in Handles, NEW F \in SUBSET Flags
    PROVE  /\ Flagged(L, SetFlags(L, h, F), h, L.flags[h] \cup F)
           /\ Flagged(L, Clear(L, h, F), h, L.flags[h] \ F)
  BY DEF LoopType, SetFlags, Clear, Flagged

LEMMA ActiveHandleAddIs ==
    ASSUME NEW L \in LoopType
    PROVE  /\ ActiveHandleAdd(L) \in LoopType
           /\ ActiveHandleAdd(L).active_handles = L.active_handles + 1
           /\ ActiveHandleAdd(L).flags = L.flags
           /\ ActiveHandleAdd(L).endgame = L.endgame
           /\ ActiveHandleAdd(L).failed = L.failed
<1>1. L.active_handles + 1 \in Int
  BY DEF LoopType
<1> QED
  BY <1>1 DEF LoopType, ActiveHandleAdd

LEMMA ActiveHandleRmIs ==
    ASSUME NEW L \in LoopType
    PROVE  /\ ActiveHandleRm(L) \in LoopType
           /\ ActiveHandleRm(L).active_handles = L.active_handles - 1
           /\ ActiveHandleRm(L).flags = L.flags
           /\ ActiveHandleRm(L).endgame = L.endgame
           /\ ActiveHandleRm(L).failed = L.failed
<1>1. L.active_handles - 1 \in Int
  BY DEF LoopType
<1> QED
  BY <1>1 DEF LoopType, ActiveHandleRm

-----------------------------------------------------------------------------
\* The two ways to keep the invariant.

LEMMA SameOK ==
    ASSUME NEW L, LoopOK(L), NEW M, Same(L, M)
    PROVE  LoopOK(M)
<1>1. Counted(M) = Counted(L)
  BY DEF Same, Counted, Has
<1>2. Accounted(M)
  BY <1>1 DEF LoopOK, Same, Accounted, Has
<1>3. Threaded(M)
  BY DEF LoopOK, Same, Threaded, Has
<1> QED
  BY <1>2, <1>3 DEF LoopOK, Same

LEMMA FlagStep ==
    ASSUME NEW L, LoopOK(L), NEW h \in Handles, NEW F \in SUBSET Flags,
           NEW M \in LoopType, M.flags = [L.flags EXCEPT ![h] = F],
           M.endgame = L.endgame, "ENDGAME_QUEUED" \in F <=> Has(L, h, "ENDGAME_QUEUED"),
           L.failed \subseteq M.failed,
           M.failed = {} =>
              /\ M.active_handles = L.active_handles + CountOf(F) - CountOf(L.flags[h])
              /\ "CLOSED" \in F => "CLOSING" \in F
              /\ "CLOSING" \in F => "ACTIVE" \notin F
    PROVE  LoopOK(M)
<1>1. L \in LoopType /\ L.flags \in [Handles -> SUBSET Flags] /\ L.active_handles \in Int
  BY DEF LoopOK, LoopType
<1>2. /\ M.flags[h] = F
      /\ \A g \in Handles \ {h} : M.flags[g] = L.flags[g]
  BY <1>1
<1>3. Threaded(M)
  BY <1>2 DEF LoopOK, Threaded, Has
<1>4. ASSUME M.failed = {} PROVE M.active_handles = Cardinality(Counted(M))
  <2>1. L.active_handles = Cardinality(Counted(L))
    BY <1>4 DEF LoopOK, Accounted
  <2>2. IsFiniteSet(Counted(L))
    BY HandlesAssumption, FS_Subset DEF Counted
  <2>3. Cardinality(Counted(L)) \in Nat
    BY <2>2, FS_CardinalityType
  <2>4. CASE CountOf(F) = CountOf(L.flags[h])
    <3>1. Counted(M) = Counted(L)
      BY <1>2, <2>4 DEF Counted, Has, CountOf
    <3> QED
      BY <1>1, <1>4, <2>1, <2>4, <3>1 DEF CountOf
  <2>5. CASE CountOf(F) = 1 /\ CountOf(L.flags[h]) = 0
    <3>1. Counted(M) = Counted(L) \cup {h} /\ h \notin Counted(L)
      BY <1>2, <2>5 DEF Counted, Has, CountOf
    <3>2. Cardinality(Counted(M)) = Cardinality(Counted(L)) + 1
      BY <2>2, <3>1, FS_AddElement
    <3> QED
      BY <1>1, <1>4, <2>1, <2>3, <2>5, <3>2
  <2>6. CASE CountOf(F) = 0 /\ CountOf(L.flags[h]) = 1
    <3>1. Counted(M) = Counted(L) \ {h} /\ h \in Counted(L)
      BY <1>2, <2>6 DEF Counted, Has, CountOf
    <3>2. Cardinality(Counted(L) \ {h}) = Cardinality(Counted(L)) - 1
      BY <2>2, <3>1, FS_RemoveElement, Zenon
    <3>3. Cardinality(Counted(M)) = Cardinality(Counted(L)) - 1
      BY <3>1, <3>2
    <3> QED
      BY <1>1, <1>4, <2>1, <2>3, <2>6, <3>3
  <2> QED
    BY <2>4, <2>5, <2>6 DEF CountOf
<1>5. Accounted(M)
  BY <1>2, <1>4 DEF LoopOK, Accounted, Has
<1> QED
  BY <1>3, <1>5 DEF LoopOK

-----------------------------------------------------------------------------
\* Each macro keeps it.

LEMMA CheckOK ==
    ASSUME NEW L, LoopOK(L), NEW n \in Assertions, NEW e
    PROVE  LoopOK(Check(L, n, e))
  BY CheckIs, SameOK DEF LoopOK

LEMMA SetOtherOK ==
    ASSUME NEW L, LoopOK(L), NEW h \in Handles, NEW F \in SUBSET OtherFlags
    PROVE  LoopOK(SetFlags(L, h, F))
<1> DEFINE M == SetFlags(L, h, F)
           f == L.flags[h]
           G == f \cup F
<1>1. L \in LoopType /\ f \in SUBSET Flags /\ L.active_handles \in Int /\ F \subseteq Flags
  BY DEF LoopOK, LoopType, OtherFlags
<1>2. Flagged(L, M, h, G)
  BY <1>1, SetFlagsIs
<1>3. L.active_handles = L.active_handles + CountOf(G) - CountOf(f)
  BY <1>1 DEF CountOf, OtherFlags
<1>4. /\ G \in SUBSET Flags
      /\ "ENDGAME_QUEUED" \in G <=> Has(L, h, "ENDGAME_QUEUED")
      /\ L.failed = {} => /\ "CLOSED" \in G => "CLOSING" \in G
                          /\ "CLOSING" \in G => "ACTIVE" \notin G
  BY <1>1 DEF LoopOK, Accounted, Has, OtherFlags
<1> HIDE DEF M, G
<1>5. LoopOK(M)
  BY <1>2, <1>3, <1>4, FlagStep DEF Flagged
<1> QED
  BY <1>5 DEF M

LEMMA ClearOtherOK ==
    ASSUME NEW L, LoopOK(L), NEW h \in Handles, NEW F \in SUBSET OtherFlags
    PROVE  LoopOK(Clear(L, h, F))
<1> DEFINE M == Clear(L, h, F)
           f == L.flags[h]
           G == f \ F
<1>1. L \in LoopType /\ f \in SUBSET Flags /\ L.active_handles \in Int /\ F \subseteq Flags
  BY DEF LoopOK, LoopType, OtherFlags
<1>2. Flagged(L, M, h, G)
  BY <1>1, SetFlagsIs
<1>3. L.active_handles = L.active_handles + CountOf(G) - CountOf(f)
  BY <1>1 DEF CountOf, OtherFlags
<1>4. /\ G \in SUBSET Flags
      /\ "ENDGAME_QUEUED" \in G <=> Has(L, h, "ENDGAME_QUEUED")
      /\ L.failed = {} => /\ "CLOSED" \in G => "CLOSING" \in G
                          /\ "CLOSING" \in G => "ACTIVE" \notin G
  BY <1>1 DEF LoopOK, Accounted, Has, OtherFlags
<1> HIDE DEF M, G
<1>5. LoopOK(M)
  BY <1>2, <1>3, <1>4, FlagStep DEF Flagged
<1> QED
  BY <1>5 DEF M

LEMMA HandleStartOK ==
    ASSUME NEW L, LoopOK(L), NEW h \in Handles
    PROVE  LoopOK(HandleStart(L, h))
<1> DEFINE A == Check(L, "start: not closing", ~Has(L, h, "CLOSING"))
           B == SetFlags(A, h, {"ACTIVE"})
           M == IF Has(L, h, "REF") THEN ActiveHandleAdd(B) ELSE B
           f == A.flags[h]
           G == f \cup {"ACTIVE"}
<1>1. LoopOK(A) /\ Same(L, A) /\ (A.failed = {} => ~Has(L, h, "CLOSING"))
  BY CheckOK, CheckIs DEF LoopOK, Has, Assertions
<1> HIDE DEF A
<1>2. CASE Has(L, h, "ACTIVE")
  <2>1. HandleStart(L, h) = A
    BY <1>2 DEF A, HandleStart
  <2> QED
    BY <1>1, <2>1
<1>3. CASE ~Has(L, h, "ACTIVE")
  <2>1. /\ A \in LoopType /\ f \in SUBSET Flags /\ A.active_handles \in Int /\ f = L.flags[h]
        /\ {"ACTIVE"} \in SUBSET Flags
    BY <1>1 DEF LoopOK, LoopType, Same, Flags
  <2>2. Flagged(A, B, h, G)
    BY <2>1, SetFlagsIs
  <2>3. /\ M \in LoopType /\ M.flags = [A.flags EXCEPT ![h] = G]
        /\ M.endgame = A.endgame /\ A.failed = M.failed
        /\ M.active_handles = A.active_handles + IF "REF" \in f THEN 1 ELSE 0
    BY <2>1, <2>2, ActiveHandleAddIs DEF Flagged, Has
  <2>4. /\ G \in SUBSET Flags
        /\ "ENDGAME_QUEUED" \in G <=> Has(A, h, "ENDGAME_QUEUED")
        /\ A.failed = {} => /\ "CLOSED" \in G => "CLOSING" \in G
                            /\ "CLOSING" \in G => "ACTIVE" \notin G
                            /\ M.active_handles = A.active_handles + CountOf(G) - CountOf(f)
    BY <1>1, <1>3, <2>1, <2>3 DEF LoopOK, Accounted, Has, CountOf
  <2> HIDE DEF M, G
  <2>5. LoopOK(M)
    BY <1>1, <2>3, <2>4, FlagStep
  <2> QED
    BY <1>3, <2>5 DEF M, A, HandleStart
<1> QED
  BY <1>2, <1>3

LEMMA HandleStopOK ==
    ASSUME NEW L, LoopOK(L), NEW h \in Handles
    PROVE  LoopOK(HandleStop(L, h))
<1> DEFINE A == Check(L, "stop: not closing", ~Has(L, h, "CLOSING"))
           B == Clear(A, h, {"ACTIVE"})
           M == IF Has(L, h, "REF") THEN ActiveHandleRm(B) ELSE B
           f == A.flags[h]
           G == f \ {"ACTIVE"}
<1>1. LoopOK(A) /\ Same(L, A) /\ (A.failed = {} => ~Has(L, h, "CLOSING"))
  BY CheckOK, CheckIs DEF LoopOK, Has, Assertions
<1> HIDE DEF A
<1>2. CASE ~Has(L, h, "ACTIVE")
  BY <1>1, <1>2 DEF A, HandleStop
<1>3. CASE Has(L, h, "ACTIVE")
  <2>1. /\ A \in LoopType /\ f \in SUBSET Flags /\ A.active_handles \in Int /\ f = L.flags[h]
        /\ {"ACTIVE"} \in SUBSET Flags
    BY <1>1 DEF LoopOK, LoopType, Same, Flags
  <2>2. Flagged(A, B, h, G)
    BY <2>1, SetFlagsIs
  <2>3. /\ M \in LoopType /\ M.flags = [A.flags EXCEPT ![h] = G]
        /\ M.endgame = A.endgame /\ A.failed = M.failed
        /\ M.active_handles = A.active_handles - IF "REF" \in f THEN 1 ELSE 0
    BY <2>1, <2>2, ActiveHandleRmIs DEF Flagged, Has
  <2>4. /\ G \in SUBSET Flags
        /\ "ENDGAME_QUEUED" \in G <=> Has(A, h, "ENDGAME_QUEUED")
        /\ A.failed = {} => /\ "CLOSED" \in G => "CLOSING" \in G
                            /\ "CLOSING" \in G => "ACTIVE" \notin G
                            /\ M.active_handles = A.active_handles + CountOf(G) - CountOf(f)
    BY <1>1, <1>3, <2>1, <2>3 DEF LoopOK, Accounted, Has, CountOf
  <2> HIDE DEF M, G
  <2>5. LoopOK(M)
    BY <1>1, <2>3, <2>4, FlagStep
  <2> QED
    BY <1>3, <2>5 DEF M, A, HandleStop
<1> QED
  BY <1>2, <1>3

LEMMA HandleRefOK ==
    ASSUME NEW L, LoopOK(L), NEW h \in Handles
    PROVE  LoopOK(HandleRef(L, h))
<1> DEFINE A == SetFlags(L, h, {"REF"})
           counts == ~Has(L, h, "CLOSING") /\ Has(L, h, "ACTIVE")
           M == IF counts THEN ActiveHandleAdd(A) ELSE A
           f == L.flags[h]
           G == f \cup {"REF"}
<1>1. /\ L \in LoopType /\ f \in SUBSET Flags /\ L.active_handles \in Int
      /\ {"REF"} \in SUBSET Flags
  BY DEF LoopOK, LoopType, Flags
<1>2. CASE Has(L, h, "REF")
  BY <1>2 DEF HandleRef
<1>3. CASE ~Has(L, h, "REF")
  <2>1. Flagged(L, A, h, G)
    BY <1>1, SetFlagsIs
  <2>2. /\ M \in LoopType /\ M.flags = [L.flags EXCEPT ![h] = G]
        /\ M.endgame = L.endgame /\ L.failed = M.failed
        /\ M.active_handles = L.active_handles + IF counts THEN 1 ELSE 0
    BY <1>1, <2>1, ActiveHandleAddIs DEF Flagged
  <2>3. /\ G \in SUBSET Flags
        /\ "ENDGAME_QUEUED" \in G <=> Has(L, h, "ENDGAME_QUEUED")
        /\ L.failed = {} => /\ "CLOSED" \in G => "CLOSING" \in G
                            /\ "CLOSING" \in G => "ACTIVE" \notin G
                            /\ M.active_handles = L.active_handles + CountOf(G) - CountOf(f)
    BY <1>1, <1>3, <2>2 DEF LoopOK, Accounted, Has, CountOf
  <2> HIDE DEF M, G
  <2>4. LoopOK(M)
    BY <2>2, <2>3, FlagStep
  <2> QED
    BY <1>3, <2>4 DEF M, HandleRef
<1> QED
  BY <1>2, <1>3

LEMMA HandleUnrefOK ==
    ASSUME NEW L, LoopOK(L), NEW h \in Handles
    PROVE  LoopOK(HandleUnref(L, h))
<1> DEFINE A == Clear(L, h, {"REF"})
           counts == ~Has(L, h, "CLOSING") /\ Has(L, h, "ACTIVE")
           M == IF counts THEN ActiveHandleRm(A) ELSE A
           f == L.flags[h]
           G == f \ {"REF"}
<1>1. /\ L \in LoopType /\ f \in SUBSET Flags /\ L.active_handles \in Int
      /\ {"REF"} \in SUBSET Flags
  BY DEF LoopOK, LoopType, Flags
<1>2. CASE ~Has(L, h, "REF")
  BY <1>2 DEF HandleUnref
<1>3. CASE Has(L, h, "REF")
  <2>1. Flagged(L, A, h, G)
    BY <1>1, SetFlagsIs
  <2>2. /\ M \in LoopType /\ M.flags = [L.flags EXCEPT ![h] = G]
        /\ M.endgame = L.endgame /\ L.failed = M.failed
        /\ M.active_handles = L.active_handles - IF counts THEN 1 ELSE 0
    BY <1>1, <2>1, ActiveHandleRmIs DEF Flagged
  <2>3. /\ G \in SUBSET Flags
        /\ "ENDGAME_QUEUED" \in G <=> Has(L, h, "ENDGAME_QUEUED")
        /\ L.failed = {} => /\ "CLOSED" \in G => "CLOSING" \in G
                            /\ "CLOSING" \in G => "ACTIVE" \notin G
                            /\ M.active_handles = L.active_handles + CountOf(G) - CountOf(f)
    BY <1>1, <1>3, <2>2 DEF LoopOK, Accounted, Has, CountOf
  <2> HIDE DEF M, G
  <2>4. LoopOK(M)
    BY <2>2, <2>3, FlagStep
  <2> QED
    BY <1>3, <2>4 DEF M, HandleUnref
<1> QED
  BY <1>2, <1>3

\* uv__handle_closing counts a handle that was not counted, and closing keeps it so.
LEMMA HandleClosingOK ==
    ASSUME NEW L, LoopOK(L), NEW h \in Handles
    PROVE  LoopOK(HandleClosing(L, h))
<1> DEFINE A == Check(L, "closing: not closing", ~Has(L, h, "CLOSING"))
           counted == Has(L, h, "ACTIVE") /\ Has(L, h, "REF")
           B == IF counted THEN A ELSE ActiveHandleAdd(A)
           C == SetFlags(B, h, {"CLOSING"})
           M == Clear(C, h, {"ACTIVE"})
           f == A.flags[h]
           G == (f \cup {"CLOSING"}) \ {"ACTIVE"}
<1>1. LoopOK(A) /\ Same(L, A) /\ (A.failed = {} => ~Has(L, h, "CLOSING"))
  BY CheckOK, CheckIs DEF LoopOK, Has, Assertions
<1> HIDE DEF A
<1>2. /\ A \in LoopType /\ f \in SUBSET Flags /\ A.active_handles \in Int /\ f = L.flags[h]
      /\ {"ACTIVE"} \in SUBSET Flags /\ {"CLOSING"} \in SUBSET Flags
      /\ A.flags \in [Handles -> SUBSET Flags]
  BY <1>1 DEF LoopOK, LoopType, Same, Flags
<1>3. /\ B \in LoopType /\ B.flags = A.flags /\ B.endgame = A.endgame /\ B.failed = A.failed
      /\ B.active_handles = A.active_handles + IF {"ACTIVE", "REF"} \subseteq f THEN 0 ELSE 1
  BY <1>2, ActiveHandleAddIs DEF Has
<1> HIDE DEF B
<1>4. Flagged(B, C, h, f \cup {"CLOSING"})
  BY <1>2, <1>3, SetFlagsIs
<1> HIDE DEF C
<1>5. Flagged(C, M, h, G)
  <2>1. C \in LoopType /\ C.flags[h] \ {"ACTIVE"} = G
    BY <1>2, <1>3, <1>4 DEF Flagged
  <2> QED
    BY <1>2, <2>1, SetFlagsIs
<1>6. /\ M \in LoopType /\ M.flags = [A.flags EXCEPT ![h] = G]
      /\ M.endgame = A.endgame /\ M.failed = A.failed
      /\ M.active_handles = B.active_handles
  <2>1. M.flags = [[A.flags EXCEPT ![h] = f \cup {"CLOSING"}] EXCEPT ![h] = G]
    BY <1>3, <1>4, <1>5 DEF Flagged
  <2>2. M.flags = [A.flags EXCEPT ![h] = G]
    BY <1>2, <2>1
  <2> QED
    BY <1>3, <1>4, <1>5, <2>2 DEF Flagged
<1>7. /\ G \in SUBSET Flags
      /\ "ENDGAME_QUEUED" \in G <=> Has(A, h, "ENDGAME_QUEUED")
      /\ A.failed = {} => /\ "CLOSED" \in G => "CLOSING" \in G
                          /\ "CLOSING" \in G => "ACTIVE" \notin G
                          /\ M.active_handles = A.active_handles + CountOf(G) - CountOf(f)
  BY <1>1, <1>2, <1>3, <1>6 DEF LoopOK, Accounted, Has, CountOf
<1> HIDE DEF M, G
<1>8. LoopOK(M)
  BY <1>1, <1>6, <1>7, FlagStep
<1> QED
  BY <1>8 DEF M, C, B, A, HandleClosing

LEMMA HandleCloseOK ==
    ASSUME NEW L, LoopOK(L), NEW h \in Handles,
           L.failed = {} => Has(L, h, "CLOSING") /\ ~Has(L, h, "CLOSED")
    PROVE  LoopOK(HandleClose(L, h))
<1> DEFINE A == [L EXCEPT !.handle_queue = @ \ {h}]
           B == ActiveHandleRm(A)
           M == SetFlags(B, h, {"CLOSED"})
           f == L.flags[h]
           G == f \cup {"CLOSED"}
<1>1. /\ L \in LoopType /\ f \in SUBSET Flags /\ L.active_handles \in Int
      /\ {"CLOSED"} \in SUBSET Flags
  BY DEF LoopOK, LoopType, Flags
<1>2. /\ A \in LoopType /\ A.flags = L.flags /\ A.endgame = L.endgame
      /\ A.failed = L.failed /\ A.active_handles = L.active_handles
  BY <1>1 DEF LoopType
<1> HIDE DEF A
<1>3. /\ B \in LoopType /\ B.flags = L.flags /\ B.endgame = L.endgame
      /\ B.failed = L.failed /\ B.active_handles = L.active_handles - 1
  BY <1>2, ActiveHandleRmIs
<1> HIDE DEF B
<1>4. Flagged(B, M, h, G)
  BY <1>1, <1>3, SetFlagsIs
<1>5. /\ G \in SUBSET Flags
      /\ "ENDGAME_QUEUED" \in G <=> Has(L, h, "ENDGAME_QUEUED")
      /\ L.failed = {} => /\ "CLOSED" \in G => "CLOSING" \in G
                          /\ "CLOSING" \in G => "ACTIVE" \notin G
                          /\ M.active_handles = L.active_handles + CountOf(G) - CountOf(f)
  BY <1>1, <1>3, <1>4 DEF LoopOK, Accounted, Has, CountOf, Flagged
<1> HIDE DEF M, G
<1>6. LoopOK(M)
  BY <1>3, <1>4, <1>5, FlagStep DEF Flagged
<1> QED
  BY <1>6 DEF M, B, A, HandleClose

LEMMA IncreaseActiveCountOK ==
    ASSUME NEW L, LoopOK(L), NEW h \in Handles
    PROVE  LoopOK(IncreaseActiveCount(L, h))
<1> DEFINE A == [L EXCEPT !.activecnt[h] = @ + 1]
           B == IF L.activecnt[h] = 0 THEN HandleStart(A, h) ELSE A
<1>1. L \in LoopType /\ L.activecnt[h] + 1 \in Int
  BY DEF LoopOK, LoopType
<1>2. Same(L, A)
  BY <1>1 DEF LoopType, Same
<1>3. LoopOK(A)
  BY <1>2, SameOK
<1> HIDE DEF A
<1>4. LoopOK(B)
  BY <1>3, HandleStartOK
<1> HIDE DEF B
<1>5. LoopOK(Check(B, "activecnt > 0", B.activecnt[h] > 0))
  BY <1>4, CheckOK DEF Assertions
<1> QED
  BY <1>5 DEF A, B, IncreaseActiveCount

LEMMA DecreaseActiveCountOK ==
    ASSUME NEW L, LoopOK(L), NEW h \in Handles
    PROVE  LoopOK(DecreaseActiveCount(L, h))
<1> DEFINE A == [L EXCEPT !.activecnt[h] = @ - 1]
           B == IF A.activecnt[h] = 0 /\ ~Has(L, h, "CLOSING") THEN HandleStop(A, h) ELSE A
<1>1. L \in LoopType /\ L.activecnt[h] - 1 \in Int
  BY DEF LoopOK, LoopType
<1>2. Same(L, A)
  BY <1>1 DEF LoopType, Same
<1>3. LoopOK(A)
  BY <1>2, SameOK
<1> HIDE DEF A
<1>4. LoopOK(B)
  BY <1>3, HandleStopOK
<1> HIDE DEF B
<1>5. LoopOK(Check(B, "activecnt >= 0", B.activecnt[h] >= 0))
  BY <1>4, CheckOK DEF Assertions
<1> QED
  BY <1>5 DEF A, B, DecreaseActiveCount

\* uv_want_endgame puts a handle on the list at most once.
LEMMA WantEndgameOK ==
    ASSUME NEW L, LoopOK(L), NEW h \in Handles
    PROVE  LoopOK(WantEndgame(L, h))
<1> DEFINE A == SetFlags(L, h, {"ENDGAME_QUEUED"})
           M == [A EXCEPT !.endgame = <<h>> \o @]
           f == L.flags[h]
           G == f \cup {"ENDGAME_QUEUED"}
<1>1. /\ L \in LoopType /\ L.flags \in [Handles -> SUBSET Flags] /\ L.endgame \in Seq(Handles)
      /\ L.active_handles \in Int /\ {"ENDGAME_QUEUED"} \in SUBSET Flags
  BY DEF LoopOK, LoopType, Flags
<1>2. CASE Has(L, h, "ENDGAME_QUEUED")
  BY <1>2 DEF WantEndgame
<1>3. CASE ~Has(L, h, "ENDGAME_QUEUED")
  <2>1. Flagged(L, A, h, G)
    BY <1>1, SetFlagsIs
  <2>2. <<h>> \o A.endgame \in Seq(Handles)
    BY <1>1, <2>1 DEF Flagged
  <2>3. /\ M \in LoopType /\ M.flags = [L.flags EXCEPT ![h] = G] /\ M.endgame = <<h>> \o L.endgame
        /\ M.failed = L.failed /\ M.active_handles = L.active_handles
    BY <2>1, <2>2 DEF Flagged, LoopType
  <2> HIDE DEF M
  <2>4. Accounted(M)
    <3>1. \A g \in Handles, x \in Flags \ {"ENDGAME_QUEUED"} : Has(M, g, x) <=> Has(L, g, x)
      BY <1>1, <2>3 DEF Has
    <3>2. Counted(M) = Counted(L)
      BY <3>1 DEF Counted, Has, Flags
    <3> QED
      BY <2>3, <3>1, <3>2 DEF LoopOK, Accounted, Flags
  <2>5. Threaded(M)
    <3>1. \A i \in DOMAIN L.endgame : L.endgame[i] # h
      BY <1>1, <1>3 DEF LoopOK, Threaded
    <3>2. /\ DOMAIN M.endgame = 1..(Len(L.endgame) + 1)
          /\ M.endgame[1] = h
          /\ \A i \in 2..(Len(L.endgame) + 1) : M.endgame[i] = L.endgame[i - 1]
      BY <1>1, <2>3
    <3>3. \A g \in Handles : Has(M, g, "ENDGAME_QUEUED") <=> g = h \/ Has(L, g, "ENDGAME_QUEUED")
      BY <1>1, <2>3 DEF Has
    <3>4. ASSUME NEW g \in Handles
          PROVE  (\E i \in DOMAIN M.endgame : M.endgame[i] = g)
                     <=> g = h \/ \E i \in DOMAIN L.endgame : L.endgame[i] = g
      <4>1. ASSUME NEW i \in DOMAIN L.endgame, L.endgame[i] = g
            PROVE  \E j \in DOMAIN M.endgame : M.endgame[j] = g
        <5>1. i + 1 \in 2..(Len(L.endgame) + 1) /\ (i + 1) - 1 = i
          BY <1>1
        <5>2. M.endgame[i + 1] = L.endgame[(i + 1) - 1]
          BY <3>2, <5>1
        <5>3. i + 1 \in DOMAIN M.endgame
          BY <1>1, <3>2, <5>1
        <5> QED
          BY <4>1, <5>1, <5>2, <5>3
      <4>2. ASSUME NEW i \in DOMAIN M.endgame, M.endgame[i] = g, g # h
            PROVE  \E j \in DOMAIN L.endgame : L.endgame[j] = g
        <5>1. i \in 2..(Len(L.endgame) + 1) /\ i - 1 \in DOMAIN L.endgame
          BY <1>1, <3>2, <4>2
        <5> QED
          BY <3>2, <4>2, <5>1
      <4>3. 1 \in DOMAIN M.endgame
        BY <1>1, <3>2
      <4> QED
        BY <3>2, <4>1, <4>2, <4>3
    <3>5. ASSUME NEW i \in DOMAIN M.endgame, NEW j \in DOMAIN M.endgame,
                 M.endgame[i] = M.endgame[j]
          PROVE  i = j
      <4>1. ASSUME NEW k \in DOMAIN M.endgame, k # 1
            PROVE  /\ k - 1 \in DOMAIN L.endgame
                   /\ M.endgame[k] = L.endgame[k - 1] /\ M.endgame[k] # h
        BY <1>1, <3>1, <3>2, <4>1
      <4>2. CASE i = 1 \/ j = 1
        BY <3>2, <3>5, <4>1, <4>2
      <4>3. CASE i # 1 /\ j # 1
        <5>1. /\ i - 1 \in DOMAIN L.endgame /\ j - 1 \in DOMAIN L.endgame
              /\ L.endgame[i - 1] = L.endgame[j - 1]
          BY <3>5, <4>1, <4>3
        <5>2. \A k, l \in DOMAIN L.endgame : L.endgame[k] = L.endgame[l] => k = l
          BY DEF LoopOK, Threaded
        <5>3. i - 1 = j - 1
          BY <5>1, <5>2
        <5> QED
          BY <1>1, <3>2, <5>3
      <4> QED
        BY <4>2, <4>3
    <3> QED
      BY <3>3, <3>4, <3>5 DEF LoopOK, Threaded
  <2> QED
    BY <1>3, <2>3, <2>4, <2>5 DEF LoopOK, M, WantEndgame
<1> QED
  BY <1>2, <1>3

LEMMA PopEndgameOK ==
    ASSUME NEW L, LoopOK(L), L.endgame # << >>
    PROVE  LoopOK(PopEndgame(L))
<1> DEFINE h == Head(L.endgame)
           A == Clear(L, h, {"ENDGAME_QUEUED"})
           M == [A EXCEPT !.endgame = Tail(@)]
           f == L.flags[h]
           G == f \ {"ENDGAME_QUEUED"}
<1>1. /\ L \in LoopType /\ L.flags \in [Handles -> SUBSET Flags] /\ L.endgame \in Seq(Handles)
      /\ L.active_handles \in Int /\ {"ENDGAME_QUEUED"} \in SUBSET Flags
  BY DEF LoopOK, LoopType, Flags
<1>2. /\ h \in Handles /\ Tail(L.endgame) \in Seq(Handles)
      /\ h = L.endgame[1] /\ 1 \in DOMAIN L.endgame
      /\ DOMAIN Tail(L.endgame) = 1..(Len(L.endgame) - 1)
      /\ DOMAIN L.endgame = 1..Len(L.endgame)
      /\ \A i \in 1..(Len(L.endgame) - 1) : Tail(L.endgame)[i] = L.endgame[i + 1]
  BY <1>1
<1> HIDE DEF h
<1>3. Flagged(L, A, h, G)
  BY <1>1, <1>2, SetFlagsIs
<1>4. /\ M \in LoopType /\ M.flags = [L.flags EXCEPT ![h] = G] /\ M.endgame = Tail(L.endgame)
      /\ M.failed = L.failed /\ M.active_handles = L.active_handles
  BY <1>2, <1>3 DEF Flagged, LoopType
<1> HIDE DEF M
<1>5. Accounted(M)
  <2>1. \A g \in Handles, x \in Flags \ {"ENDGAME_QUEUED"} : Has(M, g, x) <=> Has(L, g, x)
    BY <1>1, <1>2, <1>4 DEF Has
  <2>2. Counted(M) = Counted(L)
    BY <2>1 DEF Counted, Has, Flags
  <2> QED
    BY <1>4, <2>1, <2>2 DEF LoopOK, Accounted, Flags
<1>6. Threaded(M)
  <2>1. \A g \in Handles : Has(M, g, "ENDGAME_QUEUED") <=> g # h /\ Has(L, g, "ENDGAME_QUEUED")
    BY <1>1, <1>2, <1>4 DEF Has
  <2>2. \A i \in DOMAIN M.endgame : /\ i + 1 \in DOMAIN L.endgame /\ i + 1 # 1
                                    /\ M.endgame[i] = L.endgame[i + 1] /\ i \in Int
    BY <1>1, <1>2, <1>4
  <2>3. ASSUME NEW i \in DOMAIN M.endgame PROVE M.endgame[i] # h
    BY <1>2, <2>2 DEF LoopOK, Threaded
  <2>4. ASSUME NEW g \in Handles, g # h, NEW i \in DOMAIN L.endgame, L.endgame[i] = g
        PROVE  \E j \in DOMAIN M.endgame : M.endgame[j] = g
    <3>1. i # 1
      BY <1>2, <2>4
    <3>2. i - 1 \in DOMAIN M.endgame /\ (i - 1) + 1 = i
      BY <1>1, <1>2, <1>4, <3>1
    <3> QED
      BY <2>2, <2>4, <3>2
  <2>5. ASSUME NEW i \in DOMAIN M.endgame, NEW j \in DOMAIN M.endgame,
               M.endgame[i] = M.endgame[j]
        PROVE  i = j
    <3>1. i + 1 = j + 1
      BY <2>2, <2>5 DEF LoopOK, Threaded
    <3> QED
      BY <2>2, <3>1
  <2> QED
    BY <2>1, <2>2, <2>3, <2>4, <2>5 DEF LoopOK, Threaded
<1> QED
  BY <1>4, <1>5, <1>6 DEF LoopOK, M, h, PopEndgame

LEMMA PendingReqCountIs ==
    ASSUME NEW L \in LoopType, NEW h \in Handles, NEW n \in Int
    PROVE  Same(L, [L EXCEPT !.reqs_pending[h] = @ + n])
<1>1. L.reqs_pending[h] + n \in Int
  BY DEF LoopType
<1> QED
  BY <1>1 DEF LoopType, Same

LEMMA IncreasePendingReqCountOK ==
    ASSUME NEW L, LoopOK(L), NEW h \in Handles, NEW n \in Int
    PROVE  LoopOK(IncreasePendingReqCount(L, h, n))
<1>1. Same(L, IncreasePendingReqCount(L, h, n))
  BY PendingReqCountIs DEF LoopOK, IncreasePendingReqCount
<1> QED
  BY <1>1, SameOK

LEMMA DecreasePendingReqCountOK ==
    ASSUME NEW L, LoopOK(L), NEW h \in Handles
    PROVE  LoopOK(DecreasePendingReqCount(L, h))
<1> DEFINE A == Check(L, "reqs_pending > 0", L.reqs_pending[h] > 0)
           B == [A EXCEPT !.reqs_pending[h] = @ - 1]
<1>1. LoopOK(A)
  BY CheckOK DEF Assertions
<1> HIDE DEF A
<1>2. A \in LoopType /\ A.reqs_pending[h] - 1 \in Int
  <2>1. A \in LoopType
    BY <1>1 DEF LoopOK
  <2>2. A.reqs_pending \in [Handles -> Int]
    BY <2>1 DEF LoopType
  <2>3. A.reqs_pending[h] \in Int
    BY <2>2
  <2> QED
    BY <2>1, <2>3
<1>3. Same(A, B)
  BY <1>2 DEF LoopType, Same
<1>4. LoopOK(B)
  BY <1>1, <1>3, SameOK
<1> HIDE DEF B
<1>5. LoopOK(WantEndgame(B, h))
  BY <1>4, WantEndgameOK
<1> QED
  BY <1>4, <1>5 DEF A, B, DecreasePendingReqCount

LEMMA HandleInitOK ==
    ASSUME NEW L, LoopOK(L), NEW h \in Handles, L.flags[h] = {}
    PROVE  LoopOK(HandleInit(L, h))
<1> DEFINE M == HandleInit(L, h)
           G == {"REF"}
<1>1. L \in LoopType /\ L.active_handles \in Int /\ G \in SUBSET Flags
  BY DEF LoopOK, LoopType, Flags
<1>2. /\ M \in LoopType /\ M.flags = [L.flags EXCEPT ![h] = G]
      /\ M.endgame = L.endgame /\ M.failed = L.failed
      /\ M.active_handles = L.active_handles
  BY <1>1 DEF LoopType, HandleInit
<1>3. /\ "ENDGAME_QUEUED" \in G <=> Has(L, h, "ENDGAME_QUEUED")
      /\ "CLOSED" \in G => "CLOSING" \in G
      /\ "CLOSING" \in G => "ACTIVE" \notin G
      /\ M.active_handles = L.active_handles + CountOf(G) - CountOf(L.flags[h])
  BY <1>1, <1>2 DEF Has, CountOf
<1> HIDE DEF M, G
<1>4. LoopOK(M)
  BY <1>1, <1>2, <1>3, FlagStep
<1> QED
  BY <1>4 DEF M

LEMMA ReqRegisterOK ==
    ASSUME NEW L, LoopOK(L), NEW r \in ClientReqs
    PROVE  LoopOK(ReqRegister(L, r))
<1>1. Same(L, ReqRegister(L, r))
  BY DEF LoopOK, LoopType, Same, ReqRegister
<1> QED
  BY <1>1, SameOK

LEMMA ReqUnregisterOK ==
    ASSUME NEW L, LoopOK(L), NEW r \in ClientReqs
    PROVE  LoopOK(ReqUnregister(L, r))
<1> DEFINE A == Check(L, "unregister: has active reqs", L.active_reqs # {})
           M == [A EXCEPT !.active_reqs = @ \ {r}]
<1>1. LoopOK(A)
  BY CheckOK DEF Assertions
<1> HIDE DEF A
<1>2. Same(A, M)
  BY <1>1 DEF LoopOK, LoopType, Same
<1> QED
  BY <1>1, <1>2, SameOK DEF A, ReqUnregister

LEMMA HandleReqOK ==
    ASSUME NEW L, LoopOK(L), NEW h \in Handles, NEW r \in ClientReqs
    PROVE  LoopOK(RegisterHandleReq(L, h, r)) /\ LoopOK(UnregisterHandleReq(L, h, r))
  BY IncreaseActiveCountOK, DecreaseActiveCountOK, ReqRegisterOK, ReqUnregisterOK
     DEF RegisterHandleReq, UnregisterHandleReq

LEMMA InsertPendingReqOK ==
    ASSUME NEW L, LoopOK(L), NEW r \in IoReqs, NEW ok \in BOOLEAN
    PROVE  LoopOK(InsertPendingReq(L, r, ok))
<1> DEFINE e == \A i \in DOMAIN L.pending : L.pending[i].req # r
           A == Check(L, "pending: not queued", e)
           M == [A EXCEPT !.pending = Append(@, Packet(r, ok))]
<1> HIDE DEF e
<1>1. LoopOK(A)
  BY CheckOK DEF Assertions
<1> HIDE DEF A
<1>2. Append(A.pending, Packet(r, ok)) \in Seq(Packets)
  BY <1>1 DEF LoopOK, LoopType, Packet, Packets
<1>3. Same(A, M)
  BY <1>1, <1>2 DEF LoopOK, LoopType, Same
<1> QED
  BY <1>1, <1>3, SameOK DEF e, A, InsertPendingReq

-----------------------------------------------------------------------------
\* Each function of the library keeps it.

LEMMA TcpInitOK ==
    ASSUME NEW L, LoopOK(L), NEW h \in Handles, L.flags[h] = {}
    PROVE  LoopOK(TcpInit(L, h))
<1> DEFINE A == HandleInit(L, h)
<1>1. LoopOK(A)
  BY HandleInitOK
<1> HIDE DEF A
<1> DEFINE M == [A EXCEPT !.activecnt[h] = 0, !.reqs_pending[h] = 0]
<1>2. A \in LoopType /\ 0 \in Int
  BY <1>1 DEF LoopOK
<1>3. Same(A, M)
  <2>1. /\ M.flags = A.flags /\ M.active_handles = A.active_handles
        /\ M.endgame = A.endgame /\ M.failed = A.failed
    BY <1>2 DEF LoopType
  <2>2. M \in LoopType
    BY <1>2 DEF LoopType
  <2> QED
    BY <2>1, <2>2 DEF Same
<1>4. LoopOK(M)
  BY <1>1, <1>3, SameOK
<1> QED
  BY <1>4 DEF A, TcpInit

LEMMA QueueAcceptsOK ==
    ASSUME NEW L, LoopOK(L), NEW s \in Servers, NEW R, R \subseteq AcceptReqs, IsFiniteSet(R),
           NEW how \in [R -> Answers], NEW soon \in Seq(R)
    PROVE  LoopOK(QueueAccepts(L, s, how, soon))
<1> DEFINE none == DOMAIN how \cap L.accept_socket = {}
           A == Check(L, "queue_accept: listening", Has(L, s, "LISTENING"))
           B == Check(A, "queue_accept: no socket", none)
           P == [i \in DOMAIN soon |-> Packet(soon[i], how[soon[i]] = "bypass")]
           M == [B EXCEPT
                   !.accept_socket   = @ \cup {r \in DOMAIN how : how[r] # "failed"},
                   !.kernel          = @ \cup {r \in DOMAIN how : how[r] = "queued"},
                   !.pending         = @ \o P,
                   !.reqs_pending[s] = @ + Cardinality(DOMAIN how)]
<1> HIDE DEF none
<1>1. LoopOK(A)
  BY CheckOK DEF Assertions
<1> HIDE DEF A
<1>2. LoopOK(B)
  BY <1>1, CheckOK DEF Assertions
<1> HIDE DEF B
<1>3. s \in Handles /\ DOMAIN how = R /\ R \subseteq IoReqs
  BY DEF Handles, IoReqs
<1>4. Cardinality(R) \in Nat
  BY FS_CardinalityType
<1>5. P \in Seq(Packets)
  <2>1. \A i \in 1..Len(soon) : P[i] \in Packets
    BY <1>3 DEF Packet, Packets
  <2>2. DOMAIN P = 1..Len(soon) /\ Len(soon) \in Nat
    OBVIOUS
  <2> HIDE DEF P
  <2>3. P = [i \in 1..Len(soon) |-> P[i]]
    BY <2>2 DEF P
  <2> QED
    BY <2>1, <2>2, <2>3
<1> HIDE DEF P
<1>6. /\ B \in LoopType /\ B.pending \o P \in Seq(Packets)
      /\ B.reqs_pending[s] + Cardinality(R) \in Int
  <2>1. /\ B \in LoopType /\ B.pending \in Seq(Packets)
        /\ B.reqs_pending \in [Handles -> Int]
    BY <1>2 DEF LoopOK, LoopType
  <2>2. B.pending \o P \in Seq(Packets)
    BY <1>5, <2>1
  <2>3. B.reqs_pending[s] + Cardinality(R) \in Int
    BY <1>3, <1>4, <2>1
  <2> QED
    BY <2>1, <2>2, <2>3
<1>7. Same(B, M)
  BY <1>3, <1>6 DEF LoopType, Same
<1> QED
  BY <1>2, <1>7, SameOK DEF none, A, B, P, QueueAccepts

LEMMA QueueAcceptOK ==
    ASSUME NEW L, LoopOK(L), NEW r \in AcceptReqs, NEW how \in Answers
    PROVE  LoopOK(QueueAccept(L, r, how))
<1> DEFINE w == [x \in {r} |-> how]
           soon == IF how = "queued" THEN << >> ELSE <<r>>
<1>1. w \in [{r} -> Answers] /\ r.handle \in Servers /\ {r} \subseteq AcceptReqs
  BY DEF AcceptReqs
<1>2. IsFiniteSet({r})
  BY FS_Singleton
<1>3. soon \in Seq({r})
  <2>1. << >> \in Seq({r}) /\ <<r>> \in Seq({r})
    OBVIOUS
  <2> QED
    BY <2>1
<1> HIDE DEF w, soon
<1>4. LoopOK(QueueAccepts(L, r.handle, w, soon))
  BY <1>1, <1>2, <1>3, QueueAcceptsOK
<1> QED
  BY <1>4 DEF w, soon, QueueAccept

LEMMA AcceptReqsOfIsFinite ==
    ASSUME NEW s \in Servers
    PROVE  AcceptReqsOf(s) \subseteq AcceptReqs /\ IsFiniteSet(AcceptReqsOf(s))
<1> DEFINE f == [r \in AcceptReqsOf(s) |-> r.id]
<1>1. IsFiniteSet(1..NAccepts)
  BY CountsAssumption, FS_Interval
<1>2. f \in Injection(AcceptReqsOf(s), 1..NAccepts)
  <2>1. \A a, b \in AcceptReqsOf(s) : a.id = b.id => a = b
    BY DEF AcceptReqsOf, AcceptReqs
  <2>2. f \in [AcceptReqsOf(s) -> 1..NAccepts]
    BY DEF AcceptReqsOf, AcceptReqs
  <2>3. \A a, b \in DOMAIN f : f[a] = f[b] => a = b
    BY <2>1
  <2> HIDE DEF f
  <2> QED
    BY <2>2, <2>3 DEF Injection, IsInjective
<1>3. IsFiniteSet(AcceptReqsOf(s))
  BY <1>1, <1>2, FS_Injection
<1> QED
  BY <1>3 DEF AcceptReqsOf

LEMMA TcpListenOK ==
    ASSUME NEW L, LoopOK(L), NEW s \in Servers, NEW how \in [AcceptReqsOf(s) -> Answers],
           NEW soon \in InOrder({r \in AcceptReqsOf(s) : how[r] # "queued"})
    PROVE  LoopOK(TcpListen(L, s, how, soon))
<1> DEFINE A == SetFlags(L, s, {"LISTENING"})
           B == IncreaseActiveCount(A, s)
           R == {r \in AcceptReqsOf(s) : how[r] # "queued"}
<1>1. s \in Handles /\ {"LISTENING"} \in SUBSET OtherFlags
  BY DEF Handles, OtherFlags, Flags
<1>2. LoopOK(A)
  BY <1>1, SetOtherOK
<1> HIDE DEF A
<1>3. LoopOK(B)
  BY <1>1, <1>2, IncreaseActiveCountOK
<1> HIDE DEF B
<1>4. soon \in Seq(AcceptReqsOf(s))
  <2>1. IsFiniteSet(R)
    BY AcceptReqsOfIsFinite, FS_Subset
  <2>2. Cardinality(R) \in Nat
    BY <2>1, FS_CardinalityType
  <2> DEFINE n == Cardinality(R)
  <2>3. soon \in [1..n -> R]
    BY DEF InOrder
  <2> HIDE DEF n
  <2>4. n \in Nat
    BY <2>2 DEF n
  <2> QED
    BY <2>3, <2>4
<1>5. LoopOK(QueueAccepts(B, s, how, soon))
  BY <1>3, <1>4, AcceptReqsOfIsFinite, QueueAcceptsOK
<1> QED
  BY <1>5 DEF A, B, TcpListen

LEMMA TcpAcceptOK ==
    ASSUME NEW L, LoopOK(L), NEW s \in Servers, NEW c \in Conns, L.pending_accepts[s] # << >>,
           NEW sockOk \in BOOLEAN, NEW how \in Answers
    PROVE  LoopOK(TcpAccept(L, s, c, sockOk, how))
<1> DEFINE r == Head(L.pending_accepts[s])
           F == {"CONNECTION", "READABLE", "WRITABLE"}
           S == SetFlags(L, c, F)
           T == [S EXCEPT !.write_reqs_pending[c] = 0, !.shutdown_req = @ \ {c}]
           A == IF ~sockOk THEN L ELSE T
           B == [A EXCEPT !.pending_accepts[s] = Tail(@), !.accept_socket = @ \ {r}]
<1>1. s \in Handles /\ c \in Handles /\ F \in SUBSET OtherFlags
  BY DEF Handles, OtherFlags, Flags
<1>2. r \in AcceptReqs
  BY <1>1 DEF LoopOK, LoopType
<1>3. LoopOK(S) /\ S.pending_accepts = L.pending_accepts
  BY <1>1, SetOtherOK DEF SetFlags, LoopOK, LoopType
<1> HIDE DEF S, r, F
<1>4. Same(S, T)
  <2>1. S \in LoopType /\ 0 \in Int
    BY <1>3 DEF LoopOK
  <2>2. /\ T.flags = S.flags /\ T.active_handles = S.active_handles
        /\ T.endgame = S.endgame /\ T.failed = S.failed
    BY <2>1 DEF LoopType
  <2>3. T \in LoopType
    BY <2>1 DEF LoopType
  <2> QED
    BY <2>2, <2>3 DEF Same
<1>5. LoopOK(T) /\ T.pending_accepts = S.pending_accepts
  BY <1>3, <1>4, SameOK DEF LoopOK, LoopType
<1> HIDE DEF T
<1>6. LoopOK(A) /\ A.pending_accepts[s] # << >>
  BY <1>3, <1>5
<1> HIDE DEF A
<1>7. Same(A, B)
  <2>1. A \in LoopType /\ A.pending_accepts \in [Handles -> Seq(AcceptReqs)]
    BY <1>6 DEF LoopOK, LoopType
  <2>2. Tail(A.pending_accepts[s]) \in Seq(AcceptReqs)
    BY <1>1, <1>6, <2>1
  <2>3. /\ B.flags = A.flags /\ B.active_handles = A.active_handles
        /\ B.endgame = A.endgame /\ B.failed = A.failed
    BY <2>1 DEF LoopType
  <2>4. B \in LoopType
    BY <2>1, <2>2 DEF LoopType
  <2> QED
    BY <2>3, <2>4 DEF Same
<1>8. LoopOK(B)
  BY <1>6, <1>7, SameOK
<1> HIDE DEF B
<1>9. LoopOK(QueueAccept(B, r, how))
  BY <1>2, <1>8, QueueAcceptOK
<1> QED
  BY <1>8, <1>9 DEF B, A, T, S, F, r, TcpAccept

LEMMA QueueReadOK ==
    ASSUME NEW L, LoopOK(L), NEW c \in Conns, NEW how \in Answers
    PROVE  LoopOK(QueueRead(L, c, how))
<1> DEFINE A == Check(L, "queue_read: reading", Has(L, c, "READING"))
           pend == ~Has(L, c, "READ_PENDING")
           B == Check(A, "queue_read: no read pending", pend)
           F == {"ZERO_READ"} \cup IF how = "failed" THEN {} ELSE {"READ_PENDING"}
           C == SetFlags(B, c, F)
           D == IncreasePendingReqCount(C, c, 1)
           K == [D EXCEPT !.kernel = @ \cup {ReadReq(c)}]
           ok == how = "bypass"
<1> HIDE DEF pend
<1>1. c \in Handles /\ F \in SUBSET OtherFlags /\ ReadReq(c) \in IoReqs /\ ok \in BOOLEAN
  BY DEF Handles, OtherFlags, Flags, ReadReq, ReadReqs, IoReqs
<1> HIDE DEF F, ok
<1>2. LoopOK(A)
  BY CheckOK DEF Assertions, Has
<1> HIDE DEF A
<1>3. LoopOK(B)
  BY <1>2, CheckOK DEF Assertions
<1> HIDE DEF B
<1>4. LoopOK(C)
  BY <1>1, <1>3, SetOtherOK
<1> HIDE DEF C
<1>5. LoopOK(D)
  BY <1>1, <1>4, IncreasePendingReqCountOK
<1> HIDE DEF D
<1>6. Same(D, K)
  BY <1>1, <1>5 DEF LoopOK, LoopType, Same
<1>7. LoopOK(K)
  BY <1>5, <1>6, SameOK
<1>8. LoopOK(InsertPendingReq(D, ReadReq(c), ok))
  BY <1>1, <1>5, InsertPendingReqOK
<1> HIDE DEF K
<1> QED
  BY <1>7, <1>8 DEF K, D, C, B, A, F, ok, pend, QueueRead

LEMMA ReadStartOK ==
    ASSUME NEW L, LoopOK(L), NEW c \in Conns, NEW how \in Answers
    PROVE  LoopOK(ReadStart(L, c, how))
<1> DEFINE S == SetFlags(L, c, {"READING"})
           A == IncreaseActiveCount(S, c)
<1>1. c \in Handles /\ {"READING"} \in SUBSET OtherFlags
  BY DEF Handles, OtherFlags, Flags
<1>2. LoopOK(S)
  BY <1>1, SetOtherOK
<1> HIDE DEF S
<1>3. LoopOK(A)
  BY <1>1, <1>2, IncreaseActiveCountOK
<1> HIDE DEF A
<1>4. LoopOK(QueueRead(A, c, how))
  BY <1>3, QueueReadOK
<1> QED
  BY <1>3, <1>4 DEF S, A, ReadStart

LEMMA StopIfOK ==
    ASSUME NEW L, LoopOK(L), NEW h \in Handles, NEW f \in OtherFlags
    PROVE  LoopOK(StopIf(L, h, f))
<1> DEFINE A == Clear(L, h, {f})
<1>1. LoopOK(A)
  BY ClearOtherOK
<1> HIDE DEF A
<1>2. LoopOK(DecreaseActiveCount(A, h))
  BY <1>1, DecreaseActiveCountOK
<1> QED
  BY <1>2 DEF A, StopIf

LEMMA ReadStopOK ==
    ASSUME NEW L, LoopOK(L), NEW c \in Conns
    PROVE  LoopOK(ReadStop(L, c))
<1>1. c \in Handles /\ "READING" \in OtherFlags
  BY DEF Handles, OtherFlags, Flags
<1> QED
  BY <1>1, StopIfOK DEF ReadStop

LEMMA ReadReqDoneOK ==
    ASSUME NEW L, LoopOK(L), NEW c \in Conns
    PROVE  LoopOK(ReadReqDone(L, c))
<1>1. c \in Handles /\ {"READ_PENDING"} \in SUBSET OtherFlags
  BY DEF Handles, OtherFlags, Flags
<1> QED
  BY <1>1, ClearOtherOK DEF ReadReqDone

LEMMA ReadFailedOK ==
    ASSUME NEW L, LoopOK(L), NEW c \in Conns
    PROVE  LoopOK(ReadFailed(L, c)) /\ LoopOK(ReadEof(L, c))
<1> DEFINE A == Clear(L, c, {"READING"})
           B == Clear(L, c, {"READING", "READABLE"})
<1>1. /\ c \in Handles /\ {"READING"} \in SUBSET OtherFlags
      /\ {"READING", "READABLE"} \in SUBSET OtherFlags
  BY DEF Handles, OtherFlags, Flags
<1>2. LoopOK(A) /\ LoopOK(B)
  BY <1>1, ClearOtherOK
<1> HIDE DEF A, B
<1>3. LoopOK(DecreaseActiveCount(A, c)) /\ LoopOK(DecreaseActiveCount(B, c))
  BY <1>1, <1>2, DecreaseActiveCountOK
<1> QED
  BY <1>3 DEF A, B, ReadFailed, ReadEof

LEMMA ReadReqEndOK ==
    ASSUME NEW L, LoopOK(L), NEW c \in Conns, NEW how \in Answers
    PROVE  LoopOK(ReadReqEnd(L, c, how))
<1> DEFINE A == IF Has(L, c, "READING") /\ ~Has(L, c, "READ_PENDING")
                THEN QueueRead(L, c, how) ELSE L
<1>1. LoopOK(A) /\ c \in Handles
  BY QueueReadOK DEF Handles
<1> HIDE DEF A
<1>2. LoopOK(DecreasePendingReqCount(A, c))
  BY <1>1, DecreasePendingReqCountOK
<1> QED
  BY <1>2 DEF A, ReadReqEnd

LEMMA WriteCountIs ==
    ASSUME NEW L, LoopOK(L), NEW c \in Handles, NEW n \in Int
    PROVE  LoopOK([L EXCEPT !.write_reqs_pending[c] = n])
<1> DEFINE M == [L EXCEPT !.write_reqs_pending[c] = n]
<1>1. Same(L, M)
  BY DEF LoopOK, LoopType, Same
<1> QED
  BY <1>1, SameOK

LEMMA WriteOK ==
    ASSUME NEW L, LoopOK(L), NEW r \in WriteReqs, NEW how \in Answers
    PROVE  LoopOK(Write(L, r, how))
<1> DEFINE c == r.handle
           P == IncreasePendingReqCount(L, c, 1)
           n == P.write_reqs_pending[c] + 1
           A == [P EXCEPT !.write_reqs_pending[c] = n]
           B == RegisterHandleReq(A, c, r)
           K == [B EXCEPT !.kernel = @ \cup {r}]
           ok == how = "bypass"
<1>1. /\ c \in Handles /\ r \in IoReqs /\ r \in ClientReqs /\ ok \in BOOLEAN
  BY DEF Handles, IoReqs, ClientReqs, WriteReqs
<1> HIDE DEF ok
<1>2. LoopOK(P)
  BY <1>1, IncreasePendingReqCountOK
<1> HIDE DEF P
<1>3. n \in Int
  BY <1>1, <1>2 DEF LoopOK, LoopType
<1> HIDE DEF n
<1>4. LoopOK(A)
  BY <1>1, <1>2, <1>3, WriteCountIs
<1> HIDE DEF A
<1>5. LoopOK(B)
  BY <1>1, <1>4, HandleReqOK
<1> HIDE DEF B
<1>6. Same(B, K)
  BY <1>1, <1>5 DEF LoopOK, LoopType, Same
<1>7. LoopOK(K)
  BY <1>5, <1>6, SameOK
<1>8. LoopOK(InsertPendingReq(B, r, ok))
  BY <1>1, <1>5, InsertPendingReqOK
<1> HIDE DEF K
<1> QED
  BY <1>7, <1>8 DEF K, B, A, n, P, ok, Write

LEMMA WriteReqEndOK ==
    ASSUME NEW L, LoopOK(L), NEW c \in Conns
    PROVE  LoopOK(WriteReqEnd(L, c))
<1> DEFINE n == L.write_reqs_pending[c] - 1
           A == [L EXCEPT !.write_reqs_pending[c] = n]
           B == IF c \in A.shutdown_req /\ A.write_reqs_pending[c] = 0
                THEN WantEndgame(A, c) ELSE A
<1>1. c \in Handles
  BY DEF Handles
<1>2. n \in Int
  BY <1>1 DEF LoopOK, LoopType
<1> HIDE DEF n
<1>3. LoopOK(A)
  BY <1>1, <1>2, WriteCountIs
<1> HIDE DEF A
<1>4. LoopOK(B)
  BY <1>1, <1>3, WantEndgameOK
<1> HIDE DEF B
<1>5. LoopOK(DecreasePendingReqCount(B, c))
  BY <1>1, <1>4, DecreasePendingReqCountOK
<1> QED
  BY <1>5 DEF B, A, n, WriteReqEnd

LEMMA ShutdownReqIs ==
    ASSUME NEW L, LoopOK(L), NEW S \in SUBSET Conns
    PROVE  LoopOK([L EXCEPT !.shutdown_req = S])
<1> DEFINE M == [L EXCEPT !.shutdown_req = S]
<1>1. Same(L, M)
  BY DEF LoopOK, LoopType, Same
<1> QED
  BY <1>1, SameOK

LEMMA ShutdownOK ==
    ASSUME NEW L, LoopOK(L), NEW c \in Conns
    PROVE  LoopOK(Shutdown(L, c))
<1> DEFINE C == Clear(L, c, {"WRITABLE"})
           S == C.shutdown_req \cup {c}
           A == [C EXCEPT !.shutdown_req = S]
           P == IncreasePendingReqCount(A, c, 1)
           B == RegisterHandleReq(P, c, ShutdownReq(c))
<1>1. /\ c \in Handles /\ {"WRITABLE"} \in SUBSET OtherFlags
      /\ ShutdownReq(c) \in ClientReqs /\ 1 \in Int
  BY DEF Handles, OtherFlags, Flags, ShutdownReq, ShutdownReqs, ClientReqs
<1>2. LoopOK(C)
  BY <1>1, ClearOtherOK
<1> HIDE DEF C
<1>3. S \in SUBSET Conns
  BY <1>2 DEF LoopOK, LoopType
<1> HIDE DEF S
<1>4. LoopOK(A)
  BY <1>2, <1>3, ShutdownReqIs
<1> HIDE DEF A
<1>5. LoopOK(P)
  BY <1>1, <1>4, IncreasePendingReqCountOK
<1> HIDE DEF P
<1>6. LoopOK(B)
  BY <1>1, <1>5, HandleReqOK
<1> HIDE DEF B
<1>7. LoopOK(WantEndgame(B, c))
  BY <1>1, <1>6, WantEndgameOK
<1> QED
  BY <1>7 DEF B, P, A, S, C, Shutdown

LEMMA ShutdownEndOK ==
    ASSUME NEW L, LoopOK(L), NEW c \in Conns
    PROVE  LoopOK(ShutdownEnd(L, c))
<1> DEFINE S == L.shutdown_req \ {c}
           A == [L EXCEPT !.shutdown_req = S]
<1>1. c \in Handles /\ S \in SUBSET Conns
  BY DEF Handles, LoopOK, LoopType
<1> HIDE DEF S
<1>2. LoopOK(A)
  BY <1>1, ShutdownReqIs
<1> HIDE DEF A
<1>3. LoopOK(DecreasePendingReqCount(A, c))
  BY <1>1, <1>2, DecreasePendingReqCountOK
<1> QED
  BY <1>3 DEF A, S, ShutdownEnd

LEMMA AcceptStoredOK ==
    ASSUME NEW L, LoopOK(L), NEW r \in AcceptReqs
    PROVE  LoopOK(AcceptStored(L, r))
<1> DEFINE M == [L EXCEPT !.pending_accepts[r.handle] = <<r>> \o @]
<1>1. /\ r.handle \in Handles
      /\ L \in LoopType /\ L.pending_accepts \in [Handles -> Seq(AcceptReqs)]
  BY DEF LoopOK, LoopType, AcceptReqs, Handles
<1>2. <<r>> \o L.pending_accepts[r.handle] \in Seq(AcceptReqs)
  BY <1>1
<1>3. Same(L, M)
  BY <1>1, <1>2 DEF LoopType, Same
<1> QED
  BY <1>3, SameOK DEF AcceptStored

LEMMA AcceptRefusedOK ==
    ASSUME NEW L, LoopOK(L), NEW r \in AcceptReqs, NEW how \in Answers
    PROVE  LoopOK(AcceptRefused(L, r, how))
<1> DEFINE A == [L EXCEPT !.accept_socket = @ \ {r}]
<1>1. Same(L, A)
  BY DEF LoopOK, LoopType, Same
<1>2. LoopOK(A)
  BY <1>1, SameOK
<1> HIDE DEF A
<1>3. LoopOK(QueueAccept(A, r, how))
  BY <1>2, QueueAcceptOK
<1> QED
  BY <1>2, <1>3 DEF A, AcceptRefused

LEMMA TimerOK ==
    ASSUME NEW L, LoopOK(L), NEW t \in Timers
    PROVE  LoopOK(TimerStop(L, t)) /\ LoopOK(TimerStart(L, t))
<1>1. t \in Handles
  BY DEF Handles
<1>2. LoopOK(TimerStop(L, t))
  BY <1>1, HandleStopOK DEF TimerStop
<1> QED
  BY <1>1, <1>2, HandleStartOK DEF TimerStart

LEMMA CloseOK ==
    ASSUME NEW L, LoopOK(L), NEW h \in Handles
    PROVE  LoopOK(Close(L, h))
<1>0. CASE Has(L, h, "CLOSING")
  BY <1>0, CheckOK DEF Close, Assertions
<1>1. CASE ~Has(L, h, "CLOSING") /\ h \in Timers
  <2> DEFINE A == TimerStop(L, h)
             B == HandleClosing(A, h)
  <2>1. LoopOK(A)
    BY <1>1, TimerOK
  <2> HIDE DEF A
  <2>2. LoopOK(B)
    BY <2>1, HandleClosingOK
  <2> HIDE DEF B
  <2>3. LoopOK(WantEndgame(B, h))
    BY <2>2, WantEndgameOK
  <2> QED
    BY <1>1, <2>3 DEF A, B, TimerClose, Close
<1>2. CASE ~Has(L, h, "CLOSING") /\ h \notin Timers
  <2> DEFINE A0 == StopIf(L, h, "READING")
             A == StopIf(A0, h, "LISTENING")
             S == SetFlags(A, h, {"SOCKET_CLOSED"})
             C == Clear(S, h, {"READABLE", "WRITABLE"})
             B == HandleClosing(C, h)
  <2>1. /\ "READING" \in OtherFlags /\ "LISTENING" \in OtherFlags
        /\ {"SOCKET_CLOSED"} \in SUBSET OtherFlags
        /\ {"READABLE", "WRITABLE"} \in SUBSET OtherFlags
    BY DEF OtherFlags, Flags
  <2>2. LoopOK(A0)
    BY <2>1, StopIfOK
  <2> HIDE DEF A0
  <2>3. LoopOK(A)
    BY <2>1, <2>2, StopIfOK
  <2> HIDE DEF A
  <2>4. LoopOK(S)
    BY <2>1, <2>3, SetOtherOK
  <2> HIDE DEF S
  <2>5. LoopOK(C)
    BY <2>1, <2>4, ClearOtherOK
  <2> HIDE DEF C
  <2>6. LoopOK(B)
    BY <2>5, HandleClosingOK
  <2> HIDE DEF B
  <2>7. LoopOK(WantEndgame(B, h))
    BY <2>6, WantEndgameOK
  <2> QED
    BY <1>2, <2>6, <2>7 DEF B, C, S, A, A0, TcpClose, Close
<1> QED
  BY <1>0, <1>1, <1>2

\* The endgame of a handle closes one that is closing, so the count it takes away is there.
LEMMA CloseEndOK ==
    ASSUME NEW L, LoopOK(L), NEW h \in Handles, Has(L, h, "CLOSING")
    PROVE  LoopOK(CloseEnd(L, h))
<1> DEFINE A == Check(L, "endgame: not closed", ~Has(L, h, "CLOSED"))
<1>1. LoopOK(A) /\ Same(L, A) /\ (A.failed = {} => ~Has(L, h, "CLOSED"))
  BY CheckOK, CheckIs DEF LoopOK, Has, Assertions
<1> HIDE DEF A
<1>2. A.failed = {} => Has(A, h, "CLOSING") /\ ~Has(A, h, "CLOSED")
  BY <1>1 DEF Same, Has
<1>3. LoopOK(HandleClose(A, h))
  BY <1>1, <1>2, HandleCloseOK
<1> QED
  BY <1>3 DEF A, CloseEnd

-----------------------------------------------------------------------------
\* The invariant of the event loop.

\* Which handle a callback is for.
Fits(c) ==
    /\ c.kind = "connection" => c.handle \in Servers
    /\ c.kind \in {"alloc", "read", "readloop", "write", "shutdown"} => c.handle \in Conns

IInv == TypeOK /\ Fits(cb) /\ LoopOK(loop)

\* What a new callback must be.
LEMMA CallbackIs ==
    ASSUME NEW kind \in Callbacks \cup {"none", "readloop"}, NEW h \in Handles \cup {"none"},
           NEW r \in IoReqs \cup ShutdownReqs \cup {NoReq}, NEW status \in Statuses,
           NEW next \in {"return", "again", "done", "end"},
           kind = "connection" => h \in Servers,
           kind \in {"alloc", "read", "readloop", "write", "shutdown"} => h \in Conns
    PROVE  /\ Callback(kind, h, r, status, next) \in CallbackType
           /\ Fits(Callback(kind, h, r, status, next))
  BY DEF Callback, CallbackType, Fits

LEMMA NoCallbackIs == NoCallback \in CallbackType /\ Fits(NoCallback)
  BY DEF NoCallback, Callback, CallbackType, Fits, Statuses

LEMMA InitInv == Init => IInv
<1> SUFFICES ASSUME Init PROVE IInv
  OBVIOUS
<1>1. LoopInit \in LoopType
  BY DEF LoopInit, LoopType
<1>2. /\ \A h \in Handles : LoopInit.flags[h] = {}
      /\ LoopInit.active_handles = 0 /\ LoopInit.endgame = << >>
  BY DEF LoopInit
<1>3. Counted(LoopInit) = {}
  BY <1>2 DEF Counted, Has
<1>4. Accounted(LoopInit) /\ Threaded(LoopInit)
  BY <1>2, <1>3, FS_EmptySet DEF Accounted, Threaded, Has
<1>5. TypeOK
  BY <1>1, NoCallbackIs DEF Init, TypeOK, Phases
<1>6. Fits(cb)
  BY NoCallbackIs DEF Init
<1> QED
  BY <1>1, <1>4, <1>5, <1>6 DEF Init, IInv, LoopOK

\* Enough to show of a step: where the loop goes, and the types of the rest.
LEMMA StepInv ==
    ASSUME LoopOK(loop'), pc' \in Phases, due' \subseteq Timers, work' \in Seq(Packets),
           cb' = cb \/ (cb' \in CallbackType /\ Fits(cb')),
           request' \in [ClientReqs -> {"free", "issued", "called"}], IInv
    PROVE  IInv'
  BY DEF IInv, TypeOK, LoopOK, Fits

LEMMA StopFlagOK ==
    ASSUME NEW L, LoopOK(L), NEW b \in BOOLEAN
    PROVE  LoopOK([L EXCEPT !.stop_flag = b])
<1>1. Same(L, [L EXCEPT !.stop_flag = b])
  BY DEF LoopOK, LoopType, Same
<1> QED
  BY <1>1, SameOK

LEMMA NextIterationInv ==
    ASSUME IInv, NextIteration
    PROVE  LoopOK(loop') /\ pc' \in Phases /\ due' \subseteq Timers
<1>1. LoopOK(loop) /\ due \subseteq Timers
  BY DEF IInv, TypeOK
<1>2. LoopOK([loop EXCEPT !.stop_flag = FALSE])
  BY <1>1, StopFlagOK
<1> QED
  BY <1>1, <1>2 DEF NextIteration, ActiveTimers, Phases

LEMMA RunInv ==
    ASSUME IInv, RunBegin \/ TimersEnd \/ ReqsEnd \/ EndgamesEnd \/ Poll
    PROVE  IInv'
<1>1. /\ LoopOK(loop) /\ pc \in Phases /\ due \subseteq Timers /\ work \in Seq(Packets)
      /\ request \in [ClientReqs -> {"free", "issued", "called"}]
  BY DEF IInv, TypeOK
<1>2. CASE RunBegin \/ EndgamesEnd
  BY <1>1, <1>2, NextIterationInv, StepInv DEF RunBegin, EndgamesEnd
<1>3. CASE TimersEnd
  <2>1. loop.pending \in Seq(Packets) /\ << >> \in Seq(Packets)
    BY <1>1 DEF LoopOK, LoopType
  <2>2. Same(loop, [loop EXCEPT !.pending = << >>])
    BY <1>1, <2>1 DEF LoopOK, LoopType, Same
  <2>3. LoopOK(loop')
    BY <1>1, <1>3, <2>2, SameOK DEF TimersEnd
  <2> QED
    BY <1>1, <1>3, <2>1, <2>3, StepInv DEF TimersEnd, Phases
<1>4. CASE ReqsEnd
  BY <1>1, <1>4, StepInv DEF ReqsEnd, Phases
<1>5. CASE Poll
  <2> DEFINE fresh == \A p \in DOMAIN loop.pending, q \in DOMAIN loop.iocp :
                         loop.pending[p].req # loop.iocp[q].req
             L == Check(loop, "pending: not queued", fresh)
             M == [L EXCEPT !.pending = @ \o L.iocp, !.iocp = << >>]
  <2>1. loop' = M /\ pc' = "endgames" /\ UNCHANGED <<due, work, cb, request>>
    BY <1>5 DEF Poll
  <2> HIDE DEF fresh
  <2>2. LoopOK(L)
    BY <1>1, CheckOK DEF Assertions
  <2> HIDE DEF L
  <2>3. /\ L \in LoopType /\ L.pending \o L.iocp \in Seq(Packets) /\ << >> \in Seq(Packets)
    BY <2>2 DEF LoopOK, LoopType
  <2>4. Same(L, M)
    <3>1. /\ M.flags = L.flags /\ M.active_handles = L.active_handles
          /\ M.endgame = L.endgame /\ M.failed = L.failed
      BY <2>3 DEF LoopType
    <3>2. M \in LoopType
      BY <2>3 DEF LoopType
    <3> QED
      BY <3>1, <3>2 DEF Same
  <2>5. LoopOK(M)
    BY <2>2, <2>4, SameOK
  <2> HIDE DEF M
  <2>6. LoopOK(loop') /\ pc' \in Phases
    BY <2>1, <2>5 DEF Phases
  <2> QED
    BY <1>1, <2>1, <2>6, StepInv
<1> QED
  BY <1>2, <1>3, <1>4, <1>5

LEMMA FireTimerInv ==
    ASSUME IInv, NEW t \in Timers, FireTimer(t)
    PROVE  IInv'
<1>1. /\ LoopOK(loop) /\ pc \in Phases /\ due \subseteq Timers /\ work \in Seq(Packets)
      /\ request \in [ClientReqs -> {"free", "issued", "called"}]
  BY DEF IInv, TypeOK
<1>2. LoopOK(TimerStop(loop, t))
  BY <1>1, TimerOK
<1>3. LoopOK(TimerStart(TimerStop(loop, t), t))
  BY <1>2, TimerOK
<1>4. LoopOK(loop')
  BY <1>2, <1>3 DEF FireTimer
<1>5. cb' \in CallbackType /\ Fits(cb')
  BY CallbackIs DEF FireTimer, Callbacks, Statuses, Handles
<1> QED
  BY <1>1, <1>4, <1>5, StepInv DEF FireTimer

LEMMA NextReqIs ==
    ASSUME IInv, NEW type, NextReq(type)
    PROVE  /\ Head(work) \in Packets /\ Head(work).req \in IoReqs /\ Head(work).req.type = type
           /\ type = "READ"   => Head(work).req \in ReadReqs /\ Head(work).req.handle \in Conns
           /\ type = "WRITE"  => Head(work).req \in WriteReqs /\ Head(work).req.handle \in Conns
           /\ type = "ACCEPT" => Head(work).req \in AcceptReqs /\ Head(work).req.handle \in Servers
           /\ work' \in Seq(Packets)
<1>1. work \in Seq(Packets) /\ work # << >> /\ Head(work).req.type = type /\ work' = Tail(work)
  BY DEF IInv, TypeOK, NextReq
<1>2. Head(work) \in Packets /\ Tail(work) \in Seq(Packets)
  BY <1>1
<1>3. Head(work).req \in IoReqs
  BY <1>2 DEF Packets
<1> QED
  BY <1>1, <1>2, <1>3 DEF IoReqs, ReadReqs, WriteReqs, AcceptReqs

LEMMA ProcessReadReqInv ==
    ASSUME IInv, ProcessReadReq
    PROVE  IInv'
<1> DEFINE r == Head(work).req
           c == r.handle
           L == ReadReqDone(loop, c)
<1>1. /\ LoopOK(loop) /\ pc \in Phases /\ due \subseteq Timers
      /\ request \in [ClientReqs -> {"free", "issued", "called"}]
      /\ UNCHANGED <<pc, due, request>>
  BY DEF IInv, TypeOK, ProcessReadReq, NextReq
<1>2. r \in IoReqs /\ c \in Conns /\ c \in Handles /\ work' \in Seq(Packets)
  BY NextReqIs DEF ProcessReadReq, Handles
<1>3. LoopOK(L)
  BY <1>1, <1>2, ReadReqDoneOK
<1>4. LoopOK(ReadFailed(L, c)) /\ LoopOK(DecreasePendingReqCount(L, c))
  BY <1>2, <1>3, ReadFailedOK, DecreasePendingReqCountOK
<1>5. \/ loop' = L /\ cb' = Callback("readloop", c, r, "ok", "return")
      \/ loop' = ReadFailed(L, c) /\ cb' = Callback("read", c, r, "error", "end")
      \/ loop' = DecreasePendingReqCount(L, c) /\ cb' = NoCallback
  BY DEF ProcessReadReq
<1>6. LoopOK(loop')
  BY <1>3, <1>4, <1>5
<1>7. cb' \in CallbackType /\ Fits(cb')
  BY <1>2, <1>5, CallbackIs, NoCallbackIs DEF Callbacks, Statuses
<1> QED
  BY <1>1, <1>2, <1>6, <1>7, StepInv

LEMMA ReadLoopInv ==
    ASSUME IInv, ReadMore \/ Recv \/ ReadLoopEnd
    PROVE  IInv'
<1> DEFINE c == cb.handle
           r == cb.req
<1>1. /\ LoopOK(loop) /\ pc \in Phases /\ due \subseteq Timers /\ work \in Seq(Packets)
      /\ request \in [ClientReqs -> {"free", "issued", "called"}]
      /\ UNCHANGED <<pc, due, work, request>>
  BY DEF IInv, TypeOK, ReadMore, Recv, ReadLoopEnd
<1>2. r \in IoReqs \cup ShutdownReqs \cup {NoReq} /\ c \in Conns /\ c \in Handles
  BY DEF IInv, TypeOK, CallbackType, Fits, Handles, ReadMore, Recv, ReadLoopEnd
<1>3. /\ LoopOK(ReadFailed(loop, c)) /\ LoopOK(ReadEof(loop, c))
      /\ LoopOK(DecreasePendingReqCount(loop, c))
  BY <1>1, <1>2, ReadFailedOK, DecreasePendingReqCountOK
<1>4. LoopOK(loop')
  BY <1>1, <1>3 DEF ReadMore, Recv, ReadLoopEnd
<1>5. \/ cb' = NoCallback
      \/ cb' = Callback("alloc", c, r, "ok", "return")
      \/ \E status \in {"data", "empty", "nobufs", "eof", "error"}, next \in {"again", "done"} :
            cb' = Callback("read", c, r, status, next)
  BY DEF ReadMore, Recv, ReadLoopEnd
<1>6. cb' \in CallbackType /\ Fits(cb')
  BY <1>2, <1>5, CallbackIs, NoCallbackIs DEF Callbacks, Statuses
<1> QED
  BY <1>1, <1>4, <1>6, StepInv

LEMMA ProcessWriteReqInv ==
    ASSUME IInv, ProcessWriteReq
    PROVE  IInv'
<1> DEFINE r == Head(work).req
           status == IF Head(work).ok THEN "ok" ELSE "error"
<1>1. /\ LoopOK(loop) /\ pc \in Phases /\ due \subseteq Timers
      /\ request \in [ClientReqs -> {"free", "issued", "called"}]
      /\ UNCHANGED <<pc, due>>
  BY DEF IInv, TypeOK, ProcessWriteReq, NextReq
<1>2. /\ r \in IoReqs /\ r \in ClientReqs /\ r.handle \in Conns /\ r.handle \in Handles
      /\ work' \in Seq(Packets)
  BY NextReqIs DEF ProcessWriteReq, Handles, ClientReqs
<1>3. LoopOK(UnregisterHandleReq(loop, r.handle, r))
  BY <1>1, <1>2, HandleReqOK
<1>4. /\ loop' = UnregisterHandleReq(loop, r.handle, r)
      /\ cb' = Callback("write", r.handle, r, status, "return")
      /\ request' = [request EXCEPT ![r] = "called"]
  BY DEF ProcessWriteReq
<1>5. status \in Statuses
  BY DEF Statuses
<1> HIDE DEF status
<1>6. cb' \in CallbackType /\ Fits(cb')
  BY <1>2, <1>4, <1>5, CallbackIs DEF Callbacks
<1>7. request' \in [ClientReqs -> {"free", "issued", "called"}]
  BY <1>1, <1>2, <1>4
<1> QED
  BY <1>1, <1>2, <1>3, <1>4, <1>6, <1>7, StepInv

LEMMA ProcessAcceptReqInv ==
    ASSUME IInv, ProcessAcceptReq
    PROVE  IInv'
<1> DEFINE r == Head(work).req
           s == r.handle
<1>1. /\ LoopOK(loop) /\ pc \in Phases /\ due \subseteq Timers
      /\ request \in [ClientReqs -> {"free", "issued", "called"}]
      /\ UNCHANGED <<pc, due, request>>
  BY DEF IInv, TypeOK, ProcessAcceptReq, NextReq
<1>2. /\ r \in IoReqs /\ r \in AcceptReqs /\ s \in Servers /\ s \in Handles
      /\ work' \in Seq(Packets) /\ "LISTENING" \in OtherFlags
  BY NextReqIs DEF ProcessAcceptReq, Handles, OtherFlags, Flags
<1>3. /\ LoopOK(StopIf(loop, s, "LISTENING")) /\ LoopOK(DecreasePendingReqCount(loop, s))
      /\ LoopOK(AcceptStored(loop, r))
  BY <1>1, <1>2, StopIfOK, DecreasePendingReqCountOK, AcceptStoredOK
<1>4. ASSUME NEW how \in AcceptAnswers
      PROVE  LoopOK(DecreasePendingReqCount(AcceptRefused(loop, r, how), s))
  <2>1. how \in Answers
    BY DEF AcceptAnswers
  <2>2. LoopOK(AcceptRefused(loop, r, how))
    BY <1>1, <1>2, <2>1, AcceptRefusedOK
  <2> QED
    BY <1>2, <2>2, DecreasePendingReqCountOK
<1>5. \/ /\ loop' = StopIf(loop, s, "LISTENING")
         /\ cb' = Callback("connection", s, r, "error", "return")
      \/ loop' = DecreasePendingReqCount(loop, s) /\ cb' = NoCallback
      \/ /\ loop' = AcceptStored(loop, r)
         /\ cb' = Callback("connection", s, r, "ok", "return")
      \/ /\ \E how \in AcceptAnswers : loop' = DecreasePendingReqCount(AcceptRefused(loop, r, how), s)
         /\ cb' = NoCallback
  BY DEF ProcessAcceptReq
<1>6. LoopOK(loop')
  BY <1>3, <1>4, <1>5
<1>7. cb' \in CallbackType /\ Fits(cb')
  BY <1>2, <1>5, CallbackIs, NoCallbackIs DEF Callbacks, Statuses
<1> QED
  BY <1>1, <1>2, <1>6, <1>7, StepInv

LEMMA ProcessEndgameInv ==
    ASSUME IInv, ProcessEndgame
    PROVE  IInv'
<1> DEFINE h == Head(loop.endgame)
           L == PopEndgame(loop)
           r == ShutdownReq(h)
<1>1. /\ LoopOK(loop) /\ pc \in Phases /\ due \subseteq Timers /\ work \in Seq(Packets)
      /\ request \in [ClientReqs -> {"free", "issued", "called"}]
      /\ loop.endgame # << >> /\ UNCHANGED <<pc, due, work>>
  BY DEF IInv, TypeOK, ProcessEndgame
<1>2. LoopOK(L)
  BY <1>1, PopEndgameOK
<1>3. h \in Handles
  BY <1>1 DEF LoopOK, LoopType
<1>4. CASE h \in Conns /\ ShutdownIsDue(L, h)
  <2> DEFINE status == IF Has(L, h, "CLOSING") THEN "error" ELSE "ok"
  <2>1. /\ loop' = UnregisterHandleReq(L, h, r)
        /\ cb' = Callback("shutdown", h, r, status, "return")
        /\ request' = [request EXCEPT ![r] = "called"]
    BY <1>4 DEF ProcessEndgame
  <2>2. r \in ShutdownReqs /\ r \in ClientReqs /\ status \in Statuses
    BY <1>4 DEF ShutdownReq, ShutdownReqs, ClientReqs, Statuses
  <2> HIDE DEF status, r, L, h
  <2>3. LoopOK(loop')
    BY <1>2, <1>3, <2>1, <2>2, HandleReqOK
  <2>4. cb' \in CallbackType /\ Fits(cb')
    BY <1>3, <1>4, <2>1, <2>2, CallbackIs DEF Callbacks
  <2>5. request' \in [ClientReqs -> {"free", "issued", "called"}]
    BY <1>1, <2>1, <2>2
  <2> QED
    BY <1>1, <2>3, <2>4, <2>5, StepInv
<1>5. CASE ~(h \in Conns /\ ShutdownIsDue(L, h)) /\ CloseIsDue(L, h)
  <2>1. /\ loop' = CloseEnd(L, h) /\ UNCHANGED request
        /\ cb' = Callback("close", h, NoReq, "ok", "return")
    BY <1>5 DEF ProcessEndgame
  <2>2. Has(L, h, "CLOSING")
    BY <1>5 DEF CloseIsDue
  <2> HIDE DEF L, h
  <2>3. LoopOK(loop')
    BY <1>2, <1>3, <2>1, <2>2, CloseEndOK
  <2>4. cb' \in CallbackType /\ Fits(cb')
    BY <1>3, <2>1, CallbackIs DEF Callbacks, Statuses
  <2> QED
    BY <1>1, <2>1, <2>3, <2>4, StepInv
<1>6. CASE ~(h \in Conns /\ ShutdownIsDue(L, h)) /\ ~CloseIsDue(L, h)
  <2>1. loop' = L /\ UNCHANGED <<cb, request>>
    BY <1>6 DEF ProcessEndgame
  <2> QED
    BY <1>1, <1>2, <2>1, StepInv
<1> QED
  BY <1>4, <1>5, <1>6

LEMMA CallbackReturnsInv ==
    ASSUME IInv, CallbackReturns
    PROVE  IInv'
<1> DEFINE h == cb.handle
<1>1. /\ LoopOK(loop) /\ pc \in Phases /\ due \subseteq Timers /\ work \in Seq(Packets)
      /\ request \in [ClientReqs -> {"free", "issued", "called"}]
      /\ UNCHANGED <<pc, due, work, request>>
  BY DEF IInv, TypeOK, CallbackReturns
<1>2. /\ cb \in CallbackType /\ Fits(cb)
      /\ cb.req \in IoReqs \cup ShutdownReqs \cup {NoReq}
  BY DEF IInv, TypeOK, CallbackType
<1>3. ASSUME cb.kind \in {"connection", "read", "write", "shutdown"}, h \in Conns \cup Servers
      PROVE  LoopOK(DecreasePendingReqCount(loop, h))
  BY <1>1, <1>3, DecreasePendingReqCountOK DEF Handles
<1>4. ASSUME h \in Conns
      PROVE  LoopOK(WriteReqEnd(loop, h)) /\ LoopOK(ShutdownEnd(loop, h))
  BY <1>1, <1>4, WriteReqEndOK, ShutdownEndOK
<1>5. ASSUME h \in Conns, NEW how \in ReadAnswers
      PROVE  LoopOK(ReadReqEnd(loop, h, how))
  BY <1>1, <1>5, ReadReqEndOK DEF ReadAnswers
<1>6. LoopOK(loop')
  BY <1>1, <1>2, <1>3, <1>4, <1>5 DEF CallbackReturns, Fits
<1>7. \/ cb' = NoCallback
      \/ cb.kind = "read" /\ cb' = Callback("readloop", h, cb.req, "ok", "return")
  BY DEF CallbackReturns
<1>8. cb.kind = "read" => h \in Conns /\ h \in Handles
  BY <1>2 DEF Fits, Handles
<1>9. cb' \in CallbackType /\ Fits(cb')
  BY <1>2, <1>7, <1>8, CallbackIs, NoCallbackIs DEF Callbacks, Statuses
<1> QED
  BY <1>1, <1>6, <1>9, StepInv

LEMMA KernelCompletesInv ==
    ASSUME IInv, NEW r \in IoReqs, KernelCompletes(r)
    PROVE  IInv'
<1>1. /\ LoopOK(loop) /\ pc \in Phases /\ due \subseteq Timers /\ work \in Seq(Packets)
      /\ request \in [ClientReqs -> {"free", "issued", "called"}]
      /\ UNCHANGED <<pc, due, work, cb, request>>
  BY DEF IInv, TypeOK, KernelCompletes
<1>2. PICK ok \in BOOLEAN :
         loop' = [loop EXCEPT !.kernel = @ \ {r}, !.iocp = Append(@, Packet(r, ok))]
  BY DEF KernelCompletes
<1> DEFINE M == [loop EXCEPT !.kernel = @ \ {r}, !.iocp = Append(@, Packet(r, ok))]
<1>3. loop \in LoopType /\ Append(loop.iocp, Packet(r, ok)) \in Seq(Packets)
  BY <1>1 DEF LoopOK, LoopType, Packet, Packets
<1>4. Same(loop, M)
  <2>1. /\ M.flags = loop.flags /\ M.active_handles = loop.active_handles
        /\ M.endgame = loop.endgame /\ M.failed = loop.failed
    BY <1>3 DEF LoopType
  <2>2. M \in LoopType
    BY <1>3 DEF LoopType
  <2> QED
    BY <2>1, <2>2 DEF Same
<1>5. LoopOK(M)
  BY <1>1, <1>4, SameOK
<1> HIDE DEF M
<1>6. LoopOK(loop')
  BY <1>2, <1>5 DEF M
<1> QED
  BY <1>1, <1>6, StepInv

\* A client's call moves the loop, its own requests and the timers due.
LEMMA CallInv ==
    ASSUME IInv, Calls, LoopOK(loop'), due' \subseteq Timers,
           request' \in [ClientReqs -> {"free", "issued", "called"}]
    PROVE  IInv'
<1>1. pc \in Phases /\ work \in Seq(Packets)
  BY DEF IInv, TypeOK
<1>2. UNCHANGED <<pc, work, cb>>
  BY DEF Calls
<1> QED
  BY <1>1, <1>2, StepInv

LEMMA ClientStepInv ==
    ASSUME IInv, ClientStep
    PROVE  IInv'
<1>1. /\ LoopOK(loop) /\ loop \in LoopType /\ due \subseteq Timers
      /\ request \in [ClientReqs -> {"free", "issued", "called"}]
  BY DEF IInv, TypeOK
<1>2. Conns \subseteq Handles /\ Servers \subseteq Handles /\ Timers \subseteq Handles
  BY DEF Handles
<1>3. ASSUME NEW h \in Handles, ClientOpens(h) PROVE IInv'
  <2>1. LoopOK(HandleInit(loop, h)) /\ LoopOK(TcpInit(loop, h))
    BY <1>1, <1>3, HandleInitOK, TcpInitOK DEF ClientOpens
  <2> QED
    BY <1>1, <1>3, <2>1, CallInv DEF ClientOpens
<1>4. ASSUME NEW h \in Handles, ClientCloses(h) PROVE IInv'
  <2>1. LoopOK(Close(loop, h))
    BY <1>1, CloseOK
  <2> QED
    BY <1>1, <1>4, <2>1, CallInv DEF ClientCloses
<1>5. ASSUME NEW h \in Unrefable, ClientRefs(h) PROVE IInv'
  <2>1. LoopOK(HandleRef(loop, h)) /\ LoopOK(HandleUnref(loop, h))
    BY <1>1, HandleRefOK, HandleUnrefOK, EnvironmentAssumption
  <2> QED
    BY <1>1, <1>5, <2>1, CallInv DEF ClientRefs
<1>6. ASSUME NEW s \in Servers, ClientListens(s) PROVE IInv'
  <2>1. PICK how \in [AcceptReqsOf(s) -> AcceptAnswers] :
           \E soon \in InOrder({r \in AcceptReqsOf(s) : how[r] # "queued"}) :
              loop' = TcpListen(loop, s, how, soon)
    BY <1>6 DEF ClientListens
  <2>2. how \in [AcceptReqsOf(s) -> Answers]
    BY DEF AcceptAnswers
  <2>3. LoopOK(loop')
    BY <1>1, <2>1, <2>2, TcpListenOK
  <2> QED
    BY <1>1, <1>6, <2>3, CallInv DEF ClientListens
<1>7. ASSUME NEW s \in Servers, NEW c \in Conns, ClientAccepts(s, c) PROVE IInv'
  <2>1. PICK sockOk \in BOOLEAN, how \in AcceptAnswers : loop' = TcpAccept(loop, s, c, sockOk, how)
    BY <1>7 DEF ClientAccepts
  <2>2. how \in Answers /\ loop.pending_accepts[s] # << >>
    BY <1>7 DEF AcceptAnswers, ClientAccepts
  <2>3. LoopOK(loop')
    BY <1>1, <2>1, <2>2, TcpAcceptOK
  <2> QED
    BY <1>1, <1>7, <2>3, CallInv DEF ClientAccepts
<1>8. ASSUME NEW c \in Conns, ClientStartsReading(c) PROVE IInv'
  <2>1. PICK how \in ReadAnswers : loop' = ReadStart(loop, c, how)
    BY <1>8 DEF ClientStartsReading
  <2>2. LoopOK(loop')
    BY <1>1, <2>1, ReadStartOK DEF ReadAnswers
  <2> QED
    BY <1>1, <1>8, <2>2, CallInv DEF ClientStartsReading
<1>9. ASSUME NEW c \in Conns, ClientStopsReading(c) PROVE IInv'
  <2>1. LoopOK(ReadStop(loop, c))
    BY <1>1, ReadStopOK
  <2> QED
    BY <1>1, <1>9, <2>1, CallInv DEF ClientStopsReading
<1>10. ASSUME NEW c \in Conns, ClientShutsDown(c) PROVE IInv'
  <2>1. LoopOK(Shutdown(loop, c))
    BY <1>1, ShutdownOK
  <2>2. request' \in [ClientReqs -> {"free", "issued", "called"}]
    BY <1>1, <1>10 DEF ClientShutsDown
  <2> QED
    BY <1>1, <1>10, <2>1, <2>2, CallInv DEF ClientShutsDown
<1>11. ASSUME NEW r \in WriteReqs, ClientWrites(r) PROVE IInv'
  <2>1. PICK how \in Answers : loop' = Write(loop, r, how)
    BY <1>11 DEF ClientWrites
  <2>2. LoopOK(loop')
    BY <1>1, <2>1, WriteOK
  <2>3. request' \in [ClientReqs -> {"free", "issued", "called"}]
    BY <1>1, <1>11 DEF ClientWrites
  <2> QED
    BY <1>1, <1>11, <2>2, <2>3, CallInv DEF ClientWrites
<1>12. ASSUME NEW t \in Timers, ClientStartsTimer(t) \/ ClientStopsTimer(t) PROVE IInv'
  <2>1. LoopOK(TimerStart(loop, t)) /\ LoopOK(TimerStop(loop, t))
    BY <1>1, TimerOK
  <2>2. due' \subseteq Timers
    BY <1>1, <1>12 DEF ClientStartsTimer, ClientStopsTimer
  <2> QED
    BY <1>1, <1>12, <2>1, <2>2, CallInv DEF ClientStartsTimer, ClientStopsTimer
<1>13. ASSUME ClientStops PROVE IInv'
  <2>1. LoopOK([loop EXCEPT !.stop_flag = TRUE])
    BY <1>1, StopFlagOK
  <2> QED
    BY <1>1, <1>13, <2>1, CallInv DEF ClientStops
<1> QED
  BY <1>3, <1>4, <1>5, <1>6, <1>7, <1>8, <1>9, <1>10, <1>11, <1>12, <1>13 DEF ClientStep

LEMMA NextInv == IInv /\ [Next]_vars => IInv'
<1> SUFFICES ASSUME IInv, [Next]_vars PROVE IInv'
  OBVIOUS
<1>1. CASE LibraryStep
  BY <1>1, RunInv, FireTimerInv, ProcessReadReqInv, ReadLoopInv, ProcessWriteReqInv,
     ProcessAcceptReqInv, ProcessEndgameInv, CallbackReturnsInv DEF LibraryStep
<1>2. CASE \E r \in IoReqs : KernelCompletes(r)
  BY <1>2, KernelCompletesInv
<1>3. CASE ClientStep
  BY <1>3, ClientStepInv
<1>4. CASE UNCHANGED vars
  BY <1>4 DEF vars, IInv, TypeOK, Fits, LoopOK
<1> QED
  BY <1>1, <1>2, <1>3, <1>4 DEF Next

-----------------------------------------------------------------------------
\* The theorems.

\* Whatever clients and kernel do, every variable of the event loop keeps its type.
THEOREM TypeCorrect == Spec => []TypeOK
<1>1. IInv => TypeOK
  BY DEF IInv
<1> QED
  BY InitInv, NextInv, <1>1, PTL DEF Spec

\* The intrusive list of endgames stays a list: a handle is on it iff its flag
\* ENDGAME_QUEUED says so, and once.
THEOREM EndgameList == Spec => []EndgameListIsExact
<1>1. IInv => EndgameListIsExact
  BY DEF IInv, LoopOK, Threaded, EndgameListIsExact
<1> QED
  BY InitInv, NextInv, <1>1, PTL DEF Spec

\* While no assertion has failed, active_handles is the number of handles that are
\* active and referenced, or closing: increments and decrements spread over the
\* whole library agree with the flags of the handles.
THEOREM ActiveHandles == Spec => [](NoAssertionFails => ActiveHandlesIsExact)
<1>1. IInv => (NoAssertionFails => ActiveHandlesIsExact)
  BY DEF IInv, LoopOK, Accounted, NoAssertionFails, ActiveHandlesIsExact
<1> QED
  BY InitInv, NextInv, <1>1, PTL DEF Spec

=============================================================================
