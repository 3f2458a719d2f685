------------------------------- MODULE Timers -------------------------------
(***************************************************************************)
(* The timers of a loop and their clock: win/timer.c, which keeps them in  *)
(* a tree, and unix/timer.c, which keeps them in the heap of heap-inl.h.   *)
(* Times are of Bits bits.  The loop calls those that are due, lets its   *)
(* other callbacks run, and waits no longer than until the next is due.    *)
(***************************************************************************)
EXTENDS Integers, FiniteSets, Sequences

CONSTANTS
    TimerSet,   \* numbers
    Null,
    Bits,      \* bits of uint64_t; int64_t has as many
    MaxWait,    \* UINT_MAX - 1 on Windows, INT_MAX on Unix
    TimerUses   \* by their names, what a behaviour is about: the systems, the timers with the timeouts a
                \* client gives each, their repeats, the starts it makes, whether it starts
                \* each timer once, in their order, and when time ends

MaxUint == 2^Bits - 1

VARIABLES
    uses,       \* which of TimerUses
    system,     \* "win" or "unix"
    heap,       \* the nodes of heap-inl.h; on Windows the tree, kept as a set
    timer,      \* of each timer due (timeout on Unix), repeat, start_id, active and cb
    counter,    \* loop->timer_counter
    time,       \* loop->time
    phase,      \* "run" in uv__run_timers, "callback" of a timer, "client" elsewhere
    run         \* of the latest uv__run_timers: counter when it began, the keys it called

timersVars == <<uses, system, heap, timer, counter, time, phase, run>>

-----------------------------------------------------------------------------
\* heap-inl.h: nodes linked by pointers; place k of the tree has places 2k and 2k + 1
\* below it.

EmptyHeap ==
    LET none == [t \in TimerSet |-> Null]
    IN  [min |-> Null, nelts |-> 0, left |-> none, right |-> none, parent |-> none]

Key(T, t) == <<T[t].due, T[t].start_id>>

\* timer_less_than and uv_timer_compare
Before(k, l) == k[1] < l[1] \/ (k[1] = l[1] /\ k[2] < l[2])
Less(T, a, b) == Before(Key(T, a), Key(T, b))

RECURSIVE Place(_, _)
Place(h, k) == IF k = 1 THEN h.min
            ELSE LET p == Place(h, k \div 2) IN IF k % 2 = 1 THEN h.right[p] ELSE h.left[p]

\* What hangs where n hangs, at the end of a pointer of n's parent p or at the root.
Hang(h, p, n, new) ==
    IF p = Null THEN [h EXCEPT !.min = new]
    ELSE IF h.left[p] = n THEN [h EXCEPT !.left[p] = new] ELSE [h EXCEPT !.right[p] = new]

\* heap_node_swap: child c takes the place of its parent p.
NodeSwap(h, p, c) ==
    LET onLeft  == h.left[p] = c
        sibling == IF onLeft THEN h.right[p] ELSE h.left[p]
        above   == Hang(h, h.parent[p], p, c)
        below   == {h.left[c], h.right[c]}
    IN  [above EXCEPT
           !.left   = [@ EXCEPT ![p] = h.left[c], ![c] = IF onLeft THEN p ELSE sibling],
           !.right  = [@ EXCEPT ![p] = h.right[c], ![c] = IF onLeft THEN sibling ELSE p],
           !.parent = [t \in TimerSet |-> IF t \in below THEN p
                                          ELSE IF t \in {p, sibling} THEN c
                                          ELSE IF t = c THEN h.parent[p] ELSE @[t]]]

RECURSIVE WalkUp(_, _, _)
WalkUp(h, T, n) ==
    IF h.parent[n] # Null /\ Less(T, n, h.parent[n]) THEN WalkUp(NodeSwap(h, h.parent[n], n), T, n) ELSE h

RECURSIVE WalkDown(_, _, _)
WalkDown(h, T, n) ==
    LET under    == {h.left[n], h.right[n]} \ {Null}
        smallest == CHOOSE t \in under \cup {n} : \A u \in under \cup {n} : ~Less(T, u, t)
    IN  IF smallest = n THEN h ELSE WalkDown(NodeSwap(h, n, smallest), T, n)

HeapInsert(h, T, n) ==
    LET k == h.nelts + 1
        p == IF k = 1 THEN Null ELSE Place(h, k \div 2)
        A == [h EXCEPT !.nelts = k, !.left[n] = Null, !.right[n] = Null, !.parent[n] = p]
        B == IF p = Null THEN [A EXCEPT !.min = n]
             ELSE IF k % 2 = 1 THEN [A EXCEPT !.right[p] = n] ELSE [A EXCEPT !.left[p] = n]
    IN  WalkUp(B, T, n)

\* n's own pointers are not read until it is inserted again; here they are cleared.
Unlinked(h, n) == [h EXCEPT !.left[n] = Null, !.right[n] = Null, !.parent[n] = Null]

\* The last node in the place of the one removed.
Replaced(h, n, last) ==
    LET A == Hang(h, h.parent[n], n, last)
    IN  [A EXCEPT !.left[last] = h.left[n], !.right[last] = h.right[n],
                  !.parent = [t \in TimerSet |-> IF t = last THEN h.parent[n]
                                                 ELSE IF t \in {h.left[n], h.right[n]} THEN last ELSE @[t]]]

\* Mutant: the node put in the place of the one removed only ever moves down.
HeapRemoveDown(h, T, n) ==
    LET last == Place(h, h.nelts)
        A    == [Hang(h, h.parent[last], last, Null) EXCEPT !.nelts = @ - 1]
    IN  Unlinked(IF last = n THEN A ELSE WalkDown(Replaced(A, n, last), T, last), n)

HeapRemove(h, T, n) ==
    LET last == Place(h, h.nelts)
        A    == [Hang(h, h.parent[last], last, Null) EXCEPT !.nelts = @ - 1]
    IN  Unlinked(IF last = n THEN A ELSE WalkUp(WalkDown(Replaced(A, n, last), T, last), T, last), n)

-----------------------------------------------------------------------------
\* timer.c

Inserted(h, T, t) == IF system = "unix" THEN HeapInsert(h, T, t) ELSE h \cup {t}
Removed(h, T, t)  == IF system = "unix" THEN HeapRemove(h, T, t) ELSE h \ {t}

\* heap_min and RB_MIN
First(h, T) ==
    IF system = "unix" THEN h.min
    ELSE IF h = {} THEN Null ELSE CHOOSE t \in h : \A u \in h : ~Less(T, u, t)

\* get_clamped_due_time
Due(timeout) == LET due == (time + timeout) % 2^Bits IN IF due < timeout THEN MaxUint ELSE due

\* The loop's timers: those linked, what is known of each, and the counter.
Linked == [heap |-> heap, timer |-> timer, counter |-> counter]

TimerStop(S, t) ==
    IF ~S.timer[t].active THEN S
    ELSE [S EXCEPT !.heap = Removed(@, S.timer, t), !.timer[t].active = FALSE]

TimerStart(S, t, timeout, repeat) ==
    LET A == TimerStop(S, t)
        T == [A.timer EXCEPT ![t] = [due |-> Due(timeout), repeat |-> repeat, start_id |-> A.counter,
                                     active |-> TRUE, cb |-> TRUE]]
    IN  [heap |-> Inserted(A.heap, T, t), timer |-> T, counter |-> A.counter + 1]

TimerAgain(S, t) ==
    LET repeat == S.timer[t].repeat
    IN  IF ~S.timer[t].cb \/ repeat = 0 THEN S ELSE TimerStart(TimerStop(S, t), t, repeat, repeat)

Become(S) == heap' = S.heap /\ timer' = S.timer /\ counter' = S.counter

\* The value of n as an int64_t.
Signed(n) == IF n >= 2^(Bits - 1) THEN n - 2^Bits ELSE n

Infinite == -1

\* uv__next_timeout
NextTimeout ==
    LET t     == First(heap, timer)
        delta == Signed((timer[t].due - time) % 2^Bits)
        diff  == timer[t].due - time
    IN  IF t = Null THEN Infinite
        ELSE IF system = "win" THEN IF delta >= MaxWait THEN MaxWait ELSE IF delta < 0 THEN 0 ELSE delta
        ELSE IF diff <= 0 THEN 0 ELSE IF diff > MaxWait THEN MaxWait ELSE diff

-----------------------------------------------------------------------------

TimersInit ==
    /\ uses \in DOMAIN TimerUses /\ system \in TimerUses[uses].systems
    /\ heap = IF system = "unix" THEN EmptyHeap ELSE {}
    /\ timer = [t \in TimerSet |-> [due |-> 0, repeat |-> 0, start_id |-> 0, active |-> FALSE, cb |-> FALSE]]
    /\ counter = 0 /\ time = 0
    /\ phase = "client"
    /\ run = [began |-> 0, called |-> << >>]

\* A round of uv__run_timers: the first of the timers, if it is due.
RunTimer ==
    /\ phase = "run"
    /\ LET t == First(heap, timer) IN
          IF t = Null \/ timer[t].due > time
          THEN phase' = "client" /\ UNCHANGED <<heap, timer, counter, run>>
          ELSE /\ Become(TimerAgain(TimerStop(Linked, t), t))
               /\ run' = [run EXCEPT !.called = Append(@, Key(timer, t))]
               /\ phase' = "callback"
    /\ UNCHANGED <<uses, system, time>>

Returns == phase = "callback" /\ phase' = "run" /\ UNCHANGED <<uses, system, heap, timer, counter, time, run>>

\* The loop waits, for as long as it may or until something else wakes it, and later still
\* looks at its clock.
Wait ==
    /\ phase = "client"
    /\ phase' = "run"
    /\ time' \in time..TimerUses[uses].time
    /\ run' = [began |-> counter, called |-> << >>]
    /\ UNCHANGED <<uses, system, heap, timer, counter>>

Starts(t) == counter < TimerUses[uses].starts /\ (TimerUses[uses].once => t = counter + 1)

\* A callback's calls.
ClientCalls ==
    /\ phase # "run"
    /\ \E t \in DOMAIN TimerUses[uses].timeouts :
          \/ /\ Starts(t)
             /\ \E timeout \in TimerUses[uses].timeouts[t], repeat \in TimerUses[uses].repeats : Become(TimerStart(Linked, t, timeout, repeat))
          \/ timer[t].active /\ Become(TimerStop(Linked, t))
          \/ Starts(t) /\ timer[t].cb /\ Become(TimerAgain(Linked, t))
          \/ \E repeat \in TimerUses[uses].repeats :            \* uv_timer_set_repeat
                timer[t].cb /\ Become([Linked EXCEPT !.timer[t].repeat = repeat])
    /\ UNCHANGED <<uses, system, time, phase, run>>

TimersNext == RunTimer \/ Returns \/ Wait \/ ClientCalls

-----------------------------------------------------------------------------

Active == {t \in TimerSet : timer[t].active}

Placed == {Place(heap, k) : k \in 1..heap.nelts}

\* The heap is a complete tree of the timers that are active, each node under one that
\* is not after it and linked both ways, whatever is inserted and removed anywhere in
\* it (heap_insert, heap_remove, heap_node_swap).
HeapIsATree ==
    system = "unix" =>
        /\ Placed = Active /\ heap.nelts = Cardinality(Active)
        /\ heap.nelts > 0 => heap.parent[heap.min] = Null
        /\ \A k \in 2..heap.nelts :
              /\ heap.parent[Place(heap, k)] = Place(heap, k \div 2)
              /\ ~Less(timer, Place(heap, k), Place(heap, k \div 2))

\* The loop waits neither past the time a timer is due nor for ever with a timer to call;
\* it waits at all unless one is due, or, on Windows, due further away than an int64_t
\* can tell (uv__next_timeout).
WaitsForTheFirst ==
    phase = "client" =>
        /\ NextTimeout = Infinite <=> Active = {}
        /\ \A t \in Active : timer[t].due <= time \/ NextTimeout <= timer[t].due - time
        /\ NextTimeout = 0 => \E t \in Active : \/ timer[t].due <= time
                                                \/ system = "win" /\ timer[t].due - time >= 2^(Bits - 1)

\* Timers are called no earlier than they are due, and those of one iteration in the order
\* in which they are due, those due at once in the order in which they were started, but
\* for those started meanwhile by the callbacks.
CalledInOrder ==
    /\ \A i \in DOMAIN run.called : run.called[i][1] <= time
    /\ \A i, j \in DOMAIN run.called :
          i < j /\ run.called[i][2] < run.began /\ run.called[j][2] < run.began
              => Before(run.called[i], run.called[j])

\* Timers come when they are due and in order.
TimersAreRight == HeapIsATree /\ WaitsForTheFirst /\ CalledInOrder
=============================================================================
