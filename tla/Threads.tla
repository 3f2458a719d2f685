------------------------------ MODULE Threads ------------------------------
(***************************************************************************)
(* The synchronisation primitives libuv builds from others: on Windows     *)
(* uv_once, the read-write lock, the condition variable of systems without *)
(* one and the barrier (win/thread.c), and the barrier of Unix systems     *)
(* without one (unix/thread.c).  Threads use one primitive, each going     *)
(* through it a number of rounds; a critical section that waits for        *)
(* nothing is one step.                                                    *)
(***************************************************************************)
EXTENDS Naturals, FiniteSets

CONSTANTS Threads,      \* the threads that use the primitive
          Uses,         \* set of [primitive, rounds]
          Free          \* no thread

ASSUME ThreadsAssumption == IsFiniteSet(Threads) /\ Free \notin Threads

VARIABLES use,          \* the primitive, and the rounds each thread goes through it
          at,           \* of each thread: the point of the call it is in
          round,        \* of each thread: the rounds it has begun
          shared,       \* the fields of the primitive
          log           \* history: [calls, done, serial], see below

threadVars == <<use, at, round, shared, log>>

Fields ==
    [once |-> [event |-> Free, signaled |-> FALSE, ran |-> FALSE],
     rwlock |-> [num_readers |-> 0, num_readers_lock |-> Free, write_semaphore |-> 1],
     cond |-> [mutex |-> Free, waiters_count |-> 0, signal_event |-> FALSE, broadcast_event |-> FALSE,
               given |-> 0, taken |-> 0],
     barrier |-> [count |-> 0, mutex |-> Free, turnstile1 |-> 0, turnstile2 |-> 1],
     pthread_barrier |-> [in |-> 0, out |-> 0, asleep |-> {}]]

ThreadsInit ==
    /\ use \in Uses
    /\ at = [t \in Threads |-> "out"]
    /\ round = [t \in Threads |-> 0]
    /\ shared = Fields[use.primitive]
    /\ log = [calls |-> 0, done |-> FALSE, serial |-> 0]

\* Thread t goes from one point to another, and leaves the fields as f.
Go(t, from, to, f) == at[t] = from /\ at' = [at EXCEPT ![t] = to] /\ shared' = f

Uses1(p) == use.primitive = p /\ UNCHANGED use
Same == UNCHANGED <<round, log>>
Rounds(t) == round' = [round EXCEPT ![t] = @ + 1] /\ round[t] < use.rounds

-----------------------------------------------------------------------------
(* uv_once. *)

\* The fast case, or the event each caller creates.
OnceBegin(t) ==
    /\ Rounds(t) /\ UNCHANGED log
    /\ Go(t, "out", IF shared.ran THEN "out" ELSE "created", shared)

OnceWin(t) == Go(t, "created", "calls back", [shared EXCEPT !.event = t]) /\ shared.event = Free /\ Same

OnceLose(t) == Go(t, "created", "waits", shared) /\ shared.event # Free /\ Same

OnceCallback(t) ==
    /\ Go(t, "calls back", "sets", shared)
    /\ log' = [log EXCEPT !.calls = @ + 1, !.done = TRUE] /\ UNCHANGED round

OnceSet(t) == Go(t, "sets", "marks", [shared EXCEPT !.signaled = TRUE]) /\ Same

OnceRan(t) == Go(t, "marks", "out", [shared EXCEPT !.ran = TRUE]) /\ Same

OnceWait(t) == Go(t, "waits", "out", shared) /\ shared.signaled /\ Same

Once(t) == \/ OnceBegin(t) \/ OnceWin(t) \/ OnceLose(t) \/ OnceCallback(t) \/ OnceSet(t) \/ OnceRan(t)
           \/ OnceWait(t)

-----------------------------------------------------------------------------
(* The read-write lock: the reader count has a lock of its own, and the first reader    *)
(* waits for the writer while it holds it.                                               *)

Begin(t, to) == Go(t, "out", to, shared) /\ Rounds(t) /\ UNCHANGED log

\* EnterCriticalSection.
LockReaders(t, from, to) ==
    /\ Go(t, from, to, [shared EXCEPT !.num_readers_lock = t])
    /\ shared.num_readers_lock = Free
    /\ Same

Rdlock(t) ==
    \/ Begin(t, "rdlock")
    \/ LockReaders(t, "rdlock", "counts")
    \/ /\ Go(t, "counts", IF shared.num_readers = 0 THEN "waits" ELSE "counted",
             [shared EXCEPT !.num_readers = @ + 1])
       /\ Same
    \/ /\ Go(t, "waits", "counted", [shared EXCEPT !.write_semaphore = 0])
       /\ shared.write_semaphore = 1 /\ Same
    \/ Go(t, "counted", "reads", [shared EXCEPT !.num_readers_lock = Free]) /\ Same

Tryrdlock(t) ==
    \/ Begin(t, "tryrdlock")
    \/ LockReaders(t, "tryrdlock", "tries")
    \/ Go(t, "tryrdlock", "out", shared) /\ shared.num_readers_lock # Free /\ Same         \* UV_EBUSY
    \/ /\ IF shared.num_readers = 0
          THEN IF shared.write_semaphore = 1
               THEN Go(t, "tries", "reads", [shared EXCEPT !.write_semaphore = 0, !.num_readers = 1,
                                                           !.num_readers_lock = Free])
               ELSE Go(t, "tries", "out", [shared EXCEPT !.num_readers_lock = Free])
          ELSE Go(t, "tries", "reads", [shared EXCEPT !.num_readers = @ + 1, !.num_readers_lock = Free])
       /\ Same

\* Mutant: every reader that leaves gives the write lock back.
RdunlockEach(t) ==
    \/ LockReaders(t, "reads", "uncounts")
    \/ /\ Go(t, "uncounts", "out", [shared EXCEPT !.num_readers = @ - 1, !.num_readers_lock = Free,
                                                  !.write_semaphore = 1])
       /\ Same

Rdunlock(t) ==
    \/ LockReaders(t, "reads", "uncounts")
    \/ /\ Go(t, "uncounts", "out",
             [shared EXCEPT !.num_readers = @ - 1, !.num_readers_lock = Free,
                            !.write_semaphore = IF shared.num_readers = 1 THEN 1 ELSE @])
       /\ Same

Wrlock(t) ==
    \/ Begin(t, "wrlock")
    \/ Go(t, "wrlock", "writes", [shared EXCEPT !.write_semaphore = 0]) /\ shared.write_semaphore = 1 /\ Same

Trywrlock(t) ==
    /\ IF shared.write_semaphore = 1
       THEN Go(t, "out", "writes", [shared EXCEPT !.write_semaphore = 0])
       ELSE Go(t, "out", "out", shared)
    /\ Rounds(t) /\ UNCHANGED log

Wrunlock(t) == Go(t, "writes", "out", [shared EXCEPT !.write_semaphore = 1]) /\ Same

Rwlock(t) == Rdlock(t) \/ Tryrdlock(t) \/ Rdunlock(t) \/ Wrlock(t) \/ Trywrlock(t) \/ Wrunlock(t)

-----------------------------------------------------------------------------
(* The condition variable made of two events.  One thread gives and signals, the others  *)
(* each wait until there is something to take, as the workers of the thread pool do.     *)

Giver == CHOOSE t \in Threads : TRUE

Inside(where) == {t \in Threads : at[t] \in where}

\* What the others will take in all, and the giver has not given yet.
Left == use.rounds * (Cardinality(Threads) - 1) - shared.given

LockMutex(t, from, to) == Go(t, from, to, [shared EXCEPT !.mutex = t]) /\ shared.mutex = Free

\* uv_cond_signal and uv_cond_broadcast, from under the mutex or after it.
SetEvent(f, event) == IF f.waiters_count > 0 THEN [f EXCEPT ![event] = TRUE] ELSE f

\* One thing a signal, or any number a broadcast and all that is left with the last one.
\* log.serial is 1 once a broadcast was made for new waiters while the last waiter of an
\* earlier one was about to reset the event.
Give(t) ==
    \/ Rounds(t) /\ LockMutex(t, "out", "gives") /\ UNCHANGED log
    \/ /\ use.signals = "signal"
       /\ Go(t, "gives", IF Left = 1 THEN "out" ELSE "again",
             SetEvent([shared EXCEPT !.given = @ + 1, !.mutex = Free], "signal_event"))
       /\ Same
    \/ /\ use.signals = "broadcast"
       /\ \E n \in 0..Left :
             /\ round[t] = use.rounds => n = Left
             /\ Go(t, "gives", "out",
                   SetEvent([shared EXCEPT !.given = @ + n, !.mutex = Free], "broadcast_event"))
       /\ log' = IF shared.waiters_count > 0 /\ Inside({"resets"}) # {}
                 THEN [log EXCEPT !.serial = 1] ELSE log
       /\ UNCHANGED round
    \/ LockMutex(t, "again", "gives") /\ Same

\* A thread that takes passes the signal on, as the last of the thread pool's do, or not.
TakeOrWait(t) ==
    \/ Rounds(t) /\ LockMutex(t, "out", "looks") /\ UNCHANGED log
    \/ /\ IF shared.given > shared.taken
          THEN Go(t, "looks", "out",
                  LET f == [shared EXCEPT !.taken = @ + 1, !.mutex = Free]
                  IN  IF use.chained /\ f.given > f.taken THEN SetEvent(f, "signal_event") ELSE f)
          ELSE Go(t, "looks", "counts", [shared EXCEPT !.waiters_count = @ + 1])
       /\ Same

\* Mutant: the thread counts itself as waiting once it has let go of the mutex.
WaitCountsLate(t) ==
    \/ Go(t, "counts", "counted", [shared EXCEPT !.mutex = Free, !.waiters_count = @ - 1]) /\ Same
    \/ Go(t, "counted", "waits", [shared EXCEPT !.waiters_count = @ + 1]) /\ Same

\* uv_cond_wait_helper: counted, it lets go of the mutex and waits for either event.
Wait(t) == Go(t, "counts", "waits", [shared EXCEPT !.mutex = Free]) /\ Same

\* The wait returns; the thread is counted out; the last one told by a broadcast resets
\* the event.  log.done is TRUE once that took a later broadcast from a thread about to
\* wait for it.
Woken(t) ==
    \/ /\ shared.signal_event
       /\ Go(t, "waits", "signalled", [shared EXCEPT !.signal_event = FALSE]) /\ Same
    \/ /\ ~shared.signal_event /\ shared.broadcast_event
       /\ Go(t, "waits", "broadcasted", shared) /\ Same
    \/ Go(t, "signalled", "woken", [shared EXCEPT !.waiters_count = @ - 1]) /\ Same
    \/ /\ Go(t, "broadcasted", IF shared.waiters_count = 1 THEN "resets" ELSE "woken",
             [shared EXCEPT !.waiters_count = @ - 1])
       /\ Same
    \/ /\ Go(t, "resets", "woken", [shared EXCEPT !.broadcast_event = FALSE])
       /\ log' = IF log.serial = 1 /\ Inside({"waits"}) # {} THEN [log EXCEPT !.done = TRUE] ELSE log
       /\ UNCHANGED round
    \/ LockMutex(t, "woken", "looks") /\ Same

\* uv_cond_timedwait: a timeout wakes the waiter too, and what it waits for is looked at
\* (one timeout in a behaviour).
TimesOut(t) ==
    /\ use.timed /\ log.calls = 0
    /\ Go(t, "waits", "signalled", shared)
    /\ log' = [log EXCEPT !.calls = 1] /\ UNCHANGED round

Cond(t) == IF t = Giver THEN Give(t) ELSE TakeOrWait(t) \/ Wait(t) \/ Woken(t) \/ TimesOut(t)

-----------------------------------------------------------------------------
(* The barrier of two turnstiles. *)

N == Cardinality(Threads)

Arrive(t) ==
    \/ /\ Rounds(t) /\ UNCHANGED log
       /\ Go(t, "out", IF shared.count + 1 = N THEN "closes_second" ELSE "first",
             [shared EXCEPT !.count = @ + 1, !.mutex = IF shared.count + 1 = N THEN t ELSE Free])
       /\ shared.mutex = Free
    \/ /\ Go(t, "closes_second", "first", [shared EXCEPT !.turnstile2 = @ - 1, !.turnstile1 = @ + 1, !.mutex = Free])
       /\ shared.turnstile2 > 0 /\ Same

Pass1(t) ==
    \/ Go(t, "first", "posts_first", [shared EXCEPT !.turnstile1 = @ - 1]) /\ shared.turnstile1 > 0 /\ Same
    \/ Go(t, "posts_first", "leaves", [shared EXCEPT !.turnstile1 = @ + 1]) /\ Same

Depart(t) ==
    \/ /\ Go(t, "leaves", IF shared.count = 1 THEN "closes_first" ELSE "second",
             [shared EXCEPT !.count = @ - 1, !.mutex = IF shared.count = 1 THEN t ELSE Free])
       /\ shared.mutex = Free
       /\ log' = IF shared.count = 1 THEN [log EXCEPT !.serial = @ + 1] ELSE log
       /\ UNCHANGED round
    \/ /\ Go(t, "closes_first", "second", [shared EXCEPT !.turnstile1 = @ - 1, !.turnstile2 = @ + 1, !.mutex = Free])
       /\ shared.turnstile1 > 0 /\ Same

Pass2(t) ==
    \/ Go(t, "second", "posts_second", [shared EXCEPT !.turnstile2 = @ - 1]) /\ shared.turnstile2 > 0 /\ Same
    \/ Go(t, "posts_second", "out", [shared EXCEPT !.turnstile2 = @ + 1]) /\ Same

Barrier(t) == Arrive(t) \/ Pass1(t) \/ Depart(t) \/ Pass2(t)

-----------------------------------------------------------------------------
(* The barrier of a count and a condition variable of pthreads, whose waiters may wake   *)
(* for nothing.                                                                          *)

Woke(s) == IF s = {} THEN {s} ELSE {s \ {t} : t \in s}

PthreadArrive(t) ==
    /\ Rounds(t)
    /\ IF shared.in + 1 = N
       THEN /\ \E s \in Woke(shared.asleep) :
                  Go(t, "out", "out", [shared EXCEPT !.in = 0, !.out = N - 1, !.asleep = s])
            /\ log' = [log EXCEPT !.serial = @ + 1]
       ELSE /\ Go(t, "out", "waits", [shared EXCEPT !.in = @ + 1, !.asleep = @ \cup {t}])
            /\ UNCHANGED log

PthreadWake(t) == at[t] = "waits" /\ t \in shared.asleep
                  /\ Go(t, "waits", "waits", [shared EXCEPT !.asleep = @ \ {t}]) /\ Same

PthreadLeave(t) ==
    /\ at[t] = "waits" /\ t \notin shared.asleep
    /\ IF shared.in # 0
       THEN Go(t, "waits", "waits", [shared EXCEPT !.asleep = @ \cup {t}])
       ELSE \E s \in Woke(shared.asleep) : Go(t, "waits", "out", [shared EXCEPT !.out = @ - 1, !.asleep = s])
    /\ Same

-----------------------------------------------------------------------------

ThreadStep(t) ==
    \/ Uses1("once") /\ Once(t)
    \/ Uses1("rwlock") /\ Rwlock(t)
    \/ Uses1("cond") /\ Cond(t)
    \/ Uses1("barrier") /\ Barrier(t)
    \/ Uses1("pthread_barrier") /\ (PthreadArrive(t) \/ PthreadLeave(t))

SpuriousWake(t) == Uses1("pthread_barrier") /\ PthreadWake(t)

ThreadsNext == \E t \in Threads : ThreadStep(t) \/ SpuriousWake(t)

ThreadsSpec == ThreadsInit /\ [][ThreadsNext]_threadVars

\* uv_once calls back once, and no caller gets past it before the callback has returned,
\* however many race for it.
OnceIsDone == log.calls <= 1 /\ \A t \in Threads : at[t] = "out" /\ round[t] > 0 => log.done

\* A writer is alone, and the write lock is free exactly when nobody is inside (trylocks
\* that fail and readers that wait for the writer included).
ReadersExcludeWriters ==
    LET readers == Inside({"reads", "uncounts"})
        writers == Inside({"writes"})
    IN  /\ Cardinality(writers) <= 1
        /\ writers # {} => readers = {}
        /\ shared.write_semaphore = 1 => readers = {} /\ writers = {}

\* Nobody leaves a barrier before everyone has come to it in that round, and one thread of
\* each round is told it is the serial one.
RoundsAreKept ==
    /\ \A t, u \in Threads : at[t] = "out" => round[u] >= round[t]
    /\ (\A t \in Threads : at[t] = "out") => \A t \in Threads : log.serial = round[t]

\* What each primitive promises the threads that meet in it (win/thread.c and the barrier
\* of unix/thread.c).
PrimitivesHold ==
    /\ use.primitive = "once" => OnceIsDone
    /\ use.primitive = "rwlock" => ReadersExcludeWriters
    /\ use.primitive \in {"barrier", "pthread_barrier"} => RoundsAreKept

Through(t) == at[t] = "out" /\ round[t] = use.rounds

\* The wake-up that is lost: a broadcast for a thread that has let go of the mutex but
\* does not wait yet, erased by the last waiter of the broadcast before (win/thread.c:
\* 537-548), though "manual-reset events maintain state ... This avoids the "lost wakeup"
\* bug" (528-530).  Whoever is not through is waiting for it.
BroadcastIsLost ==
    /\ use.primitive = "cond" /\ log.done
    /\ \A t \in Threads : Through(t) \/ at[t] = "waits"

\* Every thread gets through the primitive, round after round: no wake-up is lost and
\* nobody waits for one who waits for him.  The exception is exact: a broadcast that the
\* reset of an earlier one erases.
EveryThreadEnds == <>((\A t \in Threads : Through(t)) \/ BroadcastIsLost)
=============================================================================
