------------------------------- MODULE MCPool -------------------------------
(***************************************************************************)
(* Small instances for TLC of the thread pool, and of the primitives       *)
(* threads meet in: a behaviour is about the one or about the others.      *)
(***************************************************************************)
EXTENDS PoolProps, Threads

CONSTANTS w1, w2, work1, work2, work3, write1, resolve1, ctx1, ctx2, t1, t2, t3

VARIABLE part      \* "pool" or "threads"

Using(windows, requests, n) ==
    [windows |-> windows, requests |-> requests, polls |-> FALSE, file |-> {}, calls |-> n]

Polling(p, file) == [p EXCEPT !.polls = TRUE, !.file = file]

ProgramsDef ==
    {Using(FALSE, {work1, work2, work3}, 4),
     Using(TRUE, {write1, resolve1}, 3),
     Using(FALSE, {resolve1, work1}, 3),
     Using(FALSE, {write1}, 3),
     Polling(Using(FALSE, {}, 4), {"old"}),
     Polling(Using(FALSE, {}, 2), {"old", "new", "ENOENT", "EACCES"}),
     Polling(Using(TRUE, {work1}, 3), {"old"})}

Meeting(p, n) == [primitive |-> p, rounds |-> n]

Signalling(how, n, chained, timed) ==
    [primitive |-> "cond", rounds |-> n, signals |-> how, chained |-> chained, timed |-> timed]

UsesDef ==
    {Meeting("once", 2), Meeting("rwlock", 2), Meeting("barrier", 3), Meeting("pthread_barrier", 1),
     Signalling("broadcast", 1, FALSE, TRUE), Signalling("broadcast", 2, FALSE, FALSE),
     Signalling("signal", 1, TRUE, FALSE)}

allVars == <<part, vars, threadVars>>

MCInit ==
    \/ part = "pool" /\ Init /\ ThreadsInit /\ use = CHOOSE u \in Uses : TRUE
    \/ part = "threads" /\ ThreadsInit /\ Init /\ program = CHOOSE p \in Programs : TRUE

MCNext ==
    \/ part = "pool" /\ Next /\ UNCHANGED <<part, threadVars>>
    \/ part = "threads" /\ ThreadsNext /\ UNCHANGED <<part, vars>>

PoolFairness ==
    /\ WF_allVars(part = "pool" /\ LoopStep /\ UNCHANGED <<part, threadVars>>)
    /\ \A w \in Workers : SF_allVars(part = "pool" /\ WorkerStep(w) /\ PollUntouched /\ UNCHANGED <<part, threadVars>>)

ThreadsFairness ==
    /\ \A t \in Threads : WF_allVars(part = "threads" /\ ThreadStep(t) /\ UNCHANGED <<part, vars>>)
    /\ SF_allVars(part = "threads" /\ ThreadStep(Giver) /\ UNCHANGED <<part, vars>>)

MCSpec == MCInit /\ [][MCNext]_allVars /\ PoolFairness /\ ThreadsFairness

\* EveryThreadEnds, of the behaviours about the primitives.
ThreadsMeet == part = "threads" => EveryThreadEnds
=============================================================================
