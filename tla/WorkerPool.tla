----------------------------- MODULE WorkerPool -----------------------------
(***************************************************************************)
(* What the job queue promises to the code that submits to it, with no     *)
(* channel, semaphore or dispatcher: accepted jobs wait in line, at most   *)
(* Workers of them run at a time, they start in the order in which they    *)
(* were accepted, and a job ends at most once.  Closing the pool abandons  *)
(* the jobs that still wait and leaves the running ones alone.             *)
(***************************************************************************)
EXTENDS Integers, Sequences, FiniteSets, Functions

CONSTANTS Job,      \* the jobs callers may submit, each of them once
          Workers,  \* how many jobs may run at a time
          Room      \* how many accepted jobs may wait for a worker

VARIABLES waiting,    \* accepted jobs, oldest first
          running,    \* the jobs that hold a worker
          finished,   \* the jobs that ended
          abandoned,  \* accepted jobs that never ran
          open        \* FALSE once the pool accepts and starts nothing more

poolVars == <<waiting, running, finished, abandoned, open>>

Waiting == Range(waiting)

\* A job the pool has never heard of.
Fresh(j) == j \in Job \ (Waiting \cup running \cup finished \cup abandoned)

Init ==
    /\ waiting = <<>>
    /\ running = {}
    /\ finished = {}
    /\ abandoned = {}
    /\ open = TRUE

Accept(j) ==
    /\ open
    /\ Fresh(j)
    /\ Len(waiting) < Room
    /\ waiting' = Append(waiting, j)
    /\ UNCHANGED <<running, finished, abandoned, open>>

\* Only the job that has waited longest may take a worker.
Start ==
    /\ open
    /\ waiting # <<>>
    /\ Cardinality(running) < Workers
    /\ running' = running \cup {Head(waiting)}
    /\ waiting' = Tail(waiting)
    /\ UNCHANGED <<finished, abandoned, open>>

Finish(j) ==
    /\ j \in running
    /\ running' = running \ {j}
    /\ finished' = finished \cup {j}
    /\ UNCHANGED <<waiting, abandoned, open>>

Close ==
    /\ open
    /\ open' = FALSE
    /\ abandoned' = abandoned \cup Waiting
    /\ waiting' = <<>>
    /\ UNCHANGED <<running, finished>>

Next ==
    \/ \E j \in Job : Accept(j) \/ Finish(j)
    \/ Start
    \/ Close

Spec == Init /\ [][Next]_poolVars
=============================================================================
