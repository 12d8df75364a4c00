------------------------------ MODULE JobQueue ------------------------------
(***************************************************************************)
(* crates/spindle-queue/src/lib.rs: a bounded mpsc channel, one dispatcher *)
(* task and a semaphore of MaxJobs permits.                                *)
(*                                                                         *)
(* submit() is a try_send, so it never waits: the job enters the channel,  *)
(* or the channel is full, or the receiver has closed it.  The dispatcher  *)
(* selects between the next job and the shutdown token; once it holds a    *)
(* job it awaits a permit, and that await is outside the select, so        *)
(* neither shutdown nor anything else but a free permit ends it.  The      *)
(* channel has given the slot of that job back by then.  A job runs in a   *)
(* task of its own, which owns the permit and drops it when the job        *)
(* returns or panics.                                                      *)
(***************************************************************************)
EXTENDS Integers, Sequences, FiniteSets, Functions

CONSTANTS Job,       \* jobs (a submitted closure is used once)
          MaxJobs,   \* max_jobs: permits of the semaphore
          QueueSize  \* queue_size: capacity of the channel

\* mpsc::channel panics on a capacity of 0; Semaphore::new(0) is legal.
ASSUME QueueAssumption == MaxJobs \in Nat /\ QueueSize \in Nat \ {0}

VARIABLES buffer,      \* jobs in the channel, oldest first
          holding,     \* <<j>> while the dispatcher holds j and awaits a permit
          dispatcher,  \* where run_dispatcher is
          permits,     \* available permits
          running,     \* jobs whose task owns a permit
          shutdown,    \* the cancellation token
          handle,      \* FALSE once the JobQueue (the only sender) is dropped
          outcome,     \* what submit returned for each job
          finished,    \* jobs whose task ended
          abandoned    \* accepted jobs dropped with the channel

token == <<shutdown, handle>>
ended == <<finished, abandoned>>
queueVars == <<buffer, holding, dispatcher, permits, running, token, outcome, ended>>

Outcome == {"new", "ok", "full", "closed"}

\* receiving: in the select; acquiring: awaiting a permit with a job in hand;
\* closing: out of the loop, rx.close() not yet called; stopped: returned.
Place == {"receiving", "acquiring", "closing", "stopped"}

-----------------------------------------------------------------------------
(* JobQueue::new                                                           *)

Init ==
    /\ buffer = <<>>
    /\ holding = <<>>
    /\ dispatcher = "receiving"
    /\ permits = MaxJobs
    /\ running = {}
    /\ shutdown = FALSE
    /\ handle = TRUE
    /\ outcome = [j \in Job |-> "new"]
    /\ finished = {}
    /\ abandoned = {}

-----------------------------------------------------------------------------
(* JobQueue::submit.  Between the break out of the loop and rx.close() the *)
(* channel is still open: a job accepted there is never run.               *)

Return(j, result) ==
    /\ handle
    /\ outcome[j] = "new"
    /\ outcome' = [outcome EXCEPT ![j] = result]
    /\ UNCHANGED <<holding, dispatcher, permits, running, token, ended>>

HasRoom_OffByOne == Len(buffer) <= QueueSize
HasRoom == Len(buffer) < QueueSize

SubmitOk(j) ==
    /\ dispatcher # "stopped" /\ HasRoom
    /\ buffer' = Append(buffer, j)
    /\ Return(j, "ok")

SubmitFull(j) ==
    /\ dispatcher # "stopped" /\ ~HasRoom
    /\ Return(j, "full")
    /\ UNCHANGED buffer

SubmitClosed(j) ==
    /\ dispatcher = "stopped"
    /\ Return(j, "closed")
    /\ UNCHANGED buffer

-----------------------------------------------------------------------------
(* run_dispatcher                                                          *)

\* rx.recv(): the job it returns and what it leaves in the channel.
Recv_Newest == [job |-> buffer[Len(buffer)], rest |-> SubSeq(buffer, 1, Len(buffer) - 1)]
Recv_Peeked == [job |-> Head(buffer), rest |-> buffer]
Recv == [job |-> Head(buffer), rest |-> Tail(buffer)]

Receive ==
    /\ dispatcher = "receiving"
    /\ buffer # <<>>
    /\ dispatcher' = "acquiring"
    /\ holding' = <<Recv.job>>
    /\ buffer' = Recv.rest
    /\ UNCHANGED <<permits, running, token, outcome, ended>>

\* The semaphore is never closed, so acquire_owned() returns only with a permit.
StartJob ==
    /\ dispatcher = "acquiring"
    /\ permits > 0
    /\ dispatcher' = "receiving"
    /\ permits' = permits - 1
    /\ running' = running \cup Range(holding)
    /\ holding' = <<>>
    /\ UNCHANGED <<buffer, token, outcome, ended>>

\* The task returns or unwinds: either way its permit is dropped.
Finish_PermitLeaked(j) ==
    /\ j \in running
    /\ running' = running \ {j}
    /\ finished' = finished \cup {j}
    /\ UNCHANGED <<buffer, holding, dispatcher, permits, token, outcome, abandoned>>

Finish(j) ==
    /\ j \in running
    /\ running' = running \ {j}
    /\ finished' = finished \cup {j}
    /\ permits' = permits + 1
    /\ UNCHANGED <<buffer, holding, dispatcher, token, outcome, abandoned>>

\* The two ways out of the select: the token, or an empty channel without sender.
MayStop_TokenIgnored == ~handle /\ buffer = <<>>
MayStop_BacklogForgotten == shutdown \/ ~handle
MayStop == shutdown \/ (~handle /\ buffer = <<>>)

Stop ==
    /\ dispatcher = "receiving"
    /\ MayStop
    /\ dispatcher' = "closing"
    /\ UNCHANGED <<buffer, holding, permits, running, token, outcome, ended>>

\* rx.close(), and the receiver goes out of scope with what is still in it.
CloseChannel ==
    /\ dispatcher = "closing"
    /\ dispatcher' = "stopped"
    /\ abandoned' = abandoned \cup Range(buffer)
    /\ buffer' = <<>>
    /\ UNCHANGED <<holding, permits, running, token, outcome, finished>>

-----------------------------------------------------------------------------
(* The owner of the queue: run_server cancels the token; the last Arc of   *)
(* the orchestrator context goes away.                                     *)

Shutdown ==
    /\ ~shutdown
    /\ shutdown' = TRUE
    /\ UNCHANGED <<buffer, holding, dispatcher, permits, running, handle, outcome>>
    /\ UNCHANGED ended

DropHandle ==
    /\ handle
    /\ handle' = FALSE
    /\ UNCHANGED <<buffer, holding, dispatcher, permits, running, shutdown, outcome>>
    /\ UNCHANGED ended

-----------------------------------------------------------------------------

Dispatch == Receive \/ StartJob \/ Stop \/ CloseChannel

Next ==
    \/ \E j \in Job : \/ SubmitOk(j)
                      \/ SubmitFull(j)
                      \/ SubmitClosed(j)
                      \/ Finish(j)
    \/ Dispatch
    \/ Shutdown
    \/ DropHandle

Spec == Init /\ [][Next]_queueVars

\* The runtime polls every task that is ready, and a job ends: the orchestrator
\* wraps each one in a timeout.
Fairness == WF_queueVars(Dispatch) /\ \A j \in Job : WF_queueVars(Finish(j))

FairSpec == Spec /\ Fairness

-----------------------------------------------------------------------------
(* Properties                                                              *)

\* Every variable keeps its type, and the channel its capacity.
TypeOK ==
    /\ buffer \in Seq(Job)
    /\ Len(buffer) <= QueueSize
    /\ holding \in {<<>>} \cup {<<j>> : j \in Job}
    /\ dispatcher \in Place
    /\ permits \in 0..MaxJobs
    /\ running \subseteq Job
    /\ shutdown \in BOOLEAN
    /\ handle \in BOOLEAN
    /\ outcome \in [Job -> Outcome]
    /\ finished \subseteq Job
    /\ abandoned \subseteq Job

\* The semaphore's arithmetic: at every instant each permit is either free or
\* owned by exactly one running job, so never more than MaxJobs jobs run, and
\* no permit is ever lost (lib.rs "limits the number of concurrent ...").
PermitsAccounted == Cardinality(running) + permits = MaxJobs

Accepted == {j \in Job : outcome[j] = "ok"}

\* A job for which submit returned Ok is in exactly one place, from the moment
\* submit returns: the channel, the dispatcher's hand, a worker, finished, or
\* dropped by a dispatcher that stopped.  A refused job is in none of them.
OnePlacePerJob ==
    /\ Accepted = Range(buffer) \cup Range(holding) \cup running
                      \cup finished \cup abandoned
    /\ \A a, b \in 1..Len(buffer) : buffer[a] = buffer[b] => a = b
    /\ Range(buffer) \cap (Range(holding) \cup running \cup finished \cup abandoned) = {}
    /\ Range(holding) \cap (running \cup finished \cup abandoned) = {}
    /\ running \cap (finished \cup abandoned) = {}
    /\ finished \cap abandoned = {}

\* Only a dispatcher that has left its loop loses jobs: while the process is
\* up and the queue open, whatever submit accepted is still going to run.
LostOnlyByClosing == abandoned # {} => dispatcher = "stopped" /\ shutdown

\* What makes the invariants above inductive: the dispatcher has a job in hand
\* exactly while it waits for a permit, and it leaves its loop only on the token
\* or, with nothing left to run, once no sender can bring anything.
DispatcherConsistent ==
    /\ IsFiniteSet(running)
    /\ dispatcher = "acquiring" <=> holding # <<>>
    /\ dispatcher = "stopped" => buffer = <<>>
    /\ dispatcher \in {"closing", "stopped"} =>
           shutdown \/ (~handle /\ buffer = <<>>)

\* The inductive invariant of the queue.
QueueInv ==
    /\ TypeOK
    /\ DispatcherConsistent
    /\ PermitsAccounted
    /\ OnePlacePerJob
    /\ LostOnlyByClosing

\* The queue is a WorkerPool with one place more than queue_size: the job in the
\* dispatcher's hand waits too, whatever lib.rs:58 says of queue_size ("Maximum
\* number of pending jobs waiting for a worker").  Jobs start in submission order.
Pool == INSTANCE WorkerPool
            WITH Workers <- MaxJobs,
                 Room <- QueueSize + 1,
                 waiting <- holding \o buffer,
                 open <- dispatcher # "stopped"

ImplementsPool == Pool!Spec

\* Every accepted job is run to its end, unless the queue is shut down first.
AcceptedIsServed ==
    \A j \in Job : outcome[j] = "ok" ~> j \in finished \cup abandoned

\* The shutdown token stops the queue, however long the line is.
ShutdownStops == shutdown ~> dispatcher = "stopped"
=============================================================================
