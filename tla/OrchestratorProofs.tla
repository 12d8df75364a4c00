---------------------- MODULE OrchestratorProofs ----------------------
(***************************************************************************)
(* What the orchestrator keeps, for every set of pipeline events and       *)
(* manifests, every number of permits and places, and any number of        *)
(* faults, cancellations and restarts.                                     *)
(*                                                                         *)
(* WorkInv joins what the queue knows of a pipeline to what its job and    *)
(* tasks are doing, EnvInv adds a task to each environment, and LifeInv    *)
(* the phases a pipeline event and its workflows go through: TypeInv and   *)
(* the queue's contract follow from it.  CarriedInv adds a carrier to each *)
(* row that is not settled; OwnInv joins a row to its events when each     *)
(* workflow has an id of its own (OwnIds).                                 *)
(***************************************************************************)
EXTENDS Orchestrator, SequenceTheorems, FiniteSetTheorems, WellFoundedInduction, TLAPS

JobPlace == {"none", "secrets", "joining", "done"}
TaskState == [at : Awaiting \cup {"none", "announce", "record", "report", "over"},
              result : {"none", "success", "failed", "timeout", "nolog"}]

\* The parts of the type invariant the argument needs.
Types ==
    /\ job \in [Delivery -> JobPlace]
    /\ task \in [Task -> TaskState]
    /\ outcome \in [Delivery -> {"new", "ok", "full", "closed"}]
    /\ buffer \in Seq(Delivery)

\* The dispatcher awaits a permit exactly with a pipeline in its hand.
HandFull ==
    /\ dispatcher = "acquiring" => \E d \in Delivery : holding = <<d>>
    /\ dispatcher # "acquiring" => holding = <<>>

\* A pipeline waits in one place, and its job has not begun.
WaitsOnce ==
    /\ \A i \in 1 .. Len(buffer) : job[buffer[i]] = "none" /\ outcome[buffer[i]] = "ok"
    /\ \A i, j \in 1 .. Len(buffer) : buffer[i] = buffer[j] => i = j
    /\ holding # <<>> =>
          /\ job[holding[1]] = "none" /\ outcome[holding[1]] = "ok"
          /\ \A i \in 1 .. Len(buffer) : buffer[i] # holding[1]

\* A job that has begun was accepted, and holds a permit until it is done.
JobUnderPermit ==
    \A d \in Delivery :
        /\ job[d] # "none" => outcome[d] = "ok"
        /\ job[d] \in {"secrets", "joining"} => d \in running

\* A task is alive only while its job awaits it, or after the pipeline timeout.
TaskUnderJob ==
    \A t \in Task : Live(t) => job[t[1]] = "joining" \/ t[1] \in expired

\* The event loop, when it has something in hand, has a pipeline event, and in its
\* loops the entries it has not finished.
Looping == {"row", "event", "failrow", "failevent"}
IntakeHasEvent ==
    \/ intake = Idle
    \/ \E a \in Looping \cup {"submit"}, d \in Delivery : \E l \in SUBSET Entries(d) :
           /\ intake = [at |-> a, d |-> d, left |-> l] /\ Entries(d) # {}
           /\ a \in Looping => l # {}

WorkInv ==
    /\ Types /\ HandFull /\ WaitsOnce
    /\ JobUnderPermit /\ TaskUnderJob /\ IntakeHasEvent

-----------------------------------------------------------------------------

\* A task belongs to a pipeline event.
LEMMA TaskOfDelivery == \A t \in Task : t[1] \in Delivery
  BY DEF Task

\* A non-empty set of positions has a smallest one.
LEMMA MinOfPositions ==
    ASSUME NEW T, T \subseteq Nat, T # {}
    PROVE  Min(T) \in T
<1>1. \E x \in T : \A y \in T : ~(<<y, x>> \in OpToRel(<, Nat))
  BY WFMin, NatLessThanWellFounded
<1>2. \A x, y \in T : <<y, x>> \notin OpToRel(<, Nat) => x =< y
  BY DEF OpToRel
<1>3. \E x \in T : \A y \in T : x =< y
  BY <1>1, <1>2
<1> QED
  BY <1>3 DEF Min

\* The invariant says more than the property.
LEMMA WorkInvImplies == WorkInv => WorkUnderPermit
  BY TaskOfDelivery DEF WorkInv, JobUnderPermit, TaskUnderJob, WorkUnderPermit

\* It holds at the start.
LEMMA InitWorkInv == Init => WorkInv
<1> SUFFICES ASSUME Init PROVE WorkInv
  OBVIOUS
<1>1. Types
  BY DEF Init, Queue!Init, Types, JobPlace, TaskState, NoTask
<1>2. HandFull /\ WaitsOnce /\ JobUnderPermit
  BY DEF Init, Queue!Init, HandFull, WaitsOnce, JobUnderPermit
<1>3. TaskUnderJob
  BY DEF Init, TaskUnderJob, Live, NoTask
<1>4. IntakeHasEvent
  BY DEF Init, IntakeHasEvent
<1> QED
  BY <1>1, <1>2, <1>3, <1>4 DEF WorkInv

\* Steps in which only the event loop, the tables or the counters move.
LEMMA QuietSteps ==
    ASSUME WorkInv, IntakeHasEvent',
           UNCHANGED <<buffer, holding, dispatcher, running, outcome, job, expired, task>>
    PROVE  WorkInv'
  BY DEF WorkInv, Types, HandFull, WaitsOnce, JobUnderPermit, TaskUnderJob, Live

\* The entry that the event loop is at is one of those it has not finished.
LEMMA CurrentIsLeft ==
    ASSUME IntakeHasEvent, intake.at \in Looping
    PROVE  /\ Current \in intake.left /\ intake.left \subseteq Entries(intake.d)
           /\ intake.d \in Delivery
<1>1. /\ intake.left # {} /\ intake.left \subseteq Entries(intake.d)
      /\ intake.d \in Delivery
  BY DEF IntakeHasEvent, Looping, Idle
<1>2. Entries(intake.d) \subseteq Nat
  BY <1>1, OrchestratorAssumption DEF Entries
<1> QED
  BY <1>1, <1>2, MinOfPositions DEF Current

\* The event loop keeps its event from one write to the next.
LEMMA LoopKeepsEvent ==
    ASSUME WorkInv, NEW write \in {"row", "failrow"}, NEW event \in {"event", "failevent"},
           NEW s, NEW table, NEW after,
           LoopStep(write, event, s, table, after),
           after = Idle \/ after = [intake EXCEPT !.at = "submit", !.left = {}]
    PROVE  IntakeHasEvent'
<1> PICK a \in Looping \cup {"submit"}, d \in Delivery : \E k \in SUBSET Entries(d) :
           intake = [at |-> a, d |-> d, left |-> k] /\ Entries(d) # {} /\ (a \in Looping => k # {})
  BY DEF WorkInv, IntakeHasEvent, LoopStep, Idle
<1> PICK l \in SUBSET Entries(d) :
           intake = [at |-> a, d |-> d, left |-> l] /\ Entries(d) # {} /\ (a \in Looping => l # {})
  OBVIOUS
<1>1. a \in Looping
  BY DEF LoopStep, Looping
<1>2. Current \in l
  BY <1>1, CurrentIsLeft DEF WorkInv
<1>3. \/ intake' = [at |-> event, d |-> d, left |-> l]
      \/ intake' = [at |-> write, d |-> d, left |-> l \ {Current}] /\ l # {Current}
      \/ intake' = Idle
      \/ intake' = [at |-> "submit", d |-> d, left |-> {}]
  BY DEF LoopStep
<1> QED
  BY <1>1, <1>2, <1>3 DEF IntakeHasEvent, Looping

\* Taking an event, and announcing its workflows, pending or failed.
LEMMA IntakeSteps ==
    ASSUME WorkInv, AnnouncePending \/ AnnounceRefusal \/ \E d \in Delivery : Take(d)
    PROVE  WorkInv'
<1>1. CASE AnnouncePending
  <2>1. IntakeHasEvent'
    BY <1>1, LoopKeepsEvent DEF AnnouncePending
  <2> QED
    BY <1>1, <2>1, QuietSteps DEF AnnouncePending, pools
<1>2. CASE AnnounceRefusal
  <2>1. IntakeHasEvent'
    BY <1>2, LoopKeepsEvent DEF AnnounceRefusal
  <2> QED
    BY <1>2, <2>1, QuietSteps DEF AnnounceRefusal, pools
<1>3. ASSUME NEW d \in Delivery, Take(d) PROVE WorkInv'
  <2>1. \/ intake' = Idle
        \/ /\ intake' = [at |-> "row", d |-> d, left |-> Entries(d)]
           /\ Entries(d) # {}
    BY <1>3 DEF Take
  <2>2. IntakeHasEvent'
    BY <2>1 DEF IntakeHasEvent, Looping
  <2> QED
    BY <1>3, <2>2, QuietSteps DEF Take, pools
<1> QED
  BY <1>1, <1>2, <1>3

\* submit appends a pipeline that was never submitted before, or changes nothing
\* but its outcome.
LEMMA SubmitStep == ASSUME WorkInv, Submit PROVE WorkInv'
<1> PICK d \in Delivery : \E a, l : intake = [at |-> a, d |-> d, left |-> l] /\ Entries(d) # {}
  BY DEF WorkInv, IntakeHasEvent, Submit, Idle
<1>1. intake.at = "submit" /\ intake.d = d /\ d \in Delivery /\ Entries(d) # {}
  BY DEF Submit
<1>2. outcome[d] = "new" /\ \E r : outcome' = [outcome EXCEPT ![d] = r]
  BY <1>1 DEF Submit, Queue!SubmitOk, Queue!SubmitFull, Queue!SubmitClosed, Queue!Return
<1>3. UNCHANGED <<holding, dispatcher, running, job, expired, task>>
  BY DEF Submit, Queue!SubmitOk, Queue!SubmitFull, Queue!SubmitClosed, Queue!Return
<1>4. IntakeHasEvent'
  <2>1. intake' = Idle \/ intake' = [at |-> "failrow", d |-> d, left |-> Entries(d)]
    BY <1>1 DEF Submit, Refused
  <2> QED
    BY <1>1, <2>1 DEF IntakeHasEvent, Looping
<1>5. job[d] = "none"
  BY <1>1, <1>2 DEF WorkInv, JobUnderPermit
<1>6. HandFull' /\ TaskUnderJob'
  BY <1>3 DEF WorkInv, HandFull, TaskUnderJob, Live
<1>7. JobUnderPermit'
  BY <1>1, <1>2, <1>3, <1>5 DEF WorkInv, Types, JobUnderPermit
<1>8. CASE Queue!SubmitOk(intake.d)
  <2>1. buffer' = Append(buffer, d) /\ outcome' = [outcome EXCEPT ![d] = "ok"]
    BY <1>1, <1>8 DEF Queue!SubmitOk, Queue!Return
  <2>2. /\ buffer' \in Seq(Delivery) /\ Len(buffer') = Len(buffer) + 1
        /\ \A i \in 1 .. Len(buffer) : buffer'[i] = buffer[i]
        /\ buffer'[Len(buffer) + 1] = d
    BY <1>1, <2>1 DEF WorkInv, Types
  <2>3. Types'
    BY <1>1, <1>3, <2>1, <2>2 DEF WorkInv, Types
  <2>4. \A i \in 1 .. Len(buffer) : buffer[i] # d /\ buffer[i] \in Delivery
    BY <1>2 DEF WorkInv, WaitsOnce, Types
  <2>5. holding # <<>> => holding[1] # d /\ holding[1] \in Delivery
    BY <1>2 DEF WorkInv, WaitsOnce, HandFull
  <2>6. WaitsOnce'
    BY <1>1, <1>3, <1>5, <2>1, <2>2, <2>4, <2>5 DEF WorkInv, Types, WaitsOnce
  <2> QED
    BY <1>4, <1>6, <1>7, <2>3, <2>6 DEF WorkInv
<1>9. CASE Queue!SubmitFull(intake.d) \/ Queue!SubmitClosed(intake.d)
  <2>1. buffer' = buffer /\ \E r \in {"full", "closed"} : outcome' = [outcome EXCEPT ![d] = r]
    BY <1>1, <1>9 DEF Queue!SubmitFull, Queue!SubmitClosed, Queue!Return
  <2>2. Types'
    BY <1>1, <1>3, <2>1 DEF WorkInv, Types
  <2>3. WaitsOnce'
    BY <1>1, <1>2, <1>3, <2>1 DEF WorkInv, Types, WaitsOnce, HandFull
  <2> QED
    BY <1>4, <1>6, <1>7, <2>2, <2>3 DEF WorkInv
<1> QED
  BY <1>8, <1>9 DEF Submit

\* The dispatcher takes the oldest pipeline in its hand.
LEMMA ReceiveStep ==
    ASSUME WorkInv, Queue!Receive, UNCHANGED <<job, intake, expired, task>>
    PROVE  WorkInv'
<1> DEFINE d == Head(buffer)
<1>1. /\ d = buffer[1] /\ d \in Delivery /\ 1 \in 1 .. Len(buffer)
      /\ Tail(buffer) \in Seq(Delivery) /\ Len(Tail(buffer)) = Len(buffer) - 1
      /\ \A i \in 1 .. Len(Tail(buffer)) : Tail(buffer)[i] = buffer[i + 1]
  BY DEF WorkInv, Types, Queue!Receive
<1>2. /\ buffer' = Tail(buffer) /\ holding' = <<d>> /\ dispatcher' = "acquiring"
      /\ UNCHANGED <<running, outcome, job, expired, task, intake>>
  BY DEF Queue!Receive, Queue!Recv
<1>3. Types' /\ HandFull' /\ JobUnderPermit' /\ TaskUnderJob' /\ IntakeHasEvent'
  BY <1>1, <1>2 DEF WorkInv, Types, HandFull, JobUnderPermit, TaskUnderJob, Live, IntakeHasEvent
<1>4. WaitsOnce'
  <2> DEFINE n == Len(Tail(buffer))
  <2>1. \A i \in 1 .. n : i + 1 \in 1 .. Len(buffer) /\ i + 1 # 1
    BY <1>1 DEF WorkInv, Types
  <2>2. \A i \in 1 .. n : job[Tail(buffer)[i]] = "none" /\ outcome[Tail(buffer)[i]] = "ok"
    BY <1>1, <2>1 DEF WorkInv, WaitsOnce
  <2>3. \A i, j \in 1 .. n : Tail(buffer)[i] = Tail(buffer)[j] => i = j
    BY <1>1, <2>1 DEF WorkInv, WaitsOnce
  <2>4. job[d] = "none" /\ outcome[d] = "ok" /\ \A i \in 1 .. n : Tail(buffer)[i] # d
    BY <1>1, <2>1 DEF WorkInv, WaitsOnce
  <2> HIDE DEF d, n
  <2>5. <<d>> # <<>> /\ <<d>>[1] = d
    OBVIOUS
  <2> QED
    BY <1>2, <2>2, <2>3, <2>4, <2>5 DEF WaitsOnce, n
<1> QED
  BY <1>3, <1>4 DEF WorkInv

\* With a permit, the pipeline in its hand becomes a running job.
LEMMA StartJobStep ==
    ASSUME WorkInv, Queue!StartJob, job' = [job EXCEPT ![Head(holding)] = "secrets"],
           UNCHANGED <<intake, expired, task>>
    PROVE  WorkInv'
<1> PICK d \in Delivery : holding = <<d>>
  BY DEF WorkInv, HandFull, Queue!StartJob
<1>1. holding # <<>> /\ holding[1] = d /\ Head(holding) = d /\ Range(holding) = {d}
  BY DEF Range
<1>2. /\ running' = running \cup {d} /\ holding' = <<>> /\ dispatcher' = "receiving"
      /\ UNCHANGED <<buffer, outcome>>
  BY <1>1 DEF Queue!StartJob, Range, Queue!Range
<1>3. job[d] = "none" /\ outcome[d] = "ok" /\ \A i \in 1 .. Len(buffer) : buffer[i] # d
  BY <1>1 DEF WorkInv, WaitsOnce
<1>4. job' = [job EXCEPT ![d] = "secrets"]
  BY <1>1
<1>5. Types' /\ HandFull' /\ IntakeHasEvent'
  BY <1>2, <1>4 DEF WorkInv, Types, JobPlace, HandFull, IntakeHasEvent
<1>6. WaitsOnce'
  BY <1>2, <1>3, <1>4 DEF WorkInv, Types, WaitsOnce
<1>7. JobUnderPermit'
  BY <1>2, <1>3, <1>4 DEF WorkInv, Types, JobUnderPermit
<1>8. TaskUnderJob'
  BY <1>3, <1>4, TaskOfDelivery DEF WorkInv, Types, TaskUnderJob, Live
<1> QED
  BY <1>5, <1>6, <1>7, <1>8 DEF WorkInv

\* The dispatcher leaves its loop, and the channel is dropped with what is in it.
LEMMA StopSteps ==
    ASSUME WorkInv, Queue!Stop \/ Queue!CloseChannel, UNCHANGED <<job, intake, expired, task>>
    PROVE  WorkInv'
<1>1. /\ holding = <<>> /\ holding' = <<>> /\ dispatcher' # "acquiring"
      /\ UNCHANGED <<running, outcome>>
      /\ buffer' = buffer \/ buffer' = <<>>
  BY DEF Queue!Stop, Queue!CloseChannel, WorkInv, HandFull
<1>2. HandFull' /\ IntakeHasEvent' /\ JobUnderPermit' /\ TaskUnderJob'
  BY <1>1 DEF WorkInv, HandFull, IntakeHasEvent, JobUnderPermit, TaskUnderJob, Live
<1>3. WaitsOnce'
  BY <1>1 DEF WorkInv, WaitsOnce
<1>4. Types'
  <2>1. buffer \in Seq(Delivery) /\ <<>> \in Seq(Delivery)
    BY DEF WorkInv, Types
  <2>2. buffer' \in Seq(Delivery)
    BY <1>1, <2>1, Zenon
  <2> QED
    BY <1>1, <2>2 DEF WorkInv, Types
<1> QED
  BY <1>2, <1>3, <1>4 DEF WorkInv

\* The four steps of the dispatcher.
LEMMA DispatchStep == ASSUME WorkInv, Dispatch PROVE WorkInv'
  BY ReceiveStep, StartJobStep, StopSteps DEF Dispatch

\* The tasks of a job that has its permit are spawned.
LEMMA SpawnStep ==
    ASSUME WorkInv, NEW d \in Delivery, SpawnWorkflows(d)
    PROVE  WorkInv'
<1>1. /\ job[d] = "secrets" /\ job' = [job EXCEPT ![d] = "joining"]
      /\ task' = [t \in Task |-> IF t[1] = d THEN [at |-> "spawned", result |-> "none"]
                                             ELSE task[t]]
      /\ UNCHANGED <<buffer, holding, dispatcher, running, outcome, intake, expired>>
  BY DEF SpawnWorkflows, pools
<1>2. Types'
  BY <1>1 DEF WorkInv, Types, JobPlace, TaskState, Awaiting
<1>3. WaitsOnce'
  <2>1. \A e \in Delivery : job[e] = "none" => job'[e] = "none"
    BY <1>1 DEF WorkInv, Types
  <2> QED
    BY <1>1, <2>1 DEF WorkInv, Types, WaitsOnce, HandFull
<1>4. HandFull' /\ IntakeHasEvent'
  BY <1>1 DEF WorkInv, HandFull, IntakeHasEvent
<1>5. JobUnderPermit'
  BY <1>1 DEF WorkInv, Types, JobUnderPermit
<1>6. TaskUnderJob'
  BY <1>1, TaskOfDelivery DEF WorkInv, Types, TaskUnderJob, Live
<1> QED
  BY <1>2, <1>3, <1>4, <1>5, <1>6 DEF WorkInv

\* A job gives its permit back when its tasks are over, or when it times out; then
\* its pipeline has expired.
LEMMA JobEnds ==
    ASSUME WorkInv, NEW d \in Delivery, JobDone(d) \/ JobTimeout(d)
    PROVE  WorkInv'
<1>1. /\ job[d] # "none" /\ job' = [job EXCEPT ![d] = "done"] /\ running' = running \ {d}
      /\ UNCHANGED <<buffer, holding, dispatcher, outcome, intake, task>>
  BY DEF JobDone, JobTimeout, UnderTimeout, Queue!Finish
<1>2. \/ expired' = expired /\ \A t \in Task : t[1] = d => ~Live(t)
      \/ expired' = expired \cup {d}
  BY DEF JobDone, JobTimeout, Joined, TasksOf, Live
<1>3. Types' /\ HandFull' /\ IntakeHasEvent'
  BY <1>1 DEF WorkInv, Types, JobPlace, HandFull, IntakeHasEvent
<1>4. WaitsOnce'
  <2>1. \A e \in Delivery : job[e] = "none" => job'[e] = "none"
    BY <1>1 DEF WorkInv, Types
  <2> QED
    BY <1>1, <2>1 DEF WorkInv, Types, WaitsOnce, HandFull
<1>5. JobUnderPermit'
  BY <1>1 DEF WorkInv, Types, JobUnderPermit
<1>6. TaskUnderJob'
  BY <1>1, <1>2, TaskOfDelivery DEF WorkInv, Types, TaskUnderJob, Live
<1> QED
  BY <1>3, <1>4, <1>5, <1>6 DEF WorkInv

\* A step of a task moves it from one place of its life to another: it starts
\* none, and brings none back.
LEMMA TaskStep == ASSUME WorkInv, NEW t \in Task, Run(t) PROVE WorkInv'
<1>1. UNCHANGED <<buffer, holding, dispatcher, running, outcome, job, expired, intake>>
  BY DEF Run, pools
<1>2. task[t] \in TaskState
  BY DEF WorkInv, Types
<1>3. Live(t)
  BY DEF Run, MarkRunning, AnnounceRunning, Setup, StepsEnd, WorkflowTimeout, Record, Report,
         Destroy, Abort, Polled, TimedPlaces, Abortable, Awaiting, Live
<1>4. \E r \in TaskState : task' = [task EXCEPT ![t] = r]
  <2>1. ASSUME NEW p \in {"announce", "setup", "steps", "report", "over", "destroy"}, Goto(t, p)
        PROVE  \E r \in TaskState : task' = [task EXCEPT ![t] = r]
    <3> PICK a, q : task[t] = [at |-> a, result |-> q]
      BY <1>2 DEF TaskState
    <3>1. task' = [task EXCEPT ![t] = [at |-> p, result |-> task[t].result]]
      <4>1. task' = [task EXCEPT ![t] = [task[t] EXCEPT !.at = p]]
        BY <2>1 DEF Goto
      <4>2. [task[t] EXCEPT !.at = p] = [at |-> p, result |-> q]
        OBVIOUS
      <4> QED
        BY <4>1, <4>2
    <3> QED
      BY <1>2, <3>1 DEF TaskState, Awaiting
  <2>2. ASSUME NEW r \in {"nolog", "failed", "success", "timeout"}, Ends(t, r)
        PROVE  \E q \in TaskState : task' = [task EXCEPT ![t] = q]
    BY <2>2 DEF Ends, TaskState
  <2>3. After(task[t].result) \in {"over", "destroy"}
    BY DEF After
  <2> QED
    BY <2>1, <2>2, <2>3 DEF Run, MarkRunning, AnnounceRunning, Setup, StepsEnd,
       WorkflowTimeout, Record, Report, Destroy, Abort
<1>5. Types'
  BY <1>1, <1>4 DEF WorkInv, Types
<1>6. TaskUnderJob'
  <2> SUFFICES ASSUME NEW u \in Task, Live(u)'
               PROVE  job[u[1]] = "joining" \/ u[1] \in expired
    BY <1>1 DEF TaskUnderJob
  <2>1. u # t => task'[u] = task[u]
    BY <1>4 DEF WorkInv, Types
  <2>2. Live(u)
    BY <1>3, <2>1 DEF Live
  <2> QED
    BY <2>2 DEF WorkInv, TaskUnderJob
<1>7. HandFull' /\ WaitsOnce'
  BY <1>1 DEF WorkInv, HandFull, WaitsOnce
<1>8. JobUnderPermit' /\ IntakeHasEvent'
  BY <1>1 DEF WorkInv, JobUnderPermit, IntakeHasEvent
<1> QED
  BY <1>5, <1>6, <1>7, <1>8 DEF WorkInv

\* A new process has no task and no job of the old one.
LEMMA RestartStep == ASSUME WorkInv, Restart PROVE WorkInv'
<1>1. /\ buffer' = <<>> /\ holding' = <<>> /\ dispatcher' = "receiving" /\ intake' = Idle
      /\ job' = [d \in Delivery |-> IF job[d] = "none" THEN "none" ELSE "done"]
      /\ task' = [t \in Task |-> IF task[t].at = "none" THEN NoTask
                                 ELSE [task[t] EXCEPT !.at = "over"]]
      /\ UNCHANGED <<outcome, expired>>
  BY DEF Restart
<1>2. ASSUME NEW t \in Task PROVE task'[t] \in TaskState /\ ~Live(t)'
  <2> PICK a, q : /\ task[t] = [at |-> a, result |-> q]
                  /\ q \in {"none", "success", "failed", "timeout", "nolog"}
    BY DEF WorkInv, Types, TaskState
  <2>1. [task[t] EXCEPT !.at = "over"] = [at |-> "over", result |-> q]
    OBVIOUS
  <2>2. task'[t] = NoTask \/ task'[t] = [at |-> "over", result |-> q]
    BY <1>1, <2>1
  <2> QED
    BY <2>2 DEF TaskState, NoTask, Live
<1>3. Types'
  <2>1. job' \in [Delivery -> JobPlace] /\ buffer' \in Seq(Delivery)
    BY <1>1 DEF JobPlace
  <2>2. task' \in [Task -> TaskState]
    BY <1>1, <1>2
  <2> QED
    BY <1>1, <2>1, <2>2 DEF WorkInv, Types
<1>4. HandFull' /\ IntakeHasEvent'
  BY <1>1 DEF HandFull, IntakeHasEvent
<1>5. WaitsOnce'
  BY <1>1 DEF WaitsOnce
<1>6. JobUnderPermit'
  BY <1>1 DEF WorkInv, JobUnderPermit
<1> QED
  BY <1>2, <1>3, <1>4, <1>5, <1>6 DEF WorkInv, TaskUnderJob

\* Every step keeps the invariant.
LEMMA NextWorkInv == WorkInv /\ [Next]_vars => WorkInv'
<1> SUFFICES ASSUME WorkInv, [Next]_vars PROVE WorkInv'
  OBVIOUS
<1>1. ASSUME IntakeHasEvent', UNCHANGED <<pools, job, expired, task>> PROVE WorkInv'
  BY <1>1, QuietSteps DEF pools
<1>2. CASE Shutdown
  <2>1. UNCHANGED <<buffer, holding, dispatcher, running, outcome, job, expired, task, intake>>
    BY <1>2 DEF Shutdown, Queue!Shutdown
  <2> QED
    BY <2>1, QuietSteps DEF WorkInv, IntakeHasEvent
<1>3. ASSUME NEW w \in Wid, CancelCheck(w) \/ CancelWrite(w) PROVE WorkInv'
  <2>1. UNCHANGED <<pools, job, expired, task, intake>>
    BY <1>3 DEF CancelCheck, CancelWrite
  <2> QED
    BY <1>1, <2>1 DEF WorkInv, IntakeHasEvent
<1>4. CASE UNCHANGED vars \/ \E t \in Task : StragglerEnds(t)
  BY <1>1, <1>4 DEF vars, StragglerEnds, WorkInv, IntakeHasEvent
<1> QED
  BY <1>2, <1>3, <1>4, IntakeSteps, SubmitStep, DispatchStep, SpawnStep, JobEnds, TaskStep,
     RestartStep DEF Next, Intake

-----------------------------------------------------------------------------
(* The theorems about the permits                                          *)

\* The invariant holds in every reachable state.
THEOREM WorkInvariant == Spec => []WorkInv
<1> QED
  BY InitWorkInv, NextWorkInv, PTL DEF Spec

\* No workflow task is alive without its pipeline holding one of the max_jobs
\* permits, except after pipeline_timeout: execute_pipeline and the queue never
\* start, keep or release the two apart.
THEOREM TasksWorkUnderPermits == Spec => []WorkUnderPermit
  BY WorkInvariant, WorkInvImplies, PTL

-----------------------------------------------------------------------------
(* The life of a workflow                                                  *)

\* An event that was submitted has been taken, and the loop's own is not accepted.
LoopTookIt ==
    /\ intake.at # "idle" => intake.d \in seen /\ outcome[intake.d] # "ok"
    /\ \A d \in Delivery : outcome[d] = "ok" => d \in seen

\* A task lives in a job that spawned it, and records a result it has.
TaskAfterJob ==
    \A t \in Task :
        /\ task[t].at # "none" => job[t[1]] \in {"joining", "done"}
        /\ task[t].at \in {"record", "report"} => task[t].result # "none"

\* An accepted pipeline whose job has not begun is in line, or was dropped with
\* the line.
InLine(d) == holding = <<d>> \/ \E i \in 1 .. Len(buffer) : buffer[i] = d
LineKept ==
    /\ \A d \in abandoned : d \in Delivery /\ outcome[d] = "ok" /\ ~InLine(d)
    /\ \A d \in Delivery : outcome[d] = "ok" /\ job[d] = "none" => d \in abandoned \/ InLine(d)

\* A permit that is out belongs to a job that has not given it back.
PermitUnderJob ==
    /\ \A d \in running : d \in Delivery /\ job[d] \in {"secrets", "joining"}
    /\ IsFiniteSet(running) /\ permits \in Nat
    /\ Cardinality(running) + permits = MaxJobs

LifeInv == WorkInv /\ LoopTookIt /\ TaskAfterJob /\ LineKept /\ PermitUnderJob

\* Where a workflow is in its life, as the event loop sees it, and as its task does.
LoopPhase(i) ==
    CASE intake.at = "row"       -> IF i \in intake.left THEN "new" ELSE "waiting"
      [] intake.at = "event"     -> IF i = Current THEN "creating"
                                    ELSE IF i \in intake.left THEN "new" ELSE "waiting"
      [] intake.at = "submit"    -> "waiting"
      [] intake.at = "failrow"   -> IF i \in intake.left THEN "refusing" ELSE "over"
      [] intake.at = "failevent" -> IF i = Current THEN "refused"
                                    ELSE IF i \in intake.left THEN "refusing" ELSE "over"

TaskPhase(place) ==
    CASE place = "spawned"                     -> "waiting"
      [] place = "announce"                    -> "announcing"
      [] place \in {"setup", "steps", "record"} -> "working"
      [] place = "report"                      -> "reporting"
      [] place \in {"destroy", "over"}          -> "over"

Phase(t) ==
    IF task[t].at # "none" THEN TaskPhase(task[t].at)
    ELSE IF job[t[1]] # "none" THEN IF job[t[1]] = "secrets" THEN "waiting" ELSE "over"
    ELSE IF outcome[t[1]] = "ok" THEN IF t[1] \in abandoned THEN "over" ELSE "waiting"
    ELSE IF intake.at # "idle" /\ intake.d = t[1] THEN LoopPhase(t[2])
    ELSE IF t[1] \in seen THEN "over" ELSE "new"

\* What its row already says and /events does not.
Due(t) ==
    CASE Phase(t) = "creating"   -> "pending"
      [] Phase(t) = "announcing" -> "running"
      [] Phase(t) = "refused"    -> "failed"
      [] Phase(t) = "reporting"  -> StatusOf(task[t].result)
      [] OTHER                   -> "nothing"

\* The steps of a life: the row is written, then the event is emitted.
WritesRow(t) ==
    /\ <<Phase(t), Phase(t)'>> \in {<<"new", "creating">>, <<"refusing", "refused">>,
                                   <<"waiting", "announcing">>, <<"working", "reporting">>}
    /\ Write(IF Phase(t) = "new" THEN Inserted(WidOf(t)) ELSE Updated(WidOf(t), Due(t)'))
    /\ Phase(t)' = "reporting" => Due(t)' \in {"success", "failed", "timeout"}

EmitsEvent(t) ==
    /\ <<Phase(t), Phase(t)'>> \in {<<"creating", "waiting">>, <<"refused", "over">>,
                                   <<"announcing", "working">>, <<"reporting", "over">>}
    /\ Emit(WidOf(t), Due(t))

Still(t) == UNCHANGED <<Phase(t), Due(t)>>

\* It may be refused, or end without a word: untaken, expired or abandoned.
Passes(t) ==
    \/ Still(t)
    \/ Phase(t) = "waiting" /\ Phase(t)' = "refusing"
    \/ Phase(t) = "new" /\ Phase(t)' = "over"
    \/ /\ Phase(t) \in {"waiting", "working"} /\ Phase(t)' = "over"
       /\ t[1] \in expired' \cup abandoned'

\* What a step of one process is to the workflows.
LifeStep ==
    /\ restarts' = restarts
    /\ expired \subseteq expired' /\ abandoned \subseteq abandoned'
    /\ \/ /\ UNCHANGED <<status, emitted>> /\ faults' \in {faults, faults + 1}
          /\ \A t \in Task : Passes(t)
       \/ \E t \in Task : /\ WritesRow(t) \/ EmitsEvent(t)
                          /\ \A u \in Task \ {t} : Still(u)
       \/ \E w \in cancelling : /\ Write(Updated(w, "cancelled"))
                                /\ \A u \in Task : Still(u)

\* At the start nothing was delivered.
LEMMA InitLifeInv == Init => LifeInv
<1> SUFFICES ASSUME Init PROVE LifeInv
  OBVIOUS
<1>1. LoopTookIt /\ TaskAfterJob /\ LineKept
  BY DEF Init, Queue!Init, LoopTookIt, TaskAfterJob, LineKept, Idle, NoTask
<1>2. PermitUnderJob
  BY FS_EmptySet, OrchestratorAssumption DEF Init, Queue!Init, PermitUnderJob
<1> QED
  BY <1>1, <1>2, InitWorkInv DEF LifeInv

\* The event loop in each of its steps: it keeps its event, or drops it.
LEMMA LoopMoves ==
    ASSUME IntakeHasEvent, Intake
    PROVE  intake' = Idle \/ (intake'.d = intake.d /\ intake.at # "idle")
<1> PICK a \in Looping \cup {"submit"}, d \in Delivery : \E l : intake = [at |-> a, d |-> d, left |-> l]
  BY DEF IntakeHasEvent, Idle, Intake, AnnouncePending, AnnounceRefusal, Submit, LoopStep
<1> PICK l : intake = [at |-> a, d |-> d, left |-> l]
  OBVIOUS
<1> QED
  BY DEF Intake, AnnouncePending, AnnounceRefusal, Submit, LoopStep, Refused, Looping

\* What submit does to the outcomes: it settles that of the event in hand.
LEMMA SubmitSettles ==
    ASSUME LifeInv, Submit
    PROVE  /\ intake.d \in Delivery /\ outcome[intake.d] = "new"
           /\ \/ /\ outcome' = [outcome EXCEPT ![intake.d] = "ok"] /\ intake' = Idle
                 /\ buffer' = Append(buffer, intake.d)
              \/ /\ \E r \in {"full", "closed"} : outcome' = [outcome EXCEPT ![intake.d] = r]
                 /\ intake' = Refused /\ buffer' = buffer
           /\ UNCHANGED <<holding, dispatcher, running, abandoned, seen, job, expired, task,
                          envs, rows, calls>>
<1>1. intake.d \in Delivery
  BY DEF LifeInv, WorkInv, IntakeHasEvent, Submit, Idle
<1> QED
  BY <1>1 DEF Submit, Queue!SubmitOk, Queue!SubmitFull, Queue!SubmitClosed, Queue!Return,
              Queue!ended

\* The loop's event stays taken, and not accepted.
LEMMA LoopTookItStep == ASSUME LifeInv, [Next]_vars PROVE LoopTookIt'
<1>1. CASE Submit
  <2>1. intake' = Idle \/ intake'.d = intake.d
    BY <1>1, LoopMoves DEF Intake, LifeInv, WorkInv
  <2>2. intake.d \in seen /\ seen' = seen
    BY <1>1, SubmitSettles DEF LifeInv, LoopTookIt, Submit
  <2>3. intake' = Idle \/ outcome'[intake.d] # "ok"
    BY <1>1, SubmitSettles DEF LifeInv, WorkInv, Types
  <2>4. \A d \in Delivery : outcome'[d] = "ok" => d \in seen
    BY <1>1, <2>2, SubmitSettles DEF LifeInv, WorkInv, Types, LoopTookIt
  <2> QED
    BY <2>1, <2>2, <2>3, <2>4 DEF LoopTookIt, Idle
<1>2. CASE AnnouncePending \/ AnnounceRefusal
  <2>1. intake' = Idle \/ (intake'.d = intake.d /\ intake.at # "idle")
    BY <1>2, LoopMoves DEF Intake, LifeInv, WorkInv
  <2>2. UNCHANGED <<seen, outcome>>
    BY <1>2 DEF AnnouncePending, AnnounceRefusal, pools
  <2> QED
    BY <2>1, <2>2 DEF LifeInv, LoopTookIt, Idle
<1>3. ASSUME NEW d \in Delivery, Take(d) PROVE LoopTookIt'
  <2>1. /\ d \notin seen /\ seen' = seen \cup {d} /\ outcome' = outcome
        /\ intake' = Idle \/ intake' = [at |-> "row", d |-> d, left |-> Entries(d)]
    BY <1>3 DEF Take, pools
  <2> QED
    BY <2>1 DEF LifeInv, LoopTookIt, Idle
<1>4. ASSUME UNCHANGED <<intake, seen, outcome>> PROVE LoopTookIt'
  BY <1>4 DEF LifeInv, LoopTookIt
<1>5. CASE Dispatch \/ Shutdown
  BY <1>4, <1>5 DEF Dispatch, Shutdown, Queue!Receive, Queue!Stop, Queue!CloseChannel,
                    Queue!StartJob, Queue!Shutdown
<1>6. ASSUME NEW d \in Delivery, SpawnWorkflows(d) \/ JobDone(d) \/ JobTimeout(d)
      PROVE  LoopTookIt'
  BY <1>4, <1>6 DEF SpawnWorkflows, JobDone, JobTimeout, Queue!Finish, pools
<1>7. CASE Restart
  BY <1>7 DEF Restart, LifeInv, LoopTookIt, Idle
<1>8. CASE \/ \E t \in Task : Run(t) \/ StragglerEnds(t)
           \/ \E w \in Wid : CancelCheck(w) \/ CancelWrite(w)
           \/ UNCHANGED vars
  BY <1>4, <1>8 DEF Run, StragglerEnds, CancelCheck, CancelWrite, vars, pools
<1> QED
  BY <1>1, <1>2, <1>3, <1>5, <1>6, <1>7, <1>8 DEF Next, Intake

\* A task whose place changes keeps its result.
LEMMA GotoTask ==
    ASSUME task \in [Task -> TaskState], NEW t \in Task, NEW p, Goto(t, p)
    PROVE  task' = [task EXCEPT ![t] = [at |-> p, result |-> task[t].result]]
<1> PICK a, q : task[t] = [at |-> a, result |-> q]
  BY DEF TaskState
<1>1. task' = [task EXCEPT ![t] = [task[t] EXCEPT !.at = p]]
  BY DEF Goto
<1>2. [task[t] EXCEPT !.at = p] = [at |-> p, result |-> q]
  OBVIOUS
<1> QED
  BY <1>1, <1>2

\* A task's step moves it from one place of its life to another, with a result from
\* the moment there is one to record.
MovesTo(t, r) ==
    /\ task' = [task EXCEPT ![t] = r]
    /\ r.at # "none"
    /\ r.at = "record" => r.result # "none"
    /\ r.at = "report" => task[t].at = "record" /\ r.result = task[t].result

LEMMA RunPlaces ==
    ASSUME task \in [Task -> TaskState], NEW t \in Task, Run(t)
    PROVE  task[t].at # "none" /\ \E r \in TaskState : MovesTo(t, r)
<1>1. task[t].at # "none"
  BY DEF Run, MarkRunning, AnnounceRunning, Setup, StepsEnd, WorkflowTimeout, Record, Report,
         Destroy, Abort, Polled, TimedPlaces, Abortable, Awaiting
<1>2. task[t] \in TaskState
  OBVIOUS
<1>3. ASSUME NEW p \in {"announce", "setup", "steps", "report", "over", "destroy"}, Goto(t, p),
             p = "report" => task[t].at = "record"
      PROVE  \E r \in TaskState : MovesTo(t, r)
  <2> DEFINE r == [at |-> p, result |-> task[t].result]
  <2>1. task' = [task EXCEPT ![t] = r]
    BY <1>3, GotoTask
  <2>2. r \in TaskState
    BY <1>2 DEF TaskState, Awaiting
  <2> QED
    BY <1>3, <2>1, <2>2 DEF MovesTo
<1>4. ASSUME NEW q \in {"nolog", "failed", "success", "timeout"}, Ends(t, q)
      PROVE  \E r \in TaskState : MovesTo(t, r)
  <2> DEFINE r == [at |-> "record", result |-> q]
  <2>1. task' = [task EXCEPT ![t] = r] /\ r \in TaskState
    BY <1>4 DEF Ends, TaskState
  <2>2. MovesTo(t, r)
    BY <2>1 DEF MovesTo
  <2> QED
    BY <2>1, <2>2
<1>5. After(task[t].result) \in {"over", "destroy"}
  BY DEF After
<1> QED
  BY <1>1, <1>3, <1>4, <1>5 DEF Run, MarkRunning, AnnounceRunning, Setup, StepsEnd,
     WorkflowTimeout, Record, Report, Destroy, Abort

\* Tasks belong to jobs that spawned them; a task records what it ended with.
LEMMA TaskAfterJobStep == ASSUME LifeInv, [Next]_vars PROVE TaskAfterJob'
<1>1. ASSUME UNCHANGED <<job, task>> PROVE TaskAfterJob'
  BY <1>1 DEF LifeInv, TaskAfterJob
<1>2. CASE \/ Intake \/ Shutdown
           \/ \E d \in Delivery : Take(d)
           \/ \E t \in Task : StragglerEnds(t)
           \/ \E w \in Wid : CancelCheck(w) \/ CancelWrite(w)
           \/ UNCHANGED vars
  BY <1>1, <1>2 DEF Intake, AnnouncePending, Submit, AnnounceRefusal, Shutdown, Take,
                    StragglerEnds, CancelCheck, CancelWrite, vars
<1>3. CASE Dispatch
  <2>1. task' = task /\ (job' = job \/ job' = [job EXCEPT ![Head(holding)] = "secrets"])
    BY <1>3 DEF Dispatch
  <2>2. job' # job => \E d \in Delivery : Head(holding) = d /\ job[d] = "none"
    BY <1>3 DEF Dispatch, Queue!StartJob, LifeInv, WorkInv, HandFull, WaitsOnce
  <2> QED
    BY <2>1, <2>2, TaskOfDelivery DEF LifeInv, TaskAfterJob, WorkInv, Types
<1>4. ASSUME NEW d \in Delivery, SpawnWorkflows(d) PROVE TaskAfterJob'
  BY <1>4, TaskOfDelivery DEF SpawnWorkflows, LifeInv, TaskAfterJob, WorkInv, Types
<1>5. ASSUME NEW d \in Delivery, JobDone(d) \/ JobTimeout(d) PROVE TaskAfterJob'
  BY <1>5, TaskOfDelivery DEF JobDone, JobTimeout, LifeInv, TaskAfterJob, WorkInv, Types
<1>6. ASSUME NEW t \in Task, Run(t) PROVE TaskAfterJob'
  <2>1. job' = job
    BY <1>6 DEF Run
  <2>2. task[t].at # "none" /\ \E r \in TaskState : MovesTo(t, r)
    BY <1>6, RunPlaces DEF LifeInv, WorkInv, Types
  <2> QED
    BY <2>1, <2>2 DEF LifeInv, TaskAfterJob, WorkInv, Types, MovesTo
<1>7. CASE Restart
  <2> SUFFICES ASSUME NEW t \in Task
               PROVE  /\ task'[t].at # "none" => job'[t[1]] \in {"joining", "done"}
                      /\ task'[t].at \notin {"record", "report"}
    BY DEF TaskAfterJob
  <2>1. task'[t] = IF task[t].at = "none" THEN NoTask ELSE [task[t] EXCEPT !.at = "over"]
    BY <1>7 DEF Restart
  <2>2. task[t].at # "none" => task'[t].at = "over"
    BY <2>1 DEF LifeInv, WorkInv, Types, TaskState
  <2>3. task[t].at = "none" => task'[t].at = "none"
    BY <2>1 DEF NoTask
  <2>4. job'[t[1]] = IF job[t[1]] = "none" THEN "none" ELSE "done"
    BY <1>7, TaskOfDelivery DEF Restart
  <2> QED
    BY <2>2, <2>3, <2>4 DEF LifeInv, TaskAfterJob
<1> QED
  BY <1>2, <1>3, <1>4, <1>5, <1>6, <1>7 DEF Next

\* No accepted pipeline drops out of the line but by abandonment.
LEMMA LineKeptStep == ASSUME LifeInv, [Next]_vars PROVE LineKept'
<1>1. ASSUME UNCHANGED <<buffer, holding, outcome, abandoned, job>> PROVE LineKept'
  BY <1>1 DEF LifeInv, LineKept, InLine
<1>2. CASE \/ AnnouncePending \/ AnnounceRefusal \/ Shutdown
           \/ \E d \in Delivery : Take(d)
           \/ \E t \in Task : Run(t) \/ StragglerEnds(t)
           \/ \E w \in Wid : CancelCheck(w) \/ CancelWrite(w)
           \/ UNCHANGED vars
  BY <1>1, <1>2 DEF AnnouncePending, AnnounceRefusal, Shutdown, Queue!Shutdown, Queue!ended,
                    Take, Run, StragglerEnds, CancelCheck, CancelWrite, vars, pools
<1>3. CASE Submit
  <2>1. /\ UNCHANGED <<holding, abandoned, job>>
        /\ intake.d \in Delivery /\ outcome[intake.d] = "new"
    BY <1>3, SubmitSettles
  <2>2. CASE buffer' = buffer /\ \E r \in {"full", "closed"} : outcome' = [outcome EXCEPT ![intake.d] = r]
    BY <2>1, <2>2 DEF LifeInv, WorkInv, Types, LineKept, InLine
  <2>3. CASE buffer' = Append(buffer, intake.d) /\ outcome' = [outcome EXCEPT ![intake.d] = "ok"]
    <3>1. /\ Len(buffer') = Len(buffer) + 1 /\ Len(buffer) \in Nat
          /\ \A i \in 1 .. Len(buffer) : buffer'[i] = buffer[i]
          /\ buffer'[Len(buffer) + 1] = intake.d
      BY <2>1, <2>3 DEF LifeInv, WorkInv, Types
    <3>2. \A d \in Delivery : InLine(d)' <=> InLine(d) \/ d = intake.d
      BY <2>1, <3>1 DEF InLine
    <3> QED
      BY <2>1, <2>3, <3>2 DEF LifeInv, WorkInv, Types, LineKept
  <2> QED
    BY <1>3, <2>2, <2>3, SubmitSettles
<1>4. CASE Queue!Receive /\ UNCHANGED job
  <2>1. /\ Len(Tail(buffer)) = Len(buffer) - 1 /\ Len(buffer) \in Nat \ {0}
        /\ \A i \in 1 .. Len(Tail(buffer)) : Tail(buffer)[i] = buffer[i + 1]
        /\ Head(buffer) = buffer[1]
    BY <1>4 DEF LifeInv, WorkInv, Types, Queue!Receive
  <2>2. /\ buffer' = Tail(buffer) /\ holding' = <<Head(buffer)>> /\ holding = <<>>
        /\ UNCHANGED <<outcome, abandoned, job>>
    BY <1>4 DEF Queue!Receive, Queue!Recv, Queue!ended, LifeInv, WorkInv, HandFull
  <2>3. \A d \in Delivery : InLine(d)' <=> InLine(d)
    <3> SUFFICES ASSUME NEW d \in Delivery PROVE InLine(d)' <=> InLine(d)
      OBVIOUS
    <3>1. ASSUME NEW i \in 1 .. Len(buffer), buffer[i] = d PROVE InLine(d)'
      <4>1. CASE i = 1
        BY <2>1, <2>2, <3>1, <4>1 DEF InLine
      <4>2. CASE i # 1
        <5>1. i - 1 \in 1 .. Len(Tail(buffer)) /\ Tail(buffer)[i - 1] = d
          BY <2>1, <3>1, <4>2
        <5> QED
          BY <2>2, <5>1 DEF InLine
      <4> QED
        BY <4>1, <4>2
    <3>2. ASSUME InLine(d)' PROVE InLine(d)
      <4>1. CASE <<Head(buffer)>> = <<d>>
        BY <2>1, <4>1 DEF InLine
      <4>2. CASE \E i \in 1 .. Len(Tail(buffer)) : Tail(buffer)[i] = d
        BY <2>1, <4>2 DEF InLine
      <4> QED
        BY <2>2, <3>2, <4>1, <4>2 DEF InLine
    <3>3. <<>> # <<d>>
      OBVIOUS
    <3> QED
      BY <2>2, <3>1, <3>2, <3>3 DEF InLine
  <2> QED
    BY <2>2, <2>3 DEF LifeInv, LineKept
<1>5. CASE Queue!StartJob /\ job' = [job EXCEPT ![Head(holding)] = "secrets"]
  <2> PICK d \in Delivery : holding = <<d>>
    BY <1>5 DEF Queue!StartJob, LifeInv, WorkInv, HandFull
  <2>1. /\ UNCHANGED <<buffer, outcome, abandoned>> /\ holding' = <<>>
        /\ job' = [job EXCEPT ![d] = "secrets"]
    BY <1>5 DEF Queue!StartJob, Queue!ended
  <2>2. \A e \in Delivery : e # d => (InLine(e)' <=> InLine(e))
    <3>1. \A e \in Delivery : e # d => holding # <<e>> /\ holding' # <<e>>
      BY <2>1
    <3> QED
      BY <2>1, <3>1 DEF InLine
  <2>3. InLine(d) /\ (InLine(d)' => InLine(d))
    BY DEF InLine
  <2> QED
    BY <2>1, <2>2, <2>3 DEF LifeInv, LineKept, WorkInv, Types
<1>6. CASE Queue!Stop /\ UNCHANGED job
  BY <1>1, <1>6 DEF Queue!Stop, Queue!ended
<1>7. CASE Queue!CloseChannel /\ UNCHANGED job
  <2>1. /\ buffer' = <<>> /\ holding' = <<>> /\ holding = <<>> /\ UNCHANGED outcome
        /\ abandoned' = abandoned \cup Queue!Range(buffer)
    BY <1>7 DEF Queue!CloseChannel, LifeInv, WorkInv, HandFull
  <2>2. \A d \in Delivery : ~InLine(d)' /\ (InLine(d) <=> d \in Queue!Range(buffer))
    <3>1. \A d \in Delivery : <<>> # <<d>>
      OBVIOUS
    <3> QED
      BY <2>1, <3>1 DEF InLine, Queue!Range, LifeInv, WorkInv, Types
  <2>3. \A i \in 1 .. Len(buffer) : outcome[buffer[i]] = "ok" /\ buffer[i] \in Delivery
    BY DEF LifeInv, WorkInv, WaitsOnce, Types
  <2>4. \A d \in Queue!Range(buffer) : outcome[d] = "ok" /\ d \in Delivery
    BY <2>3 DEF Queue!Range, LifeInv, WorkInv, Types
  <2> QED
    BY <1>7, <2>1, <2>2, <2>4 DEF LifeInv, LineKept
<1>8. CASE Dispatch
  BY <1>4, <1>5, <1>6, <1>7, <1>8 DEF Dispatch
<1>9. ASSUME NEW d \in Delivery, SpawnWorkflows(d) \/ JobDone(d) \/ JobTimeout(d)
      PROVE  LineKept'
  <2>1. /\ UNCHANGED <<buffer, holding, outcome, abandoned>> /\ job[d] # "none"
        /\ \E p \in {"joining", "done"} : job' = [job EXCEPT ![d] = p]
    BY <1>9 DEF SpawnWorkflows, JobDone, JobTimeout, UnderTimeout, Queue!Finish, pools
  <2>2. \A e \in Delivery : job'[e] = "none" => job[e] = "none"
    BY <2>1 DEF LifeInv, WorkInv, Types
  <2> QED
    BY <2>1, <2>2 DEF LifeInv, LineKept, InLine
<1>10. CASE Restart
  <2>1. /\ buffer' = <<>> /\ holding' = <<>> /\ outcome' = outcome
        /\ abandoned' = abandoned \cup Range(buffer) \cup Range(holding) \cup running
        /\ \A d \in Delivery : job'[d] = "none" => job[d] = "none"
    BY <1>10 DEF Restart
  <2>2. \A d \in Delivery : ~InLine(d)'
    <3>1. \A d \in Delivery : <<>> # <<d>>
      OBVIOUS
    <3> QED
      BY <2>1, <3>1 DEF InLine
  <2>3. \A d \in Delivery : InLine(d) => d \in abandoned'
    <3>1. \A d \in Delivery : Range(<<d>>) = {d}
      BY DEF Range
    <3> QED
      BY <2>1, <3>1 DEF InLine, Range, LifeInv, WorkInv, Types
  <2>4. \A d \in Range(buffer) \cup Range(holding) : d \in Delivery /\ outcome[d] = "ok"
    <3>1. \A i \in 1 .. Len(buffer) : outcome[buffer[i]] = "ok" /\ buffer[i] \in Delivery
      BY DEF LifeInv, WorkInv, WaitsOnce, Types
    <3>2. holding = <<>> \/ \E d \in Delivery : holding = <<d>> /\ outcome[d] = "ok"
      BY DEF LifeInv, WorkInv, WaitsOnce, HandFull
    <3> QED
      BY <3>1, <3>2 DEF Range, LifeInv, WorkInv, Types
  <2>5. \A d \in running : d \in Delivery /\ outcome[d] = "ok"
    BY DEF LifeInv, PermitUnderJob, WorkInv, JobUnderPermit
  <2> QED
    BY <2>1, <2>2, <2>3, <2>4, <2>5 DEF LifeInv, LineKept
<1> QED
  BY <1>2, <1>3, <1>8, <1>9, <1>10 DEF Next, Intake

\* Permits go out to jobs that begin, and come back from jobs that end.
LEMMA PermitUnderJobStep == ASSUME LifeInv, [Next]_vars PROVE PermitUnderJob'
<1>0. /\ \A d \in running : d \in Delivery /\ job[d] \in {"secrets", "joining"}
      /\ IsFiniteSet(running) /\ permits \in Nat
      /\ Cardinality(running) + permits = MaxJobs
  BY DEF LifeInv, PermitUnderJob
<1>1. ASSUME UNCHANGED <<running, permits, job>> PROVE PermitUnderJob'
  BY <1>0, <1>1 DEF PermitUnderJob
<1>2. CASE \/ Intake \/ Shutdown
           \/ /\ Queue!Receive \/ Queue!Stop \/ Queue!CloseChannel
              /\ UNCHANGED job
           \/ \E d \in Delivery : Take(d)
           \/ \E t \in Task : Run(t) \/ StragglerEnds(t)
           \/ \E w \in Wid : CancelCheck(w) \/ CancelWrite(w)
           \/ UNCHANGED vars
  BY <1>1, <1>2 DEF Intake, AnnouncePending, AnnounceRefusal, Submit, Queue!SubmitOk,
     Queue!SubmitFull, Queue!SubmitClosed, Queue!Return, Shutdown, Queue!Shutdown, Queue!Receive,
     Queue!Stop, Queue!CloseChannel, Take, Run, StragglerEnds, CancelCheck, CancelWrite, vars, pools
<1>3. CASE Queue!StartJob /\ job' = [job EXCEPT ![Head(holding)] = "secrets"]
  <2> PICK d \in Delivery : holding = <<d>>
    BY <1>3 DEF Queue!StartJob, LifeInv, WorkInv, HandFull
  <2>1. Head(holding) = d /\ Queue!Range(holding) = {d} /\ holding # <<>> /\ holding[1] = d
    BY DEF Queue!Range
  <2>2. /\ running' = running \cup {d} /\ permits' = permits - 1 /\ permits > 0
        /\ job' = [job EXCEPT ![d] = "secrets"]
    BY <1>3, <2>1 DEF Queue!StartJob
  <2>3. job[d] = "none"
    BY <2>1 DEF LifeInv, WorkInv, WaitsOnce
  <2>4. IsFiniteSet(running') /\ Cardinality(running') = Cardinality(running) + 1
    BY <1>0, <2>2, <2>3, FS_AddElement
  <2>5. permits' \in Nat /\ Cardinality(running') + permits' = MaxJobs
    BY <1>0, <2>2, <2>4, FS_CardinalityType, OrchestratorAssumption
  <2> QED
    BY <1>0, <2>2, <2>4, <2>5 DEF PermitUnderJob, LifeInv, WorkInv, Types
<1>4. ASSUME NEW d \in Delivery, SpawnWorkflows(d) PROVE PermitUnderJob'
  <2>1. UNCHANGED <<running, permits>> /\ job' = [job EXCEPT ![d] = "joining"]
    BY <1>4 DEF SpawnWorkflows, pools
  <2> QED
    BY <1>0, <2>1 DEF PermitUnderJob, LifeInv, WorkInv, Types
<1>5. ASSUME NEW d \in Delivery, JobDone(d) \/ JobTimeout(d) PROVE PermitUnderJob'
  <2>1. /\ d \in running /\ running' = running \ {d} /\ permits' = permits + 1
        /\ job' = [job EXCEPT ![d] = "done"]
    BY <1>5 DEF JobDone, JobTimeout, Queue!Finish
  <2>2. IsFiniteSet(running') /\ Cardinality(running') = Cardinality(running) - 1
    BY <1>0, <2>1, FS_RemoveElement
  <2>3. permits' \in Nat /\ Cardinality(running') + permits' = MaxJobs
    BY <1>0, <2>1, <2>2, FS_CardinalityType, OrchestratorAssumption
  <2> QED
    BY <1>0, <2>1, <2>2, <2>3 DEF PermitUnderJob, LifeInv, WorkInv, Types
<1>6. CASE Restart
  BY <1>6, FS_EmptySet, OrchestratorAssumption DEF Restart, PermitUnderJob
<1> QED
  BY <1>2, <1>3, <1>4, <1>5, <1>6 DEF Next, Dispatch

\* Every step keeps the invariant.
LEMMA NextLifeInv == LifeInv /\ [Next]_vars => LifeInv'
  BY NextWorkInv, LoopTookItStep, TaskAfterJobStep, LineKeptStep, PermitUnderJobStep DEF LifeInv

\* The invariant holds in every reachable state.
THEOREM LifeInvariant == Spec => []LifeInv
  BY InitLifeInv, NextLifeInv, PTL DEF Spec

-----------------------------------------------------------------------------
(* Every step is a step of some workflow's life, or passes it by           *)

\* A workflow is where it was when nothing it depends on changed.
LEMMA StillWhen ==
    ASSUME NEW t \in Task, intake' = intake, task'[t] = task[t], job'[t[1]] = job[t[1]],
           outcome'[t[1]] = outcome[t[1]], t[1] \in abandoned' <=> t[1] \in abandoned,
           t[1] \in seen' <=> t[1] \in seen
    PROVE  Still(t)
<1>1. Current' = Current
  BY DEF Current
<1>2. \A i : LoopPhase(i)' = LoopPhase(i)
  BY <1>1 DEF LoopPhase
<1>3. Phase(t)' = Phase(t)
  BY <1>2 DEF Phase
<1> QED
  BY <1>3 DEF Still, Due

\* A task that exists says where its workflow is.
LEMMA PhaseOfTask ==
    ASSUME NEW t \in Task, task[t].at # "none"
    PROVE  Phase(t) = TaskPhase(task[t].at)
  BY DEF Phase

\* The workflows of the event in the loop's hand are where the loop has them.
LEMMA PhaseInLoop ==
    ASSUME LifeInv, NEW t \in Task, intake.at # "idle", intake.d = t[1]
    PROVE  /\ Phase(t) = LoopPhase(t[2])
           /\ task[t].at = "none" /\ job[t[1]] = "none" /\ outcome[t[1]] # "ok"
           /\ t[1] \in seen
<1>1. outcome[t[1]] # "ok" /\ t[1] \in seen
  BY DEF LifeInv, LoopTookIt
<1>2. job[t[1]] = "none"
  BY <1>1, TaskOfDelivery DEF LifeInv, WorkInv, JobUnderPermit
<1>3. task[t].at = "none"
  BY <1>2 DEF LifeInv, TaskAfterJob
<1> QED
  BY <1>1, <1>2, <1>3 DEF Phase

\* A task is the workflow at one position of one event.
LEMMA TaskIsPair ==
    \A t \in Task : t = <<t[1], t[2]>> /\ t[1] \in Delivery /\ t[2] \in Entries(t[1])
  BY DEF Task

LEMMA PairIsTask ==
    ASSUME NEW d \in Delivery, NEW i \in Entries(d)
    PROVE  <<d, i>> \in Task /\ <<d, i>>[1] = d /\ <<d, i>>[2] = i
  BY DEF Task

\* The workflows of other events do not notice the loop.
LEMMA OthersInLoop ==
    ASSUME NEW t \in Task, UNCHANGED <<task, job, outcome, abandoned, seen>>,
           intake.at = "idle" \/ intake.d # t[1],
           intake'.at = "idle" \/ intake'.d # t[1]
    PROVE  Still(t)
<1>1. Phase(t)' = Phase(t)
  BY DEF Phase
<1> QED
  BY <1>1 DEF Still, Due

\* One turn of the loop that announces the workflows as pending.
LEMMA AnnouncePendingLives ==
    ASSUME LifeInv, AnnouncePending
    PROVE  \E t \in Task : /\ WritesRow(t) \/ EmitsEvent(t)
                           /\ \A u \in Task \ {t} : Still(u)
<1>1. /\ UNCHANGED <<task, job, outcome, abandoned, seen>>
      /\ intake.at \in {"row", "event"} /\ intake.at \in Looping
  BY DEF AnnouncePending, LoopStep, pools, Looping
<1>2. /\ Current \in intake.left /\ intake.left \subseteq Entries(intake.d)
      /\ intake.d \in Delivery
  BY <1>1, CurrentIsLeft DEF LifeInv, WorkInv
<1> PICK d \in Delivery : d = intake.d
  BY <1>2
<1> PICK t \in Task : t[1] = d /\ t[2] = Current /\ WidOf(t) = CurrentId
  BY <1>2, PairIsTask DEF CurrentId
<1>3. t \in Task /\ t[1] = d /\ t[2] = Current /\ WidOf(t) = CurrentId /\ d = intake.d
  OBVIOUS
<1>4. \A u \in Task \ {t} : u[1] = d => u[2] # Current
  BY TaskIsPair
<1>5. \A u \in Task : u[1] = d => /\ Phase(u) = LoopPhase(u[2])
                                  /\ task[u].at = "none" /\ job[u[1]] = "none"
                                  /\ outcome[u[1]] # "ok" /\ u[1] \in seen
  BY <1>1, PhaseInLoop
<1> PICK a, l : intake = [at |-> a, d |-> d, left |-> l]
  BY <1>1, <1>3 DEF LifeInv, WorkInv, IntakeHasEvent, Idle
<1>6. CASE /\ intake.at = "row" /\ Write(Inserted(CurrentId))
           /\ intake' = [intake EXCEPT !.at = "event"]
  <2>1. /\ intake'.at = "event" /\ intake'.d = d /\ intake'.left = intake.left
        /\ Current' = Current
    BY <1>6 DEF Current
  <2>2. \A u \in Task : u[1] = d => Phase(u)' = LoopPhase(u[2])'
    BY <1>1, <1>5, <2>1 DEF Phase
  <2>3. Phase(t) = "new" /\ Phase(t)' = "creating"
    BY <1>2, <1>3, <1>5, <1>6, <2>1, <2>2 DEF LoopPhase
  <2>4. WritesRow(t)
    BY <1>3, <1>6, <2>3 DEF WritesRow
  <2>5. \A u \in Task \ {t} : u[1] = d => Still(u)
    BY <1>4, <1>5, <1>6, <2>1, <2>2 DEF LoopPhase, Still, Due
  <2>6. \A u \in Task \ {t} : u[1] # d => Still(u)
    BY <1>1, <2>1, OthersInLoop
  <2> QED
    BY <1>3, <2>4, <2>5, <2>6
<1>7. CASE /\ intake.at = "event" /\ Emit(CurrentId, "pending")
           /\ intake' = IF intake.left = {Current}
                        THEN [intake EXCEPT !.at = "submit", !.left = {}]
                        ELSE [intake EXCEPT !.at = "row", !.left = @ \ {Current}]
  <2>1. /\ intake'.d = d
        /\ \/ intake'.at = "submit" /\ intake.left = {Current}
           \/ intake'.at = "row" /\ intake'.left = intake.left \ {Current}
    BY <1>7
  <2>2. \A u \in Task : u[1] = d => Phase(u)' = LoopPhase(u[2])'
    BY <1>1, <1>5, <2>1 DEF Phase
  <2>3. Phase(t) = "creating" /\ Phase(t)' = "waiting"
    <3>1. Phase(t) = LoopPhase(Current) /\ Current \notin intake.left \ {Current}
      BY <1>3, <1>5
    <3>2. Phase(t) = "creating"
      BY <1>7, <3>1 DEF LoopPhase
    <3>3. \A u \in Task : u[1] = d /\ u[2] \notin intake.left \ {Current} => Phase(u)' = "waiting"
      BY <2>1, <2>2 DEF LoopPhase
    <3> QED
      BY <1>3, <3>1, <3>2, <3>3
  <2>4. EmitsEvent(t)
    BY <1>3, <1>7, <2>3 DEF EmitsEvent, Due
  <2>5. \A u \in Task \ {t} : u[1] = d => Still(u)
    BY <1>4, <1>5, <1>7, <2>1, <2>2 DEF LoopPhase, Still, Due
  <2>6. \A u \in Task \ {t} : u[1] # d => Still(u)
    BY <1>1, <2>1, OthersInLoop
  <2> QED
    BY <1>3, <2>4, <2>5, <2>6
<1> QED
  BY <1>6, <1>7 DEF AnnouncePending, LoopStep

\* One turn of the loop that fails the workflows of a refused pipeline.
LEMMA AnnounceRefusalLives ==
    ASSUME LifeInv, AnnounceRefusal
    PROVE  \E t \in Task : /\ WritesRow(t) \/ EmitsEvent(t)
                           /\ \A u \in Task \ {t} : Still(u)
<1>1. /\ UNCHANGED <<task, job, outcome, abandoned, seen>>
      /\ intake.at \in {"failrow", "failevent"} /\ intake.at \in Looping
  BY DEF AnnounceRefusal, LoopStep, pools, Looping
<1>2. /\ Current \in intake.left /\ intake.left \subseteq Entries(intake.d)
      /\ intake.d \in Delivery
  BY <1>1, CurrentIsLeft DEF LifeInv, WorkInv
<1> PICK d \in Delivery : d = intake.d
  BY <1>2
<1> PICK t \in Task : t[1] = d /\ t[2] = Current /\ WidOf(t) = CurrentId
  BY <1>2, PairIsTask DEF CurrentId
<1>3. t \in Task /\ t[1] = d /\ t[2] = Current /\ WidOf(t) = CurrentId /\ d = intake.d
  OBVIOUS
<1>4. \A u \in Task \ {t} : u[1] = d => u[2] # Current
  BY TaskIsPair
<1>5. \A u \in Task : u[1] = d => /\ Phase(u) = LoopPhase(u[2])
                                  /\ task[u].at = "none" /\ job[u[1]] = "none"
                                  /\ outcome[u[1]] # "ok" /\ u[1] \in seen
  BY <1>1, PhaseInLoop
<1> PICK a, l : intake = [at |-> a, d |-> d, left |-> l]
  BY <1>1, <1>3 DEF LifeInv, WorkInv, IntakeHasEvent, Idle
<1>6. CASE /\ intake.at = "failrow" /\ Write(Updated(CurrentId, "failed"))
           /\ intake' = [intake EXCEPT !.at = "failevent"]
  <2>1. /\ intake'.at = "failevent" /\ intake'.d = d /\ intake'.left = intake.left
        /\ Current' = Current
    BY <1>6 DEF Current
  <2>2. \A u \in Task : u[1] = d => Phase(u)' = LoopPhase(u[2])'
    BY <1>1, <1>5, <2>1 DEF Phase
  <2>3. Phase(t) = "refusing" /\ Phase(t)' = "refused"
    BY <1>2, <1>3, <1>5, <1>6, <2>1, <2>2 DEF LoopPhase
  <2>4. WritesRow(t)
    BY <1>3, <1>6, <2>3 DEF WritesRow, Due
  <2>5. \A u \in Task \ {t} : u[1] = d => Still(u)
    BY <1>4, <1>5, <1>6, <2>1, <2>2 DEF LoopPhase, Still, Due
  <2>6. \A u \in Task \ {t} : u[1] # d => Still(u)
    BY <1>1, <2>1, OthersInLoop
  <2> QED
    BY <1>3, <2>4, <2>5, <2>6
<1>7. CASE /\ intake.at = "failevent" /\ Emit(CurrentId, "failed")
           /\ intake' = IF intake.left = {Current} THEN Idle
                        ELSE [intake EXCEPT !.at = "failrow", !.left = @ \ {Current}]
  <2>1. \/ intake'.at = "idle" /\ intake.left = {Current}
        \/ /\ intake'.at = "failrow" /\ intake'.d = d
           /\ intake'.left = intake.left \ {Current}
    BY <1>7 DEF Idle
  <2>2. \A u \in Task : u[1] = d =>
            Phase(u)' = IF intake'.at = "idle" THEN "over" ELSE LoopPhase(u[2])'
    BY <1>1, <1>5, <2>1 DEF Phase
  <2>3. Phase(t) = "refused" /\ Phase(t)' = "over"
    <3>1. Phase(t) = LoopPhase(Current) /\ Current \notin intake.left \ {Current}
      BY <1>3, <1>5
    <3>2. Phase(t) = "refused"
      BY <1>7, <3>1 DEF LoopPhase
    <3>3. \A u \in Task : u[1] = d /\ u[2] \notin intake.left \ {Current} => Phase(u)' = "over"
      BY <2>1, <2>2 DEF LoopPhase
    <3> QED
      BY <1>3, <3>1, <3>2, <3>3
  <2>4. EmitsEvent(t)
    BY <1>3, <1>7, <2>3 DEF EmitsEvent, Due
  <2>5. \A u \in Task \ {t} : u[1] = d => Still(u)
    BY <1>4, <1>5, <1>7, <2>1, <2>2 DEF LoopPhase, Still, Due
  <2>6. \A u \in Task \ {t} : u[1] # d => Still(u)
    BY <1>1, <2>1, OthersInLoop
  <2> QED
    BY <1>3, <2>4, <2>5, <2>6
<1> QED
  BY <1>6, <1>7 DEF AnnounceRefusal, LoopStep

\* Taking an event leaves its workflows new, or passes over them for good.
LEMMA TakePasses ==
    ASSUME LifeInv, NEW d \in Delivery, Take(d)
    PROVE  \A t \in Task : Passes(t)
<1> TAKE t \in Task
<1>1. /\ UNCHANGED <<task, job, outcome, abandoned>> /\ seen' = seen \cup {d} /\ d \notin seen
      /\ intake.at = "idle"
      /\ \/ intake' = Idle
         \/ intake' = [at |-> "row", d |-> d, left |-> Entries(d)]
  BY DEF Take, pools
<1>2. CASE t[1] = d
  <2>1. outcome[d] # "ok"
    BY <1>1 DEF LifeInv, LoopTookIt
  <2>2. job[d] = "none"
    BY <2>1 DEF LifeInv, WorkInv, JobUnderPermit
  <2>3. task[t].at = "none"
    BY <1>2, <2>2 DEF LifeInv, TaskAfterJob
  <2>4. Phase(t) = "new"
    BY <1>1, <1>2, <2>1, <2>2, <2>3 DEF Phase
  <2>5. CASE intake' = Idle
    <3>1. Phase(t)' = "over"
      BY <1>1, <1>2, <2>1, <2>2, <2>3, <2>5 DEF Phase, Idle
    <3> QED
      BY <2>4, <3>1 DEF Passes
  <2>6. CASE intake' = [at |-> "row", d |-> d, left |-> Entries(d)]
    <3>1. Phase(t)' = LoopPhase(t[2])'
      BY <1>1, <1>2, <2>1, <2>2, <2>3, <2>6 DEF Phase
    <3>2. t[2] \in Entries(d)
      BY <1>2, TaskIsPair
    <3>3. Phase(t)' = "new"
      BY <2>6, <3>1, <3>2 DEF LoopPhase
    <3> QED
      BY <2>4, <3>3 DEF Passes, Still, Due
  <2> QED
    BY <1>1, <2>5, <2>6
<1>3. CASE t[1] # d
  <2>1. Phase(t)' = Phase(t)
    BY <1>1, <1>3 DEF Phase, Idle
  <2> QED
    BY <1>1, <2>1 DEF Passes, Still, Due
<1> QED
  BY <1>2, <1>3

\* submit: the workflows wait for their job, or for their refusal.
LEMMA SubmitPasses ==
    ASSUME LifeInv, Submit
    PROVE  \A t \in Task : Passes(t)
<1> TAKE t \in Task
<1> PICK d \in Delivery : d = intake.d
  BY SubmitSettles
<1>1. /\ UNCHANGED <<task, job, abandoned, seen>> /\ intake.at = "submit"
      /\ outcome[d] = "new" /\ d \in seen
  BY SubmitSettles DEF Submit, LifeInv, LoopTookIt
<1>2. CASE outcome' = [outcome EXCEPT ![d] = "ok"] /\ intake' = Idle
  <2>1. outcome'[d] = "ok" /\ \A e \in Delivery \ {d} : outcome'[e] = outcome[e]
    BY <1>2 DEF LifeInv, WorkInv, Types
  <2>2. CASE t[1] = d
    <3>1. /\ Phase(t) = "waiting"
          /\ task[t].at = "none" /\ job[t[1]] = "none"
      BY <1>1, <2>2, PhaseInLoop DEF LoopPhase
    <3>2. d \notin abandoned
      BY <1>1 DEF LifeInv, LineKept
    <3>3. Phase(t)' = "waiting"
      BY <1>1, <2>1, <2>2, <3>1, <3>2 DEF Phase
    <3> QED
      BY <3>1, <3>3 DEF Passes, Still, Due
  <2>3. CASE t[1] # d
    <3>1. Phase(t)' = Phase(t)
      BY <1>1, <1>2, <2>1, <2>3, TaskIsPair DEF Phase, Idle
    <3> QED
      BY <1>1, <3>1 DEF Passes, Still, Due
  <2> QED
    BY <2>2, <2>3
<1>3. CASE /\ \E r \in {"full", "closed"} : outcome' = [outcome EXCEPT ![d] = r]
           /\ intake' = Refused
  <2>1. /\ outcome'[d] \in {"full", "closed"}
        /\ \A e \in Delivery \ {d} : outcome'[e] = outcome[e]
    BY <1>3 DEF LifeInv, WorkInv, Types
  <2>2. intake' = [at |-> "failrow", d |-> d, left |-> Entries(d)]
    BY <1>1, <1>3 DEF Refused, LifeInv, WorkInv, IntakeHasEvent, Idle
  <2>3. CASE t[1] = d
    <3>1. /\ Phase(t) = "waiting"
          /\ task[t].at = "none" /\ job[t[1]] = "none"
      BY <1>1, <2>3, PhaseInLoop DEF LoopPhase
    <3>2. Phase(t)' = LoopPhase(t[2])'
      BY <1>1, <2>1, <2>2, <2>3, <3>1 DEF Phase
    <3>3. Phase(t)' = "refusing"
      BY <2>2, <2>3, <3>2, TaskIsPair DEF LoopPhase
    <3> QED
      BY <3>1, <3>3 DEF Passes
  <2>4. CASE t[1] # d
    <3>1. Phase(t)' = Phase(t)
      BY <1>1, <2>1, <2>2, <2>4, TaskIsPair DEF Phase
    <3> QED
      BY <1>1, <3>1 DEF Passes, Still, Due
  <2> QED
    BY <2>3, <2>4
<1> QED
  BY <1>2, <1>3, SubmitSettles

\* The dispatcher moves a pipeline through the line without its workflows noticing,
\* until it stops and abandons the line.
LEMMA DispatchPasses ==
    ASSUME LifeInv, Dispatch
    PROVE  \A t \in Task : Passes(t)
<1> TAKE t \in Task
<1>1. UNCHANGED <<seen, intake, task>>
  BY DEF Dispatch
<1>2. CASE (Queue!Receive \/ Queue!Stop) /\ UNCHANGED job
  <2>1. UNCHANGED <<outcome, abandoned>>
    BY <1>2 DEF Queue!Receive, Queue!Stop, Queue!ended
  <2> QED
    BY <1>1, <1>2, <2>1, StillWhen DEF Passes
<1>3. CASE Queue!StartJob /\ job' = [job EXCEPT ![Head(holding)] = "secrets"]
  <2> PICK d \in Delivery : holding = <<d>>
    BY <1>3 DEF Queue!StartJob, LifeInv, WorkInv, HandFull
  <2>1. UNCHANGED <<outcome, abandoned>> /\ job' = [job EXCEPT ![d] = "secrets"]
    BY <1>3 DEF Queue!StartJob, Queue!ended
  <2>2. job[d] = "none" /\ outcome[d] = "ok" /\ d \notin abandoned
    BY DEF LifeInv, WorkInv, WaitsOnce, LineKept, InLine
  <2>3. CASE t[1] = d
    <3>1. task[t].at = "none"
      BY <2>2, <2>3 DEF LifeInv, TaskAfterJob
    <3>2. Phase(t) = "waiting" /\ Phase(t)' = "waiting"
      BY <1>1, <2>1, <2>2, <2>3, <3>1 DEF Phase, LifeInv, WorkInv, Types
    <3> QED
      BY <3>2 DEF Passes, Still, Due
  <2>4. CASE t[1] # d
    <3>1. job'[t[1]] = job[t[1]]
      BY <2>1, <2>4, TaskIsPair DEF LifeInv, WorkInv, Types
    <3> QED
      BY <1>1, <2>1, <3>1, StillWhen DEF Passes
  <2> QED
    BY <2>3, <2>4
<1>4. CASE Queue!CloseChannel /\ UNCHANGED job
  <2>1. UNCHANGED outcome /\ abandoned \subseteq abandoned'
    BY <1>4 DEF Queue!CloseChannel
  <2>2. CASE t[1] \in abandoned' <=> t[1] \in abandoned
    BY <1>1, <1>4, <2>1, <2>2, StillWhen DEF Passes
  <2>3. CASE t[1] \in abandoned' /\ t[1] \notin abandoned
    <3>1. \A i : LoopPhase(i)' = LoopPhase(i)
      BY <1>1 DEF LoopPhase, Current
    <3>2. Phase(t)' = Phase(t) \/ (Phase(t) = "waiting" /\ Phase(t)' = "over")
      BY <1>1, <1>4, <2>1, <2>3, <3>1 DEF Phase
    <3> QED
      BY <1>1, <2>3, <3>2 DEF Passes, Still, Due
  <2> QED
    BY <2>1, <2>2, <2>3
<1> QED
  BY <1>2, <1>3, <1>4 DEF Dispatch

\* A job spawns its tasks, ends when they are over, or leaves them expired.
LEMMA JobPasses ==
    ASSUME LifeInv, NEW d \in Delivery, SpawnWorkflows(d) \/ JobDone(d) \/ JobTimeout(d)
    PROVE  \A t \in Task : Passes(t)
<1> TAKE t \in Task
<1>1. UNCHANGED <<seen, intake, outcome, abandoned>>
  BY DEF SpawnWorkflows, JobDone, JobTimeout, Queue!Finish, pools
<1>2. CASE t[1] # d
  <2>1. job'[t[1]] = job[t[1]] /\ task'[t] = task[t]
    BY <1>2, TaskIsPair DEF SpawnWorkflows, JobDone, JobTimeout, LifeInv, WorkInv, Types
  <2> QED
    BY <1>1, <2>1, StillWhen DEF Passes
<1>3. CASE t[1] = d /\ SpawnWorkflows(d)
  <2>1. /\ job[d] = "secrets" /\ task[t].at = "none" /\ task'[t].at = "spawned"
    BY <1>3 DEF SpawnWorkflows, LifeInv, TaskAfterJob
  <2>2. Phase(t) = "waiting" /\ Phase(t)' = "waiting"
    BY <1>3, <2>1 DEF Phase, TaskPhase
  <2> QED
    BY <2>2 DEF Passes, Still, Due
<1>4. CASE t[1] = d /\ (JobDone(d) \/ JobTimeout(d))
  <2>1. /\ UNCHANGED task /\ job'[d] = "done"
        /\ \/ job[d] = "joining"
           \/ job[d] = "secrets" /\ d \in expired'
    BY <1>4 DEF JobDone, JobTimeout, UnderTimeout, LifeInv, WorkInv, Types
  <2>2. CASE task[t].at # "none"
    BY <2>1, <2>2 DEF Phase, Passes, Still, Due
  <2>3. CASE task[t].at = "none"
    <3>1. Phase(t)' = "over" /\ Phase(t) = IF job[d] = "joining" THEN "over" ELSE "waiting"
      BY <1>4, <2>1, <2>3 DEF Phase
    <3> QED
      BY <1>4, <2>1, <3>1 DEF Passes, Still, Due
  <2> QED
    BY <2>2, <2>3
<1> QED
  BY <1>2, <1>3, <1>4

\* A step of a task.
LEMMA RunLives ==
    ASSUME LifeInv, NEW t \in Task, Run(t)
    PROVE  /\ \A u \in Task \ {t} : Still(u)
           /\ \/ WritesRow(t) \/ EmitsEvent(t)
              \/ /\ UNCHANGED <<status, emitted>> /\ faults' \in {faults, faults + 1}
                 /\ Passes(t)
<1> PICK r \in TaskState : MovesTo(t, r)
  BY RunPlaces DEF LifeInv, WorkInv, Types
<1>1. /\ UNCHANGED <<seen, intake, outcome, abandoned, job, expired>> /\ task[t].at # "none"
      /\ task'[t] = r /\ \A u \in Task \ {t} : task'[u] = task[u]
      /\ task[t] \in TaskState
  BY RunPlaces DEF Run, pools, MovesTo, LifeInv, WorkInv, Types
<1>2. \A u \in Task \ {t} : Still(u)
  BY <1>1, StillWhen
<1>3. Phase(t) = TaskPhase(task[t].at) /\ Phase(t)' = TaskPhase(r.at) /\ r.at # "none"
  BY <1>1 DEF Phase, MovesTo
<1>4. ASSUME NEW p, Goto(t, p) PROVE r = [at |-> p, result |-> task[t].result]
  BY <1>1, <1>4, GotoTask DEF LifeInv, WorkInv, Types
<1>5. ASSUME NEW q, Ends(t, q) PROVE r = [at |-> "record", result |-> q]
  BY <1>1, <1>5 DEF Ends, LifeInv, WorkInv, Types
<1>6. CASE MarkRunning(t)
  <2>1. task[t].at = "spawned" /\ r.at = "announce"
    BY <1>4, <1>6 DEF MarkRunning, Polled
  <2>2. Phase(t) = "waiting" /\ Phase(t)' = "announcing" /\ Due(t)' = "running"
    BY <1>3, <2>1 DEF TaskPhase, Due
  <2> QED
    BY <1>2, <1>6, <2>2 DEF MarkRunning, WritesRow
<1>7. CASE AnnounceRunning(t)
  <2>1. task[t].at = "announce" /\ r.at \in {"setup", "record"}
    BY <1>4, <1>5, <1>7 DEF AnnounceRunning
  <2>2. Phase(t) = "announcing" /\ Phase(t)' = "working" /\ Due(t) = "running"
    BY <1>3, <2>1 DEF TaskPhase, Due
  <2> QED
    BY <1>2, <1>7, <2>2 DEF AnnounceRunning, EmitsEvent
<1>8. CASE Record(t)
  <2>1. task[t].at = "record" /\ r = [at |-> "report", result |-> task[t].result]
    BY <1>4, <1>8 DEF Record
  <2>2. task[t].result \in {"success", "failed", "timeout", "nolog"}
    BY <1>1, <2>1 DEF LifeInv, TaskAfterJob, TaskState
  <2>3. Phase(t) = "working" /\ Phase(t)' = "reporting"
    BY <1>3, <2>1 DEF TaskPhase
  <2>4. Due(t)' = StatusOf(task[t].result)
    BY <1>1, <2>1, <2>3 DEF Due
  <2> QED
    BY <1>2, <1>8, <2>2, <2>3, <2>4 DEF Record, WritesRow, StatusOf
<1>9. CASE Report(t)
  <2>1. task[t].at = "report" /\ r.at \in {"destroy", "over"}
    BY <1>4, <1>9 DEF Report, After
  <2>2. Phase(t) = "reporting" /\ Phase(t)' = "over"
    BY <1>3, <2>1 DEF TaskPhase
  <2>3. Due(t) = EventOf(task[t].result)
    BY <2>2 DEF Due, EventOf
  <2> QED
    BY <1>2, <1>9, <2>2, <2>3 DEF Report, EmitsEvent
<1>10. CASE Setup(t) \/ StepsEnd(t) \/ WorkflowTimeout(t)
  <2>1. task[t].at \in {"setup", "steps"} /\ r.at \in {"steps", "record"}
    BY <1>4, <1>5, <1>10 DEF Setup, StepsEnd, WorkflowTimeout, Polled, TimedPlaces
  <2>2. Phase(t) = "working" /\ Phase(t)' = "working"
    BY <1>3, <2>1 DEF TaskPhase
  <2>3. UNCHANGED <<status, emitted, faults>>
    BY <1>10 DEF Setup, StepsEnd, WorkflowTimeout, rows
  <2> QED
    BY <1>2, <2>2, <2>3 DEF Passes, Still, Due
<1>11. CASE Destroy(t)
  <2>1. task[t].at = "destroy" /\ r.at = "over"
    BY <1>4, <1>11 DEF Destroy
  <2>2. Phase(t) = "over" /\ Phase(t)' = "over"
    BY <1>3, <2>1 DEF TaskPhase
  <2>3. UNCHANGED <<status, emitted>> /\ faults' \in {faults, faults + 1}
    BY <1>11 DEF Destroy, Fault
  <2> QED
    BY <1>2, <2>2, <2>3 DEF Passes, Still, Due
<1>12. CASE Abort(t)
  <2>1. r.at = "over" /\ t[1] \in expired' /\ task[t].at \in Awaiting
    BY <1>1, <1>4, <1>12 DEF Abort, Abortable
  <2>2. Phase(t)' = "over" /\ Phase(t) \in {"waiting", "working", "over"}
    BY <1>3, <2>1 DEF TaskPhase, Awaiting
  <2>3. UNCHANGED <<status, emitted, faults>>
    BY <1>12 DEF Abort, rows
  <2> QED
    BY <1>2, <2>1, <2>2, <2>3 DEF Passes, Still, Due
<1> QED
  BY <1>6, <1>7, <1>8, <1>9, <1>10, <1>11, <1>12 DEF Run

\* Every step of a process is a step of one workflow's life, a cancellation, or
\* none of the workflows' rows and events is touched.
LEMMA EveryStepLives ==
    ASSUME LifeInv, [Next]_vars
    PROVE  LifeStep \/ Restart
<1>1. ASSUME UNCHANGED <<intake, task, job, outcome, abandoned, seen>>
      PROVE  \A t \in Task : Still(t)
  BY <1>1, StillWhen
<1>2. CASE \E d \in Delivery : Take(d)
  <2>1. UNCHANGED <<status, emitted, faults, restarts, expired, abandoned>>
    BY <1>2 DEF Take, rows, calls, pools
  <2> QED
    BY <1>2, <2>1, TakePasses DEF LifeStep
<1>3. CASE Submit
  <2>1. UNCHANGED <<status, emitted, faults, restarts, expired, abandoned>>
    BY <1>3, SubmitSettles DEF rows, calls
  <2> QED
    BY <1>3, <2>1, SubmitPasses DEF LifeStep
<1>4. CASE Dispatch
  <2>1. UNCHANGED <<status, emitted, faults, restarts, expired>> /\ abandoned \subseteq abandoned'
    BY <1>4 DEF Dispatch, Queue!Receive, Queue!Stop, Queue!CloseChannel, Queue!StartJob,
                Queue!ended, rows, calls
  <2> QED
    BY <1>4, <2>1, DispatchPasses DEF LifeStep
<1>5. CASE \E d \in Delivery : SpawnWorkflows(d) \/ JobDone(d) \/ JobTimeout(d)
  <2>1. UNCHANGED <<status, emitted, faults, restarts, abandoned>> /\ expired \subseteq expired'
    BY <1>5 DEF SpawnWorkflows, JobDone, JobTimeout, Queue!Finish, rows, calls, pools
  <2> QED
    BY <1>5, <2>1, JobPasses DEF LifeStep
<1>6. CASE AnnouncePending \/ AnnounceRefusal
  <2>1. UNCHANGED <<restarts, expired, abandoned>>
    BY <1>6 DEF AnnouncePending, AnnounceRefusal, calls, pools
  <2> QED
    BY <1>6, <2>1, AnnouncePendingLives, AnnounceRefusalLives DEF LifeStep
<1>7. ASSUME NEW t \in Task, Run(t) PROVE LifeStep
  <2>1. UNCHANGED <<restarts, expired, abandoned>>
    BY <1>7 DEF Run, calls, pools
  <2>2. \/ WritesRow(t) \/ EmitsEvent(t)
        \/ /\ UNCHANGED <<status, emitted>> /\ faults' \in {faults, faults + 1}
           /\ \A u \in Task : Passes(u)
    BY <1>7, RunLives DEF Passes
  <2> QED
    BY <1>7, <2>1, <2>2, RunLives DEF LifeStep
<1>8. ASSUME NEW w \in Wid, CancelCheck(w) \/ CancelWrite(w) PROVE LifeStep
  <2>1. UNCHANGED <<intake, task, job, outcome, abandoned, seen, restarts, expired>>
    BY <1>8 DEF CancelCheck, CancelWrite, pools
  <2>2. \A t \in Task : Still(t) /\ Passes(t)
    BY <1>1, <2>1 DEF Passes
  <2> QED
    BY <1>8, <2>1, <2>2 DEF CancelCheck, CancelWrite, rows, LifeStep
<1>9. CASE Shutdown \/ (\E t \in Task : StragglerEnds(t)) \/ UNCHANGED vars
  <2>1. UNCHANGED <<intake, task, job, outcome, abandoned, seen, restarts, expired, status,
                    emitted, faults>>
    BY <1>9 DEF Shutdown, Queue!Shutdown, Queue!ended, StragglerEnds, vars, pools, rows, calls
  <2>2. \A t \in Task : Passes(t)
    BY <1>1, <2>1 DEF Passes
  <2> QED
    BY <2>1, <2>2 DEF LifeStep
<1> QED
  BY <1>2, <1>3, <1>4, <1>5, <1>6, <1>7, <1>8, <1>9 DEF Next, Intake

-----------------------------------------------------------------------------
(* The environments, and the tasks that are to destroy them               *)

\* A task from its setup to its end, one without a log file excepted.
Working(t) ==
    /\ task[t].at \in {"setup", "steps", "record", "report", "destroy"}
    /\ task[t].result # "nolog"

\* Where a task with a result is.  One without a log file did not set anything up.
ResultPlaces ==
    \A t \in Task :
        /\ task[t].result = "nolog" => task[t].at \in {"record", "report", "over"}
        /\ task[t].result = "timeout" => task[t].at \in {"record", "report", "destroy", "over"}

\* What was left to a blocking thread was left by a timeout.
StragglersTimedOut ==
    \A t \in Task, what \in {"mkdir", "command", "late"} :
        <<t, what>> \in straggling => task[t].result = "timeout" \/ t[1] \in expired

\* A workspace or a container has a task that will destroy it, or had one, or came late.
Claimed(w, t) ==
    /\ WidOf(t) = w
    /\ t[1] \in expired \/ Working(t) \/ <<t, "late">> \in straggling

EnvHeld ==
    /\ faults \in Nat /\ restarts \in Nat
    /\ straggling \subseteq Task \X {"mkdir", "command", "late"}
    /\ faults = 0 /\ restarts = 0 => \A w \in env : \E t \in Task : Claimed(w, t)

\* All of them, with what LifeInv says of tasks and jobs.
EnvInv == LifeInv /\ ResultPlaces /\ StragglersTimedOut /\ EnvHeld

\* Steps that leave the tasks and the environments alone.
LEMMA EnvUntouched ==
    ASSUME EnvInv, LifeInv', UNCHANGED <<task, env, straggling>>, expired \subseteq expired',
           faults' \in {faults, faults + 1}, restarts' = restarts
    PROVE  EnvInv'
<1>1. ResultPlaces'
  BY DEF EnvInv, ResultPlaces
<1>2. StragglersTimedOut'
  BY DEF EnvInv, StragglersTimedOut
<1>3. \A w \in env, t \in Task : Claimed(w, t) => Claimed(w, t)'
  BY DEF Claimed, Working, WidOf
<1>4. EnvHeld'
  BY <1>3 DEF EnvInv, EnvHeld
<1> QED
  BY <1>1, <1>2, <1>4 DEF EnvInv

\* What a task's step must do to the environments: keep a claim on each.
EnvMoves(t, r) ==
    \/ /\ env' \subseteq env \cup {WidOf(t)}
       /\ Working(t) \/ env' # env =>
              \/ t[1] \in expired
              \/ /\ r.result # "nolog"
                 /\ r.at \in {"setup", "steps", "record", "report", "destroy"}
    \/ env' = env \ {WidOf(t)}
    \/ faults' # faults

\* And what it may leave behind: only an interrupted task leaves anything.
Leaving(t, r) ==
    /\ straggling \subseteq straggling'
    /\ straggling' \subseteq straggling \cup {<<t, "mkdir">>, <<t, "command">>}
    /\ straggling' # straggling => r.result = "timeout" \/ t[1] \in expired
    /\ task[t].result = "timeout" => r.result = "timeout"

EnvStep(t, r) ==
    /\ task' = [task EXCEPT ![t] = r]
    /\ r.result = "nolog" => r.at \in {"record", "report", "over"}
    /\ r.result = "timeout" => r.at \in {"record", "report", "destroy", "over"}
    /\ EnvMoves(t, r) /\ Leaving(t, r)

EnvSteps(t) == \E r : EnvStep(t, r)

LEMMA EnvTaskMoves ==
    ASSUME EnvInv, LifeInv', NEW t \in Task, NEW r, EnvStep(t, r),
           UNCHANGED <<expired, restarts>>, faults' \in {faults, faults + 1}
    PROVE  EnvInv'
<1>0. /\ r.result = "nolog" => r.at \in {"record", "report", "over"}
      /\ r.result = "timeout" => r.at \in {"record", "report", "destroy", "over"}
      /\ EnvMoves(t, r) /\ Leaving(t, r)
  BY DEF EnvStep
<1>1. task'[t] = r /\ \A u \in Task : u # t => task'[u] = task[u]
  BY DEF EnvStep, EnvInv, LifeInv, WorkInv, Types
<1>2. ResultPlaces'
  BY <1>0, <1>1 DEF EnvInv, ResultPlaces
<1>3. StragglersTimedOut'
  <2> SUFFICES ASSUME NEW u \in Task, NEW what \in {"mkdir", "command", "late"},
                      <<u, what>> \in straggling'
               PROVE  task'[u].result = "timeout" \/ u[1] \in expired
    BY DEF StragglersTimedOut
  <2>1. CASE <<u, what>> \in straggling
    BY <1>0, <1>1, <2>1 DEF EnvInv, StragglersTimedOut, Leaving
  <2>2. CASE <<u, what>> \notin straggling
    BY <1>0, <1>1, <2>2 DEF Leaving
  <2> QED
    BY <2>1, <2>2
<1>4. straggling' \subseteq Task \X {"mkdir", "command", "late"}
  BY <1>0 DEF EnvInv, EnvHeld, Leaving
<1>5. EnvHeld'
  <2> SUFFICES ASSUME faults' = 0, restarts' = 0, NEW w \in env'
               PROVE  \E u \in Task : Claimed(w, u)'
    BY <1>4 DEF EnvInv, EnvHeld
  <2>1. faults = 0 /\ restarts = 0 /\ faults' = faults
    BY DEF EnvInv, EnvHeld
  <2>2. CASE w \in env
    <3> PICK u \in Task : Claimed(w, u)
      BY <2>1, <2>2 DEF EnvInv, EnvHeld
    <3>1. WidOf(u)' = w
      BY DEF Claimed, WidOf
    <3>2. CASE u[1] \in expired \/ <<u, "late">> \in straggling
      BY <1>0, <3>1, <3>2 DEF Claimed, Leaving
    <3>3. CASE u # t /\ Working(u)
      BY <1>1, <3>1, <3>3 DEF Claimed, Working
    <3>4. CASE u = t /\ Working(t)
      <4>1. w # WidOf(t) \/ env' # env \ {WidOf(t)}
        OBVIOUS
      <4>2. t[1] \in expired \/ (r.result # "nolog" /\ r.at \in {"setup", "steps", "record", "report", "destroy"})
        BY <1>0, <2>1, <3>4, <4>1 DEF EnvMoves, Claimed
      <4> QED
        BY <1>1, <3>1, <3>4, <4>2 DEF Claimed, Working
    <3> QED
      BY <3>2, <3>3, <3>4 DEF Claimed
  <2>3. CASE w \notin env
    <3>1. w = WidOf(t) /\ env' # env /\ env' # env \ {WidOf(t)}
      BY <1>0, <2>1, <2>3 DEF EnvMoves
    <3>2. t[1] \in expired \/ (r.result # "nolog" /\ r.at \in {"setup", "steps", "record", "report", "destroy"})
      BY <1>0, <2>1, <3>1 DEF EnvMoves
    <3>3. Claimed(w, t)'
      BY <1>1, <3>1, <3>2 DEF Claimed, Working, WidOf
    <3> QED
      BY <3>3
  <2> QED
    BY <2>2, <2>3
<1> QED
  BY <1>2, <1>3, <1>5 DEF EnvInv

LEMMA EnvTaskStep ==
    ASSUME EnvInv, LifeInv', NEW t \in Task, Run(t)
    PROVE  EnvInv'
<1> DEFINE old == task[t].result
<1>0. task \in [Task -> TaskState] /\ UNCHANGED <<expired, restarts>>
  BY DEF EnvInv, LifeInv, WorkInv, Types, Run, calls
<1>1. faults' \in {faults, faults + 1} /\ faults \in Nat
  BY DEF EnvInv, EnvHeld, Run, MarkRunning, AnnounceRunning, Setup, StepsEnd, WorkflowTimeout,
         Record, Report, Destroy, Abort, Write, Emit, Fault, rows
<1>2. ASSUME NEW p, Goto(t, p)
      PROVE  task' = [task EXCEPT ![t] = [at |-> p, result |-> old]]
  BY <1>0, <1>2, GotoTask
<1>3. /\ old = "nolog" => task[t].at \in {"record", "report", "over"}
      /\ old = "timeout" => task[t].at \in {"record", "report", "destroy", "over"}
  BY DEF EnvInv, ResultPlaces
<1> SUFFICES EnvSteps(t)
  BY <1>0, <1>1, EnvTaskMoves DEF EnvSteps
<1>4. ASSUME NEW p, Goto(t, p), UNCHANGED envs,
             old = "nolog" => p \in {"record", "report", "over"},
             old = "timeout" => p \in {"record", "report", "destroy", "over"},
             Working(t) => t[1] \in expired \/ p \in {"setup", "steps", "record", "report", "destroy"}
      PROVE  EnvSteps(t)
  <2> DEFINE r == [at |-> p, result |-> old]
  <2>1. task' = [task EXCEPT ![t] = r] /\ r.at = p /\ r.result = old
    BY <1>2, <1>4
  <2>2. UNCHANGED <<env, straggling>>
    BY <1>4 DEF envs
  <2>3. EnvMoves(t, r)
    BY <1>4, <2>2 DEF EnvMoves, Working
  <2>4. Leaving(t, r)
    BY <2>2 DEF Leaving
  <2>5. EnvStep(t, r)
    BY <1>4, <2>1, <2>3, <2>4 DEF EnvStep
  <2> QED
    BY <2>5 DEF EnvSteps
<1>5. ASSUME NEW q \in {"nolog", "failed", "success", "timeout"}, Ends(t, q), old # "timeout",
             env' \subseteq env \cup {WidOf(t)},
             q = "nolog" => UNCHANGED env /\ ~Working(t),
             straggling \subseteq straggling',
             straggling' \subseteq straggling \cup {<<t, "mkdir">>, <<t, "command">>},
             straggling' # straggling => q = "timeout"
      PROVE  EnvSteps(t)
  <2> DEFINE r == [at |-> "record", result |-> q]
  <2>1. task' = [task EXCEPT ![t] = r] /\ r.at = "record" /\ r.result = q
    BY <1>5 DEF Ends
  <2>2. EnvMoves(t, r) /\ Leaving(t, r)
    BY <1>5, <2>1 DEF EnvMoves, Leaving
  <2>3. EnvStep(t, r)
    BY <1>5, <2>1, <2>2 DEF EnvStep
  <2> QED
    BY <2>3 DEF EnvSteps
<1>6. CASE MarkRunning(t) \/ Record(t)
  <2>1. \/ task[t].at = "spawned" /\ Goto(t, "announce")
        \/ task[t].at = "record" /\ Goto(t, "report")
    BY <1>6 DEF MarkRunning, Record, Polled
  <2>2. UNCHANGED envs
    BY <1>6 DEF MarkRunning, Record
  <2> QED
    BY <1>3, <1>4, <2>1, <2>2 DEF Working
<1>7. CASE AnnounceRunning(t)
  <2>1. task[t].at = "announce" /\ UNCHANGED envs /\ (Goto(t, "setup") \/ Ends(t, "nolog"))
    BY <1>7 DEF AnnounceRunning
  <2>2. ~Working(t) /\ old \notin {"nolog", "timeout"} /\ UNCHANGED <<env, straggling>>
    BY <1>3, <2>1 DEF Working, envs
  <2> QED
    BY <1>4, <1>5, <2>1, <2>2
<1>8. CASE Setup(t)
  <2>1. /\ task[t].at = "setup" /\ UNCHANGED straggling
        /\ env' \subseteq env \cup {WidOf(t)}
        /\ Goto(t, "steps") \/ Ends(t, "failed")
    BY <1>8 DEF Setup, Polled
  <2>2. old \notin {"nolog", "timeout"}
    BY <1>3, <2>1
  <2>3. CASE Ends(t, "failed")
    BY <1>5, <2>1, <2>2, <2>3
  <2>4. CASE Goto(t, "steps")
    <3> DEFINE r == [at |-> "steps", result |-> old]
    <3>1. task' = [task EXCEPT ![t] = r] /\ r.at = "steps" /\ r.result = old
      BY <1>2, <2>4
    <3>2. EnvMoves(t, r) /\ Leaving(t, r)
      BY <2>1, <2>2, <3>1 DEF EnvMoves, Leaving
    <3>3. EnvStep(t, r)
      BY <2>2, <3>1, <3>2 DEF EnvStep
    <3> QED
      BY <3>3 DEF EnvSteps
  <2> QED
    BY <2>1, <2>3, <2>4
<1>9. CASE StepsEnd(t)
  <2>1. /\ task[t].at = "steps" /\ UNCHANGED <<env, straggling>>
        /\ Ends(t, "success") \/ Ends(t, "failed")
    BY <1>9 DEF StepsEnd, Polled, envs
  <2>2. old # "timeout"
    BY <1>3, <2>1
  <2> QED
    BY <1>5, <2>1, <2>2
<1>10. CASE WorkflowTimeout(t)
  <2>1. task[t].at \in {"setup", "steps"} /\ Ends(t, "timeout") /\ Interrupted(t)
    BY <1>10 DEF WorkflowTimeout, Polled, TimedPlaces
  <2>2. /\ env' \subseteq env \cup {WidOf(t)} /\ straggling \subseteq straggling'
        /\ straggling' \subseteq straggling \cup {<<t, "mkdir">>, <<t, "command">>}
    BY <2>1 DEF Interrupted, Leaves, envs
  <2>3. old # "timeout"
    BY <1>3, <2>1
  <2> QED
    BY <1>5, <2>1, <2>2, <2>3
<1>11. CASE Report(t)
  <2>1. task[t].at = "report" /\ Goto(t, After(old)) /\ UNCHANGED envs
    BY <1>11 DEF Report
  <2>2. After(old) = IF old = "nolog" THEN "over" ELSE "destroy"
    BY DEF After
  <2> QED
    BY <1>4, <2>1, <2>2 DEF Working
<1>12. CASE Destroy(t)
  <2>1. /\ task[t].at = "destroy" /\ Goto(t, "over") /\ UNCHANGED straggling
        /\ env' = env \ {WidOf(t)} \/ faults' = faults + 1
    BY <1>12 DEF Destroy, Fault
  <2> DEFINE r == [at |-> "over", result |-> old]
  <2>2. task' = [task EXCEPT ![t] = r] /\ r.at = "over" /\ r.result = old
    BY <1>2, <2>1
  <2>3. EnvMoves(t, r) /\ Leaving(t, r)
    BY <1>1, <2>1, <2>2 DEF EnvMoves, Leaving
  <2>4. EnvStep(t, r)
    BY <2>2, <2>3 DEF EnvStep
  <2> QED
    BY <2>4 DEF EnvSteps
<1>13. CASE Abort(t)
  <2>1. /\ t[1] \in expired /\ Goto(t, "over")
        /\ env' \subseteq env \cup {WidOf(t)} /\ straggling \subseteq straggling'
        /\ straggling' \subseteq straggling \cup {<<t, "mkdir">>, <<t, "command">>}
    BY <1>13 DEF Abort, Interrupted, Leaves, envs
  <2> DEFINE r == [at |-> "over", result |-> old]
  <2>2. task' = [task EXCEPT ![t] = r] /\ r.at = "over" /\ r.result = old
    BY <1>2, <2>1
  <2>3. EnvMoves(t, r) /\ Leaving(t, r)
    BY <2>1, <2>2 DEF EnvMoves, Leaving
  <2>4. EnvStep(t, r)
    BY <2>2, <2>3 DEF EnvStep
  <2> QED
    BY <2>4 DEF EnvSteps
<1> QED
  BY <1>6, <1>7, <1>8, <1>9, <1>10, <1>11, <1>12, <1>13 DEF Run

\* A blocking thread that ends after its task was done leaves a workspace behind,
\* which is marked; before, the task will destroy it.
LEMMA EnvStragglerStep ==
    ASSUME EnvInv, LifeInv', NEW t \in Task, StragglerEnds(t)
    PROVE  EnvInv'
<1>1. UNCHANGED <<task, expired, faults, restarts>>
  BY DEF StragglerEnds, rows, calls
<1>2. \/ <<t, "mkdir">> \in straggling
      \/ env' = env /\ straggling' = straggling \ {<<t, "command">>}
  BY DEF StragglerEnds
<1>3. /\ \A s \in straggling' : s \in straggling \/ (s = <<t, "late">> /\ <<t, "mkdir">> \in straggling)
      /\ \A u \in Task : <<u, "late">> \in straggling => <<u, "late">> \in straggling'
      /\ env' # env =>
             /\ <<t, "mkdir">> \in straggling /\ env' = env \cup {WidOf(t)}
             /\ task[t].at = "over" => <<t, "late">> \in straggling'
  BY DEF StragglerEnds
<1>4. ResultPlaces'
  BY <1>1 DEF EnvInv, ResultPlaces
<1>5. StragglersTimedOut'
  BY <1>1, <1>3 DEF EnvInv, StragglersTimedOut
<1>6. straggling' \subseteq Task \X {"mkdir", "command", "late"}
  BY <1>3 DEF EnvInv, EnvHeld
<1>7. \A u \in Task, w \in Wid : Claimed(w, u) => Claimed(w, u)'
  BY <1>1, <1>3 DEF Claimed, Working, WidOf
<1>8. <<t, "mkdir">> \in straggling => t[1] \in expired \/ Working(t) \/ task[t].at = "over"
  BY DEF EnvInv, StragglersTimedOut, ResultPlaces, Working
<1>9. EnvHeld'
  <2> SUFFICES ASSUME faults' = 0, restarts' = 0, NEW w \in env'
               PROVE  \E u \in Task : Claimed(w, u)'
    BY <1>1, <1>6 DEF EnvInv, EnvHeld
  <2>1. CASE w \in env
    <3> PICK u \in Task : Claimed(w, u)
      BY <1>1, <2>1 DEF EnvInv, EnvHeld
    <3> QED
      BY <1>1, <1>3 DEF Claimed, Working, WidOf
  <2>2. CASE w \notin env
    <3>1. w = WidOf(t) /\ env' # env
      BY <1>3, <2>2
    <3> QED
      BY <1>1, <1>3, <1>8, <3>1 DEF Claimed, Working, WidOf
  <2> QED
    BY <2>1, <2>2
<1> QED
  BY <1>4, <1>5, <1>9 DEF EnvInv

\* Spawning begins tasks that did not live, and had not begun before.
LEMMA EnvSpawnStep ==
    ASSUME EnvInv, LifeInv', NEW d \in Delivery, SpawnWorkflows(d)
    PROVE  EnvInv'
<1>1. /\ task' = [t \in Task |-> IF t[1] = d THEN [at |-> "spawned", result |-> "none"]
                                             ELSE task[t]]
      /\ job[d] = "secrets" /\ UNCHANGED <<env, straggling, faults, restarts, expired>>
  BY DEF SpawnWorkflows, rows, calls, envs
<1>2. \A t \in Task : t[1] = d => task[t].at = "none"
  BY <1>1 DEF EnvInv, LifeInv, TaskAfterJob
<1>3. \A t \in Task : task[t].at = "none" => task[t].result # "timeout" /\ ~Working(t)
  BY DEF EnvInv, ResultPlaces, Working
<1>4. ResultPlaces'
  BY <1>1 DEF EnvInv, ResultPlaces
<1>5. StragglersTimedOut'
  BY <1>1, <1>2, <1>3 DEF EnvInv, StragglersTimedOut
<1>6. \A t \in Task : Working(t) => Working(t)'
  BY <1>1, <1>2, <1>3 DEF Working
<1>7. EnvHeld'
  BY <1>1, <1>6 DEF EnvInv, EnvHeld, Claimed, WidOf
<1> QED
  BY <1>4, <1>5, <1>7 DEF EnvInv

\* After a restart nothing is claimed of the workspaces the old process left.
LEMMA EnvRestartStep == ASSUME EnvInv, LifeInv', Restart PROVE EnvInv'
<1>1. /\ faults' \in {faults, faults + 1} /\ restarts' = restarts + 1 /\ expired' = expired
      /\ straggling' \subseteq straggling
  BY DEF Restart, Write, Fault
<1>2. EnvHeld'
  BY <1>1 DEF EnvInv, EnvHeld
<1>3. ASSUME NEW t \in Task
      PROVE  \/ task'[t] = NoTask /\ task[t].at = "none"
             \/ task'[t].at = "over" /\ task'[t].result = task[t].result
  <2> PICK a, q : task[t] = [at |-> a, result |-> q]
    BY DEF EnvInv, LifeInv, WorkInv, Types, TaskState
  <2>1. [task[t] EXCEPT !.at = "over"] = [at |-> "over", result |-> q]
    OBVIOUS
  <2> QED
    BY <2>1 DEF Restart
<1>4. ResultPlaces'
  BY <1>3 DEF ResultPlaces, NoTask
<1>5. StragglersTimedOut'
  <2> SUFFICES ASSUME NEW t \in Task, NEW what \in {"mkdir", "command", "late"},
                      <<t, what>> \in straggling'
               PROVE  task'[t].result = "timeout" \/ t[1] \in expired
    BY <1>1 DEF StragglersTimedOut
  <2>1. task[t].result = "timeout" \/ t[1] \in expired
    BY <1>1 DEF EnvInv, StragglersTimedOut
  <2>2. task[t].result = "timeout" => task[t].at # "none"
    BY DEF EnvInv, ResultPlaces
  <2> QED
    BY <1>3, <2>1, <2>2
<1> QED
  BY <1>2, <1>4, <1>5 DEF EnvInv

\* Every step keeps them.
LEMMA NextEnvInv == EnvInv /\ [Next]_vars => EnvInv'
<1> SUFFICES ASSUME EnvInv, [Next]_vars PROVE EnvInv'
  OBVIOUS
<1>0. LifeInv'
  BY NextLifeInv DEF EnvInv
<1>1. CASE \/ Intake \/ Dispatch \/ Shutdown
           \/ \E d \in Delivery : Take(d) \/ JobDone(d) \/ JobTimeout(d)
  <2>1. UNCHANGED <<task, env, straggling, restarts>> /\ faults' \in {faults, faults + 1}
    BY <1>1 DEF Intake, AnnouncePending, Submit, AnnounceRefusal, LoopStep, Write, Emit, Fault,
                Dispatch, Shutdown, Take, JobDone, JobTimeout, rows, calls, envs
  <2>2. expired \subseteq expired'
    BY <1>1 DEF Intake, AnnouncePending, Submit, AnnounceRefusal, Dispatch, Shutdown, Take,
                JobDone, JobTimeout
  <2> QED
    BY <1>0, <2>1, <2>2, EnvUntouched
<1>2. ASSUME NEW w \in Wid, CancelCheck(w) \/ CancelWrite(w) PROVE EnvInv'
  <2>1. UNCHANGED <<task, env, straggling, restarts, expired>> /\ faults' \in {faults, faults + 1}
    BY <1>2 DEF CancelCheck, CancelWrite, Write, Fault, rows, envs
  <2> QED
    BY <1>0, <2>1, EnvUntouched
<1>3. CASE UNCHANGED vars
  <2>1. UNCHANGED <<task, env, straggling, restarts, expired, faults>>
    BY <1>3 DEF vars, rows, calls, envs
  <2> QED
    BY <1>0, <2>1, EnvUntouched
<1> QED
  BY <1>0, <1>1, <1>2, <1>3, EnvTaskStep, EnvStragglerStep, EnvSpawnStep, EnvRestartStep DEF Next

\* Nothing is set up at the start.
LEMMA InitEnvInv == Init => EnvInv
  BY InitLifeInv DEF Init, EnvInv, ResultPlaces, StragglersTimedOut, EnvHeld, NoTask

\* The environments have their workers in every reachable state.
THEOREM EnvInvariant == Spec => []EnvInv
  BY InitEnvInv, NextEnvInv, PTL DEF Spec

\* "Always destroy the workflow environment": without faults and restarts, none
\* outlives its task but for those that pipeline_timeout aborts, the workspace that is
\* created after its task gave it up, and the container of a command that goes on after
\* workflow_timeout.
THEOREM EnvironmentsDestroyed == Spec => []EnvDestroyed
<1>1. ASSUME EnvInv, faults = 0, restarts = 0, NEW w \in env
      PROVE  \E t \in Task : /\ WidOf(t) = w
                             /\ Live(t) \/ t[1] \in expired \/ <<t, "late">> \in straggling
  <2> PICK t \in Task : Claimed(w, t)
    BY <1>1 DEF EnvInv, EnvHeld
  <2> QED
    BY DEF Claimed, Working, Live
<1>2. ASSUME EnvInv, NEW s \in straggling
      PROVE  task[s[1]].result = "timeout" \/ s[1][1] \in expired
  <2> PICK t \in Task, what \in {"mkdir", "command", "late"} : s = <<t, what>>
    BY <1>2 DEF EnvInv, EnvHeld
  <2> QED
    BY <1>2 DEF EnvInv, StragglersTimedOut
<1>3. EnvInv => EnvDestroyed
  BY <1>1, <1>2 DEF EnvDestroyed
<1> QED
  BY <1>3, EnvInvariant, PTL
-----------------------------------------------------------------------------
(* Types                                                                   *)

\* What TypeOK says beyond LifeInv.
QueueRest ==
    /\ Len(buffer) <= QueueSize
    /\ dispatcher \in Queue!Place
    /\ shutdown \in BOOLEAN /\ handle \in BOOLEAN
    /\ finished \subseteq Delivery

Collections ==
    /\ seen \subseteq Delivery /\ expired \subseteq Delivery
    /\ env \subseteq Wid /\ cancelling \subseteq Wid
    /\ straggling \subseteq Task \X {"mkdir", "command", "late"}

Tables ==
    /\ status \in [Wid -> {"absent"} \cup StatusKind]
    /\ emitted \in [Wid -> Seq(StatusKind)]
    /\ faults \in 0 .. MaxFaults /\ cancels \in 0 .. MaxCancels /\ restarts \in 0 .. MaxRestarts

TypeInv == LifeInv /\ QueueRest /\ Collections /\ Tables

\* A workflow has an id in the table.
LEMMA WidOfTask == \A t \in Task : WidOf(t) \in Wid
<1> SUFFICES ASSUME NEW t \in Task PROVE WidOf(t) \in Wid
  OBVIOUS
<1>1. t[1] \in Delivery /\ t[2] \in DOMAIN Manifests[t[1]]
  BY TaskIsPair DEF Entries
<1> QED
  BY <1>1 DEF WidOf, Wid

\* The type invariant is what TypeInv says.
LEMMA TypeInvImplies == TypeInv => TypeOK
<1> SUFFICES ASSUME TypeInv PROVE TypeOK
  OBVIOUS
<1>1. Queue!TypeOK
  <2>1. holding \in {<<>>} \cup {<<d>> : d \in Delivery}
    BY DEF TypeInv, LifeInv, WorkInv, HandFull
  <2>2. permits \in 0 .. MaxJobs
    BY FS_CardinalityType, OrchestratorAssumption DEF TypeInv, LifeInv, PermitUnderJob
  <2>3. running \subseteq Delivery /\ abandoned \subseteq Delivery
    BY DEF TypeInv, LifeInv, PermitUnderJob, LineKept
  <2> QED
    BY <2>1, <2>2, <2>3 DEF TypeInv, QueueRest, LifeInv, WorkInv, Types, Queue!TypeOK, Queue!Outcome
<1>2. /\ intake.at \in {"idle", "row", "event", "submit", "failrow", "failevent"}
      /\ intake.at # "idle" => intake.d \in Delivery
      /\ intake.left \subseteq (IF intake.at = "idle" THEN {} ELSE Entries(intake.d))
  BY DEF TypeInv, LifeInv, WorkInv, IntakeHasEvent, Idle, Looping
<1> QED
  BY <1>1, <1>2 DEF TypeInv, Collections, Tables, LifeInv, WorkInv, Types, JobPlace, TaskState,
                    TypeOK

\* It holds at the start.
LEMMA InitTypeInv == Init => TypeInv
<1> SUFFICES ASSUME Init PROVE TypeInv
  OBVIOUS
<1>1. QueueRest
  <2>1. Len(<<>>) <= QueueSize
    BY OrchestratorAssumption
  <2> QED
    BY <2>1 DEF Init, Queue!Init, QueueRest, Queue!Place
<1>2. Collections
  BY DEF Init, Collections
<1>3. Tables
  BY OrchestratorAssumption DEF Init, Tables
<1> QED
  BY <1>1, <1>2, <1>3, InitLifeInv DEF TypeInv

\* The queue's own variables.
LEMMA QueueRestStep == ASSUME TypeInv, [Next]_vars PROVE QueueRest'
<1>1. ASSUME UNCHANGED <<buffer, dispatcher, shutdown, handle, finished>> PROVE QueueRest'
  BY <1>1 DEF TypeInv, QueueRest
<1>2. CASE \/ AnnouncePending \/ AnnounceRefusal
           \/ \E d \in Delivery : Take(d) \/ SpawnWorkflows(d)
           \/ \E t \in Task : Run(t) \/ StragglerEnds(t)
           \/ \E w \in Wid : CancelCheck(w) \/ CancelWrite(w)
           \/ UNCHANGED vars
  BY <1>1, <1>2 DEF AnnouncePending, AnnounceRefusal, Take, SpawnWorkflows, Run, StragglerEnds,
                    CancelCheck, CancelWrite, vars, pools
<1>3. CASE Submit
  <2>1. UNCHANGED <<dispatcher, shutdown, handle, finished>>
    BY <1>3 DEF Submit, Queue!SubmitOk, Queue!SubmitFull, Queue!SubmitClosed, Queue!Return,
                Queue!token, Queue!ended
  <2>2. /\ Len(buffer') <= QueueSize
    BY <1>3, SubmitSettles, OrchestratorAssumption DEF Submit, Queue!SubmitOk, Queue!SubmitFull,
       Queue!SubmitClosed, Queue!HasRoom, TypeInv, QueueRest, LifeInv, WorkInv, Types
  <2> QED
    BY <2>1, <2>2 DEF TypeInv, QueueRest
<1>4. CASE Dispatch \/ Shutdown
  <2>1. UNCHANGED <<handle, finished>> /\ shutdown' \in {shutdown, TRUE}
    BY <1>4 DEF Dispatch, Shutdown, Queue!Receive, Queue!Stop, Queue!CloseChannel,
                Queue!StartJob, Queue!Shutdown, Queue!token, Queue!ended
  <2>2. dispatcher' \in Queue!Place
    BY <1>4 DEF Dispatch, Shutdown, Queue!Receive, Queue!Stop, Queue!CloseChannel,
                Queue!StartJob, Queue!Shutdown, Queue!Place, TypeInv, QueueRest
  <2>3. \/ buffer' \in {buffer, <<>>}
        \/ buffer # <<>> /\ buffer' = Tail(buffer)
    BY <1>4 DEF Dispatch, Shutdown, Queue!Receive, Queue!Recv, Queue!Stop, Queue!CloseChannel,
                Queue!StartJob, Queue!Shutdown
  <2>4. Len(buffer') <= QueueSize
    BY <2>3, OrchestratorAssumption DEF TypeInv, QueueRest, LifeInv, WorkInv, Types
  <2> QED
    BY <2>1, <2>2, <2>4 DEF TypeInv, QueueRest
<1>5. ASSUME NEW d \in Delivery, JobDone(d) \/ JobTimeout(d) PROVE QueueRest'
  BY <1>5 DEF JobDone, JobTimeout, Queue!Finish, Queue!token, TypeInv, QueueRest
<1>6. CASE Restart
  <2>1. Len(<<>>) <= QueueSize
    BY OrchestratorAssumption
  <2>2. /\ buffer' = <<>> /\ dispatcher' = "receiving" /\ shutdown' = FALSE /\ handle' = TRUE
        /\ finished' = finished
    BY <1>6 DEF Restart
  <2> QED
    BY <2>1, <2>2 DEF TypeInv, QueueRest, Queue!Place
<1> QED
  BY <1>2, <1>3, <1>4, <1>5, <1>6 DEF Next, Intake

\* The sets of pipelines and of workflows.
LEMMA CollectionsStep == ASSUME TypeInv, [Next]_vars PROVE Collections'
<1>1. ASSUME UNCHANGED <<seen, expired, env, straggling, cancelling>> PROVE Collections'
  BY <1>1 DEF TypeInv, Collections
<1>2. CASE Intake \/ Dispatch \/ Shutdown \/ UNCHANGED vars
  BY <1>1, <1>2 DEF Intake, AnnouncePending, Submit, AnnounceRefusal, Dispatch, Shutdown, vars,
                    envs, calls
<1>3. ASSUME NEW d \in Delivery, Take(d) \/ SpawnWorkflows(d) \/ JobDone(d) \/ JobTimeout(d)
      PROVE  Collections'
  BY <1>3 DEF Take, SpawnWorkflows, JobDone, JobTimeout, envs, calls, TypeInv, Collections
<1>4. ASSUME NEW t \in Task, Run(t) PROVE Collections'
  <2>1. UNCHANGED <<seen, expired, cancelling>>
    BY <1>4 DEF Run, calls
  <2>2. /\ env' \subseteq env \cup {WidOf(t)}
        /\ straggling' \subseteq straggling \cup {<<t, "mkdir">>, <<t, "command">>}
    BY <1>4 DEF Run, MarkRunning, AnnounceRunning, Setup, StepsEnd, WorkflowTimeout, Record,
                Report, Destroy, Abort, Interrupted, Leaves, envs
  <2> QED
    BY <2>1, <2>2, WidOfTask DEF TypeInv, Collections
<1>5. ASSUME NEW w \in Wid, CancelCheck(w) \/ CancelWrite(w) PROVE Collections'
  BY <1>5 DEF CancelCheck, CancelWrite, envs, TypeInv, Collections
<1>6. CASE Restart
  BY <1>6 DEF Restart, TypeInv, Collections
<1>7. ASSUME NEW t \in Task, StragglerEnds(t) PROVE Collections'
  <2>1. /\ UNCHANGED <<seen, expired, cancelling>> /\ env' \subseteq env \cup {WidOf(t)}
        /\ straggling' \subseteq straggling \cup {<<t, "late">>}
    BY <1>7 DEF StragglerEnds, calls
  <2> QED
    BY <2>1, WidOfTask DEF TypeInv, Collections
<1> QED
  BY <1>2, <1>3, <1>4, <1>5, <1>6, <1>7 DEF Next

\* The tables a workflow's life is written in.
LEMMA LivesAreTyped ==
    ASSUME TypeInv, NEW t \in Task, WritesRow(t) \/ EmitsEvent(t)
    PROVE  /\ status' \in [Wid -> {"absent"} \cup StatusKind]
           /\ emitted' \in [Wid -> Seq(StatusKind)]
<1>0. WidOf(t) \in Wid
  BY WidOfTask
<1>1. CASE WritesRow(t)
  <2>1. \/ Phase(t)' # "creating" /\ Due(t)' \in StatusKind
        \/ Phase(t) = "new"
    BY <1>1 DEF WritesRow, Due, StatusKind
  <2>2. status' \in [Wid -> {"absent"} \cup StatusKind]
    BY <1>0, <1>1, <2>1 DEF WritesRow, Write, Inserted, Updated, StatusKind, TypeInv, Tables
  <2> QED
    BY <1>1, <2>2 DEF WritesRow, Write, TypeInv, Tables
<1>2. CASE EmitsEvent(t)
  <2>1. CASE Due(t) \in StatusKind
    <3>1. Append(emitted[WidOf(t)], Due(t)) \in Seq(StatusKind)
      BY <1>0, <2>1 DEF TypeInv, Tables
    <3> QED
      BY <1>0, <1>2, <3>1 DEF EmitsEvent, Emit, TypeInv, Tables
  <2>2. Due(t) \in StatusKind
    <3>1. CASE Phase(t) # "reporting"
      BY <1>2, <3>1 DEF EmitsEvent, Due, StatusKind
    <3>2. CASE Phase(t) = "reporting"
      <4>1. task[t].at = "report"
        BY <3>2 DEF Phase, LoopPhase, TaskPhase, LifeInv, TypeInv, WorkInv, Types, TaskState, Awaiting, IntakeHasEvent, Idle, Looping
      <4>2. task[t].result \in {"success", "failed", "timeout", "nolog"}
        BY <4>1 DEF TypeInv, LifeInv, TaskAfterJob, WorkInv, Types, TaskState
      <4> QED
        BY <3>2, <4>2 DEF Due, StatusOf, StatusKind
    <3> QED
      BY <3>1, <3>2
  <2> QED
    BY <2>1, <2>2
<1> QED
  BY <1>1, <1>2

\* The tables, the counters and their bounds.
LEMMA TablesStep == ASSUME TypeInv, [Next]_vars PROVE Tables'
<1>1. /\ status' \in [Wid -> {"absent"} \cup StatusKind]
      /\ emitted' \in [Wid -> Seq(StatusKind)]
  <2>1. CASE UNCHANGED <<status, emitted>>
    BY <2>1 DEF TypeInv, Tables
  <2>2. ASSUME NEW w \in cancelling, Write(Updated(w, "cancelled"))
        PROVE  /\ status' \in [Wid -> {"absent"} \cup StatusKind]
               /\ emitted' \in [Wid -> Seq(StatusKind)]
    BY <2>2 DEF Write, Updated, StatusKind, TypeInv, Tables, Collections
  <2>3. CASE Restart
    BY <2>3 DEF Restart, Write, Orphaned, StatusKind, TypeInv, Tables
  <2> QED
    BY <2>1, <2>2, <2>3, LivesAreTyped, EveryStepLives DEF LifeStep, TypeInv
<1>2. faults' = faults \/ Fault
  BY DEF Next, Intake, AnnouncePending, Submit, AnnounceRefusal, LoopStep, Write, Emit, Dispatch,
     Shutdown, Restart, Take, SpawnWorkflows, JobDone, JobTimeout, Run, MarkRunning,
     AnnounceRunning, Setup, StepsEnd, WorkflowTimeout, Record, Report, Destroy, Abort,
     StragglerEnds, CancelCheck, CancelWrite, vars, rows
<1>3. cancels' = cancels \/ (cancels < MaxCancels /\ cancels' = cancels + 1)
  BY DEF Next, Intake, AnnouncePending, Submit, AnnounceRefusal, Dispatch,
     Shutdown, Restart, Take, SpawnWorkflows, JobDone, JobTimeout, Run, StragglerEnds,
     CancelCheck, CancelWrite, vars, calls
<1>4. restarts' = restarts \/ (restarts < MaxRestarts /\ restarts' = restarts + 1)
  BY EveryStepLives DEF TypeInv, LifeStep, Restart
<1> QED
  BY <1>1, <1>2, <1>3, <1>4, OrchestratorAssumption DEF Fault, TypeInv, Tables

\* Every step keeps the types.
LEMMA NextTypeInv == TypeInv /\ [Next]_vars => TypeInv'
  BY NextLifeInv, QueueRestStep, CollectionsStep, TablesStep DEF TypeInv

\* The types hold in every reachable state, with what LifeInv says.
THEOREM TypeInvariant == Spec => []TypeInv
  BY InitTypeInv, NextTypeInv, PTL DEF Spec

-----------------------------------------------------------------------------
(* No workflow is forgotten                                                *)

\* A workflow that its pipeline's journey has in hand, or whose pipeline was lost
\* in one of the ways the code has.
Carries(t) ==
    \/ Phase(t) \in {"creating", "waiting", "refusing", "announcing", "working"}
    \/ t[1] \in expired \cup abandoned

Carried ==
    \A w \in Wid : status[w] \in {"pending", "running"} =>
        faults > 0 \/ \E t \in Task : WidOf(t) = w /\ Carries(t)

CarriedInv == TypeInv /\ Carried

\* Who has a workflow in hand is in the event loop, the queue or a task.
LEMMA CarriersHaveIt == ASSUME LifeInv, NEW t \in Task, Carries(t) PROVE HasIt(t)
<1> SUFFICES ASSUME Phase(t) \in {"creating", "waiting", "refusing", "announcing", "working"},
                    t[1] \notin expired \cup abandoned
             PROVE  HasIt(t)
  BY DEF Carries, HasIt
<1>1. CASE task[t].at # "none"
  <2>1. Live(t)
    BY <1>1 DEF Phase, TaskPhase, Live
  <2> QED
    BY <2>1, WorkInvImplies DEF LifeInv, WorkUnderPermit, HasIt
<1>2. CASE task[t].at = "none" /\ job[t[1]] # "none"
  BY <1>2, TaskIsPair DEF Phase, LifeInv, WorkInv, JobUnderPermit, HasIt
<1>3. CASE task[t].at = "none" /\ job[t[1]] = "none" /\ outcome[t[1]] = "ok"
  <2>1. InLine(t[1])
    BY <1>3, TaskIsPair DEF LifeInv, LineKept
  <2>2. Range(<<t[1]>>) = {t[1]}
    BY DEF Range
  <2>3. t[1] \in Range(buffer) \cup Range(holding)
    BY <2>1, <2>2 DEF InLine, Range, LifeInv, WorkInv, Types
  <2> QED
    BY <2>3 DEF HasIt
<1>4. CASE task[t].at = "none" /\ job[t[1]] = "none" /\ outcome[t[1]] # "ok"
  BY <1>4 DEF Phase, HasIt
<1> QED
  BY <1>1, <1>2, <1>3, <1>4

\* A workflow is out of hand only when its row is settled, or a fault kept it so.
LEMMA NextCarriedInv == CarriedInv /\ [Next]_vars => CarriedInv'
<1> SUFFICES ASSUME CarriedInv, [Next]_vars PROVE CarriedInv'
  OBVIOUS
<1>1. TypeInv /\ TypeInv'
  BY NextTypeInv DEF CarriedInv
<1>2. faults \in Nat /\ faults' \in Nat
  BY <1>1, OrchestratorAssumption DEF TypeInv, Tables
<1> SUFFICES ASSUME NEW w \in Wid, status'[w] \in {"pending", "running"}, faults' = 0
             PROVE  \E t \in Task : WidOf(t) = w /\ Carries(t)'
  BY <1>1, <1>2 DEF CarriedInv, Carried, WidOf
<1>3. ASSUME faults = 0, status[w] \in {"pending", "running"}
      PROVE  \E t \in Task : WidOf(t) = w /\ Carries(t)
  BY <1>2, <1>3 DEF CarriedInv, Carried
<1>4. CASE Restart
  BY <1>1, <1>2, <1>4 DEF Restart, Write, Fault, Orphaned, TypeInv, Tables
<1>5. CASE LifeStep
  <2>1. expired \subseteq expired' /\ abandoned \subseteq abandoned'
    BY <1>5 DEF LifeStep
  <2>2. \A u \in Task : Still(u) /\ Carries(u) => Carries(u)'
    BY <2>1 DEF Still, Carries
  <2>3. CASE /\ UNCHANGED <<status, emitted>> /\ faults' \in {faults, faults + 1}
             /\ \A u \in Task : Passes(u)
    <3>1. \A u \in Task : Carries(u) => Carries(u)'
      BY <2>1, <2>2, <2>3 DEF Passes, Carries
    <3> QED
      BY <1>2, <1>3, <2>3, <3>1
  <2>4. ASSUME NEW t \in Task, WritesRow(t), \A u \in Task \ {t} : Still(u)
        PROVE  \E u \in Task : WidOf(u) = w /\ Carries(u)'
    <3>1. faults' = faults /\ status' = IF Phase(t) = "new" THEN Inserted(WidOf(t))
                                        ELSE Updated(WidOf(t), Due(t)')
      BY <1>2, <2>4 DEF WritesRow, Write, Fault
    <3>2. CASE w # WidOf(t)
      <4>1. status'[w] = status[w]
        BY <1>1, <3>1, <3>2 DEF Inserted, Updated, TypeInv, Tables
      <4>2. PICK u \in Task : WidOf(u) = w /\ Carries(u)
        BY <1>3, <3>1, <4>1
      <4> QED
        BY <2>2, <2>4, <3>2, <4>2
    <3>3. CASE w = WidOf(t)
      <4>1. Phase(t)' = "refused" => Due(t)' = "failed"
        BY DEF Due
      <4>2. Phase(t)' \notin {"refused", "reporting"}
        BY <1>1, <2>4, <3>1, <3>3, <4>1 DEF WritesRow, Updated, TypeInv, Tables
      <4>3. Carries(t)'
        BY <2>4, <4>2 DEF WritesRow, Carries
      <4> QED
        BY <3>3, <4>3
    <3> QED
      BY <3>2, <3>3
  <2>5. ASSUME NEW t \in Task, EmitsEvent(t), \A u \in Task \ {t} : Still(u)
        PROVE  \E u \in Task : WidOf(u) = w /\ Carries(u)'
    <3>1. status' = status /\ faults = 0
      BY <1>2, <2>5 DEF EmitsEvent, Emit, Fault
    <3>2. PICK u \in Task : WidOf(u) = w /\ Carries(u)
      BY <1>3, <3>1
    <3>3. Carries(t) => Carries(t)'
      BY <2>1, <2>5 DEF EmitsEvent, Carries
    <3> QED
      BY <2>2, <2>5, <3>2, <3>3
  <2>6. ASSUME NEW v \in cancelling, Write(Updated(v, "cancelled")), \A u \in Task : Still(u)
        PROVE  \E u \in Task : WidOf(u) = w /\ Carries(u)'
    <3>1. faults = 0 /\ status[w] = status'[w]
      BY <1>1, <1>2, <2>6 DEF Write, Fault, Updated, TypeInv, Tables
    <3> QED
      BY <1>3, <2>2, <2>6, <3>1
  <2> QED
    BY <1>5, <2>3, <2>4, <2>5, <2>6 DEF LifeStep
<1> QED
  BY <1>1, <1>4, <1>5, EveryStepLives DEF TypeInv

\* No row is pending or running at the start.
LEMMA InitCarriedInv == Init => CarriedInv
<1> SUFFICES ASSUME Init PROVE CarriedInv
  OBVIOUS
<1>1. \A w \in Wid : status[w] = "absent"
  BY DEF Init
<1> QED
  BY <1>1, InitTypeInv DEF CarriedInv, Carried

\* Every row that says pending or running is in somebody's hand: process_pipeline_event,
\* the queue or execute_workflow has the workflow, whatever was cancelled, however often
\* the process was restarted and whichever workflows share an id; the only ways to lose
\* one are a failed write, pipeline_timeout and a queue shut down under it.
THEOREM NoWorkflowForgotten == Spec => []SomebodyHasIt
<1>1. CarriedInv => SomebodyHasIt
  BY TypeInvImplies, CarriersHaveIt DEF CarriedInv, Carried, TypeInv, SomebodyHasIt
<1>2. CarriedInv /\ [Next]_vars => CarriedInv'
  BY NextCarriedInv
<1> QED
  BY <1>1, <1>2, InitCarriedInv, PTL DEF Spec

-----------------------------------------------------------------------------
(* The queue                                                               *)

\* A step of the orchestrator is a step of the queue, or leaves it alone.
LEMMA QueueSteps ==
    ASSUME TypeInv, [Next]_vars
    PROVE  [restarts' = restarts => Queue!Next]_(Queue!queueVars)
<1>1. CASE \/ AnnouncePending \/ AnnounceRefusal
           \/ \E d \in Delivery : Take(d) \/ SpawnWorkflows(d)
           \/ \E t \in Task : Run(t) \/ StragglerEnds(t)
           \/ \E w \in Wid : CancelCheck(w) \/ CancelWrite(w)
           \/ UNCHANGED vars
  <2>1. UNCHANGED pools
    BY <1>1 DEF AnnouncePending, AnnounceRefusal, Take, SpawnWorkflows, Run, StragglerEnds,
                CancelCheck, CancelWrite, vars
  <2> QED
    BY <2>1 DEF pools, Queue!queueVars, Queue!token, Queue!ended
<1>2. CASE Submit
  BY <1>2, SubmitSettles DEF Submit, Queue!Next, TypeInv
<1>3. CASE Dispatch \/ Shutdown
  BY <1>3 DEF Dispatch, Shutdown, Queue!Next, Queue!Dispatch
<1>4. CASE \E d \in Delivery : JobDone(d) \/ JobTimeout(d)
  BY <1>4 DEF JobDone, JobTimeout, Queue!Next
<1>5. CASE Restart
  <2>1. restarts' # restarts
    BY <1>5, OrchestratorAssumption DEF Restart, TypeInv, Tables
  <2> QED
    BY <2>1
<1> QED
  BY <1>1, <1>2, <1>3, <1>4, <1>5 DEF Next, Intake

\* Whatever the orchestrator does is, in each process, a run of JobQueue: submit is
\* called once for a pipeline, a permit goes out with the pipeline in the dispatcher's
\* hand and comes back once, when execute_pipeline returns or is timed out.
THEOREM QueueKeepsContract == Spec => QueueUnderContract
<1>1. Init => Queue!Init
  BY DEF Init
<1> QED
  BY <1>1, QueueSteps, TypeInvariant, PTL DEF Spec, QueueUnderContract

-----------------------------------------------------------------------------
(* Workflows with ids of their own                                         *)

\* An id names the pipeline and the workflow.  It is the workflow's own unless two
\* workflows of a pipeline have the same name or none (they are "unnamed"), or one
\* pipeline is delivered twice.
OwnIds == \A t, u \in Task : WidOf(t) = WidOf(u) => t = u

Row(t) == status[WidOf(t)]
Told(t) == emitted[WidOf(t)]

Results == {"success", "failed", "timeout"}

\* What a step of one process does to a workflow's own row and events.
OwnRowWritten(t) ==
    /\ <<Phase(t), Phase(t)'>> \in {<<"new", "creating">>, <<"refusing", "refused">>,
                                   <<"waiting", "announcing">>, <<"working", "reporting">>}
    /\ Told(t)' = Told(t)
    /\ \/ /\ Row(t)' = IF Row(t) = "absent"
                       THEN IF Phase(t) = "new" THEN "pending" ELSE "absent"
                       ELSE IF Phase(t) = "new" THEN Row(t) ELSE Due(t)'
          /\ faults' = faults
       \/ Row(t)' = Row(t) /\ faults' = faults + 1
    /\ Phase(t)' = "reporting" => Due(t)' \in Results

OwnEventEmitted(t) ==
    /\ <<Phase(t), Phase(t)'>> \in {<<"creating", "waiting">>, <<"refused", "over">>,
                                   <<"announcing", "working">>, <<"reporting", "over">>}
    /\ Row(t)' = Row(t)
    /\ \/ Told(t)' = Append(Told(t), Due(t)) /\ faults' = faults
       \/ Told(t)' = Told(t) /\ faults' = faults + 1

OwnRowCancelled(t) ==
    /\ cancelling # {}
    /\ Still(t)
    /\ Told(t)' = Told(t)
    /\ \/ Row(t)' = Row(t)
       \/ Row(t)' = "cancelled" /\ Row(t) # "absent" /\ WidOf(t) \in cancelling

OwnStep(t) ==
    /\ faults' \in {faults, faults + 1}
    /\ \/ Passes(t) /\ Row(t)' = Row(t) /\ Told(t)' = Told(t)
       \/ OwnRowWritten(t) \/ OwnEventEmitted(t) \/ OwnRowCancelled(t)

\* With ids of their own, workflows do not meddle with one another's lives.
LEMMA LivesAreOwn ==
    ASSUME OwnIds, TypeInv, LifeStep, NEW u \in Task
    PROVE  OwnStep(u)
<1>0. WidOf(u) \in Wid /\ DOMAIN status = Wid /\ DOMAIN emitted = Wid
  BY WidOfTask DEF TypeInv, Tables
<1>a. ASSUME NEW w, w = WidOf(u) PROVE Row(u)' = status'[w] /\ Told(u)' = emitted'[w]
  BY <1>a DEF Row, Told, WidOf
<1>1. CASE /\ UNCHANGED <<status, emitted>> /\ faults' \in {faults, faults + 1}
           /\ \A t \in Task : Passes(t)
  BY <1>1, <1>a DEF OwnStep, Row, Told
<1>2. ASSUME NEW t \in Task, WritesRow(t), \A v \in Task \ {t} : Still(v)
      PROVE  OwnStep(u)
  <2>1. WidOf(t) \in Wid
    BY WidOfTask
  <2>2. CASE u = t
    BY <1>0, <1>2, <1>a, <2>2 DEF OwnStep, OwnRowWritten, WritesRow, Write, Fault, Inserted, Updated,
       Row, Told, Results
  <2>3. CASE u # t
    <3>1. WidOf(u) # WidOf(t)
      BY <2>3 DEF OwnIds
    <3> QED
      BY <1>0, <1>2, <1>a, <2>3, <3>1 DEF OwnStep, Passes, WritesRow, Write, Fault, Inserted, Updated,
         Row, Told
  <2> QED
    BY <2>2, <2>3
<1>3. ASSUME NEW t \in Task, EmitsEvent(t), \A v \in Task \ {t} : Still(v)
      PROVE  OwnStep(u)
  <2>1. WidOf(t) \in Wid
    BY WidOfTask
  <2>2. CASE u = t
    BY <1>0, <1>3, <1>a, <2>2 DEF OwnStep, OwnEventEmitted, EmitsEvent, Emit, Fault, Row, Told
  <2>3. CASE u # t
    <3>1. WidOf(u) # WidOf(t)
      BY <2>3 DEF OwnIds
    <3> QED
      BY <1>0, <1>3, <1>a, <2>3, <3>1 DEF OwnStep, Passes, EmitsEvent, Emit, Fault, Row, Told
  <2> QED
    BY <2>2, <2>3
<1>4. ASSUME NEW w \in cancelling, Write(Updated(w, "cancelled")), \A v \in Task : Still(v)
      PROVE  OwnStep(u)
  <2>1. w \in Wid
    BY DEF TypeInv, Collections
  <2> QED
    BY <1>0, <1>4, <1>a, <2>1 DEF OwnStep, OwnRowCancelled, Write, Fault, Updated, Row, Told
<1> QED
  BY <1>1, <1>2, <1>3, <1>4 DEF LifeStep

\* A new process finds every workflow it will meet again new.
LEMMA RestartEndsLives ==
    ASSUME TypeInv, Restart, NEW t \in Task
    PROVE  Phase(t)' = "over" \/ (Phase(t)' = "new" /\ Phase(t) = "new")
<1>1. /\ UNCHANGED <<outcome, seen>> /\ intake' = Idle
      /\ abandoned' = abandoned \cup Range(buffer) \cup Range(holding) \cup running
      /\ task'[t] = IF task[t].at = "none" THEN NoTask ELSE [task[t] EXCEPT !.at = "over"]
      /\ job'[t[1]] = IF job[t[1]] = "none" THEN "none" ELSE "done"
  BY TaskIsPair DEF Restart
<1>2. CASE task[t].at # "none"
  <2>1. task'[t].at = "over"
    BY <1>1, <1>2 DEF TypeInv, LifeInv, WorkInv, Types, TaskState
  <2> QED
    BY <2>1 DEF Phase, TaskPhase
<1>3. CASE task[t].at = "none" /\ job[t[1]] # "none"
  BY <1>1, <1>3 DEF Phase, NoTask
<1>4. CASE task[t].at = "none" /\ job[t[1]] = "none" /\ outcome[t[1]] = "ok"
  <2>1. t[1] \in abandoned \/ InLine(t[1])
    BY <1>4, TaskIsPair DEF TypeInv, LifeInv, LineKept
  <2>2. Range(<<t[1]>>) = {t[1]}
    BY DEF Range
  <2>3. t[1] \in abandoned'
    BY <1>1, <2>1, <2>2 DEF InLine, Range, TypeInv, LifeInv, WorkInv, Types
  <2> QED
    BY <1>1, <1>4, <2>3 DEF Phase, NoTask
<1>5. CASE task[t].at = "none" /\ job[t[1]] = "none" /\ outcome[t[1]] # "ok"
  <2>1. intake.at # "idle" /\ intake.d = t[1] => t[1] \in seen
    BY DEF TypeInv, LifeInv, LoopTookIt
  <2> QED
    BY <1>1, <1>5, <2>1 DEF Phase, NoTask, Idle
<1> QED
  BY <1>2, <1>3, <1>4, <1>5

\* What a new process does to the tables.
LEMMA RestartRows ==
    ASSUME TypeInv, Restart, NEW t \in Task
    PROVE  /\ Told(t)' = Told(t) /\ restarts' = restarts + 1
           /\ \/ /\ Row(t)' = IF Row(t) \in {"pending", "running"} THEN "cancelled" ELSE Row(t)
                 /\ faults' = faults
              \/ Row(t)' = Row(t) /\ faults' = faults + 1
<1>1. WidOf(t) \in Wid
  BY WidOfTask
<1>2. ASSUME NEW w, w = WidOf(t) PROVE Row(t)' = status'[w] /\ Told(t)' = emitted'[w]
  BY <1>2 DEF Row, Told, WidOf
<1> QED
  BY <1>1, <1>2 DEF Restart, Write, Fault, Orphaned, Row, Told, TypeInv, Tables

\* The phases a workflow can be in.
LEMMA PhasesAreThese ==
    ASSUME LifeInv, NEW t \in Task
    PROVE  Phase(t) \in {"new", "creating", "waiting", "refusing", "refused", "announcing",
                         "working", "reporting", "over"}
<1>1. task[t].at \in Awaiting \cup {"none", "announce", "record", "report", "over"}
  BY DEF LifeInv, WorkInv, Types, TaskState
<1>2. task[t].at # "none" => TaskPhase(task[t].at) \in {"waiting", "announcing", "working",
                                                       "reporting", "over"}
  BY <1>1 DEF TaskPhase, Awaiting
<1>3. intake.at # "idle" => intake.at \in Looping \cup {"submit"}
  BY DEF LifeInv, WorkInv, IntakeHasEvent, Idle
<1>4. intake.at # "idle" => LoopPhase(t[2]) \in {"new", "creating", "waiting", "refusing",
                                                "refused", "over"}
  BY <1>3 DEF LoopPhase, Looping
<1> QED
  BY <1>2, <1>4 DEF Phase

-----------------------------------------------------------------------------
(* What a workflow's row says and what /events has said, along its life    *)

Begun == {<<>>, <<"pending">>}
Going == Begun \cup {<<"running">>, <<"pending", "running">>}
Told1(s) == {<<s>>, <<"pending", s>>, <<"running", s>>, <<"pending", "running", s>>}
Lives == Going \cup UNION {Told1(s) : s \in Results}
WholeLives ==
    Begun \cup {<<"pending", "running">>, <<"pending", "failed">>}
          \cup {<<"pending", "running", s>> : s \in Results}

\* What was announced, in the order of the phases; without faults nothing is left out.
ToldInOrder(t) ==
    /\ Told(t) \in Lives
    /\ Phase(t) \in {"new", "creating"} => Told(t) = <<>>
    /\ Phase(t) \in {"waiting", "refusing", "refused", "announcing"} => Told(t) \in Begun
    /\ Phase(t) \in {"working", "reporting"} => Told(t) \in Going
    /\ faults = 0 =>
          /\ Told(t) \in WholeLives
          /\ Phase(t) \in {"waiting", "refusing", "refused", "announcing"} => Told(t) = <<"pending">>
          /\ Phase(t) \in {"working", "reporting"} => Told(t) = <<"pending", "running">>

\* A workflow has no result before its task records one, or it is refused.
RowOpen(t) ==
    Phase(t) \in {"new", "creating", "waiting", "refusing", "announcing", "working"} =>
        Row(t) \notin Results

\* Without faults and cancellations the row says where the workflow is.
RowExact(t) ==
    faults = 0 /\ cancels = 0 =>
        /\ Phase(t) = "new" => Row(t) = "absent"
        /\ Phase(t) \in {"creating", "waiting", "refusing"} => Row(t) = "pending"
        /\ Phase(t) \in {"announcing", "working"} => Row(t) = "running"

\* Without faults, the row of a process's own workflow is what is due, or was said.
RowFollowed(t) ==
    faults = 0 /\ restarts = 0 =>
        \/ Row(t) = "cancelled"
        \/ Due(t) # "nothing" /\ Row(t) = Due(t)
        \/ /\ Due(t) = "nothing"
           /\ IF Told(t) = <<>> THEN Row(t) = "absent" ELSE Row(t) = Told(t)[Len(Told(t))]

\* Ids that no workflow to be run has stay unused.
NobodysId ==
    \A w \in Wid : (\A t \in Task : WidOf(t) # w) => status[w] = "absent" /\ emitted[w] = <<>>

NoCancelUncounted == cancels = 0 => cancelling = {}

OwnInv ==
    /\ TypeInv /\ NobodysId /\ NoCancelUncounted
    /\ \A t \in Task : ToldInOrder(t) /\ RowOpen(t) /\ RowExact(t) /\ RowFollowed(t)

\* What a task has to report is a result.
LEMMA DueIsResult ==
    ASSUME LifeInv, NEW t \in Task, Phase(t) = "reporting"
    PROVE  Due(t) \in Results
<1>1. task[t].at = "report"
  BY DEF Phase, LoopPhase, TaskPhase, LifeInv, WorkInv, Types, TaskState, Awaiting,
         IntakeHasEvent, Idle, Looping
<1>2. task[t].result \in {"success", "failed", "timeout", "nolog"}
  BY <1>1 DEF LifeInv, TaskAfterJob, WorkInv, Types, TaskState
<1> QED
  BY <1>2 DEF Due, StatusOf, Results

\* A sequence is what it was appended from.
LEMMA AppendIs ==
    ASSUME NEW S, NEW s \in Seq(S), NEW e \in S, NEW t \in Seq(S), Len(t) = Len(s) + 1,
           \A i \in 1 .. Len(s) : t[i] = s[i], t[Len(s) + 1] = e
    PROVE  Append(s, e) = t
<1>1. /\ Append(s, e) \in Seq(S) /\ Len(Append(s, e)) = Len(s) + 1
      /\ \A i \in 1 .. Len(s) : Append(s, e)[i] = s[i]
      /\ Append(s, e)[Len(s) + 1] = e
  OBVIOUS
<1>2. \A i \in 1 .. Len(t) : t[i] = Append(s, e)[i]
  BY <1>1
<1> QED
  BY <1>1, <1>2, SeqEqual

\* Appending to a sequence of at most two elements.
LEMMA AppendToFew ==
    ASSUME NEW S, NEW a \in S, NEW b \in S, NEW c \in S
    PROVE  /\ Append(<<>>, a) = <<a>>
           /\ Append(<<a>>, b) = <<a, b>>
           /\ Append(<<a, b>>, c) = <<a, b, c>>
<1> DEFINE u == <<a>>  v == <<a, b>>  w == <<a, b, c>>
<1>1. u \in Seq(S) /\ Len(u) = 1 /\ u[1] = a
  OBVIOUS
<1>2. v \in Seq(S) /\ Len(v) = 2 /\ v[1] = a /\ v[2] = b
  OBVIOUS
<1>3. w \in Seq(S) /\ Len(w) = 3 /\ w[1] = a /\ w[2] = b /\ w[3] = c
  OBVIOUS
<1>4. Append(<<>>, a) = u
  OBVIOUS
<1> HIDE DEF u, v, w
<1>5. Append(u, b) = v
  <2>1. Len(v) = Len(u) + 1 /\ v[Len(u) + 1] = b /\ \A i \in 1 .. Len(u) : v[i] = u[i]
    BY <1>1, <1>2
  <2> QED
    BY <1>1, <1>2, <2>1, AppendIs, Zenon
<1>6. Append(v, c) = w
  <2>1. Len(w) = Len(v) + 1 /\ w[Len(v) + 1] = c /\ \A i \in 1 .. Len(v) : w[i] = v[i]
    BY <1>2, <1>3
  <2> QED
    BY <1>2, <1>3, <2>1, AppendIs, Zenon
<1> QED
  BY <1>4, <1>5, <1>6 DEF u, v, w

\* What a workflow's next event makes of what was announced.
LEMMA AppendToGoing ==
    ASSUME NEW s \in StatusKind
    PROVE  /\ Append(<<>>, s) = <<s>>
           /\ Append(<<"pending">>, s) = <<"pending", s>>
           /\ Append(<<"running">>, s) = <<"running", s>>
           /\ Append(<<"pending", "running">>, s) = <<"pending", "running", s>>
<1>1. "pending" \in StatusKind /\ "running" \in StatusKind
  BY DEF StatusKind
<1> QED
  BY <1>1, AppendToFew, Zenon

\* It holds at the start.
LEMMA InitOwnInv == Init => OwnInv
<1> SUFFICES ASSUME Init PROVE OwnInv
  OBVIOUS
<1>1. \A w \in Wid : status[w] = "absent" /\ emitted[w] = <<>>
  BY DEF Init
<1>2. NobodysId /\ NoCancelUncounted
  BY <1>1 DEF Init, NobodysId, NoCancelUncounted
<1>3. ASSUME NEW t \in Task
      PROVE  ToldInOrder(t) /\ RowOpen(t) /\ RowExact(t) /\ RowFollowed(t)
  <2>1. Row(t) = "absent" /\ Told(t) = <<>>
    BY <1>1, WidOfTask DEF Row, Told
  <2>2. Phase(t) = "new" /\ Due(t) = "nothing"
    BY TaskIsPair DEF Init, Queue!Init, Phase, Due, NoTask, Idle
  <2> QED
    BY <2>1, <2>2 DEF ToldInOrder, Lives, Going, Begun, WholeLives, RowOpen, Results, RowExact,
                      RowFollowed
<1> QED
  BY <1>2, <1>3, InitTypeInv DEF OwnInv

\* The counters only grow.
LEMMA CountersGrow ==
    ASSUME TypeInv, [Next]_vars
    PROVE  /\ faults \in Nat /\ faults' \in Nat /\ faults' \in {faults, faults + 1}
           /\ cancels \in Nat /\ cancels' \in Nat /\ cancels' \in {cancels, cancels + 1}
           /\ restarts \in Nat /\ restarts' \in Nat
<1>1. Tables /\ Tables'
  BY NextTypeInv DEF TypeInv
<1>2. faults' \in {faults, faults + 1}
  BY EveryStepLives DEF TypeInv, LifeStep, Restart, WritesRow, EmitsEvent, Write, Emit, Fault
<1>3. cancels' \in {cancels, cancels + 1}
  BY DEF Next, Intake, AnnouncePending, Submit, AnnounceRefusal, Dispatch,
     Shutdown, Restart, Take, SpawnWorkflows, JobDone, JobTimeout, Run, StragglerEnds,
     CancelCheck, CancelWrite, vars, calls
<1> QED
  BY <1>1, <1>2, <1>3, OrchestratorAssumption DEF Tables

\* The events stay in order.
LEMMA ToldInOrderStep ==
    ASSUME OwnIds, OwnInv, [Next]_vars, NEW t \in Task
    PROVE  ToldInOrder(t)'
<1>1. faults' = 0 => faults = 0
  BY CountersGrow DEF OwnInv
<1>2. ToldInOrder(t)
  BY DEF OwnInv
<1>3. CASE Restart
  BY <1>1, <1>2, <1>3, RestartRows, RestartEndsLives DEF OwnInv, ToldInOrder
<1>4. CASE LifeStep
  <2>1. OwnStep(t)
    BY <1>4, LivesAreOwn DEF OwnInv
  <2>2. CASE Passes(t) /\ Told(t)' = Told(t)
    BY <1>1, <1>2, <2>2 DEF Passes, Still, ToldInOrder
  <2>3. CASE OwnRowWritten(t)
    BY <1>1, <1>2, <2>3 DEF OwnRowWritten, ToldInOrder, Begun, Going
  <2>4. CASE OwnEventEmitted(t)
    <3>1. CASE Told(t)' = Told(t) /\ faults' = faults + 1
      <4>1. faults' # 0
        BY <3>1, CountersGrow DEF OwnInv
      <4> QED
        BY <1>2, <2>4, <3>1, <4>1 DEF OwnEventEmitted, ToldInOrder, Begun, Going
    <3>2. CASE Told(t)' = Append(Told(t), Due(t)) /\ faults' = faults
      <4>1. CASE Phase(t) = "creating"
        <5>1. Told(t) = <<>> /\ Due(t) = "pending" /\ Phase(t)' = "waiting"
          BY <1>2, <2>4, <4>1 DEF OwnEventEmitted, ToldInOrder, Due
        <5>2. Told(t)' = <<"pending">>
          BY <3>2, <5>1
        <5> QED
          BY <5>1, <5>2 DEF ToldInOrder, Lives, Going, Begun, WholeLives
      <4>2. CASE Phase(t) = "announcing"
        <5>1. /\ Told(t) \in Begun /\ Due(t) = "running" /\ Phase(t)' = "working"
              /\ faults = 0 => Told(t) = <<"pending">>
          BY <1>2, <2>4, <4>2 DEF OwnEventEmitted, ToldInOrder, Due
        <5>2. \/ Told(t) = <<>> /\ Told(t)' = <<"running">>
              \/ Told(t) = <<"pending">> /\ Told(t)' = <<"pending", "running">>
          <6>1. /\ Append(<<>>, "running") = <<"running">>
                /\ Append(<<"pending">>, "running") = <<"pending", "running">>
            BY AppendToGoing DEF StatusKind
          <6> QED
            BY <3>2, <5>1, <6>1, Zenon DEF Begun
        <5>3. faults' = 0 => Told(t)' = <<"pending", "running">>
          BY <3>2, <5>1, <5>2
        <5>4. <<"running">> \in Going /\ <<"pending", "running">> \in Going \cap WholeLives
          BY DEF Going, WholeLives
        <5> QED
          BY <5>1, <5>2, <5>3, <5>4 DEF ToldInOrder, Lives
      <4>3. CASE Phase(t) = "refused"
        <5>1. /\ Told(t) \in Begun /\ Due(t) = "failed" /\ Phase(t)' = "over"
              /\ faults = 0 => Told(t) = <<"pending">>
          BY <1>2, <2>4, <4>3 DEF OwnEventEmitted, ToldInOrder, Due
        <5>2. \/ Told(t) = <<>> /\ Told(t)' = <<"failed">>
              \/ Told(t) = <<"pending">> /\ Told(t)' = <<"pending", "failed">>
          <6>1. /\ Append(<<>>, "failed") = <<"failed">>
                /\ Append(<<"pending">>, "failed") = <<"pending", "failed">>
            BY AppendToGoing DEF StatusKind
          <6> QED
            BY <3>2, <5>1, <6>1, Zenon DEF Begun
        <5>3. faults' = 0 => Told(t)' \in WholeLives
          BY <3>2, <5>1, <5>2 DEF WholeLives
        <5>4. Told(t)' \in Lives
          BY <5>2 DEF Lives, Told1, Results
        <5> QED
          BY <5>1, <5>3, <5>4 DEF ToldInOrder
      <4>4. CASE Phase(t) = "reporting"
        <5>1. /\ Told(t) \in Going /\ Phase(t)' = "over"
              /\ faults = 0 => Told(t) = <<"pending", "running">>
          BY <1>2, <2>4, <4>4 DEF OwnEventEmitted, ToldInOrder
        <5>2. PICK s \in Results : Due(t) = s
          BY <4>4, DueIsResult DEF OwnInv, TypeInv
        <5>3. Told(t)' \in Told1(s)
          <6>1. /\ Append(<<>>, s) = <<s>> /\ Append(<<"pending">>, s) = <<"pending", s>>
                /\ Append(<<"running">>, s) = <<"running", s>>
                /\ Append(<<"pending", "running">>, s) = <<"pending", "running", s>>
            BY AppendToGoing DEF Results, StatusKind
          <6>2. Told(t)' = Append(Told(t), s)
            BY <3>2, <5>2
          <6>3. Told(t) \in {<<>>, <<"pending">>, <<"running">>, <<"pending", "running">>}
            BY <5>1 DEF Going, Begun
          <6> QED
            BY <6>1, <6>2, <6>3, Zenon DEF Told1
        <5>4. faults' = 0 => Told(t)' = <<"pending", "running", s>>
          <6>1. Append(<<"pending", "running">>, s) = <<"pending", "running", s>>
            BY AppendToGoing DEF Results, StatusKind
          <6> QED
            BY <3>2, <5>1, <5>2, <6>1, Zenon
        <5> QED
          BY <5>1, <5>3, <5>4 DEF ToldInOrder, Lives, WholeLives
      <4> QED
        BY <2>4, <4>1, <4>2, <4>3, <4>4 DEF OwnEventEmitted
    <3> QED
      BY <2>4, <3>1, <3>2 DEF OwnEventEmitted
  <2>5. CASE OwnRowCancelled(t)
    BY <1>1, <1>2, <2>5 DEF OwnRowCancelled, Still, ToldInOrder
  <2> QED
    BY <2>1, <2>2, <2>3, <2>4, <2>5 DEF OwnStep
<1> QED
  BY <1>3, <1>4, EveryStepLives DEF OwnInv, TypeInv

\* The row stays open until there is a result.
LEMMA RowOpenStep ==
    ASSUME OwnIds, OwnInv, [Next]_vars, NEW t \in Task
    PROVE  RowOpen(t)'
<1>1. RowOpen(t)
  BY DEF OwnInv
<1>2. CASE Restart
  BY <1>1, <1>2, RestartRows, RestartEndsLives DEF OwnInv, RowOpen, Results
<1>3. CASE LifeStep
  <2>1. OwnStep(t)
    BY <1>3, LivesAreOwn DEF OwnInv
  <2>2. Phase(t)' = "announcing" => Due(t)' = "running"
    BY DEF Due
  <2> QED
    BY <1>1, <2>1, <2>2 DEF OwnStep, Passes, Still, OwnRowWritten, OwnEventEmitted, OwnRowCancelled,
                            RowOpen, Results
<1> QED
  BY <1>2, <1>3, EveryStepLives DEF OwnInv, TypeInv

\* The row says where the workflow is.
LEMMA RowExactStep ==
    ASSUME OwnIds, OwnInv, [Next]_vars, NEW t \in Task
    PROVE  RowExact(t)'
<1>1. RowExact(t) /\ NoCancelUncounted
  BY DEF OwnInv
<1>2. faults' = 0 /\ cancels' = 0 => /\ faults = 0 /\ cancels = 0 /\ faults' # faults + 1
                                     /\ cancelling = {}
  BY <1>1, CountersGrow DEF OwnInv, NoCancelUncounted
<1>3. CASE Restart
  BY <1>1, <1>2, <1>3, RestartRows, RestartEndsLives DEF OwnInv, RowExact
<1>4. CASE LifeStep
  <2>1. OwnStep(t)
    BY <1>4, LivesAreOwn DEF OwnInv
  <2>2. Phase(t)' = "announcing" => Due(t)' = "running"
    BY DEF Due
  <2> QED
    BY <1>1, <1>2, <2>1, <2>2 DEF OwnStep, Passes, Still, OwnRowWritten, OwnEventEmitted,
                                  OwnRowCancelled, RowExact
<1> QED
  BY <1>3, <1>4, EveryStepLives DEF OwnInv, TypeInv

\* The row follows what is due, and the events follow the row.
LEMMA RowFollowedStep ==
    ASSUME OwnIds, OwnInv, [Next]_vars, NEW t \in Task
    PROVE  RowFollowed(t)'
<1> SUFFICES ASSUME faults' = 0, restarts' = 0
             PROVE  \/ Row(t)' = "cancelled"
                    \/ Due(t)' # "nothing" /\ Row(t)' = Due(t)'
                    \/ /\ Due(t)' = "nothing"
                       /\ IF Told(t)' = <<>> THEN Row(t)' = "absent"
                                             ELSE Row(t)' = Told(t)'[Len(Told(t)')]
  BY DEF RowFollowed
<1>1. faults = 0 /\ faults' = faults /\ faults' # faults + 1
  BY CountersGrow DEF OwnInv
<1>2. LifeStep /\ OwnStep(t)
  <2>1. ~Restart
    BY RestartRows, CountersGrow DEF OwnInv
  <2> QED
    BY <2>1, LivesAreOwn, EveryStepLives DEF OwnInv, TypeInv
<1>3. RowFollowed(t) /\ ToldInOrder(t) /\ restarts = 0
  BY <1>2 DEF OwnInv, LifeStep
<1>4. CASE Still(t) /\ Told(t)' = Told(t) /\ Row(t)' \in {Row(t), "cancelled"}
  BY <1>1, <1>3, <1>4 DEF Still, RowFollowed
<1>5. CASE Passes(t) /\ ~Still(t) /\ Row(t)' = Row(t) /\ Told(t)' = Told(t)
  <2>1. Due(t) = "nothing" /\ Due(t)' = "nothing"
    BY <1>5 DEF Passes, Due
  <2> QED
    BY <1>1, <1>3, <1>5, <2>1 DEF RowFollowed
<1>6. CASE OwnRowWritten(t)
  <2>1. Due(t) = "nothing"
    BY <1>6 DEF OwnRowWritten, Due
  <2>2. CASE Phase(t) = "new"
    <3>1. Row(t) \in {"cancelled", "absent"} /\ Due(t)' = "pending"
      BY <1>1, <1>3, <1>6, <2>1, <2>2 DEF OwnRowWritten, RowFollowed, ToldInOrder, Due
    <3> QED
      BY <1>1, <1>6, <2>2, <3>1 DEF OwnRowWritten
  <2>3. CASE Phase(t) # "new"
    <3>1. Told(t) # <<>>
      BY <1>1, <1>3, <1>6, <2>3 DEF OwnRowWritten, ToldInOrder
    <3>2. Row(t) # "absent"
      <4>1. Told(t)[Len(Told(t))] # "absent"
        BY <1>1, <1>3, <1>6, <2>3 DEF OwnRowWritten, ToldInOrder
      <4> QED
        BY <1>1, <1>3, <2>1, <3>1, <4>1 DEF RowFollowed
    <3>3. Due(t)' # "nothing"
      BY <1>6, <2>3 DEF OwnRowWritten, Due, Results
    <3> QED
      BY <1>1, <1>6, <2>3, <3>2, <3>3 DEF OwnRowWritten
  <2> QED
    BY <2>2, <2>3
<1>7. CASE OwnEventEmitted(t)
  <2>1. Due(t)' = "nothing"
    BY <1>7 DEF OwnEventEmitted, Due
  <2>2. Due(t) # "nothing"
    BY <1>7, DueIsResult DEF OwnEventEmitted, Due, Results, OwnInv, TypeInv
  <2>3. Told(t)' = Append(Told(t), Due(t)) /\ Row(t)' = Row(t) /\ Row(t) \in {Due(t), "cancelled"}
    BY <1>1, <1>3, <1>7, <2>2 DEF OwnEventEmitted, RowFollowed
  <2>4. Told(t) \in Seq(StatusKind)
    BY WidOfTask DEF Told, OwnInv, TypeInv, Tables
  <2>5. Told(t)' # <<>> /\ Told(t)'[Len(Told(t)')] = Due(t)
    BY <2>3, <2>4
  <2> QED
    BY <2>1, <2>3, <2>5
<1> QED
  BY <1>2, <1>4, <1>5, <1>6, <1>7 DEF OwnStep, OwnRowCancelled

\* The rest of the invariant.
LEMMA NobodysIdStep == ASSUME OwnInv, [Next]_vars PROVE NobodysId'
<1>1. ASSUME NEW w \in Wid, \A t \in Task : WidOf(t) # w
      PROVE  status'[w] = "absent" /\ emitted'[w] = <<>>
  <2>1. /\ status[w] = "absent" /\ emitted[w] = <<>>
        /\ DOMAIN status = Wid /\ DOMAIN emitted = Wid
    BY <1>1 DEF OwnInv, NobodysId, TypeInv, Tables
  <2>2. CASE Restart
    BY <2>1, <2>2 DEF Restart, Write, Orphaned
  <2>3. CASE LifeStep
    <3>1. ASSUME NEW t \in Task, WritesRow(t) PROVE status'[w] = status[w] /\ emitted' = emitted
      BY <1>1, <2>1, <3>1 DEF WritesRow, Write, Inserted, Updated
    <3>2. ASSUME NEW t \in Task, EmitsEvent(t) PROVE status' = status /\ emitted'[w] = emitted[w]
      BY <1>1, <2>1, <3>2 DEF EmitsEvent, Emit
    <3>3. ASSUME NEW v \in cancelling, Write(Updated(v, "cancelled"))
          PROVE  status'[w] = status[w] /\ emitted' = emitted
      BY <2>1, <3>3 DEF Write, Updated
    <3> QED
      BY <2>1, <2>3, <3>1, <3>2, <3>3 DEF LifeStep
  <2> QED
    BY <2>2, <2>3, EveryStepLives DEF OwnInv, TypeInv
<1> QED
  BY <1>1 DEF NobodysId, WidOf

LEMMA NoCancelUncountedStep == ASSUME OwnInv, [Next]_vars PROVE NoCancelUncounted'
<1>1. cancelling' \subseteq cancelling \/ cancels' = cancels + 1
  BY DEF Next, Intake, AnnouncePending, Submit, AnnounceRefusal, Dispatch,
     Shutdown, Restart, Take, SpawnWorkflows, JobDone, JobTimeout, Run, StragglerEnds,
     CancelCheck, CancelWrite, vars, calls
<1> QED
  BY <1>1, CountersGrow DEF OwnInv, NoCancelUncounted

\* Every step keeps the invariant.
LEMMA NextOwnInv == ASSUME OwnIds, OwnInv, [Next]_vars PROVE OwnInv'
  BY NextTypeInv, NobodysIdStep, NoCancelUncountedStep, ToldInOrderStep, RowOpenStep,
     RowExactStep, RowFollowedStep DEF OwnInv

\* Where ids are the workflows' own, the invariant holds in every reachable state.
THEOREM OwnInvariant == ASSUME OwnIds PROVE Spec => []OwnInv
<1>1. OwnInv /\ [Next]_vars => OwnInv'
  BY NextOwnInv
<1> QED
  BY <1>1, InitOwnInv, PTL DEF Spec

\* The lives that can be told are in order.
LEMMA LivesInOrder ==
    ASSUME NEW e \in Lives
    PROVE  /\ \A i, j \in 1 .. Len(e) : i < j => Stage(e[i]) < Stage(e[j])
           /\ \A i \in 1 .. Len(e) : e[i] # "cancelled"
<1>1. /\ Stage("pending") = 1 /\ Stage("running") = 2
      /\ \A s \in Results : Stage(s) = 3 /\ s \notin {"pending", "running", "cancelled"}
  BY DEF Stage, Results
<1>2. CASE e \in Going
  BY <1>1, <1>2 DEF Going, Begun
<1>3. ASSUME NEW s \in Results, e \in Told1(s)
      PROVE  /\ \A i, j \in 1 .. Len(e) : i < j => Stage(e[i]) < Stage(e[j])
             /\ \A i \in 1 .. Len(e) : e[i] # "cancelled"
  <2>1. Stage(s) = 3 /\ s # "cancelled"
    BY <1>1
  <2>2. CASE e = <<s>>
    BY <1>1, <2>1, <2>2
  <2>3. CASE e = <<"pending", s>>
    BY <1>1, <2>1, <2>3
  <2>4. CASE e = <<"running", s>>
    BY <1>1, <2>1, <2>4
  <2>5. CASE e = <<"pending", "running", s>>
    BY <1>1, <2>1, <2>5
  <2> QED
    BY <1>3, <2>2, <2>3, <2>4, <2>5 DEF Told1
<1> QED
  BY <1>2, <1>3 DEF Lives

LEMMA WholeLivesInOrder ==
    ASSUME NEW e \in WholeLives
    PROVE  /\ e # <<>> => e[1] = "pending"
           /\ \A i \in 1 .. Len(e) : e[i] \in {"success", "timeout"} => i = 3
<1>1. ASSUME NEW s \in Results, e = <<"pending", "running", s>>
      PROVE  /\ e[1] = "pending"
             /\ \A i \in 1 .. Len(e) : e[i] \in {"success", "timeout"} => i = 3
  BY <1>1
<1> QED
  BY <1>1 DEF WholeLives, Begun

\* Every subscriber is told each workflow's life in order, each status once and at most
\* one result, and with no failed write nothing is left out: what process_pipeline_event
\* and execute_workflow emit, whatever is cancelled, refused, timed out or restarted,
\* when no other workflow has the id.
THEOREM EventsComeInOrder == ASSUME OwnIds PROVE Spec => []EventsInOrder
<1>1. ASSUME OwnInv PROVE EventsInOrder
  <2> SUFFICES ASSUME NEW w \in Wid
               PROVE  /\ emitted[w] \in Lives
                      /\ faults = 0 => emitted[w] \in WholeLives
    BY LivesInOrder, WholeLivesInOrder DEF EventsInOrder
  <2>1. CASE \E t \in Task : WidOf(t) = w
    BY <1>1, <2>1 DEF OwnInv, ToldInOrder, Told
  <2>2. CASE \A t \in Task : WidOf(t) # w
    BY <1>1, <2>2 DEF OwnInv, NobodysId, Lives, Going, Begun, WholeLives
  <2> QED
    BY <2>1, <2>2
<1> QED
  BY <1>1, OwnInvariant, PTL

\* Between the write of a row and its event is the only time the two disagree.
LEMMA DueInBetween ==
    ASSUME LifeInv, NEW t \in Task, Due(t) # "nothing"
    PROVE  InBetween(WidOf(t))
<1>1. Phase(t) \in {"creating", "announcing", "refused", "reporting"}
  BY DEF Due
<1>2. CASE task[t].at # "none"
  <2>1. task[t].at \in Awaiting \cup {"announce", "record", "report", "over"}
    BY <1>2 DEF LifeInv, WorkInv, Types, TaskState
  <2>2. task[t].at \in {"announce", "report"}
    BY <1>1, <1>2, <2>1, PhaseOfTask DEF TaskPhase, Awaiting
  <2> QED
    BY <2>2 DEF InBetween
<1>3. CASE task[t].at = "none"
  <2>1. intake.at # "idle" /\ intake.d = t[1] /\ Phase(t) = LoopPhase(t[2])
    BY <1>1, <1>3 DEF Phase
  <2>2. intake.at \in Looping \cup {"submit"}
    BY <2>1 DEF LifeInv, WorkInv, IntakeHasEvent, Idle
  <2>3. intake.at \in {"event", "failevent"} /\ t[2] = Current
    BY <1>1, <2>1, <2>2 DEF LoopPhase, Looping
  <2>4. CurrentId = WidOf(t)
    BY <2>1, <2>3, TaskIsPair DEF CurrentId, WidOf
  <2> QED
    BY <2>3, <2>4 DEF InBetween
<1> QED
  BY <1>2, <1>3

\* What /events last said of a workflow is what its row says, but for the instant between
\* the two steps and for a silent cancellation: within one process and without failed
\* writes, when no other workflow has the id.
THEOREM EventsFollowTheRows == ASSUME OwnIds PROVE Spec => []EventsFollowRows
<1>1. ASSUME OwnInv PROVE EventsFollowRows
  <2> SUFFICES ASSUME NEW w \in Wid, restarts = 0, faults = 0
               PROVE  \/ InBetween(w)
                      \/ status[w] = "cancelled"
                      \/ status[w] = "absent" /\ emitted[w] = <<>>
                      \/ emitted[w] # <<>> /\ status[w] = emitted[w][Len(emitted[w])]
    BY <1>1, OrchestratorAssumption DEF EventsFollowRows, OwnInv, TypeInv, Tables
  <2>1. ASSUME NEW t \in Task, WidOf(t) = w
        PROVE  \/ InBetween(w)
               \/ status[w] = "cancelled"
               \/ status[w] = "absent" /\ emitted[w] = <<>>
               \/ emitted[w] # <<>> /\ status[w] = emitted[w][Len(emitted[w])]
    <3>1. RowFollowed(t) /\ Row(t) = status[w] /\ Told(t) = emitted[w]
      BY <1>1, <2>1 DEF OwnInv, Row, Told
    <3>2. Due(t) # "nothing" => InBetween(w)
      BY <1>1, <2>1, DueInBetween DEF OwnInv, TypeInv
    <3> QED
      BY <3>1, <3>2 DEF RowFollowed
  <2>2. CASE \A t \in Task : WidOf(t) # w
    BY <1>1, <2>2 DEF OwnInv, NobodysId
  <2> QED
    BY <2>1, <2>2
<1> QED
  BY <1>1, OwnInvariant, PTL

\* A result that execute_workflow recorded is never replaced by another: at most by a
\* cancellation whose check came before it, whatever fails, expires or restarts.
THEOREM ResultsAreKept == ASSUME OwnIds PROVE Spec => ResultsSurvive
<1>1. ASSUME OwnInv, [Next]_vars
      PROVE  [\A w \in Wid : status[w] \in {"success", "failed", "timeout"} =>
                  status'[w] = status[w] \/ (status'[w] = "cancelled" /\ w \in cancelling)]_vars
  <2> SUFFICES ASSUME NEW w \in Wid, status[w] \in Results
               PROVE  status'[w] = status[w] \/ (status'[w] = "cancelled" /\ w \in cancelling)
    BY DEF Results
  <2>1. PICK t \in Task : WidOf(t) = w
    BY <1>1 DEF OwnInv, NobodysId, Results
  <2>2. Row(t) = status[w] /\ Row(t)' = status'[w]
    BY <2>1 DEF Row, WidOf
  <2>3. Phase(t) \notin {"new", "creating", "waiting", "refusing", "announcing", "working"}
    BY <1>1, <2>2 DEF OwnInv, RowOpen
  <2>4. CASE Restart
    BY <1>1, <2>2, <2>4, RestartRows DEF OwnInv, Results
  <2>5. CASE LifeStep
    BY <1>1, <2>1, <2>2, <2>3, <2>5, LivesAreOwn DEF OwnInv, OwnStep, OwnRowWritten,
       OwnEventEmitted, OwnRowCancelled
  <2> QED
    BY <1>1, <2>4, <2>5, EveryStepLives DEF OwnInv, TypeInv
<1> QED
  BY <1>1, OwnInvariant, PTL DEF Spec, ResultsSurvive

\* Without failed writes and cancellations the orchestrator's rows live the life that
\* the status table promises: created pending, then running, then one result, kept for
\* ever; or cancelled by a new process.
THEOREM RowsLiveTheirLife ==
    ASSUME OwnIds, MaxFaults = 0, MaxCancels = 0
    PROVE  Spec => RowsLiveOneLife
<1>1. Init => Lifecycle!Init
  BY DEF Init, Lifecycle!Init
<1>2. ASSUME OwnInv, [Next]_vars PROVE [Lifecycle!Next]_status
  <2>1. faults = 0 /\ cancels = 0 /\ cancelling = {} /\ faults' # faults + 1
    BY <1>2, NextTypeInv DEF OwnInv, TypeInv, Tables, NoCancelUncounted
  <2>2. CASE Restart
    BY <2>1, <2>2 DEF Restart, Write, Fault, Orphaned, Lifecycle!Next, Lifecycle!CancelAll,
                      Lifecycle!StartStates
  <2>3. ASSUME NEW t \in Task, WritesRow(t) PROVE Lifecycle!Next
    <3>1. /\ WidOf(t) \in Wid /\ status \in [Wid -> {"absent"} \cup StatusKind]
          /\ RowExact(t) /\ Row(t) = status[WidOf(t)]
      BY <1>2, WidOfTask DEF OwnInv, TypeInv, Tables, Row
    <3>2. status' = IF Phase(t) = "new" THEN Inserted(WidOf(t)) ELSE Updated(WidOf(t), Due(t)')
      BY <2>1, <2>3 DEF WritesRow, Write, Fault
    <3>3. CASE Phase(t) = "new"
      <4>1. status[WidOf(t)] = "absent"
        BY <2>1, <3>1, <3>3 DEF RowExact
      <4>2. Lifecycle!Create(WidOf(t))
        BY <3>1, <3>2, <3>3, <4>1 DEF Lifecycle!Create, Inserted
      <4> QED
        BY <3>1, <4>2 DEF Lifecycle!Next
    <3>4. CASE Phase(t) = "refusing"
      <4>1. status[WidOf(t)] = "pending" /\ Due(t)' = "failed"
        BY <2>1, <2>3, <3>1, <3>4 DEF RowExact, WritesRow, Due
      <4>2. Lifecycle!Conclude(WidOf(t), "failed")
        BY <3>1, <3>2, <3>4, <4>1 DEF Lifecycle!Conclude, Lifecycle!StartStates, Updated
      <4> QED
        BY <3>1, <4>2 DEF Lifecycle!Next, Lifecycle!FinishStates
    <3>5. CASE Phase(t) = "waiting"
      <4>1. status[WidOf(t)] = "pending" /\ Due(t)' = "running"
        BY <2>1, <2>3, <3>1, <3>5 DEF RowExact, WritesRow, Due
      <4>2. Lifecycle!Begin(WidOf(t))
        BY <3>1, <3>2, <3>5, <4>1 DEF Lifecycle!Begin, Updated
      <4> QED
        BY <3>1, <4>2 DEF Lifecycle!Next
    <3>6. CASE Phase(t) = "working"
      <4>1. status[WidOf(t)] = "running" /\ Due(t)' \in {"success", "failed", "timeout"}
        BY <2>1, <2>3, <3>1, <3>6 DEF RowExact, WritesRow
      <4>2. Lifecycle!Conclude(WidOf(t), Due(t)')
        BY <3>1, <3>2, <3>6, <4>1 DEF Lifecycle!Conclude, Lifecycle!StartStates, Updated
      <4> QED
        BY <3>1, <4>1, <4>2 DEF Lifecycle!Next, Lifecycle!FinishStates
    <3> QED
      BY <2>3, <3>3, <3>4, <3>5, <3>6 DEF WritesRow
  <2>4. CASE LifeStep
    BY <2>1, <2>3, <2>4 DEF LifeStep, EmitsEvent, Emit
  <2> QED
    BY <1>2, <2>2, <2>4, EveryStepLives DEF OwnInv, TypeInv
<1> QED
  BY <1>1, <1>2, OwnInvariant, PTL DEF Spec, RowsLiveOneLife, Lifecycle!Spec
=============================================================================
