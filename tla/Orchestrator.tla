---------------------------- MODULE Orchestrator ----------------------------
(***************************************************************************)
(* crates/tangled-spindle/src/orchestrator.rs with the job queue it feeds, *)
(* the status table it writes, the status events it emits, the cancel      *)
(* procedure of crates/spindle-xrpc/src/handlers.rs, and the restart of    *)
(* crates/tangled-spindle/src/server.rs.                                   *)
(*                                                                         *)
(* One task takes pipeline events off a channel and runs                   *)
(* process_pipeline_event to its end, without an await.  A job is one      *)
(* pipeline; it runs one task per workflow.  A task can be stopped only    *)
(* where it awaits, so the code between two awaits always runs; but other  *)
(* tasks and request handlers run in parallel on other threads, so each    *)
(* access to the database is a step.  A write may fail; the code logs it   *)
(* and goes on.                                                            *)
(***************************************************************************)
EXTENDS Integers, Sequences, FiniteSets, FiniteSetsExt, Functions

CONSTANTS Delivery,     \* pipeline events, as delivered by the knot consumer
          PipelineOf,   \* the pipeline (knot and rkey) each of them announces
          Manifests,    \* Manifests[d]: the workflows of the event, in order
          Tracked,      \* the deliveries whose repository is registered
          MaxJobs, QueueSize,
          MaxFaults,    \* database writes, and destroy_workflow, that may fail
          MaxCancels,   \* calls of cancel_pipeline
          MaxRestarts   \* crashes or shutdowns followed by a new process

ASSUME OrchestratorAssumption ==
    /\ DOMAIN PipelineOf = Delivery /\ DOMAIN Manifests = Delivery
    /\ \A d \in Delivery : DOMAIN Manifests[d] \subseteq Nat
    /\ Tracked \subseteq Delivery
    /\ MaxJobs \in Nat /\ QueueSize \in Nat \ {0}
    /\ {MaxFaults, MaxCancels, MaxRestarts} \subseteq Nat

\* A manifest is [name, raw, valid]: its name or "none", whether it has content,
\* and whether init_workflow accepts it.  The id of a workflow is made of the
\* pipeline and the name, and of nothing else.
NameOf(m) == IF m.name = "none" THEN "unnamed" ELSE m.name
IdOf(d, m) == <<PipelineOf[d], NameOf(m)>>
Wid == UNION {{IdOf(d, Manifests[d][i]) : i \in DOMAIN Manifests[d]} : d \in Delivery}

VARIABLES buffer, holding, dispatcher, permits, running, shutdown, handle,
          outcome, finished, abandoned      \* the job queue, see JobQueue

VARIABLES seen,        \* deliveries the pipeline loop has taken
          intake,      \* where process_pipeline_event is
          job,         \* where each pipeline's job is
          expired,     \* pipelines whose job ran into pipeline_timeout
          task,        \* where each workflow's task is, and its result
          env,         \* workflows with a workspace, or a container in the map
          straggling,  \* what an interrupted task left to the blocking threads
          status,      \* the status column of the workflow_status table
          emitted,     \* the statuses announced on /events, per workflow
          faults, cancels, restarts,
          cancelling   \* cancel_pipeline calls between their check and their write

Queue == INSTANCE JobQueue WITH Job <- Delivery

pools == <<buffer, holding, dispatcher, permits, running, shutdown, handle,
           outcome, finished, abandoned>>
rows == <<status, emitted, faults>>
calls == <<cancels, cancelling, restarts>>
envs == <<env, straggling>>
vars == <<pools, seen, intake, job, expired, task, envs, rows, calls>>

-----------------------------------------------------------------------------
(* The manifests that become workflow entries, by their position: those    *)
(* with content that init_workflow accepts.                                *)

Usable(m) == m.raw /\ m.valid
Entries(d) == {i \in DOMAIN Manifests[d] : Usable(Manifests[d][i])}

Task == UNION {{<<d, i>> : i \in Entries(d)} : d \in Delivery}
TasksOf(d) == {t \in Task : t[1] = d}
WidOf(t) == IdOf(t[1], Manifests[t[1]][t[2]])

Idle == [at |-> "idle", d |-> "none", left |-> {}]
NoTask == [at |-> "none", result |-> "none"]

Init ==
    /\ Queue!Init
    /\ seen = {} /\ expired = {} /\ env = {} /\ straggling = {} /\ cancelling = {}
    /\ intake = Idle
    /\ job = [d \in Delivery |-> "none"]
    /\ task = [t \in Task |-> NoTask]
    /\ status = [w \in Wid |-> "absent"]
    /\ emitted = [w \in Wid |-> <<>>]
    /\ faults = 0 /\ cancels = 0 /\ restarts = 0

-----------------------------------------------------------------------------
(* The database.  Creating a row that exists is a no-op (INSERT OR IGNORE) *)
(* and so is updating one that does not; the updates do not look at what   *)
(* the row says.                                                           *)

Inserted(w) == [status EXCEPT ![w] = IF @ = "absent" THEN "pending" ELSE @]
Updated(w, s) == [status EXCEPT ![w] = IF @ = "absent" THEN @ ELSE s]

Fault == faults < MaxFaults /\ faults' = faults + 1

Write(table) ==
    /\ \/ status' = table /\ UNCHANGED faults
       \/ Fault /\ UNCHANGED status
    /\ UNCHANGED emitted

\* emit_status_event: an event that cannot be inserted is not broadcast either.
Emit(w, s) ==
    /\ \/ emitted' = [emitted EXCEPT ![w] = Append(@, s)] /\ UNCHANGED faults
       \/ Fault /\ UNCHANGED emitted
    /\ UNCHANGED status

-----------------------------------------------------------------------------
(* process_pipeline_event                                                  *)

\* Events of unregistered repositories and events without a usable workflow
\* leave no trace.
Take(d) ==
    /\ intake.at = "idle"
    /\ d \notin seen
    /\ seen' = seen \cup {d}
    /\ intake' = IF d \in Tracked /\ Entries(d) # {}
                 THEN [at |-> "row", d |-> d, left |-> Entries(d)]
                 ELSE Idle
    /\ UNCHANGED <<pools, job, expired, task, envs, rows, calls>>

\* The loop over the entries: one database write, then one event, for each.
Current == Min(intake.left)
CurrentId == WidOf(<<intake.d, Current>>)

LoopStep(write, event, s, table, after) ==
    \/ /\ intake.at = write
       /\ Write(table)
       /\ intake' = [intake EXCEPT !.at = event]
    \/ /\ intake.at = event
       /\ Emit(CurrentId, s)
       /\ intake' = IF intake.left = {Current} THEN after
                    ELSE [intake EXCEPT !.at = write, !.left = @ \ {Current}]

AnnouncePending ==
    /\ LoopStep("row", "event", "pending", Inserted(CurrentId),
                [intake EXCEPT !.at = "submit", !.left = {}])
    /\ UNCHANGED <<pools, seen, job, expired, task, envs, calls>>

\* queue.submit.  On an error every workflow of the pipeline fails.
Refused_Ignored == Idle
Refused == [intake EXCEPT !.at = "failrow", !.left = Entries(intake.d)]

Submit ==
    /\ intake.at = "submit"
    /\ \/ Queue!SubmitOk(intake.d) /\ intake' = Idle
       \/ /\ Queue!SubmitFull(intake.d) \/ Queue!SubmitClosed(intake.d)
          /\ intake' = Refused
    /\ UNCHANGED <<seen, job, expired, task, envs, rows, calls>>

AnnounceRefusal ==
    /\ LoopStep("failrow", "failevent", "failed",
                Updated(CurrentId, "failed"), Idle)
    /\ UNCHANGED <<pools, seen, job, expired, task, envs, calls>>

Intake == AnnouncePending \/ Submit \/ AnnounceRefusal

-----------------------------------------------------------------------------
(* The dispatcher and the pipeline's job: execute_pipeline under a timeout *)

Dispatch ==
    /\ \/ /\ Queue!Receive \/ Queue!Stop \/ Queue!CloseChannel
          /\ UNCHANGED job
       \/ /\ Queue!StartJob
          /\ job' = [job EXCEPT ![Head(holding)] = "secrets"]
    /\ UNCHANGED <<seen, intake, expired, task, envs, rows, calls>>

\* get_secrets_unlocked returns (an error counts as no secrets): the workflow
\* tasks are spawned, and the job awaits them all.
SpawnWorkflows(d) ==
    /\ job[d] = "secrets"
    /\ job' = [job EXCEPT ![d] = "joining"]
    /\ task' = [t \in Task |-> IF t[1] = d THEN [at |-> "spawned", result |-> "none"]
                                          ELSE task[t]]
    /\ UNCHANGED <<pools, seen, intake, expired, envs, rows, calls>>

Joined_FirstHandle(d) == \E t \in TasksOf(d) : task[t].at = "over"
Joined(d) == \A t \in TasksOf(d) : task[t].at = "over"

JobDone(d) ==
    /\ job[d] = "joining"
    /\ Joined(d)
    /\ Queue!Finish(d)
    /\ job' = [job EXCEPT ![d] = "done"]
    /\ UNCHANGED <<seen, intake, expired, task, envs, rows, calls>>

\* pipeline_timeout: the future is dropped, AbortGuard aborts the tasks, and the
\* permit is released without waiting for them to stop.
UnderTimeout_JoinOnly == {"joining"}
UnderTimeout == {"secrets", "joining"}

JobTimeout_PermitOnly(d) ==
    /\ job[d] \in UnderTimeout
    /\ permits' = permits + 1
    /\ job' = [job EXCEPT ![d] = "done"]
    /\ expired' = expired \cup {d}
    /\ UNCHANGED <<buffer, holding, dispatcher, running, shutdown, handle, outcome>>
    /\ UNCHANGED <<finished, abandoned, seen, intake, task, envs, rows, calls>>

JobTimeout(d) ==
    /\ job[d] \in UnderTimeout
    /\ Queue!Finish(d)
    /\ job' = [job EXCEPT ![d] = "done"]
    /\ expired' = expired \cup {d}
    /\ UNCHANGED <<seen, intake, task, envs, rows, calls>>

-----------------------------------------------------------------------------
(* execute_workflow.  spawned, setup, steps and destroy are the places     *)
(* where the task awaits.                                                  *)

Awaiting == {"spawned", "setup", "steps", "destroy"}

\* A task whose pipeline expired is not polled again.
Polled(t, place) == task[t].at = place /\ t[1] \notin expired

Goto(t, place) == task' = [task EXCEPT ![t].at = place]
Ends(t, r) == task' = [task EXCEPT ![t] = [at |-> "record", result |-> r]]

\* The row and the event a result becomes: a task without a log file has failed
\* too, and that task returns without calling destroy_workflow.
StatusOf(r) == IF r = "nolog" THEN "failed" ELSE r
EventOf_TimeoutFailed(r) == IF r = "timeout" THEN "failed" ELSE StatusOf(r)
EventOf(r) == StatusOf(r)
After_SuccessOnly(r) == IF r = "success" THEN "destroy" ELSE "over"
After(r) == IF r = "nolog" THEN "over" ELSE "destroy"

MarkRunning(t) ==
    /\ Polled(t, "spawned")
    /\ Write(Updated(WidOf(t), "running"))
    /\ Goto(t, "announce")
    /\ UNCHANGED envs

\* The running event, and FileWorkflowLogger::new, which may fail.
AnnounceRunning(t) ==
    /\ task[t].at = "announce"
    /\ Emit(WidOf(t), "running")
    /\ Goto(t, "setup") \/ Ends(t, "nolog")
    /\ UNCHANGED envs

\* setup_workflow: it may fail with the workspace created or not.
Setup(t) ==
    /\ Polled(t, "setup")
    /\ \/ env' = env \cup {WidOf(t)} /\ (Goto(t, "steps") \/ Ends(t, "failed"))
       \/ UNCHANGED env /\ Ends(t, "failed")
    /\ UNCHANGED <<straggling, rows>>

\* The last step succeeds, or one fails.
StepsEnd(t) ==
    /\ Polled(t, "steps")
    /\ Ends(t, "success") \/ Ends(t, "failed")
    /\ UNCHANGED <<envs, rows>>

\* What an interrupted task had handed to a blocking thread goes on there.  A setup
\* may have created the workspace, or be creating it; a step's command keeps the
\* container, which is out of the map until it ends; destroy_workflow's removal
\* may be done.
Leaves(t, what) == straggling' = straggling \cup {<<t, what>>}

Interrupted(t) ==
    \/ UNCHANGED envs
    \/ task[t].at = "setup" /\ env' = env \cup {WidOf(t)} /\ UNCHANGED straggling
    \/ task[t].at = "setup" /\ Leaves(t, "mkdir") /\ UNCHANGED env
    \/ task[t].at = "steps" /\ Leaves(t, "command") /\ UNCHANGED env
    \/ task[t].at = "destroy" /\ env' = env \ {WidOf(t)} /\ UNCHANGED straggling

\* workflow_timeout covers the setup and the steps.
TimedPlaces_AndDestroy == {"setup", "steps", "destroy"}
TimedPlaces == {"setup", "steps"}

WorkflowTimeout(t) ==
    /\ \E place \in TimedPlaces : Polled(t, place)
    /\ Ends(t, "timeout")
    /\ Interrupted(t)
    /\ UNCHANGED rows

Record(t) ==
    /\ task[t].at = "record"
    /\ Write(Updated(WidOf(t), StatusOf(task[t].result)))
    /\ Goto(t, "report")
    /\ UNCHANGED envs

Report(t) ==
    /\ task[t].at = "report"
    /\ Emit(WidOf(t), EventOf(task[t].result))
    /\ Goto(t, After(task[t].result))
    /\ UNCHANGED envs

\* destroy_workflow, given up after 60 s or on an error; then the log is closed.  It
\* removes the workspace and kills the container of the map: not the container that
\* a straggling command has.
Destroy(t) ==
    /\ task[t].at = "destroy"
    /\ \/ env' = env \ {WidOf(t)} /\ UNCHANGED faults
       \/ Fault /\ UNCHANGED env
    /\ Goto(t, "over")
    /\ UNCHANGED <<straggling, status, emitted>>

\* The runtime drops an aborted task at the await it is in.
Abortable_Unstarted == {"spawned"}
Abortable == Awaiting

Abort(t) ==
    /\ t[1] \in expired
    /\ task[t].at \in Abortable
    /\ Interrupted(t)
    /\ Goto(t, "over")
    /\ UNCHANGED rows

Run(t) ==
    /\ \/ MarkRunning(t) \/ AnnounceRunning(t) \/ Setup(t) \/ StepsEnd(t)
       \/ WorkflowTimeout(t) \/ Record(t) \/ Report(t) \/ Destroy(t) \/ Abort(t)
    /\ UNCHANGED <<pools, seen, intake, job, expired, calls>>

\* The blocking thread ends: a command, and with it its container; or a creation of
\* a workspace, which is "late" if the task is over and will remove it no more.
StragglerEnds(t) ==
    /\ \/ <<t, "command">> \in straggling
          /\ straggling' = straggling \ {<<t, "command">>}
          /\ UNCHANGED env
       \/ <<t, "mkdir">> \in straggling
          /\ env' = env \cup {WidOf(t)}
          /\ straggling' = (straggling \ {<<t, "mkdir">>})
                            \cup IF task[t].at = "over" THEN {<<t, "late">>} ELSE {}
    /\ UNCHANGED <<pools, seen, intake, job, expired, task, rows, calls>>

-----------------------------------------------------------------------------
(* cancel_pipeline reads the row, answers an error if it is missing or     *)
(* terminal, and then writes it.  It stops no task and emits no event.     *)

CancelCheck(w) ==
    /\ cancels < MaxCancels
    /\ status[w] \in {"pending", "running"}
    /\ cancels' = cancels + 1
    /\ cancelling' = cancelling \cup {w}
    /\ UNCHANGED <<pools, seen, intake, job, expired, task, envs, rows, restarts>>

CancelWrite(w) ==
    /\ w \in cancelling
    /\ Write(Updated(w, "cancelled"))
    /\ cancelling' = cancelling \ {w}
    /\ UNCHANGED <<pools, seen, intake, job, expired, task, envs, cancels, restarts>>

-----------------------------------------------------------------------------
(* The process.  run_server cancels the token, and joins neither the       *)
(* dispatcher nor the jobs; a crash does not even cancel the token.  The   *)
(* new process cancels the rows the old one left.                          *)

Shutdown ==
    /\ Queue!Shutdown
    /\ UNCHANGED <<seen, intake, job, expired, task, envs, rows, calls>>

Orphaned_Everything == [w \in Wid |-> IF status[w] = "absent" THEN "absent" ELSE "cancelled"]
Orphaned == [w \in Wid |-> IF status[w] \in {"pending", "running"}
                           THEN "cancelled" ELSE status[w]]

Restart ==
    /\ restarts < MaxRestarts
    /\ restarts' = restarts + 1
    /\ Write(Orphaned)
    /\ buffer' = <<>> /\ holding' = <<>> /\ dispatcher' = "receiving"
    /\ permits' = MaxJobs /\ running' = {} /\ shutdown' = FALSE /\ handle' = TRUE
    /\ abandoned' = abandoned \cup Range(buffer) \cup Range(holding) \cup running
    /\ intake' = Idle /\ cancelling' = {}
    /\ job' = [d \in Delivery |-> IF job[d] = "none" THEN "none" ELSE "done"]
    /\ task' = [t \in Task |-> IF task[t].at = "none" THEN NoTask
                               ELSE [task[t] EXCEPT !.at = "over"]]
    /\ straggling' = {s \in straggling : s[2] # "mkdir"}
    /\ UNCHANGED <<outcome, finished, seen, expired, env, cancels>>

-----------------------------------------------------------------------------

Next ==
    \/ Intake \/ Dispatch \/ Shutdown \/ Restart
    \/ \E d \in Delivery : Take(d) \/ SpawnWorkflows(d) \/ JobDone(d) \/ JobTimeout(d)
    \/ \E t \in Task : Run(t) \/ StragglerEnds(t)
    \/ \E w \in Wid : CancelCheck(w) \/ CancelWrite(w)

Spec == Init /\ [][Next]_vars

\* Every ready task is polled and every timer fires.  Secrets, setup and steps
\* may take for ever: nothing but a timeout is certain to end them.
Timed(t) ==
    /\ \/ MarkRunning(t) \/ AnnounceRunning(t) \/ WorkflowTimeout(t)
       \/ Record(t) \/ Report(t) \/ Destroy(t) \/ Abort(t)
    /\ UNCHANGED <<pools, seen, intake, job, expired, calls>>

Fairness ==
    /\ WF_vars(Intake)
    /\ WF_vars(Dispatch)
    /\ \A d \in Delivery : WF_vars(JobDone(d) \/ JobTimeout(d))
    /\ \A t \in Task : WF_vars(Timed(t))

FairSpec == Spec /\ Fairness

-----------------------------------------------------------------------------
(* Properties                                                              *)

StatusKind == {"pending", "running", "success", "failed", "timeout", "cancelled"}

\* Every variable keeps its type.
TypeOK ==
    /\ Queue!TypeOK
    /\ seen \subseteq Delivery /\ expired \subseteq Delivery
    /\ env \subseteq Wid /\ cancelling \subseteq Wid
    /\ straggling \subseteq Task \X {"mkdir", "command", "late"}
    /\ intake.at \in {"idle", "row", "event", "submit", "failrow", "failevent"}
    /\ intake.at # "idle" => intake.d \in Delivery
    /\ intake.left \subseteq (IF intake.at = "idle" THEN {} ELSE Entries(intake.d))
    /\ job \in [Delivery -> {"none", "secrets", "joining", "done"}]
    /\ task \in [Task -> [at : Awaiting \cup {"none", "announce", "record", "report", "over"},
                          result : {"none", "success", "failed", "timeout", "nolog"}]]
    /\ status \in [Wid -> {"absent"} \cup StatusKind]
    /\ emitted \in [Wid -> Seq(StatusKind)]
    /\ faults \in 0..MaxFaults /\ cancels \in 0..MaxCancels /\ restarts \in 0..MaxRestarts

Live(t) == task[t].at \notin {"none", "over"}

\* Work is done under a permit: a live task belongs to a pipeline that holds a
\* permit of the queue, unless pipeline_timeout has already aborted it.  So
\* max_jobs bounds the pipelines at work, whatever their tasks do.
WorkUnderPermit ==
    \A t \in Task : Live(t) => t[1] \in running \/ t[1] \in expired

\* Writing the row and emitting the event are two steps; between them is the only
\* time the two disagree.
InBetween(w) ==
    \/ intake.at \in {"event", "failevent"} /\ CurrentId = w
    \/ \E t \in Task : WidOf(t) = w /\ task[t].at \in {"announce", "report"}

\* Within one process, and while no write fails, what /events last said of a
\* workflow is what its row says; only a cancellation changes a row silently.
EventsFollowRows ==
    \A w \in Wid :
        \/ restarts > 0 \/ faults > 0
        \/ InBetween(w)
        \/ status[w] = "cancelled"
        \/ status[w] = "absent" /\ emitted[w] = <<>>
        \/ emitted[w] # <<>> /\ status[w] = emitted[w][Len(emitted[w])]

\* A subscriber sees each workflow's statuses in the order of its life, none of
\* them twice and one result at most: pending from the event loop, running and the
\* result from the task, or pending and failed when the queue refused the pipeline.
\* A database error leaves out an event; without one none is left out.
Stage(s) == CASE s = "pending" -> 1 [] s = "running" -> 2
              [] s \in {"success", "failed", "timeout"} -> 3

EventsInOrder ==
    \A w \in Wid :
        LET e == emitted[w]
        IN  /\ \A i, j \in 1 .. Len(e) : i < j => Stage(e[i]) < Stage(e[j])
            /\ \A i \in 1 .. Len(e) : e[i] # "cancelled"
            /\ faults = 0 =>
                   /\ e # <<>> => e[1] = "pending"
                   /\ \A i \in 1 .. Len(e) : e[i] \in {"success", "timeout"} => i = 3

\* A workflow that is pending or running is somebody's business: the event loop,
\* the queue, or its task has it in hand.  The exceptions are the ways the code
\* has of losing one: the write of its result failed, the pipeline timed out, or
\* the queue was shut down.
HasIt(t) ==
    \/ intake.d = t[1]
    \/ t[1] \in Range(buffer) \cup Range(holding) \cup running
    \/ t[1] \in expired \/ t[1] \in abandoned

SomebodyHasIt ==
    /\ TypeOK
    /\ \A w \in Wid : status[w] \in {"pending", "running"} =>
           faults > 0 \/ \E t \in Task : WidOf(t) = w /\ HasIt(t)

\* "Always destroy the workflow environment" (orchestrator.rs:516): without a
\* fault or a restart, no workspace or container outlives its task, except that
\* of a task the pipeline timeout aborted, and what a timeout of the workflow left to
\* the blocking threads: a workspace created late, a container until its command ends.
EnvDestroyed ==
    faults = 0 /\ restarts = 0 =>
        /\ \A w \in env : \E t \in Task :
               /\ WidOf(t) = w
               /\ Live(t) \/ t[1] \in expired \/ <<t, "late">> \in straggling
        /\ \A s \in straggling : task[s[1]].result = "timeout" \/ s[1][1] \in expired

Lifecycle == INSTANCE WorkflowLifecycle WITH row <- status

\* Every row lives the life that the status table promises.
RowsLiveOneLife == Lifecycle!Spec

\* The orchestrator drives the queue of each process within its contract: a
\* pipeline's job neither loses its permit nor returns it twice.
QueueUnderContract ==
    Queue!Init /\ [][restarts' = restarts => Queue!Next]_(Queue!queueVars)

\* "guarantee the queue semaphore permit is always released" (orchestrator.rs:267),
\* although secrets, setup and steps may hang.
PermitComesBack == \A d \in Delivery : d \in running ~> d \notin running

\* No task runs for ever, not even one whose pipeline timed out.
TasksEnd == \A t \in Task : Live(t) ~> ~Live(t)

\* Every workflow that was announced reaches a terminal row, unless its pipeline
\* timed out, the queue was shut down under it, or the write failed.
WorkflowsSettle ==
    \A t \in Task : status[WidOf(t)] \in {"pending", "running"} ~>
        \/ status[WidOf(t)] \in {"success", "failed", "timeout", "cancelled"}
        \/ t[1] \in expired \/ t[1] \in abandoned
        \/ faults > 0

\* A result that a task wrote is never replaced by another result: at most by a
\* cancellation that had checked the row before.
ResultsSurvive ==
    [][\A w \in Wid : status[w] \in {"success", "failed", "timeout"} =>
           status'[w] = status[w] \/ (status'[w] = "cancelled" /\ w \in cancelling)]_vars

\* models/src/status.rs:35 "statuses that indicate a workflow has reached a
\* terminal state": a row that reached one keeps it.
TerminalIsFinal ==
    [][\A w \in Wid : status[w] \in {"success", "failed", "timeout", "cancelled"} =>
           status'[w] = status[w]]_vars
=============================================================================
