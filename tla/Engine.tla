------------------------------- MODULE Engine -------------------------------
(***************************************************************************)
(* crates/spindle-engine: NixEngine and its WorkspaceManager, as driven by *)
(* execute_workflow.  Each run sets up a workspace and a container, passes *)
(* its steps to the container's runner script one after another, and       *)
(* destroys both.                                                          *)
(*                                                                         *)
(* The container is a value that moves: setup stores it in the map of      *)
(* workflow states, run_step takes it out and moves it into a blocking     *)
(* task, and puts it back when the task has read the step's exit code, or  *)
(* a line that ends the reading like one: the sentinel printed by the      *)
(* command itself, or bytes that are not UTF-8.  A blocking task cannot be *)
(* stopped: when the timeout drops run_step, the task keeps the container  *)
(* until it has read that line.  Dropping a container closes its stdin and *)
(* stdout, which ends the runner script after the command; only            *)
(* destroy_workflow kills, and only what is in the map.                    *)
(***************************************************************************)
EXTENDS Integers, Sequences, FiniteSets

CONSTANTS Run,         \* executions of workflows
          Wid,         \* workflow ids, the keys of the map
          Naming,      \* the ways the executions may be named: functions to Wid
          Steps,       \* Steps[r]: the commands of its workflow
          Absent,      \* no entry in the map
          Taken,       \* an entry whose container is None
          MaxFaults,   \* bound: executions aborted, or whose destruction fails
          MaxSpoofed,  \* bound: containers that print a line taken for an exit code,
          MaxUnread    \* and unread lines in the pipe when they do

ASSUME EngineAssumption ==
    /\ Naming \subseteq [Run -> Wid]
    /\ Steps \in [Run -> Nat] /\ {MaxFaults, MaxSpoofed, MaxUnread} \subseteq Nat
    /\ Absent \notin Run /\ Taken \notin Run /\ Absent # Taken

VARIABLES wid,       \* the id of each execution, which never changes
          at,        \* where each execution is
          step,      \* the step it is at
          states,    \* the map: Absent, Taken, or the run whose container it holds
          child,     \* what each run's container is doing
          queued,    \* commands in its stdin behind the one it executes
          pipe,      \* the exit codes in its stdout, or lines taken for one
          blocking,  \* blocking[r]: the container run r's blocking task holds
          listening, \* runs whose run_step still awaits their blocking task
          dirs,      \* workflow ids with a workspace directory
          fscalls,   \* calls to the file system that go on without their future
          mishaps,   \* runs whose run_step found no container to use
          faulty,    \* runs aborted by pipeline_timeout, or whose destruction failed
          spoofed,   \* containers that printed a line taken for an exit code
          overtaken  \* runs whose workspace was made after they were over

containers == <<child, queued, pipe, spoofed>>
folders == <<dirs, fscalls, overtaken>>
vars == <<wid, at, step, states, containers, blocking, listening, folders, mishaps, faulty>>
taskVars == <<wid, blocking, listening, mishaps, faulty>>

\* fresh: the runner waits for its first command; idle: for the next; busy: it
\* executes one; ending: busy with its pipes closed.
ChildState == {"none", "fresh", "idle", "busy", "ending", "dead"}
Listens(c) == child[c] \in {"fresh", "idle", "busy"}
Code == {"ok", "failed"}
InSetup == {"new", "created", "spawned"}
InSteps == {"ready", "stepping"}
Place == InSetup \cup InSteps \cup {"destroy", "rmdir", "over"}

Init ==
    /\ wid \in Naming
    /\ at = [r \in Run |-> "new"]
    /\ step = [r \in Run |-> 1]
    /\ states = [w \in Wid |-> Absent]
    /\ child = [r \in Run |-> "none"]
    /\ queued = [r \in Run |-> 0] /\ pipe = [r \in Run |-> <<>>]
    /\ blocking = [r \in Run |-> Absent]
    /\ listening = {} /\ dirs = {} /\ fscalls = {}
    /\ mishaps = {} /\ faulty = {} /\ spoofed = {} /\ overtaken = {}

Goto(r, place) == at' = [at EXCEPT ![r] = place]

\* What becomes of a container whose Child is dropped.
Dropped(c) == IF child[c] = "busy" THEN "ending" ELSE "dead"

-----------------------------------------------------------------------------
(* setup_workflow                                                          *)

CreateWorkspace(r) ==
    /\ at[r] = "new"
    /\ \/ Goto(r, "created") /\ dirs' = dirs \cup {wid[r]}
       \/ Goto(r, "destroy") /\ UNCHANGED dirs
    /\ UNCHANGED <<step, states, containers, fscalls, overtaken, taskVars>>

\* build_nix_env and the spawn: either may fail.
SpawnContainer(r) ==
    /\ at[r] = "created"
    /\ \/ Goto(r, "spawned") /\ child' = [child EXCEPT ![r] = "fresh"]
       \/ Goto(r, "destroy") /\ UNCHANGED child
    /\ UNCHANGED <<step, states, queued, pipe, spoofed, folders, taskVars>>

\* states.lock().await.insert(..): an entry of the same id is replaced and dropped.
StoreContainer(r) ==
    LET old == states[wid[r]]
    IN  /\ at[r] = "spawned"
        /\ Goto(r, "ready")
        /\ states' = [states EXCEPT ![wid[r]] = r]
        /\ child' = IF old \in Run THEN [child EXCEPT ![old] = Dropped(old)] ELSE child
        /\ UNCHANGED <<step, queued, pipe, spoofed, folders, taskVars>>

-----------------------------------------------------------------------------
(* run_step                                                                *)

MoreSteps(r) == step[r] <= Steps[r]

\* Take the container out of the map and hand it to a blocking task, which writes
\* the command; writing to a container that is dead fails and drops it.  One that
\* still executes a command has the new one wait in its stdin.
Left_Shared(c) == c
Left(c) == Taken

TakeContainer(r) ==
    LET c == states[wid[r]]
    IN  /\ at[r] = "ready" /\ MoreSteps(r)
        /\ c \in Run
        /\ states' = [states EXCEPT ![wid[r]] = Left(c)]
        /\ IF Listens(c)
           THEN /\ Goto(r, "stepping")
                /\ child' = [child EXCEPT ![c] = "busy"]
                /\ queued' = [queued EXCEPT ![c] = IF child[c] = "busy" THEN @ + 1 ELSE @]
                /\ blocking' = [blocking EXCEPT ![r] = c]
                /\ listening' = listening \cup {r}
           ELSE /\ Goto(r, "destroy")
                /\ UNCHANGED <<child, queued, blocking, listening>>
        /\ UNCHANGED <<wid, step, pipe, spoofed, folders, mishaps, faulty>>

\* "no state for workflow" and "container already consumed".
NoContainer(r) ==
    /\ at[r] = "ready" /\ MoreSteps(r)
    /\ states[wid[r]] \in {Absent, Taken}
    /\ Goto(r, "destroy")
    /\ mishaps' = mishaps \cup {r}
    /\ UNCHANGED <<wid, step, states, containers, folders, blocking, listening, faulty>>

\* The container's side.  A command ends, its exit code is printed, and the next
\* one in stdin begins.
Prints(c, code) == pipe' = [pipe EXCEPT ![c] = Append(@, code)]

CommandEnds(c) ==
    /\ child[c] = "busy"
    /\ \E code \in Code : Prints(c, code)
    /\ IF queued[c] > 0
       THEN queued' = [queued EXCEPT ![c] = @ - 1] /\ UNCHANGED child
       ELSE child' = [child EXCEPT ![c] = "idle"] /\ UNCHANGED queued
    /\ UNCHANGED <<at, step, states, spoofed, folders, taskVars>>

\* It dies of a resource limit, or at the end of a command when its pipes are closed.
ContainerDies(c) ==
    /\ Listens(c) \/ child[c] = "ending"
    /\ child' = [child EXCEPT ![c] = "dead"]
    /\ UNCHANGED <<at, step, states, queued, pipe, spoofed, folders, taskVars>>

\* A command, or a process it left behind, prints a line that starts with the
\* sentinel, or one that is not UTF-8, which is read as no exit code.
Spoof(c) ==
    /\ child[c] \in {"idle", "busy"} /\ Len(pipe[c]) < MaxUnread
    /\ \E code \in Code : Prints(c, code)
    /\ spoofed' = spoofed \cup {c} /\ Cardinality(spoofed') <= MaxSpoofed
    /\ UNCHANGED <<at, step, states, child, queued, folders, taskVars>>

\* The blocking task reads up to the first such line, or to the end of the output
\* of a dead container; what its reader has read ahead is lost.  With run_step
\* gone its result, the container, is dropped; otherwise the container, whatever it
\* does, goes back into the map, if the entry is there.
PutBack_Unheard(r) == states[wid[r]] # Absent
PutBack_Forgotten(r) == FALSE
PutBack(r) == r \in listening /\ states[wid[r]] # Absent

Readable(c) == pipe[c] # <<>> \/ child[c] = "dead"
Succeeded(c) == pipe[c] # <<>> /\ Head(pipe[c]) = "ok"
Unread(c) == IF pipe[c] = <<>> THEN {<<>>}
             ELSE {SubSeq(pipe[c], i, Len(pipe[c])) : i \in 2 .. Len(pipe[c]) + 1}

BlockingEnds(r) ==
    LET c == blocking[r]
        old == states[wid[r]]
    IN  /\ c \in Run /\ Readable(c)
        /\ blocking' = [blocking EXCEPT ![r] = Absent]
        /\ listening' = listening \ {r}
        /\ \E rest \in Unread(c) : pipe' = [pipe EXCEPT ![c] = rest]
        /\ states' = IF PutBack(r) THEN [states EXCEPT ![wid[r]] = c] ELSE states
        /\ child' = [x \in Run |->
                        IF x = (IF PutBack(r) THEN old ELSE c) THEN Dropped(x) ELSE child[x]]
        /\ \/ r \notin listening /\ UNCHANGED <<at, step>>
           \/ /\ r \in listening /\ Succeeded(c)
              /\ Goto(r, "ready") /\ step' = [step EXCEPT ![r] = @ + 1]
           \/ /\ r \in listening /\ ~Succeeded(c)
              /\ Goto(r, "destroy") /\ UNCHANGED step
        /\ UNCHANGED <<wid, queued, spoofed, folders, mishaps, faulty>>

StepsDone(r) ==
    /\ at[r] = "ready" /\ ~MoreSteps(r)
    /\ Goto(r, "destroy")
    /\ UNCHANGED <<step, states, containers, folders, taskVars>>

-----------------------------------------------------------------------------
(* The timeouts drop the future of the run.  A container it holds itself   *)
(* is dropped; what runs on a blocking thread, a step's task or a call to  *)
(* the file system, goes on unheard.                                       *)

DropFuture(r) ==
    /\ listening' = listening \ {r}
    /\ child' = IF at[r] = "spawned" THEN [child EXCEPT ![r] = Dropped(r)] ELSE child
    /\ fscalls' \in CASE at[r] = "new" -> {fscalls, fscalls \cup {<<r, "create">>}}
                      [] at[r] = "rmdir" /\ wid[r] \in dirs ->
                             {fscalls, fscalls \cup {<<r, "remove">>}}
                      [] OTHER -> {fscalls}

WorkflowTimeout(r) ==
    /\ at[r] \in InSetup \cup InSteps
    /\ DropFuture(r)
    /\ Goto(r, "destroy")
    /\ UNCHANGED <<wid, step, states, queued, pipe, spoofed, blocking, dirs, overtaken,
                   mishaps, faulty>>

Fault(r) == Cardinality(faulty) < MaxFaults /\ faulty' = faulty \cup {r}

\* pipeline_timeout aborts the task, which destroys nothing.
AbortRun(r) ==
    /\ at[r] # "over"
    /\ Fault(r)
    /\ DropFuture(r)
    /\ Goto(r, "over")
    /\ UNCHANGED <<wid, step, states, queued, pipe, spoofed, blocking, dirs, overtaken, mishaps>>

\* An interrupted create_dir_all or remove_dir_all comes to its end, or fails.
FileCallEnds(r) ==
    /\ \/ /\ <<r, "create">> \in fscalls
          /\ fscalls' = fscalls \ {<<r, "create">>}
          /\ \/ UNCHANGED <<dirs, overtaken>>
             \/ /\ dirs' = dirs \cup {wid[r]}
                /\ overtaken' = IF at[r] = "over" THEN overtaken \cup {r} ELSE overtaken
       \/ /\ <<r, "remove">> \in fscalls
          /\ fscalls' = fscalls \ {<<r, "remove">>}
          /\ dirs' \in {dirs, dirs \ {wid[r]}} /\ UNCHANGED overtaken
    /\ UNCHANGED <<at, step, states, containers, taskVars>>

-----------------------------------------------------------------------------
(* destroy_workflow: the entry is removed and a container in it killed (or *)
(* at least dropped); then the workspace is removed, if it is there, which *)
(* may fail or take too long.                                              *)

Emptied_EntryKept(r) == states
Emptied(r) == [states EXCEPT ![wid[r]] = Absent]

Destroy(r) ==
    LET c == states[wid[r]]
    IN  /\ at[r] = "destroy"
        /\ states' = Emptied(r)
        /\ IF c \in Run
           THEN \/ child' = [child EXCEPT ![c] = "dead"] /\ UNCHANGED faulty
                \/ child' = [child EXCEPT ![c] = Dropped(c)] /\ Fault(r)
           ELSE UNCHANGED <<child, faulty>>
        /\ Goto(r, "rmdir")
        /\ UNCHANGED <<wid, step, queued, pipe, spoofed, blocking, listening, folders, mishaps>>

RemoveWorkspace(r) ==
    /\ at[r] = "rmdir"
    /\ \/ dirs' = dirs \ {wid[r]} /\ UNCHANGED <<faulty, fscalls>>
       \/ /\ wid[r] \in dirs /\ Fault(r) /\ UNCHANGED dirs
          /\ fscalls' \in {fscalls, fscalls \cup {<<r, "remove">>}}
    /\ Goto(r, "over")
    /\ UNCHANGED <<wid, step, states, containers, blocking, listening, overtaken, mishaps>>

-----------------------------------------------------------------------------

Execute(r) ==
    \/ CreateWorkspace(r) \/ SpawnContainer(r) \/ StoreContainer(r)
    \/ TakeContainer(r) \/ NoContainer(r) \/ StepsDone(r)
    \/ Destroy(r) \/ RemoveWorkspace(r)

Next ==
    \E r \in Run : \/ Execute(r) \/ WorkflowTimeout(r) \/ AbortRun(r)
                   \/ CommandEnds(r) \/ ContainerDies(r) \/ Spoof(r) \/ BlockingEnds(r)
                   \/ FileCallEnds(r)

Spec == Init /\ [][Next]_vars

\* Tasks are polled, blocking threads scheduled and the timer fires.  A command
\* may run for ever, and setup may hang in `nix build`.
FairSpec ==
    /\ Spec
    /\ \A r \in Run : /\ WF_vars(Destroy(r) \/ RemoveWorkspace(r))
                      /\ WF_vars(WorkflowTimeout(r)) /\ WF_vars(BlockingEnds(r))

-----------------------------------------------------------------------------
(* Properties                                                              *)

\* Every variable keeps its type.
TypeOK ==
    /\ wid \in Naming
    /\ at \in [Run -> Place]
    /\ step \in [Run -> Nat] /\ \A r \in Run : step[r] \in 1..(Steps[r] + 1)
    /\ states \in [Wid -> Run \cup {Absent, Taken}]
    /\ child \in [Run -> ChildState]
    /\ queued \in [Run -> Nat] /\ pipe \in [Run -> Seq(Code)]
    /\ blocking \in [Run -> Run \cup {Absent}]
    /\ listening \in SUBSET Run /\ dirs \in SUBSET Wid
    /\ fscalls \in SUBSET (Run \X {"create", "remove"})
    /\ mishaps \in SUBSET Run /\ faulty \in SUBSET Run
    /\ spoofed \in SUBSET Run /\ overtaken \in SUBSET Run

Owners(c) == Cardinality({w \in Wid : states[w] = c})
             + Cardinality({r \in Run : blocking[r] = c})
             + (IF at[c] = "spawned" THEN 1 ELSE 0)

\* A live container has one owner (the map, a blocking task, or the setup that
\* spawned it), or none if its pipes are closed; and the one in the map executes
\* nothing and has no exit code unread that the next step could take for its own,
\* unless it printed a line that was taken for one.  Whatever executions share an
\* id, steps, timeouts and destroys never leave a container idle that nobody can
\* reach, or pass one to two tasks.
OneOwner ==
    /\ TypeOK
    /\ \A c \in Run :
           /\ Listens(c) => Owners(c) = 1
           /\ Owners(c) <= 1
           /\ (\E w \in Wid : states[w] = c) /\ c \notin spoofed /\ child[c] # "dead" =>
                  child[c] \in {"fresh", "idle"} /\ pipe[c] = <<>>

\* Executions whose id nobody shares.
Alone == {r \in Run : \A q \in Run \ {r} : wid[q] # wid[r]}

\* An execution with an id of its own finds its container at every step: run_step
\* never answers "no state for workflow" or "container already consumed".
StepFindsContainer == mishaps \cap Alone = {}

\* When it reaches its end it leaves no entry, its container is dead unless a step's
\* blocking task still has it or had it when the command ran on, and there is no
\* workspace unless the timeout interrupted its creation, which then came to its end
\* after destroy_workflow had looked.  (Not if it was aborted, or its destruction
\* failed.)
CleanAfter ==
    \A r \in Alone : at[r] = "over" /\ r \notin faulty =>
        /\ states[wid[r]] = Absent
        /\ wid[r] \in dirs => r \in overtaken
        /\ \/ child[r] \in {"none", "dead"}
           \/ blocking[r] = r
           \/ child[r] = "ending" /\ r \in spoofed

\* Such a container that outlives its execution is gone once its command has ended,
\* also when the execution was aborted and nothing destroys it.
StragglersDie ==
    \A r \in Run :
        r \in Alone /\ at[r] = "over" /\ blocking[r] = r /\ child[r] = "idle" ~> child[r] = "dead"
=============================================================================
