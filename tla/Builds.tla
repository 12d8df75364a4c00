------------------------------- MODULE Builds -------------------------------
(***************************************************************************)
(* From a workflow file to its steps, by those who do it side by side:     *)
(* workflows of the spindle, each in a task of its own                     *)
(* (crates/tangled-spindle/src/orchestrator.rs,                            *)
(* crates/spindle-engine/src/nix_engine.rs), or invocations of spindle-run *)
(* in one directory, each with its files one after another                 *)
(* (crates/spindle-run/src/main.rs).  They share the cache of Nix          *)
(* environments (build_nix_env in nix_deps.rs); spindle-run's also share   *)
(* the home of the steps.  The store's garbage collector is external.      *)
(***************************************************************************)
EXTENDS Manifest

CONSTANTS Job,          \* workflows of the spindle, or invocations of spindle-run
          Local,        \* those that are invocations of spindle-run
          Groups,       \* the jobs that work side by side
          Files,        \* Files[j]: the workflow files; the spindle's jobs have one
          DryRun,       \* Local jobs with --dry-run
          Triggers,     \* of the spindle's jobs: records of triggers, some of a bad shape
          Dev,          \* dev_mode
          ProcessVars,  \* ProcessVars[j]: TERM and USER of a Local job's process, if it has them
          SecretVars,   \* the repository's secrets, as an environment
          MaxMoves      \* bound: errors, and collections of garbage

ASSUME BuildsAssumption ==
    /\ Local \subseteq Job /\ DryRun \subseteq Local /\ Groups \subseteq SUBSET Job
    /\ DOMAIN Files = Job /\ \A j \in Job \ Local : Len(Files[j]) = 1
    /\ \A j \in Job : Files[j] \in Seq(ToSet(Files[j]))
    /\ \A j \in Job : \A i \in DOMAIN Files[j] :
           LET yaml == Files[j][i].yaml
           IN  yaml.steps \in Seq(ToSet(yaml.steps)) /\ DOMAIN yaml.deps \subseteq ToSet(SourceOrder)
    /\ \A j \in Local : DOMAIN ProcessVars[j] \subseteq {"TERM", "USER"}
    /\ \A r \in Triggers : r.trigger.manual # <<>> =>
           LET inputs == r.trigger.manual[1]
           IN  \A i \in DOMAIN inputs : inputs[i].key \in DOMAIN InputName
    /\ MaxMoves \in Nat

VARIABLES group, trigger,     \* never change
          at, file, step,     \* where a job is, with which file and step
          failed,             \* any_failed; of the spindle's, that the workflow failed
          completed,          \* steps that succeeded, by file
          work,               \* the file's dependencies, environment and steps
          path, seen,         \* the environment built, and what nix read
          given,              \* the environment of the step that runs
          nixfile, cache,     \* the shared cache: by content hash
          store,              \* paths in the Nix store: the expressions they were built of
          home, ended,        \* the home of the steps, and who removed it
          moves

job == <<at, file, step, failed, completed, work, path, seen, given>>
disk == <<nixfile, cache, store, home, ended>>
vars == <<group, trigger, job, disk, moves>>

Move == moves < MaxMoves /\ moves' = moves + 1
NoMove == UNCHANGED moves

At(j, place) == j \in group /\ at[j] = place
Goto(j, place) == at' = [at EXCEPT ![j] = place]

Id == "at://knot/sh.tangled.pipeline/rkey"
NoPath == <<>>
Current(j) == Files[j][file[j]]
Hash(j) == ContentHash(work[j].deps)
Written(f, j) == IF Hash(j) \in DOMAIN f THEN f[Hash(j)] ELSE <<"absent">>

-----------------------------------------------------------------------------
(* The spindle: init_workflow, and the variables of the trigger where the  *)
(* workflow has none of its own.                                           *)

Filled_Replacing(env, more) == more ++ env
Filled(env, more) == env ++ more

Sha(t) == IF t = <<>> THEN <<>> ELSE CommitSha(t[1])
TriggerEnv(t) == IF t = <<>> THEN Empty ELSE PipelineEnv(t[1], Id, Dev)

InitWorkflow(j) ==
    /\ At(j, "new") /\ j \notin Local
    /\ LET wf == Current(j)
           sha == Sha(trigger[j])
       IN  IF Accepts(wf, sha)
           THEN /\ Goto(j, "deps")
                /\ work' = [work EXCEPT ![j] =
                                [deps |-> wf.yaml.deps, steps |-> WorkflowSteps(wf, sha),
                                 env |-> Filled(YamlEnv(wf.yaml), TriggerEnv(trigger[j]))]]
           ELSE Goto(j, "over") /\ UNCHANGED work
    /\ UNCHANGED <<group, trigger, file, step, failed, completed, path, seen, given, disk, moves>>

-----------------------------------------------------------------------------
(* spindle-run.                                                            *)

Fails(j) == failed' = [failed EXCEPT ![j] = TRUE]

\* The directories cannot be made, or are made where they are not there.
Begin(j) ==
    /\ At(j, "new") /\ j \in Local
    /\ \/ home' = TRUE /\ ended' = ended \ {j} /\ Goto(j, "file") /\ UNCHANGED failed /\ NoMove
       \/ Fails(j) /\ Goto(j, "over") /\ Move /\ UNCHANGED <<home, ended>>
    /\ UNCHANGED <<group, trigger, file, step, completed, work, path, seen, given,
                   nixfile, cache, store>>

\* What a part of the file is, if it can be read.
Part(yaml, part, value, default) == IF Readable(yaml, {part}) THEN value ELSE default

\* A file that cannot be read or has bad steps fails; one without steps, and a
\* dry run, does not; bad dependencies or variables are none.
NextFile(j) == Goto(j, "file") /\ file' = [file EXCEPT ![j] = @ + 1]

OpenFile(j) ==
    /\ At(j, "file") /\ file[j] <= Len(Files[j])
    /\ LET yaml == Current(j).yaml
       IN  \/ Move /\ Fails(j) /\ NextFile(j) /\ UNCHANGED work
           \/ /\ NoMove
              /\ IF ~Readable(yaml, {"steps"})
                 THEN Fails(j) /\ NextFile(j) /\ UNCHANGED work
                 ELSE IF yaml.steps = <<>> \/ j \in DryRun
                 THEN NextFile(j) /\ UNCHANGED <<failed, work>>
                 ELSE /\ Goto(j, "deps") /\ UNCHANGED <<failed, file>>
                      /\ work' = [work EXCEPT ![j] =
                             [deps |-> Part(yaml, "deps", yaml.deps, Empty),
                              steps |-> UserSteps(yaml),
                              env |-> Part(yaml, "env", YamlEnv(yaml), Empty)]]
    /\ UNCHANGED <<group, trigger, step, completed, path, seen, given, disk>>

\* The last file is done: the home goes, whoever else may use it.
End(j) ==
    /\ At(j, "file") /\ file[j] > Len(Files[j])
    /\ home' = FALSE /\ ended' = Local /\ Goto(j, "over")
    /\ UNCHANGED <<group, trigger, file, step, failed, completed, work, path, seen, given,
                   nixfile, cache, store, moves>>

-----------------------------------------------------------------------------
(* build_nix_env.                                                          *)

\* What a failure does: the spindle's workflow is over, spindle-run's next
\* file has its turn.
GiveUp_Quietly(j) == IF j \in Local THEN NextFile(j) /\ UNCHANGED failed
                     ELSE Fails(j) /\ Goto(j, "over") /\ UNCHANGED file
GiveUp(j) == /\ Fails(j)
             /\ IF j \in Local THEN NextFile(j) ELSE Goto(j, "over") /\ UNCHANGED file

Ready(j, p) ==
    /\ Goto(j, "ready")
    /\ path' = [path EXCEPT ![j] = p] /\ step' = [step EXCEPT ![j] = 1]

\* Nothing is needed, or the cache names a path that is there.
LookUp(j) ==
    /\ At(j, "deps")
    /\ IF ~Needed(work[j].deps) THEN Ready(j, NoPath)
       ELSE IF Written(cache, j) \in {<<"path", e>> : e \in store}
       THEN Ready(j, Written(cache, j))
       ELSE Goto(j, "write") /\ UNCHANGED <<path, step>>
    /\ UNCHANGED <<group, trigger, file, failed, completed, work, seen, given, disk, moves>>

\* A write empties the file first, and may fail before or after that.
Write(f, j, content) ==
    f' = [h \in DOMAIN f \cup {Hash(j)} |-> IF h = Hash(j) THEN content ELSE f[h]]
Truncated == <<"truncated">>

WriteExpr(j) ==
    /\ At(j, "write") /\ Write(nixfile, j, Truncated) /\ NoMove
    /\ Goto(j, "writing")
    /\ UNCHANGED <<group, trigger, file, step, failed, completed, work, path, seen, given,
                   cache, store, home, ended>>

WriteExprEnds(j) ==
    /\ At(j, "writing") /\ Write(nixfile, j, <<"expr", NixExpr(work[j].deps)>>)
    /\ Goto(j, "build")
    /\ UNCHANGED <<group, trigger, file, step, failed, completed, work, path, seen, given,
                   cache, store, home, ended, moves>>

\* nix build reads the file once, as it is.
NixReads(j) ==
    /\ At(j, "build") /\ Goto(j, "building")
    /\ seen' = [seen EXCEPT ![j] = Written(nixfile, j)]
    /\ UNCHANGED <<group, trigger, file, step, failed, completed, work, path, given, disk, moves>>

\* It fails on a file without an expression, and on one it cannot evaluate.
NixBuilds(j) ==
    /\ At(j, "building") /\ seen[j] # Truncated /\ Evaluates(seen[j][2])
    /\ store' = store \cup {seen[j][2]} /\ Goto(j, "built")
    /\ UNCHANGED <<group, trigger, file, step, failed, completed, work, path, seen, given,
                   nixfile, cache, home, ended, moves>>

NixFails(j) ==
    /\ At(j, "building")
    /\ IF seen[j] = Truncated \/ ~Evaluates(seen[j][2]) THEN NoMove ELSE Move
    /\ GiveUp(j)
    /\ UNCHANGED <<group, trigger, step, completed, work, path, seen, given, disk>>

\* Any error of the file system before the build.
WriteFails(j) ==
    /\ at[j] \in {"write", "writing"} /\ Move /\ GiveUp(j)
    /\ UNCHANGED <<group, trigger, step, completed, work, path, seen, given, disk>>

\* The path that was printed must exist; then it is written to the cache.
CheckPath(j) ==
    /\ At(j, "built")
    /\ IF seen[j][2] \in store
       THEN Goto(j, "caching") /\ Write(cache, j, Truncated) /\ UNCHANGED <<failed, file>>
       ELSE GiveUp(j) /\ UNCHANGED cache
    /\ UNCHANGED <<group, trigger, step, completed, work, path, seen, given, nixfile, store,
                   home, ended, moves>>

\* A failure to write is only logged.
WritePath(j) ==
    /\ At(j, "caching")
    /\ \/ Write(cache, j, <<"path", seen[j][2]>>) /\ NoMove
       \/ Move /\ UNCHANGED cache
    /\ Ready(j, <<"path", seen[j][2]>>)
    /\ UNCHANGED <<group, trigger, file, failed, completed, work, seen, given, nixfile, store,
                   home, ended>>

\* Nothing registers the environment as a root: any path may be collected.
CollectGarbage ==
    /\ \E e \in store : store' = store \ {e}
    /\ Move
    /\ UNCHANGED <<group, trigger, job, nixfile, cache, home, ended>>

-----------------------------------------------------------------------------
(* The steps.                                                              *)

\* The environment's own directories come before the PATH of the process, with
\* spindle-run too.
BuildPath(p) == IF p = NoPath THEN "inherited" ELSE "env:inherited"
PathVar(j) == BuildPath(path[j])

StepEnv(j) == IF j \in Local THEN LocalEnv(ProcessVars[j], work[j].env, PathVar(j))
              ELSE SecretVars ++ ContainerEnv(work[j].env, PathVar(j))

RunStep(j) ==
    /\ At(j, "ready")
    /\ IF step[j] > Len(work[j].steps)
       THEN IF j \in Local THEN NextFile(j) /\ UNCHANGED given
            ELSE Goto(j, "over") /\ UNCHANGED <<file, given>>
       ELSE /\ Goto(j, "step") /\ UNCHANGED file
            /\ given' = [given EXCEPT ![j] = StepEnv(j)]
    /\ UNCHANGED <<group, trigger, step, failed, completed, work, path, seen, disk, moves>>

\* A step that does not succeed is the last of its file.
StepEnds(j) ==
    /\ At(j, "step")
    /\ \/ /\ Goto(j, "ready") /\ step' = [step EXCEPT ![j] = @ + 1] /\ NoMove
          /\ completed' = [completed EXCEPT ![j][file[j]] = @ + 1]
          /\ UNCHANGED <<failed, file>>
       \/ GiveUp(j) /\ Move /\ UNCHANGED <<step, completed>>
    /\ UNCHANGED <<group, trigger, work, path, seen, given, disk>>

-----------------------------------------------------------------------------
Init ==
    /\ group \in Groups /\ trigger \in [group \ Local -> {Parsed(r) : r \in Triggers}]
    /\ at = [j \in Job |-> "new"] /\ file = [j \in Job |-> 1] /\ step = [j \in Job |-> 1]
    /\ failed = [j \in Job |-> FALSE]
    /\ completed = [j \in Job |-> [i \in DOMAIN Files[j] |-> 0]]
    /\ work = [j \in Job |-> [deps |-> Empty, steps |-> <<>>, env |-> Empty]]
    /\ path = [j \in Job |-> NoPath] /\ seen = [j \in Job |-> <<"absent">>]
    /\ given = [j \in Job |-> Empty]
    /\ nixfile = Empty /\ cache = Empty /\ store = {}
    /\ home = FALSE /\ ended = {} /\ moves = 0

Next == \/ \E j \in group : \/ InitWorkflow(j) \/ Begin(j) \/ OpenFile(j) \/ End(j)
                            \/ LookUp(j) \/ WriteExpr(j) \/ WriteExprEnds(j) \/ WriteFails(j)
                            \/ NixReads(j) \/ NixBuilds(j) \/ NixFails(j)
                            \/ CheckPath(j) \/ WritePath(j)
                            \/ RunStep(j) \/ StepEnds(j)
        \/ CollectGarbage

Spec == Init /\ [][Next]_vars

-----------------------------------------------------------------------------
(* Properties.                                                             *)

Places == {"new", "file", "deps", "write", "writing", "build", "building", "built",
           "caching", "ready", "step", "over"}

\* Every variable keeps its type.
TypeOK ==
    /\ at \in [Job -> Places] /\ failed \in [Job -> BOOLEAN] /\ ended \subseteq Local
    /\ home \in BOOLEAN /\ moves \in 0 .. MaxMoves
    /\ \A j \in Job : file[j] \in 1 .. Len(Files[j]) + 1

Own(deps) == UNION {{<<Import(s), p>> : p \in ToSet(deps[s])} : s \in DOMAIN deps}

\* A file of those side by side has other dependencies which make the same bytes.
Confused(deps) ==
    \E q \in group : \E i \in DOMAIN Files[q] :
        LET other == Files[q][i].yaml.deps
        IN  other # deps /\ Fed(other) = Fed(deps)

\* The steps of a workflow find the packages its own file asks for, from the
\* sources it names, whoever built or cached the environment and whatever is in
\* the shared files meanwhile (build_nix_env looks a hash up, writes and reads
\* files named by it), unless compute_content_hash confuses its dependencies with
\* others: their separators are not escaped.  Local steps have the home that was
\* made for them, unless another invocation has ended and removed it.
EnvIsOwn ==
    /\ TypeOK
    /\ \A j \in group : at[j] \in {"ready", "step"} =>
        /\ Confused(work[j].deps) \/
           IF path[j] = NoPath THEN Own(work[j].deps) = {}
           ELSE Contents(path[j][2]) = Own(work[j].deps)
        /\ j \in Local => home \/ j \in ended

\* The environments that make up a step's, the first first: the secrets, the
\* workflow's env, its environment, the trigger's, the container's own; locally the
\* home that was made, TERM and USER of the process, if it has them, then the workflow's,
\* if they can be read.
Layers(j) ==
    LET yaml == Current(j).yaml
        mine == Homes ++ ProcessVars[j]
        local == [PATH |-> PathVar(j), CI |-> "true"]
    IN  IF j \notin Local
        THEN <<SecretVars, yaml.env, yaml.environment, TriggerEnv(trigger[j]),
               ContainerEnv(Empty, PathVar(j))>>
        ELSE IF Readable(yaml, {"env"}) THEN <<mine, yaml.env, yaml.environment, local>>
        ELSE <<mine, local>>

\* The layer that has the say about a variable, and what the layers make together.
Says(layers, i, k) == k \in DOMAIN layers[i] /\ \A h \in 1 .. i - 1 : k \notin DOMAIN layers[h]
InOrder(env, layers) ==
    /\ DOMAIN env = UNION {DOMAIN layers[i] : i \in DOMAIN layers}
    /\ \A i \in DOMAIN layers : \A k \in DOMAIN layers[i] :
           Says(layers, i, k) => env[k] = layers[i][k]

\* A trigger has a push, or a pull request, only if that is its kind.
OfItsKind(t) ==
    /\ t.push # <<>> => t.kind = "push"
    /\ t.pull_request # <<>> => t.kind = "pull_request"

\* What a step reads of a variable is what the first of the layers has that has it;
\* and where that is the trigger's, TANGLED_SHA is the commit that the clone step
\* fetches, if the trigger has no more parts than its kind.  (Layers laid over each
\* other in execute_pipeline, init_workflow, setup_workflow and run_step.)
StepEnvironment ==
    \A j \in group : At(j, "step") =>
        LET layers == Layers(j)
            sha == "TANGLED_SHA"
        IN  /\ InOrder(given[j], layers)
            /\ (j \notin Local /\ Says(layers, 4, sha) /\ OfItsKind(trigger[j][1])) =>
                   \A i \in DOMAIN work[j].steps :
                       "fetch" \in DOMAIN work[j].steps[i] => work[j].steps[i].fetch = given[j][sha]

\* spindle-run says that all workflows passed only if every file could be read
\* and, but for a dry run, every step of every file has succeeded: a failure that
\* ends one file early is not forgotten when the next one passes.
ExitTellsFailure ==
    \A j \in group \cap Local : At(j, "over") /\ ~failed[j] =>
        \A i \in DOMAIN Files[j] :
            LET yaml == Files[j][i].yaml
            IN  /\ Readable(yaml, {"steps"})
                /\ j \notin DryRun => completed[j][i] = Len(yaml.steps)
=============================================================================
