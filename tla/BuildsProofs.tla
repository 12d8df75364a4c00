---------------------------- MODULE BuildsProofs ----------------------------
(***************************************************************************)
(* The exit status of spindle-run tells of failures, each job has the      *)
(* packages its own file asks for, and each step the variables of the file *)
(* it is in, of the trigger and of the secrets, in their order: for every  *)
(* number of jobs and files, all contents, triggers and secrets, and any   *)
(* number of errors and collections of garbage.  Three invariants are      *)
(* inductive: ExitInv counts the steps that succeeded in each file up to   *)
(* the current one; BuildInv says what the files of the shared cache may   *)
(* hold; VarsInv what a job has made of its file and its trigger.          *)
(***************************************************************************)
EXTENDS Builds, SequenceTheorems, TLAPS

Building == {"deps", "write", "writing", "build", "building", "built", "caching"}
Place == Building \cup {"new", "file", "ready", "step", "over"}

\* The parts of the type invariant the argument needs.
Types ==
    /\ group \subseteq Job
    /\ at \in [Job -> Place] /\ failed \in [Job -> BOOLEAN]
    /\ file \in [Job -> Nat \ {0}] /\ step \in [Job -> Nat \ {0}]
    /\ DOMAIN work = Job /\ DOMAIN completed = Job
    /\ \A j \in Job : DOMAIN completed[j] = DOMAIN Files[j]

\* A file that was dealt with has passed, unless the invocation has failed.
Passed(j, i) ==
    LET yaml == Files[j][i].yaml
    IN  Readable(yaml, {"steps"}) /\ (j \notin DryRun => completed[j][i] = Len(yaml.steps))

Before(j) == ~failed[j] => \A i \in DOMAIN Files[j] : i < file[j] => Passed(j, i)

\* Of the files to come no step has run, nor of the current one before its build.
After(j) ==
    \A i \in DOMAIN Files[j] :
        i > file[j] \/ (i = file[j] /\ at[j] \notin {"ready", "step", "over"})
            => completed[j][i] = 0

\* The current file, and how many of its steps have succeeded.
Now(j) ==
    /\ at[j] \in Building \cup {"ready", "step"} =>
           /\ file[j] \in DOMAIN Files[j] /\ j \notin DryRun
           /\ Readable(Current(j).yaml, {"steps"})
           /\ Len(work[j].steps) = Len(Current(j).yaml.steps)
    /\ at[j] \in {"ready", "step"} =>
           /\ completed[j][file[j]] = step[j] - 1
           /\ step[j] <= Len(work[j].steps) + 1
    /\ at[j] = "step" => step[j] <= Len(work[j].steps)
    /\ at[j] = "over" /\ ~failed[j] => file[j] > Len(Files[j])

JobInv(j) == Before(j) /\ After(j) /\ Now(j)

ExitInv == Types /\ \A j \in group \cap Local : JobInv(j)

\* Everything about a job stays.
Untouched(j) ==
    /\ at'[j] = at[j] /\ failed'[j] = failed[j] /\ file'[j] = file[j] /\ step'[j] = step[j]
    /\ work'[j] = work[j] /\ completed'[j] = completed[j]

-----------------------------------------------------------------------------
(* The steps                                                               *)

\* The workflow files are sequences of files with sequences of steps.
LEMMA FilesAreSequences ==
    ASSUME NEW j \in Job
    PROVE  /\ Len(Files[j]) \in Nat /\ DOMAIN Files[j] = 1 .. Len(Files[j])
           /\ \A i \in DOMAIN Files[j] :
                  /\ Len(Files[j][i].yaml.steps) \in Nat
                  /\ Len(UserSteps(Files[j][i].yaml)) = Len(Files[j][i].yaml.steps)
<1>1. Files[j] \in Seq(ToSet(Files[j]))
  BY BuildsAssumption
<1>2. Len(Files[j]) \in Nat /\ DOMAIN Files[j] = 1 .. Len(Files[j])
  BY <1>1
<1>3. ASSUME NEW i \in DOMAIN Files[j]
      PROVE  /\ Len(Files[j][i].yaml.steps) \in Nat
             /\ Len(UserSteps(Files[j][i].yaml)) = Len(Files[j][i].yaml.steps)
  <2> DEFINE s == Files[j][i].yaml.steps
  <2>1. s \in Seq(ToSet(s))
    BY BuildsAssumption
  <2>2. Len(s) \in Nat /\ DOMAIN s = 1 .. Len(s)
    BY <2>1
  <2>3. UserSteps(Files[j][i].yaml) = [k \in 1 .. Len(s) |-> UserStep(s[k])]
    BY <2>2 DEF UserSteps
  <2> HIDE DEF s
  <2>4. Len([k \in 1 .. Len(s) |-> UserStep(s[k])]) = Len(s)
    BY <2>2
  <2> QED
    BY <2>2, <2>3, <2>4 DEF s
<1> QED
  BY <1>2, <1>3

\* A step of one job keeps the invariant if it keeps it for this job.
LEMMA OneJob ==
    ASSUME ExitInv, NEW j \in group, Types', group' = group,
           \A q \in Job \ {j} : Untouched(q),
           j \in Local => JobInv(j)'
    PROVE  ExitInv'
<1>1. ASSUME NEW q \in group \cap Local, q # j PROVE JobInv(q)'
  <2>1. Untouched(q) /\ JobInv(q)
    BY <1>1 DEF ExitInv, Types
  <2> QED
    BY <2>1 DEF Untouched, JobInv, Before, After, Now, Passed, Current
<1> QED
  BY <1>1 DEF ExitInv

\* A failure is recorded, and the next file has its turn or the job is over.
LEMMA FailingStep ==
    ASSUME ExitInv, NEW j \in group, GiveUp(j), at[j] \in Building \cup {"step"},
           UNCHANGED <<group, step, completed, work>>
    PROVE  ExitInv'
<1>1. j \in Job /\ failed'[j] = TRUE /\ at'[j] \in {"file", "over"}
  BY DEF ExitInv, Types, GiveUp, Fails, NextFile, Goto
<1>2. Types'
  BY <1>1 DEF ExitInv, Types, GiveUp, Fails, NextFile, Goto, Place
<1>3. \A q \in Job \ {j} : Untouched(q)
  BY DEF ExitInv, Types, Untouched, GiveUp, Fails, NextFile, Goto
<1>4. ASSUME j \in Local PROVE JobInv(j)'
  <2>1. file'[j] = file[j] + 1 /\ at'[j] = "file" /\ After(j) /\ file[j] \in Nat
    BY <1>1, <1>4 DEF ExitInv, Types, JobInv, GiveUp, NextFile, Goto
  <2>2. After(j)'
    BY <1>1, <2>1, FilesAreSequences DEF After
  <2> QED
    BY <1>1, <2>1, <2>2 DEF JobInv, Before, Now, Building
<1> QED
  BY <1>2, <1>3, <1>4, OneJob

\* On the way to the build nothing is counted; the job may be ready then.
LEMMA BuildingStep ==
    ASSUME ExitInv, NEW j \in group, NEW p \in Building \cup {"ready"}, Goto(j, p),
           at[j] \in Building,
           UNCHANGED <<group, file, failed, completed, work>>,
           IF p = "ready" THEN step' = [step EXCEPT ![j] = 1] ELSE step' = step
    PROVE  ExitInv'
<1>1. j \in Job /\ at'[j] = p /\ UNCHANGED <<group, file, failed, completed, work>>
  BY DEF ExitInv, Types, Goto
<1>2. Types'
  <2>1. at' \in [Job -> Place]
    BY DEF ExitInv, Types, Goto, Place
  <2>2. step' \in [Job -> Nat \ {0}]
    BY DEF ExitInv, Types
  <2> QED
    BY <2>1, <2>2 DEF ExitInv, Types
<1>3. \A q \in Job \ {j} : Untouched(q)
  BY DEF ExitInv, Types, Untouched, Goto
<1>4. ASSUME j \in Local PROVE JobInv(j)'
  <2>1. JobInv(j) /\ file[j] \in DOMAIN Files[j]
    BY <1>4 DEF ExitInv, JobInv, Now
  <2>2. completed[j][file[j]] = 0 /\ file[j] \in Nat
    BY <1>1, <2>1 DEF JobInv, After, Building, ExitInv, Types
  <2>3. Before(j)'
    BY <1>1, <2>1 DEF JobInv, Before, Passed
  <2>4. After(j)'
    BY <1>1, <2>1 DEF JobInv, After, Building
  <2>5. Len(work[j].steps) \in Nat
    BY <1>1, <2>1, FilesAreSequences DEF JobInv, Now, Current
  <2>6. p = "ready" => step'[j] = 1
    BY <1>1 DEF ExitInv, Types
  <2>7. Now(j)'
    BY <1>1, <2>1, <2>2, <2>5, <2>6 DEF JobInv, Now, Current, Building
  <2> QED
    BY <2>3, <2>4, <2>7 DEF JobInv
<1> QED
  BY <1>1, <1>2, <1>3, <1>4, OneJob

\* The spindle's jobs are none of spindle-run's.
LEMMA InitWorkflowStep == ASSUME ExitInv, NEW j \in group, InitWorkflow(j) PROVE ExitInv'
<1>1. j \in Job /\ j \notin Local /\ UNCHANGED <<group, file, step, failed, completed>>
  BY DEF ExitInv, Types, InitWorkflow
<1>2. \E p \in Place : Goto(j, p)
  BY DEF InitWorkflow, Place, Building
<1>3. Types'
  <2>1. at' \in [Job -> Place]
    BY <1>2 DEF ExitInv, Types, Goto
  <2>2. DOMAIN work' = Job
    BY DEF ExitInv, Types, InitWorkflow
  <2> QED
    BY <1>1, <2>1, <2>2 DEF ExitInv, Types
<1>4. ASSUME NEW q \in Job \ {j} PROVE Untouched(q)
  <2>1. at'[q] = at[q]
    BY <1>2 DEF ExitInv, Types, Goto
  <2>2. work'[q] = work[q]
    BY DEF ExitInv, Types, InitWorkflow
  <2> QED
    BY <1>1, <2>1, <2>2 DEF Untouched
<1> QED
  BY <1>1, <1>3, <1>4, OneJob

\* An invocation begins, or fails to make its directories.
LEMMA BeginStep == ASSUME ExitInv, NEW j \in group, Begin(j) PROVE ExitInv'
<1>1. /\ j \in Job /\ at[j] = "new" /\ UNCHANGED <<group, file, step, completed, work>>
      /\ \/ Goto(j, "file") /\ failed' = failed
         \/ Goto(j, "over") /\ failed' = [failed EXCEPT ![j] = TRUE]
  BY DEF ExitInv, Types, Begin, At, Fails
<1>2. Types'
  BY <1>1 DEF ExitInv, Types, Goto, Place
<1>3. \A q \in Job \ {j} : Untouched(q)
  BY <1>1 DEF ExitInv, Types, Untouched, Goto
<1>4. /\ at'[j] \in {"file", "over"} /\ (at'[j] = "file" => failed'[j] = failed[j])
      /\ (at'[j] = "over" => failed'[j])
  BY <1>1 DEF ExitInv, Types, Goto
<1>5. ASSUME j \in Local PROVE JobInv(j)'
  <2>1. JobInv(j)
    BY <1>5 DEF ExitInv
  <2>2. Before(j)'
    BY <1>1, <1>4, <2>1 DEF JobInv, Before, Passed
  <2>3. After(j)' /\ Now(j)'
    BY <1>1, <1>4, <2>1 DEF JobInv, After, Now, Building
  <2> QED
    BY <2>2, <2>3 DEF JobInv
<1> QED
  BY <1>1, <1>2, <1>3, <1>5, OneJob

\* A file without steps, or in a dry run, has passed; another is to be built.
LEMMA OpenFileStep == ASSUME ExitInv, NEW j \in group, OpenFile(j) PROVE ExitInv'
<1> DEFINE yaml == Current(j).yaml
<1>1. /\ j \in Job /\ at[j] = "file" /\ file[j] <= Len(Files[j])
      /\ UNCHANGED <<group, step, completed>>
  BY DEF ExitInv, Types, OpenFile, At
<1>2. file[j] \in DOMAIN Files[j] /\ file[j] \in Nat \ {0}
  BY <1>1, FilesAreSequences DEF ExitInv, Types
<1>3. CASE Fails(j) /\ NextFile(j) /\ work' = work
  <2>1. failed' = [failed EXCEPT ![j] = TRUE] /\ failed'[j]
    BY <1>1, <1>3 DEF Fails, ExitInv, Types
  <2>2. /\ at' = [at EXCEPT ![j] = "file"] /\ file' = [file EXCEPT ![j] = @ + 1]
        /\ at'[j] = "file" /\ file'[j] = file[j] + 1
    BY <1>1, <1>3 DEF NextFile, Goto, ExitInv, Types
  <2>3. Types'
    BY <1>1, <1>3, <2>1, <2>2 DEF ExitInv, Types, Place
  <2>4. \A q \in Job \ {j} : Untouched(q)
    BY <1>1, <1>3, <2>1, <2>2 DEF ExitInv, Types, Untouched
  <2>5. ASSUME j \in Local PROVE JobInv(j)'
    <3>1. After(j)
      BY <2>5 DEF ExitInv, JobInv
    <3>2. After(j)'
      BY <1>1, <1>2, <2>2, <3>1, FilesAreSequences DEF After
    <3> QED
      BY <2>1, <2>2, <3>2 DEF JobInv, Before, Now, Building
  <2> QED
    BY <1>1, <2>3, <2>4, <2>5, OneJob
<1>4. CASE /\ Readable(yaml, {"steps"}) /\ (yaml.steps = <<>> \/ j \in DryRun)
           /\ NextFile(j) /\ UNCHANGED <<failed, work>>
  <2>1. /\ at' = [at EXCEPT ![j] = "file"] /\ file' = [file EXCEPT ![j] = @ + 1]
        /\ at'[j] = "file" /\ file'[j] = file[j] + 1
    BY <1>1, <1>4 DEF NextFile, Goto, ExitInv, Types
  <2>2. Types'
    BY <1>1, <1>4, <2>1 DEF ExitInv, Types, Place
  <2>3. \A q \in Job \ {j} : Untouched(q)
    BY <1>1, <1>4, <2>1 DEF ExitInv, Types, Untouched
  <2>4. ASSUME j \in Local PROVE JobInv(j)'
    <3>1. JobInv(j)
      BY <2>4 DEF ExitInv
    <3>2. Passed(j, file[j])
      BY <1>1, <1>2, <1>4, <3>1 DEF JobInv, After, Passed, Current
    <3>3. After(j)'
      BY <1>1, <1>2, <2>1, <3>1, FilesAreSequences DEF JobInv, After
    <3>4. Before(j)'
      BY <1>1, <1>2, <1>4, <2>1, <3>1, <3>2, FilesAreSequences DEF JobInv, Before, Passed
    <3> QED
      BY <2>1, <3>3, <3>4 DEF JobInv, Now, Building
  <2> QED
    BY <1>1, <2>2, <2>3, <2>4, OneJob
<1>5. CASE /\ Readable(yaml, {"steps"}) /\ j \notin DryRun
           /\ Goto(j, "deps") /\ UNCHANGED <<failed, file>>
           /\ \E d, e : work' = [work EXCEPT ![j] =
                                    [deps |-> d, steps |-> UserSteps(yaml), env |-> e]]
  <2>1. at' = [at EXCEPT ![j] = "deps"] /\ at'[j] = "deps"
    BY <1>1, <1>5 DEF Goto, ExitInv, Types
  <2>2. DOMAIN work' = Job /\ work'[j].steps = UserSteps(yaml)
        /\ \A q \in Job \ {j} : work'[q] = work[q]
    BY <1>1, <1>5 DEF ExitInv, Types
  <2>3. Types'
    BY <1>1, <1>5, <2>1, <2>2 DEF ExitInv, Types, Place, Building
  <2>4. \A q \in Job \ {j} : Untouched(q)
    BY <1>1, <1>5, <2>1, <2>2 DEF ExitInv, Types, Untouched
  <2>5. ASSUME j \in Local PROVE JobInv(j)'
    <3>1. JobInv(j)
      BY <2>5 DEF ExitInv
    <3>2. Len(work'[j].steps) = Len(yaml.steps)
      BY <1>1, <1>2, <2>2, FilesAreSequences DEF Current
    <3>3. Now(j)'
      BY <1>1, <1>2, <1>5, <2>1, <3>2 DEF Now, Current, Building
    <3>4. After(j)' /\ Before(j)'
      BY <1>1, <1>5, <2>1, <3>1 DEF JobInv, After, Before, Passed
    <3> QED
      BY <3>3, <3>4 DEF JobInv
  <2> QED
    BY <1>1, <2>3, <2>4, <2>5, OneJob
<1> QED
  BY <1>3, <1>4, <1>5 DEF OpenFile

\* The steps of build_nix_env go on, or give up.
LEMMA BuildStep ==
    ASSUME ExitInv, NEW j \in group,
           \/ LookUp(j) \/ WriteExpr(j) \/ WriteExprEnds(j) \/ WriteFails(j) \/ NixReads(j)
           \/ NixBuilds(j) \/ NixFails(j) \/ CheckPath(j) \/ WritePath(j)
    PROVE  ExitInv'
<1>1. CASE LookUp(j)
  <2>1. at[j] \in Building /\ UNCHANGED <<group, file, failed, completed, work>>
    BY <1>1 DEF LookUp, At, Building
  <2>2. CASE Goto(j, "ready") /\ step' = [step EXCEPT ![j] = 1]
    BY <2>1, <2>2, BuildingStep
  <2>3. CASE Goto(j, "write") /\ step' = step
    BY <2>1, <2>3, BuildingStep DEF Building
  <2> QED
    BY <1>1, <2>2, <2>3 DEF LookUp, Ready
<1>2. CASE WriteExpr(j) \/ WriteExprEnds(j) \/ NixReads(j) \/ NixBuilds(j)
  <2>1. /\ at[j] \in Building /\ UNCHANGED <<group, file, step, failed, completed, work>>
        /\ \E p \in Building : Goto(j, p)
    BY <1>2 DEF WriteExpr, WriteExprEnds, NixReads, NixBuilds, At, Building
  <2>2. PICK p \in Building : Goto(j, p)
    BY <2>1
  <2>3. p # "ready"
    BY DEF Building
  <2> QED
    BY <2>1, <2>2, <2>3, BuildingStep
<1>3. CASE WriteFails(j) \/ NixFails(j)
  <2>1. at[j] \in Building /\ GiveUp(j) /\ UNCHANGED <<group, step, completed, work>>
    BY <1>3 DEF WriteFails, NixFails, At, Building
  <2> QED
    BY <2>1, FailingStep DEF Building
<1>4. CASE CheckPath(j)
  <2>1. at[j] \in Building /\ UNCHANGED <<group, step, completed, work>>
    BY <1>4 DEF CheckPath, At, Building
  <2>2. CASE Goto(j, "caching") /\ UNCHANGED <<failed, file>>
    BY <2>1, <2>2, BuildingStep DEF Building
  <2>3. CASE GiveUp(j)
    BY <2>1, <2>3, FailingStep DEF Building
  <2> QED
    BY <1>4, <2>2, <2>3 DEF CheckPath
<1>5. CASE WritePath(j)
  <2>1. /\ at[j] \in Building /\ UNCHANGED <<group, file, failed, completed, work>>
        /\ Goto(j, "ready") /\ step' = [step EXCEPT ![j] = 1]
    BY <1>5 DEF WritePath, Ready, At, Building
  <2> QED
    BY <2>1, BuildingStep
<1> QED
  BY <1>1, <1>2, <1>3, <1>4, <1>5

\* A step starts, or the file's last step is behind and the file has passed.
LEMMA RunStepStep == ASSUME ExitInv, NEW j \in group, RunStep(j) PROVE ExitInv'
<1>1. j \in Job /\ at[j] = "ready" /\ UNCHANGED <<group, step, failed, completed, work>>
  BY DEF ExitInv, Types, RunStep, At
<1>2. ASSUME j \in Local
      PROVE  /\ JobInv(j) /\ file[j] \in DOMAIN Files[j] /\ j \notin DryRun
             /\ Readable(Current(j).yaml, {"steps"})
             /\ Len(work[j].steps) = Len(Current(j).yaml.steps)
             /\ completed[j][file[j]] = step[j] - 1 /\ step[j] \in Nat
             /\ step[j] <= Len(work[j].steps) + 1
             /\ Len(work[j].steps) \in Nat /\ file[j] \in Nat
  <2>1. JobInv(j)
    BY <1>2 DEF ExitInv
  <2>2. step[j] \in Nat /\ file[j] \in Nat
    BY <1>1 DEF ExitInv, Types
  <2> QED
    BY <1>1, <2>1, <2>2, FilesAreSequences DEF JobInv, Now, Current
<1>3. CASE step[j] <= Len(work[j].steps) /\ Goto(j, "step") /\ file' = file
  <2>1. at' = [at EXCEPT ![j] = "step"] /\ at'[j] = "step"
    BY <1>1, <1>3 DEF Goto, ExitInv, Types
  <2>2. Types'
    BY <1>1, <1>3, <2>1 DEF ExitInv, Types, Place
  <2>3. \A q \in Job \ {j} : Untouched(q)
    BY <1>1, <1>3, <2>1 DEF ExitInv, Types, Untouched
  <2>4. ASSUME j \in Local PROVE JobInv(j)'
    BY <1>1, <1>2, <1>3, <2>1, <2>4 DEF JobInv, Before, After, Now, Passed, Current, Building
  <2> QED
    BY <1>1, <2>2, <2>3, <2>4, OneJob
<1>4. CASE step[j] > Len(work[j].steps) /\ j \in Local /\ NextFile(j)
  <2>1. /\ at' = [at EXCEPT ![j] = "file"] /\ file' = [file EXCEPT ![j] = @ + 1]
        /\ at'[j] = "file" /\ file'[j] = file[j] + 1
    BY <1>1, <1>4 DEF NextFile, Goto, ExitInv, Types
  <2>2. Types'
    BY <1>1, <2>1 DEF ExitInv, Types, Place
  <2>3. \A q \in Job \ {j} : Untouched(q)
    BY <1>1, <2>1 DEF ExitInv, Types, Untouched
  <2>4. Passed(j, file[j])
    BY <1>2, <1>4 DEF Passed, Current
  <2>5. After(j)'
    BY <1>1, <1>2, <1>4, <2>1, FilesAreSequences DEF JobInv, After
  <2>6. Before(j)'
    BY <1>1, <1>2, <1>4, <2>1, <2>4, FilesAreSequences DEF JobInv, Before, Passed
  <2>7. Now(j)'
    BY <2>1 DEF Now, Building
  <2> QED
    BY <1>1, <2>2, <2>3, <2>5, <2>6, <2>7, OneJob DEF JobInv
<1>5. CASE j \notin Local /\ Goto(j, "over") /\ file' = file
  <2>1. Types'
    BY <1>1, <1>5 DEF ExitInv, Types, Goto, Place
  <2>2. \A q \in Job \ {j} : Untouched(q)
    BY <1>1, <1>5 DEF ExitInv, Types, Untouched, Goto
  <2> QED
    BY <1>1, <1>5, <2>1, <2>2, OneJob
<1>6. step[j] \in Nat /\ (j \in Local => Len(work[j].steps) \in Nat)
  BY <1>1, <1>2 DEF ExitInv, Types
<1>7. CASE step[j] > Len(work[j].steps)
  BY <1>4, <1>5, <1>7 DEF RunStep
<1>8. CASE ~(step[j] > Len(work[j].steps)) /\ j \in Local
  BY <1>3, <1>6, <1>8 DEF RunStep
<1>9. CASE ~(step[j] > Len(work[j].steps)) /\ j \notin Local
  <2>1. Goto(j, "step") /\ file' = file
    BY <1>9 DEF RunStep
  <2>2. Types'
    BY <1>1, <2>1 DEF ExitInv, Types, Goto, Place
  <2>3. \A q \in Job \ {j} : Untouched(q)
    BY <1>1, <2>1 DEF ExitInv, Types, Untouched, Goto
  <2> QED
    BY <1>1, <1>9, <2>2, <2>3, OneJob
<1> QED
  BY <1>7, <1>8, <1>9

\* A step succeeds and is counted, or is the last of its file.
LEMMA StepEndsStep == ASSUME ExitInv, NEW j \in group, StepEnds(j) PROVE ExitInv'
<1>1. j \in Job /\ at[j] = "step" /\ UNCHANGED <<group, work>>
  BY DEF ExitInv, Types, StepEnds, At
<1>2. CASE GiveUp(j) /\ UNCHANGED <<step, completed>>
  BY <1>1, <1>2, FailingStep
<1>3. CASE /\ Goto(j, "ready") /\ step' = [step EXCEPT ![j] = @ + 1]
           /\ completed' = [completed EXCEPT ![j][file[j]] = @ + 1]
           /\ UNCHANGED <<failed, file>>
  <2>1. at' = [at EXCEPT ![j] = "ready"] /\ at'[j] = "ready" /\ step'[j] = step[j] + 1
    BY <1>1, <1>3 DEF Goto, ExitInv, Types
  <2>2. /\ DOMAIN completed' = Job /\ \A q \in Job \ {j} : completed'[q] = completed[q]
        /\ completed'[j] = [completed[j] EXCEPT ![file[j]] = @ + 1]
    BY <1>1, <1>3 DEF ExitInv, Types
  <2>3. Types'
    BY <1>1, <1>3, <2>1, <2>2 DEF ExitInv, Types, Place
  <2>4. \A q \in Job \ {j} : Untouched(q)
    BY <1>1, <1>3, <2>1, <2>2 DEF ExitInv, Types, Untouched
  <2>5. ASSUME j \in Local PROVE JobInv(j)'
    <3>1. JobInv(j)
      BY <2>5 DEF ExitInv
    <3>2. /\ file[j] \in DOMAIN Files[j] /\ step[j] \in Nat /\ file[j] \in Nat
          /\ Len(work[j].steps) \in Nat /\ DOMAIN completed[j] = DOMAIN Files[j]
      BY <1>1, <3>1, FilesAreSequences DEF ExitInv, Types, JobInv, Now, Current
    <3>3. /\ completed'[j][file[j]] = completed[j][file[j]] + 1
          /\ \A i \in DOMAIN Files[j] : i # file[j] => completed'[j][i] = completed[j][i]
      BY <2>2, <3>2
    <3>4. Now(j)'
      BY <1>1, <1>3, <2>1, <3>1, <3>2, <3>3 DEF JobInv, Now, Current, Building
    <3>5. \A i \in DOMAIN Files[j] : i \in Nat
      BY <1>1, FilesAreSequences
    <3>6. Before(j)' /\ After(j)'
      BY <1>1, <1>3, <2>1, <3>1, <3>2, <3>3, <3>5 DEF JobInv, Before, After, Passed
    <3> QED
      BY <3>4, <3>6 DEF JobInv
  <2> QED
    BY <1>1, <2>3, <2>4, <2>5, OneJob
<1> QED
  BY <1>2, <1>3 DEF StepEnds

\* The last file is done.
LEMMA EndStep == ASSUME ExitInv, NEW j \in group, End(j) PROVE ExitInv'
<1>1. /\ j \in Job /\ UNCHANGED <<group, file, step, failed, completed, work>>
      /\ at' = [at EXCEPT ![j] = "over"] /\ at'[j] = "over" /\ file[j] > Len(Files[j])
  BY DEF ExitInv, Types, End, Goto
<1>2. Types'
  BY <1>1 DEF ExitInv, Types, Place
<1>3. \A q \in Job \ {j} : Untouched(q)
  BY <1>1 DEF ExitInv, Types, Untouched
<1>4. ASSUME j \in Local PROVE JobInv(j)'
  <2>1. JobInv(j)
    BY <1>4 DEF ExitInv
  <2> QED
    BY <1>1, <2>1 DEF JobInv, Before, After, Now, Passed, Building
<1> QED
  BY <1>1, <1>2, <1>3, <1>4, OneJob

-----------------------------------------------------------------------------
(* The theorem                                                             *)

\* At first nothing has run.
LEMMA InitExitInv == Init => ExitInv
<1> SUFFICES ASSUME Init PROVE ExitInv
  OBVIOUS
<1>1. group \subseteq Job
  BY BuildsAssumption DEF Init
<1>2. Types
  BY <1>1 DEF Init, Types, Place
<1>3. ASSUME NEW j \in Job PROVE JobInv(j)
  <2>1. at[j] = "new" /\ file[j] = 1 /\ \A i \in DOMAIN Files[j] : completed[j][i] = 0
    BY DEF Init
  <2>2. \A i \in DOMAIN Files[j] : ~(i < 1)
    BY FilesAreSequences
  <2> QED
    BY <2>1, <2>2 DEF JobInv, Before, After, Now, Building
<1> QED
  BY <1>1, <1>2, <1>3 DEF ExitInv

\* Every step keeps the invariant.
LEMMA NextExitInv == ExitInv /\ [Next]_vars => ExitInv'
<1> SUFFICES ASSUME ExitInv, [Next]_vars PROVE ExitInv'
  OBVIOUS
<1>1. ASSUME NEW j \in group, InitWorkflow(j) \/ Begin(j) \/ OpenFile(j) \/ End(j)
      PROVE  ExitInv'
  BY <1>1, InitWorkflowStep, BeginStep, OpenFileStep, EndStep
<1>2. ASSUME NEW j \in group, RunStep(j) \/ StepEnds(j) PROVE ExitInv'
  BY <1>2, RunStepStep, StepEndsStep
<1>3. CASE CollectGarbage \/ UNCHANGED vars
  <2>1. UNCHANGED <<group, at, file, step, failed, completed, work>>
    BY <1>3 DEF CollectGarbage, vars, job
  <2> QED
    BY <2>1 DEF ExitInv, Types, JobInv, Before, After, Now, Passed, Current
<1> QED
  BY <1>1, <1>2, <1>3, BuildStep DEF Next

\* Who is told that all workflows passed has files that could be read and, but for
\* a dry run, whose steps have all succeeded.
THEOREM ExitStatusTells == Spec => []ExitTellsFailure
<1>1. ExitInv => ExitTellsFailure
  <2> SUFFICES ASSUME ExitInv, NEW j \in group \cap Local, At(j, "over"), ~failed[j],
                      NEW i \in DOMAIN Files[j]
               PROVE  Passed(j, i)
    BY DEF ExitTellsFailure, Passed
  <2>1. j \in Job /\ JobInv(j) /\ at[j] = "over" /\ file[j] \in Nat
    BY DEF ExitInv, Types, At
  <2>2. i < file[j]
    BY <2>1, FilesAreSequences DEF JobInv, Now
  <2> QED
    BY <2>1, <2>2 DEF JobInv, Before
<1> QED
  BY <1>1, InitExitInv, NextExitInv, PTL DEF Spec

-----------------------------------------------------------------------------
(* Environments                                                            *)

\* The dependencies that the files of those side by side ask for, those among them that
\* have one hash, and of these those that Nix can build.
ExprOf(deps) == <<"expr", NixExpr(deps)>>
PathTo(deps) == <<"path", NixExpr(deps)>>
Asked == UNION {{Files[q][i].yaml.deps : i \in DOMAIN Files[q]} : q \in group}
Alike(h) == {d \in Asked : ContentHash(d) = h}
Sound(h) == {d \in Alike(h) : Evaluates(NixExpr(d))}

\* What the files named by a hash may hold: half of it, or what dependencies of that hash
\* make.
DiskInv ==
    /\ \A h \in DOMAIN nixfile : nixfile[h] \in {Truncated} \cup {ExprOf(d) : d \in Alike(h)}
    /\ \A h \in DOMAIN cache : cache[h] \in {Truncated} \cup {PathTo(d) : d \in Sound(h)}

\* The expression a job has read, and the environment it has, are of dependencies with the
\* hash of its own; it goes from one file to the next, and has a home from its beginning to
\* its end.
BuildOk(j) ==
    LET deps == work[j].deps
    IN  /\ DOMAIN deps \subseteq ToSet(SourceOrder)
        /\ Needed(deps) => deps \in Asked
        /\ at[j] \in Building \ {"deps"} => Needed(deps)
        /\ file[j] \in 1 .. Len(Files[j]) + 1 /\ (j \notin Local => file[j] = 1)
        /\ at[j] \in Building \cup {"ready", "step"} => file[j] \in DOMAIN Files[j]
        /\ at[j] = "file" => j \in Local
        /\ at[j] \in {"writing", "build"} => Hash(j) \in DOMAIN nixfile
        /\ at[j] = "building" => seen[j] \in {Truncated} \cup {ExprOf(d) : d \in Alike(Hash(j))}
        /\ at[j] \in {"built", "caching"} => seen[j] \in {ExprOf(d) : d \in Sound(Hash(j))}
        /\ at[j] \in {"ready", "step"} =>
               IF path[j] = NoPath THEN ~Needed(deps)
               ELSE path[j] \in {PathTo(d) : d \in Sound(Hash(j))}
        /\ j \in Local /\ at[j] \notin {"new", "over"} => home \/ j \in ended

BuildInv ==
    /\ ExitInv /\ DiskInv
    /\ DOMAIN path = Job /\ DOMAIN seen = Job
    /\ ended \subseteq Local /\ home \in BOOLEAN /\ moves \in 0 .. MaxMoves
    /\ \A j \in Job : BuildOk(j)

-----------------------------------------------------------------------------

\* The environment built from a file's expression has the packages the file asks for, each
\* from its own source, when no name is bound twice.
LEMMA ContentsAreOwn ==
    ASSUME NEW deps, DOMAIN deps \subseteq ToSet(SourceOrder), Evaluates(NixExpr(deps))
    PROVE  Contents(NixExpr(deps)) = Own(deps)
<1> DEFINE expr == NixExpr(deps)
           listed == Listed(deps)
<1>1. /\ DOMAIN expr.bindings = listed /\ DOMAIN expr.paths = listed
      /\ \A s \in listed : /\ expr.bindings[s] = <<VarName(deps, s), Import(s)>>
                           /\ DOMAIN expr.paths[s] = DOMAIN deps[s]
                           /\ \A i \in DOMAIN deps[s] :
                                  expr.paths[s][i] = <<VarName(deps, s), deps[s][i]>>
  BY DEF NixExpr
<1>2. /\ \A s \in listed : s \in DOMAIN deps
      /\ \A s \in DOMAIN deps : s \in listed \/ deps[s] = <<>>
  BY DEF Listed
<1>3. \A s, t \in listed : VarName(deps, s) = VarName(deps, t) => s = t
  BY <1>1 DEF Evaluates
<1> HIDE DEF expr, listed
<1>4. ASSUME NEW x, x \in Contents(expr) PROVE x \in Own(deps)
  <2>1. PICK b \in Range(expr.bindings) : \E p \in Paths(expr) : p[1] = b[1] /\ x = <<b[2], p[2]>>
    BY <1>4 DEF Contents
  <2>2. PICK p \in Paths(expr) : p[1] = b[1] /\ x = <<b[2], p[2]>>
    BY <2>1
  <2>3. PICK s \in listed : b = <<VarName(deps, s), Import(s)>>
    BY <1>1, <2>1 DEF Range
  <2>4. PICK t \in listed : \E i \in DOMAIN deps[t] : p = <<VarName(deps, t), deps[t][i]>>
    BY <1>1, <2>2 DEF Paths, ToSet
  <2>5. PICK i \in DOMAIN deps[t] : p = <<VarName(deps, t), deps[t][i]>>
    BY <2>4
  <2>6. s = t
    BY <1>3, <2>2, <2>3, <2>5
  <2>7. x = <<Import(t), deps[t][i]>>
    BY <2>2, <2>3, <2>5, <2>6
  <2>8. deps[t][i] \in ToSet(deps[t])
    BY DEF ToSet
  <2> QED
    BY <1>2, <2>7, <2>8 DEF Own
<1>5. ASSUME NEW x, x \in Own(deps) PROVE x \in Contents(expr)
  <2>1. PICK s \in DOMAIN deps : \E p \in ToSet(deps[s]) : x = <<Import(s), p>>
    BY <1>5 DEF Own
  <2>2. PICK p \in ToSet(deps[s]) : x = <<Import(s), p>>
    BY <2>1
  <2>3. PICK i \in DOMAIN deps[s] : p = deps[s][i]
    BY DEF ToSet
  <2>4. s \in listed
    BY <1>2
  <2>5. <<VarName(deps, s), Import(s)>> \in Range(expr.bindings)
    BY <1>1, <2>4 DEF Range
  <2>6. <<VarName(deps, s), p>> \in Paths(expr)
    BY <1>1, <2>3, <2>4 DEF Paths, ToSet
  <2> QED
    BY <2>2, <2>5, <2>6 DEF Contents
<1> QED
  BY <1>4, <1>5 DEF expr

\* Who needs nothing asks for nothing.
LEMMA NothingIsOwn ==
    ASSUME NEW deps, DOMAIN deps \subseteq ToSet(SourceOrder), ~Needed(deps)
    PROVE  Own(deps) = {}
<1>1. \A s \in DOMAIN deps : deps[s] = <<>>
  BY DEF Needed, Listed
<1>2. ToSet(<<>>) = {}
  BY DEF ToSet
<1> QED
  BY <1>1, <1>2 DEF Own

\* The sources and the shape of what a file asks for.
LEMMA FilesAreSources ==
    ASSUME NEW j \in Job, NEW i \in DOMAIN Files[j]
    PROVE  DOMAIN Files[j][i].yaml.deps \subseteq ToSet(SourceOrder)
  BY BuildsAssumption

\* Who works side by side never changes, nor does what they ask for.
LEMMA SameGroup ==
    ASSUME group' = group
    PROVE  Asked' = Asked /\ \A h : Alike(h)' = Alike(h) /\ Sound(h)' = Sound(h)
<1>1. Asked' = Asked
  BY DEF Asked
<1>2. \A h : Alike(h)' = Alike(h)
  BY <1>1 DEF Alike
<1> QED
  BY <1>1, <1>2 DEF Sound

\* A step of one job keeps the invariant if it keeps it for this job and for the files.
LEMMA OneBuild ==
    ASSUME BuildInv, ExitInv', NEW j \in group, group' = group, DiskInv', BuildOk(j)',
           DOMAIN path' = Job, DOMAIN seen' = Job,
           ended' \subseteq Local, home' \in BOOLEAN, moves' \in 0 .. MaxMoves,
           \A q \in Job \ {j} : /\ at'[q] = at[q] /\ file'[q] = file[q] /\ work'[q] = work[q]
                                /\ path'[q] = path[q] /\ seen'[q] = seen[q],
           DOMAIN nixfile \subseteq DOMAIN nixfile',
           \A q \in Local : (home \/ q \in ended) => (home' \/ q \in ended')
    PROVE  BuildInv'
<1>1. ASSUME NEW q \in Job, q # j PROVE BuildOk(q)'
  <2>1. BuildOk(q)
    BY DEF BuildInv
  <2>2. Hash(q)' = Hash(q)
    BY <1>1 DEF Hash
  <2> QED
    BY <1>1, <2>1, <2>2, SameGroup DEF BuildOk
<1> QED
  BY <1>1 DEF BuildInv

\* Every error is counted.
LEMMA MovesCounted ==
    ASSUME BuildInv, Move \/ NoMove
    PROVE  moves' \in 0 .. MaxMoves
  BY BuildsAssumption DEF BuildInv, Move, NoMove

\* A job that gives up has its next file, or is over.
LEMMA GivenUp ==
    ASSUME BuildInv, ExitInv', NEW j \in group, GiveUp(j), at[j] \in Building \cup {"step"},
           Move \/ NoMove, UNCHANGED <<group, work, path, seen, disk>>
    PROVE  BuildInv'
<1>1. /\ j \in Job /\ BuildOk(j) /\ at \in [Job -> Place] /\ file \in [Job -> Nat \ {0}]
  BY DEF BuildInv, ExitInv, Types
<1>2. UNCHANGED <<work, path, seen, nixfile, cache, store, home, ended>>
  BY DEF disk
<1>3. /\ \A q \in Job \ {j} : at'[q] = at[q] /\ file'[q] = file[q]
      /\ \/ j \in Local /\ at'[j] = "file" /\ file'[j] = file[j] + 1
         \/ j \notin Local /\ at'[j] = "over" /\ file'[j] = file[j]
  BY <1>1 DEF GiveUp, NextFile, Goto
<1>4. file[j] \in DOMAIN Files[j] /\ at[j] \notin {"new", "over"}
  BY <1>1 DEF BuildOk, Building
<1>5. file'[j] \in 1 .. Len(Files[j]) + 1
  BY <1>1, <1>3, <1>4, FilesAreSequences
<1>6. BuildOk(j)'
  BY <1>1, <1>2, <1>3, <1>4, <1>5, SameGroup DEF BuildOk, Building
<1>7. DiskInv'
  BY <1>2, SameGroup DEF BuildInv, DiskInv
<1> QED
  BY <1>2, <1>3, <1>6, <1>7, MovesCounted, OneBuild DEF BuildInv

\* A job takes a step on the way to its environment, or with it.
LEMMA GoneOn ==
    ASSUME BuildInv, ExitInv', NEW j \in group, NEW p \in Place, Goto(j, p), DiskInv',
           at[j] \in Building \cup {"ready", "step"}, p \in Building \cup {"ready", "step"},
           Move \/ NoMove, UNCHANGED <<group, file, work, home, ended>>,
           p # "deps" /\ p \in Building => Needed(work[j].deps),
           path' = path \/ \E x : path' = [path EXCEPT ![j] = x],
           seen' = seen \/ \E x : seen' = [seen EXCEPT ![j] = x],
           DOMAIN nixfile \subseteq DOMAIN nixfile',
           p \in {"writing", "build"} => Hash(j) \in DOMAIN nixfile',
           p = "building" => seen'[j] \in {Truncated} \cup {ExprOf(d) : d \in Alike(Hash(j))},
           p \in {"built", "caching"} => seen'[j] \in {ExprOf(d) : d \in Sound(Hash(j))},
           p \in {"ready", "step"} =>
               IF path'[j] = NoPath THEN ~Needed(work[j].deps)
               ELSE path'[j] \in {PathTo(d) : d \in Sound(Hash(j))}
    PROVE  BuildInv'
<1>1. j \in Job /\ BuildOk(j) /\ at \in [Job -> Place]
  BY DEF BuildInv, ExitInv, Types
<1>2. at'[j] = p /\ \A q \in Job \ {j} : at'[q] = at[q]
  BY <1>1 DEF Goto
<1>3. /\ DOMAIN path' = Job /\ DOMAIN seen' = Job
      /\ \A q \in Job \ {j} : path'[q] = path[q] /\ seen'[q] = seen[q]
  BY DEF BuildInv
<1>4. BuildOk(j)'
  <2>1. Hash(j)' = Hash(j)
    BY DEF Hash
  <2> QED
    BY <1>1, <1>2, <2>1, SameGroup DEF BuildOk, Building
<1> QED
  BY <1>2, <1>3, <1>4, MovesCounted, OneBuild DEF BuildInv

\* A file is emptied, or written, which is named by the hash of what its job needs.
LEMMA WriteOne ==
    ASSUME BuildInv, NEW j \in group, group' = group, NEW c,
           \/ /\ Write(nixfile, j, c) /\ cache' = cache
              /\ c \in {Truncated} \cup {ExprOf(d) : d \in Alike(Hash(j))}
           \/ /\ Write(cache, j, c) /\ nixfile' = nixfile
              /\ c \in {Truncated} \cup {PathTo(d) : d \in Sound(Hash(j))}
    PROVE  DiskInv' /\ DOMAIN nixfile \subseteq DOMAIN nixfile'
<1> DEFINE h0 == Hash(j)
<1>1. DiskInv
  BY DEF BuildInv
<1>2. CASE Write(nixfile, j, c) /\ cache' = cache
           /\ c \in {Truncated} \cup {ExprOf(d) : d \in Alike(h0)}
  <2>1. /\ DOMAIN nixfile' = DOMAIN nixfile \cup {h0}
        /\ \A h \in DOMAIN nixfile' : nixfile'[h] = IF h = h0 THEN c ELSE nixfile[h]
    BY <1>2 DEF Write
  <2> HIDE DEF h0
  <2> QED
    BY <1>1, <1>2, <2>1, SameGroup DEF DiskInv
<1>3. CASE Write(cache, j, c) /\ nixfile' = nixfile
           /\ c \in {Truncated} \cup {PathTo(d) : d \in Sound(h0)}
  <2>1. /\ DOMAIN cache' = DOMAIN cache \cup {h0}
        /\ \A h \in DOMAIN cache' : cache'[h] = IF h = h0 THEN c ELSE cache[h]
    BY <1>3 DEF Write
  <2> HIDE DEF h0
  <2> QED
    BY <1>1, <1>3, <2>1, SameGroup DEF DiskInv
<1> QED
  BY <1>2, <1>3

\* The steps of build_nix_env keep what is read and built in a file with the job's hash.
LEMMA BuildsOwn ==
    ASSUME BuildInv, ExitInv', NEW j \in group,
           \/ LookUp(j) \/ WriteExpr(j) \/ WriteExprEnds(j) \/ WriteFails(j) \/ NixReads(j)
           \/ NixBuilds(j) \/ NixFails(j) \/ CheckPath(j) \/ WritePath(j)
    PROVE  BuildInv'
<1> DEFINE deps == work[j].deps
           h == Hash(j)
<1>0. group' = group
  BY DEF LookUp, WriteExpr, WriteExprEnds, WriteFails, NixReads, NixBuilds, NixFails, CheckPath,
         WritePath
<1>1. /\ j \in Job /\ BuildOk(j) /\ DiskInv /\ DOMAIN path = Job /\ DOMAIN seen = Job
  BY DEF BuildInv, ExitInv, Types
<1>2. UNCHANGED <<nixfile, cache>> => DiskInv' /\ DOMAIN nixfile \subseteq DOMAIN nixfile'
  BY <1>0, <1>1, SameGroup DEF DiskInv
<1>2a. at[j] \in Building \ {"deps"} => Needed(deps)
  BY <1>1 DEF BuildOk
<1>3. CASE LookUp(j)
  <2>1. /\ at[j] = "deps" /\ UNCHANGED <<file, work, seen, nixfile, cache, home, ended>> /\ NoMove
    BY <1>3 DEF LookUp, At, disk, NoMove
  <2>2. CASE ~Needed(deps) /\ Ready(j, NoPath)
    <3>1. Goto(j, "ready") /\ path' = [path EXCEPT ![j] = NoPath] /\ path'[j] = NoPath
      BY <1>1, <2>2 DEF Ready
    <3> QED
      BY <1>0, <1>2, <2>1, <2>2, <3>1, GoneOn DEF Building, Place
  <2>3. CASE /\ Written(cache, j) \in {<<"path", e>> : e \in store}
             /\ Ready(j, Written(cache, j))
    <3>1. PICK e \in store : Written(cache, j) = <<"path", e>>
      BY <2>3
    <3>2. Written(cache, j) # <<"absent">> /\ Written(cache, j) # Truncated
      BY <3>1 DEF Truncated
    <3>3. h \in DOMAIN cache /\ Written(cache, j) = cache[h]
      BY <3>2 DEF Written
    <3>4. cache[h] \in {PathTo(d) : d \in Sound(h)}
      BY <1>1, <3>2, <3>3 DEF DiskInv
    <3>5. /\ Goto(j, "ready") /\ path' = [path EXCEPT ![j] = cache[h]]
          /\ path'[j] = cache[h]
      BY <1>1, <2>3, <3>3 DEF Ready
    <3>6. \A d : PathTo(d) # NoPath
      BY DEF PathTo, NoPath
    <3> HIDE DEF h
    <3>7. path'[j] # NoPath /\ path'[j] \in {PathTo(d) : d \in Sound(h)}
      BY <3>4, <3>5, <3>6
    <3> QED
      BY <1>0, <1>2, <2>1, <3>5, <3>7, GoneOn DEF Building, Place, h
  <2>4. CASE Needed(deps) /\ Goto(j, "write") /\ UNCHANGED path
    BY <1>0, <1>2, <2>1, <2>4, GoneOn DEF Building, Place
  <2> QED
    BY <1>3, <2>2, <2>3, <2>4 DEF LookUp
<1>4. CASE WriteExpr(j)
  <2>1. /\ at[j] = "write" /\ Goto(j, "writing") /\ Write(nixfile, j, Truncated) /\ NoMove
        /\ UNCHANGED <<file, work, path, seen, cache, home, ended>>
    BY <1>4 DEF WriteExpr, At
  <2>2. DiskInv' /\ DOMAIN nixfile \subseteq DOMAIN nixfile'
    BY <1>0, <2>1, WriteOne
  <2>3. h \in DOMAIN nixfile' /\ Needed(deps)
    BY <1>2a, <2>1 DEF Write, Building
  <2> QED
    BY <1>0, <2>1, <2>2, <2>3, GoneOn DEF Building, Place
<1>5. CASE WriteExprEnds(j)
  <2>1. /\ at[j] = "writing" /\ Goto(j, "build") /\ Write(nixfile, j, ExprOf(deps)) /\ NoMove
        /\ UNCHANGED <<file, work, path, seen, cache, home, ended>>
    BY <1>5 DEF WriteExprEnds, At, ExprOf, NoMove
  <2>2. Needed(deps) /\ deps \in Alike(h)
    BY <1>2a, <1>1, <2>1 DEF BuildOk, Building, Alike, Hash
  <2>3. DiskInv' /\ DOMAIN nixfile \subseteq DOMAIN nixfile'
    BY <1>0, <2>1, <2>2, WriteOne
  <2>4. h \in DOMAIN nixfile'
    BY <2>1 DEF Write
  <2> QED
    BY <1>0, <2>1, <2>2, <2>3, <2>4, GoneOn DEF Building, Place
<1>6. CASE NixReads(j)
  <2>1. /\ at[j] = "build" /\ Goto(j, "building") /\ NoMove
        /\ seen' = [seen EXCEPT ![j] = Written(nixfile, j)]
        /\ UNCHANGED <<file, work, path, nixfile, cache, home, ended>>
    BY <1>6 DEF NixReads, At, disk, NoMove
  <2>2. Written(nixfile, j) \in {Truncated} \cup {ExprOf(d) : d \in Alike(h)}
    BY <1>1, <2>1 DEF BuildOk, DiskInv, Written
  <2>3. seen'[j] \in {Truncated} \cup {ExprOf(d) : d \in Alike(h)}
    BY <1>1, <2>1, <2>2
  <2>4. Needed(deps)
    BY <1>2a, <2>1 DEF Building
  <2> QED
    BY <1>0, <1>2, <2>1, <2>3, <2>4, GoneOn DEF Building, Place
<1>7. CASE NixBuilds(j)
  <2>1. /\ at[j] = "building" /\ Goto(j, "built") /\ NoMove
        /\ seen[j] # Truncated /\ Evaluates(seen[j][2])
        /\ UNCHANGED <<file, work, path, seen, nixfile, cache, home, ended>>
    BY <1>7 DEF NixBuilds, At, NoMove
  <2>2. seen'[j] \in {ExprOf(d) : d \in Sound(h)}
    <3>1. PICK d \in Alike(h) : seen[j] = ExprOf(d)
      BY <1>1, <2>1 DEF BuildOk
    <3>2. ExprOf(d)[2] = NixExpr(d)
      BY DEF ExprOf
    <3>3. d \in Sound(h)
      BY <2>1, <3>1, <3>2 DEF Sound
    <3> QED
      BY <2>1, <3>1, <3>3
  <2>3. Needed(deps)
    BY <1>2a, <2>1 DEF Building
  <2> QED
    BY <1>0, <1>2, <2>1, <2>2, <2>3, GoneOn DEF Building, Place
<1>8. CASE WriteFails(j) \/ NixFails(j)
  <2>1. /\ at[j] \in Building /\ GiveUp(j) /\ (Move \/ NoMove)
        /\ UNCHANGED <<work, path, seen, disk>>
    BY <1>8 DEF WriteFails, NixFails, At, Building
  <2> QED
    BY <1>0, <2>1, GivenUp
<1>9. CASE CheckPath(j)
  <2>1. /\ at[j] = "built" /\ NoMove /\ UNCHANGED <<work, path, seen, nixfile, store, home, ended>>
    BY <1>9 DEF CheckPath, At, NoMove
  <2>2. CASE Goto(j, "caching") /\ Write(cache, j, Truncated) /\ UNCHANGED <<failed, file>>
    <3>1. DiskInv' /\ DOMAIN nixfile \subseteq DOMAIN nixfile'
      BY <1>0, <2>1, <2>2, WriteOne
    <3>2. seen'[j] \in {ExprOf(d) : d \in Sound(h)} /\ Needed(deps)
      BY <1>2a, <1>1, <2>1 DEF BuildOk, Building
    <3> QED
      BY <1>0, <2>1, <2>2, <3>1, <3>2, GoneOn DEF Building, Place
  <2>3. CASE GiveUp(j) /\ UNCHANGED cache
    BY <1>0, <2>1, <2>3, GivenUp DEF Building, disk
  <2> QED
    BY <1>9, <2>2, <2>3 DEF CheckPath
<1>10. CASE WritePath(j)
  <2>1. /\ at[j] = "caching" /\ UNCHANGED <<file, work, seen, nixfile, home, ended>>
        /\ (Move \/ NoMove) /\ Goto(j, "ready")
        /\ path' = [path EXCEPT ![j] = <<"path", seen[j][2]>>]
        /\ Write(cache, j, <<"path", seen[j][2]>>) \/ UNCHANGED cache
    BY <1>10 DEF WritePath, At, Ready
  <2>2. PICK d \in Sound(h) : seen[j] = ExprOf(d)
    BY <1>1, <2>1 DEF BuildOk
  <2>3. <<"path", seen[j][2]>> = PathTo(d) /\ PathTo(d) # NoPath
    BY <2>2 DEF ExprOf, PathTo, NoPath
  <2>4. DiskInv' /\ DOMAIN nixfile \subseteq DOMAIN nixfile'
    BY <1>0, <1>2, <2>1, <2>2, <2>3, WriteOne
  <2>5. path'[j] = PathTo(d)
    BY <1>1, <2>1, <2>3
  <2>6. path'[j] # NoPath /\ path'[j] \in {PathTo(c) : c \in Sound(h)}
    BY <2>2, <2>3, <2>5
  <2> QED
    BY <1>0, <2>1, <2>4, <2>6, GoneOn DEF Building, Place
<1> QED
  BY <1>3, <1>4, <1>5, <1>6, <1>7, <1>8, <1>9, <1>10

\* A job takes a step that leaves its files alone; its new place asks for no environment.
LEMMA SetOut ==
    ASSUME BuildInv, ExitInv', NEW j \in group, NEW p \in {"file", "deps", "over"}, Goto(j, p),
           Move \/ NoMove, UNCHANGED <<group, path, seen, nixfile, cache>>,
           work' = work \/ \E d, s, e :
               /\ DOMAIN d \subseteq ToSet(SourceOrder) /\ (Needed(d) => d \in Asked)
               /\ work' = [work EXCEPT ![j] = [deps |-> d, steps |-> s, env |-> e]],
           file' = file \/ file' = [file EXCEPT ![j] = @ + 1],
           file'[j] \in 1 .. Len(Files[j]) + 1 /\ (j \notin Local => file'[j] = 1),
           p = "deps" => file'[j] \in DOMAIN Files[j],
           p = "file" => j \in Local,
           ended' \subseteq Local, home' \in BOOLEAN,
           j \in Local /\ p # "over" => home' \/ j \in ended',
           \A q \in Local : (home \/ q \in ended) => (home' \/ q \in ended')
    PROVE  BuildInv'
<1>1. /\ j \in Job /\ BuildOk(j) /\ at \in [Job -> Place] /\ DOMAIN work = Job
      /\ file \in [Job -> Nat \ {0}]
  BY DEF BuildInv, ExitInv, Types
<1>2. /\ at'[j] = p /\ p \notin {"building", "built", "caching", "ready", "step", "writing", "build"}
      /\ \A q \in Job \ {j} : at'[q] = at[q] /\ file'[q] = file[q]
  BY <1>1 DEF Goto
<1>3. /\ DOMAIN work'[j].deps \subseteq ToSet(SourceOrder)
      /\ Needed(work'[j].deps) => work'[j].deps \in Asked
      /\ \A q \in Job \ {j} : work'[q] = work[q]
  <2>1. CASE work' = work
    BY <1>1, <2>1 DEF BuildOk
  <2>2. ASSUME NEW d, NEW s, NEW e, DOMAIN d \subseteq ToSet(SourceOrder), Needed(d) => d \in Asked,
               work' = [work EXCEPT ![j] = [deps |-> d, steps |-> s, env |-> e]]
        PROVE  work'[j].deps = d /\ \A q \in Job \ {j} : work'[q] = work[q]
    BY <1>1, <2>2
  <2> QED
    BY <2>1, <2>2
<1>4. BuildOk(j)'
  BY <1>1, <1>2, <1>3, SameGroup DEF BuildOk, Building
<1>5. DiskInv'
  BY SameGroup DEF BuildInv, DiskInv
<1> QED
  BY <1>2, <1>3, <1>4, <1>5, MovesCounted, OneBuild DEF BuildInv

\* The other steps of a job.
LEMMA OtherOwn ==
    ASSUME BuildInv, ExitInv', NEW j \in group,
           \/ InitWorkflow(j) \/ Begin(j) \/ OpenFile(j) \/ End(j) \/ RunStep(j) \/ StepEnds(j)
    PROVE  BuildInv'
<1>0. group' = group
  BY DEF InitWorkflow, Begin, OpenFile, End, RunStep, StepEnds
<1>1. /\ j \in Job /\ BuildOk(j) /\ DiskInv /\ file \in [Job -> Nat \ {0}] /\ ended \subseteq Local
      /\ home \in BOOLEAN /\ DOMAIN Files[j] = 1 .. Len(Files[j]) /\ Len(Files[j]) \in Nat
      /\ (j \notin Local => Len(Files[j]) = 1)
  BY FilesAreSequences, BuildsAssumption DEF BuildInv, ExitInv, Types
<1>2. /\ file[j] \in 1 .. Len(Files[j]) + 1 /\ (j \notin Local => file[j] = 1)
      /\ j \in Local /\ at[j] \notin {"new", "over"} => home \/ j \in ended
  BY <1>1 DEF BuildOk
<1>3. CASE InitWorkflow(j)
  <2> DEFINE wf == Current(j)
             sha == Sha(trigger[j])
  <2>1. /\ j \notin Local /\ UNCHANGED <<file, path, seen, nixfile, cache, home, ended>> /\ NoMove
    BY <1>3 DEF InitWorkflow, disk, NoMove
  <2>2. CASE Goto(j, "over") /\ work' = work
    BY <1>0, <1>1, <1>2, <2>1, <2>2, SetOut
  <2>3. CASE /\ Goto(j, "deps")
             /\ work' = [work EXCEPT ![j] =
                            [deps |-> wf.yaml.deps, steps |-> WorkflowSteps(wf, sha),
                             env |-> Filled(YamlEnv(wf.yaml), TriggerEnv(trigger[j]))]]
    <3>1. file[j] \in DOMAIN Files[j]
      <4>1. DOMAIN Files[j] = 1 .. 1 /\ file[j] = 1
        BY <1>1, <1>2, <2>1
      <4> QED
        BY <4>1
    <3>2. DOMAIN wf.yaml.deps \subseteq ToSet(SourceOrder) /\ wf.yaml.deps \in Asked
      BY <1>1, <3>1, FilesAreSources DEF Current, Asked
    <3> HIDE DEF wf, sha
    <3>3. \E d, s, e : /\ DOMAIN d \subseteq ToSet(SourceOrder) /\ (Needed(d) => d \in Asked)
                       /\ work' = [work EXCEPT ![j] = [deps |-> d, steps |-> s, env |-> e]]
      BY <2>3, <3>2
    <3> QED
      BY <1>0, <1>1, <1>2, <2>1, <2>3, <3>1, <3>3, SetOut
  <2> QED
    BY <1>3, <2>2, <2>3 DEF InitWorkflow
<1>4. CASE Begin(j)
  <2>1. j \in Local /\ UNCHANGED <<file, work, path, seen, nixfile, cache>>
    BY <1>4 DEF Begin
  <2>2. CASE home' = TRUE /\ ended' = ended \ {j} /\ Goto(j, "file") /\ NoMove
    BY <1>0, <1>1, <1>2, <2>1, <2>2, SetOut
  <2>3. CASE Goto(j, "over") /\ Move /\ UNCHANGED <<home, ended>>
    BY <1>0, <1>1, <1>2, <2>1, <2>3, SetOut
  <2> QED
    BY <1>4, <2>2, <2>3 DEF Begin
<1>5. CASE OpenFile(j)
  <2> DEFINE yaml == Current(j).yaml
  <2>1. /\ at[j] = "file" /\ file[j] <= Len(Files[j]) /\ (Move \/ NoMove)
        /\ UNCHANGED <<path, seen, nixfile, cache, home, ended>>
    BY <1>5 DEF OpenFile, At, disk
  <2>2. file[j] \in DOMAIN Files[j] /\ file[j] + 1 \in 1 .. Len(Files[j]) + 1
    BY <1>1, <1>2, <2>1
  <2>3. j \in Local
    BY <1>1, <2>1 DEF BuildOk
  <2>4. CASE NextFile(j) /\ work' = work
    <3>1. Goto(j, "file") /\ file' = [file EXCEPT ![j] = @ + 1] /\ file'[j] = file[j] + 1
      BY <1>1, <2>4 DEF NextFile
    <3> QED
      BY <1>0, <1>1, <1>2, <2>1, <2>2, <2>3, <2>4, <3>1, SetOut
  <2>5. CASE /\ Goto(j, "deps") /\ file' = file
             /\ work' = [work EXCEPT ![j] = [deps |-> Part(yaml, "deps", yaml.deps, Empty),
                                              steps |-> UserSteps(yaml),
                                              env |-> Part(yaml, "env", YamlEnv(yaml), Empty)]]
    <3> DEFINE part == Part(yaml, "deps", yaml.deps, Empty)
    <3>1. DOMAIN part \subseteq ToSet(SourceOrder) /\ (Needed(part) => part \in Asked)
      <4>1. DOMAIN yaml.deps \subseteq ToSet(SourceOrder) /\ yaml.deps \in Asked
        BY <1>1, <2>2, FilesAreSources DEF Current, Asked
      <4>2. DOMAIN Empty = {} /\ ~Needed(Empty)
        BY DEF Empty, Needed, Listed
      <4>3. part \in {yaml.deps, Empty}
        BY DEF Part
      <4> HIDE DEF part, yaml
      <4> QED
        BY <4>1, <4>2, <4>3
    <3> HIDE DEF yaml
    <3>2. \E d, s, e : /\ DOMAIN d \subseteq ToSet(SourceOrder) /\ (Needed(d) => d \in Asked)
                       /\ work' = [work EXCEPT ![j] = [deps |-> d, steps |-> s, env |-> e]]
      BY <2>5, <3>1
    <3> QED
      BY <1>0, <1>1, <1>2, <2>1, <2>2, <2>3, <2>5, <3>2, SetOut
  <2> QED
    BY <1>5, <2>4, <2>5 DEF OpenFile
<1>6. CASE End(j)
  <2>1. /\ home' = FALSE /\ ended' = Local /\ Goto(j, "over") /\ NoMove
        /\ UNCHANGED <<file, work, path, seen, nixfile, cache>>
    BY <1>6 DEF End, NoMove
  <2> QED
    BY <1>0, <1>1, <1>2, <2>1, SetOut
<1>7. CASE RunStep(j)
  <2>1. /\ at[j] = "ready" /\ UNCHANGED <<work, path, seen, nixfile, cache, home, ended>> /\ NoMove
        /\ file[j] \in DOMAIN Files[j]
        /\ IF path[j] = NoPath THEN ~Needed(work[j].deps)
           ELSE path[j] \in {PathTo(d) : d \in Sound(Hash(j))}
    BY <1>1, <1>7 DEF RunStep, At, disk, NoMove, BuildOk
  <2>2. CASE j \in Local /\ NextFile(j)
    <3>1. Goto(j, "file") /\ file' = [file EXCEPT ![j] = @ + 1] /\ file'[j] = file[j] + 1
      BY <1>1, <2>2 DEF NextFile
    <3>2. file[j] + 1 \in 1 .. Len(Files[j]) + 1
      BY <1>1, <2>1
    <3> QED
      BY <1>0, <1>1, <1>2, <2>1, <2>2, <3>1, <3>2, SetOut
  <2>3. CASE j \notin Local /\ Goto(j, "over") /\ file' = file
    BY <1>0, <1>1, <1>2, <2>1, <2>3, SetOut
  <2>4. CASE Goto(j, "step") /\ file' = file
    <3>1. DiskInv' /\ DOMAIN nixfile \subseteq DOMAIN nixfile'
      BY <1>0, <1>1, <2>1, SameGroup DEF DiskInv
    <3> QED
      BY <1>0, <2>1, <2>4, <3>1, GoneOn DEF Building, Place
  <2> QED
    BY <1>7, <2>2, <2>3, <2>4 DEF RunStep
<1>8. CASE StepEnds(j)
  <2>1. /\ at[j] = "step" /\ UNCHANGED <<work, path, seen, disk>> /\ (Move \/ NoMove)
        /\ IF path[j] = NoPath THEN ~Needed(work[j].deps)
           ELSE path[j] \in {PathTo(d) : d \in Sound(Hash(j))}
    BY <1>1, <1>8 DEF StepEnds, At, BuildOk
  <2>2. CASE GiveUp(j)
    BY <1>0, <2>1, <2>2, GivenUp
  <2>3. CASE Goto(j, "ready") /\ file' = file
    <3>1. DiskInv' /\ DOMAIN nixfile \subseteq DOMAIN nixfile' /\ UNCHANGED <<home, ended>>
      BY <1>0, <1>1, <2>1, SameGroup DEF DiskInv, disk
    <3> QED
      BY <1>0, <2>1, <2>3, <3>1, GoneOn DEF Building, Place
  <2> QED
    BY <1>8, <2>2, <2>3 DEF StepEnds
<1> QED
  BY <1>3, <1>4, <1>5, <1>6, <1>7, <1>8

\* At first there is no file and no environment.
LEMMA InitBuildInv == Init => BuildInv
<1> SUFFICES ASSUME Init PROVE BuildInv
  OBVIOUS
<1>1. DiskInv
  BY DEF Init, DiskInv, Empty
<1>2. ASSUME NEW j \in Job PROVE BuildOk(j)
  <2>1. at[j] = "new" /\ file[j] = 1 /\ work[j].deps = Empty /\ ~Needed(Empty)
    BY DEF Init, Needed, Listed, Empty
  <2>2. 1 \in 1 .. Len(Files[j]) + 1
    BY FilesAreSequences
  <2> QED
    BY <2>1, <2>2 DEF BuildOk, Building, Empty
<1>3. DOMAIN path = Job /\ DOMAIN seen = Job /\ ended \subseteq Local /\ home \in BOOLEAN
  BY DEF Init
<1>4. moves \in 0 .. MaxMoves
  BY BuildsAssumption DEF Init
<1> QED
  BY <1>1, <1>2, <1>3, <1>4, InitExitInv DEF BuildInv

\* Every step keeps it.
LEMMA NextBuildInv == BuildInv /\ [Next]_vars => BuildInv'
<1> SUFFICES ASSUME BuildInv, [Next]_vars PROVE BuildInv'
  OBVIOUS
<1>1. ExitInv'
  BY NextExitInv DEF BuildInv
<1>2. ASSUME NEW j \in group,
             \/ LookUp(j) \/ WriteExpr(j) \/ WriteExprEnds(j) \/ WriteFails(j) \/ NixReads(j)
             \/ NixBuilds(j) \/ NixFails(j) \/ CheckPath(j) \/ WritePath(j)
      PROVE  BuildInv'
  BY <1>1, <1>2, BuildsOwn
<1>3. ASSUME NEW j \in group,
             InitWorkflow(j) \/ Begin(j) \/ OpenFile(j) \/ End(j) \/ RunStep(j) \/ StepEnds(j)
      PROVE  BuildInv'
  BY <1>1, <1>3, OtherOwn
<1>4. CASE CollectGarbage \/ UNCHANGED vars
  <2>1. /\ UNCHANGED <<group, at, file, work, path, seen, nixfile, cache, home, ended>>
        /\ Move \/ NoMove
    BY <1>4 DEF CollectGarbage, vars, job, disk, NoMove
  <2>2. DiskInv'
    BY <2>1, SameGroup DEF BuildInv, DiskInv
  <2>3. ASSUME NEW j \in Job PROVE BuildOk(j)'
    <3>1. BuildOk(j) /\ Hash(j)' = Hash(j)
      BY <2>1 DEF BuildInv, Hash
    <3> QED
      BY <2>1, <3>1, SameGroup DEF BuildOk
  <2> QED
    BY <1>1, <2>1, <2>2, <2>3, MovesCounted DEF BuildInv
<1> QED
  BY <1>2, <1>3, <1>4 DEF Next

\* What is in the shared files is of dependencies with the hash they are named by, and each
\* job has read and built what a file with the hash of its own asks for.
THEOREM BuildInvariant == Spec => []BuildInv
  BY InitBuildInv, NextBuildInv, PTL DEF Spec

\* The steps of a workflow find the packages its own file asks for, whoever wrote the shared
\* files meanwhile, unless other dependencies make the same bytes; and local steps have a home, unless another invocation removed it.
THEOREM EnvironmentIsOwn == Spec => []EnvIsOwn
<1>1. BuildInv => EnvIsOwn
  <2> SUFFICES ASSUME BuildInv PROVE EnvIsOwn
    OBVIOUS
  <2>1. TypeOK
    BY DEF BuildInv, ExitInv, Types, TypeOK, BuildOk, Place, Places, Building
  <2>2. ASSUME NEW j \in group, at[j] \in {"ready", "step"}
        PROVE  /\ Confused(work[j].deps) \/
                  IF path[j] = NoPath THEN Own(work[j].deps) = {}
                  ELSE Contents(path[j][2]) = Own(work[j].deps)
               /\ j \in Local => home \/ j \in ended
    <3>1. BuildOk(j)
      BY DEF BuildInv, ExitInv, Types
    <3>2. PICK deps : deps = work[j].deps
      OBVIOUS
    <3>3. CASE path[j] = NoPath
      BY <2>2, <3>1, <3>2, <3>3, NothingIsOwn DEF BuildOk
    <3>4. CASE path[j] # NoPath
      <4>1. PICK d \in Sound(Hash(j)) : path[j] = PathTo(d)
        BY <2>2, <3>1, <3>4 DEF BuildOk
      <4>2. d \in Asked /\ Fed(d) = Fed(deps) /\ Evaluates(NixExpr(d)) /\ path[j][2] = NixExpr(d)
        BY <3>2, <4>1 DEF Sound, Alike, Hash, ContentHash, PathTo
      <4>3. d = deps \/ Confused(deps)
        BY <4>2 DEF Confused, Asked
      <4>4. DOMAIN deps \subseteq ToSet(SourceOrder) /\ (j \in Local => home \/ j \in ended)
        BY <2>2, <3>1, <3>2 DEF BuildOk
      <4>5. d = deps => Contents(NixExpr(d)) = Own(deps)
        BY <4>2, <4>4, ContentsAreOwn
      <4> QED
        BY <3>2, <3>4, <4>2, <4>3, <4>4, <4>5
    <3> QED
      BY <3>3, <3>4
  <2> QED
    BY <2>1, <2>2 DEF EnvIsOwn
<1> QED
  BY <1>1, BuildInvariant, PTL

-----------------------------------------------------------------------------
(* Variables                                                               *)

\* The environment a file is run with, before the process and the secrets add to it.
EnvOf(j) ==
    LET yaml == Current(j).yaml
    IN  IF j \in Local THEN Part(yaml, "env", YamlEnv(yaml), Empty)
        ELSE Filled(YamlEnv(yaml), TriggerEnv(trigger[j]))

VarsOk(j) ==
    /\ at[j] = "file" => j \in Local
    /\ at[j] \in Building \cup {"ready", "step"} =>
           /\ work[j].env = EnvOf(j)
           /\ j \notin Local => work[j].steps = WorkflowSteps(Current(j), Sha(trigger[j]))
    /\ at[j] = "step" => given[j] = StepEnv(j)

VarsInv ==
    /\ ExitInv /\ DOMAIN path = Job /\ DOMAIN given = Job
    /\ trigger \in [group \ Local -> {Parsed(r) : r \in Triggers}]
    /\ \A j \in group : VarsOk(j)

-----------------------------------------------------------------------------

\* A step of one job that keeps the invariant for it keeps it for all.
LEMMA OneVars ==
    ASSUME VarsInv, ExitInv', NEW j \in group, UNCHANGED <<group, trigger>>,
           DOMAIN path' = Job, DOMAIN given' = Job,
           \A q \in Job \ {j} : /\ at'[q] = at[q] /\ file'[q] = file[q] /\ work'[q] = work[q]
                                /\ path'[q] = path[q] /\ given'[q] = given[q],
           VarsOk(j)'
    PROVE  VarsInv'
<1>1. ASSUME NEW q \in group, q # j PROVE VarsOk(q)'
  <2>1. VarsOk(q) /\ q \in Job \ {j}
    BY <1>1 DEF VarsInv, ExitInv, Types
  <2> QED
    BY <1>1, <2>1 DEF VarsOk, EnvOf, StepEnv, PathVar, Current
<1> QED
  BY <1>1 DEF VarsInv

\* A job that is not on the way to its environment, nor has it, has no variables yet.
LEMMA NoVars ==
    ASSUME VarsInv, ExitInv', NEW j \in group, NEW p \in {"file", "over"}, Goto(j, p),
           p = "file" => j \in Local, UNCHANGED <<group, trigger, work, path, given>>,
           file' = file \/ file' = [file EXCEPT ![j] = @ + 1]
    PROVE  VarsInv'
<1>1. j \in Job /\ at \in [Job -> Place] /\ file \in [Job -> Nat \ {0}]
  BY DEF VarsInv, ExitInv, Types
<1>2. at'[j] = p /\ \A q \in Job \ {j} : at'[q] = at[q] /\ file'[q] = file[q]
  BY <1>1 DEF Goto
<1>3. VarsOk(j)'
  BY <1>2 DEF VarsOk, Building
<1> QED
  BY <1>2, <1>3, OneVars DEF VarsInv

\* A job that goes on with its file keeps its variables.
LEMMA SameVars ==
    ASSUME VarsInv, ExitInv', NEW j \in group, NEW p \in Building \cup {"ready", "step"},
           at[j] \in Building \cup {"ready", "step"}, Goto(j, p),
           UNCHANGED <<group, trigger, file, work>>,
           path' = path \/ (p # "step" /\ \E x : path' = [path EXCEPT ![j] = x]),
           IF p = "step" THEN given' = [given EXCEPT ![j] = StepEnv(j)] /\ path' = path
           ELSE given' = given
    PROVE  VarsInv'
<1>1. j \in Job /\ at \in [Job -> Place] /\ DOMAIN given = Job /\ DOMAIN path = Job /\ VarsOk(j)
  BY DEF VarsInv, ExitInv, Types
<1>2. /\ at'[j] = p /\ DOMAIN given' = Job /\ DOMAIN path' = Job
      /\ \A q \in Job \ {j} : at'[q] = at[q] /\ path'[q] = path[q] /\ given'[q] = given[q]
  <2>1. at'[j] = p /\ \A q \in Job \ {j} : at'[q] = at[q]
    BY <1>1 DEF Goto
  <2>2. DOMAIN given' = Job /\ \A q \in Job \ {j} : given'[q] = given[q]
    BY <1>1
  <2>3. \A q \in Job \ {j} : path'[q] = path[q]
    BY <1>1
  <2>4. DOMAIN path' = Job
    BY <1>1
  <2> QED
    BY <2>1, <2>2, <2>3, <2>4
<1>3. EnvOf(j)' = EnvOf(j) /\ Current(j)' = Current(j)
  BY DEF EnvOf, Current
<1>4. p = "step" => given'[j] = StepEnv(j)'
  BY <1>1 DEF StepEnv, PathVar
<1>5. VarsOk(j)'
  BY <1>1, <1>2, <1>3, <1>4 DEF VarsOk, Building
<1> QED
  BY <1>2, <1>5, OneVars

\* Beginning with a file.
LEMMA FirstVars ==
    ASSUME VarsInv, ExitInv', NEW j \in group, Goto(j, "deps"), NEW d, NEW s,
           UNCHANGED <<group, trigger, file, path, given>>,
           work' = [work EXCEPT ![j] = [deps |-> d, steps |-> s, env |-> EnvOf(j)]],
           j \notin Local => s = WorkflowSteps(Current(j), Sha(trigger[j]))
    PROVE  VarsInv'
<1>1. j \in Job /\ at \in [Job -> Place] /\ DOMAIN work = Job /\ DOMAIN given = Job
      /\ DOMAIN path = Job
  BY DEF VarsInv, ExitInv, Types
<1>2. /\ at'[j] = "deps"
      /\ \A q \in Job \ {j} : at'[q] = at[q] /\ work'[q] = work[q]
  BY <1>1 DEF Goto
<1>3. EnvOf(j)' = EnvOf(j) /\ Current(j)' = Current(j)
  BY DEF EnvOf, Current
<1>4. work'[j].env = EnvOf(j) /\ work'[j].steps = s
  BY <1>1
<1>5. VarsOk(j)'
  BY <1>2, <1>3, <1>4 DEF VarsOk
<1> QED
  BY <1>1, <1>2, <1>5, OneVars

\* Every step of a job keeps the invariant.
LEMMA JobVars ==
    ASSUME VarsInv, ExitInv', NEW j \in group,
           \/ InitWorkflow(j) \/ Begin(j) \/ OpenFile(j) \/ End(j)
           \/ LookUp(j) \/ WriteExpr(j) \/ WriteExprEnds(j) \/ WriteFails(j)
           \/ NixReads(j) \/ NixBuilds(j) \/ NixFails(j) \/ CheckPath(j) \/ WritePath(j)
           \/ RunStep(j) \/ StepEnds(j)
    PROVE  VarsInv'
<1>1. CASE InitWorkflow(j)
  <2> DEFINE wf == Current(j)
             sha == Sha(trigger[j])
  <2>1. j \notin Local /\ UNCHANGED <<group, trigger, file, path, given>>
    BY <1>1 DEF InitWorkflow
  <2>2. CASE /\ Goto(j, "deps")
             /\ work' = [work EXCEPT ![j] =
                            [deps |-> wf.yaml.deps, steps |-> WorkflowSteps(wf, sha),
                             env |-> Filled(YamlEnv(wf.yaml), TriggerEnv(trigger[j]))]]
    <3>1. Filled(YamlEnv(wf.yaml), TriggerEnv(trigger[j])) = EnvOf(j)
      BY <2>1 DEF EnvOf
    <3> QED
      BY <2>1, <2>2, <3>1, FirstVars
  <2>3. CASE Goto(j, "over") /\ work' = work
    BY <2>1, <2>3, NoVars
  <2> QED
    BY <1>1, <2>2, <2>3 DEF InitWorkflow
<1>2. CASE Begin(j) \/ End(j)
  <2>1. /\ UNCHANGED <<group, trigger, file, work, path, given>>
        /\ (Goto(j, "file") /\ j \in Local) \/ Goto(j, "over")
    BY <1>2 DEF Begin, End
  <2> QED
    BY <2>1, NoVars
<1>3. CASE OpenFile(j)
  <2> DEFINE yaml == Current(j).yaml
  <2>1. UNCHANGED <<group, trigger, path, given>> /\ j \in Local
    BY <1>3 DEF OpenFile, At, VarsInv, VarsOk
  <2>2. CASE NextFile(j) /\ work' = work
    BY <2>1, <2>2, NoVars DEF NextFile
  <2>3. CASE /\ Goto(j, "deps") /\ file' = file
             /\ work' = [work EXCEPT ![j] = [deps |-> Part(yaml, "deps", yaml.deps, Empty),
                                              steps |-> UserSteps(yaml),
                                              env |-> Part(yaml, "env", YamlEnv(yaml), Empty)]]
    <3>1. Part(yaml, "env", YamlEnv(yaml), Empty) = EnvOf(j)
      BY <2>1 DEF EnvOf
    <3> QED
      BY <2>1, <2>3, <3>1, FirstVars
  <2> QED
    BY <1>3, <2>2, <2>3 DEF OpenFile
<1>4. CASE LookUp(j) \/ WritePath(j)
  <2>1. /\ UNCHANGED <<group, trigger, file, work, given>>
        /\ at[j] \in {"deps", "caching"}
        /\ \/ Goto(j, "write") /\ path' = path
           \/ Goto(j, "ready") /\ \E x : path' = [path EXCEPT ![j] = x]
    BY <1>4 DEF LookUp, WritePath, At, Ready
  <2> QED
    BY <2>1, SameVars DEF Building
<1>5. CASE WriteExpr(j) \/ WriteExprEnds(j) \/ NixReads(j) \/ NixBuilds(j)
  <2>1. /\ UNCHANGED <<group, trigger, file, work, path, given>>
        /\ at[j] \in Building /\ \E p \in Building : Goto(j, p)
    BY <1>5 DEF WriteExpr, WriteExprEnds, NixReads, NixBuilds, At, Building
  <2>2. PICK p \in Building : Goto(j, p)
    BY <2>1
  <2> QED
    BY <2>1, <2>2, SameVars DEF Building
<1>6. ASSUME GiveUp(j), UNCHANGED <<group, trigger, work, path, given>> PROVE VarsInv'
  <2>1. \/ j \in Local /\ Goto(j, "file") /\ file' = [file EXCEPT ![j] = @ + 1]
        \/ Goto(j, "over") /\ file' = file
    BY <1>6 DEF GiveUp, NextFile
  <2> QED
    BY <1>6, <2>1, NoVars
<1>7. CASE WriteFails(j) \/ NixFails(j)
  BY <1>6, <1>7 DEF WriteFails, NixFails
<1>8. CASE CheckPath(j)
  <2>1. /\ UNCHANGED <<group, trigger, work, path, given>> /\ at[j] \in Building
        /\ (Goto(j, "caching") /\ file' = file) \/ GiveUp(j)
    BY <1>8 DEF CheckPath, At, Building
  <2> QED
    BY <1>6, <2>1, SameVars DEF Building
<1>9. CASE RunStep(j)
  <2>1. /\ UNCHANGED <<group, trigger, work, path>> /\ at[j] = "ready"
        /\ \/ j \in Local /\ NextFile(j) /\ given' = given
           \/ Goto(j, "over") /\ UNCHANGED <<file, given>>
           \/ Goto(j, "step") /\ file' = file /\ given' = [given EXCEPT ![j] = StepEnv(j)]
    BY <1>9 DEF RunStep, At
  <2>2. CASE j \in Local /\ NextFile(j) /\ given' = given
    BY <2>1, <2>2, NoVars DEF NextFile
  <2>3. CASE Goto(j, "over") /\ UNCHANGED <<file, given>>
    BY <2>1, <2>3, NoVars
  <2>4. CASE Goto(j, "step") /\ file' = file /\ given' = [given EXCEPT ![j] = StepEnv(j)]
    BY <2>1, <2>4, SameVars
  <2> QED
    BY <2>1, <2>2, <2>3, <2>4
<1>10. CASE StepEnds(j)
  <2>1. /\ UNCHANGED <<group, trigger, work, path, given>> /\ at[j] = "step"
        /\ (Goto(j, "ready") /\ file' = file) \/ GiveUp(j)
    BY <1>10 DEF StepEnds, At
  <2> QED
    BY <1>6, <2>1, SameVars
<1> QED
  BY <1>1, <1>2, <1>3, <1>4, <1>5, <1>7, <1>8, <1>9, <1>10

\* At first no job has any variables.
LEMMA InitVarsInv == Init => VarsInv
<1> SUFFICES ASSUME Init PROVE VarsInv
  OBVIOUS
<1>1. ASSUME NEW j \in group PROVE VarsOk(j)
  <2>1. at[j] = "new"
    BY InitExitInv DEF Init, ExitInv, Types
  <2> QED
    BY <2>1 DEF VarsOk, Building
<1> QED
  BY <1>1, InitExitInv DEF Init, VarsInv

\* Every step keeps it.
LEMMA NextVarsInv == VarsInv /\ [Next]_vars => VarsInv'
<1> SUFFICES ASSUME VarsInv, [Next]_vars PROVE VarsInv'
  OBVIOUS
<1>1. ExitInv'
  BY NextExitInv DEF VarsInv
<1>2. CASE \E j \in group : \/ InitWorkflow(j) \/ Begin(j) \/ OpenFile(j) \/ End(j)
                            \/ LookUp(j) \/ WriteExpr(j) \/ WriteExprEnds(j) \/ WriteFails(j)
                            \/ NixReads(j) \/ NixBuilds(j) \/ NixFails(j)
                            \/ CheckPath(j) \/ WritePath(j)
                            \/ RunStep(j) \/ StepEnds(j)
  BY <1>1, <1>2, JobVars
<1>3. CASE CollectGarbage \/ UNCHANGED vars
  <2>1. UNCHANGED <<group, trigger, at, file, work, path, given>>
    BY <1>3 DEF CollectGarbage, vars, job
  <2> QED
    BY <1>1, <2>1 DEF VarsInv, VarsOk, EnvOf, StepEnv, PathVar, Current
<1> QED
  BY <1>2, <1>3 DEF Next

\* What a job runs its steps with is made of its current file, its trigger and the secrets.
THEOREM VarsInvariant == Spec => []VarsInv
  BY InitVarsInv, NextVarsInv, PTL DEF Spec

\* What is in one environment over another.
LEMMA Overlay ==
    ASSUME NEW f, NEW g
    PROVE  /\ DOMAIN (f ++ g) = DOMAIN f \cup DOMAIN g
           /\ \A k \in DOMAIN f : (f ++ g)[k] = f[k]
           /\ \A k \in DOMAIN g : k \notin DOMAIN f => (f ++ g)[k] = g[k]
  BY DEF ++

\* A step of the spindle's has five environments over each other.
LEMMA FiveLayers ==
    ASSUME NEW a, NEW b, NEW c, NEW d, NEW e,
           NEW e5, DOMAIN e5 = DOMAIN e, \A k \in DOMAIN e : e5[k] = e[k]
    PROVE  InOrder(a ++ (b ++ c ++ d ++ e), <<a, b, c, d, e5>>)
<1> DEFINE f == a ++ (b ++ c ++ d ++ e)
           layers == <<a, b, c, d, e5>>
<1>1. /\ DOMAIN layers = {1, 2, 3, 4, 5}
      /\ layers[1] = a /\ layers[2] = b /\ layers[3] = c /\ layers[4] = d /\ layers[5] = e5
  OBVIOUS
<1> HIDE DEF f, layers
<1> DEFINE bc == b ++ c
           bcd == bc ++ d
           rest == bcd ++ e
<1>2. /\ DOMAIN bc = DOMAIN b \cup DOMAIN c
      /\ \A k \in DOMAIN b : bc[k] = b[k]
      /\ \A k \in DOMAIN c : k \notin DOMAIN b => bc[k] = c[k]
  BY Overlay
<1> HIDE DEF bc
<1>3. /\ DOMAIN bcd = DOMAIN bc \cup DOMAIN d
      /\ \A k \in DOMAIN bc : bcd[k] = bc[k]
      /\ \A k \in DOMAIN d : k \notin DOMAIN bc => bcd[k] = d[k]
  BY Overlay
<1> HIDE DEF bcd
<1>4. /\ DOMAIN rest = DOMAIN bcd \cup DOMAIN e
      /\ \A k \in DOMAIN bcd : rest[k] = bcd[k]
      /\ \A k \in DOMAIN e : k \notin DOMAIN bcd => rest[k] = e[k]
  BY Overlay
<1> HIDE DEF rest
<1>5. /\ DOMAIN f = DOMAIN a \cup DOMAIN rest
      /\ \A k \in DOMAIN a : f[k] = a[k]
      /\ \A k \in DOMAIN rest : k \notin DOMAIN a => f[k] = rest[k]
  <2>1. f = a ++ rest
    BY DEF f, rest, bcd, bc
  <2>2. /\ DOMAIN (a ++ rest) = DOMAIN a \cup DOMAIN rest
        /\ \A k \in DOMAIN a : (a ++ rest)[k] = a[k]
        /\ \A k \in DOMAIN rest : k \notin DOMAIN a => (a ++ rest)[k] = rest[k]
    BY Overlay
  <2> QED
    BY <2>1, <2>2
<1>6. DOMAIN f = UNION {DOMAIN layers[i] : i \in DOMAIN layers}
  <2>1. DOMAIN f = DOMAIN a \cup DOMAIN b \cup DOMAIN c \cup DOMAIN d \cup DOMAIN e
    BY <1>2, <1>3, <1>4, <1>5
  <2> QED
    BY <1>1, <2>1
<1>7. ASSUME NEW i \in DOMAIN layers, NEW k \in DOMAIN layers[i], Says(layers, i, k)
      PROVE  f[k] = layers[i][k]
  <2>1. \A h \in 1 .. i - 1 : k \notin DOMAIN layers[h]
    BY <1>7 DEF Says
  <2>2. CASE i = 1
    BY <1>1, <1>5, <2>2
  <2>3. CASE i = 2
    <3>1. k \in DOMAIN b /\ k \notin DOMAIN a
      BY <1>1, <2>1, <2>3
    <3> QED
      BY <1>1, <1>2, <1>3, <1>4, <1>5, <2>3, <3>1
  <2>4. CASE i = 3
    <3>1. k \in DOMAIN c /\ k \notin DOMAIN a /\ k \notin DOMAIN b
      BY <1>1, <2>1, <2>4
    <3> QED
      BY <1>1, <1>2, <1>3, <1>4, <1>5, <2>4, <3>1
  <2>5. CASE i = 4
    <3>1. k \in DOMAIN d /\ k \notin DOMAIN a /\ k \notin DOMAIN b /\ k \notin DOMAIN c
      BY <1>1, <2>1, <2>5
    <3> QED
      BY <1>1, <1>2, <1>3, <1>4, <1>5, <2>5, <3>1
  <2>6. CASE i = 5
    <3>1. /\ k \in DOMAIN e /\ k \notin DOMAIN a /\ k \notin DOMAIN b
          /\ k \notin DOMAIN c /\ k \notin DOMAIN d
      BY <1>1, <2>1, <2>6
    <3> QED
      BY <1>1, <1>2, <1>3, <1>4, <1>5, <2>6, <3>1
  <2> QED
    BY <1>1, <2>2, <2>3, <2>4, <2>5, <2>6
<1> QED
  BY <1>6, <1>7 DEF InOrder, f, layers

\* A local step has four environments over each other, if its file's can be read.
LEMMA FourLayers ==
    ASSUME NEW a, NEW b, NEW c, NEW e
    PROVE  InOrder(a ++ (b ++ c) ++ e, <<a, b, c, e>>)
<1> DEFINE f == a ++ (b ++ c) ++ e
           layers == <<a, b, c, e>>
<1>1. /\ DOMAIN layers = {1, 2, 3, 4}
      /\ layers[1] = a /\ layers[2] = b /\ layers[3] = c /\ layers[4] = e
  OBVIOUS
<1> HIDE DEF f, layers
<1> DEFINE bc == b ++ c
           abc == a ++ bc
<1>2. /\ DOMAIN bc = DOMAIN b \cup DOMAIN c
      /\ \A k \in DOMAIN b : bc[k] = b[k]
      /\ \A k \in DOMAIN c : k \notin DOMAIN b => bc[k] = c[k]
  BY Overlay
<1> HIDE DEF bc
<1>3. /\ DOMAIN abc = DOMAIN a \cup DOMAIN bc
      /\ \A k \in DOMAIN a : abc[k] = a[k]
      /\ \A k \in DOMAIN bc : k \notin DOMAIN a => abc[k] = bc[k]
  BY Overlay
<1> HIDE DEF abc
<1>4. /\ DOMAIN f = DOMAIN abc \cup DOMAIN e
      /\ \A k \in DOMAIN abc : f[k] = abc[k]
      /\ \A k \in DOMAIN e : k \notin DOMAIN abc => f[k] = e[k]
  <2>1. f = abc ++ e
    BY DEF f, abc, bc
  <2>2. /\ DOMAIN (abc ++ e) = DOMAIN abc \cup DOMAIN e
        /\ \A k \in DOMAIN abc : (abc ++ e)[k] = abc[k]
        /\ \A k \in DOMAIN e : k \notin DOMAIN abc => (abc ++ e)[k] = e[k]
    BY Overlay
  <2> QED
    BY <2>1, <2>2
<1>5. DOMAIN f = UNION {DOMAIN layers[i] : i \in DOMAIN layers}
  <2>1. DOMAIN f = DOMAIN a \cup DOMAIN b \cup DOMAIN c \cup DOMAIN e
    BY <1>2, <1>3, <1>4
  <2> QED
    BY <1>1, <2>1
<1>6. ASSUME NEW i \in DOMAIN layers, NEW k \in DOMAIN layers[i], Says(layers, i, k)
      PROVE  f[k] = layers[i][k]
  <2>1. \A h \in 1 .. i - 1 : k \notin DOMAIN layers[h]
    BY <1>6 DEF Says
  <2>2. CASE i = 1
    BY <1>1, <1>3, <1>4, <2>2
  <2>3. CASE i = 2
    <3>1. k \in DOMAIN b /\ k \notin DOMAIN a
      BY <1>1, <2>1, <2>3
    <3> QED
      BY <1>1, <1>2, <1>3, <1>4, <2>3, <3>1
  <2>4. CASE i = 3
    <3>1. k \in DOMAIN c /\ k \notin DOMAIN a /\ k \notin DOMAIN b
      BY <1>1, <2>1, <2>4
    <3> QED
      BY <1>1, <1>2, <1>3, <1>4, <2>4, <3>1
  <2>5. CASE i = 4
    <3>1. k \in DOMAIN e /\ k \notin DOMAIN a /\ k \notin DOMAIN b /\ k \notin DOMAIN c
      BY <1>1, <2>1, <2>5
    <3> QED
      BY <1>1, <1>2, <1>3, <1>4, <2>5, <3>1
  <2> QED
    BY <1>1, <2>2, <2>3, <2>4, <2>5
<1> QED
  BY <1>5, <1>6 DEF InOrder, f, layers

\* And two if it cannot.
LEMMA TwoLayers ==
    ASSUME NEW a, NEW e
    PROVE  InOrder(a ++ Empty ++ e, <<a, e>>)
<1> DEFINE f == a ++ Empty ++ e
           layers == <<a, e>>
<1>1. DOMAIN layers = {1, 2} /\ layers[1] = a /\ layers[2] = e
  OBVIOUS
<1> HIDE DEF f, layers
<1> DEFINE b == a ++ Empty
<1>2. DOMAIN b = DOMAIN a /\ \A k \in DOMAIN a : b[k] = a[k]
  <2>1. DOMAIN b = DOMAIN a \cup DOMAIN Empty /\ \A k \in DOMAIN a : b[k] = a[k]
    BY Overlay
  <2>2. DOMAIN Empty = {}
    BY DEF Empty
  <2> QED
    BY <2>1, <2>2
<1> HIDE DEF b
<1>3. /\ DOMAIN f = DOMAIN b \cup DOMAIN e
      /\ \A k \in DOMAIN b : f[k] = b[k]
      /\ \A k \in DOMAIN e : k \notin DOMAIN b => f[k] = e[k]
  <2>1. f = b ++ e
    BY DEF f, b
  <2>2. /\ DOMAIN (b ++ e) = DOMAIN b \cup DOMAIN e
        /\ \A k \in DOMAIN b : (b ++ e)[k] = b[k]
        /\ \A k \in DOMAIN e : k \notin DOMAIN b => (b ++ e)[k] = e[k]
    BY Overlay
  <2> QED
    BY <2>1, <2>2
<1>4. DOMAIN f = UNION {DOMAIN layers[i] : i \in DOMAIN layers}
  BY <1>1, <1>2, <1>3
<1>5. ASSUME NEW i \in DOMAIN layers, NEW k \in DOMAIN layers[i], Says(layers, i, k)
      PROVE  f[k] = layers[i][k]
  <2>1. CASE i = 1
    BY <1>1, <1>2, <1>3, <2>1
  <2>2. CASE i = 2
    <3>1. k \in DOMAIN e /\ k \notin DOMAIN a
      BY <1>1, <1>5, <2>2 DEF Says
    <3> QED
      BY <1>1, <1>2, <1>3, <2>2, <3>1
  <2> QED
    BY <1>1, <2>1, <2>2
<1> QED
  BY <1>4, <1>5 DEF InOrder, f, layers

\* The commit a trigger names in TANGLED_SHA is the one that is fetched.
LEMMA TriggersSha ==
    ASSUME NEW r \in Triggers, NEW t, t = r.trigger, OfItsKind(t), NEW id, NEW dev,
           "TANGLED_SHA" \in DOMAIN PipelineEnv(t, id, dev)
    PROVE  CommitSha(t) = <<PipelineEnv(t, id, dev)["TANGLED_SHA"]>>
<1> DEFINE sha == "TANGLED_SHA"
           ci == [CI |-> "true", TANGLED_PIPELINE_ID |-> id]
           repo == IF t.repo = <<>> THEN Empty ELSE RepoVars(t.repo[1], dev)
           push == Vars(t.push, "push", t)
           pr == Vars(t.pull_request, "pull_request", t)
           manual == Vars(t.manual, "manual", t)
           p == IF push = <<>> THEN Empty ELSE RefVars(push[1].ref, push[1].new_sha)
           q == IF pr = <<>> THEN Empty ELSE PullRequestVars(pr[1])
           m == IF manual = <<>> THEN Empty ELSE InputVars(manual[1])
<1>1. PipelineEnv(t, id, dev) = ci ++ repo ++ p ++ q ++ m
  BY DEF PipelineEnv
<1>2. sha \notin DOMAIN ci
  OBVIOUS
<1>3. sha \notin DOMAIN repo
  BY DEF RepoVars, Empty
<1>4. sha \in DOMAIN p => /\ t.kind = "push" /\ t.push # <<>>
                          /\ p[sha] = t.push[1].new_sha
  BY DEF RefVars, Empty, Vars
<1>5. sha \in DOMAIN q => /\ t.kind = "pull_request" /\ t.pull_request # <<>>
                          /\ q[sha] = t.pull_request[1].source_sha
  <2>1. ASSUME NEW d PROVE PullRequestVars(d)[sha] = d.source_sha
    <3> DEFINE own == [TANGLED_PR_SOURCE_BRANCH |-> d.source_branch,
                       TANGLED_PR_TARGET_BRANCH |-> d.target_branch,
                       TANGLED_PR_SOURCE_SHA |-> d.source_sha, TANGLED_PR_ACTION |-> d.action]
               ref == RefVars([prefix |-> "refs/heads/", name |-> d.source_branch], d.source_sha)
    <3>1. sha \notin DOMAIN own
      OBVIOUS
    <3>2. sha \in DOMAIN ref /\ ref[sha] = d.source_sha
      BY DEF RefVars
    <3> HIDE DEF own, ref
    <3>3. \A k \in DOMAIN ref : k \notin DOMAIN own => (own ++ ref)[k] = ref[k]
      BY Overlay
    <3>4. (own ++ ref)[sha] = d.source_sha
      BY <3>1, <3>2, <3>3
    <3> QED
      BY <3>4 DEF PullRequestVars, own, ref
  <2> QED
    BY <2>1 DEF Empty, Vars
<1>6. sha \notin DOMAIN m
  <2>1. CASE manual = <<>>
    BY <2>1 DEF Empty
  <2>2. CASE manual # <<>>
    <3>1. manual = t.manual
      BY <2>2 DEF Vars
    <3> QED
      BY <2>2, <3>1, BuildsAssumption, ManifestAssumption DEF InputVars
  <2> QED
    BY <2>1, <2>2
<1> HIDE DEF ci, repo, p, q, m
<1>7. ASSUME NEW env, env = ci ++ repo ++ p ++ q ++ m, sha \in DOMAIN env
      PROVE  /\ sha \in DOMAIN p \cup DOMAIN q
             /\ env[sha] = IF sha \in DOMAIN p THEN p[sha] ELSE q[sha]
  <2>1. sha \notin DOMAIN (ci ++ repo)
    BY <1>2, <1>3, Overlay
  <2> DEFINE two == ci ++ repo
             three == two ++ p
             four == three ++ q
  <2> HIDE DEF two
  <2>2. /\ sha \in DOMAIN three <=> sha \in DOMAIN p
        /\ sha \in DOMAIN p => three[sha] = p[sha]
    <3>1. sha \notin DOMAIN two
      BY <2>1 DEF two
    <3>2. /\ DOMAIN (two ++ p) = DOMAIN two \cup DOMAIN p
          /\ \A k \in DOMAIN p : k \notin DOMAIN two => (two ++ p)[k] = p[k]
      BY Overlay
    <3> QED
      BY <3>1, <3>2
  <2> HIDE DEF three
  <2>3. /\ sha \in DOMAIN four <=> sha \in DOMAIN p \cup DOMAIN q
        /\ sha \in DOMAIN p \cup DOMAIN q =>
               four[sha] = IF sha \in DOMAIN p THEN p[sha] ELSE q[sha]
    <3>1. /\ DOMAIN (three ++ q) = DOMAIN three \cup DOMAIN q
          /\ \A k \in DOMAIN three : (three ++ q)[k] = three[k]
          /\ \A k \in DOMAIN q : k \notin DOMAIN three => (three ++ q)[k] = q[k]
      BY Overlay
    <3> QED
      BY <2>2, <3>1
  <2> HIDE DEF four
  <2>4. env = four ++ m
    BY <1>7 DEF four, three, two
  <2>5. /\ DOMAIN (four ++ m) = DOMAIN four \cup DOMAIN m
        /\ \A k \in DOMAIN four : (four ++ m)[k] = four[k]
    BY Overlay
  <2> QED
    BY <1>6, <1>7, <2>3, <2>4, <2>5
<1>8. /\ sha \in DOMAIN p \cup DOMAIN q
      /\ PipelineEnv(t, id, dev)[sha] = IF sha \in DOMAIN p THEN p[sha] ELSE q[sha]
  BY <1>1, <1>7
<1>9. CASE sha \in DOMAIN p
  BY <1>4, <1>8, <1>9 DEF CommitSha
<1>10. CASE sha \notin DOMAIN p
  BY <1>5, <1>8, <1>10 DEF CommitSha, OfItsKind
<1> QED
  BY <1>9, <1>10

\* Of a workflow's steps only the clone step fetches, and it fetches the commit it was told.
LEMMA StepsFetch ==
    ASSUME NEW wf, wf.yaml.steps \in Seq(ToSet(wf.yaml.steps)), NEW sha,
           NEW i \in DOMAIN WorkflowSteps(wf, sha), "fetch" \in DOMAIN WorkflowSteps(wf, sha)[i]
    PROVE  WorkflowSteps(wf, sha)[i].fetch = IF sha = <<>> THEN "" ELSE sha[1]
<1> DEFINE steps == WorkflowSteps(wf, sha)
           clone == CloneStep(sha, wf.clone)
           user == UserSteps(wf.yaml)
           commands == wf.yaml.steps
           commit == IF sha = <<>> THEN "" ELSE sha[1]
<1>1. \/ clone = <<>>
      \/ \E d, m : clone = <<[fetch |-> commit, depth |-> d, submodules |-> m]>>
  BY DEF CloneStep, Fetch
<1>2. /\ user \in Seq(ToSet(user)) /\ Len(user) \in Nat
      /\ \A k \in 1 .. Len(user) : "fetch" \notin DOMAIN user[k]
  <2>1. Len(commands) \in Nat /\ DOMAIN commands = 1 .. Len(commands)
    OBVIOUS
  <2>2. user = [k \in 1 .. Len(commands) |-> UserStep(commands[k])]
    BY <2>1 DEF UserSteps
  <2> HIDE DEF commands
  <2> QED
    BY <2>1, <2>2 DEF UserStep, ToSet
<1>3. steps = clone \o user /\ i \in DOMAIN steps /\ "fetch" \in DOMAIN steps[i]
  BY DEF WorkflowSteps
<1> HIDE DEF steps, clone, user, commit
<1>4. CASE clone = <<>>
  <2>1. DOMAIN steps = 1 .. Len(user) /\ \A k \in 1 .. Len(user) : steps[k] = user[k]
    BY <1>2, <1>3, <1>4
  <2> QED
    BY <1>2, <1>3, <2>1
<1>5. ASSUME NEW d, NEW m, clone = <<[fetch |-> commit, depth |-> d, submodules |-> m]>>
      PROVE  steps[i].fetch = commit
  <2> DEFINE first == [fetch |-> commit, depth |-> d, submodules |-> m]
             all == {first} \cup ToSet(user)
  <2>1. first.fetch = commit
    OBVIOUS
  <2> HIDE DEF first
  <2>2. clone = <<first>>
    BY <1>5 DEF first
  <2>3. clone \in Seq(all) /\ Len(clone) = 1 /\ clone[1] = first
    BY <2>2
  <2>4. user \in Seq(all)
    BY <1>2
  <2> HIDE DEF all
  <2>5. /\ DOMAIN steps = 1 .. 1 + Len(user)
        /\ steps[i] = IF i <= 1 THEN clone[i] ELSE user[i - 1]
    <3>1. /\ clone \o user \in Seq(all) /\ Len(clone \o user) = Len(clone) + Len(user)
          /\ \A k \in 1 .. Len(clone) + Len(user) :
                 (clone \o user)[k] = IF k <= Len(clone) THEN clone[k] ELSE user[k - Len(clone)]
      BY <2>3, <2>4, ConcatProperties
    <3>2. DOMAIN (clone \o user) = 1 .. 1 + Len(user)
      BY <2>3, <3>1
    <3> QED
      BY <1>2, <1>3, <2>3, <3>1, <3>2
  <2>6. CASE i = 1
    BY <2>1, <2>3, <2>5, <2>6
  <2>7. CASE i # 1
    <3>1. i - 1 \in 1 .. Len(user) /\ steps[i] = user[i - 1]
      BY <1>2, <1>3, <2>5, <2>7
    <3> QED
      BY <1>2, <1>3, <3>1
  <2> QED
    BY <2>6, <2>7
<1> QED
  BY <1>1, <1>4, <1>5 DEF commit, steps

\* What a step reads of a variable is what the first of the layers has that has it: the
\* secrets, the file's env and environment, the trigger, the container; and TANGLED_SHA, where
\* it is the trigger's, names the commit that the clone step fetches.
THEOREM LayersInOrder == Spec => []StepEnvironment
<1>1. BuildInv /\ VarsInv => StepEnvironment
  <2> SUFFICES ASSUME BuildInv, VarsInv, NEW j \in group, At(j, "step"), NEW layers, layers = Layers(j)
               PROVE  /\ InOrder(given[j], layers)
                      /\ (/\ j \notin Local /\ Says(layers, 4, "TANGLED_SHA")
                          /\ OfItsKind(trigger[j][1])) =>
                             \A i \in DOMAIN work[j].steps :
                                 "fetch" \in DOMAIN work[j].steps[i] =>
                                     work[j].steps[i].fetch = given[j]["TANGLED_SHA"]
    BY DEF StepEnvironment
  <2> DEFINE yaml == Current(j).yaml
             p == PathVar(j)
  <2>1. /\ j \in Job /\ work[j].env = EnvOf(j) /\ given[j] = StepEnv(j)
        /\ j \notin Local => work[j].steps = WorkflowSteps(Current(j), Sha(trigger[j]))
    BY DEF VarsInv, VarsOk, ExitInv, Types, At
  <2>2. CASE j \notin Local
    <3> DEFINE c == [PATH |-> p, HOME |-> "/workspace", USER |-> "spindle", CI |-> "true"]
               t == TriggerEnv(trigger[j])
               five == ContainerEnv(Empty, p)
    <3>1. given[j] = SecretVars ++ (yaml.env ++ yaml.environment ++ t ++ c)
      BY <2>1, <2>2 DEF StepEnv, ContainerEnv, EnvOf, Filled, YamlEnv
    <3>2. DOMAIN five = DOMAIN c /\ \A k \in DOMAIN c : five[k] = c[k]
      BY DEF ContainerEnv, Empty, ++
    <3>3. layers = <<SecretVars, yaml.env, yaml.environment, t, five>>
      BY <2>2 DEF Layers
    <3> HIDE DEF c, t, five, yaml
    <3>4. InOrder(given[j], layers)
      BY <3>1, <3>2, <3>3, FiveLayers
    <3>5. ASSUME Says(layers, 4, "TANGLED_SHA"), OfItsKind(trigger[j][1]),
                 NEW i \in DOMAIN work[j].steps, "fetch" \in DOMAIN work[j].steps[i]
          PROVE  work[j].steps[i].fetch = given[j]["TANGLED_SHA"]
      <4>1. /\ "TANGLED_SHA" \in DOMAIN t
            /\ given[j]["TANGLED_SHA"] = t["TANGLED_SHA"]
        <5>1. layers[4] = t /\ 4 \in DOMAIN layers
          BY <3>3
        <5> QED
          BY <3>4, <3>5, <5>1 DEF InOrder, Says
      <4>2. trigger[j] # <<>>
        BY <4>1 DEF t, TriggerEnv, Empty
      <4>3. PICK r \in Triggers : trigger[j] = <<r.trigger>>
        BY <2>2, <4>2 DEF VarsInv, Parsed
      <4>4. t = PipelineEnv(r.trigger, Id, Dev) /\ trigger[j][1] = r.trigger
        BY <4>3 DEF t, TriggerEnv
      <4>5. CommitSha(r.trigger) = <<t["TANGLED_SHA"]>>
        BY <3>5, <4>1, <4>4, TriggersSha
      <4>6. Sha(trigger[j]) = <<t["TANGLED_SHA"]>>
        BY <4>2, <4>4, <4>5 DEF Sha
      <4>7. Current(j).yaml.steps \in Seq(ToSet(Current(j).yaml.steps))
        <5>1. file[j] \in DOMAIN Files[j]
          BY <2>1 DEF BuildInv, BuildOk, At
        <5> QED
          BY <2>1, <5>1, BuildsAssumption DEF Current
      <4>8. ASSUME NEW wf, NEW sha, NEW steps, wf = Current(j), sha = Sha(trigger[j]),
                   steps = work[j].steps
            PROVE  steps[i].fetch = IF sha = <<>> THEN "" ELSE sha[1]
        <5>1. /\ wf.yaml.steps \in Seq(ToSet(wf.yaml.steps)) /\ steps = WorkflowSteps(wf, sha)
              /\ i \in DOMAIN steps /\ "fetch" \in DOMAIN steps[i]
          BY <2>1, <2>2, <3>5, <4>7, <4>8
        <5> QED
          BY <5>1, StepsFetch
      <4> QED
        BY <4>1, <4>6, <4>8
    <3> QED
      BY <2>2, <3>4, <3>5
  <2>3. CASE j \in Local
    <3> DEFINE mine == Homes ++ ProcessVars[j]
               local == [PATH |-> p, CI |-> "true"]
    <3>1. given[j] = mine ++ work[j].env ++ local
      BY <2>1, <2>3 DEF StepEnv, LocalEnv
    <3>2. CASE Readable(yaml, {"env"})
      <4>1. work[j].env = yaml.env ++ yaml.environment
        BY <2>1, <2>3, <3>2 DEF EnvOf, Part, YamlEnv
      <4>2. layers = <<mine, yaml.env, yaml.environment, local>>
        BY <2>3, <3>2 DEF Layers
      <4> HIDE DEF mine, local, yaml
      <4> QED
        BY <2>3, <3>1, <4>1, <4>2, FourLayers
    <3>3. CASE ~Readable(yaml, {"env"})
      <4>1. work[j].env = Empty
        BY <2>1, <2>3, <3>3 DEF EnvOf, Part
      <4>2. layers = <<mine, local>>
        BY <2>3, <3>3 DEF Layers
      <4>3. given[j] = mine ++ Empty ++ local
        BY <3>1, <4>1
      <4> HIDE DEF mine, local, yaml
      <4> QED
        BY <2>3, <4>2, <4>3, TwoLayers
    <3> QED
      BY <3>2, <3>3
  <2> QED
    BY <2>2, <2>3
<1> QED
  BY <1>1, BuildInvariant, VarsInvariant, PTL
=============================================================================
