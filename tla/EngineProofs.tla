---------------------------- MODULE EngineProofs ----------------------------
(***************************************************************************)
(* Ownership of containers, and what an execution with an id of its own    *)
(* finds and leaves, for all executions, ids, namings and steps.  A        *)
(* container never leaves the id it was made for, which is what makes the  *)
(* map's entry, the blocking tasks and the setups exclude each other.      *)
(***************************************************************************)
EXTENDS Engine, FiniteSetTheorems, SequenceTheorems, TLAPS

\* A container is stored under its own id, and used by executions of that id only.
Homes ==
    /\ \A w \in Wid : states[w] \in Run => wid[states[w]] = w
    /\ \A r \in Run : blocking[r] \in Run => wid[blocking[r]] = wid[r]

\* Who holds a container holds it alone.
OwnedOnce ==
    /\ \A w \in Wid, r \in Run : states[w] \in Run => states[w] # blocking[r]
    /\ \A r, q \in Run : blocking[r] = blocking[q] /\ blocking[r] \in Run => r = q
    /\ \A c \in Run : at[c] \in InSetup =>
           /\ states[wid[c]] # c /\ \A r \in Run : blocking[r] # c
           /\ child[c] \in (IF at[c] = "spawned" THEN {"fresh", "dead"} ELSE {"none"})

\* A container that printed nothing but its exit codes has one command at a time, and
\* answers it once: what is in the map executes nothing and has no code unread.
Quiet ==
    \A c \in Run : c \notin spoofed =>
        /\ queued[c] = 0 /\ Len(pipe[c]) <= 1
        /\ child[c] \in {"none", "fresh", "busy"} => pipe[c] = <<>>
        /\ states[wid[c]] = c /\ child[c] # "dead" =>
               child[c] \in {"fresh", "idle"} /\ pipe[c] = <<>>

\* A container that lives is held, and only one that was read wrong is ever dropped
\* while it is busy.
Reachable ==
    \A c \in Run :
        /\ child[c] = "ending" => c \in spoofed
        /\ Listens(c) =>
               \/ at[c] = "spawned"
               \/ states[wid[c]] = c
               \/ \E r \in Run : blocking[r] = c

\* Where an execution is when it awaits a blocking task, and when it has none.
Phases ==
    \A r \in Run :
        /\ at[r] = "stepping" <=> r \in listening
        /\ at[r] = "stepping" => MoreSteps(r) /\ blocking[r] \in Run
        /\ at[r] \in InSetup \cup {"ready"} => blocking[r] = Absent

\* The entry of an id that one execution has for itself, and its workspace.
OwnEntry ==
    \A r \in Alone :
        /\ r \notin mishaps
        /\ at[r] \in InSetup => states[wid[r]] = Absent
        /\ at[r] = "ready" => states[wid[r]] = r
        /\ at[r] = "stepping" => states[wid[r]] = Taken
        /\ at[r] = "rmdir" \/ (at[r] = "over" /\ r \notin faulty) => states[wid[r]] = Absent
        /\ at[r] = "over" /\ r \notin faulty => (wid[r] \in dirs => r \in overtaken)

EngineInv == TypeOK /\ Homes /\ OwnedOnce /\ Quiet /\ Reachable /\ Phases /\ OwnEntry

-----------------------------------------------------------------------------
(* The steps                                                               *)

\* A workspace is made, or setup fails.
LEMMA CreateWorkspaceStep ==
    ASSUME EngineInv, NEW r \in Run, CreateWorkspace(r)
    PROVE  EngineInv'
<1>1. /\ wid' = wid /\ step' = step /\ states' = states /\ child' = child /\ queued' = queued
      /\ pipe' = pipe /\ spoofed' = spoofed /\ blocking' = blocking /\ listening' = listening
      /\ mishaps' = mishaps /\ faulty' = faulty /\ fscalls' = fscalls /\ overtaken' = overtaken
      /\ at[r] = "new" /\ dirs' \in SUBSET Wid
      /\ \A q \in Run : wid[q] # wid[r] => (wid[q] \in dirs' <=> wid[q] \in dirs)
      /\ \E place \in {"created", "destroy"} : at' = [at EXCEPT ![r] = place]
  BY EngineAssumption DEF EngineInv, TypeOK, CreateWorkspace, Goto, containers, taskVars
<1>2. PICK place \in {"created", "destroy"} : at' = [at EXCEPT ![r] = place]
  BY <1>1
<1>3. TypeOK' /\ Alone' = Alone
  BY <1>1, <1>2 DEF EngineInv, TypeOK, Place, InSetup, Alone
<1>4. Homes' /\ OwnedOnce' /\ Quiet'
  BY <1>1, <1>2 DEF EngineInv, TypeOK, Homes, OwnedOnce, Quiet, InSetup
<1>5. Reachable'
  BY <1>1, <1>2 DEF EngineInv, TypeOK, Reachable, Listens
<1>6. Phases'
  BY <1>1, <1>2 DEF EngineInv, TypeOK, Phases, InSetup, MoreSteps
<1>7. OwnEntry'
  BY <1>1, <1>2, <1>3 DEF EngineInv, TypeOK, OwnEntry, Alone, InSetup
<1> QED
  BY <1>3, <1>4, <1>5, <1>6, <1>7 DEF EngineInv

\* The new container is its setup's.
LEMMA SpawnContainerStep ==
    ASSUME EngineInv, NEW r \in Run, SpawnContainer(r)
    PROVE  EngineInv'
<1>1. /\ wid' = wid /\ step' = step /\ states' = states /\ queued' = queued /\ pipe' = pipe
      /\ spoofed' = spoofed /\ blocking' = blocking /\ listening' = listening
      /\ mishaps' = mishaps /\ faulty' = faulty
      /\ dirs' = dirs /\ fscalls' = fscalls /\ overtaken' = overtaken /\ at[r] = "created"
      /\ \/ at' = [at EXCEPT ![r] = "spawned"] /\ child' = [child EXCEPT ![r] = "fresh"]
         \/ at' = [at EXCEPT ![r] = "destroy"] /\ child' = child
  BY DEF SpawnContainer, Goto, folders, taskVars
<1>2. TypeOK'
  BY <1>1 DEF EngineInv, TypeOK, Place, InSetup, ChildState
<1>3. Homes'
  BY <1>1 DEF EngineInv, Homes
<1>4. OwnedOnce' /\ Quiet'
  BY <1>1 DEF EngineInv, TypeOK, OwnedOnce, Quiet, InSetup
<1>5. PICK place \in {"spawned", "destroy"} :
          /\ at' = [at EXCEPT ![r] = place]
          /\ place = "spawned" => child' = [child EXCEPT ![r] = "fresh"]
          /\ place = "destroy" => child' = child
  BY <1>1
<1>6. Reachable'
  <2>1. \A c \in Run : c # r => at'[c] = at[c] /\ child'[c] = child[c]
    BY <1>5 DEF EngineInv, TypeOK
  <2>2. child[r] = "none" /\ (child'[r] = "none" \/ (child'[r] = "fresh" /\ at'[r] = "spawned"))
    BY <1>1, <1>5 DEF EngineInv, TypeOK, OwnedOnce, InSetup
  <2> QED
    BY <1>1, <2>1, <2>2 DEF EngineInv, Reachable, Listens
<1>7. Phases'
  BY <1>1 DEF EngineInv, TypeOK, Phases, InSetup, MoreSteps
<1>8. OwnEntry'
  BY <1>1, <1>5 DEF EngineInv, TypeOK, OwnEntry, Alone, InSetup
<1> QED
  BY <1>2, <1>3, <1>4, <1>6, <1>7, <1>8 DEF EngineInv

\* It moves to the map; the one it replaces is dropped.
LEMMA StoreContainerStep ==
    ASSUME EngineInv, NEW r \in Run, StoreContainer(r)
    PROVE  EngineInv'
<1> DEFINE old == states[wid[r]]
<1>1. /\ wid' = wid /\ step' = step /\ queued' = queued /\ pipe' = pipe /\ spoofed' = spoofed
      /\ blocking' = blocking /\ listening' = listening /\ mishaps' = mishaps /\ faulty' = faulty
      /\ dirs' = dirs /\ fscalls' = fscalls /\ overtaken' = overtaken /\ at[r] = "spawned"
      /\ at' = [at EXCEPT ![r] = "ready"] /\ states' = [states EXCEPT ![wid[r]] = r]
      /\ child' = IF old \in Run THEN [child EXCEPT ![old] = Dropped(old)] ELSE child
  BY DEF StoreContainer, Goto, folders, taskVars
<1>2. /\ wid \in [Run -> Wid] /\ old # r /\ child[r] \in {"fresh", "dead"}
      /\ (\A q \in Run : blocking[q] # r) /\ (old \in Run => wid[old] = wid[r])
      /\ (old \in Run => at[old] \notin InSetup)
  BY <1>1, EngineAssumption DEF EngineInv, TypeOK, OwnedOnce, Homes, InSetup
<1>3. /\ at'[r] = "ready" /\ states'[wid[r]] = r
      /\ \A q \in Run : q # r => at'[q] = at[q]
      /\ \A w \in Wid : w # wid[r] => states'[w] = states[w]
      /\ \A c \in Run : c # old => child'[c] = child[c]
      /\ old \in Run => child'[old] = Dropped(old)
  BY <1>1, <1>2 DEF EngineInv, TypeOK
<1> HIDE DEF old
<1>4. TypeOK'
  BY <1>1, <1>2, EngineAssumption DEF EngineInv, TypeOK, Place, InSetup, InSteps, ChildState, Dropped
<1>5. Homes'
  BY <1>1, <1>2, <1>3 DEF EngineInv, Homes
<1>6. OwnedOnce'
  BY <1>1, <1>2, <1>3 DEF EngineInv, OwnedOnce, InSetup
<1>7. Quiet'
  <2> SUFFICES ASSUME NEW c \in Run, c \notin spoofed
               PROVE  /\ queued[c] = 0 /\ Len(pipe[c]) <= 1
                      /\ child'[c] \in {"none", "fresh", "busy"} => pipe[c] = <<>>
                      /\ states'[wid[c]] = c /\ child'[c] # "dead" =>
                             child'[c] \in {"fresh", "idle"} /\ pipe[c] = <<>>
    BY <1>1 DEF Quiet
  <2>1. /\ queued[c] = 0 /\ Len(pipe[c]) <= 1
        /\ child[c] \in {"none", "fresh", "busy"} => pipe[c] = <<>>
        /\ states[wid[c]] = c /\ child[c] # "dead" =>
               child[c] \in {"fresh", "idle"} /\ pipe[c] = <<>>
    BY DEF EngineInv, Quiet
  <2>2. CASE c = old
    BY <1>2, <1>3, <2>1, <2>2 DEF Dropped
  <2>3. CASE c = r
    BY <1>2, <1>3, <2>1, <2>3
  <2>4. CASE c # old /\ c # r
    <3>1. child'[c] = child[c] /\ (states'[wid[c]] = c => states[wid[c]] = c)
      BY <1>2, <1>3, <2>4
    <3> QED
      BY <2>1, <3>1
  <2> QED
    BY <2>2, <2>3, <2>4
<1>8. Reachable'
  <2> SUFFICES ASSUME NEW c \in Run
               PROVE  /\ child'[c] = "ending" => c \in spoofed
                      /\ Listens(c)' => \/ at'[c] = "spawned" \/ states'[wid[c]] = c
                                        \/ \E q \in Run : blocking[q] = c
    BY <1>1 DEF Reachable
  <2>1. /\ child[c] = "ending" => c \in spoofed
        /\ Listens(c) => \/ at[c] = "spawned" \/ states[wid[c]] = c
                         \/ \E q \in Run : blocking[q] = c
        /\ states[wid[c]] = c /\ child[c] = "busy" => c \in spoofed
    BY DEF EngineInv, Reachable, Quiet
  <2>2. CASE c = old
    <3>1. states[wid[c]] = c /\ child'[c] = Dropped(c)
      BY <1>2, <1>3, <2>2 DEF old
    <3> QED
      BY <2>1, <3>1 DEF Dropped, Listens
  <2>3. CASE c = r
    BY <1>2, <1>3, <2>1, <2>3
  <2>4. CASE c # old /\ c # r
    <3>1. child'[c] = child[c] /\ at'[c] = at[c] /\ (states[wid[c]] = c => states'[wid[c]] = c)
      BY <1>2, <1>3, <2>4 DEF old
    <3> QED
      BY <2>1, <3>1 DEF Listens
  <2> QED
    BY <2>2, <2>3, <2>4
<1>9. Phases'
  BY <1>1, <1>3 DEF EngineInv, Phases, InSetup, MoreSteps
<1>10. OwnEntry'
  BY <1>1, <1>2, <1>3 DEF EngineInv, OwnEntry, Alone, InSetup
<1> QED
  BY <1>4, <1>5, <1>6, <1>7, <1>8, <1>9, <1>10 DEF EngineInv

\* It moves from the map to a blocking task, or is found dead.
LEMMA TakeContainerStep ==
    ASSUME EngineInv, NEW r \in Run, TakeContainer(r)
    PROVE  EngineInv'
<1> DEFINE c == states[wid[r]]
<1>1. /\ wid' = wid /\ step' = step /\ pipe' = pipe /\ spoofed' = spoofed
      /\ mishaps' = mishaps /\ faulty' = faulty
      /\ dirs' = dirs /\ fscalls' = fscalls /\ overtaken' = overtaken
      /\ at[r] = "ready" /\ MoreSteps(r) /\ c \in Run
      /\ states' = [states EXCEPT ![wid[r]] = Taken]
  BY DEF TakeContainer, Left, folders
<1>2. /\ wid \in [Run -> Wid] /\ c = states[wid[r]]
      /\ wid[c] = wid[r] /\ states'[wid[r]] = Taken /\ Taken \notin Run /\ Absent \notin Run
      /\ \A w \in Wid : w # wid[r] => states'[w] = states[w]
  BY <1>1, EngineAssumption DEF EngineInv, TypeOK, Homes
<1> HIDE DEF c
<1>3. CASE Listens(c)
  <2>1. /\ at' = [at EXCEPT ![r] = "stepping"] /\ child' = [child EXCEPT ![c] = "busy"]
        /\ queued' = [queued EXCEPT ![c] = IF child[c] = "busy" THEN queued[c] + 1 ELSE queued[c]]
        /\ blocking' = [blocking EXCEPT ![r] = c] /\ listening' = listening \cup {r}
    BY <1>3 DEF TakeContainer, Goto, c
  <2>2. TypeOK'
    BY <1>1, <1>2, <2>1 DEF EngineInv, TypeOK, Place, InSteps, ChildState
  <2>3. Homes'
    BY <1>1, <1>2, <2>1 DEF EngineInv, TypeOK, Homes
  <2>4. OwnedOnce'
    BY <1>1, <1>2, <2>1 DEF EngineInv, TypeOK, Homes, OwnedOnce, InSetup
  <2>5. Quiet'
    BY <1>1, <1>2, <1>3, <2>1 DEF EngineInv, TypeOK, Quiet, Listens
  <2>6. Reachable'
    BY <1>1, <1>2, <2>1 DEF EngineInv, TypeOK, Reachable, Phases, Listens, InSetup
  <2>7. Phases'
    BY <1>1, <1>2, <2>1 DEF EngineInv, TypeOK, Phases, MoreSteps, InSetup
  <2>8. OwnEntry'
    BY <1>1, <1>2, <2>1 DEF EngineInv, TypeOK, OwnEntry, Alone, InSetup
  <2> QED
    BY <2>2, <2>3, <2>4, <2>5, <2>6, <2>7, <2>8 DEF EngineInv
<1>4. CASE ~Listens(c)
  <2>1. /\ at' = [at EXCEPT ![r] = "destroy"] /\ child' = child /\ queued' = queued
        /\ blocking' = blocking /\ listening' = listening
    BY <1>4 DEF TakeContainer, Goto, c
  <2>2. TypeOK'
    BY <1>1, <1>2, <2>1 DEF EngineInv, TypeOK, Place
  <2>3. Homes' /\ OwnedOnce'
    BY <1>1, <1>2, <2>1 DEF EngineInv, TypeOK, Homes, OwnedOnce, InSetup
  <2>4. Quiet'
    BY <1>1, <1>2, <2>1 DEF EngineInv, TypeOK, Quiet
  <2>5. Reachable'
    BY <1>1, <1>2, <1>4, <2>1 DEF EngineInv, TypeOK, Reachable, Listens
  <2>6. Phases'
    BY <1>1, <1>2, <2>1 DEF EngineInv, TypeOK, Phases, MoreSteps, InSetup
  <2>7. OwnEntry'
    BY <1>1, <1>2, <2>1 DEF EngineInv, TypeOK, OwnEntry, Alone, InSetup
  <2> QED
    BY <2>2, <2>3, <2>4, <2>5, <2>6, <2>7 DEF EngineInv
<1> QED
  BY <1>3, <1>4

\* Nothing is taken: only executions that share an id come to this.
LEMMA NoContainerStep ==
    ASSUME EngineInv, NEW r \in Run, NoContainer(r)
    PROVE  EngineInv'
<1>1. TypeOK'
  BY EngineAssumption DEF EngineInv, TypeOK, Place, InSetup, InSteps, ChildState,
                          NoContainer, Goto, containers, folders, taskVars
<1>2. Homes'
  BY EngineAssumption DEF EngineInv, Homes, NoContainer, Goto, containers, folders,
                          taskVars
<1>3. OwnedOnce'
  BY EngineAssumption DEF EngineInv, OwnedOnce, TypeOK, InSetup, NoContainer, Goto,
                          containers, folders, taskVars
<1>4. Quiet'
  BY EngineAssumption DEF EngineInv, Quiet, TypeOK, NoContainer, Goto, containers,
                          folders, taskVars
<1>5. Reachable'
  BY EngineAssumption DEF EngineInv, Reachable, TypeOK, Listens, NoContainer, Goto,
                          containers, folders, taskVars
<1>6. Phases'
  BY EngineAssumption DEF EngineInv, Phases, TypeOK, InSetup, MoreSteps, NoContainer,
                          Goto, containers, folders, taskVars
<1>7. OwnEntry'
  BY EngineAssumption DEF EngineInv, OwnEntry, Alone, InSetup, TypeOK, NoContainer,
                          Goto, containers, folders, taskVars
<1> QED
  BY <1>1, <1>2, <1>3, <1>4, <1>5, <1>6, <1>7 DEF EngineInv

\* The last step is done.
LEMMA StepsDoneStep ==
    ASSUME EngineInv, NEW r \in Run, StepsDone(r)
    PROVE  EngineInv'
<1>1. TypeOK'
  BY EngineAssumption DEF EngineInv, TypeOK, Place, InSetup, InSteps, ChildState,
                          StepsDone, Goto, containers, folders, taskVars
<1>2. Homes'
  BY EngineAssumption DEF EngineInv, Homes, StepsDone, Goto, containers, folders,
                          taskVars
<1>3. OwnedOnce'
  BY EngineAssumption DEF EngineInv, OwnedOnce, TypeOK, InSetup, StepsDone, Goto,
                          containers, folders, taskVars
<1>4. Quiet'
  BY EngineAssumption DEF EngineInv, Quiet, TypeOK, StepsDone, Goto, containers,
                          folders, taskVars
<1>5. Reachable'
  BY EngineAssumption DEF EngineInv, Reachable, TypeOK, Listens, StepsDone, Goto,
                          containers, folders, taskVars
<1>6. Phases'
  BY EngineAssumption DEF EngineInv, Phases, TypeOK, InSetup, MoreSteps, StepsDone,
                          Goto, containers, folders, taskVars
<1>7. OwnEntry'
  BY EngineAssumption DEF EngineInv, OwnEntry, Alone, InSetup, TypeOK, StepsDone, Goto,
                          containers, folders, taskVars
<1> QED
  BY <1>1, <1>2, <1>3, <1>4, <1>5, <1>6, <1>7 DEF EngineInv

\* A command ends and prints its exit code.
LEMMA CommandEndsStep ==
    ASSUME EngineInv, NEW r \in Run, CommandEnds(r)
    PROVE  EngineInv'
<1>1. TypeOK'
  <2>1. pipe' \in [Run -> Seq(Code)]
    BY DEF EngineInv, TypeOK, CommandEnds, Prints
  <2>2. child' \in [Run -> ChildState]
    BY DEF EngineInv, TypeOK, CommandEnds, ChildState
  <2>3. CASE queued[r] > 0
    <3>1. queued' = [queued EXCEPT ![r] = queued[r] - 1] /\ queued[r] - 1 \in Nat
      BY <2>3 DEF EngineInv, TypeOK, CommandEnds
    <3> QED
      BY <2>1, <2>2, <3>1 DEF EngineInv, TypeOK, CommandEnds, folders, taskVars
  <2>4. CASE ~(queued[r] > 0)
    BY <2>1, <2>2, <2>4 DEF EngineInv, TypeOK, CommandEnds, folders, taskVars
  <2> QED
    BY <2>3, <2>4
<1>2. Homes'
  BY EngineAssumption DEF EngineInv, Homes, CommandEnds, Prints, containers, folders,
                          taskVars
<1>3. OwnedOnce'
  BY EngineAssumption DEF EngineInv, OwnedOnce, TypeOK, InSetup, Listens, CommandEnds,
                          Prints, containers, folders, taskVars
<1>4. Quiet'
  BY EngineAssumption DEF EngineInv, Quiet, TypeOK, CommandEnds, Prints, containers,
                          folders, taskVars
<1>5. Reachable'
  BY EngineAssumption DEF EngineInv, Reachable, TypeOK, Listens, CommandEnds, Prints,
                          containers, folders, taskVars
<1>6. Phases'
  BY EngineAssumption DEF EngineInv, Phases, TypeOK, InSetup, MoreSteps, CommandEnds,
                          Prints, containers, folders, taskVars
<1>7. OwnEntry'
  BY EngineAssumption DEF EngineInv, OwnEntry, Alone, InSetup, TypeOK, CommandEnds,
                          Prints, containers, folders, taskVars
<1> QED
  BY <1>1, <1>2, <1>3, <1>4, <1>5, <1>6, <1>7 DEF EngineInv

\* A container dies.
LEMMA ContainerDiesStep ==
    ASSUME EngineInv, NEW r \in Run, ContainerDies(r)
    PROVE  EngineInv'
<1>1. TypeOK'
  BY EngineAssumption DEF EngineInv, TypeOK, Place, InSetup, InSteps, ChildState,
                          ContainerDies, containers, folders, taskVars
<1>2. Homes'
  BY EngineAssumption DEF EngineInv, Homes, ContainerDies, containers, folders, taskVars
<1>3. OwnedOnce'
  BY EngineAssumption DEF EngineInv, OwnedOnce, TypeOK, InSetup, Listens,
                          ContainerDies, containers, folders, taskVars
<1>4. Quiet'
  BY EngineAssumption DEF EngineInv, Quiet, TypeOK, ContainerDies, containers, folders,
                          taskVars
<1>5. Reachable'
  BY EngineAssumption DEF EngineInv, Reachable, TypeOK, Listens, ContainerDies,
                          containers, folders, taskVars
<1>6. Phases'
  BY EngineAssumption DEF EngineInv, Phases, TypeOK, InSetup, MoreSteps, ContainerDies,
                          containers, folders, taskVars
<1>7. OwnEntry'
  BY EngineAssumption DEF EngineInv, OwnEntry, Alone, InSetup, TypeOK, ContainerDies,
                          containers, folders, taskVars
<1> QED
  BY <1>1, <1>2, <1>3, <1>4, <1>5, <1>6, <1>7 DEF EngineInv

\* A line is printed that will be taken for an exit code.
LEMMA SpoofStep ==
    ASSUME EngineInv, NEW r \in Run, Spoof(r)
    PROVE  EngineInv'
<1>1. TypeOK'
  <2>1. PICK code \in Code : pipe' = [pipe EXCEPT ![r] = Append(pipe[r], code)]
    BY DEF Spoof, Prints
  <2>2. pipe' \in [Run -> Seq(Code)]
    BY <2>1 DEF EngineInv, TypeOK
  <2>3. /\ UNCHANGED <<wid, at, step, states, child, queued, blocking, listening, dirs, fscalls>>
        /\ UNCHANGED <<overtaken, mishaps, faulty>> /\ spoofed' = spoofed \cup {r}
    BY DEF Spoof, folders, taskVars
  <2> QED
    BY <2>2, <2>3 DEF EngineInv, TypeOK
<1>2. Homes'
  BY EngineAssumption DEF EngineInv, Homes, Spoof, Prints, containers, folders, taskVars
<1>3. OwnedOnce'
  BY EngineAssumption DEF EngineInv, OwnedOnce, TypeOK, InSetup, Spoof, Prints,
                          containers, folders, taskVars
<1>4. Quiet'
  BY EngineAssumption DEF EngineInv, Quiet, TypeOK, Spoof, Prints, containers, folders,
                          taskVars
<1>5. Reachable'
  BY EngineAssumption DEF EngineInv, Reachable, TypeOK, Listens, Spoof, Prints,
                          containers, folders, taskVars
<1>6. Phases'
  BY EngineAssumption DEF EngineInv, Phases, TypeOK, InSetup, MoreSteps, Spoof, Prints,
                          containers, folders, taskVars
<1>7. OwnEntry'
  BY EngineAssumption DEF EngineInv, OwnEntry, Alone, InSetup, TypeOK, Spoof, Prints,
                          containers, folders, taskVars
<1> QED
  BY <1>1, <1>2, <1>3, <1>4, <1>5, <1>6, <1>7 DEF EngineInv

\* What a reader leaves of a pipe is shorter than what it found, if it found something.
LEMMA UnreadIsLess ==
    ASSUME NEW c \in Run, pipe[c] \in Seq(Code), NEW rest \in Unread(c)
    PROVE  /\ rest \in Seq(Code)
           /\ Len(pipe[c]) <= 1 => rest = <<>>
           /\ Len(rest) <= Len(pipe[c])
<1>1. CASE pipe[c] = <<>>
  BY <1>1 DEF Unread
<1>2. CASE pipe[c] # <<>>
  <2>1. PICK i \in 2 .. Len(pipe[c]) + 1 : rest = SubSeq(pipe[c], i, Len(pipe[c]))
    BY <1>2 DEF Unread
  <2> DEFINE n == Len(pipe[c])
  <2>2. n \in Nat /\ n >= 1 /\ i \in 2 .. n + 1
    BY <1>2, <2>1
  <2>3. /\ SubSeq(pipe[c], i, n) \in Seq(Code)
        /\ Len(SubSeq(pipe[c], i, n)) = IF i <= n THEN n - i + 1 ELSE 0
    BY <2>2, SubSeqProperties
  <2> HIDE DEF n
  <2>4. rest \in Seq(Code) /\ Len(rest) = IF i <= n THEN n - i + 1 ELSE 0
    BY <2>1, <2>3 DEF n
  <2>5. n <= 1 => Len(rest) = 0
    BY <2>2, <2>4
  <2>6. Len(rest) <= n
    BY <2>2, <2>4
  <2> QED
    BY <2>4, <2>5, <2>6 DEF n
<1> QED
  BY <1>1, <1>2

\* The container goes back into the map, or is dropped with the result.
LEMMA BlockingEndsStep ==
    ASSUME EngineInv, NEW r \in Run, BlockingEnds(r)
    PROVE  EngineInv'
<1> DEFINE c == blocking[r]
           old == states[wid[r]]
           left == IF PutBack(r) THEN old ELSE c
<1>1. /\ wid' = wid /\ queued' = queued /\ spoofed' = spoofed
      /\ mishaps' = mishaps /\ faulty' = faulty
      /\ dirs' = dirs /\ fscalls' = fscalls /\ overtaken' = overtaken
      /\ c \in Run /\ Readable(c)
      /\ blocking' = [blocking EXCEPT ![r] = Absent] /\ listening' = listening \ {r}
      /\ states' = IF PutBack(r) THEN [states EXCEPT ![wid[r]] = c] ELSE states
      /\ child' = [x \in Run |-> IF x = left THEN Dropped(x) ELSE child[x]]
  BY DEF BlockingEnds, folders
<1>2. PICK rest \in Unread(c) : pipe' = [pipe EXCEPT ![c] = rest]
  BY DEF BlockingEnds
<1>3. /\ wid \in [Run -> Wid] /\ wid[c] = wid[r] /\ Absent \notin Run /\ Taken \notin Run
      /\ \A x \in Run : x # c => blocking[r] # x
      /\ old # c /\ (old \in Run => wid[old] = wid[r])
  BY <1>1, EngineAssumption DEF EngineInv, TypeOK, Homes, OwnedOnce
<1>4. rest \in Seq(Code) /\ (Len(pipe[c]) <= 1 => rest = <<>>) /\ Len(rest) <= Len(pipe[c])
  BY <1>1, <1>2, UnreadIsLess DEF EngineInv, TypeOK
<1>5. c \notin spoofed => child[c] \in {"idle", "ending", "dead"}
  BY <1>1 DEF EngineInv, TypeOK, Quiet, Readable, ChildState
<1>6. /\ r \notin listening => at' = at /\ step' = step
      /\ r \in listening => /\ at[r] = "stepping"
                            /\ \/ /\ at' = [at EXCEPT ![r] = "ready"]
                                  /\ step' = [step EXCEPT ![r] = step[r] + 1]
                               \/ at' = [at EXCEPT ![r] = "destroy"] /\ step' = step
  BY DEF BlockingEnds, Goto, EngineInv, Phases
<1>7. child' \in [Run -> ChildState] /\ pipe' \in [Run -> Seq(Code)]
  BY <1>1, <1>2, <1>4 DEF EngineInv, TypeOK, Dropped, ChildState
<1>8. /\ blocking' \in [Run -> Run \cup {Absent}] /\ states' \in [Wid -> Run \cup {Absent, Taken}]
      /\ listening' \in SUBSET Run
  BY <1>1 DEF EngineInv, TypeOK
<1>9. at' \in [Run -> Place]
  BY <1>6 DEF EngineInv, TypeOK, Place, InSteps
<1>10. step' \in [Run -> Nat] /\ \A q \in Run : step'[q] \in 1..(Steps[q] + 1)
  <2>1. \A q \in Run : Steps[q] \in Nat
    BY EngineAssumption
  <2>2. r \in listening => step[r] <= Steps[r]
    BY DEF EngineInv, Phases, MoreSteps
  <2>3. step' = step \/ (step' = [step EXCEPT ![r] = step[r] + 1] /\ step[r] <= Steps[r])
    BY <1>6, <2>2
  <2>4. step \in [Run -> Nat] /\ \A q \in Run : step[q] \in 1..(Steps[q] + 1)
    BY DEF EngineInv, TypeOK
  <2> QED
    BY <2>1, <2>3, <2>4
<1>11. TypeOK'
  BY <1>1, <1>7, <1>8, <1>9, <1>10 DEF EngineInv, TypeOK
<1> HIDE DEF c, old, left
<1>12. /\ blocking[r] = c /\ states[wid[r]] = old /\ left \in {c, old}
       /\ PutBack(r) => left = old /\ r \in listening
       /\ ~PutBack(r) => left = c
       /\ \A q \in Run : q # r => blocking'[q] = blocking[q] /\ blocking[q] # c
       /\ blocking'[r] = Absent
       /\ PutBack(r) => states'[wid[r]] = c /\ \A w \in Wid : w # wid[r] => states'[w] = states[w]
       /\ ~PutBack(r) => states' = states
       /\ \A w \in Wid : states[w] # c
  BY <1>1, <1>3 DEF EngineInv, TypeOK, OwnedOnce, PutBack, c, old, left
<1>13. Homes'
  BY <1>1, <1>3, <1>12 DEF EngineInv, TypeOK, Homes
<1>14. OwnedOnce'
  <2>1. \A w \in Wid, q \in Run : states'[w] \in Run => states'[w] # blocking'[q]
    BY <1>1, <1>3, <1>12 DEF EngineInv, TypeOK, OwnedOnce
  <2>2. \A p, q \in Run : blocking'[p] = blocking'[q] /\ blocking'[p] \in Run => p = q
    BY <1>3, <1>12 DEF EngineInv, OwnedOnce
  <2>3. ASSUME NEW x \in Run, at'[x] \in InSetup
        PROVE  /\ states'[wid[x]] # x /\ \A q \in Run : blocking'[q] # x
               /\ child'[x] \in (IF at'[x] = "spawned" THEN {"fresh", "dead"} ELSE {"none"})
    <3>1. at[x] \in InSetup /\ at'[x] = at[x]
      BY <1>6, <2>3 DEF EngineInv, TypeOK, InSetup
    <3>2. x # c /\ x # old /\ x # left
      BY <1>1, <1>3, <1>12, <3>1 DEF EngineInv, OwnedOnce
    <3>3. child'[x] = child[x]
      BY <1>1, <3>2
    <3> QED
      BY <1>3, <1>12, <3>1, <3>2, <3>3 DEF EngineInv, TypeOK, OwnedOnce
  <2> QED
    BY <1>1, <2>1, <2>2, <2>3 DEF OwnedOnce
<1>15. Quiet'
  <2> SUFFICES ASSUME NEW x \in Run, x \notin spoofed
               PROVE  /\ queued[x] = 0 /\ Len(pipe'[x]) <= 1
                      /\ child'[x] \in {"none", "fresh", "busy"} => pipe'[x] = <<>>
                      /\ states'[wid[x]] = x /\ child'[x] # "dead" =>
                             child'[x] \in {"fresh", "idle"} /\ pipe'[x] = <<>>
    BY <1>1 DEF Quiet
  <2>1. /\ queued[x] = 0 /\ Len(pipe[x]) <= 1
        /\ child[x] \in {"none", "fresh", "busy"} => pipe[x] = <<>>
        /\ states[wid[x]] = x /\ child[x] # "dead" => child[x] \in {"fresh", "idle"} /\ pipe[x] = <<>>
    BY DEF EngineInv, Quiet
  <2>2. CASE x = c
    <3>1. pipe'[x] = <<>> /\ child'[x] \in {"idle", "ending", "dead"}
      BY <1>1, <1>2, <1>4, <1>5, <2>1, <2>2 DEF EngineInv, TypeOK, Dropped
    <3>2. child'[x] # "ending"
      BY <1>1, <2>2, <1>5 DEF EngineInv, Reachable, Dropped
    <3> QED
      BY <2>1, <3>1, <3>2
  <2>3. CASE x # c
    <3>1. pipe'[x] = pipe[x] /\ (states'[wid[x]] = x => states[wid[x]] = x)
      BY <1>2, <1>3, <1>12, <2>3 DEF EngineInv, TypeOK
    <3>2. child'[x] = child[x] \/ (x = old /\ child'[x] = Dropped(x))
      BY <1>1, <1>12, <2>3
    <3> QED
      BY <2>1, <3>1, <3>2, <1>3, <1>12 DEF Dropped
  <2> QED
    BY <2>2, <2>3
<1>16. Reachable'
  <2> SUFFICES ASSUME NEW x \in Run
               PROVE  /\ child'[x] = "ending" => x \in spoofed
                      /\ Listens(x)' => \/ at'[x] = "spawned"
                                        \/ states'[wid[x]] = x
                                        \/ \E q \in Run : blocking'[q] = x
    BY <1>1 DEF Reachable
  <2>1. /\ child[x] = "ending" => x \in spoofed
        /\ Listens(x) => \/ at[x] = "spawned" \/ states[wid[x]] = x
                         \/ \E q \in Run : blocking[q] = x
    BY DEF EngineInv, Reachable
  <2>2. CASE x = left
    <3>1. child'[x] = Dropped(x)
      BY <1>1, <2>2
    <3>2. x \notin spoofed => child[x] # "busy"
      BY <1>3, <1>5, <1>12, <2>2 DEF EngineInv, Quiet
    <3> QED
      BY <3>1, <3>2 DEF Dropped, Listens
  <2>3. CASE x # left
    <3>1. child'[x] = child[x]
      BY <1>1, <2>3
    <3>2. at[x] = "spawned" => at'[x] = "spawned"
      BY <1>6 DEF EngineInv, TypeOK
    <3>3. x = c => states'[wid[x]] = x
      BY <1>3, <1>12, <2>3
    <3>4. x # c => (states[wid[x]] = x => states'[wid[x]] = x)
                   /\ \A q \in Run : blocking[q] = x => blocking'[q] = x
      BY <1>3, <1>12, <2>3
    <3> QED
      BY <2>1, <3>1, <3>2, <3>3, <3>4 DEF Listens
  <2> QED
    BY <2>2, <2>3
<1>17. Phases'
  BY <1>1, <1>6, <1>12 DEF EngineInv, TypeOK, Phases, MoreSteps, InSetup
<1>18. OwnEntry'
  <2> SUFFICES ASSUME NEW q \in Alone
               PROVE  /\ q \notin mishaps
                      /\ at'[q] \in InSetup => states'[wid[q]] = Absent
                      /\ at'[q] = "ready" => states'[wid[q]] = q
                      /\ at'[q] = "stepping" => states'[wid[q]] = Taken
                      /\ at'[q] = "rmdir" \/ (at'[q] = "over" /\ q \notin faulty) =>
                             states'[wid[q]] = Absent
                      /\ at'[q] = "over" /\ q \notin faulty => (wid[q] \in dirs => q \in overtaken)
    BY <1>1 DEF OwnEntry, Alone
  <2>1. /\ q \in Run /\ q \notin mishaps
        /\ at[q] \in InSetup => states[wid[q]] = Absent
        /\ at[q] = "ready" => states[wid[q]] = q
        /\ at[q] = "stepping" => states[wid[q]] = Taken
        /\ at[q] = "rmdir" \/ (at[q] = "over" /\ q \notin faulty) => states[wid[q]] = Absent
        /\ at[q] = "over" /\ q \notin faulty => (wid[q] \in dirs => q \in overtaken)
    BY DEF EngineInv, OwnEntry, Alone
  <2>2. CASE q = r
    <3>1. c = r /\ (r \in listening => old = Taken)
      BY <1>1, <1>3, <1>6, <2>1, <2>2 DEF Alone, old
    <3>2. r \in listening => states'[wid[r]] = r
      BY <1>12, <3>1, EngineAssumption DEF PutBack, old
    <3>3. r \notin listening => states' = states
      BY <1>12
    <3> QED
      BY <1>6, <2>1, <2>2, <3>2, <3>3 DEF EngineInv, TypeOK, InSetup
  <2>3. CASE q # r
    <3>1. at'[q] = at[q] /\ wid[q] # wid[r]
      BY <1>6, <2>1, <2>3 DEF EngineInv, TypeOK, Alone
    <3>2. states'[wid[q]] = states[wid[q]]
      BY <1>3, <1>12, <2>1, <3>1
    <3> QED
      BY <2>1, <3>1, <3>2
  <2> QED
    BY <2>2, <2>3
<1> QED
  BY <1>11, <1>13, <1>14, <1>15, <1>16, <1>17, <1>18 DEF EngineInv

\* The future is dropped; its blocking task keeps its container.
LEMMA WorkflowTimeoutStep ==
    ASSUME EngineInv, NEW r \in Run, WorkflowTimeout(r)
    PROVE  EngineInv'
<1>1. TypeOK'
  BY EngineAssumption DEF EngineInv, TypeOK, Place, InSetup, InSteps, ChildState,
                          WorkflowTimeout, Goto, DropFuture, Dropped, containers,
                          folders, taskVars
<1>2. Homes'
  BY EngineAssumption DEF EngineInv, Homes, WorkflowTimeout, Goto, DropFuture, Dropped,
                          containers, folders, taskVars
<1>3. OwnedOnce'
  BY EngineAssumption DEF EngineInv, OwnedOnce, TypeOK, InSetup, WorkflowTimeout, Goto,
                          DropFuture, Dropped, containers, folders, taskVars
<1>4. Quiet'
  BY EngineAssumption DEF EngineInv, Quiet, TypeOK, OwnedOnce, InSetup,
                          WorkflowTimeout, Goto, DropFuture, Dropped, containers,
                          folders, taskVars
<1>5. Reachable'
  BY EngineAssumption DEF EngineInv, Reachable, TypeOK, Listens, OwnedOnce, InSetup,
                          WorkflowTimeout, Goto, DropFuture, Dropped, containers,
                          folders, taskVars
<1>6. Phases'
  BY EngineAssumption DEF EngineInv, Phases, TypeOK, InSetup, MoreSteps,
                          WorkflowTimeout, Goto, DropFuture, Dropped, containers,
                          folders, taskVars
<1>7. OwnEntry'
  BY EngineAssumption DEF EngineInv, OwnEntry, Alone, InSetup, TypeOK, WorkflowTimeout,
                          Goto, DropFuture, Dropped, containers, folders, taskVars
<1> QED
  BY <1>1, <1>2, <1>3, <1>4, <1>5, <1>6, <1>7 DEF EngineInv

\* An abort drops it too, and destroys nothing.
LEMMA AbortRunStep ==
    ASSUME EngineInv, NEW r \in Run, AbortRun(r)
    PROVE  EngineInv'
<1>1. TypeOK'
  BY EngineAssumption DEF EngineInv, TypeOK, Place, InSetup, InSteps, ChildState,
                          AbortRun, Goto, DropFuture, Dropped, Fault, containers,
                          folders, taskVars
<1>2. Homes'
  BY EngineAssumption DEF EngineInv, Homes, AbortRun, Goto, DropFuture, Dropped, Fault,
                          containers, folders, taskVars
<1>3. OwnedOnce'
  BY EngineAssumption DEF EngineInv, OwnedOnce, TypeOK, InSetup, AbortRun, Goto,
                          DropFuture, Dropped, Fault, containers, folders, taskVars
<1>4. Quiet'
  BY EngineAssumption DEF EngineInv, Quiet, TypeOK, OwnedOnce, InSetup, AbortRun, Goto,
                          DropFuture, Dropped, Fault, containers, folders, taskVars
<1>5. Reachable'
  BY EngineAssumption DEF EngineInv, Reachable, TypeOK, Listens, OwnedOnce, InSetup,
                          AbortRun, Goto, DropFuture, Dropped, Fault, containers,
                          folders, taskVars
<1>6. Phases'
  BY EngineAssumption DEF EngineInv, Phases, TypeOK, InSetup, MoreSteps, AbortRun,
                          Goto, DropFuture, Dropped, Fault, containers, folders,
                          taskVars
<1>7. OwnEntry'
  BY EngineAssumption DEF EngineInv, OwnEntry, Alone, InSetup, TypeOK, AbortRun, Goto,
                          DropFuture, Dropped, Fault, containers, folders, taskVars
<1> QED
  BY <1>1, <1>2, <1>3, <1>4, <1>5, <1>6, <1>7 DEF EngineInv

\* An interrupted call to the file system comes to its end.
LEMMA FileCallEndsStep ==
    ASSUME EngineInv, NEW r \in Run, FileCallEnds(r)
    PROVE  EngineInv'
<1>1. /\ wid' = wid /\ at' = at /\ step' = step /\ states' = states /\ child' = child
      /\ queued' = queued /\ pipe' = pipe /\ spoofed' = spoofed /\ blocking' = blocking
      /\ listening' = listening /\ mishaps' = mishaps /\ faulty' = faulty
      /\ fscalls' \subseteq fscalls
      /\ overtaken' \in {overtaken, overtaken \cup {r}} /\ dirs' \subseteq dirs \cup {wid[r]}
      /\ wid[r] \in dirs' => wid[r] \in dirs \/ at[r] # "over" \/ r \in overtaken'
  BY DEF FileCallEnds, containers, taskVars
<1>2. wid \in [Run -> Wid]
  BY EngineAssumption DEF EngineInv, TypeOK
<1>3. TypeOK'
  <2>1. dirs' \in SUBSET Wid /\ overtaken' \in SUBSET Run
        /\ fscalls' \in SUBSET (Run \X {"create", "remove"})
    BY <1>1, <1>2 DEF EngineInv, TypeOK
  <2> QED
    BY <1>1, <2>1 DEF EngineInv, TypeOK
<1>4. Homes' /\ OwnedOnce' /\ Quiet'
  BY <1>1 DEF EngineInv, Homes, OwnedOnce, Quiet
<1>5. Reachable' /\ Phases'
  BY <1>1 DEF EngineInv, Reachable, Listens, Phases, MoreSteps
<1>6. OwnEntry'
  <2> SUFFICES ASSUME NEW q \in Alone, at[q] = "over", q \notin faulty, wid[q] \in dirs'
               PROVE  q \in overtaken'
    BY <1>1 DEF EngineInv, OwnEntry, Alone
  <2>1. q \in Run /\ (q # r => wid[q] # wid[r]) /\ (wid[q] \in dirs => q \in overtaken)
    BY DEF EngineInv, OwnEntry, Alone
  <2> QED
    BY <1>1, <2>1
<1> QED
  BY <1>3, <1>4, <1>5, <1>6 DEF EngineInv

\* The entry goes, and what is in it dies or is dropped.
LEMMA DestroyStep ==
    ASSUME EngineInv, NEW r \in Run, Destroy(r)
    PROVE  EngineInv'
<1> DEFINE c == states[wid[r]]
<1>1. /\ wid' = wid /\ step' = step /\ queued' = queued /\ pipe' = pipe /\ spoofed' = spoofed
      /\ blocking' = blocking /\ listening' = listening /\ mishaps' = mishaps
      /\ dirs' = dirs /\ fscalls' = fscalls /\ overtaken' = overtaken /\ at[r] = "destroy"
      /\ at' = [at EXCEPT ![r] = "rmdir"] /\ states' = [states EXCEPT ![wid[r]] = Absent]
      /\ faulty' \in {faulty, faulty \cup {r}}
  BY DEF Destroy, Goto, Emptied, Fault, folders
<1>2. /\ c \in Run => child' = [child EXCEPT ![c] = "dead"] \/ child' = [child EXCEPT ![c] = Dropped(c)]
      /\ c \notin Run => child' = child
  BY DEF Destroy
<1>3. /\ wid \in [Run -> Wid] /\ (c \in Run => wid[c] = wid[r] /\ at[c] \notin InSetup)
      /\ (c \in Run => \A q \in Run : blocking[q] # c) /\ Absent \notin Run
  BY EngineAssumption DEF EngineInv, TypeOK, OwnedOnce, Homes
<1>4. /\ at'[r] = "rmdir" /\ states'[wid[r]] = Absent
      /\ \A q \in Run : q # r => at'[q] = at[q]
      /\ \A w \in Wid : w # wid[r] => states'[w] = states[w]
      /\ \A x \in Run : x # c => child'[x] = child[x]
      /\ c \in Run => child'[c] \in {"dead", Dropped(c)}
  BY <1>1, <1>2, <1>3 DEF EngineInv, TypeOK
<1> HIDE DEF c
<1>5. TypeOK'
  <2>1. child' \in [Run -> ChildState]
    BY <1>2 DEF EngineInv, TypeOK, ChildState, Dropped
  <2>2. at' \in [Run -> Place] /\ states' \in [Wid -> Run \cup {Absent, Taken}]
        /\ faulty' \in SUBSET Run
    BY <1>1 DEF EngineInv, TypeOK, Place
  <2> QED
    BY <1>1, <2>1, <2>2 DEF EngineInv, TypeOK
<1>6. Homes'
  BY <1>1, <1>3, <1>4 DEF EngineInv, Homes
<1>7. OwnedOnce'
  <2>1. \A x \in Run : at'[x] \in InSetup => at[x] \in InSetup /\ at'[x] = at[x] /\ child'[x] = child[x]
    BY <1>3, <1>4 DEF InSetup
  <2>2. \A w \in Wid : states'[w] \in Run => states'[w] = states[w]
    BY <1>3, <1>4
  <2>3. \A x \in Run : states'[wid[x]] = x => states[wid[x]] = x
    BY <1>3, <2>2
  <2> QED
    BY <1>1, <2>1, <2>2, <2>3 DEF EngineInv, OwnedOnce
<1>8. Quiet'
  <2> SUFFICES ASSUME NEW x \in Run, x \notin spoofed
               PROVE  /\ queued[x] = 0 /\ Len(pipe[x]) <= 1
                      /\ child'[x] \in {"none", "fresh", "busy"} => pipe[x] = <<>>
                      /\ states'[wid[x]] = x /\ child'[x] # "dead" =>
                             child'[x] \in {"fresh", "idle"} /\ pipe[x] = <<>>
    BY <1>1 DEF Quiet
  <2>1. /\ queued[x] = 0 /\ Len(pipe[x]) <= 1
        /\ child[x] \in {"none", "fresh", "busy"} => pipe[x] = <<>>
        /\ states[wid[x]] = x /\ child[x] # "dead" =>
               child[x] \in {"fresh", "idle"} /\ pipe[x] = <<>>
    BY DEF EngineInv, Quiet
  <2>2. CASE x = c
    BY <1>3, <1>4, <2>1, <2>2 DEF Dropped
  <2>3. CASE x # c
    <3>1. child'[x] = child[x] /\ (states'[wid[x]] = x => states[wid[x]] = x)
      BY <1>3, <1>4, <2>3
    <3> QED
      BY <2>1, <3>1
  <2> QED
    BY <2>2, <2>3
<1>9. Reachable'
  <2> SUFFICES ASSUME NEW x \in Run
               PROVE  /\ child'[x] = "ending" => x \in spoofed
                      /\ Listens(x)' => \/ at'[x] = "spawned" \/ states'[wid[x]] = x
                                        \/ \E q \in Run : blocking[q] = x
    BY <1>1 DEF Reachable
  <2>1. /\ child[x] = "ending" => x \in spoofed
        /\ Listens(x) => \/ at[x] = "spawned" \/ states[wid[x]] = x
                         \/ \E q \in Run : blocking[q] = x
        /\ states[wid[x]] = x /\ child[x] = "busy" => x \in spoofed
    BY DEF EngineInv, Reachable, Quiet
  <2>2. CASE x = c
    <3>1. states[wid[x]] = x /\ child'[x] \in {"dead", Dropped(x)}
      BY <1>3, <1>4, <2>2 DEF c
    <3> QED
      BY <2>1, <3>1 DEF Dropped, Listens
  <2>3. CASE x # c
    <3>1. child'[x] = child[x] /\ (states[wid[x]] = x => states'[wid[x]] = x)
      BY <1>3, <1>4, <2>3 DEF c
    <3>2. at[x] = "spawned" => at'[x] = "spawned"
      BY <1>1, <1>4
    <3> QED
      BY <2>1, <3>1, <3>2 DEF Listens
  <2> QED
    BY <2>2, <2>3
<1>10. Phases'
  BY <1>1, <1>4 DEF EngineInv, Phases, InSetup, MoreSteps
<1>11. OwnEntry'
  <2> SUFFICES ASSUME NEW q \in Alone
               PROVE  /\ q \notin mishaps
                      /\ at'[q] \in InSetup => states'[wid[q]] = Absent
                      /\ at'[q] = "ready" => states'[wid[q]] = q
                      /\ at'[q] = "stepping" => states'[wid[q]] = Taken
                      /\ at'[q] = "rmdir" \/ (at'[q] = "over" /\ q \notin faulty') =>
                             states'[wid[q]] = Absent
                      /\ at'[q] = "over" /\ q \notin faulty' =>
                             (wid[q] \in dirs => q \in overtaken)
    BY <1>1 DEF OwnEntry, Alone
  <2>1. /\ q \in Run /\ q \notin mishaps /\ (q # r => wid[q] # wid[r])
        /\ at[q] \in InSetup => states[wid[q]] = Absent
        /\ at[q] = "ready" => states[wid[q]] = q
        /\ at[q] = "stepping" => states[wid[q]] = Taken
        /\ at[q] = "rmdir" \/ (at[q] = "over" /\ q \notin faulty) => states[wid[q]] = Absent
        /\ at[q] = "over" /\ q \notin faulty => (wid[q] \in dirs => q \in overtaken)
    BY DEF EngineInv, OwnEntry, Alone
  <2>2. CASE q = r
    BY <1>4, <2>1, <2>2 DEF InSetup
  <2>3. CASE q # r
    <3>1. at'[q] = at[q] /\ states'[wid[q]] = states[wid[q]] /\ (q \in faulty' <=> q \in faulty)
      BY <1>1, <1>3, <1>4, <2>1, <2>3
    <3> QED
      BY <2>1, <3>1
  <2> QED
    BY <2>2, <2>3
<1> QED
  BY <1>5, <1>6, <1>7, <1>8, <1>9, <1>10, <1>11 DEF EngineInv

\* The workspace goes, or the execution counts as faulty.
LEMMA RemoveWorkspaceStep ==
    ASSUME EngineInv, NEW r \in Run, RemoveWorkspace(r)
    PROVE  EngineInv'
<1>1. TypeOK'
  BY EngineAssumption DEF EngineInv, TypeOK, Place, InSetup, InSteps, ChildState,
                          RemoveWorkspace, Goto, Fault, containers, folders, taskVars
<1>2. Homes'
  BY EngineAssumption DEF EngineInv, Homes, RemoveWorkspace, Goto, Fault, containers,
                          folders, taskVars
<1>3. OwnedOnce'
  BY EngineAssumption DEF EngineInv, OwnedOnce, TypeOK, InSetup, RemoveWorkspace, Goto,
                          Fault, containers, folders, taskVars
<1>4. Quiet'
  BY EngineAssumption DEF EngineInv, Quiet, TypeOK, RemoveWorkspace, Goto, Fault,
                          containers, folders, taskVars
<1>5. Reachable'
  BY EngineAssumption DEF EngineInv, Reachable, TypeOK, Listens, RemoveWorkspace, Goto,
                          Fault, containers, folders, taskVars
<1>6. Phases'
  BY EngineAssumption DEF EngineInv, Phases, TypeOK, InSetup, MoreSteps,
                          RemoveWorkspace, Goto, Fault, containers, folders, taskVars
<1>7. OwnEntry'
  BY EngineAssumption DEF EngineInv, OwnEntry, Alone, InSetup, TypeOK, RemoveWorkspace,
                          Goto, Fault, containers, folders, taskVars
<1> QED
  BY <1>1, <1>2, <1>3, <1>4, <1>5, <1>6, <1>7 DEF EngineInv

-----------------------------------------------------------------------------
(* The invariant, and what it says                                         *)

\* At first nothing exists.
LEMMA InitInv == Init => EngineInv
<1> SUFFICES ASSUME Init PROVE EngineInv
  OBVIOUS
<1>1. TypeOK
  BY EngineAssumption DEF Init, TypeOK, Place, InSetup, ChildState
<1>2. Homes /\ OwnedOnce /\ Quiet /\ Reachable
  BY EngineAssumption DEF Init, Homes, OwnedOnce, Quiet, Reachable, Listens, InSetup
<1>3. Phases /\ OwnEntry
  BY EngineAssumption DEF Init, Phases, OwnEntry, InSetup, Alone
<1> QED
  BY <1>1, <1>2, <1>3 DEF EngineInv

\* Every step keeps the invariant.
LEMMA NextInv == EngineInv /\ [Next]_vars => EngineInv'
<1> SUFFICES ASSUME EngineInv, [Next]_vars PROVE EngineInv'
  OBVIOUS
<1>1. ASSUME NEW r \in Run, Execute(r) PROVE EngineInv'
  BY <1>1, CreateWorkspaceStep, SpawnContainerStep, StoreContainerStep, TakeContainerStep,
     NoContainerStep, StepsDoneStep, DestroyStep, RemoveWorkspaceStep DEF Execute
<1>2. ASSUME NEW r \in Run, WorkflowTimeout(r) \/ AbortRun(r) PROVE EngineInv'
  BY <1>2, WorkflowTimeoutStep, AbortRunStep
<1>3. ASSUME NEW r \in Run,
             CommandEnds(r) \/ ContainerDies(r) \/ Spoof(r) \/ BlockingEnds(r) \/ FileCallEnds(r)
      PROVE  EngineInv'
  BY <1>3, CommandEndsStep, ContainerDiesStep, SpoofStep, BlockingEndsStep, FileCallEndsStep
<1>4. CASE UNCHANGED vars
  BY <1>4 DEF vars, containers, folders, EngineInv, TypeOK, Homes, OwnedOnce, Quiet, Reachable,
              Listens, Phases, OwnEntry, Alone, MoreSteps
<1> QED
  BY <1>1, <1>2, <1>3, <1>4 DEF Next

\* A set whose elements are all equal has one element, or none.
LEMMA AtMostOne ==
    ASSUME NEW S, \A x, y \in S : x = y
    PROVE  Cardinality(S) = (IF S = {} THEN 0 ELSE 1)
<1>1. CASE S = {}
  BY <1>1, FS_EmptySet
<1>2. CASE S # {}
  <2> PICK x : S = {x}
    BY <1>2
  <2> QED
    BY <1>2, FS_Singleton
<1> QED
  BY <1>1, <1>2

\* Each container has at most one owner, and one if it lives and listens.
LEMMA OwnersCount ==
    ASSUME EngineInv, NEW c \in Run
    PROVE  /\ Owners(c) \in {0, 1}
           /\ Listens(c) => Owners(c) = 1
<1> DEFINE M == {w \in Wid : states[w] = c}
           B == {r \in Run : blocking[r] = c}
<1>1. Cardinality(M) = (IF M = {} THEN 0 ELSE 1)
  <2>1. \A w, v \in M : w = v
    BY DEF EngineInv, Homes
  <2> QED
    BY <2>1, AtMostOne
<1>2. Cardinality(B) = (IF B = {} THEN 0 ELSE 1)
  <2>1. \A r, q \in B : r = q
    BY DEF EngineInv, OwnedOnce
  <2> QED
    BY <2>1, AtMostOne
<1>3. M = {} \/ B = {}
  BY DEF EngineInv, OwnedOnce
<1>4. at[c] = "spawned" => M = {} /\ B = {}
  BY DEF EngineInv, Homes, OwnedOnce, InSetup
<1>5. Listens(c) => at[c] = "spawned" \/ M # {} \/ B # {}
  BY EngineAssumption DEF EngineInv, Reachable, TypeOK
<1>6. Owners(c) = Cardinality(M) + Cardinality(B) + (IF at[c] = "spawned" THEN 1 ELSE 0)
  BY DEF Owners
<1> HIDE DEF M, B
<1> QED
  BY <1>1, <1>2, <1>3, <1>4, <1>5, <1>6

\* The invariant holds of every behaviour.
THEOREM EngineInvariant == Spec => []EngineInv
  BY InitInv, NextInv, PTL DEF Spec

\* Live containers have one owner each, for any executions that share any ids.
THEOREM OneOwnerEach == Spec => []OneOwner
<1>1. EngineInv => OneOwner
  <2> SUFFICES ASSUME EngineInv PROVE OneOwner
    OBVIOUS
  <2>1. ASSUME NEW c \in Run, NEW w \in Wid, states[w] = c, c \notin spoofed, child[c] # "dead"
        PROVE  child[c] \in {"fresh", "idle"} /\ pipe[c] = <<>>
    BY <2>1 DEF EngineInv, Homes, Quiet
  <2> QED
    BY <2>1, OwnersCount DEF OneOwner, EngineInv
<1> QED
  BY <1>1, EngineInvariant, PTL

\* No step of an execution with an id of its own misses its container.
THEOREM StepsFindContainers == Spec => []StepFindsContainer
<1>1. EngineInv => StepFindsContainer
  BY DEF EngineInv, OwnEntry, StepFindsContainer
<1> QED
  BY <1>1, EngineInvariant, PTL

\* Such an execution leaves nothing behind but a container its blocking task has.
THEOREM NothingLeftBehind == Spec => []CleanAfter
<1>1. EngineInv => CleanAfter
  <2> SUFFICES ASSUME EngineInv, NEW r \in Alone, at[r] = "over", r \notin faulty
               PROVE  /\ states[wid[r]] = Absent /\ (wid[r] \in dirs => r \in overtaken)
                      /\ \/ child[r] \in {"none", "dead"} \/ blocking[r] = r
                         \/ child[r] = "ending" /\ r \in spoofed
    BY DEF CleanAfter
  <2>1. states[wid[r]] = Absent /\ (wid[r] \in dirs => r \in overtaken) /\ r \in Run
    BY DEF EngineInv, OwnEntry, Alone
  <2>2. \/ child[r] \in {"none", "dead"} \/ \E q \in Run : blocking[q] = r
        \/ child[r] = "ending" /\ r \in spoofed
    BY <2>1, EngineAssumption DEF EngineInv, TypeOK, Reachable, Listens, ChildState
  <2>3. \A q \in Run : blocking[q] = r => q = r
    BY <2>1 DEF EngineInv, Homes, Alone
  <2> QED
    BY <2>1, <2>2, <2>3
<1> QED
  BY <1>1, EngineInvariant, PTL
=============================================================================
