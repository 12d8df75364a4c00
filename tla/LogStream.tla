----------------------------- MODULE LogStream ------------------------------
(***************************************************************************)
(* The log of a workflow and a client that follows it: the task that runs  *)
(* the steps (crates/tangled-spindle/src/orchestrator.rs), the blocking    *)
(* thread that copies the container's output                               *)
(* (crates/spindle-engine/src/nix_engine.rs), the log file                 *)
(* (crates/spindle-models/src/workflow_logger.rs) and the handler of /logs *)
(* (crates/tangled-spindle/src/router.rs).                                 *)
(*                                                                         *)
(* A line is written piece by piece (serde_json writes to the file without *)
(* a buffer): a piece is a chunk, and a line has two, the second with the  *)
(* newline.  The commands of all steps run in one shell, which prints a    *)
(* sentinel after each; a step is over at the first line that starts with  *)
(* the sentinel, whoever printed it.  A process that a command leaves      *)
(* behind has the shell's stdout, and goes on printing there.              *)
(***************************************************************************)
EXTENDS Integers, Sequences, FiniteSets, SequencesExt, FiniteSetsExt

CONSTANTS Steps,       \* the workflow has steps 1..Steps
          MaxOutput,   \* bound: lines of output in all
          MaxMoves     \* bound: errors, timeouts, cancellations, hang-ups, crashes,
                       \* reconnections, lines that look like a sentinel and
                       \* commands that leave a process behind

ASSUME LogAssumption == Steps \in Nat \ {0} /\ MaxOutput \in Nat /\ MaxMoves \in Nat

VARIABLES row,       \* the workflow's status
          file,      \* the log file exists
          lines,     \* its lines
          half,      \* of the last one only the first chunk was written
          task, step, result,   \* execute_workflow: where, in which step, to which end
          thread,    \* the step whose output is being copied, or 0
          code,      \* what the thread returned
          running,   \* the command the shell executes, or 0
          given,     \* commands written to the shell
          spoofed,   \* a command printed a line that looks like a sentinel
          behind,    \* commands that ended and left a process that prints
          foreign,   \* the row was made final by another than the task, or a thread
                     \* was left copying
          at,        \* the client's handler
          offset,    \* its position in the file, in chunks
          got,       \* the chunks sent
          moves

rowfile == <<row, file, lines, half>>
worker == <<task, step, result>>
shell == <<thread, code, running, given, spoofed, behind>>
client == <<at, offset, got>>
vars == <<rowfile, worker, shell, foreign, client, moves>>

Move == moves < MaxMoves /\ moves' = moves + 1
NoMove == UNCHANGED moves

Final == {"success", "failed", "timeout", "cancelled"}
Finished == row \in Final

Line == [kind : {"start", "data", "blank", "end"}, step : 1 .. Steps, from : 1 .. Steps]
Size == 2 * Len(lines) - (IF half THEN 1 ELSE 0)

\* write_log_line holds the lock from the first chunk to the newline.
Put(kind, s, from) ==
    /\ ~half
    /\ lines' = Append(lines, [kind |-> kind, step |-> s, from |-> from])
    /\ half' = TRUE

Newline ==
    /\ half /\ task # "over"
    /\ half' = FALSE
    /\ UNCHANGED <<row, file, lines, worker, shell, foreign, client, moves>>

\* write! hands the line and its newline to the writer one by one, and each
\* makes a line of the log: an empty one follows every line of output.
Owed == lines # <<>> /\ Last(lines).kind = "data"

-----------------------------------------------------------------------------
(* The task.                                                               *)

Announce ==
    /\ task = "new" /\ task' = "pending" /\ row' = "pending"
    /\ UNCHANGED <<file, lines, half, step, result, shell, foreign, client, moves>>

Begin ==
    /\ task = "pending" /\ task' = "log" /\ row' = "running"
    /\ UNCHANGED <<file, lines, half, step, result, shell, foreign, client, moves>>

CreateLog ==
    /\ task = "log"
    /\ \/ file' = TRUE /\ task' = "setup" /\ NoMove /\ UNCHANGED row
       \/ task' = "done" /\ row' = "failed" /\ Move /\ UNCHANGED file
    /\ UNCHANGED <<lines, half, step, result, shell, foreign, client>>

Setup ==
    /\ task = "setup"
    /\ \/ task' = "start" /\ NoMove /\ UNCHANGED result
       \/ task' = "record" /\ result' = "failed" /\ Move
    /\ UNCHANGED <<rowfile, step, shell, foreign, client>>

WriteStart ==
    /\ task = "start" /\ task' = "run"
    /\ Put("start", step, step)
    /\ UNCHANGED <<row, file, step, result, shell, foreign, client, moves>>

\* run_step gives the command to the shell and leaves the rest to a thread.
RunStep ==
    /\ task = "run" /\ ~half /\ thread = 0
    /\ task' = "step" /\ thread' = step /\ given' = given + 1
    /\ running' = IF running = 0 THEN given' ELSE running
    /\ UNCHANGED <<rowfile, step, result, code, spoofed, behind, foreign, client, moves>>

\* A line of output of the command the shell is executing, or of a process that an
\* earlier one left behind.
Output ==
    /\ thread # 0 /\ running # 0 /\ code = "none" /\ ~Owed
    /\ Cardinality({i \in DOMAIN lines : lines[i].kind = "data"}) < MaxOutput
    /\ \E from \in {running} \cup behind : Put("data", thread, from)
    /\ UNCHANGED <<row, file, worker, shell, foreign, client, moves>>

OutputBlank ==
    /\ thread # 0 /\ Owed
    /\ Put("blank", thread, Last(lines).from)
    /\ UNCHANGED <<row, file, worker, shell, foreign, client, moves>>

\* The shell prints the sentinel with the exit code and takes the next
\* command; or a command prints such a line itself, or one that is not UTF-8, and
\* goes on, or its end is among what the reader had read ahead and lost.
Copied == thread # 0 /\ running # 0 /\ code = "none" /\ ~half /\ ~Owed
NextRunning == IF given > running THEN running + 1 ELSE 0

Sentinel ==
    /\ Copied
    /\ code' \in {"ok", "bad"}
    /\ \/ /\ running' = NextRunning /\ UNCHANGED spoofed
          /\ \/ NoMove /\ UNCHANGED behind
             \/ Move /\ behind' = behind \cup {running}
       \/ /\ running' \in {running, NextRunning} /\ Move /\ spoofed' = TRUE
          /\ UNCHANGED behind
    /\ UNCHANGED <<rowfile, worker, thread, given, foreign, client>>

\* The thread ends; a task that waits for it goes on.
StepEnded_AtOutput == code # "none" \/ (Owed /\ thread = step)
StepEnded == code # "none"

StepReturns ==
    /\ thread # 0 /\ StepEnded /\ task # "over"
    /\ thread' = 0
    /\ IF task = "step"
       THEN /\ task' = "end"
            /\ result' = IF code = "bad" THEN "failed" ELSE "success"
       ELSE UNCHANGED <<task, result>>
    /\ code' = "none"
    /\ UNCHANGED <<rowfile, step, running, given, spoofed, behind, foreign, client, moves>>

\* The end line is written whatever the step's result.
WriteEnd ==
    /\ task = "end"
    /\ Put("end", step, step)
    /\ IF result = "success" /\ step < Steps
       THEN task' = "start" /\ step' = step + 1
       ELSE task' = "record" /\ UNCHANGED step
    /\ UNCHANGED <<row, file, result, shell, foreign, client, moves>>

\* workflow_timeout drops what the task awaits, not the thread.
WorkflowTimeout ==
    /\ task \in {"setup", "step"} /\ Move
    /\ task' = "record" /\ result' = "timeout"
    /\ foreign' = (foreign \/ thread # 0)
    /\ UNCHANGED <<rowfile, step, shell, client>>

\* pipeline_timeout aborts the task: nobody writes the row.
Abort ==
    /\ task \in {"setup", "step"} /\ Move
    /\ task' = "done" /\ foreign' = TRUE
    /\ UNCHANGED <<rowfile, step, result, shell, client>>

Record ==
    /\ task = "record" /\ (half => thread # 0)
    /\ row' = result /\ task' = "done"
    /\ UNCHANGED <<file, lines, half, step, result, shell, foreign, client, moves>>

CancelPipeline ==
    /\ row \in {"pending", "running"} /\ task # "over" /\ Move
    /\ row' = "cancelled" /\ foreign' = TRUE
    /\ UNCHANGED <<file, lines, half, worker, shell, client>>

\* The process ends; the next one cancels what was left pending or running.
Crash ==
    /\ task \notin {"new", "over"} /\ Move
    /\ task' = "over" /\ row' = IF Finished THEN row ELSE "cancelled"
    /\ foreign' = TRUE
    /\ thread' = 0 /\ running' = 0 /\ code' = "none"
    /\ at' = IF at \in {"closed", "away"} THEN at ELSE "gone"
    /\ UNCHANGED <<file, lines, half, step, result, given, spoofed, behind, offset, got>>

Execute == \/ Announce \/ Begin \/ CreateLog \/ Setup \/ WriteStart \/ RunStep
           \/ StepReturns \/ WriteEnd \/ Record

-----------------------------------------------------------------------------
(* The handler of /logs.                                                   *)

\* The row is read once; finished, the file is sent as it is, and without a
\* file the socket is dropped.
Connect ==
    /\ at = "away"
    /\ at' = IF ~Finished THEN "open" ELSE IF file THEN "whole" ELSE "gone"
    /\ UNCHANGED <<rowfile, worker, shell, foreign, offset, got, moves>>

\* wait_for_file looks for the file and never at the row.
Open ==
    /\ at \in {"open", "wait"}
    /\ at' = IF file THEN "drain" ELSE "wait"
    /\ at' # at
    /\ UNCHANGED <<rowfile, worker, shell, foreign, offset, got, moves>>

\* read_line stops at a newline or at the end of the file; BufReader has read
\* further, so the file's position is set back to what was taken.
LineEnd == Min({(offset \div 2 + 1) * 2, Size})
NewOffset_ReadAhead == Size
NewOffset == LineEnd

SendLine ==
    /\ at \in {"drain", "last", "whole"} /\ offset < Size
    /\ got' = got \o [i \in 1 .. LineEnd - offset |-> offset + i]
    /\ offset' = NewOffset
    /\ UNCHANGED <<rowfile, worker, shell, foreign, at, moves>>

\* At the end of the file: the row is read, or the stream is closed.
EndOfFile ==
    /\ at \in {"drain", "last", "whole"} /\ offset = Size
    /\ at' = IF at = "drain" THEN "check" ELSE "closed"
    /\ UNCHANGED <<rowfile, worker, shell, foreign, offset, got, moves>>

AfterCheck_NotCancelled == IF Finished /\ row # "cancelled" THEN "last" ELSE "drain"
AfterCheck == IF Finished THEN "last" ELSE "drain"

CheckFinished ==
    /\ at = "check" /\ at' = AfterCheck
    /\ UNCHANGED <<rowfile, worker, shell, foreign, offset, got, moves>>

HangUp ==
    /\ at \in {"open", "wait", "drain", "check", "last", "whole"} /\ Move
    /\ at' = "gone"
    /\ UNCHANGED <<rowfile, worker, shell, foreign, offset, got>>

Reconnect ==
    /\ at \in {"gone", "closed"} /\ Move
    /\ at' = "away" /\ offset' = 0 /\ got' = <<>>
    /\ UNCHANGED <<rowfile, worker, shell, foreign>>

Serve == Connect \/ Open \/ SendLine \/ EndOfFile \/ CheckFinished

-----------------------------------------------------------------------------
Init ==
    /\ row = "none" /\ file = FALSE /\ lines = <<>> /\ half = FALSE
    /\ task = "new" /\ step = 1 /\ result = "none"
    /\ thread = 0 /\ code = "none" /\ running = 0 /\ given = 0
    /\ spoofed = FALSE /\ behind = {} /\ foreign = FALSE
    /\ at = "away" /\ offset = 0 /\ got = <<>>
    /\ moves = 0

Copy == Output \/ OutputBlank \/ Sentinel

Next == \/ Execute \/ Newline \/ Copy \/ Serve
        \/ WorkflowTimeout \/ Abort \/ CancelPipeline \/ Crash \/ HangUp \/ Reconnect

Spec == Init /\ [][Next]_vars

\* A command may print for ever and a step may hang; the rest does not.
FairSpec == Spec /\ WF_vars(Execute) /\ WF_vars(Newline) /\ WF_vars(Serve)

-----------------------------------------------------------------------------
(* Properties.                                                             *)

\* Every variable keeps its type.
TypeOK ==
    /\ row \in Final \cup {"none", "pending", "running"}
    /\ lines \in Seq(Line) /\ (half => lines # <<>>) /\ (lines # <<>> => file)
    /\ thread \in 0 .. Steps /\ running \in 0 .. given /\ given <= Steps
    /\ behind \subseteq 1 .. given
    /\ offset \in 0 .. Size

\* The log tells which step printed what: the first line starts step 1, every
\* other start line comes after the end line of the step before, and every other
\* line belongs to the step that was started last and is still open; and what it
\* says was printed by that step's command, or by a process that the command of an
\* earlier step left behind.  The exception is a command that prints a line that ends
\* the reading like the sentinel: the next step copies the rest of its output.
\* run_step and run_workflow_steps.
Marks == {"start", "end"}
Follows(i, kind, s) ==
    \E j \in 1 .. i - 1 : /\ lines[j].kind = kind /\ lines[j].step = s
                          /\ \A k \in j + 1 .. i - 1 : lines[k].kind \notin Marks
Belongs(i) ==
    IF lines[i].kind = "start"
    THEN IF i = 1 THEN lines[i].step = 1 ELSE Follows(i, "end", lines[i].step - 1)
    ELSE Follows(i, "start", lines[i].step)

PrintedIn(l) == l.from = l.step \/ (l.from < l.step /\ l.from \in behind)

StepsKeepTheirOutput ==
    /\ TypeOK
    /\ \A i \in DOMAIN lines : Belongs(i)
    /\ ~spoofed => \A i \in DOMAIN lines : PrintedIn(lines[i])

\* What a client got is the beginning of the file, each chunk once and in
\* order, however the file grew while it was read; and when the server closes
\* the stream of a workflow that ended by itself, it is the whole file.
ClientGetsTheLog ==
    /\ got = [i \in 1 .. Len(got) |-> i]
    /\ at = "closed" /\ ~foreign => Len(got) = Size

\* A client that follows a workflow is let go when that has ended, if there
\* is a log: the stream is closed, or the client has gone.  (Without one,
\* wait_for_file waits for ever.)
Following == at \in {"open", "wait", "drain", "check", "last", "whole"}
StreamEnds == (Following /\ file /\ Finished) ~> (~Following \/ ~Finished)
=============================================================================
