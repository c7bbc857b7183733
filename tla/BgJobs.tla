------------------------------- MODULE BgJobs -------------------------------
(***************************************************************************)
(* Background jobs: the bg_jobs table (internal/db/job_repo.go), the two   *)
(* kinds of executor that write to it and the users who read it.           *)
(*                                                                         *)
(*  - An MCP job runs in a goroutine of the MCP server (mcp/bg_exec.go);   *)
(*    when that process dies, every MCP job dies with it.                  *)
(*  - A CLI job runs in a process of its own, "job-run", spawned in tmux   *)
(*    by "bg-exec" (cli/session_job.go).  SIGINT and SIGTERM cancel the    *)
(*    context that job-run hands to the command AND to the database, so    *)
(*    its later writes fail; any other signal kills the process.           *)
(*                                                                         *)
(* Every write of an executor is one UPDATE ... WHERE id = ? whose error   *)
(* is dropped: it changes nothing when the row is gone, when the context   *)
(* is done, or when another process holds the database (SQLITE_BUSY).      *)
(*                                                                         *)
(* Output is modelled by its length in lines, which is all that followers  *)
(* compare.  Timestamps are left out.                                      *)
(***************************************************************************)
EXTENDS Integers

CONSTANTS
  McpJobs,    \* ids of the jobs submitted with bg_exec_command
  CliJobs,    \* ids of the jobs submitted with "ssh session bg-exec"
  MaxLines,   \* bound: lines of output a command produces
  BusyWrites, \* jobs whose database calls may fail with SQLITE_BUSY
  Signals,    \* whether job-run may receive SIGINT or SIGTERM
  Crashes     \* whether a process may die

ASSUME JobsAssumption == McpJobs \cap CliJobs = {}
ASSUME LinesAssumption == MaxLines \in Nat
ASSUME JobSwitchAssumption ==
  BusyWrites \subseteq McpJobs \cup CliJobs /\ {Signals, Crashes} \subseteq BOOLEAN

Jobs == McpJobs \cup CliJobs

VARIABLES
  row,     \* row[j]: the row of job j, status "absent" when there is none
  pc,      \* pc[j]: the statement the executor of j is at
  ctxDone, \* ctxDone[j]: job-run's context has been cancelled by a signal
  lines,   \* lines[j]: lines the executor has collected and not yet written
  res,     \* res[j]: the final status and exit code it is going to write
  ran,     \* ran[j]: the command has been written to a remote shell
  lost,    \* lost[j]: a database call of the executor has failed silently
  follow   \* follow[j]: a "logs --follow" of j

jobVars == <<row, pc, ctxDone, lines, res, ran, lost, follow>>

NoExit == -1

ExitCodes == {0, 1, 130}

Statuses == {"pending", "running", "done", "failed", "cancelled"}

NoRow == [status |-> "absent", exit |-> NoExit, output |-> 0]

Row == [status : Statuses \cup {"absent"}, exit : ExitCodes \cup {NoExit}, output : Nat]

NoResult == [status |-> "none", exit |-> NoExit]

Result == [status : {"done", "failed"}, exit : ExitCodes] \cup {NoResult}

NoFollow == [state |-> "idle", printed |-> 0, report |-> "none"]

Follow == [state : {"idle", "polling", "stopped"}, printed : Nat,
           report : {"none", "done", "failed", "cancelled", "notfound", "aborted"}]

Present(j) == row[j].status # "absent"

-----------------------------------------------------------------------------
(* The repository: what one SQL statement does to a row that exists.       *)

InsertedRow == [status |-> "pending", exit |-> NoExit, output |-> 0]

SetRunning(r) == [r EXCEPT !.status = "running"]

SetFinished(r, status, exit) == [r EXCEPT !.status = status, !.exit = exit]

AppendOutput(r, n) == [r EXCEPT !.output = @ + n]

\* Slip: the UPDATE of Cancel without its condition on the status.
CancellableAlways == Statuses

Cancellable == {"pending", "running"}

\* Slip: purge keeps only the rows that have not started.
PurgeableNotPending == Statuses \ {"pending"}

Purgeable == {"done", "failed", "cancelled"}

\* An executor's UPDATE of its own row, of which it ignores the error.
DbFails(j) == ctxDone[j] \/ j \in BusyWrites

\* Slip: writes that insert the row when it is missing.
WriteUpserts(j, new) ==
  \/ /\ ~ctxDone[j]
     /\ row' = [row EXCEPT ![j] = new]
     /\ UNCHANGED lost
  \/ /\ DbFails(j)
     /\ lost' = [lost EXCEPT ![j] = TRUE]
     /\ UNCHANGED row

Write(j, new) ==
  \/ /\ ~ctxDone[j]
     /\ row' = IF Present(j) THEN [row EXCEPT ![j] = new] ELSE row
     /\ UNCHANGED lost
  \/ /\ DbFails(j)
     /\ lost' = [lost EXCEPT ![j] = TRUE]
     /\ UNCHANGED row

-----------------------------------------------------------------------------
(* The stages of an executor.  Stage names the order of the last two       *)
(* statements of runBgJob, of job-run and of their fail() closures: the    *)
(* output is appended first, then the final status is set.                 *)

\* Slips: the two statements swapped; the second one forgotten.
StageFinishFirst == [result |-> "finish", finish |-> "append", append |-> "exited"]

StageNoFinish == [result |-> "append", append |-> "exited", finish |-> "exited"]

Stage == [result |-> "append", append |-> "finish", finish |-> "exited"]

BgExecStages == {"spawn", "spawnFinish", "spawnAppend"}  \* the bg-exec process

RunStages == {"load", "setup", "start", "send", "wait", "append", "finish"}

Stages == {"none", "exited", "unspawned", "dead"} \cup BgExecStages \cup RunStages

Live(j) == pc[j] \in BgExecStages \cup RunStages

\* Slip: the error of Exec is not looked at.
OutcomeIgnoresError(err, code) == [status |-> "done", exit |-> code]

\* The status and exit code of a command whose Exec returned err and code.
Outcome(err, code) == IF err THEN [status |-> "failed", exit |-> 1]
                             ELSE [status |-> "done", exit |-> code]

JobsTypeOK ==
  /\ row \in [Jobs -> Row]
  /\ pc \in [Jobs -> Stages]
  /\ ctxDone \in [Jobs -> BOOLEAN]
  /\ lines \in [Jobs -> Nat]
  /\ res \in [Jobs -> Result]
  /\ ran \in [Jobs -> BOOLEAN]
  /\ lost \in [Jobs -> BOOLEAN]
  /\ follow \in [Jobs -> Follow]

JobsInit ==
  /\ row = [j \in Jobs |-> NoRow]
  /\ pc = [j \in Jobs |-> "none"]
  /\ ctxDone = [j \in Jobs |-> FALSE]
  /\ lines = [j \in Jobs |-> 0]
  /\ res = [j \in Jobs |-> NoResult]
  /\ ran = [j \in Jobs |-> FALSE]
  /\ lost = [j \in Jobs |-> FALSE]
  /\ follow = [j \in Jobs |-> NoFollow]

\* bg_exec_command inserts the row and starts the goroutine; bg-exec inserts
\* the row and goes on to spawn job-run.
Create(j) ==
  /\ pc[j] = "none"
  /\ row' = [row EXCEPT ![j] = InsertedRow]
  /\ pc' = [pc EXCEPT ![j] = IF j \in McpJobs THEN "setup" ELSE "spawn"]
  /\ UNCHANGED <<ctxDone, lines, res, ran, lost, follow>>

\* bg-exec: tmux new-session succeeds or fails. When bg-exec cannot find the path
\* of its own binary it returns before that, and says nothing to the row.
Spawn(j) ==
  /\ pc[j] = "spawn"
  /\ \E next \in {"load", "spawnFinish", "unspawned"} : pc' = [pc EXCEPT ![j] = next]
  /\ UNCHANGED <<row, ctxDone, lines, res, ran, lost, follow>>

\* bg-exec after a failed spawn: the status first, then the error line.
SpawnFinish(j) ==
  /\ pc[j] = "spawnFinish"
  /\ Write(j, SetFinished(row[j], "failed", 1))
  /\ pc' = [pc EXCEPT ![j] = "spawnAppend"]
  /\ UNCHANGED <<ctxDone, lines, res, ran, follow>>

SpawnAppend(j) ==
  /\ pc[j] = "spawnAppend"
  /\ Write(j, AppendOutput(row[j], 1))
  /\ pc' = [pc EXCEPT ![j] = "exited"]
  /\ UNCHANGED <<ctxDone, lines, res, ran, follow>>

\* job-run reads its row; it gives up when the row is gone or the read fails.
Load(j) ==
  /\ pc[j] = "load"
  /\ \/ /\ ~ctxDone[j] /\ Present(j)
        /\ pc' = [pc EXCEPT ![j] = "setup"]
        /\ UNCHANGED lost
     \/ /\ ~Present(j)
        /\ pc' = [pc EXCEPT ![j] = "exited"]
        /\ UNCHANGED lost
     \/ /\ DbFails(j)
        /\ pc' = [pc EXCEPT ![j] = "exited"]
        /\ lost' = [lost EXCEPT ![j] = TRUE]
  /\ UNCHANGED <<row, ctxDone, lines, res, ran, follow>>

\* Slip: an early return that does not call fail().
SetupReturnsSilently(j) ==
  /\ pc[j] = "setup"
  /\ \E next \in {"start", "exited"} : pc' = [pc EXCEPT ![j] = next]
  /\ UNCHANGED <<row, ctxDone, lines, res, ran, lost, follow>>

\* Server lookup, hop chain, dial and managed session: all succeed, or one of
\* them fails and fail() appends one error line and sets the job failed.
Setup(j) ==
  /\ pc[j] = "setup"
  /\ \/ /\ pc' = [pc EXCEPT ![j] = "start"]
        /\ UNCHANGED <<lines, res>>
     \/ /\ pc' = [pc EXCEPT ![j] = Stage.result]
        /\ lines' = [lines EXCEPT ![j] = 1]
        /\ res' = [res EXCEPT ![j] = Outcome(TRUE, NoExit)]
  /\ UNCHANGED <<row, ctxDone, ran, lost, follow>>

Start(j) ==
  /\ pc[j] = "start"
  /\ Write(j, SetRunning(row[j]))
  /\ pc' = [pc EXCEPT ![j] = "send"]
  /\ UNCHANGED <<ctxDone, lines, res, ran, follow>>

\* Exec writes the command to the shell before it looks at its context.
Send(j) ==
  /\ pc[j] = "send"
  /\ \/ /\ ran' = [ran EXCEPT ![j] = TRUE]
        /\ pc' = [pc EXCEPT ![j] = "wait"]
        /\ UNCHANGED res
     \/ /\ res' = [res EXCEPT ![j] = Outcome(TRUE, NoExit)]
        /\ pc' = [pc EXCEPT ![j] = Stage.result]
        /\ UNCHANGED ran
  /\ UNCHANGED <<row, ctxDone, lines, lost, follow>>

\* A line of output reaches the executor's buffer (not the table).
Collects(j) ==
  /\ pc[j] = "wait"
  /\ lines[j] < MaxLines
  /\ lines' = [lines EXCEPT ![j] = @ + 1]
  /\ UNCHANGED <<row, pc, ctxDone, res, ran, lost, follow>>

\* The command ends, or its time or its context does (exit code 130).
ExecEnd(j) ==
  /\ pc[j] = "wait"
  /\ \E code \in ExitCodes : res' = [res EXCEPT ![j] = Outcome(FALSE, code)]
  /\ pc' = [pc EXCEPT ![j] = Stage.result]
  /\ UNCHANGED <<row, ctxDone, lines, ran, lost, follow>>

Appends(j) ==
  /\ pc[j] = "append"
  /\ Write(j, AppendOutput(row[j], lines[j]))
  /\ pc' = [pc EXCEPT ![j] = Stage.append]
  /\ UNCHANGED <<ctxDone, lines, res, ran, follow>>

Finish(j) ==
  /\ pc[j] = "finish"
  /\ Write(j, SetFinished(row[j], res[j].status, res[j].exit))
  /\ pc' = [pc EXCEPT ![j] = Stage.finish]
  /\ UNCHANGED <<ctxDone, lines, res, ran, follow>>

Executor(j) ==
  \/ Spawn(j) \/ SpawnFinish(j) \/ SpawnAppend(j)
  \/ Load(j) \/ Setup(j) \/ Start(j) \/ Send(j) \/ Collects(j) \/ ExecEnd(j)
  \/ Appends(j) \/ Finish(j)

-----------------------------------------------------------------------------
(* What happens to the processes.                                          *)

\* SIGINT or SIGTERM reaches job-run, which only cancels its context.
Signal(j) ==
  /\ Signals
  /\ j \in CliJobs /\ pc[j] \in RunStages /\ ~ctxDone[j]
  /\ ctxDone' = [ctxDone EXCEPT ![j] = TRUE]
  /\ UNCHANGED <<row, pc, lines, res, ran, lost, follow>>

\* bg-exec or job-run is killed: only its own job is concerned.
CliCrash(j) ==
  /\ Crashes
  /\ j \in CliJobs /\ Live(j)
  /\ pc' = [pc EXCEPT ![j] = "dead"]
  /\ UNCHANGED <<row, ctxDone, lines, res, ran, lost, follow>>

\* The MCP server dies and every goroutine with it; nothing looks for the
\* rows it leaves behind when it is started again.
McpCrash ==
  /\ Crashes
  /\ \E j \in McpJobs : Live(j)
  /\ pc' = [j \in Jobs |-> IF j \in McpJobs /\ Live(j) THEN "dead" ELSE pc[j]]
  /\ UNCHANGED <<row, ctxDone, lines, res, ran, lost, follow>>

-----------------------------------------------------------------------------
(* The users.                                                              *)

Cancel(j) ==
  /\ row[j].status \in Cancellable
  /\ row' = [row EXCEPT ![j].status = "cancelled"]
  /\ UNCHANGED <<pc, ctxDone, lines, res, ran, lost, follow>>

Delete(j) ==
  /\ Present(j)
  /\ row' = [row EXCEPT ![j] = NoRow]
  /\ UNCHANGED <<pc, ctxDone, lines, res, ran, lost, follow>>

\* purge and purge --all: one DELETE over the rows of some statuses.
PurgeRows(S) ==
  /\ \E j \in Jobs : row[j].status \in S
  /\ row' = [j \in Jobs |-> IF row[j].status \in S THEN NoRow ELSE row[j]]
  /\ UNCHANGED <<pc, ctxDone, lines, res, ran, lost, follow>>

Purge == PurgeRows(Purgeable)

PurgeAll == PurgeRows(Statuses)

FollowStart(j) ==
  /\ pc[j] # "none" /\ follow[j].state # "polling"
  /\ follow' = [follow EXCEPT ![j] = [NoFollow EXCEPT !.state = "polling"]]
  /\ UNCHANGED <<row, pc, ctxDone, lines, res, ran, lost>>

\* One turn of the follow loop: one SELECT, the output it has not printed
\* yet, and the end of the loop when the status is not pending or running.
Poll(j) ==
  /\ follow[j].state = "polling"
  /\ follow' = [follow EXCEPT ![j] =
       IF ~Present(j) THEN [@ EXCEPT !.state = "stopped", !.report = "notfound"]
       ELSE IF row[j].status \in {"pending", "running"}
            THEN [@ EXCEPT !.printed = row[j].output]
            ELSE [state |-> "stopped", printed |-> row[j].output,
                  report |-> row[j].status]]
  /\ UNCHANGED <<row, pc, ctxDone, lines, res, ran, lost>>

\* The follower is interrupted, or its SELECT fails.
FollowAbort(j) ==
  /\ follow[j].state = "polling"
  /\ follow' = [follow EXCEPT ![j].state = "stopped", ![j].report = "aborted"]
  /\ UNCHANGED <<row, pc, ctxDone, lines, res, ran, lost>>

User(j) == Cancel(j) \/ Delete(j) \/ FollowStart(j) \/ Poll(j) \/ FollowAbort(j)

JobsNext ==
  \/ \E j \in Jobs : \/ Create(j) \/ Executor(j) \/ User(j)
                     \/ Signal(j) \/ CliCrash(j)
  \/ McpCrash \/ Purge \/ PurgeAll

JobsSpec == JobsInit /\ [][JobsNext]_jobVars

(***************************************************************************)
(* The goroutines, job-run and the follow loops are scheduled: connecting, *)
(* the shell's start and Exec are bounded by timeouts, and a follower      *)
(* sleeps half a second between two polls. A handshake is not bounded: a   *)
(* host that accepts is taken to answer or to hang up. Users owe nothing.  *)
(***************************************************************************)
JobsFairness == \A j \in Jobs : WF_jobVars(Executor(j)) /\ WF_jobVars(Poll(j))

JobsFairSpec == JobsSpec /\ JobsFairness
-----------------------------------------------------------------------------
(* Properties.                                                             *)

Final == {"done", "failed"}

(* The executor of j is the writer of its last status: a row is "done" only
   when the executor has left, and "failed" only then or while bg-exec has
   the error line of a failed spawn still to append.  Every other property
   of final rows rests on this order of AppendOutput and SetFinished
   (bg_exec.go:135-138 and 183-184, session_job.go:98-101 and 147-148). *)
FinalRowsHaveNoWriter ==
  \A j \in Jobs :
    /\ row[j].status = "done" => pc[j] = "exited"
    /\ row[j].status = "failed" =>
          \/ pc[j] = "exited"
          \/ j \in CliJobs /\ pc[j] \in {"spawnAppend", "dead"} /\ res[j] = NoResult

(* The inductive invariant behind the properties above and below, job by job:
   what each stage of the executor implies about the row, the result and what
   followers were told. *)
JobInv(j) ==
  /\ pc[j] = "none" => row[j] = NoRow /\ follow[j] = NoFollow
  /\ pc[j] \in {"load", "unspawned"} \cup BgExecStages => j \in CliJobs
  /\ pc[j] \in {"none", "unspawned", "load", "setup", "start", "send", "wait"} \cup BgExecStages
       => res[j] = NoResult
  /\ pc[j] \in {"append", "finish"} => res[j] # NoResult
  /\ pc[j] = "wait" \/ res[j].status = "done" \/ row[j].status = "done" => ran[j]
  /\ pc[j] = "spawnAppend" /\ Present(j) /\ ~lost[j] => row[j].status \in Final
  /\ pc[j] \in {"spawn", "unspawned"} => row[j].status \in {"absent", "pending", "cancelled"}
  /\ follow[j].report \in Final => ~Present(j) \/ row[j].status = follow[j].report

(* A follower that has stopped on "done", or on "failed" of a job that was
   spawned, has printed everything the row will ever hold, whatever was
   cancelled, lost or killed meanwhile: AppendOutput precedes SetFinished and
   one SELECT reads both columns (session_job.go:250-273, bg_exec.go:232-262). *)
FollowerSawEverything ==
  \A j \in Jobs :
    \/ follow[j].report = "done"
    \/ follow[j].report = "failed" /\ res[j] # NoResult
    => ~Present(j) \/ follow[j].printed = row[j].output

(* A row that says "done" stands for a command that really was written to a
   remote shell (bg_exec.go:174-181, session_job.go:138-145): no mix of failed
   setups, broken connections, cancels and lost writes reports success for a
   command that was never started. *)
DoneMeansRan ==
  \A j \in Jobs : row[j].status = "done" => ran[j]

(* The executor has left by itself, by one of its returns. *)
Left(j) == pc[j] \in {"exited", "unspawned"}

(* An executor that left by itself leaves its row final, unless a database
   call of its own failed: no early return of runBgJob, job-run or bg-exec
   forgets to record the outcome, also for a row that was cancelled under it.
   There is one that does: a bg-exec that cannot resolve its own binary
   (session_job.go:58-61) leaves the row as it inserted it, or as a cancel
   did; EveryReturnSettles below is what that refutes. *)
ExitSettlesRow ==
  \A j \in Jobs :
    Left(j) /\ Present(j) /\ ~lost[j] =>
      \/ row[j].status \in Final
      \/ pc[j] = "unspawned" /\ row[j].status \in {"pending", "cancelled"}

(* done and failed are final: a later step only appends the error line of a
   failed spawn or deletes the row; in particular a cancel that comes late
   changes nothing (job_repo.go:153-164). *)
FinalRowsStay ==
  [][\A j \in Jobs :
       row[j].status \in Final /\ Present(j)' =>
         row'[j].status = row[j].status /\ row'[j].exit = row[j].exit]_jobVars

(* purge without --all never takes away a row that an executor has still to
   write its result to, except rows that were cancelled and rows of failed
   spawns (job_repo.go:49 and 178-191). *)
PurgeSparesUnfinished ==
  [][Purge =>
       \A j \in Jobs :
         Present(j) /\ ~Present(j)' /\ Live(j) =>
           row[j].status = "cancelled" \/ pc[j] = "spawnAppend"]_jobVars

(* A follower always stops by itself, by printing the end of the job or by
   finding the row gone, as long as no database call is lost and no process
   is killed: executors always reach SetFinished, but for the bg-exec that
   cannot resolve its own binary, whose job nobody will ever finish. *)
FollowersStop ==
  \A j \in Jobs :
    follow[j].state = "polling" ~> follow[j].state # "polling" \/ pc[j] = "unspawned"

(* Every submitted job ends up final or deleted, cancelled ones included: the
   cancel does not stop the executor, which overwrites it. The exception is
   again the job whose bg-exec could not resolve its own binary. *)
JobsSettle ==
  \A j \in Jobs :
    pc[j] # "none" ~> ~Present(j) \/ row[j].status \in Final \/ pc[j] = "unspawned"

(* The status column, as readers see it. *)
Table == INSTANCE JobTable WITH status <- [j \in Jobs |-> row[j].status]

(* The jobs, with everything that may go wrong around them, implement the
   promise JobTable makes to the readers of the status. *)
ImplementsTable == Table!Spec

(* Everything at once: inductive, as RunningCommands_proofs shows. *)
IInv ==
  /\ JobsTypeOK
  /\ FinalRowsHaveNoWriter /\ ExitSettlesRow /\ FollowerSawEverything
  /\ \A j \in Jobs : JobInv(j)

-----------------------------------------------------------------------------
(* Statements of the documentation that the code does not keep.            *)

(* docs/cli-command-map.md:169: "Job statuses: pending -> running -> done |
   failed | cancelled": cancelled is an end state like the other two. *)
CancelledIsFinal ==
  [][\A j \in Jobs :
       row[j].status = "cancelled" /\ Present(j)' => row'[j].status = "cancelled"]_jobVars

(* docs/cli-command-map.md:169: "Output is captured incrementally and available
   via job logs while the job is still running": a running job's table output
   is never more than the line being written behind what has arrived. *)
OutputIsIncremental ==
  \A j \in Jobs :
    pc[j] = "wait" /\ row[j].status = "running" => lines[j] <= row[j].output + 1

(* session_job.go:80, of job-run: it "writes all output + final status back to
   the DB"; so a job-run that came to its end left a final status. *)
JobRunWritesFinalStatus ==
  \A j \in CliJobs : pc[j] = "exited" /\ Present(j) => row[j].status \in Final

(* docs/cli-command-map.md:169 again, of the command that submits the job: a
   bg-exec that returns has left a row that somebody finishes, or finished. *)
EveryReturnSettles ==
  \A j \in Jobs : Left(j) /\ Present(j) /\ ~lost[j] => row[j].status \in Final

(* session_job.go:372: "Delete finished jobs (done/failed/cancelled)": what purge
   deletes without --all has nobody left who works on it. *)
PurgeTakesFinished ==
  [][Purge => \A j \in Jobs : Present(j) /\ ~Present(j)' => ~Live(j)]_jobVars
=============================================================================
