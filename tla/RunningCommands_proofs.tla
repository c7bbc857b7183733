----------------------- MODULE RunningCommands_proofs -----------------------
(***************************************************************************)
(* Proofs about the two components in which a command runs on while its    *)
(* caller goes on: background jobs (BgJobs), and the persistent bash of a  *)
(* managed session (ManagedSession). They share no state, and no fact of   *)
(* one is used for the other.                                              *)
(*                                                                         *)
(* BgJobs: for any sets of jobs, any MaxLines and any of the fault         *)
(* switches. A step of the system moves one job (its row, executor and     *)
(* follower) and leaves the others alone, except McpCrash and the purges,  *)
(* which do the same thing to several jobs. Local(j) is the part of IInv   *)
(* that speaks of job j; Frame says that it survives a step that does not  *)
(* touch j.                                                                *)
(*                                                                         *)
(* ManagedSession: types for every value of the constants, and, for        *)
(* callers that wait for one Exec before the next, that an Exec that ends  *)
(* reports the status of its own command, and the lines.                   *)
(***************************************************************************)
EXTENDS BgJobs, ManagedSession, SequenceTheorems, FiniteSetTheorems, WellFoundedInduction, TLAPS

-----------------------------------------------------------------------------
(* Background jobs.                                                        *)

Local(j) ==
  /\ JobInv(j)
  /\ row[j].status = "done" => pc[j] = "exited"
  /\ row[j].status = "failed" =>
       \/ pc[j] = "exited"
       \/ j \in CliJobs /\ pc[j] \in {"spawnAppend", "dead"} /\ res[j] = NoResult
  /\ \/ follow[j].report = "done"
     \/ follow[j].report = "failed" /\ res[j] # NoResult
     => ~Present(j) \/ follow[j].printed = row[j].output
  /\ Left(j) /\ Present(j) /\ ~lost[j] =>
       \/ row[j].status \in Final
       \/ pc[j] = "unspawned" /\ row[j].status \in {"pending", "cancelled"}

Same(i) ==
  /\ row'[i] = row[i] /\ pc'[i] = pc[i] /\ res'[i] = res[i] /\ ran'[i] = ran[i]
  /\ lost'[i] = lost[i] /\ follow'[i] = follow[i]

(* The inductive invariant is the type invariant and Local of every job. *)
LEMMA InvIsLocal == IInv <=> JobsTypeOK /\ \A j \in Jobs : Local(j)
BY Zenon DEF IInv, Local, FinalRowsHaveNoWriter, ExitSettlesRow, FollowerSawEverything

LEMMA LocalGivesInv == JobsTypeOK' /\ (\A j \in Jobs : Local(j)') => IInv'
BY Zenon DEF IInv, Local, FinalRowsHaveNoWriter, ExitSettlesRow, FollowerSawEverything

(* A step that leaves the variables of a job alone keeps its invariant. *)
LEMMA Frame == ASSUME NEW i \in Jobs, Local(i), Same(i) PROVE Local(i)'
BY DEF Local, Same, JobInv, Present, Left

(* The same, for the steps that move job j only. *)
Only(j) == \A i \in Jobs \ {j} : Same(i)

LEMMA FrameOnly ==
  ASSUME NEW j \in Jobs, \A i \in Jobs : Local(i), Only(j), Local(j)'
  PROVE  \A i \in Jobs : Local(i)'
BY Frame DEF Only

(* What a write of an executor may do to the table (bg_exec.go and
   session_job.go ignore its error). *)
LEMMA WriteEffect ==
  ASSUME JobsTypeOK, NEW j \in Jobs, NEW new \in Row,
         Present(j) => new.status # "absent", Write(j, new)
  PROVE  /\ row' \in [Jobs -> Row]
         /\ lost' \in [Jobs -> BOOLEAN]
         /\ \A i \in Jobs \ {j} : row'[i] = row[i] /\ lost'[i] = lost[i]
         /\ row'[j] = row[j] \/ row'[j] = new
         /\ Present(j)' <=> Present(j)
         /\ ~Present(j) => row'[j] = row[j]
         /\ ~lost'[j] => ~lost[j] /\ (Present(j) => row'[j] = new)
BY DEF JobsTypeOK, Write, Present

(* The statements of the repository turn rows into rows, and none of them
   makes a row disappear. *)
LEMMA SetRunningRow ==
  ASSUME NEW r \in Row
  PROVE  /\ SetRunning(r) \in Row
         /\ SetRunning(r).status = "running" /\ SetRunning(r).output = r.output
BY DEF Row, SetRunning, Statuses

LEMMA SetFinishedRow ==
  ASSUME NEW r \in Row, NEW s \in Final, NEW e \in ExitCodes
  PROVE  /\ SetFinished(r, s, e) \in Row
         /\ SetFinished(r, s, e).status = s /\ SetFinished(r, s, e).output = r.output
BY DEF Row, SetFinished, Statuses, Final

LEMMA AppendOutputRow ==
  ASSUME NEW r \in Row, NEW n \in Nat
  PROVE  AppendOutput(r, n) \in Row /\ AppendOutput(r, n).status = r.status
BY DEF Row, AppendOutput

LEMMA InitInv == JobsInit => IInv
<1> SUFFICES ASSUME JobsInit PROVE JobsTypeOK /\ \A j \in Jobs : Local(j)
  BY InvIsLocal
<1>1. JobsTypeOK
  BY DEF JobsInit, JobsTypeOK, Row, NoRow, Result, NoResult, Follow, NoFollow, Stages,
         Statuses, ExitCodes, NoExit
<1>2. \A j \in Jobs : Local(j)
  BY DEF JobsInit, Local, JobInv, NoRow, NoResult, NoFollow, BgExecStages, Final, Present, Left
<1>3. QED BY <1>1, <1>2

(* Each step of an executor keeps the invariant. *)
LEMMA ExecutorStep ==
  ASSUME IInv, NEW j \in Jobs, Executor(j)
  PROVE  IInv'
<1> USE DEF Stages, RunStages, BgExecStages, Final, Left
<1>t. JobsTypeOK /\ row[j] \in Row /\ lines[j] \in Nat
  BY InvIsLocal DEF JobsTypeOK
<1>l. Local(j)
  BY InvIsLocal
<1> SUFFICES JobsTypeOK' /\ Only(j) /\ Local(j)'
  BY InvIsLocal, FrameOnly, LocalGivesInv
<1>1. CASE Spawn(j)
  BY <1>t, <1>l, <1>1 DEF Spawn, JobsTypeOK, Only, Same, Local, JobInv, Present
<1>2. CASE SpawnFinish(j)
  <2> DEFINE new == SetFinished(row[j], "failed", 1)
  <2>1. new \in Row /\ new.status = "failed" /\ Write(j, new)
    BY <1>t, <1>2, SetFinishedRow DEF SpawnFinish, ExitCodes
  <2> HIDE DEF new
  <2>2. JobsTypeOK' /\ Only(j)
    BY <1>t, <1>2, <2>1, WriteEffect DEF SpawnFinish, JobsTypeOK, Only, Same
  <2>3. Local(j)'
    BY <1>t, <1>l, <1>2, <2>1, WriteEffect DEF SpawnFinish, JobsTypeOK, Local, JobInv, Present
  <2>4. QED BY <2>2, <2>3
<1>3. CASE SpawnAppend(j)
  <2> DEFINE new == AppendOutput(row[j], 1)
  <2>1. new \in Row /\ new.status = row[j].status /\ Write(j, new)
    BY <1>t, <1>3, AppendOutputRow DEF SpawnAppend
  <2> HIDE DEF new
  <2>2. JobsTypeOK' /\ Only(j)
    BY <1>t, <1>3, <2>1, WriteEffect DEF SpawnAppend, JobsTypeOK, Only, Same, Present
  <2>3. Local(j)'
    BY <1>t, <1>l, <1>3, <2>1, WriteEffect DEF SpawnAppend, JobsTypeOK, Local, JobInv, Present
  <2>4. QED BY <2>2, <2>3
<1>4. CASE Load(j)
  BY <1>t, <1>l, <1>4 DEF Load, JobsTypeOK, Only, Same, Local, JobInv, Present
<1>5. CASE Setup(j)
  BY <1>t, <1>l, <1>5 DEF Setup, Stage, Outcome, JobsTypeOK, Result, NoResult, ExitCodes,
                          Only, Same, Local, JobInv, Present
<1>6. CASE Start(j)
  <2> DEFINE new == SetRunning(row[j])
  <2>1. new \in Row /\ new.status = "running" /\ Write(j, new)
    BY <1>t, <1>6, SetRunningRow DEF Start
  <2> HIDE DEF new
  <2>2. JobsTypeOK' /\ Only(j)
    BY <1>t, <1>6, <2>1, WriteEffect DEF Start, JobsTypeOK, Only, Same
  <2>3. Local(j)'
    BY <1>t, <1>l, <1>6, <2>1, WriteEffect DEF Start, JobsTypeOK, Local, JobInv, Present
  <2>4. QED BY <2>2, <2>3
<1>7. CASE Send(j)
  <2>1. CASE /\ ran' = [ran EXCEPT ![j] = TRUE]
             /\ pc' = [pc EXCEPT ![j] = "wait"]
             /\ UNCHANGED res
    <3>1. JobsTypeOK' /\ Only(j)
      BY <1>t, <1>7, <2>1 DEF Send, JobsTypeOK, Only, Same
    <3>2. pc'[j] = "wait" /\ ran'[j] /\ pc[j] = "send"
      BY <1>t, <1>7, <2>1 DEF Send, JobsTypeOK
    <3>3. Local(j)'
      BY <1>t, <1>l, <1>7, <2>1, <3>2 DEF Send, Local, JobInv, Present
    <3>4. QED BY <3>1, <3>3
  <2>2. CASE /\ res' = [res EXCEPT ![j] = Outcome(TRUE, NoExit)]
             /\ pc' = [pc EXCEPT ![j] = Stage.result]
             /\ UNCHANGED ran
    <3>1. JobsTypeOK' /\ Only(j)
      BY <1>t, <1>7, <2>2 DEF Send, Stage, Outcome, JobsTypeOK, Result, ExitCodes, Only, Same
    <3>2. Local(j)'
      BY <1>t, <1>l, <1>7, <2>2
         DEF Send, Stage, Outcome, JobsTypeOK, NoResult, Local, JobInv, Present
    <3>3. QED BY <3>1, <3>2
  <2>3. QED BY <1>7, <2>1, <2>2 DEF Send
<1>8. CASE Collects(j)
  BY <1>t, <1>l, <1>8 DEF Collects, JobsTypeOK, Only, Same, Local, JobInv, Present
<1>9. CASE ExecEnd(j)
  BY <1>t, <1>l, <1>9 DEF ExecEnd, Stage, Outcome, JobsTypeOK, Result, NoResult, ExitCodes,
                          Only, Same, Local, JobInv, Present
<1>10. CASE Appends(j)
  <2> DEFINE new == AppendOutput(row[j], lines[j])
  <2>1. new \in Row /\ new.status = row[j].status /\ Write(j, new)
    BY <1>t, <1>10, AppendOutputRow DEF Appends
  <2> HIDE DEF new
  <2>2. JobsTypeOK' /\ Only(j)
    BY <1>t, <1>10, <2>1, WriteEffect DEF Appends, Stage, JobsTypeOK, Only, Same, Present
  <2>3. Local(j)'
    BY <1>t, <1>l, <1>10, <2>1, WriteEffect DEF Appends, Stage, JobsTypeOK, Local, JobInv, Present
  <2>4. QED BY <2>2, <2>3
<1>11. CASE Finish(j)
  <2> DEFINE new == SetFinished(row[j], res[j].status, res[j].exit)
  <2>1. res[j] # NoResult /\ res[j].status \in Final /\ res[j].exit \in ExitCodes
    BY <1>t, <1>l, <1>11 DEF Finish, Local, JobInv, JobsTypeOK, Result
  <2>2. new \in Row /\ new.status = res[j].status /\ Write(j, new)
    BY <1>t, <1>11, <2>1, SetFinishedRow DEF Finish
  <2> HIDE DEF new
  <2>3. JobsTypeOK' /\ Only(j)
    BY <1>t, <1>11, <2>1, <2>2, WriteEffect DEF Finish, Stage, JobsTypeOK, Only, Same
  <2>4. Local(j)'
    BY <1>t, <1>l, <1>11, <2>1, <2>2, WriteEffect
       DEF Finish, Stage, JobsTypeOK, Local, JobInv, Present
  <2>5. QED BY <2>3, <2>4
<1>12. QED
  BY <1>1, <1>2, <1>3, <1>4, <1>5, <1>6, <1>7, <1>8, <1>9, <1>10, <1>11 DEF Executor

(* So do the submission of a job and what users and signals do to it. *)
LEMMA JobStep ==
  ASSUME IInv, NEW j \in Jobs, Create(j) \/ User(j) \/ Signal(j) \/ CliCrash(j)
  PROVE  IInv'
<1> USE DEF Stages, RunStages, BgExecStages, Final, Left
<1>t. JobsTypeOK /\ row[j] \in Row /\ follow[j] \in Follow
  BY InvIsLocal DEF JobsTypeOK
<1>l. Local(j)
  BY InvIsLocal
<1> SUFFICES JobsTypeOK' /\ Only(j) /\ Local(j)'
  BY InvIsLocal, FrameOnly, LocalGivesInv
<1>1. CASE Create(j)
  <2>1. InsertedRow \in Row /\ InsertedRow.status = "pending"
    BY DEF InsertedRow, Row, Statuses, NoExit
  <2>2. JobsTypeOK' /\ Only(j)
    BY <1>t, <1>1, <2>1 DEF Create, JobsTypeOK, Only, Same
  <2>3. Local(j)'
    BY <1>t, <1>l, <1>1, <2>1 DEF Create, JobsTypeOK, Jobs, NoFollow, NoResult, Local, JobInv, Present
  <2>4. QED BY <2>2, <2>3
<1>2. CASE Cancel(j)
  <2>1. row'[j].status = "cancelled" /\ row'[j].output = row[j].output /\ row'[j] \in Row
    BY <1>t, <1>2 DEF Cancel, JobsTypeOK, Row, Statuses
  <2>2. JobsTypeOK' /\ Only(j)
    BY <1>t, <1>2, <2>1 DEF Cancel, JobsTypeOK, Only, Same
  <2>3. Local(j)'
    BY <1>t, <1>l, <1>2, <2>1 DEF Cancel, Cancellable, JobsTypeOK, NoRow, Local, JobInv, Present
  <2>4. QED BY <2>2, <2>3
<1>3. CASE Delete(j)
  <2>1. NoRow \in Row /\ NoRow.status = "absent"
    BY DEF NoRow, Row, Statuses, NoExit
  <2>2. QED
    BY <1>t, <1>l, <1>3, <2>1 DEF Delete, JobsTypeOK, Only, Same, Local, JobInv, Present
<1>4. CASE FollowStart(j)
  BY <1>t, <1>l, <1>4 DEF FollowStart, NoFollow, JobsTypeOK, Follow, Only, Same, Local, JobInv, Present
<1>5. CASE Poll(j)
  <2>1. pc[j] # "none" /\ row[j].output \in Nat
    BY <1>t, <1>l, <1>5 DEF Poll, Local, JobInv, NoFollow, Row
  <2>2. CASE ~Present(j)
    <3>1. follow'[j] \in Follow /\ follow'[j].report = "notfound"
      BY <1>t, <1>5, <2>2 DEF Poll, JobsTypeOK, Follow
    <3>2. JobsTypeOK' /\ Only(j)
      BY <1>t, <1>5, <2>2, <3>1 DEF Poll, JobsTypeOK, Only, Same
    <3>3. Local(j)'
      BY <1>t, <1>l, <1>5, <2>1, <3>1 DEF Poll, Local, JobInv, Present
    <3>4. QED BY <3>2, <3>3
  <2>3. CASE Present(j) /\ row[j].status \in {"pending", "running"}
    <3>1. follow'[j] \in Follow /\ follow'[j].report = follow[j].report
      BY <1>t, <1>5, <2>1, <2>3 DEF Poll, JobsTypeOK, Follow
    <3>2. JobsTypeOK' /\ Only(j)
      BY <1>t, <1>5, <2>3, <3>1 DEF Poll, JobsTypeOK, Only, Same
    <3>3. follow[j].report \notin Final
      BY <1>l, <2>3 DEF Local, JobInv
    <3>4. Local(j)'
      BY <1>t, <1>l, <1>5, <2>1, <3>1, <3>3 DEF Poll, Local, JobInv, Present
    <3>5. QED BY <3>2, <3>4
  <2>4. CASE Present(j) /\ row[j].status \notin {"pending", "running"}
    BY <1>t, <1>l, <1>5, <2>4
       DEF Poll, JobsTypeOK, Follow, Row, NoRow, Statuses, Only, Same, Local, JobInv, Present
  <2>5. QED BY <2>2, <2>3, <2>4
<1>6. CASE FollowAbort(j)
  <2>1. pc[j] # "none"
    BY <1>t, <1>l, <1>6 DEF FollowAbort, Local, JobInv, NoFollow
  <2>2. follow'[j] \in Follow /\ follow'[j].report = "aborted"
    BY <1>t, <1>6 DEF FollowAbort, JobsTypeOK, Follow
  <2>3. JobsTypeOK' /\ Only(j)
    BY <1>t, <1>6, <2>2 DEF FollowAbort, JobsTypeOK, Only, Same
  <2>4. Local(j)'
    BY <1>t, <1>l, <1>6, <2>1, <2>2 DEF FollowAbort, Local, JobInv, Present
  <2>5. QED BY <2>3, <2>4
<1>7. CASE Signal(j)
  BY <1>t, <1>l, <1>7 DEF Signal, JobsTypeOK, Only, Same, Local, JobInv, Present
<1>8. CASE CliCrash(j)
  BY <1>t, <1>l, <1>8 DEF CliCrash, Live, JobsTypeOK, Only, Same, Local, JobInv, Present
<1>9. QED
  BY <1>1, <1>2, <1>3, <1>4, <1>5, <1>6, <1>7, <1>8 DEF User

(* The two kinds of steps that concern several jobs at once. *)
LEMMA McpCrashStep == ASSUME IInv, McpCrash PROVE IInv'
<1> USE DEF Stages, RunStages, BgExecStages, Final, Left
<1>1. JobsTypeOK'
  BY InvIsLocal DEF McpCrash, JobsTypeOK
<1>2. ASSUME NEW j \in Jobs PROVE Local(j)'
  BY InvIsLocal DEF McpCrash, Live, Jobs, JobsAssumption, JobsTypeOK, Local, JobInv, Present
<1>3. QED BY <1>1, <1>2, LocalGivesInv

LEMMA PurgeStep == ASSUME IInv, NEW S, PurgeRows(S) PROVE IInv'
<1>1. NoRow \in Row /\ NoRow.status = "absent"
  BY DEF NoRow, Row, Statuses, NoExit
<1>2. JobsTypeOK'
  BY <1>1, InvIsLocal DEF PurgeRows, JobsTypeOK
<1>3. ASSUME NEW j \in Jobs PROVE Local(j)'
  <2>1. JobsTypeOK /\ Local(j)
    BY InvIsLocal
  <2>2. row'[j] = NoRow \/ row'[j] = row[j]
    BY <2>1 DEF PurgeRows, JobsTypeOK
  <2>3. QED
    BY <1>1, <2>1, <2>2 DEF PurgeRows, Local, JobInv, Present, Final, Left
<1>4. QED BY <1>2, <1>3, LocalGivesInv

LEMMA Inductive == IInv /\ [JobsNext]_jobVars => IInv'
<1> SUFFICES ASSUME IInv, [JobsNext]_jobVars PROVE IInv'
  OBVIOUS
<1>1. ASSUME NEW j \in Jobs,
             Create(j) \/ Executor(j) \/ User(j) \/ Signal(j) \/ CliCrash(j)
      PROVE  IInv'
  BY <1>1, ExecutorStep, JobStep
<1>2. CASE McpCrash
  BY <1>2, McpCrashStep
<1>3. CASE Purge \/ PurgeAll
  BY <1>3, PurgeStep DEF Purge, PurgeAll
<1>4. CASE UNCHANGED jobVars
  <2>1. JobsTypeOK'
    BY <1>4, InvIsLocal DEF JobsTypeOK, jobVars
  <2>2. ASSUME NEW j \in Jobs PROVE Local(j)'
    BY <1>4, InvIsLocal, Frame DEF Same, jobVars
  <2>3. QED BY <2>1, <2>2, LocalGivesInv
<1>5. QED
  BY <1>1, <1>2, <1>3, <1>4 DEF JobsNext

(* Every reachable state satisfies the inductive invariant, and with it the
   types and the four safety properties of the rows and their followers. *)
THEOREM Invariance == JobsSpec => []IInv
BY InitInv, Inductive, PTL DEF JobsSpec

(* Values stay in their types, for any number of jobs, crashes and losses. *)
THEOREM JobsTypeCorrect == JobsSpec => []JobsTypeOK
<1>1. IInv => JobsTypeOK
  BY DEF IInv
<1>2. QED BY <1>1, Invariance, PTL

(* A "done" row has no writer left, and a "failed" one at most bg-exec. *)
THEOREM FinalRowsHaveNoWriterHolds == JobsSpec => []FinalRowsHaveNoWriter
<1>1. IInv => FinalRowsHaveNoWriter
  BY DEF IInv
<1>2. QED BY <1>1, Invariance, PTL

(* Followers that stopped on the end of a job have printed all of it. *)
THEOREM FollowerSawEverythingHolds == JobsSpec => []FollowerSawEverything
<1>1. IInv => FollowerSawEverything
  BY DEF IInv
<1>2. QED BY <1>1, Invariance, PTL

(* "done" is only ever said of a command that was started. *)
THEOREM DoneMeansRanHolds == JobsSpec => []DoneMeansRan
<1>1. IInv => DoneMeansRan
  BY DEF IInv, JobInv, DoneMeansRan
<1>2. QED BY <1>1, Invariance, PTL

(* An executor that left without losing a write left a final row, or is the
   bg-exec that could not resolve its own binary. *)
THEOREM ExitSettlesRowHolds == JobsSpec => []ExitSettlesRow
<1>1. IInv => ExitSettlesRow
  BY DEF IInv
<1>2. QED BY <1>1, Invariance, PTL

-----------------------------------------------------------------------------
(* How the status of a row moves.                                          *)

StatusStep(j) == row'[j].status = row[j].status /\ row'[j].exit = row[j].exit

(* A row that is final changes its status only by being deleted: of the
   statements of the executor and of bg-exec, none that writes a status is
   still to come. *)
LEMMA FinalStep ==
  ASSUME IInv, [JobsNext]_jobVars, NEW j \in Jobs, row[j].status \in Final, Present(j)'
  PROVE  StatusStep(j)
<1> USE DEF Final, RunStages, BgExecStages
<1>1. /\ JobsTypeOK /\ Local(j)
      /\ pc[j] \in {"exited", "spawnAppend", "dead"}
      /\ pc[j] # "none"
  BY InvIsLocal DEF Local
<1>2. ASSUME NEW i \in Jobs, i # j, Create(i) \/ Executor(i) \/ User(i) \/ Signal(i) \/ CliCrash(i)
      PROVE  row'[j] = row[j]
  BY <1>1, <1>2
     DEF JobsTypeOK, Create, Executor, Spawn, SpawnFinish, SpawnAppend, Load, Setup, Start, Send,
         Collects, ExecEnd, Appends, Finish, User, Cancel, Delete, FollowStart, Poll,
         FollowAbort, Signal, CliCrash, Write
<1>3. CASE Create(j) \/ Signal(j) \/ CliCrash(j) \/ Cancel(j) \/ Delete(j)
           \/ FollowStart(j) \/ Poll(j) \/ FollowAbort(j)
  BY <1>1, <1>3
     DEF Create, Signal, CliCrash, Cancel, Cancellable, Delete, NoRow, Present, FollowStart,
         Poll, FollowAbort, StatusStep, JobsTypeOK
<1>4. CASE Executor(j)
  <2>1. SpawnAppend(j)
    BY <1>1, <1>4 DEF Executor, Spawn, SpawnFinish, Load, Setup, Start, Send, Collects,
                      ExecEnd, Appends, Finish
  <2>2. row' = row \/ row'[j] = AppendOutput(row[j], 1)
    BY <1>1, <2>1 DEF SpawnAppend, Write, JobsTypeOK
  <2>3. row[j] \in Row
    BY <1>1 DEF JobsTypeOK
  <2>4. QED
    BY <2>2, <2>3 DEF AppendOutput, StatusStep, Row
<1>5. CASE McpCrash
  BY <1>5 DEF McpCrash, StatusStep
<1>6. CASE Purge \/ PurgeAll
  BY <1>1, <1>6 DEF Purge, PurgeAll, PurgeRows, NoRow, Present, StatusStep
<1>7. CASE UNCHANGED jobVars
  BY <1>7 DEF jobVars, StatusStep
<1>8. QED
  BY <1>2, <1>3, <1>4, <1>5, <1>6, <1>7 DEF JobsNext, User, StatusStep

(* done and failed are final. *)
THEOREM FinalRowsStayHolds == JobsSpec => FinalRowsStay
<1>1. IInv /\ [JobsNext]_jobVars =>
        [\A j \in Jobs :
           row[j].status \in Final /\ Present(j)' =>
             row'[j].status = row[j].status /\ row'[j].exit = row[j].exit]_jobVars
  BY FinalStep DEF StatusStep
<1>2. QED BY <1>1, Invariance, PTL DEF JobsSpec, FinalRowsStay

(* purge spares the rows whose executor has a result to write. *)
THEOREM PurgeSparesUnfinishedHolds == JobsSpec => PurgeSparesUnfinished
<1>1. IInv => [Purge =>
         \A j \in Jobs :
           Present(j) /\ ~Present(j)' /\ Live(j) =>
             row[j].status = "cancelled" \/ pc[j] = "spawnAppend"]_jobVars
  <2> SUFFICES ASSUME IInv, Purge, NEW j \in Jobs, Present(j), ~Present(j)', Live(j)
               PROVE  row[j].status = "cancelled" \/ pc[j] = "spawnAppend"
    OBVIOUS
  <2>1. row[j].status \in Purgeable
    BY InvIsLocal DEF Purge, PurgeRows, Present, JobsTypeOK
  <2>2. QED
    BY <2>1, InvIsLocal DEF Purgeable, Local, Live, BgExecStages, RunStages
<1>2. QED BY <1>1, Invariance, PTL DEF JobsSpec, PurgeSparesUnfinished

-----------------------------------------------------------------------------
(* The jobs implement the promise made to readers of the status column.    *)

StatusOf == [j \in Jobs |-> row[j].status]

(* A write of the executor of j maps to a stutter, or to the change of the
   status of j that the write makes. *)
LEMMA WriteStatus ==
  ASSUME JobsTypeOK, NEW j \in Jobs, NEW new \in Row, Write(j, new)
  PROVE  \/ StatusOf' = StatusOf
         \/ Present(j) /\ StatusOf' = [StatusOf EXCEPT ![j] = new.status]
BY DEF JobsTypeOK, Write, StatusOf, Present

LEMMA InitRefines == JobsInit => Table!Init
BY DEF JobsInit, Table!Init, NoRow

LEMMA StepRefines == IInv /\ [JobsNext]_jobVars => [Table!Next]_StatusOf
<1> SUFFICES ASSUME IInv, [JobsNext]_jobVars PROVE Table!Next \/ StatusOf' = StatusOf
  OBVIOUS
<1> USE DEF Stages, RunStages, BgExecStages, Final
<1>t. JobsTypeOK /\ \A j \in Jobs : Local(j)
  BY InvIsLocal
<1>1. ASSUME NEW j \in Jobs, Create(j) PROVE Table!Next
  <2>1. row[j].status = "absent"
    BY <1>t, <1>1 DEF Create, Local, JobInv, NoRow
  <2>2. StatusOf' = [StatusOf EXCEPT ![j] = "pending"]
    BY <1>t, <1>1 DEF Create, JobsTypeOK, InsertedRow, StatusOf
  <2>3. Table!Submit(j)
    BY <2>1, <2>2 DEF Table!Submit, StatusOf
  <2>4. QED BY <2>3 DEF Table!Next
<1>2. ASSUME NEW j \in Jobs, SpawnFinish(j) PROVE Table!Next \/ StatusOf' = StatusOf
  <2> DEFINE new == SetFinished(row[j], "failed", 1)
  <2>1. new \in Row /\ new.status = "failed" /\ Write(j, new)
    BY <1>t, <1>2, SetFinishedRow DEF SpawnFinish, ExitCodes, JobsTypeOK
  <2> HIDE DEF new
  <2>2. Present(j) => row[j].status \in Table!Unsettled
    BY <1>t, <1>2 DEF SpawnFinish, Local, Table!Unsettled, JobsTypeOK, Row, Statuses, Present
  <2>3. CASE Present(j) /\ StatusOf' = [StatusOf EXCEPT ![j] = "failed"]
    <3>1. Table!Finish(j)
      BY <2>2, <2>3 DEF Table!Finish, Table!Final, StatusOf
    <3>2. QED BY <3>1 DEF Table!Next
  <2>4. QED BY <1>t, <2>1, <2>3, WriteStatus
<1>3. ASSUME NEW j \in Jobs, Start(j) PROVE Table!Next \/ StatusOf' = StatusOf
  <2> DEFINE new == SetRunning(row[j])
  <2>1. new \in Row /\ new.status = "running" /\ Write(j, new)
    BY <1>t, <1>3, SetRunningRow DEF Start, JobsTypeOK
  <2> HIDE DEF new
  <2>2. Present(j) => row[j].status \in {"pending", "running", "cancelled"}
    BY <1>t, <1>3 DEF Start, Local, JobsTypeOK, Row, Statuses, Present
  <2>3. CASE Present(j) /\ StatusOf' = [StatusOf EXCEPT ![j] = "running"]
    <3>1. CASE row[j].status = "running"
      BY <1>t, <2>3, <3>1 DEF StatusOf
    <3>2. CASE row[j].status # "running"
      <4>1. Table!Start(j)
        BY <2>2, <2>3, <3>2 DEF Table!Start, StatusOf
      <4>2. QED BY <4>1 DEF Table!Next
    <3>3. QED BY <3>1, <3>2
  <2>4. QED BY <1>t, <2>1, <2>3, WriteStatus
<1>4. ASSUME NEW j \in Jobs, Finish(j) PROVE Table!Next \/ StatusOf' = StatusOf
  <2> DEFINE new == SetFinished(row[j], res[j].status, res[j].exit)
  <2>1. res[j].status \in Final /\ res[j].exit \in ExitCodes
    BY <1>t, <1>4 DEF Finish, Local, JobInv, JobsTypeOK, Result
  <2>2. new \in Row /\ new.status = res[j].status /\ Write(j, new)
    BY <1>t, <1>4, <2>1, SetFinishedRow DEF Finish, JobsTypeOK
  <2> HIDE DEF new
  <2>3. Present(j) => row[j].status \in Table!Unsettled
    BY <1>t, <1>4 DEF Finish, Local, Table!Unsettled, JobsTypeOK, Row, Statuses, Present
  <2>4. CASE Present(j) /\ StatusOf' = [StatusOf EXCEPT ![j] = res[j].status]
    <3>1. Table!Finish(j)
      BY <2>1, <2>3, <2>4 DEF Table!Finish, Table!Final, StatusOf
    <3>2. QED BY <3>1 DEF Table!Next
  <2>5. QED BY <1>t, <2>2, <2>4, WriteStatus
<1>5. ASSUME NEW j \in Jobs, SpawnAppend(j) \/ Appends(j) PROVE StatusOf' = StatusOf
  <2>1. PICK n \in Nat : Write(j, AppendOutput(row[j], n))
    BY <1>t, <1>5 DEF SpawnAppend, Appends, JobsTypeOK
  <2> DEFINE new == AppendOutput(row[j], n)
  <2>2. new \in Row /\ new.status = row[j].status /\ Write(j, new)
    BY <1>t, <2>1, AppendOutputRow DEF JobsTypeOK
  <2> HIDE DEF new
  <2>3. [StatusOf EXCEPT ![j] = row[j].status] = StatusOf
    BY DEF StatusOf
  <2>4. QED BY <1>t, <2>2, <2>3, WriteStatus
<1>6. ASSUME NEW j \in Jobs, Cancel(j) PROVE Table!Next
  <2>1. StatusOf' = [StatusOf EXCEPT ![j] = "cancelled"]
    BY <1>t, <1>6 DEF Cancel, JobsTypeOK, Row, StatusOf
  <2>2. Table!Cancel(j)
    BY <1>6, <2>1 DEF Cancel, Cancellable, Table!Cancel, StatusOf
  <2>3. QED BY <2>2 DEF Table!Next
<1>7. ASSUME NEW D \in SUBSET Jobs,
             row' = [j \in Jobs |-> IF j \in D THEN NoRow ELSE row[j]]
      PROVE  Table!Next
  <2>1. StatusOf' = [j \in Jobs |-> IF j \in D THEN "absent" ELSE StatusOf[j]]
    BY <1>7 DEF StatusOf, NoRow
  <2>2. Table!Remove
    BY <2>1 DEF Table!Remove, StatusOf
  <2>3. QED BY <2>2 DEF Table!Next
<1>8. ASSUME NEW j \in Jobs, Delete(j) PROVE Table!Next
  <2>1. row' = [i \in Jobs |-> IF i \in {j} THEN NoRow ELSE row[i]]
    BY <1>t, <1>8 DEF Delete, JobsTypeOK
  <2>2. QED BY <2>1, <1>7
<1>9. ASSUME NEW S, PurgeRows(S) PROVE Table!Next
  <2> DEFINE D == {j \in Jobs : row[j].status \in S}
  <2>1. row' = [j \in Jobs |-> IF j \in D THEN NoRow ELSE row[j]]
    BY <1>9 DEF PurgeRows
  <2>2. D \in SUBSET Jobs
    OBVIOUS
  <2> HIDE DEF D
  <2>3. QED BY <2>1, <2>2, <1>7
<1>10. CASE UNCHANGED row
  BY <1>10 DEF StatusOf
<1>11. ASSUME NEW j \in Jobs, Executor(j) \/ User(j) PROVE Table!Next \/ StatusOf' = StatusOf
  BY <1>2, <1>3, <1>4, <1>5, <1>6, <1>8, <1>10, <1>11
     DEF Executor, User, Spawn, Load, Setup, Send, Collects, ExecEnd, FollowStart, Poll, FollowAbort
<1>12. QED
  BY <1>1, <1>9, <1>10, <1>11
     DEF JobsNext, Signal, CliCrash, McpCrash, Purge, PurgeAll, jobVars

(* Whatever is signalled, killed, cancelled or lost, the status column moves
   only as JobTable allows. *)
THEOREM Refinement == JobsSpec => ImplementsTable
BY InitRefines, StepRefines, Invariance, PTL DEF JobsSpec, ImplementsTable, Table!Spec, StatusOf

-----------------------------------------------------------------------------
(* Managed sessions.                                                       *)

(* What bash prints are lines (printf and the output of the command). *)
LEMMA OutLinesType == ASSUME NEW c \in Senders PROVE OutLines(c) \in Seq(Line) /\ NoEnd(OutLines(c))
<1>1. Output[c] \in Seq({"text", "blank"})
  BY CommandAssumption
<1>2. \A i \in DOMAIN Output[c] : Output[c][i] \in {"text", "blank"} /\ i \in Int
  BY <1>1
<1>3. \A i \in DOMAIN Output[c] : OutLines(c)[i] \in Line
  BY <1>2 DEF OutLines, Line
<1>4. DOMAIN OutLines(c) = 1..Len(Output[c]) /\ Len(Output[c]) \in Nat
  BY <1>1 DEF OutLines
<1> QED BY <1>1, <1>2, <1>3, <1>4 DEF OutLines, NoEnd

LEMMA ErrLinesType == ASSUME NEW c \in Senders PROVE ErrLines(c) \in Seq(Line) /\ NoEnd(ErrLines(c))
<1>1. Errors[c] \in Nat
  BY CommandAssumption
<1>2. DOMAIN ErrLines(c) = 1..Errors[c]
  BY DEF ErrLines
<1>3. \A i \in 1..Errors[c] : ErrLines(c)[i] \in Line /\ ErrLines(c)[i].kind = "text"
  BY DEF ErrLines, Line
<1>4. ErrLines(c) \in [1..Errors[c] -> Line]
  <2> HIDE DEF Line
  <2> QED BY <1>2, <1>3 DEF ErrLines
<1>5. ErrLines(c) \in Seq(Line)
  <2> HIDE DEF Line, ErrLines
  <2> QED BY <1>1, <1>4, SeqDef
<1> QED BY <1>2, <1>3, <1>5 DEF NoEnd

LEMMA ComplaintType == ASSUME NEW c \in Senders PROVE Complaint(c) \in Seq(Line) /\ NoEnd(Complaint(c))
BY DEF Complaint, Other, Line, NoEnd

LEMMA ReportType ==
  ASSUME NEW c \in Senders, NEW r \in Reports(c)
  PROVE  r \in Seq(Line)
<1>1. Code[c] \in Int /\ Len(Output[c]) + 1 \in Int
  <2>1. Output[c] \in Seq({"text", "blank"})
    BY CommandAssumption
  <2>2. Len(Output[c]) \in Nat
    BY <2>1, LenProperties
  <2>3. Len(Output[c]) + 1 \in Int
    BY <2>2
  <2>4. Code[c] \in 0..255
    BY Zenon, CommandAssumption
  <2>5. Code[c] \in Int
    BY <2>4
  <2> QED BY <2>3, <2>5
<1> DEFINE x == <<Newline(c), End(c)>>
           y == <<Other(c, "end", NoCode), Other(c, "text", 0)>>
           z == <<Other(c, "text", 0), Other(c, "text", 0)>>
<1>2. /\ Newline(c) \in Line /\ End(c) \in Line
      /\ Other(c, "end", NoCode) \in Line /\ Other(c, "text", 0) \in Line
  BY <1>1 DEF Newline, End, Other, Line, NoCode
<1>3. x \in Seq(Line) /\ y \in Seq(Line) /\ z \in Seq(Line) /\ <<End(c)>> \in Seq(Line)
  <2> HIDE DEF Line
  <2> QED BY <1>2
<1>4. r = x \/ r = y \/ r = z \/ r = <<End(c)>>
  BY DEF Reports
<1> QED BY <1>3, <1>4

(* A buffer of lines remains one, within its capacity (enqueue). *)
LEMMA EnqueueType ==
  ASSUME NEW b \in Seq(Line), Len(b) <= Cap, NEW l \in Line
  PROVE  Enqueue(b, l) \in Seq(Line) /\ Len(Enqueue(b, l)) <= Cap
<1>1. CASE Len(b) < Cap
  BY <1>1, BoundAssumption DEF Enqueue
<1>2. CASE ~(Len(b) < Cap)
  <2>1. b # <<>>
    BY <1>2, BoundAssumption
  <2> QED BY <1>2, <2>1, BoundAssumption DEF Enqueue
<1> QED BY <1>1, <1>2

(* A set of naturals below a bound has a least element: the intervals up to its
   elements are finite sets, and the subset order on these is well founded. *)
LEMMA LeastOf ==
  ASSUME NEW N \in Nat, NEW T \in SUBSET (0..N), T # {}
  PROVE  \E k \in T : \A m \in T : k <= m
<1> DEFINE S == 1..N
           R == StrictSubsetOrdering(S)
           I == {1..k : k \in T}
<1>1. IsFiniteSet(S)
  BY FS_Interval
<1>2. I \subseteq FiniteSubsetsOf(S) /\ I # {}
  <2>1. ASSUME NEW k \in T PROVE 1..k \in SUBSET S
    OBVIOUS
  <2>2. FiniteSubsetsOf(S) = SUBSET S
    BY <1>1, FS_FiniteSubsetsOfFinite
  <2>3. I \subseteq SUBSET S /\ I # {}
    BY <2>1
  <2> HIDE DEF I, S
  <2> QED BY <2>2, <2>3
<1>3. IsWellFoundedOn(R, FiniteSubsetsOf(S))
  BY FS_StrictSubsetOrderingWellFounded
<1>4. PICK i \in I : \A j \in I : <<j, i>> \notin R
  <2> HIDE DEF I, R, S
  <2> QED BY <1>2, <1>3, WFMin
<1>5. PICK k \in T : i = 1..k
  OBVIOUS
<1>6. ASSUME NEW m \in T, m < k PROVE FALSE
  <2>1. 1..m \in SUBSET S /\ 1..k \in SUBSET S /\ 1..m \subseteq 1..k
    BY <1>6
  <2>2. k \in 1..k /\ k \notin 1..m
    BY <1>6
  <2>3. <<1..m, 1..k>> \in R
    BY <2>1, <2>2 DEF StrictSubsetOrdering
  <2> QED BY <1>4, <1>5, <2>3
<1> QED BY <1>6

(* What the TrimRight of a result leaves is its beginning, and what goes is blank. *)
LEMMA TrimmedIsPrefix ==
  ASSUME NEW S, NEW o \in Seq(S)
  PROVE  /\ LastText(o) \in 0..Len(o)
         /\ \A i \in DOMAIN o : i > LastText(o) => o[i].kind = "blank"
         /\ Trimmed(o) \in Seq(S) /\ DOMAIN Trimmed(o) = 1..LastText(o)
         /\ \A i \in 1..LastText(o) : i \in DOMAIN o /\ Trimmed(o)[i] = o[i]
<1> DEFINE T == {k \in 0..Len(o) : \A i \in (k + 1)..Len(o) : o[i].kind = "blank"}
<1>1. Len(o) \in Nat /\ DOMAIN o = 1..Len(o)
  BY LenProperties
<1>2. PICK n \in T : \A m \in T : n <= m
  <2>1. Len(o) \in T
    BY <1>1
  <2> HIDE DEF T
  <2>2. T \in SUBSET (0..Len(o))
    BY DEF T
  <2> QED BY <1>1, <2>1, <2>2, LeastOf
<1>3. n # 0 => o[n].kind # "blank"
  <2> SUFFICES ASSUME n # 0, o[n].kind = "blank" PROVE FALSE
    OBVIOUS
  <2>1. n - 1 \in T /\ n \in Int
    BY <1>1
  <2> HIDE DEF T
  <2>2. n <= n - 1
    BY <1>2, <2>1
  <2> QED BY <2>1, <2>2
<1>4. /\ LastText(o) \in 0..Len(o)
      /\ \A i \in (LastText(o) + 1)..Len(o) : o[i].kind = "blank"
  BY <1>2, <1>3 DEF LastText
<1> DEFINE k == LastText(o)
<1> HIDE DEF k
<1>5. SubSeq(o, 1, k) \in Seq(S) /\ Len(SubSeq(o, 1, k)) = k /\ \A i \in 1..k : SubSeq(o, 1, k)[i] = o[i]
  <2>1. k \in 0..Len(o)
    BY <1>4 DEF k
  <2>2. 1 \in Int /\ k \in Int /\ \A i \in 1..k : o[i] \in S
    BY <1>1, <2>1
  <2>3. /\ SubSeq(o, 1, k) \in Seq(S)
        /\ Len(SubSeq(o, 1, k)) = IF 1 <= k THEN k - 1 + 1 ELSE 0
        /\ \A i \in 1..k - 1 + 1 : SubSeq(o, 1, k)[i] = o[1 + i - 1]
    BY <2>2, SubSeqProperties
  <2> QED BY <2>1, <2>3
<1> QED BY <1>1, <1>4, <1>5 DEF Trimmed, k

(* The record of an Exec. *)
States == {"none", "waiting", "expiring", "ended", "expired", "failed"}

LEMMA ExecFields ==
  ASSUME NEW e \in Exec
  PROVE  e.out \in Seq(Line) /\ e.skipped \in BOOLEAN /\ e.code \in Int /\ e.state \in States
BY Zenon DEF Exec, States

LEMMA SetState ==
  ASSUME NEW e \in Exec, NEW s \in States
  PROVE  /\ [e EXCEPT !.state = s] \in Exec /\ [e EXCEPT !.state = s].state = s
         /\ [e EXCEPT !.state = s].code = e.code
<1> DEFINE Q == Seq(Line)
<1>1. Exec = [state : States, out : Q, skipped : BOOLEAN, code : Int]
  BY DEF Exec, States
<1> HIDE DEF Q, Exec, States
<1> QED BY <1>1

LEMMA SetResult ==
  ASSUME NEW e \in Exec, NEW s \in States, NEW n \in Int
  PROVE  /\ Settled(e, s, n) \in Exec
         /\ Settled(e, s, n).state = s /\ Settled(e, s, n).code = n
         /\ Settled(e, s, n).out = Trimmed(e.out) /\ Settled(e, s, n).skipped = e.skipped
<1> DEFINE Q == Seq(Line)
           o == Trimmed(e.out)
<1>1. Exec = [state : States, out : Q, skipped : BOOLEAN, code : Int]
  BY DEF Exec, States
<1>2. e.out \in Q
  BY ExecFields
<1>3. o \in Q
  <2> HIDE DEF Line
  <2> QED BY <1>2, TrimmedIsPrefix
<1>4. Settled(e, s, n) = [e EXCEPT !.state = s, !.code = n, !.out = o]
  BY DEF Settled
<1> HIDE DEF Q, o, Exec, States
<1>5. /\ [e EXCEPT !.state = s, !.code = n, !.out = o] \in Exec
      /\ [e EXCEPT !.state = s, !.code = n, !.out = o].state = s
      /\ [e EXCEPT !.state = s, !.code = n, !.out = o].code = n
      /\ [e EXCEPT !.state = s, !.code = n, !.out = o].out = o
      /\ [e EXCEPT !.state = s, !.code = n, !.out = o].skipped = e.skipped
  BY <1>1, <1>3
<1> QED BY <1>4, <1>5 DEF o

LEMMA SetOut ==
  ASSUME NEW e \in Exec, NEW q \in Seq(Line)
  PROVE  /\ [e EXCEPT !.out = q] \in Exec
         /\ [e EXCEPT !.out = q].state = e.state /\ [e EXCEPT !.out = q].code = e.code
         /\ [e EXCEPT !.skipped = TRUE] \in Exec
         /\ [e EXCEPT !.skipped = TRUE].state = e.state /\ [e EXCEPT !.skipped = TRUE].code = e.code
<1> DEFINE Q == Seq(Line)
<1>1. Exec = [state : States, out : Q, skipped : BOOLEAN, code : Int]
  BY DEF Exec, States
<1>2. q \in Q
  OBVIOUS
<1> HIDE DEF Q, Exec, States
<1> QED BY <1>1, <1>2

LEMMA CollectType ==
  ASSUME NEW e \in Exec, NEW l \in Line
  PROVE  Collect(e, l) \in Exec /\ Collect(e, l).state = e.state /\ Collect(e, l).code = e.code
<1>1. e.out \in Seq(Line)
  BY ExecFields
<1>2. Append(e.out, l) \in Seq(Line)
  <2> HIDE DEF Line
  <2> QED BY <1>1
<1>3. [e EXCEPT !.out = Append(@, l)] = [e EXCEPT !.out = Append(e.out, l)]
  OBVIOUS
<1> HIDE DEF Exec, Line
<1> QED BY <1>1, <1>2, <1>3, SetOut DEF Collect

LEMMA EndedType ==
  ASSUME NEW e \in Exec, NEW l \in Line
  PROVE  /\ Ended(e, l) \in Exec /\ Ended(e, l).state = "ended" /\ Ended(e, l).code = ScannedCode(l)
         /\ Ended(e, l).out = Trimmed(e.out) /\ Ended(e, l).skipped = e.skipped
<1>1. ScannedCode(l) \in Int
  BY DEF ScannedCode, Line
<1>2. "ended" \in States
  BY DEF States
<1> HIDE DEF Exec, States, ScannedCode
<1> QED BY <1>1, <1>2, SetResult DEF Ended

LEMMA InitType == Init => TypeOK
<1> SUFFICES ASSUME Init PROVE TypeOK
  OBVIOUS
<1> DEFINE Q == Seq(Line)
<1>1. <<>> \in Q /\ Open \in Senders
  BY DEF Senders
<1>2. NewExec \in Exec
  <2>1. Exec = [state : States, out : Q, skipped : BOOLEAN, code : Int]
    BY DEF Exec, States
  <2> HIDE DEF Q, Exec
  <2> QED BY <1>1, <2>1 DEF NewExec, NoCode, States
<1>3. [NewExec EXCEPT !.state = "waiting"] \in Exec
  BY <1>2, SetState DEF States
<1>4. exec \in [Senders -> Exec]
  <2> HIDE DEF Exec, NewExec
  <2> QED BY <1>2, <1>3 DEF Init
<1>5. pipe \in [{"out", "err"} -> Q] /\ buf \in Q
  <2> HIDE DEF Q
  <2> QED BY <1>1 DEF Init
<1>6. Len(buf) <= Cap
  BY BoundAssumption DEF Init
<1>7. stdin \in Seq(Senders \cup {Intr}) /\ shell \in Shell
  <2> HIDE DEF Senders
  <2> QED BY <1>1 DEF Init, Shell
<1> QED BY <1>4, <1>5, <1>6, <1>7 DEF TypeOK

LEMMA PrintType ==
  ASSUME TypeOK, NEW c \in Senders, NEW r \in Seq(Line)
  PROVE  /\ Printed(c, r) \in [{"out", "err"} -> Seq(Line)]
         /\ Printed(c, r)["out"] = pipe["out"] \o (OutLines(c) \o r)
         /\ Printed(c, r)["err"] = pipe["err"] \o ErrLines(c)
<1> DEFINE Q == Seq(Line)
<1>1. OutLines(c) \in Q /\ ErrLines(c) \in Q
  BY OutLinesType, ErrLinesType
<1>2. pipe \in [{"out", "err"} -> Q]
  BY DEF TypeOK
<1>3. pipe["out"] \in Q /\ pipe["err"] \in Q
  BY <1>2
<1>4. OutLines(c) \o r \in Q
  BY <1>1, ConcatProperties
<1> DEFINE o == pipe["out"] \o (OutLines(c) \o r)
           e == pipe["err"] \o ErrLines(c)
<1>5. o \in Q /\ e \in Q
  BY <1>1, <1>3, <1>4, ConcatProperties
<1>6. Printed(c, r) = [pipe EXCEPT !["out"] = o, !["err"] = e]
  BY DEF Printed
<1> HIDE DEF Q, o, e
<1>7. Printed(c, r) \in [{"out", "err"} -> Q] /\ Printed(c, r)["out"] = o /\ Printed(c, r)["err"] = e
  BY <1>2, <1>5, <1>6
<1> QED BY <1>7 DEF Q, o, e

(* Types are kept by every step. *)
LEMMA StepType == TypeOK /\ [Next]_vars => TypeOK'
<1> SUFFICES ASSUME TypeOK, [Next]_vars PROVE TypeOK'
  OBVIOUS
<1> USE DEF TypeOK
<1> DEFINE Input == Senders \cup {Intr}
<1>0. stdin \in Seq(Input) /\ exec \in [Senders -> Exec]
  OBVIOUS
<1>1. CASE ShellRead
  <2>1. Head(stdin) \in Input /\ Tail(stdin) \in Seq(Input)
    BY <1>0, <1>1, HeadTailProperties DEF ShellRead
  <2>2. shell' \in Shell
    BY <1>1, <2>1 DEF ShellRead, Shell
  <2> QED BY <1>1, <2>1, <2>2 DEF ShellRead
<1>2. CASE ShellReadGlued
  <2>1. Head(stdin) \in Input /\ Tail(stdin) \in Seq(Input)
    BY <1>0, <1>2, HeadTailProperties DEF ShellReadGlued
  <2>2. CASE Head(stdin) = Intr
    BY <1>2, <2>1, <2>2 DEF ShellReadGlued
  <2>3. CASE Head(stdin) # Intr
    <3>1. Head(stdin) \in Senders
      BY <2>1, <2>3
    <3>2. Complaint(Head(stdin)) \in Seq(Line)
      BY <3>1, ComplaintType
    <3>3. pipe["err"] \o Complaint(Head(stdin)) \in Seq(Line)
      BY <3>2, ConcatProperties
    <3>4. pipe' \in [{"out", "err"} -> Seq(Line)]
      BY <1>2, <2>3, <3>3 DEF ShellReadGlued
    <3>5. shell' \in Shell
      BY <1>2, <2>3, <3>1 DEF ShellReadGlued, Shell
    <3> QED BY <1>2, <2>1, <2>3, <3>4, <3>5 DEF ShellReadGlued
  <2> QED BY <2>2, <2>3
<1>3. CASE CommandReads
  <2>1. Tail(stdin) \in Seq(Input)
    BY <1>0, <1>3, HeadTailProperties DEF CommandReads
  <2> QED BY <1>3, <2>1 DEF CommandReads
<1>4. CASE ShellFinish
  <2>1. shell.call \in Senders
    BY DEF Shell
  <2>2. pipe' \in [{"out", "err"} -> Seq(Line)]
    BY <1>4, <2>1, ReportType, PrintType DEF ShellFinish
  <2> QED BY <1>4, <2>2 DEF ShellFinish, Shell
<1>5. CASE ShellExits
  <2>1. shell.call \in Senders /\ <<>> \in Seq(Line)
    BY DEF Shell
  <2>2. pipe' \in [{"out", "err"} -> Seq(Line)]
    BY <1>5, <2>1, PrintType DEF ShellExits
  <2> QED BY <1>5, <2>2 DEF ShellExits, Shell
<1>6. ASSUME NEW s \in {"out", "err"}, Deliver(s) PROVE TypeOK'
  <2>1. pipe[s] \in Seq(Line) /\ pipe[s] # <<>>
    BY <1>6 DEF Deliver
  <2>2. Head(pipe[s]) \in Line /\ Tail(pipe[s]) \in Seq(Line)
    BY <2>1
  <2>3. buf' \in Seq(Line) /\ Len(buf') <= Cap
    BY <1>6, <2>2, EnqueueType DEF Deliver
  <2> QED BY <1>6, <2>2, <2>3 DEF Deliver
<1>7. ASSUME NEW c \in Calls, Call(c) PROVE TypeOK'
  <2>1. c \in Senders /\ c \in Input
    BY DEF Senders
  <2>2. [exec[c] EXCEPT !.state = "waiting"] \in Exec /\ [exec[c] EXCEPT !.state = "failed"] \in Exec
    BY <1>0, <2>1, SetState DEF States
  <2>3. exec' \in [Senders -> Exec]
    <3> HIDE DEF Exec
    <3> QED BY <1>0, <1>7, <2>1, <2>2 DEF Call
  <2>4. Append(stdin, c) \in Seq(Input)
    <3> HIDE DEF Input
    <3> QED BY <1>0, <2>1, AppendProperties
  <2> QED BY <1>0, <1>7, <2>3, <2>4 DEF Call
<1>8. ASSUME NEW c \in Senders, Read(c) PROVE TypeOK'
  <2>1. Head(buf) \in Line /\ Tail(buf) \in Seq(Line) /\ Len(Tail(buf)) <= Cap
    BY <1>8, BoundAssumption DEF Read
  <2>2. Ended(exec[c], Head(buf)) \in Exec /\ Collect(exec[c], Head(buf)) \in Exec
    BY <1>0, <2>1, CollectType, EndedType
  <2>3. exec' \in [Senders -> Exec]
    <3> HIDE DEF Exec, Line
    <3> QED BY <1>0, <1>8, <2>2 DEF Read
  <2> QED BY <1>8, <2>1, <2>3 DEF Read
<1>9. ASSUME NEW c \in Calls, Interrupt(c) \/ Drain(c) PROVE TypeOK'
  <2>1. c \in Senders
    BY DEF Senders
  <2>2. /\ [exec[c] EXCEPT !.state = "expiring"] \in Exec
        /\ Settled(exec[c], "expired", 130) \in Exec
    <3>1. exec[c] \in Exec /\ "expiring" \in States /\ "expired" \in States /\ 130 \in Int
      BY <1>0, <2>1 DEF States
    <3> HIDE DEF Exec, States
    <3> QED BY <3>1, SetState, SetResult
  <2>3. exec' \in [Senders -> Exec]
    <3> HIDE DEF Exec
    <3> QED BY <1>0, <1>9, <2>1, <2>2 DEF Interrupt, Drain
  <2>4. <<>> \in Seq(Line) /\ Len(<<>>) <= Cap
    BY BoundAssumption
  <2>5. Append(stdin, Intr) \in Seq(Input)
    <3>1. Intr \in Input
      OBVIOUS
    <3> HIDE DEF Input
    <3> QED BY <1>0, <3>1, AppendProperties
  <2>6. stdin' \in Seq(Input)
    BY <1>0, <1>9, <2>5 DEF Interrupt, Drain
  <2> QED BY <1>9, <2>3, <2>4, <2>6 DEF Interrupt, Drain
<1>10. CASE OpenFails
  <2>1. Open \in Senders
    BY DEF Senders
  <2>2. [exec[Open] EXCEPT !.state = "expired"] \in Exec
    BY <1>0, <2>1, SetState DEF States
  <2>3. exec' \in [Senders -> Exec]
    <3> HIDE DEF Exec
    <3> QED BY <1>0, <1>10, <2>1, <2>2 DEF OpenFails
  <2> QED BY <1>10, <2>3 DEF OpenFails, Shell
<1>11. CASE Close
  BY <1>11 DEF Close, Shell
<1>12. CASE UNCHANGED vars
  BY <1>12 DEF vars
<1> QED BY <1>1, <1>2, <1>3, <1>4, <1>5, <1>6, <1>7, <1>8, <1>9, <1>10, <1>11, <1>12 DEF Next

(* Every variable keeps its type, whatever the commands and the callers do. *)
THEOREM TypeCorrect == Spec => []TypeOK
BY InitType, StepType, PTL DEF Spec

-----------------------------------------------------------------------------
(* Sentinels in a queue of lines.                                          *)

LEMMA SenderOf == ASSUME NEW q \in Seq(Line), NEW i \in DOMAIN q PROVE q[i].of \in Senders
<1>1. q[i] \in Line
  <2> HIDE DEF Line
  <2> QED BY ElementOfSeq, LenProperties
<1> QED BY <1>1 DEF Line

LEMMA TailEnds ==
  ASSUME NEW q \in Seq(Line), q # <<>>
  PROVE  /\ 1 \in DOMAIN q /\ Head(q) = q[1]
         /\ NoEnd(q) => NoEnd(Tail(q))
         /\ OneEnd(q) => OneEnd(Tail(q))
         /\ OneEnd(q) /\ Head(q).kind = "end" => NoEnd(Tail(q))
         /\ OwnedEnds(q) => OwnedEnds(Tail(q))
<1>1. 1 \in DOMAIN q /\ Head(q) = q[1]
  OBVIOUS
<1>2. \A i \in DOMAIN Tail(q) : i + 1 \in DOMAIN q /\ Tail(q)[i] = q[i + 1] /\ i \in Nat \ {0}
  OBVIOUS
<1> DEFINE t == Tail(q)
<1> HIDE DEF t, Line
<1>3. NoEnd(q) => NoEnd(t)
  BY <1>2 DEF NoEnd, t
<1>4. OneEnd(q) => OneEnd(t)
  <2> SUFFICES ASSUME OneEnd(q), NEW i \in DOMAIN t, NEW j \in DOMAIN t,
                      t[i].kind = "end", t[j].kind = "end"
               PROVE  i = j
    BY DEF OneEnd
  <2>1. i + 1 = j + 1
    BY <1>2 DEF OneEnd, t
  <2> QED BY <2>1, <1>2 DEF t
<1>5. OneEnd(q) /\ Head(q).kind = "end" => NoEnd(t)
  <2> SUFFICES ASSUME OneEnd(q), q[1].kind = "end", NEW i \in DOMAIN t, t[i].kind = "end"
               PROVE  FALSE
    BY <1>1 DEF NoEnd
  <2>1. i + 1 = 1
    BY <1>1, <1>2 DEF OneEnd, t
  <2> QED BY <2>1, <1>2 DEF t
<1>6. OwnedEnds(q) => OwnedEnds(t)
  BY <1>2 DEF OwnedEnds, t
<1> QED BY <1>1, <1>3, <1>4, <1>5, <1>6 DEF t

LEMMA ConcatEnds ==
  ASSUME NEW p \in Seq(Line), NEW q \in Seq(Line), NoEnd(p)
  PROVE  /\ p \o q \in Seq(Line)
         /\ NoEnd(q) => NoEnd(p \o q)
         /\ OneEnd(q) => OneEnd(p \o q)
         /\ OwnedEnds(q) => OwnedEnds(p \o q)
<1> DEFINE r == p \o q
           n == Len(p)
<1>1. r \in Seq(Line) /\ n \in Nat
  BY ConcatProperties, LenProperties
<1>2. \A i \in DOMAIN r : /\ i \in Int
                         /\ \/ i \in DOMAIN p /\ r[i] = p[i]
                            \/ i - n \in DOMAIN q /\ r[i] = q[i - n]
  <2>1. /\ Len(r) = n + Len(q) /\ Len(q) \in Nat
        /\ DOMAIN r = 1..Len(r) /\ DOMAIN p = 1..n /\ DOMAIN q = 1..Len(q)
        /\ \A i \in 1..Len(r) : r[i] = IF i <= n THEN p[i] ELSE q[i - n]
    <3> HIDE DEF Line
    <3> QED BY <1>1, ConcatProperties, LenProperties
  <2> HIDE DEF r, n, Line
  <2> SUFFICES ASSUME NEW i \in DOMAIN r
               PROVE  /\ i \in Int
                      /\ \/ i \in DOMAIN p /\ r[i] = p[i]
                         \/ i - n \in DOMAIN q /\ r[i] = q[i - n]
    OBVIOUS
  <2>2. i \in 1..Len(r) /\ i \in Int /\ 1 <= i /\ i <= n + Len(q)
    BY <1>1, <2>1
  <2>3. CASE i <= n
    <3>1. i \in DOMAIN p
      BY <1>1, <2>1, <2>2, <2>3
    <3>2. r[i] = p[i]
      BY <2>1, <2>2, <2>3
    <3> QED BY Zenon, <2>2, <3>1, <3>2
  <2>4. CASE ~(i <= n)
    <3>1. i - n \in DOMAIN q
      BY <1>1, <2>1, <2>2, <2>4
    <3>2. r[i] = q[i - n]
      BY <2>1, <2>2, <2>4
    <3> QED BY Zenon, <2>2, <3>1, <3>2
  <2> QED BY <2>3, <2>4
<1> HIDE DEF r, n, Line
<1>3. \A i \in DOMAIN r : r[i].kind = "end" => i \in Int /\ i - n \in DOMAIN q /\ r[i] = q[i - n]
  <2> SUFFICES ASSUME NEW i \in DOMAIN r, r[i].kind = "end"
               PROVE  i \in Int /\ i - n \in DOMAIN q /\ r[i] = q[i - n]
    OBVIOUS
  <2>1. \A k \in DOMAIN p : p[k].kind # "end"
    BY DEF NoEnd
  <2>2. ~(i \in DOMAIN p /\ r[i] = p[i])
    BY <2>1
  <2> QED BY <1>1, <1>2, <2>2
<1>4. NoEnd(q) => NoEnd(r)
  BY <1>3 DEF NoEnd
<1>5. OneEnd(q) => OneEnd(r)
  <2> SUFFICES ASSUME OneEnd(q), NEW i \in DOMAIN r, NEW j \in DOMAIN r,
                      r[i].kind = "end", r[j].kind = "end"
               PROVE  i = j
    BY DEF OneEnd
  <2>1. i - n = j - n /\ i \in Int /\ j \in Int
    BY <1>3 DEF OneEnd
  <2> QED BY <2>1, <1>1
<1>6. OwnedEnds(q) => OwnedEnds(r)
  BY <1>3 DEF OwnedEnds
<1> QED BY <1>1, <1>4, <1>5, <1>6 DEF r

(* The buffer after enqueue, even when it has dropped its oldest line. *)
LEMMA AppendEnds ==
  ASSUME NEW b \in Seq(Line), NEW l \in Line
  PROVE  /\ NoEnd(b) => OneEnd(Append(b, l))
         /\ NoEnd(b) /\ l.kind # "end" => NoEnd(Append(b, l))
         /\ OneEnd(b) /\ l.kind # "end" => OneEnd(Append(b, l))
         /\ OwnedEnds(b) /\ (l.kind = "end" => Waiting(l.of) /\ l.n = Code[l.of])
              => OwnedEnds(Append(b, l))
<1> DEFINE r == Append(b, l)
<1>1. \A i \in DOMAIN r : \/ i \in DOMAIN b /\ r[i] = b[i]
                          \/ i = Len(b) + 1 /\ r[i] = l
  <2>1. Len(b) \in Nat /\ DOMAIN b = 1..Len(b)
    BY LenProperties
  <2>2. /\ DOMAIN r = 1..(Len(b) + 1) /\ r[Len(b) + 1] = l
        /\ \A i \in 1..Len(b) : r[i] = b[i]
    <3> HIDE DEF Line
    <3> QED BY AppendProperties, LenProperties
  <2> HIDE DEF r, Line
  <2> SUFFICES ASSUME NEW i \in DOMAIN r, i # Len(b) + 1
               PROVE  i \in DOMAIN b /\ r[i] = b[i]
    BY Zenon, <2>2
  <2>3. i \in 1..Len(b)
    BY <2>1, <2>2
  <2> QED BY <2>1, <2>2, <2>3
<1> HIDE DEF r, Line
<1>2. NoEnd(b) => OneEnd(r)
  BY <1>1 DEF NoEnd, OneEnd
<1>3. NoEnd(b) /\ l.kind # "end" => NoEnd(r)
  BY <1>1 DEF NoEnd
<1>4. OneEnd(b) /\ l.kind # "end" => OneEnd(r)
  BY <1>1 DEF OneEnd
<1>5. OwnedEnds(b) /\ (l.kind = "end" => Waiting(l.of) /\ l.n = Code[l.of]) => OwnedEnds(r)
  <2> SUFFICES ASSUME OwnedEnds(b), l.kind = "end" => Waiting(l.of) /\ l.n = Code[l.of],
                      NEW i \in DOMAIN r, r[i].kind = "end"
               PROVE  Waiting(r[i].of) /\ r[i].n = Code[r[i].of]
    BY Zenon DEF OwnedEnds
  <2>1. CASE i \in DOMAIN b /\ r[i] = b[i]
    BY <2>1 DEF OwnedEnds
  <2>2. CASE r[i] = l
    BY Zenon, <2>2
  <2> QED BY <1>1, <2>1, <2>2
<1> QED BY <1>2, <1>3, <1>4, <1>5 DEF r

LEMMA EnqueueEnds ==
  ASSUME NEW b \in Seq(Line), NEW l \in Line
  PROVE  /\ NoEnd(b) => OneEnd(Enqueue(b, l))
         /\ NoEnd(b) /\ l.kind # "end" => NoEnd(Enqueue(b, l))
         /\ OneEnd(b) /\ l.kind # "end" => OneEnd(Enqueue(b, l))
         /\ OwnedEnds(b) /\ (l.kind = "end" => Waiting(l.of) /\ l.n = Code[l.of])
              => OwnedEnds(Enqueue(b, l))
<1> HIDE DEF Line
<1>1. CASE Len(b) < Cap
  BY <1>1, AppendEnds DEF Enqueue
<1>2. CASE ~(Len(b) < Cap)
  <2>1. b # <<>>
    BY <1>2, BoundAssumption, EmptySeq
  <2>2. Tail(b) \in Seq(Line)
    BY <2>1, HeadTailProperties
  <2> QED BY <1>2, <2>1, <2>2, TailEnds, AppendEnds DEF Enqueue
<1> QED BY <1>1, <1>2

(* When no read cuts it in two, printf adds one sentinel of the command. *)
LEMMA ReportEnds ==
  ASSUME ~Splits, NEW c \in Senders, Waiting(c), NEW r \in Reports(c)
  PROVE  OneEnd(r) /\ OwnedEnds(r)
<1>1. r = <<Newline(c), End(c)>> \/ r = <<End(c)>>
  BY DEF Reports
<1>2. /\ Newline(c).kind = "blank"
      /\ End(c).kind = "end" /\ End(c).of = c /\ End(c).n = Code[c]
  BY DEF Newline, End, Other
<1> DEFINE x == Newline(c)
           y == End(c)
<1> HIDE DEF x, y
<1>3. CASE r = <<x, y>>
  <2>1. DOMAIN <<x, y>> = {1, 2} /\ <<x, y>>[1] = x /\ <<x, y>>[2] = y
    OBVIOUS
  <2> QED BY <1>2, <1>3, <2>1 DEF OneEnd, OwnedEnds, x, y
<1>4. CASE r = <<y>>
  <2>1. \A i \in DOMAIN r : i = 1 /\ r[i] = y
    BY <1>4
  <2> QED BY <1>2, <2>1 DEF OneEnd, OwnedEnds, x, y
<1> QED BY <1>1, <1>3, <1>4 DEF x, y

-----------------------------------------------------------------------------
(* Sequential callers.                                                     *)

LEMMA InitSeq == Init => SeqInv
<1> SUFFICES ASSUME Init PROVE SeqInv
  OBVIOUS
<1>0. Open \in Senders /\ Open \notin Calls
  BY NamesAssumption DEF Senders
<1>1. \A c \in Senders : exec[c].state = IF c = Open THEN "waiting" ELSE "none"
  BY DEF Init, NewExec
<1>2. OneBusy
  BY <1>1 DEF OneBusy, Busy
<1>3. OwnCode
  BY <1>0, <1>1 DEF OwnCode, Done, Senders
<1>4. pipe["out"] = <<>> /\ pipe["err"] = <<>> /\ buf = <<>>
  BY DEF Init
<1>5. NoEnd(<<>>) /\ OneEnd(<<>>) /\ OwnedEnds(<<>>)
  BY DEF NoEnd, OneEnd, OwnedEnds
<1>6. OnItsWayBack
  BY <1>4, <1>5 DEF OnItsWayBack
<1>7. OnItsWay
  <2>1. Waiting(Open)
    BY <1>0, <1>1 DEF Waiting
  <2>2. stdin = <<Open>> /\ shell.state = "idle"
    BY DEF Init
  <2> HIDE DEF Init, Waiting
  <2> QED BY <1>0, <2>1, <2>2 DEF OnItsWay
<1> QED BY <1>2, <1>3, <1>6, <1>7 DEF SeqInv

(* A step that does not touch the Execs. *)
LEMMA SameExec ==
  ASSUME SeqInv, exec' = exec, ~Expired => OnItsWay' /\ OnItsWayBack'
  PROVE  SeqInv'
BY DEF SeqInv, OneBusy, Busy, OwnCode, Done, Expired

(* The steps of bash and of the goroutines that copy its output. *)
LEMMA ShellSeq ==
  ASSUME TypeOK, SeqInv, ~Splits,
         \/ ShellRead \/ ShellReadGlued \/ CommandReads \/ ShellFinish \/ ShellExits
         \/ Deliver("out") \/ Deliver("err")
  PROVE  SeqInv'
<1>0. exec' = exec
  BY DEF ShellRead, ShellReadGlued, CommandReads, ShellFinish, ShellExits, Deliver
<1> SUFFICES ASSUME ~Expired PROVE OnItsWay' /\ OnItsWayBack'
  BY <1>0, SameExec
<1>a. OnItsWay /\ OnItsWayBack
  BY DEF SeqInv
<1>b. /\ pipe \in [{"out", "err"} -> Seq(Line)]
      /\ pipe["out"] \in Seq(Line) /\ pipe["err"] \in Seq(Line) /\ buf \in Seq(Line)
      /\ shell.call \in Senders
      /\ stdin \in Seq(Senders \cup {Intr})
  BY DEF TypeOK, Shell
<1>c. \A c : Waiting(c)' <=> Waiting(c)
  BY <1>0 DEF Waiting
<1>d. stdin # <<>> => /\ 1 \in DOMAIN stdin /\ Head(stdin) = stdin[1] /\ Tail(stdin) = <<>>
                      /\ Head(stdin) \in Senders /\ Waiting(Head(stdin))
  <2> SUFFICES ASSUME stdin # <<>> PROVE /\ 1 \in DOMAIN stdin /\ Head(stdin) = stdin[1] /\ Tail(stdin) = <<>>
                                         /\ Head(stdin) \in Senders /\ Waiting(Head(stdin))
    OBVIOUS
  <2>1. Len(stdin) \in Nat \ {0} /\ DOMAIN stdin = 1..Len(stdin)
    BY <1>b, EmptySeq, LenProperties
  <2>2. Len(stdin) \in DOMAIN stdin /\ 1 \in DOMAIN stdin
    BY <2>1
  <2>3. Len(stdin) = 1 /\ stdin[1] \in Senders /\ Waiting(stdin[1])
    BY <1>a, <2>2 DEF OnItsWay
  <2>4. Tail(stdin) = <<>>
    <3>1. Tail(stdin) \in Seq(Senders \cup {Intr}) /\ Len(Tail(stdin)) = Len(stdin) - 1
      BY <1>b, HeadTailProperties
    <3>2. Len(Tail(stdin)) = 0
      BY <2>3, <3>1
    <3> QED BY <3>1, <3>2, EmptySeq
  <2> QED BY <2>1, <2>2, <2>3, <2>4
<1> HIDE DEF TypeOK, Line, Waiting, Senders
<1>1. CASE ShellRead
  <2>1. /\ stdin # <<>> /\ stdin' = <<>> /\ pipe' = pipe /\ buf' = buf
        /\ shell'.state = "run" => shell'.call = Head(stdin)
    BY <1>1, <1>d DEF ShellRead
  <2>2. OnItsWay'
    BY <1>c, <1>d, <2>1 DEF OnItsWay
  <2>3. NoEnd(pipe["out"]) /\ NoEnd(buf)
    BY <1>a, <2>1 DEF OnItsWayBack
  <2>4. OnItsWayBack'
    BY <1>a, <1>c, <2>1, <2>3 DEF OnItsWayBack, NoEnd, OneEnd, OwnedEnds
  <2> QED BY <2>2, <2>4
<1>2. CASE ShellReadGlued
  <2>0. Head(stdin) # Intr
    BY <1>2, <1>d, NamesAssumption DEF ShellReadGlued
  <2> DEFINE m == Complaint(Head(stdin))
  <2>1. /\ stdin # <<>> /\ stdin' = <<>> /\ buf' = buf /\ shell'.state = "dead"
        /\ pipe'["out"] = pipe["out"] /\ pipe'["err"] = pipe["err"] \o m
    BY <1>2, <1>b, <1>d, <2>0 DEF ShellReadGlued
  <2>2. OnItsWay'
    BY <2>1 DEF OnItsWay
  <2>3. m \in Seq(Line) /\ NoEnd(m)
    BY <1>d, <2>1, ComplaintType
  <2>4. NoEnd(pipe["err"] \o m)
    BY <1>a, <1>b, <2>3, ConcatEnds DEF OnItsWayBack
  <2>5. OnItsWayBack'
    <3> HIDE DEF m
    <3> QED BY <1>a, <1>c, <2>1, <2>4 DEF OnItsWayBack, NoEnd, OneEnd, OwnedEnds
  <2> QED BY <2>2, <2>5
<1>3. CASE CommandReads
  <2>1. shell.state = "run" /\ stdin # <<>>
    BY <1>3 DEF CommandReads
  <2> QED BY <1>a, <2>1 DEF OnItsWay
<1>4. CASE ShellFinish
  <2> DEFINE c == shell.call
  <2>1. Waiting(c) /\ stdin = <<>> /\ NoEnd(pipe["out"]) /\ NoEnd(buf) /\ c \in Senders
    BY <1>4, <1>a, <1>b DEF ShellFinish, OnItsWay, OnItsWayBack
  <2>2. PICK r \in Reports(c) : pipe' = Printed(c, r)
    BY <1>4 DEF ShellFinish
  <2>3. shell'.state = "idle" /\ stdin' = <<>> /\ buf' = buf
    BY <1>4, <1>b, <2>1 DEF ShellFinish, TypeOK, Shell
  <2>4. r \in Seq(Line) /\ OneEnd(r) /\ OwnedEnds(r)
    BY <2>1, ReportType, ReportEnds
  <2>5. /\ pipe'["out"] = pipe["out"] \o (OutLines(c) \o r)
        /\ pipe'["err"] = pipe["err"] \o ErrLines(c)
    BY <2>1, <2>2, <2>4, PrintType
  <2> HIDE DEF c
  <2>6. /\ OutLines(c) \o r \in Seq(Line)
        /\ OneEnd(OutLines(c) \o r) /\ OwnedEnds(OutLines(c) \o r)
    BY <2>1, <2>4, OutLinesType, ConcatEnds
  <2>7. OneEnd(pipe'["out"]) /\ OwnedEnds(pipe'["out"])
    BY <1>b, <2>1, <2>5, <2>6, ConcatEnds
  <2>8. NoEnd(pipe'["err"])
    BY <1>a, <1>b, <2>1, <2>5, ErrLinesType, ConcatEnds DEF OnItsWayBack
  <2>9. OnItsWay'
    BY <2>3 DEF OnItsWay
  <2>10. OnItsWayBack'
    BY <1>a, <1>c, <2>1, <2>3, <2>7, <2>8 DEF OnItsWayBack, NoEnd, OneEnd, OwnedEnds
  <2> QED BY <2>9, <2>10
<1>5. CASE ShellExits
  <2> DEFINE c == shell.call
             z == <<>>
  <2>1. Waiting(c) /\ stdin = <<>> /\ NoEnd(pipe["out"]) /\ NoEnd(buf) /\ c \in Senders
    BY <1>5, <1>a, <1>b DEF ShellExits, OnItsWay, OnItsWayBack
  <2>2. pipe' = Printed(c, z) /\ stdin' = <<>> /\ buf' = buf
    BY <1>5, <2>1 DEF ShellExits
  <2>3. shell'.state = "dead"
    BY <1>5, <1>b DEF ShellExits, TypeOK, Shell
  <2>4. z \in Seq(Line) /\ NoEnd(z)
    BY DEF NoEnd
  <2> HIDE DEF z
  <2>5. /\ pipe'["out"] = pipe["out"] \o (OutLines(c) \o z)
        /\ pipe'["err"] = pipe["err"] \o ErrLines(c)
    BY <2>1, <2>2, <2>4, PrintType
  <2> HIDE DEF c
  <2>6. OutLines(c) \o z \in Seq(Line) /\ NoEnd(OutLines(c) \o z)
    BY <2>1, <2>4, OutLinesType, ConcatEnds
  <2>7. NoEnd(pipe'["out"])
    BY <1>b, <2>1, <2>5, <2>6, ConcatEnds
  <2>8. NoEnd(pipe'["err"])
    BY <1>a, <1>b, <2>1, <2>5, ErrLinesType, ConcatEnds DEF OnItsWayBack
  <2>9. OnItsWay'
    BY <2>2, <2>3 DEF OnItsWay
  <2>10. OnItsWayBack'
    BY <1>a, <1>c, <2>1, <2>2, <2>3, <2>7, <2>8 DEF OnItsWayBack, NoEnd, OneEnd, OwnedEnds
  <2> QED BY <2>9, <2>10
<1>6. CASE Deliver("out")
  <2> DEFINE q == pipe["out"]
             l == Head(q)
  <2>1. q # <<>> /\ pipe'["out"] = Tail(q) /\ pipe'["err"] = pipe["err"]
    BY <1>6, <1>b DEF Deliver
  <2>2. buf' = Enqueue(buf, l) /\ stdin' = stdin /\ shell' = shell
    BY <1>6 DEF Deliver
  <2>3. /\ 1 \in DOMAIN q /\ l = q[1]
        /\ NoEnd(q) => NoEnd(Tail(q))
        /\ OneEnd(q) => OneEnd(Tail(q))
        /\ OneEnd(q) /\ l.kind = "end" => NoEnd(Tail(q))
        /\ OwnedEnds(q) => OwnedEnds(Tail(q))
    BY <1>b, <2>1, TailEnds
  <2>4. l \in Line
    BY <1>b, <2>1
  <2>5. /\ NoEnd(buf) => OneEnd(buf')
        /\ NoEnd(buf) /\ l.kind # "end" => NoEnd(buf')
        /\ OneEnd(buf) /\ l.kind # "end" => OneEnd(buf')
        /\ OwnedEnds(buf) /\ (l.kind = "end" => Waiting(l.of) /\ l.n = Code[l.of]) => OwnedEnds(buf')
    BY <1>b, <2>2, <2>4, EnqueueEnds
  <2> HIDE DEF l
  <2>6. l.kind = "end" => Waiting(l.of) /\ l.n = Code[l.of]
    BY <1>a, <2>3 DEF OnItsWayBack, OwnedEnds
  <2>7. l.kind = "end" => NoEnd(buf) /\ ~NoEnd(q)
    BY <1>a, <2>3 DEF OnItsWayBack, NoEnd
  <2> HIDE DEF q
  <2>8. OnItsWay'
    BY <1>a, <1>c, <2>2 DEF OnItsWay
  <2>9. /\ OneEnd(Tail(q)) /\ OwnedEnds(Tail(q)) /\ OneEnd(buf') /\ OwnedEnds(buf')
        /\ NoEnd(Tail(q)) \/ NoEnd(buf')
        /\ stdin # <<>> \/ shell.state = "run" => NoEnd(Tail(q)) /\ NoEnd(buf')
    BY <1>a, <2>3, <2>5, <2>6, <2>7 DEF OnItsWayBack, q
  <2>10. OnItsWayBack'
    BY <1>a, <1>c, <2>1, <2>2, <2>9 DEF OnItsWayBack, NoEnd, OneEnd, OwnedEnds
  <2> QED BY <2>8, <2>10
<1>7. CASE Deliver("err")
  <2> DEFINE q == pipe["err"]
             l == Head(q)
  <2>1. q # <<>> /\ pipe'["err"] = Tail(q) /\ pipe'["out"] = pipe["out"]
    BY <1>7, <1>b DEF Deliver
  <2>2. buf' = Enqueue(buf, l) /\ stdin' = stdin /\ shell' = shell
    BY <1>7 DEF Deliver
  <2>3. l \in Line /\ l.kind # "end" /\ NoEnd(Tail(q))
    BY <1>a, <1>b, <2>1, TailEnds DEF OnItsWayBack, NoEnd
  <2>4. /\ NoEnd(buf) => NoEnd(buf')
        /\ OneEnd(buf) => OneEnd(buf')
        /\ OwnedEnds(buf) => OwnedEnds(buf')
    BY <1>b, <2>2, <2>3, EnqueueEnds
  <2> HIDE DEF q, l
  <2>5. OnItsWay'
    BY <1>a, <1>c, <2>2 DEF OnItsWay
  <2>6. OneEnd(buf') /\ OwnedEnds(buf') /\ (NoEnd(buf) => NoEnd(buf'))
    BY <1>a, <2>4 DEF OnItsWayBack
  <2>7. OnItsWayBack'
    BY <1>a, <1>c, <2>1, <2>2, <2>3, <2>6 DEF OnItsWayBack, NoEnd, OneEnd, OwnedEnds
  <2> QED BY <2>5, <2>7
<1> QED BY <1>1, <1>2, <1>3, <1>4, <1>5, <1>6, <1>7

(* The steps of the callers. *)
LEMMA CallSeq ==
  ASSUME TypeOK, SeqInv, ~Concurrent, NEW c \in Calls, Call(c)
  PROVE  SeqInv'
<1>0. c \in Senders /\ c # Open /\ c # Intr
  BY NamesAssumption DEF Senders
<1>1. \A d \in Senders : ~Busy(d)
  BY DEF Call, Busy, Senders
<1>2. \A d \in Senders : exec'[d].state = exec[d].state \/ d = c
  BY DEF Call, TypeOK
<1>3. /\ exec[c].state = "none" /\ exec'[c].state \in {"waiting", "failed"}
      /\ \A d \in Senders : exec'[d].code = exec[d].code
  <2>1. exec \in [Senders -> Exec]
    BY DEF TypeOK
  <2>2. /\ [exec[c] EXCEPT !.state = "waiting"].state = "waiting"
        /\ [exec[c] EXCEPT !.state = "failed"].state = "failed"
        /\ [exec[c] EXCEPT !.state = "waiting"].code = exec[c].code
        /\ [exec[c] EXCEPT !.state = "failed"].code = exec[c].code
    BY <1>0, <2>1, SetState DEF States
  <2> HIDE DEF Exec
  <2> QED BY <1>0, <2>1, <2>2 DEF Call
<1>4. OneBusy'
  BY <1>1, <1>2 DEF OneBusy, Busy
<1>5. ~Expired' => ~Expired
  BY <1>2, <1>3 DEF Expired
<1>6. OwnCode'
  BY <1>2, <1>3, <1>5 DEF SeqInv, OwnCode, Done, Senders
<1>7. ASSUME ~Expired PROVE OnItsWay' /\ OnItsWayBack'
  <2>1. OnItsWay /\ OnItsWayBack
    BY <1>7 DEF SeqInv
  <2>2. \A d \in Senders : ~Waiting(d)
    BY <1>1 DEF Busy, Waiting
  <2>3. shell.call \in Senders /\ stdin \in Seq(Senders \cup {Intr})
        /\ pipe["out"] \in Seq(Line) /\ buf \in Seq(Line)
    BY DEF TypeOK, Shell
  <2>4. stdin = <<>>
    <3>1. stdin # <<>> => 1 \in DOMAIN stdin
      BY <2>3, EmptySeq, LenProperties
    <3> QED BY <2>1, <2>2, <3>1 DEF OnItsWay
  <2>5. shell.state # "run"
    BY <2>1, <2>2, <2>3 DEF OnItsWay
  <2>6. NoEnd(pipe["out"]) /\ NoEnd(buf)
    <3>1. /\ \A i \in DOMAIN pipe["out"] : pipe["out"][i].of \in Senders
          /\ \A i \in DOMAIN buf : buf[i].of \in Senders
      BY <2>3, SenderOf
    <3> QED BY <2>1, <2>2, <3>1 DEF OnItsWayBack, OwnedEnds, NoEnd
  <2>7. pipe' = pipe /\ buf' = buf /\ shell' = shell
    BY DEF Call
  <2>8. OnItsWayBack'
    BY <2>1, <2>6, <2>7 DEF OnItsWayBack, NoEnd, OneEnd, OwnedEnds
  <2>9. \/ stdin' = <<c>> /\ exec'[c].state = "waiting"
        \/ stdin' = <<>>
    <3>1. Append(<<>>, c) = <<c>>
      OBVIOUS
    <3>2. exec \in [Senders -> Exec]
      BY DEF TypeOK
    <3>3. [exec[c] EXCEPT !.state = "waiting"].state = "waiting"
      BY <1>0, <3>2, SetState DEF States
    <3> HIDE DEF Exec
    <3> QED BY <1>0, <2>4, <3>1, <3>2, <3>3 DEF Call
  <2>10. OnItsWay'
    BY <1>0, <2>5, <2>7, <2>9 DEF OnItsWay, Waiting
  <2> QED BY <2>8, <2>10
<1> QED BY <1>4, <1>5, <1>6, <1>7 DEF SeqInv

LEMMA ReadSeq ==
  ASSUME TypeOK, SeqInv, NEW c \in Senders, Read(c)
  PROVE  SeqInv'
<1> DEFINE l == Head(buf)
           e == CASE l.kind = "end" -> Ended(exec[c], l)
                  [] l.kind # "end" /\ c = Open -> exec[c]
                  [] l.kind # "end" /\ c # Open -> Collect(exec[c], l)
<1>0. exec \in [Senders -> Exec] /\ buf \in Seq(Line) /\ buf # <<>>
  BY DEF TypeOK, Read
<1>1. exec[c] \in Exec /\ l \in Line
  BY <1>0
<1>2. exec' = [exec EXCEPT ![c] = e] /\ buf' = Tail(buf) /\ stdin' = stdin /\ pipe' = pipe /\ shell' = shell
  BY DEF Read
<1>3. exec[c].state = "waiting"
  BY DEF Read, Waiting
<1>4. /\ l.kind = "end" => e.state = "ended" /\ e.code = ScannedCode(l)
      /\ l.kind # "end" => e.state = "waiting" /\ e.code = exec[c].code
  <2>1. /\ Ended(exec[c], l).state = "ended" /\ Ended(exec[c], l).code = ScannedCode(l)
        /\ Collect(exec[c], l).state = exec[c].state /\ Collect(exec[c], l).code = exec[c].code
    BY <1>1, EndedType, CollectType
  <2> HIDE DEF l, Exec, Line
  <2> QED BY <1>3, <2>1
<1> HIDE DEF e
<1>5. exec'[c] = e /\ \A d \in Senders \ {c} : exec'[d] = exec[d]
  BY <1>0, <1>2
<1>6. OneBusy'
  BY <1>3, <1>4, <1>5 DEF SeqInv, OneBusy, Busy
<1>7. ~Expired' => ~Expired
  BY <1>3, <1>5 DEF Expired
<1>8. \A d \in Senders : Waiting(d) => d = c
  BY <1>3 DEF SeqInv, OneBusy, Busy, Waiting
<1>9. /\ 1 \in DOMAIN buf /\ l = buf[1]
      /\ NoEnd(buf) => NoEnd(Tail(buf))
      /\ OneEnd(buf) => OneEnd(Tail(buf))
      /\ OneEnd(buf) /\ l.kind = "end" => NoEnd(Tail(buf))
      /\ OwnedEnds(buf) => OwnedEnds(Tail(buf))
  BY <1>0, TailEnds
<1>10. l.of \in Senders
  BY <1>1 DEF Line
<1> HIDE DEF l, TypeOK, Exec, Line
<1>11. ASSUME ~Expired, l.kind = "end"
       PROVE  /\ OnItsWay' /\ OnItsWayBack' /\ e.code = Code[c]
  <2>1. OnItsWay /\ OnItsWayBack
    BY <1>11 DEF SeqInv
  <2>2. Waiting(l.of) /\ l.n = Code[l.of]
    BY <1>9, <1>11, <2>1 DEF OnItsWayBack, OwnedEnds
  <2>3. l.of = c /\ l.n = Code[c]
    BY <1>8, <1>10, <2>2
  <2>4. e.code = Code[c]
    <3>1. Code[c] \in 0..255
      BY Zenon, CommandAssumption
    <3>2. Code[c] # NoCode
      BY <3>1 DEF NoCode
    <3> QED BY <1>4, <1>11, <2>3, <3>2 DEF ScannedCode
  <2>5. ~NoEnd(buf)
    BY <1>9, <1>11 DEF NoEnd
  <2>6. NoEnd(pipe["out"]) /\ NoEnd(Tail(buf)) /\ stdin = <<>> /\ shell.state # "run"
    BY <1>9, <1>11, <2>1, <2>5 DEF OnItsWayBack
  <2>7. OnItsWay'
    BY <1>2, <2>6 DEF OnItsWay
  <2>8. OnItsWayBack'
    BY <1>2, <2>1, <2>6 DEF OnItsWayBack, NoEnd, OneEnd, OwnedEnds
  <2> QED BY <2>4, <2>7, <2>8
<1>12. ASSUME ~Expired, l.kind # "end"
       PROVE  OnItsWay' /\ OnItsWayBack'
  <2>1. OnItsWay /\ OnItsWayBack
    BY <1>12 DEF SeqInv
  <2>2. \A d \in Senders : Waiting(d) => Waiting(d)'
    BY <1>4, <1>5, <1>8, <1>12 DEF Waiting
  <2>3. shell.call \in Senders /\ pipe["out"] \in Seq(Line)
    BY DEF TypeOK, Shell
  <2>4. OnItsWay'
    BY <1>2, <2>1, <2>2, <2>3 DEF OnItsWay
  <2>5. OneEnd(Tail(buf)) /\ OwnedEnds(Tail(buf)) /\ (NoEnd(buf) => NoEnd(Tail(buf)))
    BY <1>9, <2>1 DEF OnItsWayBack
  <2>6. /\ \A i \in DOMAIN pipe["out"] : pipe["out"][i].of \in Senders
        /\ \A i \in DOMAIN Tail(buf) : Tail(buf)[i].of \in Senders
    BY <1>0, <2>3, HeadTailProperties, SenderOf
  <2>7. OwnedEnds(pipe["out"])' /\ OwnedEnds(buf)'
    BY <1>2, <2>1, <2>2, <2>5, <2>6 DEF OnItsWayBack, OwnedEnds
  <2>8. OnItsWayBack'
    BY <1>2, <2>1, <2>5, <2>7 DEF OnItsWayBack, NoEnd, OneEnd
  <2> QED BY <2>4, <2>8
<1>13. OwnCode'
  <2> SUFFICES ASSUME ~Expired', NEW d \in Calls, Done(d)' PROVE exec'[d].code = Code[d]
    BY DEF OwnCode
  <2>1. d \in Senders /\ ~Expired
    BY <1>7 DEF Senders
  <2>2. CASE d = c
    <3>1. l.kind = "end"
      BY <1>4, <1>5, <2>2 DEF Done
    <3> QED BY <1>5, <1>11, <2>1, <2>2, <3>1
  <2>3. CASE d # c
    BY <1>5, <2>1, <2>3 DEF SeqInv, OwnCode, Done
  <2> QED BY <2>2, <2>3
<1> QED BY <1>6, <1>7, <1>11, <1>12, <1>13 DEF SeqInv

(* Once an Exec has given up nothing is promised of the later ones. *)
LEMMA GivingUpSeq ==
  ASSUME TypeOK, SeqInv, \/ \E c \in Calls : Interrupt(c) \/ Drain(c)
                         \/ OpenFails
  PROVE  SeqInv'
<1>0. exec \in [Senders -> Exec]
  BY DEF TypeOK
<1>1. PICK c \in Senders : \/ Interrupt(c) \/ Drain(c)
                           \/ OpenFails /\ c = Open
  BY DEF Senders
<1>2. /\ Busy(c) /\ exec'[c].state \in {"expiring", "expired"}
      /\ \A d \in Senders \ {c} : exec'[d] = exec[d]
  <2>1. exec[c] \in Exec
    BY <1>0
  <2>2. /\ [exec[c] EXCEPT !.state = "expiring"].state = "expiring"
        /\ [exec[c] EXCEPT !.state = "expired"].state = "expired"
        /\ Settled(exec[c], "expired", 130).state = "expired"
    <3>1. 130 \in Int /\ "expired" \in States /\ "expiring" \in States
      BY DEF States
    <3> HIDE DEF Exec, States
    <3> QED BY <2>1, <3>1, SetState, SetResult
  <2> HIDE DEF Exec
  <2> QED BY <1>0, <1>1, <2>2 DEF Interrupt, Drain, OpenFails, Busy, Waiting
<1>3. Expired'
  BY <1>2 DEF Expired
<1>4. OneBusy'
  BY <1>2 DEF SeqInv, OneBusy, Busy
<1> QED BY <1>3, <1>4 DEF SeqInv, OwnCode

LEMMA CloseSeq == ASSUME TypeOK, SeqInv, Close PROVE SeqInv'
<1>1. exec' = exec /\ stdin' = stdin /\ pipe' = pipe /\ buf' = buf /\ shell'.state = "closed"
  BY DEF Close, TypeOK, Shell
<1>2. ~Expired => OnItsWay' /\ OnItsWayBack'
  BY <1>1 DEF SeqInv, OnItsWay, OnItsWayBack, NoEnd, OneEnd, OwnedEnds, Waiting
<1> QED BY <1>1, <1>2, SameExec

LEMMA StepSeq == TypeOK /\ SeqInv /\ ~Concurrent /\ ~Splits /\ [Next]_vars => SeqInv'
<1> SUFFICES ASSUME TypeOK, SeqInv, ~Concurrent, ~Splits, [Next]_vars PROVE SeqInv'
  OBVIOUS
<1>1. CASE UNCHANGED vars
  BY <1>1 DEF vars, SeqInv, OneBusy, Busy, Expired, OwnCode, Done, OnItsWay, OnItsWayBack, NoEnd,
     OneEnd, OwnedEnds, Waiting
<1>2. CASE Next
  BY <1>2, ShellSeq, CallSeq, ReadSeq, GivingUpSeq, CloseSeq DEF Next
<1> QED BY <1>1, <1>2

(* Callers that run one Exec at a time on a session whose sentinel lines
   are read whole get the exit status of their own command, until one of
   them gives up: for any commands, any amount of output and any capacity
   of the line buffer, however often it overflows. *)
THEOREM SequentialOwnCode ==
  ASSUME ~Concurrent, ~Splits
  PROVE  Spec => []OwnCode
<1>1. Init => TypeOK /\ SeqInv
  BY InitType, InitSeq
<1>2. TypeOK /\ SeqInv /\ [Next]_vars => (TypeOK /\ SeqInv)'
  BY StepType, StepSeq
<1>3. SeqInv => OwnCode
  BY DEF SeqInv
<1> QED BY <1>1, <1>2, <1>3, PTL DEF Spec

-----------------------------------------------------------------------------
(* The lines a sequential caller reads.                                    *)

\* What follows the first element of a sequence.
LEMMA TailAt ==
  ASSUME NEW S, NEW q \in Seq(S), q # <<>>
  PROVE  /\ Tail(q) \in Seq(S) /\ Head(q) = q[1] /\ q[1] \in S
         /\ Len(q) \in Nat \ {0} /\ Len(Tail(q)) = Len(q) - 1
         /\ DOMAIN q = 1..Len(q) /\ DOMAIN Tail(q) = 1..Len(q) - 1
         /\ \A i \in DOMAIN Tail(q) : i + 1 \in DOMAIN q /\ Tail(q)[i] = q[i + 1]
OBVIOUS

LEMMA ConcatAt ==
  ASSUME NEW S, NEW p \in Seq(S), NEW q \in Seq(S)
  PROVE  /\ p \o q \in Seq(S) /\ Len(p \o q) = Len(p) + Len(q) /\ Len(p) \in Nat /\ Len(q) \in Nat
         /\ \A i \in 1..Len(p) : (p \o q)[i] = p[i]
         /\ \A i \in 1..Len(q) : (p \o q)[Len(p) + i] = q[i]
OBVIOUS

LEMMA AppendAt ==
  ASSUME NEW S, NEW p \in Seq(S), NEW l \in S
  PROVE  /\ Append(p, l) \in Seq(S) /\ Len(Append(p, l)) = Len(p) + 1 /\ Len(p) \in Nat
         /\ DOMAIN p = 1..Len(p) /\ DOMAIN Append(p, l) = 1..Len(p) + 1
         /\ \A i \in DOMAIN p : Append(p, l)[i] = p[i]
         /\ Append(p, l)[Len(p) + 1] = l
OBVIOUS

\* A line that is delivered stays unread, or drives out the oldest of a full buffer.
LEMMA DeliverUnread ==
  ASSUME NEW S, NEW b \in Seq(S), NEW p \in Seq(S), p # <<>>, Len(b) <= Cap
  PROVE  \/ Enqueue(b, Head(p)) \o Tail(p) = b \o p
         \/ /\ Enqueue(b, Head(p)) \o Tail(p) = Tail(b \o p)
            /\ b \o p # <<>> /\ Len(b \o p) > Cap
<1>1. CASE Len(b) < Cap
  <2>1. Append(b, Head(p)) \o Tail(p) = b \o p
    OBVIOUS
  <2> QED BY <1>1, <2>1 DEF Enqueue
<1>2. CASE ~(Len(b) < Cap)
  <2>1. Len(b) = Cap /\ Cap \in Nat \ {0}
    BY <1>2, BoundAssumption
  <2>2. b # <<>>
    BY <2>1
  <2>3. Append(Tail(b), Head(p)) \o Tail(p) = Tail(b \o p)
    BY <2>2
  <2>4. b \o p # <<>> /\ Len(b \o p) > Cap
    BY <2>1
  <2> QED BY <1>2, <2>3, <2>4 DEF Enqueue
<1> QED BY <1>1, <1>2

LEMMA ExecOut ==
  ASSUME NEW e \in Exec, NEW q \in Seq(Line)
  PROVE  /\ [e EXCEPT !.out = q].out = q /\ [e EXCEPT !.out = q].skipped = e.skipped
         /\ [e EXCEPT !.skipped = TRUE].out = e.out /\ [e EXCEPT !.skipped = TRUE].skipped = TRUE
<1> DEFINE Q == Seq(Line)
<1> HIDE DEF Q
<1> QED BY DEF Exec, Q

LEMMA OutputType ==
  ASSUME NEW c \in Senders
  PROVE  /\ Output[c] \in Seq({"text", "blank"}) /\ Len(Output[c]) \in Nat
         /\ DOMAIN Output[c] = 1..Len(Output[c])
         /\ \A n \in DOMAIN Output[c] : Output[c][n] \in {"text", "blank"}
<1>1. Output[c] \in Seq({"text", "blank"})
  BY CommandAssumption
<1> QED BY <1>1

\* The oldest unread line is read, or driven out.
LEMMA TailNext ==
  ASSUME NEW c \in Senders, NEW q \in Seq(Line), q # <<>>, NextLines(c, q)
  PROVE  /\ NextLines(c, Tail(q))
         /\ Len(q) > 1 => Tail(q) # <<>> /\ Tail(q)[Len(Tail(q))] = q[Len(q)]
<1> HIDE DEF Line
<1>1. /\ Len(q) \in Nat \ {0} /\ Len(Tail(q)) = Len(q) - 1
      /\ DOMAIN q = 1..Len(q) /\ DOMAIN Tail(q) = 1..Len(q) - 1
      /\ \A i \in DOMAIN Tail(q) : i + 1 \in DOMAIN q /\ Tail(q)[i] = q[i + 1]
  BY TailAt
<1>2. Len(Output[c]) \in Nat
  BY OutputType
<1> DEFINE t == Tail(q)
<1> HIDE DEF t
<1>3. \A i \in DOMAIN t : t[i].of = c
  BY <1>1 DEF NextLines, t
<1>4. \A i \in DOMAIN t : IF t[i].kind = "end" THEN i = Len(t) ELSE IsLineOf(c, t[i])
  BY <1>1 DEF NextLines, t
<1>5. \A i, j \in DOMAIN t : i < j /\ t[j].kind # "end" => t[i].n < t[j].n
  BY <1>1 DEF NextLines, t
<1>6. Fits(c) => Len(t) <= Len(Output[c]) + 2
  BY <1>1, <1>2 DEF NextLines, t
<1>7. Len(q) > 1 => t # <<>> /\ t[Len(t)] = q[Len(q)]
  <2> SUFFICES ASSUME Len(q) > 1 PROVE t # <<>> /\ t[Len(t)] = q[Len(q)]
    OBVIOUS
  <2>1. Len(t) = Len(q) - 1 /\ Len(t) \in DOMAIN t
    BY <1>1 DEF t
  <2>2. t # <<>>
    BY <1>1, <2>1
  <2>3. t[Len(t)] = q[Len(t) + 1] /\ Len(t) + 1 = Len(q)
    BY <1>1, <2>1 DEF t
  <2> QED BY <2>2, <2>3
<1> QED BY <1>3, <1>4, <1>5, <1>6, <1>7 DEF NextLines, t

LEMMA TailSoFar ==
  ASSUME NEW c, NEW e, NEW q \in Seq(Line), q # <<>>, LinesSoFar(c, e, q)
  PROVE  LinesSoFar(c, e, Tail(q))
<1> HIDE DEF Line
<1>1. \A i \in DOMAIN Tail(q) : i + 1 \in DOMAIN q /\ Tail(q)[i] = q[i + 1]
  BY TailAt
<1> QED BY <1>1 DEF LinesSoFar

\* Exec collects the next line: what it has is still in order, and nothing is missing.
LEMMA CollectNext ==
  ASSUME NEW c \in Senders, NEW e \in Exec, NEW q \in Seq(Line), q # <<>>, q[1].kind # "end",
         NextLines(c, q), LinesSoFar(c, e, q), Complete(c, e, q)
  PROVE  LinesSoFar(c, Collect(e, q[1]), Tail(q)) /\ Complete(c, Collect(e, q[1]), Tail(q))
<1> DEFINE l == q[1]
           N == Len(Output[c])
           o == e.out
<1>1. /\ l \in Line /\ o \in Seq(Line) /\ e.skipped \in BOOLEAN
      /\ N \in Nat /\ DOMAIN Output[c] = 1..N
      /\ l.kind \in {"text", "blank", "end"}
  <2>1. l \in Line
    BY TailAt
  <2>2. l.kind \in {"text", "blank", "end"}
    BY <2>1 DEF Line
  <2> QED BY <2>1, <2>2, ExecFields, OutputType
<1> HIDE DEF Line, Exec, N
<1>2. /\ 1 \in DOMAIN q /\ DOMAIN q = 1..Len(q) /\ DOMAIN Tail(q) = 1..Len(q) - 1 /\ Len(q) \in Nat \ {0}
      /\ \A i \in DOMAIN Tail(q) : i + 1 \in DOMAIN q /\ Tail(q)[i] = q[i + 1]
  BY TailAt
<1>3. DOMAIN o = 1..Len(o) /\ Len(o) \in Nat
  BY <1>1, LenProperties
<1> HIDE DEF l, o
<1>4. /\ IsLineOf(c, l) /\ l.n \in 1..N + 1
      /\ \A k \in DOMAIN o : o[k].n < l.n
      /\ \A i \in DOMAIN Tail(q) : Tail(q)[i].kind # "end" => l.n < Tail(q)[i].n
  BY <1>2 DEF NextLines, LinesSoFar, IsLineOf, l, o, N
<1>5. Len(o) + 1 <= l.n
  <2>1. CASE Len(o) = 0
    BY <1>1, <1>4, <2>1
  <2>2. CASE Len(o) # 0
    <3>1. Len(o) \in DOMAIN o
      BY <1>3, <2>2
    <3>2. Len(o) <= o[Len(o)].n /\ o[Len(o)].n < l.n /\ o[Len(o)].n \in 1..N + 1
      BY <1>4, <3>1 DEF LinesSoFar, IsLineOf, o, N
    <3> QED BY <1>1, <1>3, <1>4, <3>2
  <2> QED BY <2>1, <2>2
<1>6. LinesSoFar(c, e, Tail(q))
  BY TailSoFar
<1>7. CASE l.kind = "blank" /\ ~e.skipped
  <2> DEFINE f == [e EXCEPT !.skipped = TRUE]
  <2>1. Collect(e, l) = f
    BY <1>7 DEF Collect
  <2>2. f.out = o /\ f.skipped
    BY <1>1, ExecOut DEF o
  <2> HIDE DEF f
  <2>3. LinesSoFar(c, f, Tail(q))
    BY <1>6, <2>2 DEF LinesSoFar, o
  <2>4. Complete(c, f, Tail(q))
    <3> SUFFICES ASSUME Fits(c), NEW n \in 1..N
                 PROVE  \/ \E k \in DOMAIN o : o[k].n = n
                        \/ \E i \in DOMAIN Tail(q) : Tail(q)[i].kind # "end" /\ Tail(q)[i].n = n
                        \/ n \in FirstBlank(c)
      BY <1>1, <2>2 DEF Complete
    <3>1. \A m \in 1..N : m < l.n => Output[c][m] = "text"
      <4> SUFFICES ASSUME NEW m \in 1..N, m < l.n PROVE Output[c][m] = "text"
        OBVIOUS
      <4>1. \/ \E k \in DOMAIN o : o[k].n = m
            \/ \E i \in DOMAIN q : q[i].kind # "end" /\ q[i].n = m
        BY <1>1, <1>7 DEF Complete, o
      <4>2. ASSUME NEW i \in DOMAIN q, q[i].kind # "end", q[i].n = m PROVE FALSE
        <5>1. i # 1
          BY <1>4, <4>2 DEF l
        <5>2. i - 1 \in DOMAIN Tail(q) /\ Tail(q)[i - 1] = q[i]
          BY <1>2, <5>1
        <5>3. l.n < m
          <6>1. Tail(q)[i - 1].kind # "end" /\ Tail(q)[i - 1].n = m
            BY <4>2, <5>2
          <6> QED BY <1>4, <5>2, <6>1
        <5>4. l.n \in Nat /\ m \in Nat
          BY <1>1, <1>4
        <5> QED BY <5>3, <5>4
      <4>3. PICK k \in DOMAIN o : o[k].n = m
        BY <4>1, <4>2
      <4> QED BY <1>1, <1>7, <4>3 DEF LinesSoFar, IsLineOf, o
    <3>2. CASE n = l.n
      <4>1. Output[c][n] = "blank"
        BY <1>1, <1>4, <1>7, <3>2 DEF IsLineOf
      <4>2. \A j \in 1..n - 1 : Output[c][j] # "blank"
        BY <1>1, <3>1, <3>2
      <4> QED BY <1>1, <4>1, <4>2 DEF FirstBlank
    <3>3. CASE n # l.n
      <4>1. \/ \E k \in DOMAIN o : o[k].n = n
            \/ \E i \in DOMAIN q : q[i].kind # "end" /\ q[i].n = n
        BY <1>1, <1>7 DEF Complete, o
      <4>2. ASSUME NEW i \in DOMAIN q, q[i].kind # "end", q[i].n = n
            PROVE  i - 1 \in DOMAIN Tail(q) /\ Tail(q)[i - 1] = q[i]
        <5>1. i # 1
          BY <3>3, <4>2 DEF l
        <5> QED BY <1>2, <5>1
      <4> QED BY <4>1, <4>2
    <3> QED BY <3>2, <3>3
  <2> QED BY <2>1, <2>3, <2>4 DEF l
<1>8. CASE ~(l.kind = "blank" /\ ~e.skipped) /\ Len(o) < OutCap
  <2> DEFINE a == Append(o, l)
             f == [e EXCEPT !.out = a]
  <2>1. Collect(e, l) = f
    BY <1>8 DEF Collect, o
  <2>2. /\ a \in Seq(Line) /\ DOMAIN a = 1..Len(o) + 1 /\ a[Len(o) + 1] = l
        /\ \A k \in DOMAIN o : a[k] = o[k]
    BY <1>1, AppendAt
  <2> HIDE DEF a
  <2>3. f.out = a /\ f.skipped = e.skipped
    BY <2>2, ExecOut
  <2> HIDE DEF f
  <2>4. LinesSoFar(c, f, Tail(q))
    <3>1. \A k \in DOMAIN a : IsLineOf(c, a[k]) /\ k <= a[k].n
      BY <1>3, <1>4, <1>5, <2>2 DEF LinesSoFar, o
    <3>2. \A k \in DOMAIN a : e.skipped \/ a[k].kind = "text"
      <4>1. e.skipped \/ l.kind = "text"
        BY <1>1, <1>8 DEF l
      <4> QED BY <1>3, <2>2, <4>1 DEF LinesSoFar, o
    <3>0. \A k \in DOMAIN a : (k \in DOMAIN o /\ a[k] = o[k]) \/ (k = Len(o) + 1 /\ a[k] = l)
      BY <1>3, <2>2
    <3>3. ASSUME NEW k \in DOMAIN a, NEW m \in DOMAIN a, k < m PROVE a[k].n < a[m].n
      <4>1. k \in DOMAIN o /\ a[k] = o[k]
        BY <1>3, <2>2, <3>3
      <4>2. CASE m \in DOMAIN o /\ a[m] = o[m]
        BY <3>3, <4>1, <4>2 DEF LinesSoFar, o
      <4>3. CASE a[m] = l
        BY <1>4, <4>1, <4>3
      <4> QED BY <3>0, <4>2, <4>3
    <3>4. ASSUME NEW k \in DOMAIN a, NEW i \in DOMAIN Tail(q), Tail(q)[i].kind # "end"
          PROVE  a[k].n < Tail(q)[i].n
      <4>1. CASE k \in DOMAIN o /\ a[k] = o[k]
        BY <1>6, <3>4, <4>1 DEF LinesSoFar, o
      <4>2. CASE a[k] = l
        BY <1>4, <3>4, <4>2
      <4> QED BY <3>0, <4>1, <4>2
    <3> QED BY <2>3, <3>1, <3>2, <3>3, <3>4 DEF LinesSoFar
  <2>5. Complete(c, f, Tail(q))
    <3> SUFFICES ASSUME Fits(c), NEW n \in DOMAIN Output[c]
                 PROVE  \/ \E k \in DOMAIN a : a[k].n = n
                        \/ \E i \in DOMAIN Tail(q) : Tail(q)[i].kind # "end" /\ Tail(q)[i].n = n
                        \/ e.skipped /\ n \in FirstBlank(c)
      BY <2>3 DEF Complete
    <3>1. \/ \E k \in DOMAIN o : o[k].n = n
          \/ \E i \in DOMAIN q : q[i].kind # "end" /\ q[i].n = n
          \/ e.skipped /\ n \in FirstBlank(c)
      BY DEF Complete, o
    <3>2. ASSUME NEW k \in DOMAIN o, o[k].n = n PROVE \E m \in DOMAIN a : a[m].n = n
      BY <1>3, <2>2, <3>2
    <3>3. ASSUME NEW i \in DOMAIN q, q[i].kind # "end", q[i].n = n
          PROVE  \/ \E k \in DOMAIN a : a[k].n = n
                 \/ \E j \in DOMAIN Tail(q) : Tail(q)[j].kind # "end" /\ Tail(q)[j].n = n
      <4>1. CASE i = 1
        <5>1. Len(o) + 1 \in DOMAIN a /\ a[Len(o) + 1].n = n
          BY <1>3, <2>2, <3>3, <4>1 DEF l
        <5> QED BY <5>1
      <4>2. CASE i # 1
        <5>1. i - 1 \in DOMAIN Tail(q) /\ Tail(q)[i - 1] = q[i]
          BY <1>2, <4>2
        <5> QED BY <3>3, <5>1
      <4> QED BY <4>1, <4>2
    <3> QED BY <3>1, <3>2, <3>3
  <2> QED BY <2>1, <2>4, <2>5 DEF l
<1>9. CASE ~(l.kind = "blank" /\ ~e.skipped) /\ ~(Len(o) < OutCap)
  <2>1. Collect(e, l) = e
    BY <1>9 DEF Collect, o
  <2>2. Complete(c, e, Tail(q))
    <3> SUFFICES ASSUME Fits(c), NEW n \in 1..N, NEW i \in DOMAIN q, q[i].kind # "end", q[i].n = n
                 PROVE  i - 1 \in DOMAIN Tail(q) /\ Tail(q)[i - 1] = q[i]
      BY <1>1 DEF Complete
    <3>1. i # 1
      <4>1. N <= OutCap /\ OutCap \in Nat
        BY BoundAssumption DEF Fits, N
      <4>2. n # l.n
        BY <1>1, <1>3, <1>5, <1>9, <4>1
      <4> QED BY <4>2 DEF l
    <3> QED BY <1>2, <3>1
  <2> QED BY <1>6, <2>1, <2>2 DEF l
<1> QED BY <1>7, <1>8, <1>9

LEMMA ReportLines ==
  ASSUME NEW c \in Senders
  PROVE  /\ Newline(c) \in Line /\ End(c) \in Line
         /\ Newline(c).of = c /\ Newline(c).kind = "blank" /\ Newline(c).n = Len(Output[c]) + 1
         /\ End(c).of = c /\ End(c).kind = "end"
<1>1. Code[c] \in 0..255
  BY Zenon, CommandAssumption
<1>2. Code[c] \in Int
  BY <1>1
<1>3. Len(Output[c]) + 1 \in Int
  BY OutputType
<1> QED BY <1>2, <1>3 DEF Newline, End, Other, Line

\* What a command prints, with the report of its sentinel or without, is what is to be read.
LEMMA OutputNext ==
  ASSUME NEW c \in Senders, NEW r \in {<<Newline(c), End(c)>>, <<End(c)>>, <<>>}, NEW e, e.out = <<>>
  PROVE  LET q == OutLines(c) \o r IN
         /\ NextLines(c, q) /\ LinesSoFar(c, e, q) /\ Complete(c, e, q)
         /\ r # <<>> => q # <<>> /\ q[Len(q)].kind = "end"
<1> DEFINE N == Len(Output[c])
           o == OutLines(c)
           q == o \o r
<1>1. N \in Nat /\ DOMAIN Output[c] = 1..N /\ \A n \in 1..N : Output[c][n] \in {"text", "blank"}
  BY OutputType
<1>2. /\ o \in Seq(Line) /\ DOMAIN o = 1..N
      /\ \A i \in 1..N : o[i].of = c /\ o[i].kind = Output[c][i] /\ o[i].n = i
  BY <1>1, OutLinesType DEF OutLines
<1>3. Len(o) = N
  <2> HIDE DEF o, Line, N
  <2> QED BY <1>1, <1>2, LenProperties
<1>4. /\ r \in Seq(Line) /\ Len(r) \in 0..2 /\ (r # <<>> => Len(r) > 0)
      /\ \A i \in 1..Len(r) : /\ r[i].of = c
                              /\ IF i = Len(r) THEN r[i].kind = "end" ELSE r[i].kind = "blank" /\ r[i].n = N + 1
  <2>1. Newline(c) \in Line /\ End(c) \in Line
    BY ReportLines
  <2>2. /\ Newline(c).of = c /\ Newline(c).kind = "blank" /\ Newline(c).n = N + 1
        /\ End(c).of = c /\ End(c).kind = "end"
    BY ReportLines
  <2> DEFINE x == Newline(c)
             y == End(c)
  <2> HIDE DEF x, y, Line, N
  <2>3. r = <<x, y>> \/ r = <<y>> \/ r = <<>>
    BY DEF x, y
  <2>4. CASE r = <<x, y>>
    BY <2>1, <2>2, <2>4 DEF x, y
  <2>5. CASE r = <<y>>
    BY <2>1, <2>2, <2>5 DEF x, y
  <2>6. CASE r = <<>>
    BY <2>6
  <2> QED BY <2>3, <2>4, <2>5, <2>6
<1> HIDE DEF o, N, Line
<1>5. /\ q \in Seq(Line) /\ Len(q) = N + Len(r) /\ Len(q) \in Nat /\ DOMAIN q = 1..N + Len(r)
      /\ \A i \in 1..N : q[i] = o[i]
      /\ \A i \in 1..Len(r) : q[N + i] = r[i]
  <2>1. /\ q \in Seq(Line) /\ Len(q) = Len(o) + Len(r)
        /\ \A i \in 1..Len(o) : q[i] = o[i]
        /\ \A i \in 1..Len(r) : q[Len(o) + i] = r[i]
    BY <1>2, <1>4, ConcatAt
  <2> QED BY <1>1, <1>3, <1>4, <2>1, LenProperties
<1> HIDE DEF q
<1>6. \A i \in DOMAIN q : i \in 1..N \/ (i - N \in 1..Len(r) /\ q[i] = r[i - N])
  <2> SUFFICES ASSUME NEW i \in 1..N + Len(r), i \notin 1..N
               PROVE  i - N \in 1..Len(r) /\ q[i] = r[i - N]
    BY <1>5
  <2>1. i - N \in 1..Len(r) /\ N + (i - N) = i
    BY <1>1, <1>4
  <2> QED BY <1>5, <2>1
<1>7. \A i \in DOMAIN q :
        /\ q[i].of = c
        /\ i \in 1..N => q[i].kind = Output[c][i] /\ q[i].n = i
        /\ i \notin 1..N /\ i = Len(q) => q[i].kind = "end"
        /\ i \notin 1..N /\ i # Len(q) => i = N + 1 /\ q[i].kind = "blank" /\ q[i].n = N + 1
  BY <1>1, <1>2, <1>4, <1>5, <1>6
<1>8. NextLines(c, q)
  <2>1. \A i \in DOMAIN q : q[i].of = c
    BY <1>7
  <2>2. ASSUME NEW i \in DOMAIN q
        PROVE  IF q[i].kind = "end" THEN i = Len(q) ELSE IsLineOf(c, q[i])
    <3>1. CASE i \in 1..N
      BY <1>1, <1>7, <3>1 DEF IsLineOf, N
    <3>2. CASE i \notin 1..N
      BY <1>1, <1>7, <3>2 DEF IsLineOf, N
    <3> QED BY <3>1, <3>2
  <2>3. ASSUME NEW i \in DOMAIN q, NEW j \in DOMAIN q, i < j, q[j].kind # "end"
        PROVE  q[i].n < q[j].n
    <3>1. q[j].n = j
      BY <1>1, <1>4, <1>5, <1>7, <2>3
    <3>2. i \in 1..N
      BY <1>1, <1>4, <1>5, <1>7, <2>3
    <3>3. q[i].n = i
      BY <1>7, <3>2
    <3> QED BY <2>3, <3>1, <3>3
  <2>4. Len(q) <= N + 2
    BY <1>1, <1>4, <1>5
  <2> QED BY <2>1, <2>2, <2>3, <2>4 DEF NextLines, N
<1>9. LinesSoFar(c, e, q)
  BY DEF LinesSoFar
<1>10. Complete(c, e, q)
  <2>1. ASSUME NEW n \in 1..N PROVE n \in DOMAIN q /\ q[n].kind # "end" /\ q[n].n = n
    <3>1. n \in DOMAIN q
      BY <1>1, <1>4, <1>5
    <3>2. q[n].kind = Output[c][n] /\ q[n].n = n
      BY <1>7, <3>1
    <3> QED BY <1>1, <3>1, <3>2
  <2> QED BY <1>1, <2>1 DEF Complete
<1>11. r # <<>> => q # <<>> /\ q[Len(q)].kind = "end"
  <2> SUFFICES ASSUME r # <<>> PROVE q # <<>> /\ q[Len(q)].kind = "end"
    OBVIOUS
  <2>1. Len(q) \in DOMAIN q /\ Len(q) \notin 1..N
    BY <1>1, <1>4, <1>5
  <2> QED BY <1>7, <2>1
<1> QED BY <1>8, <1>9, <1>10, <1>11 DEF q, o

\* Nothing that anybody reads has changed.
LEMMA FrameLines ==
  ASSUME LinesInv, exec' = exec, Unread' = Unread, pipe["err"]' = pipe["err"],
         shell'.state # "glued", shell'.state = "idle" => shell.state = "idle",
         (ToPrint' <=> ToPrint) \/ \A c \in Senders : ~Waiting(c)
  PROVE  LinesInv'
<1> USE DEF LinesInv
<1>1. \A c \in Senders : (Waiting(c)' <=> Waiting(c)) /\ exec'[c] = exec[c]
  BY DEF Waiting
<1>2. \A c \in Calls : Done(c)' <=> Done(c)
  BY DEF Done
<1>3. \A c \in Senders : Waiting(c)' => IF ToPrint' THEN Untouched(exec[c]) ELSE Progress(c, exec[c], Unread)'
  BY <1>1 DEF Progress
<1>4. \A c \in Calls : Done(c)' => LinesSoFar(c, exec'[c], <<>>) /\ Returned(c, exec'[c])
  BY <1>2
<1>5. ToPrint' \/ (\A c \in Senders : ~Waiting(c)') => Unread' = <<>>
  BY <1>1
<1>6. \A c \in Senders : c = Open \/ exec'[c].state \notin {"waiting", "ended"} => Untouched(exec'[c])
  OBVIOUS
<1> QED BY <1>1, <1>3, <1>4, <1>5, <1>6

\* bash prints the output of the command it runs.
LEMMA PrintLines ==
  ASSUME TypeOK, SeqInv, ~Expired, LinesInv, \A c \in Senders : Errors[c] = 0,
         shell.state = "run", shell'.state \in {"idle", "dead"}, NEW c \in Senders, c = shell.call,
         NEW r \in {<<Newline(c), End(c)>>, <<End(c)>>, <<>>},
         shell'.state = "idle" => r # <<>>,
         pipe' = Printed(c, r), UNCHANGED <<stdin, buf, exec>>
  PROVE  LinesInv'
<1> DEFINE q == OutLines(c) \o r
<1>1. /\ c \in Senders /\ Waiting(c) /\ stdin = <<>> /\ \A d \in Senders : Waiting(d) => d = c
  <2>1. OnItsWay /\ OneBusy
    BY DEF SeqInv
  <2> QED BY <2>1 DEF OnItsWay, OneBusy, Busy, Waiting
<1>2. r \in Seq(Line)
  <2> DEFINE x == Newline(c)
             y == End(c)
  <2>1. x \in Line /\ y \in Line
    BY ReportLines
  <2> HIDE DEF x, y, Line
  <2>2. r = <<x, y>> \/ r = <<y>> \/ r = <<>>
    BY DEF x, y
  <2>3. <<x, y>> \in Seq(Line) /\ <<y>> \in Seq(Line) /\ <<>> \in Seq(Line)
    BY <2>1
  <2> QED BY Zenon, <2>2, <2>3
<1>3. buf = <<>> /\ pipe["out"] = <<>> /\ pipe["err"] = <<>> /\ Untouched(exec[c])
  <2>1. Unread = <<>>
    BY DEF LinesInv, ToPrint
  <2>2. buf \in Seq(Line) /\ pipe["out"] \in Seq(Line)
    BY DEF TypeOK
  <2>3. buf = <<>> /\ pipe["out"] = <<>>
    <3> HIDE DEF Line
    <3> QED BY <2>1, <2>2 DEF Unread
  <2> QED BY <1>1, <2>3 DEF LinesInv, ToPrint
<1>4. ErrLines(c) = <<>>
  BY <1>1 DEF ErrLines
<1>5. OutLines(c) \in Seq(Line) /\ q \in Seq(Line)
  <2>1. OutLines(c) \in Seq(Line)
    BY <1>1, OutLinesType
  <2> HIDE DEF Line
  <2> QED BY <1>2, <2>1
<1>6. pipe'["out"] = pipe["out"] \o q /\ pipe'["err"] = pipe["err"] \o ErrLines(c)
  BY <1>1, <1>2, PrintType
<1>7. Unread' = q /\ pipe'["err"] = <<>>
  <2> HIDE DEF Line, q
  <2> QED BY <1>3, <1>4, <1>5, <1>6 DEF Unread
<1>8. Progress(c, exec[c], Unread)'
  <2>1. /\ NextLines(c, q) /\ LinesSoFar(c, exec[c], q) /\ Complete(c, exec[c], q)
        /\ r # <<>> => q # <<>> /\ q[Len(q)].kind = "end"
    BY <1>1, <1>3, OutputNext DEF Untouched
  <2> HIDE DEF q
  <2> QED BY <1>7, <2>1 DEF Progress
<1>9. ~ToPrint'
  BY <1>1 DEF ToPrint
<1>10. \A d \in Senders : Waiting(d)' => d = c
  BY <1>1 DEF Waiting
<1>11. Waiting(c)'
  BY <1>1 DEF Waiting
<1>12. \A d \in Senders : Waiting(d)' => Progress(d, exec[d], Unread)'
  BY <1>8, <1>10
<1>13. \A d \in Calls : Done(d)' => LinesSoFar(d, exec'[d], <<>>) /\ Returned(d, exec'[d])
  BY DEF LinesInv, Done
<1>14. \A d \in Senders : d = Open \/ exec'[d].state \notin {"waiting", "ended"} => Untouched(exec'[d])
  BY DEF LinesInv
<1> QED BY <1>1, <1>7, <1>9, <1>11, <1>12, <1>13, <1>14 DEF LinesInv

LEMMA ShellLines ==
  ASSUME TypeOK, SeqInv, ~Splits, ~Expired, LinesInv, \A c \in Senders : Errors[c] = 0,
         \/ ShellRead \/ ShellReadGlued \/ CommandReads \/ ShellFinish \/ ShellExits
  PROVE  LinesInv'
<1>0. /\ OnItsWay /\ shell.state # "glued" /\ stdin \in Seq(Senders \cup {Intr})
      /\ shell.call \in Senders
  BY DEF SeqInv, LinesInv, TypeOK, Shell
<1>1. CASE ShellRead
  <2>1. Head(stdin) # Intr /\ stdin # <<>>
    <3>1. stdin # <<>> /\ 1 \in DOMAIN stdin /\ Head(stdin) = stdin[1]
      BY <1>0, <1>1, TailAt DEF ShellRead
    <3> QED BY <1>0, <3>1, NamesAssumption DEF OnItsWay
  <2>2. shell'.state = "run" /\ UNCHANGED <<pipe, buf, exec>>
    BY <1>1, <2>1 DEF ShellRead
  <2>3. ToPrint /\ ToPrint' /\ Unread' = Unread
    BY <2>1, <2>2 DEF ToPrint, Unread
  <2> QED BY <2>2, <2>3, FrameLines
<1>2. ~ShellReadGlued
  BY <1>0 DEF ShellReadGlued
<1>3. ~CommandReads
  BY <1>0 DEF CommandReads, OnItsWay
<1>4. CASE ShellFinish
  <2>1. PICK r \in Reports(shell.call) : pipe' = Printed(shell.call, r)
    BY <1>4 DEF ShellFinish
  <2>2. r \in {<<Newline(shell.call), End(shell.call)>>, <<End(shell.call)>>} /\ r # <<>>
    BY <2>1 DEF Reports
  <2>3. shell.state = "run" /\ shell'.state = "idle" /\ UNCHANGED <<stdin, buf, exec>>
    BY <1>4 DEF ShellFinish, TypeOK, Shell
  <2>4. PICK c \in Senders : c = shell.call
    BY <1>0
  <2>5. pipe' = Printed(c, r) /\ r \in {<<Newline(c), End(c)>>, <<End(c)>>, <<>>}
    BY <2>1, <2>2, <2>4
  <2> QED BY <2>2, <2>3, <2>4, <2>5, PrintLines
<1>5. CASE ShellExits
  <2>1. shell.state = "run" /\ shell'.state = "dead" /\ UNCHANGED <<stdin, buf, exec>> /\ pipe' = Printed(shell.call, <<>>)
    BY <1>5 DEF ShellExits, TypeOK, Shell
  <2>2. PICK c \in Senders : c = shell.call
    BY <1>0
  <2>3. pipe' = Printed(c, <<>>) /\ <<>> \in {<<Newline(c), End(c)>>, <<End(c)>>, <<>>}
    BY <2>1, <2>2
  <2> QED BY <2>1, <2>2, <2>3, PrintLines
<1> QED BY <1>1, <1>2, <1>3, <1>4, <1>5

\* One call, and what it has not read but for the oldest line.
LEMMA DeliverLines ==
  ASSUME TypeOK, SeqInv, ~Expired, LinesInv, NEW s \in {"out", "err"}, Deliver(s)
  PROVE  LinesInv'
<1>1. s = "out"
  BY DEF LinesInv, Deliver
<1>2. /\ buf \in Seq(Line) /\ Len(buf) <= Cap /\ pipe["out"] \in Seq(Line) /\ pipe["out"] # <<>>
      /\ buf' = Enqueue(buf, Head(pipe["out"])) /\ pipe'["out"] = Tail(pipe["out"]) /\ pipe'["err"] = pipe["err"]
      /\ UNCHANGED <<stdin, shell, exec>>
  BY <1>1 DEF Deliver, TypeOK
<1> HIDE DEF Line
<1> DEFINE q == Unread
<1>3. /\ q \in Seq(Line)
      /\ Unread' = q \/ (Unread' = Tail(q) /\ q # <<>> /\ Len(q) > Cap)
  <2> DEFINE b == buf
             p == pipe["out"]
  <2>1. Unread' = Enqueue(b, Head(p)) \o Tail(p) /\ q = b \o p
    BY <1>2 DEF Unread
  <2>2. b \in Seq(Line) /\ p \in Seq(Line) /\ p # <<>> /\ Len(b) <= Cap
    BY <1>2
  <2> HIDE DEF b, p, q
  <2>3. b \o p \in Seq(Line)
    BY <2>2
  <2>4. \/ Enqueue(b, Head(p)) \o Tail(p) = b \o p
        \/ /\ Enqueue(b, Head(p)) \o Tail(p) = Tail(b \o p)
           /\ b \o p # <<>> /\ Len(b \o p) > Cap
    BY <2>2, DeliverUnread
  <2> QED BY <2>1, <2>3, <2>4
<1>4. ToPrint' <=> ToPrint
  BY <1>2 DEF ToPrint
<1>5. CASE Unread' = q
  BY <1>2, <1>4, <1>5, FrameLines DEF LinesInv
<1>6. CASE Unread' = Tail(q) /\ q # <<>> /\ Len(q) > Cap
  <2>1. ~ToPrint /\ \E c \in Senders : Waiting(c)
    BY <1>6 DEF LinesInv
  <2>2. PICK c \in Senders : Waiting(c)
    BY <2>1
  <2>3. \A d \in Senders : Waiting(d) => d = c
    BY <2>2 DEF SeqInv, OneBusy, Busy, Waiting
  <2>4. Progress(c, exec[c], q)
    BY <2>1, <2>2 DEF LinesInv
  <2> HIDE DEF q
  <2>5. NextLines(c, Tail(q)) /\ LinesSoFar(c, exec[c], Tail(q))
    BY <1>3, <1>6, <2>4, TailNext, TailSoFar DEF Progress
  <2>6. ~Fits(c)
    <3>1. Len(q) \in Nat /\ Len(Output[c]) \in Nat /\ Cap \in Nat
      BY <1>3, BoundAssumption, OutputType
    <3>2. Noise \in Nat
      BY BoundAssumption
    <3>3. Fits(c) => Len(q) <= Len(Output[c]) + 2
      BY <2>4 DEF Progress, NextLines
    <3> QED BY <1>6, <3>1, <3>2, <3>3 DEF Fits
  <2>7. shell.state = "idle" => Tail(q) # <<>> /\ Tail(q)[Len(Tail(q))].kind = "end"
    <3>1. Len(q) > 1
      BY <1>3, <1>6, BoundAssumption
    <3> QED BY <1>3, <1>6, <2>4, <3>1, TailNext DEF Progress
  <2>8. Progress(c, exec[c], Unread)'
    BY <1>2, <1>6, <2>5, <2>6, <2>7 DEF Progress, Complete
  <2>9. \A d \in Senders : Waiting(d)' => Progress(d, exec[d], Unread)'
    BY <1>2, <2>3, <2>8 DEF Waiting
  <2>10. Waiting(c)'
    BY <1>2, <2>2 DEF Waiting
  <2>11. \A d \in Calls : Done(d)' => LinesSoFar(d, exec'[d], <<>>) /\ Returned(d, exec'[d])
    BY <1>2 DEF LinesInv, Done
  <2>12. /\ pipe'["err"] = <<>> /\ shell'.state # "glued" /\ ~ToPrint'
         /\ \A d \in Senders : d = Open \/ exec'[d].state \notin {"waiting", "ended"} => Untouched(exec'[d])
    BY <1>2, <1>4, <2>1 DEF LinesInv
  <2> QED BY <2>9, <2>10, <2>11, <2>12 DEF LinesInv
<1> QED BY <1>3, <1>5, <1>6

LEMMA CallLines ==
  ASSUME TypeOK, SeqInv, ~Concurrent, ~Expired, LinesInv, NEW c \in Calls, Call(c)
  PROVE  LinesInv'
<1>0. c \in Senders /\ exec \in [Senders -> Exec] /\ exec[c] \in Exec /\ exec[c].state = "none" /\ c # Open
  BY NamesAssumption DEF Senders, TypeOK, Call
<1>1. \A d \in Senders : ~Waiting(d)
  BY DEF Call, Busy, Waiting, Senders
<1>2. PICK state \in {"waiting", "failed"} :
        /\ exec' = [exec EXCEPT ![c].state = state]
        /\ state = "waiting" => stdin' = Append(stdin, c)
        /\ state = "failed" => stdin' = stdin
  BY DEF Call
<1>3. UNCHANGED <<shell, pipe, buf>>
  BY DEF Call
<1>4. /\ exec'[c].state = state /\ exec'[c].out = exec[c].out /\ exec'[c].skipped = exec[c].skipped
      /\ \A d \in Senders \ {c} : exec'[d] = exec[d]
  <2> DEFINE Q == Seq(Line)
  <2> HIDE DEF Q
  <2> QED BY <1>0, <1>2 DEF Exec, Q
<1>5. Untouched(exec[c]) /\ Untouched(exec'[c])
  BY <1>0, <1>4 DEF LinesInv, Untouched
<1>6. Unread = <<>> /\ Unread' = <<>> /\ pipe'["err"] = <<>> /\ shell'.state # "glued"
  BY <1>1, <1>3 DEF LinesInv, Unread
<1>7. state = "waiting" => ToPrint'
  <2>1. stdin \in Seq(Senders \cup {Intr})
    BY DEF TypeOK
  <2>2. Append(stdin, c) # <<>>
    BY <1>0, <2>1
  <2> QED BY <1>2, <2>2 DEF ToPrint
<1>8. \A d \in Senders : Waiting(d)' => d = c /\ state = "waiting"
  BY <1>1, <1>4 DEF Waiting
<1>9. \A d \in Calls : Done(d)' => Done(d) /\ d # c
  BY <1>4 DEF Done, Senders
<1>10. \A d \in Senders : d = Open \/ exec'[d].state \notin {"waiting", "ended"} => Untouched(exec'[d])
  BY <1>0, <1>4, <1>5 DEF LinesInv
<1>11. \A d \in Calls : Done(d)' => LinesSoFar(d, exec'[d], <<>>) /\ Returned(d, exec'[d])
  BY <1>4, <1>9 DEF LinesInv, Senders
<1>12. \A d \in Senders : Waiting(d)' => ToPrint' /\ Untouched(exec'[d])
  BY <1>5, <1>7, <1>8
<1> QED BY <1>6, <1>10, <1>11, <1>12 DEF LinesInv

LEMMA TrimEmpty == Trimmed(<<>>) = <<>>
<1>1. <<>> \in Seq(Line) /\ Len(<<>>) = 0
  <2> HIDE DEF Line
  <2> QED OBVIOUS
<1>2. Trimmed(<<>>) \in Seq(Line) /\ DOMAIN Trimmed(<<>>) = 1..LastText(<<>>) /\ LastText(<<>>) \in 0..0
  <2> HIDE DEF Line
  <2> QED BY <1>1, TrimmedIsPrefix
<1>3. Len(Trimmed(<<>>)) = 0
  <2> HIDE DEF Line
  <2> QED BY <1>2, LenProperties
<1> HIDE DEF Line
<1> QED BY <1>2, <1>3, EmptySeq

LEMMA TrimmedLines ==
  ASSUME NEW x \in Seq(Line)
  PROVE  /\ LastText(x) \in 0..Len(x)
         /\ \A i \in DOMAIN x : i > LastText(x) => x[i].kind = "blank"
         /\ DOMAIN Trimmed(x) = 1..LastText(x)
         /\ \A i \in 1..LastText(x) : i \in DOMAIN x /\ Trimmed(x)[i] = x[i]
<1> HIDE DEF Line
<1> QED BY TrimmedIsPrefix

\* What TrimRight takes from a complete output are blank lines that no text follows.
LEMMA TrimReturned ==
  ASSUME NEW c \in Senders, NEW e \in Exec, NEW f, f.out = Trimmed(e.out), f.skipped = e.skipped,
         NEW q, \A i \in DOMAIN q : q[i].kind = "end", LinesSoFar(c, e, q)
  PROVE  LinesSoFar(c, f, <<>>) /\ (Complete(c, e, q) => Returned(c, f))
<1> DEFINE o == e.out
           m == LastText(o)
<1>1. /\ m \in 0..Len(o) /\ DOMAIN o = 1..Len(o) /\ Len(o) \in Nat
      /\ \A i \in DOMAIN o : i > m => o[i].kind = "blank"
      /\ DOMAIN f.out = 1..m
      /\ \A i \in 1..m : i \in DOMAIN o /\ f.out[i] = o[i]
  <2>1. o \in Seq(Line)
    BY ExecFields
  <2> HIDE DEF Line, o
  <2>2. Len(o) \in Nat /\ DOMAIN o = 1..Len(o)
    BY <2>1, LenProperties
  <2>3. /\ m \in 0..Len(o)
        /\ \A i \in DOMAIN o : i > m => o[i].kind = "blank"
        /\ DOMAIN Trimmed(o) = 1..m
        /\ \A i \in 1..m : i \in DOMAIN o /\ Trimmed(o)[i] = o[i]
    BY <2>1, TrimmedLines DEF m
  <2> QED BY <2>2, <2>3 DEF o
<1> HIDE DEF m
<1>2. LinesSoFar(c, f, <<>>)
  BY <1>1 DEF LinesSoFar
<1>3. ASSUME Complete(c, e, q), Fits(c), NEW n \in DOMAIN Output[c] \ (FirstBlank(c) \cup LastBlanks(c))
      PROVE  \E k \in DOMAIN f.out : f.out[k].n = n
  <2>1. Output[c] \in Seq({"text", "blank"}) /\ Len(Output[c]) \in Nat /\ DOMAIN Output[c] = 1..Len(Output[c])
    BY OutputType
  <2>2. PICK t \in n..Len(Output[c]) : Output[c][t] # "blank"
    BY <1>3 DEF LastBlanks
  <2>3. t \in DOMAIN Output[c] /\ n <= t /\ t \in Int /\ n \in Int
    BY <1>3, <2>1, <2>2
  <2>4. \A x \in DOMAIN Output[c] : x \notin FirstBlank(c) => \E k \in DOMAIN o : o[k].n = x
    BY <1>3 DEF Complete
  <2>5. PICK k \in DOMAIN o : o[k].n = n
    BY <1>3, <2>4
  <2>6. PICK l \in DOMAIN o : o[l].n = t
    BY <2>2, <2>3, <2>4 DEF FirstBlank
  <2>7. o[l].kind # "blank"
    BY <2>2, <2>3, <2>6 DEF LinesSoFar, IsLineOf
  <2>8. l <= m /\ l \in Int /\ k \in Int
    BY <1>1, <2>7
  <2>9. k <= l
    <3> SUFFICES ASSUME l < k PROVE FALSE
      BY <2>8
    <3>1. o[l].n < o[k].n
      BY DEF LinesSoFar
    <3> QED BY <2>3, <2>5, <2>6, <3>1
  <2>10. k \in 1..m
    BY <1>1, <2>8, <2>9
  <2> QED BY <1>1, <2>5, <2>10
<1> QED BY <1>2, <1>3 DEF Returned

LEMMA ReadLines ==
  ASSUME TypeOK, SeqInv, ~Expired, LinesInv, NEW c \in Senders, Read(c)
  PROVE  LinesInv'
<1> DEFINE q == Unread
           l == Head(buf)
           e == CASE l.kind = "end" -> Ended(exec[c], l)
                  [] l.kind # "end" /\ c = Open -> exec[c]
                  [] l.kind # "end" /\ c # Open -> Collect(exec[c], l)
<1>0. exec \in [Senders -> Exec] /\ exec[c] \in Exec /\ buf \in Seq(Line) /\ buf # <<>> /\ pipe["out"] \in Seq(Line)
  BY DEF TypeOK, Read
<1>1. /\ exec' = [exec EXCEPT ![c] = e] /\ buf' = Tail(buf) /\ UNCHANGED <<stdin, pipe, shell>>
      /\ Waiting(c)
  BY DEF Read
<1>2. /\ q \in Seq(Line) /\ q # <<>> /\ l = q[1] /\ Unread' = Tail(q) /\ l \in Line
  <2> HIDE DEF Line
  <2> QED BY <1>0, <1>1 DEF Unread
<1>3. /\ l.kind = "end" => e = Ended(exec[c], l)
      /\ l.kind # "end" /\ c = Open => e = exec[c]
      /\ l.kind # "end" /\ c # Open => e = Collect(exec[c], l)
  OBVIOUS
<1> HIDE DEF e, l, q, Line, Exec
<1>4. exec'[c] = e /\ \A d \in Senders \ {c} : exec'[d] = exec[d]
  BY <1>0, <1>1
<1>5. ~ToPrint /\ ~ToPrint' /\ Progress(c, exec[c], q)
  BY <1>1, <1>2 DEF LinesInv, ToPrint, q
<1>6. \A d \in Senders \ {c} : ~Waiting(d) /\ ~Waiting(d)'
  BY <1>1, <1>4 DEF SeqInv, OneBusy, Busy, Waiting
<1>7. /\ NextLines(c, Tail(q)) /\ LinesSoFar(c, exec[c], Tail(q))
      /\ Len(q) > 1 => Tail(q) # <<>> /\ Tail(q)[Len(Tail(q))] = q[Len(q)]
  BY <1>2, <1>5, TailNext, TailSoFar DEF Progress
<1>8. pipe'["err"] = <<>> /\ shell'.state # "glued"
  BY <1>1 DEF LinesInv
<1>9. /\ \A d \in Calls \ {c} : Done(d)' => LinesSoFar(d, exec'[d], <<>>) /\ Returned(d, exec'[d])
      /\ \A d \in Senders \ {c} : d = Open \/ exec'[d].state \notin {"waiting", "ended"} => Untouched(exec'[d])
  BY <1>4 DEF LinesInv, Done, Senders
<1>q. Len(q) \in Nat \ {0} /\ DOMAIN q = 1..Len(q) /\ Len(Tail(q)) = Len(q) - 1
  BY <1>2, TailAt
<1>10. CASE l.kind = "end"
  <2>1. /\ e.state = "ended" /\ e.out = Trimmed(exec[c].out) /\ e.skipped = exec[c].skipped
    BY <1>0, <1>2, <1>3, <1>10, EndedType
  <2>2. Len(q) = 1 /\ Unread' = <<>>
    <3>1. Len(q) = 1
      BY <1>2, <1>5, <1>10, <1>q DEF Progress, NextLines
    <3> QED BY <1>2, <1>q, <3>1, TailAt
  <2>3. ~Waiting(c)' /\ (Done(c)' <=> TRUE)
    BY <1>4, <2>1 DEF Waiting, Done
  <2>4. c # Open => LinesSoFar(c, e, <<>>) /\ Returned(c, e)
    <3>1. \A i \in DOMAIN q : q[i].kind = "end"
      BY <1>2, <1>10, <1>q, <2>2
    <3> QED BY <1>0, <1>5, <2>1, <3>1, TrimReturned DEF Progress
  <2>5. c = Open => Untouched(e)
    <3>1. exec[c].out \in Seq(Line)
      BY <1>0, ExecFields
    <3>2. c = Open => exec[c].out = <<>> /\ ~exec[c].skipped
      BY <1>0 DEF LinesInv, Untouched
    <3>3. Trimmed(<<>>) = <<>>
      BY TrimEmpty
    <3> QED BY <2>1, <3>2, <3>3 DEF Untouched
  <2>6. \A d \in Senders : ~Waiting(d)'
    BY <1>6, <2>3
  <2>7. \A d \in Calls : Done(d)' => LinesSoFar(d, exec'[d], <<>>) /\ Returned(d, exec'[d])
    BY <1>4, <1>9, <2>4, NamesAssumption
  <2>8. \A d \in Senders : d = Open \/ exec'[d].state \notin {"waiting", "ended"} => Untouched(exec'[d])
    BY <1>4, <1>9, <2>1, <2>5
  <2> QED BY <1>8, <2>2, <2>6, <2>7, <2>8 DEF LinesInv
<1>11. CASE l.kind # "end"
  <2>1. /\ e.state = "waiting"
        /\ LinesSoFar(c, e, Tail(q)) /\ (c # Open => Complete(c, e, Tail(q)))
        /\ c = Open => e = exec[c]
    <3>1. CASE c = Open
      BY <1>1, <1>3, <1>7, <1>11, <3>1 DEF Waiting
    <3>2. CASE c # Open
      <4>1. e = Collect(exec[c], q[1]) /\ q[1].kind # "end"
        BY <1>2, <1>3, <1>11, <3>2
      <4>2. e.state = "waiting"
        BY <1>0, <1>1, <1>2, <4>1, CollectType DEF Waiting
      <4> QED BY <1>0, <1>2, <1>5, <3>2, <4>1, <4>2, CollectNext DEF Progress
    <3> QED BY <3>1, <3>2
  <2>2. shell.state = "idle" => Tail(q) # <<>> /\ Tail(q)[Len(Tail(q))].kind = "end"
    <3> SUFFICES ASSUME shell.state = "idle" PROVE Len(q) > 1
      BY <1>5, <1>7 DEF Progress
    <3> QED BY <1>2, <1>5, <1>11, <1>q DEF Progress
  <2>3. Progress(c, exec[c], Unread)'
    BY <1>1, <1>2, <1>4, <1>7, <2>1, <2>2 DEF Progress
  <2>4. Waiting(c)' /\ ~Done(c)'
    BY <1>4, <2>1 DEF Waiting, Done
  <2>5. \A d \in Senders : Waiting(d)' => Progress(d, exec[d], Unread)'
    BY <1>6, <2>3
  <2>6. \A d \in Calls : Done(d)' => LinesSoFar(d, exec'[d], <<>>) /\ Returned(d, exec'[d])
    BY <1>9, <2>4
  <2>7. \A d \in Senders : d = Open \/ exec'[d].state \notin {"waiting", "ended"} => Untouched(exec'[d])
    <3>1. c = Open => Untouched(exec'[c])
      BY <1>0, <1>4, <2>1 DEF LinesInv
    <3> QED BY <1>4, <1>9, <2>1, <3>1
  <2> QED BY <1>5, <1>8, <2>4, <2>5, <2>6, <2>7 DEF LinesInv
<1> QED BY <1>10, <1>11

LEMMA CloseLines ==
  ASSUME TypeOK, SeqInv, ~Concurrent, ~Expired, LinesInv, Close
  PROVE  LinesInv'
<1>1. /\ shell'.state = "closed" /\ exec' = exec /\ Unread' = Unread /\ pipe' = pipe
  BY DEF Close, TypeOK, Shell, Unread
<1>2. \A c \in Senders : ~Waiting(c)
  BY DEF Close, Busy, Waiting, Senders
<1> QED BY <1>1, <1>2, FrameLines

LEMMA InitLines == Init => LinesInv
<1> SUFFICES ASSUME Init PROVE LinesInv
  OBVIOUS
<1>1. \A c \in Senders : Untouched(exec[c]) /\ exec[c].state # "ended"
  BY DEF Init, NewExec, Untouched
<1>2. Unread = <<>> /\ pipe["err"] = <<>> /\ shell.state = "idle" /\ stdin # <<>>
  BY DEF Init, Unread
<1> QED BY <1>1, <1>2 DEF LinesInv, ToPrint, Done, Senders

\* An Exec that has given up stays so.
LEMMA ExpiredStays == ASSUME TypeOK, [Next]_vars, ~Expired' PROVE ~Expired
<1>0. exec \in [Senders -> Exec]
  BY DEF TypeOK
<1> SUFFICES ASSUME NEW d \in Senders, exec[d].state \in {"expiring", "expired"}
             PROVE  exec'[d].state \in {"expiring", "expired"}
  BY DEF Expired
<1>1. CASE exec' = exec
  BY <1>1
<1>2. ASSUME NEW c \in Calls, Call(c) PROVE exec'[d] = exec[d]
  <2>1. d # c
    BY <1>2 DEF Call
  <2> QED BY <1>0, <1>2, <2>1 DEF Call
<1>3. ASSUME NEW c \in Senders, Read(c) PROVE exec'[d] = exec[d]
  <2>1. d # c
    BY <1>3 DEF Read, Waiting
  <2> QED BY <1>0, <1>3, <2>1 DEF Read
<1>4. ASSUME NEW c \in Senders, Interrupt(c) \/ Drain(c) \/ (OpenFails /\ c = Open)
      PROVE  exec'[d].state \in {"expiring", "expired"}
  <2>1. exec[c] \in Exec
    BY <1>0
  <2>2. /\ [exec[c] EXCEPT !.state = "expiring"].state = "expiring"
        /\ [exec[c] EXCEPT !.state = "expired"].state = "expired"
        /\ Settled(exec[c], "expired", 130).state = "expired"
    <3>1. 130 \in Int /\ "expired" \in States /\ "expiring" \in States
      BY DEF States
    <3> HIDE DEF Exec, States
    <3> QED BY <2>1, <3>1, SetState, SetResult
  <2> HIDE DEF Exec
  <2>3. CASE d = c
    BY <1>0, <1>4, <2>2, <2>3 DEF Interrupt, Drain, OpenFails
  <2>4. CASE d # c
    BY <1>0, <1>4, <2>4 DEF Interrupt, Drain, OpenFails
  <2> QED BY <2>3, <2>4
<1>5. CASE ShellRead \/ ShellReadGlued \/ CommandReads \/ ShellFinish \/ ShellExits \/ Deliver("out") \/ Deliver("err") \/ Close
  BY <1>1, <1>5 DEF ShellRead, ShellReadGlued, CommandReads, ShellFinish, ShellExits, Deliver, Close
<1>6. Calls \subseteq Senders /\ Open \in Senders
  BY DEF Senders
<1> QED BY <1>1, <1>2, <1>3, <1>4, <1>5, <1>6 DEF Next, vars

LEMMA StepLines ==
  ASSUME ~Concurrent, ~Splits, \A c \in Senders : Errors[c] = 0, TypeOK, LineInv, [Next]_vars
  PROVE  LineInv'
<1>1. SeqInv'
  BY StepSeq DEF LineInv
<1> SUFFICES ASSUME ~Expired' PROVE LinesInv'
  BY <1>1 DEF LineInv
<1>2. ~Expired /\ SeqInv /\ LinesInv
  BY ExpiredStays DEF LineInv
<1>3. CASE UNCHANGED vars
  <2>1. ToPrint' = ToPrint /\ Unread' = Unread /\ exec' = exec /\ shell' = shell /\ pipe' = pipe
    BY <1>3 DEF vars, ToPrint, Unread
  <2> QED BY <1>2, <2>1, FrameLines DEF LinesInv
<1>4. ASSUME NEW c \in Senders, Interrupt(c) \/ Drain(c) \/ (OpenFails /\ c = Open) PROVE FALSE
  <2>1. exec \in [Senders -> Exec] /\ exec[c] \in Exec
    BY DEF TypeOK
  <2>2. /\ [exec[c] EXCEPT !.state = "expiring"].state = "expiring"
        /\ [exec[c] EXCEPT !.state = "expired"].state = "expired"
        /\ Settled(exec[c], "expired", 130).state = "expired"
    <3>1. 130 \in Int /\ "expired" \in States /\ "expiring" \in States
      BY DEF States
    <3> HIDE DEF Exec, States
    <3> QED BY <2>1, <3>1, SetState, SetResult
  <2> HIDE DEF Exec
  <2>3. exec'[c].state \in {"expiring", "expired"}
    BY <1>4, <2>1, <2>2 DEF Interrupt, Drain, OpenFails
  <2> QED BY <2>3 DEF Expired
<1>5. Calls \subseteq Senders /\ Open \in Senders
  BY DEF Senders
<1>6. CASE Next
  BY <1>2, <1>4, <1>5, <1>6, ShellLines, DeliverLines, CallLines, ReadLines, CloseLines DEF Next
<1> QED BY <1>3, <1>6

(* The lines that sequential callers have read, and those they have not: the inductive
   invariant, for commands that write on standard output alone. *)
THEOREM SequentialLines ==
  ASSUME ~Concurrent, ~Splits, \A c \in Senders : Errors[c] = 0
  PROVE  Spec => []LineInv
<1>1. Init => TypeOK /\ LineInv
  BY InitType, InitSeq, InitLines DEF LineInv
<1>2. TypeOK /\ LineInv /\ [Next]_vars => (TypeOK /\ LineInv)'
  BY StepType, StepLines
<1> QED BY <1>1, <1>2, PTL DEF Spec

(* What Exec collects (managed_session.go, lines 203 to 224) are lines of its own command,
   in their order and none twice, until a call gives up: for any commands and outputs, and
   however often the line buffer drops its oldest line. *)
THEOREM SequentialOwnLines ==
  ASSUME ~Concurrent, ~Splits, \A c \in Senders : Errors[c] = 0
  PROVE  Spec => []OwnLinesInOrder
<1>1. LineInv => OwnLinesInOrder
  <2> SUFFICES ASSUME LinesInv, NEW c \in Calls
               PROVE  /\ \A i \in DOMAIN exec[c].out : exec[c].out[i].of = c
                      /\ \A i, j \in DOMAIN exec[c].out : i < j => exec[c].out[i].n < exec[c].out[j].n
    BY DEF OwnLinesInOrder, LineInv
  <2>1. Untouched(exec[c]) \/ \E q : LinesSoFar(c, exec[c], q)
    BY DEF LinesInv, Progress, Waiting, Done, Senders
  <2> QED BY <2>1 DEF LinesSoFar, IsLineOf, Untouched
<1> QED BY <1>1, SequentialLines, PTL

(* When a command's output fits the line buffer and the 64 KB, what its Exec returns lacks
   nothing but the first blank line and those at the end (managed_session.go, lines 209 to
   226). *)
THEOREM SequentialNothingElseLost ==
  ASSUME ~Concurrent, ~Splits, \A c \in Senders : Errors[c] = 0
  PROVE  Spec => []NothingElseLost
<1>1. LineInv => NothingElseLost
  <2> SUFFICES ASSUME LinesInv, NEW c \in Calls, Done(c), Fits(c),
                      NEW n \in DOMAIN Output[c] \ (FirstBlank(c) \cup LastBlanks(c))
               PROVE  \E i \in DOMAIN exec[c].out : exec[c].out[i].n = n
    BY DEF NothingElseLost, LineInv
  <2>1. Returned(c, exec[c])
    BY DEF LinesInv
  <2> QED BY <2>1 DEF Returned
<1> QED BY <1>1, SequentialLines, PTL

(* A full buffer drops lines, but never the sentinel that an Exec waits for
   (managed_session.go, lines 266 to 277): as long as bash lives, the command is on its
   way, running, or its sentinel is on its way back. *)
THEOREM SequentialSentinel ==
  ASSUME ~Concurrent, ~Splits, \A c \in Senders : Errors[c] = 0
  PROVE  Spec => []SentinelIsKept
<1>1. TypeOK /\ LineInv => SentinelIsKept
  <2> SUFFICES ASSUME TypeOK, SeqInv, ~Expired, LinesInv, shell.state \in {"idle", "run"},
                      NEW c \in Calls, Waiting(c)
               PROVE  \/ \E i \in DOMAIN stdin : stdin[i] = c
                      \/ shell.state = "run" /\ shell.call = c
                      \/ Holds(pipe["out"], c)
                      \/ Holds(buf, c)
    BY DEF SentinelIsKept, LineInv
  <2>1. c \in Senders /\ \A d \in Senders : Waiting(d) => d = c
    BY DEF SeqInv, OneBusy, Busy, Waiting, Senders
  <2>2. OnItsWay /\ stdin \in Seq(Senders \cup {Intr}) /\ shell.call \in Senders
    BY DEF SeqInv, TypeOK, Shell
  <2>3. CASE stdin # <<>>
    <3>1. 1 \in DOMAIN stdin
      BY <2>2, <2>3
    <3> QED BY <2>1, <2>2, <3>1 DEF OnItsWay
  <2>4. CASE shell.state = "run"
    BY <2>1, <2>2, <2>4 DEF OnItsWay
  <2>5. CASE stdin = <<>> /\ shell.state = "idle"
    <3>1. Progress(c, exec[c], Unread)
      BY <2>1, <2>5 DEF LinesInv, ToPrint
    <3>2. buf \in Seq(Line) /\ pipe["out"] \in Seq(Line)
      BY DEF TypeOK
    <3> DEFINE b == buf
               p == pipe["out"]
               q == b \o p
    <3>3. q \in Seq(Line) /\ q # <<>> /\ q[Len(q)].kind = "end" /\ \A i \in DOMAIN q : q[i].of = c
      BY <2>5, <3>1, <3>2 DEF Progress, NextLines, Unread
    <3> HIDE DEF b, p, Line
    <3>4. /\ Len(q) = Len(b) + Len(p) /\ Len(b) \in Nat /\ Len(p) \in Nat
          /\ \A i \in 1..Len(b) : q[i] = b[i]
          /\ \A i \in 1..Len(p) : q[Len(b) + i] = p[i]
          /\ DOMAIN b = 1..Len(b) /\ DOMAIN p = 1..Len(p) /\ DOMAIN q = 1..Len(q)
      BY <3>2, ConcatAt, LenProperties DEF b, p
    <3>5. Len(q) > 0
      BY <3>3, <3>4, EmptySeq
    <3> HIDE DEF q
    <3>6. CASE Len(p) > 0
      <4>1. Len(p) \in DOMAIN p /\ p[Len(p)] = q[Len(q)] /\ Len(q) \in DOMAIN q
        BY <3>4, <3>5, <3>6
      <4> QED BY <3>3, <4>1 DEF Holds, p
    <3>7. CASE ~(Len(p) > 0)
      <4>0. Len(q) = Len(b) + Len(p) /\ Len(b) \in Nat /\ Len(p) \in Nat
        BY <3>4
      <4>2. Len(q) = Len(b) /\ Len(b) > 0
        BY <3>5, <3>7, <4>0
      <4>3. Len(b) \in 1..Len(b)
        BY <4>0, <4>2
      <4>1. Len(b) \in DOMAIN b /\ b[Len(b)] = q[Len(q)] /\ Len(q) \in DOMAIN q
        BY <3>4, <4>2, <4>3
      <4> QED BY <3>3, <4>1 DEF Holds, b
    <3> QED BY <3>6, <3>7
  <2> QED BY <2>3, <2>4, <2>5
<1> QED BY <1>1, SequentialLines, TypeCorrect, PTL

=============================================================================
