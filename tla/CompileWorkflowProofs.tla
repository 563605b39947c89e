------------------------ MODULE CompileWorkflowProofs ------------------------
(***************************************************************************)
(* Theorems about CompileWorkflow for every number of deliveries, stages,  *)
(* attempts, crashes and every set of requests, and about the event table  *)
(* that its executions write (EventStream) for every number of writers,    *)
(* retries and events.                                                     *)
(***************************************************************************)
EXTENDS CompileRetry, EventStream, TLAPS

(* What the control point of an execution says about its loop variables and *)
(* about context.stage_results.                                             *)
Unstarted == {"queued", "create", "check", "skipped", "job_created", "job_started"}
InStage == {"mark_running", "stage_started", "run", "retrying", "stage_failed"}
StageDone == {"checkpoint", "remark", "stage_succeeded"}
AllDone == {"mark_succeeded", "job_succeeded", "returned"}
Compensating == {"rollback", "undo", "undone", "undo_failed", "mark_failed", "job_failed"}

(* A stage is only retried when it has an attempt left.                     *)
AttemptLeft == \A d \in Deliveries : pc[d] = "retrying" => attempt[d] < MaxAttempts

(* stage_results has exactly the stages that the stage loop has passed.     *)
Progress(d) ==
  /\ pc[d] \in Unstarted => done[d] = {} /\ stage[d] = FirstStage(request)
  /\ pc[d] \in InStage \cup Compensating => done[d] = FirstStage(request) .. stage[d] - 1
  /\ pc[d] \in StageDone => done[d] = FirstStage(request) .. stage[d]
  /\ pc[d] \in AllDone => done[d] = FirstStage(request) .. NumStages

LoopProgress == \A d \in Deliveries : FirstStage(request) <= stage[d] /\ Progress(d)

TypeInv == TypeOK /\ AttemptLeft

CompleteInv == TypeInv /\ LoopProgress /\ SucceededComplete

(* Nothing happens before the API has inserted the row and sent the message. *)
Untouched ==
  /\ api = "idle" => status = "absent"
  /\ api \in {"idle", "created", "audited"} => ~sent
  /\ ~sent => \A d \in Deliveries : pc[d] = "queued"

(* The only execution of a finished job has no status left to write.        *)
Finished == {"queued", "create", "check", "skipped",
             "job_succeeded", "returned", "job_failed", "raised"}

OutcomeWritten ==
  \A d \in Deliveries : status \in Terminal /\ SoleExecution(d) => pc[d] \in Finished

FinalInv == TypeInv /\ Untouched /\ OutcomeWritten

(* A log has the rows of the first n attempts, or retries, of stage s.    *)
Started(log, s, n) ==
  \A a \in 1 .. n : [type |-> "stage.started", stage |-> s, attempt |-> a] \in log
Retried(log, s, n) ==
  \A a \in 1 .. n : [type |-> "stage.retrying", stage |-> s, attempt |-> a] \in log

(* What an execution in its attempt loop has logged of the current stage.   *)
LogProgress(d) ==
  /\ pc[d] \in Unstarted \cup {"mark_running"} => attempt[d] = 1
  /\ pc[d] = "stage_started" =>
       Started(events, stage[d], attempt[d] - 1) /\ Retried(events, stage[d], attempt[d] - 1)
  /\ pc[d] \in {"run", "retrying", "stage_failed"} \cup StageDone =>
       Started(events, stage[d], attempt[d]) /\ Retried(events, stage[d], attempt[d] - 1)

LogInv ==
  /\ TypeInv
  /\ AttemptsLogged
  /\ RowKept => \A d \in Deliveries : LogProgress(d)
-----------------------------------------------------------------------------
(* The first stage of a request is a stage.                                 *)
LEMMA FirstStageType ==
  ASSUME NEW r \in Request
  PROVE  FirstStage(r) \in Stages
BY ConstantsAssumption DEF FirstStage, Stages, Request

LEMMA InitTypeInv == Init => TypeInv
<1> SUFFICES ASSUME Init PROVE TypeInv
  OBVIOUS
<1>0. request \in Request
  BY ConstantsAssumption DEF Init
<1>1. FirstStage(request) \in Stages
  BY <1>0, FirstStageType
<1>2. TypeOK
  <2>1. /\ 0 \in 0 .. NumStages
        /\ 0 \in 0 .. MaxCrashes
        /\ 1 \in 1 .. MaxAttempts
    BY ConstantsAssumption
  <2>2. world \subseteq Effectful
    BY DEF Init
  <2>3. "queued" \in PC /\ "absent" \in Status /\ "idle" \in ApiStep
    BY DEF PC, Status, ApiStep
  <2> QED
    BY <1>0, <1>1, <2>1, <2>2, <2>3 DEF Init, TypeOK
<1>3. AttemptLeft
  BY DEF Init, AttemptLeft
<1> QED
  BY <1>2, <1>3 DEF TypeInv

(* The API handler's steps keep the types; they leave the worker alone.     *)
LEMMA ApiTypeInv == TypeInv /\ ApiNext => TypeInv'
<1> SUFFICES ASSUME TypeInv, ApiNext PROVE TypeInv'
  OBVIOUS
<1> USE ConstantsAssumption DEF TypeInv, TypeOK, AttemptLeft, ApiStep, Status, workerVars, rowVars
<1>1. CASE CreateCompilation
  <2>1. request.checkpoint \in 0 .. NumStages
    BY DEF Request
  <2> QED
    BY <1>1, <2>1 DEF CreateCompilation, InsertRow
<1>2. CASE AppendAuditEntry
  BY <1>2 DEF AppendAuditEntry
<1>3. CASE Enqueue
  BY <1>3 DEF Enqueue
<1>4. CASE CommitAudit
  BY <1>4 DEF CommitAudit
<1>5. CASE DeleteJob
  BY <1>5 DEF DeleteJob
<1>6. CASE ApiCrash
  BY <1>6 DEF ApiCrash
<1> QED
  BY <1>1, <1>2, <1>3, <1>4, <1>5, <1>6 DEF ApiNext

(* One step of an execution keeps the types.                                *)
LEMMA RunTypeInv ==
  ASSUME TypeInv, NEW d \in Deliveries, RunStep(d)
  PROVE  TypeInv'
<1> USE ConstantsAssumption
    DEF TypeInv, TypeOK, AttemptLeft, Goto, AppendEvent, Event, EventType, PC, Step, StoreStep,
        Status, NonReentrant, Terminal, Stages,
        apiVars, rowVars, ctxVars, loopVars, rbVars
<1>1. CASE Deliver(d)
  BY <1>1 DEF Deliver
<1>2. CASE CreateJob(d)
  <2>1. CASE status = "absent"
    <3>1. request.checkpoint \in 0 .. NumStages
      BY DEF Request
    <3> QED
      BY <1>2, <2>1, <3>1 DEF CreateJob, InsertRow
  <2>2. CASE status # "absent"
    BY <1>2, <2>2 DEF CreateJob
  <2> QED
    BY <2>1, <2>2
<1>3. CASE CheckStatus(d)
  BY <1>3 DEF CheckStatus
<1>4. CASE AppendJobCreated(d)
  BY <1>4 DEF AppendJobCreated
<1>5. CASE AppendJobStarted(d)
  BY <1>5 DEF AppendJobStarted
<1>6. CASE MarkJobRunning(d)
  <2>1. pc' \in [Deliveries -> PC] /\ AttemptLeft'
    BY <1>6 DEF MarkJobRunning
  <2> QED
    BY <1>6, <2>1 DEF MarkJobRunning
<1>7. CASE AppendStageStarted(d)
  BY <1>7 DEF AppendStageStarted
<1>8. CASE RunStage(d)
  <2>1. world' \subseteq Effectful
    BY <1>8 DEF RunStage
  <2>2. done' \in [Deliveries -> SUBSET Stages]
    BY <1>8 DEF RunStage
  <2>3. captured' \in [Deliveries -> SUBSET Restoring]
    BY <1>8 DEF RunStage
  <2>4. pc' \in [Deliveries -> PC] /\ AttemptLeft'
    BY <1>8 DEF RunStage
  <2> QED
    BY <1>8, <2>1, <2>2, <2>3, <2>4 DEF RunStage
<1>9. CASE StageRaises(d)
  BY <1>9 DEF StageRaises, LeftBehind
<1>10. CASE AppendStageRetrying(d)
  BY <1>10 DEF AppendStageRetrying
<1>11. CASE UpdateCheckpoint(d)
  BY <1>11 DEF UpdateCheckpoint
<1>12. CASE AppendStageSucceeded(d)
  <2>1. /\ stage' \in [Deliveries -> Stages]
        /\ attempt' \in [Deliveries -> 1 .. MaxAttempts]
    <3>1. CASE UNCHANGED <<stage, attempt>>
      BY <3>1
    <3>2. CASE /\ stage[d] < NumStages
               /\ stage' = [stage EXCEPT ![d] = @ + 1]
               /\ attempt' = [attempt EXCEPT ![d] = 1]
      <4>1. stage[d] + 1 \in Stages /\ 1 \in 1 .. MaxAttempts
        BY <3>2
      <4> QED
        BY <3>2, <4>1
    <3> QED
      BY <1>12, <3>1, <3>2 DEF AppendStageSucceeded
  <2>2. pc' \in [Deliveries -> PC]
    BY <1>12, ZenonT(40) DEF AppendStageSucceeded
  <2>3. AttemptLeft'
    <3>1. \A e \in Deliveries : pc'[e] = "retrying" =>
            pc[e] = "retrying" /\ attempt'[e] = attempt[e]
      BY <1>12 DEF AppendStageSucceeded
    <3> QED
      BY <3>1
  <2>4. events' \subseteq Event
    BY <1>12 DEF AppendStageSucceeded
  <2> QED
    BY <1>12, <2>1, <2>2, <2>3, <2>4 DEF AppendStageSucceeded
<1>13. CASE MarkJobSucceeded(d)
  BY <1>13 DEF MarkJobSucceeded
<1>14. CASE AppendJobSucceeded(d)
  BY <1>14 DEF AppendJobSucceeded
<1>15. CASE AppendStageFailed(d)
  BY <1>15 DEF AppendStageFailed
<1>16. CASE AppendRollbackStarted(d)
  BY <1>16 DEF AppendRollbackStarted, IsNextToUndo
<1>17. CASE UndoStage(d)
  <2>1. world' \subseteq Effectful
    <3>1. PICK s \in Stages :
            /\ IsNextToUndo(d, s)
            /\ world' = IF s \in captured[d] THEN world \cup {s} ELSE world \ ({s} \cap Handled)
      BY <1>17 DEF UndoStage
    <3> QED
      BY <3>1
  <2> QED
    BY <1>17, <2>1 DEF UndoStage
<1>18. CASE UndoRaises(d)
  BY <1>18 DEF UndoRaises, IsNextToUndo
<1>19. CASE AppendRollbackOutcome(d)
  <2>1. /\ pc' \in [Deliveries -> PC]
        /\ AttemptLeft'
    BY <1>19, ZenonT(40) DEF AppendRollbackOutcome
  <2>2. events' \subseteq Event
    BY <1>19 DEF AppendRollbackOutcome
  <2>3. rbLeft' \in [Deliveries -> SUBSET RollbackEnabled]
    BY <1>19 DEF AppendRollbackOutcome
  <2>4. rbFailed' \in [Deliveries -> BOOLEAN]
    BY <1>19 DEF AppendRollbackOutcome
  <2> QED
    BY <1>19, <2>1, <2>2, <2>3, <2>4, ZenonT(40) DEF AppendRollbackOutcome
<1>20. CASE MarkJobFailed(d)
  BY <1>20 DEF MarkJobFailed, RolledBack
<1>21. CASE AppendJobFailed(d)
  BY <1>21 DEF AppendJobFailed, RolledBack
<1>22. CASE JobVanished(d)
  BY <1>22 DEF JobVanished
<1> QED
  BY <1>1, <1>2, <1>3, <1>4, <1>5, <1>6, <1>7, <1>8, <1>9, <1>10, <1>11,
     <1>12, <1>13, <1>14, <1>15, <1>16, <1>17, <1>18, <1>19, <1>20, <1>21,
     <1>22 DEF RunStep

LEMMA CrashTypeInv ==
  ASSUME TypeInv, NEW d \in Deliveries, WorkerCrash(d)
  PROVE  TypeInv'
BY ConstantsAssumption
   DEF TypeInv, TypeOK, AttemptLeft, WorkerCrash, Goto, PC,
       apiVars, rowVars, ctxVars, loopVars, rbVars

LEMMA NextTypeInv == TypeInv /\ [Next]_vars => TypeInv'
<1> SUFFICES ASSUME TypeInv, [Next]_vars PROVE TypeInv'
  OBVIOUS
<1>1. CASE Next
  BY <1>1, ApiTypeInv, RunTypeInv, CrashTypeInv DEF Next
<1>2. CASE UNCHANGED vars
  BY <1>2 DEF vars, TypeInv, TypeOK, AttemptLeft
<1> QED
  BY <1>1, <1>2

(* Type correctness of the job row, the event log and every execution of    *)
(* CompilationWorkflow.run, for every number of stages and attempts: the    *)
(* attempt loop stays in range although its bound is tested two store calls *)
(* before the counter moves.                                                *)
THEOREM TypeCorrect == Spec => []TypeOK
<1>1. Spec => []TypeInv
  BY InitTypeInv, NextTypeInv, PTL DEF Spec
<1>2. TypeInv => TypeOK
  BY DEF TypeInv
<1> QED
  BY <1>1, <1>2, PTL
-----------------------------------------------------------------------------
(* An execution only writes its own entries, and adds to its stage_results. *)
LEMMA OthersUnchanged ==
  ASSUME TypeInv, NEW d \in Deliveries, RunStep(d) \/ WorkerCrash(d),
         NEW e \in Deliveries, e # d
  PROVE  /\ pc'[e] = pc[e] /\ stage'[e] = stage[e] /\ attempt'[e] = attempt[e]
         /\ done'[e] = done[e] /\ captured'[e] = captured[e]
         /\ rbLeft'[e] = rbLeft[e] /\ rbFailed'[e] = rbFailed[e]
BY DEF TypeInv, TypeOK, RunStep, Goto, AppendEvent, ctxVars, loopVars, rbVars,
              Deliver, CreateJob, CheckStatus, AppendJobCreated,
       AppendJobStarted, MarkJobRunning, AppendStageStarted, RunStage,
       StageRaises, AppendStageRetrying, UpdateCheckpoint,
       AppendStageSucceeded, MarkJobSucceeded, AppendJobSucceeded,
       AppendStageFailed, AppendRollbackStarted, UndoStage, UndoRaises,
       AppendRollbackOutcome, MarkJobFailed, AppendJobFailed, JobVanished,
       WorkerCrash

(* What one step of an execution does to its own loop variables.            *)
LEMMA RunProgress ==
  ASSUME TypeInv, NEW d \in Deliveries, RunStep(d),
         FirstStage(request) <= stage[d], Progress(d)
  PROVE  FirstStage(request') <= stage'[d] /\ Progress(d)'
<1> USE DEF TypeInv, TypeOK, Progress, Goto, AppendEvent, PC, Step, StoreStep, Unstarted, InStage, StageDone,
            AllDone, Compensating, ctxVars, loopVars
<1>a. FirstStage(request) \in Int /\ stage[d] \in Int /\ NumStages \in Int
  BY FirstStageType, ConstantsAssumption DEF Stages
<1>1. CASE Deliver(d)
  BY <1>1 DEF Deliver
<1>2. CASE CreateJob(d)
  BY <1>2 DEF CreateJob
<1>3. CASE CheckStatus(d)
  BY <1>3 DEF CheckStatus
<1>4. CASE AppendJobCreated(d)
  BY <1>4 DEF AppendJobCreated
<1>5. CASE AppendJobStarted(d)
  <2>1. FirstStage(request) .. FirstStage(request) - 1 = {}
    BY <1>a
  <2> QED
    BY <1>5, <2>1 DEF AppendJobStarted
<1>6. CASE MarkJobRunning(d)
  BY <1>6 DEF MarkJobRunning
<1>7. CASE AppendStageStarted(d)
  BY <1>7 DEF AppendStageStarted
<1>8. CASE RunStage(d)
  <2>1. (FirstStage(request) .. stage[d] - 1) \cup {stage[d]} = FirstStage(request) .. stage[d]
    BY <1>a
  <2>2. /\ pc[d] = "run" /\ pc'[d] = "checkpoint"
        /\ done'[d] = done[d] \cup {stage[d]}
        /\ UNCHANGED <<request, stage>>
    BY <1>8 DEF RunStage
  <2> QED
    BY <2>1, <2>2
<1>9. CASE StageRaises(d)
  BY <1>9 DEF StageRaises
<1>10. CASE AppendStageRetrying(d)
  BY <1>10 DEF AppendStageRetrying
<1>11. CASE UpdateCheckpoint(d)
  BY <1>11 DEF UpdateCheckpoint
<1>12. CASE AppendStageSucceeded(d)
  <2>1. CASE pc'[d] = "mark_running"
    <3>1. /\ pc[d] = "stage_succeeded"
          /\ stage'[d] = stage[d] + 1
          /\ UNCHANGED <<request, done>>
      BY <1>12, <2>1 DEF AppendStageSucceeded
    <3>2. FirstStage(request) .. stage'[d] - 1 = FirstStage(request) .. stage[d]
      BY <1>a, <3>1
    <3>3. FirstStage(request) <= stage'[d]
      BY <1>a, <3>1
    <3> QED
      BY <2>1, <3>1, <3>2, <3>3
  <2>2. CASE pc'[d] = "mark_succeeded"
    BY <1>12, <2>2 DEF AppendStageSucceeded
  <2> QED
    BY <1>12, <2>1, <2>2 DEF AppendStageSucceeded
<1>13. CASE MarkJobSucceeded(d)
  BY <1>13 DEF MarkJobSucceeded
<1>14. CASE AppendJobSucceeded(d)
  BY <1>14 DEF AppendJobSucceeded
<1>15. CASE AppendStageFailed(d)
  BY <1>15 DEF AppendStageFailed
<1>16. CASE AppendRollbackStarted(d)
  BY <1>16 DEF AppendRollbackStarted
<1>17. CASE UndoStage(d)
  BY <1>17 DEF UndoStage
<1>18. CASE UndoRaises(d)
  BY <1>18 DEF UndoRaises
<1>19. CASE AppendRollbackOutcome(d)
  BY <1>19 DEF AppendRollbackOutcome
<1>20. CASE MarkJobFailed(d)
  BY <1>20 DEF MarkJobFailed
<1>21. CASE AppendJobFailed(d)
  BY <1>21 DEF AppendJobFailed
<1>22. CASE JobVanished(d)
  BY <1>22 DEF JobVanished
<1> QED
  BY <1>1, <1>2, <1>3, <1>4, <1>5, <1>6, <1>7, <1>8, <1>9, <1>10, <1>11, <1>12,
     <1>13, <1>14, <1>15, <1>16, <1>17, <1>18, <1>19, <1>20, <1>21, <1>22 DEF RunStep

(* The message of a job never changes.                                      *)
LEMMA ExecutionKeepsRequest ==
  ASSUME NEW d \in Deliveries, RunStep(d) \/ WorkerCrash(d)
  PROVE  request' = request
BY DEF RunStep, AppendEvent, Deliver, CreateJob, CheckStatus, AppendJobCreated, AppendJobStarted,
         MarkJobRunning, AppendStageStarted, RunStage, StageRaises, AppendStageRetrying,
         UpdateCheckpoint, AppendStageSucceeded, MarkJobSucceeded, AppendJobSucceeded,
         AppendStageFailed, AppendRollbackStarted, UndoStage, UndoRaises, AppendRollbackOutcome,
         MarkJobFailed, AppendJobFailed, JobVanished, WorkerCrash

(* LoopProgress is preserved by every step of the system.                   *)
LEMMA NextLoopProgress ==
  ASSUME TypeInv, LoopProgress, [Next]_vars
  PROVE  LoopProgress'
<1>1. CASE ApiNext \/ UNCHANGED vars
  <2>1. UNCHANGED <<request, pc, stage, done>>
    BY <1>1 DEF ApiNext, CreateCompilation, AppendAuditEntry, Enqueue, CommitAudit, DeleteJob,
                ApiCrash, workerVars, vars
  <2> QED
    BY <2>1 DEF LoopProgress, Progress
<1>2. ASSUME NEW d \in Deliveries, RunStep(d) \/ WorkerCrash(d)
      PROVE  LoopProgress'
  <2>1. request' = request
    BY <1>2, ExecutionKeepsRequest
  <2> SUFFICES ASSUME NEW e \in Deliveries
               PROVE  FirstStage(request') <= stage'[e] /\ Progress(e)'
    BY DEF LoopProgress
  <2>2. CASE e # d
    BY <1>2, <2>1, <2>2, OthersUnchanged DEF LoopProgress, Progress
  <2>3. CASE e = d /\ RunStep(d)
    BY <2>3, RunProgress DEF LoopProgress
  <2>4. CASE e = d /\ WorkerCrash(d)
    BY <2>1, <2>4
       DEF LoopProgress, Progress, WorkerCrash, Goto, loopVars, ctxVars, TypeInv, TypeOK,
           Unstarted, InStage, StageDone, AllDone, Compensating
  <2> QED
    BY <1>2, <2>2, <2>3, <2>4
<1> QED
  BY <1>1, <1>2 DEF Next

(* stage_results only grows, and only mark_job_succeeded writes succeeded.  *)
LEMMA DoneGrows ==
  ASSUME TypeInv, NEW d \in Deliveries, RunStep(d) \/ WorkerCrash(d), NEW e \in Deliveries
  PROVE  done[e] \subseteq done'[e]
<1>1. CASE RunStage(d)
  BY <1>1 DEF RunStage, TypeInv, TypeOK
<1>2. CASE ~RunStage(d)
  BY <1>2 DEF RunStep, AppendEvent, ctxVars,
         Deliver, CreateJob, CheckStatus, AppendJobCreated, AppendJobStarted,
         MarkJobRunning, AppendStageStarted, StageRaises, AppendStageRetrying,
         UpdateCheckpoint, AppendStageSucceeded, MarkJobSucceeded, AppendJobSucceeded,
         AppendStageFailed, AppendRollbackStarted, UndoStage, UndoRaises, AppendRollbackOutcome,
         MarkJobFailed, AppendJobFailed, JobVanished, WorkerCrash
<1> QED
  BY <1>1, <1>2

LEMMA OnlyMarkSucceeds ==
  ASSUME NEW d \in Deliveries, RunStep(d) \/ WorkerCrash(d), ~MarkJobSucceeded(d),
         status' = "succeeded"
  PROVE  status = "succeeded"
BY DEF RunStep, AppendEvent, InsertRow, rowVars,
         Deliver, CreateJob, CheckStatus, AppendJobCreated, AppendJobStarted,
         MarkJobRunning, AppendStageStarted, RunStage, StageRaises, AppendStageRetrying,
         UpdateCheckpoint, AppendStageSucceeded, AppendJobSucceeded,
         AppendStageFailed, AppendRollbackStarted, UndoStage, UndoRaises, AppendRollbackOutcome,
         MarkJobFailed, AppendJobFailed, JobVanished, WorkerCrash

LEMMA NextCompleteInv == CompleteInv /\ [Next]_vars => CompleteInv'
<1> SUFFICES ASSUME CompleteInv, [Next]_vars PROVE CompleteInv'
  OBVIOUS
<1>1. TypeInv' /\ LoopProgress'
  BY NextTypeInv, NextLoopProgress DEF CompleteInv
<1>2. CASE ApiNext \/ UNCHANGED vars
  <2>1. UNCHANGED <<request, done>> /\ (status' = "succeeded" => status = "succeeded")
    BY <1>2 DEF ApiNext, CreateCompilation, InsertRow, AppendAuditEntry, Enqueue, CommitAudit,
                DeleteJob, ApiCrash, workerVars, rowVars, vars
  <2> QED
    BY <1>1, <2>1 DEF CompleteInv, SucceededComplete
<1>3. ASSUME NEW d \in Deliveries, RunStep(d) \/ WorkerCrash(d), status' = "succeeded"
      PROVE  \E e \in Deliveries : FirstStage(request') .. NumStages \subseteq done'[e]
  <2>1. request' = request
    BY <1>3, ExecutionKeepsRequest
  <2>2. CASE MarkJobSucceeded(d)
    <3>1. pc[d] = "mark_succeeded" /\ done' = done
      BY <2>2 DEF MarkJobSucceeded, Goto, ctxVars
    <3>2. done[d] = FirstStage(request) .. NumStages
      BY <3>1 DEF CompleteInv, LoopProgress, Progress, AllDone
    <3> QED
      BY <2>1, <3>1, <3>2
  <2>3. CASE ~MarkJobSucceeded(d)
    <3>1. PICK e \in Deliveries : FirstStage(request) .. NumStages \subseteq done[e]
      BY <1>3, <2>3, OnlyMarkSucceeds DEF CompleteInv, SucceededComplete
    <3>2. done[e] \subseteq done'[e]
      BY <1>3, DoneGrows DEF CompleteInv
    <3> QED
      BY <2>1, <3>1, <3>2
  <2> QED
    BY <2>2, <2>3
<1> QED
  BY <1>1, <1>2, <1>3 DEF Next, CompleteInv, SucceededComplete

(* A job is reported succeeded only when one execution completed every      *)
(* stage from the requested one to the last, for every pipeline, every      *)
(* number of duplicate deliveries and every pattern of retries, crashes and *)
(* deletions of the row.                                                    *)
THEOREM SuccessIsComplete == Spec => []SucceededComplete
<1>1. Init => CompleteInv
  <2> SUFFICES ASSUME Init PROVE CompleteInv
    OBVIOUS
  <2>1. FirstStage(request) \in Stages
    BY FirstStageType, ConstantsAssumption DEF Init
  <2>2. LoopProgress
    BY <2>1, ConstantsAssumption
       DEF Init, LoopProgress, Progress, Unstarted, InStage, StageDone, AllDone, Compensating, Stages
  <2>3. SucceededComplete
    BY DEF Init, SucceededComplete
  <2> QED
    BY <2>2, <2>3, InitTypeInv DEF CompleteInv
<1>2. CompleteInv => SucceededComplete
  BY DEF CompleteInv
<1> QED
  BY <1>1, <1>2, NextCompleteInv, PTL DEF Spec
-----------------------------------------------------------------------------
(* Once past the duplicate test, an execution never goes back.              *)
LEMMA ExecutedStays ==
  ASSUME TypeInv, NEW d \in Deliveries, RunStep(d) \/ WorkerCrash(d),
         NEW e \in Deliveries, Executed(e)
  PROVE  Executed(e)'
<1>1. CASE e # d
  BY <1>1, OthersUnchanged DEF Executed
<1>2. CASE e = d
  BY <1>2 DEF TypeInv, TypeOK, Executed, RunStep, Goto, StoreStep,
         Deliver, CreateJob, CheckStatus, AppendJobCreated, AppendJobStarted,
         MarkJobRunning, AppendStageStarted, RunStage, StageRaises, AppendStageRetrying,
         UpdateCheckpoint, AppendStageSucceeded, MarkJobSucceeded, AppendJobSucceeded,
         AppendStageFailed, AppendRollbackStarted, UndoStage, UndoRaises, AppendRollbackOutcome,
         MarkJobFailed, AppendJobFailed, JobVanished, WorkerCrash
<1> QED
  BY <1>1, <1>2

LEMMA SoleStays ==
  ASSUME TypeInv, NEW d \in Deliveries, RunStep(d) \/ WorkerCrash(d),
         NEW e \in Deliveries, SoleExecution(e)'
  PROVE  SoleExecution(e)
BY ExecutedStays DEF SoleExecution

(* The three writes of a status belong to an execution under way.           *)
LEMMA WritersOfStatus ==
  ASSUME TypeInv, NEW d \in Deliveries, RunStep(d) \/ WorkerCrash(d),
         status # "absent", status' # status
  PROVE  /\ pc[d] \in {"mark_running", "remark", "mark_succeeded", "mark_failed"}
         /\ Executed(d)'
         /\ status' \in Terminal => pc'[d] \in Finished
<1>1. MarkJobRunning(d) \/ MarkJobSucceeded(d) \/ MarkJobFailed(d)
  BY DEF RunStep, AppendEvent, rowVars,
         Deliver, CreateJob, CheckStatus, AppendJobCreated, AppendJobStarted,
         AppendStageStarted, RunStage, StageRaises, AppendStageRetrying,
         UpdateCheckpoint, AppendStageSucceeded, AppendJobSucceeded,
         AppendStageFailed, AppendRollbackStarted, UndoStage, UndoRaises, AppendRollbackOutcome,
         AppendJobFailed, JobVanished, WorkerCrash
<1> QED
  BY <1>1 DEF TypeInv, TypeOK, MarkJobRunning, MarkJobSucceeded, MarkJobFailed, Goto, Executed,
              Terminal, Finished

(* Under SoleExecution(e) the writer of a status is e itself.               *)
LEMMA SoleWriter ==
  ASSUME TypeInv, NEW d \in Deliveries, RunStep(d) \/ WorkerCrash(d),
         status # "absent", status' # status,
         NEW e \in Deliveries, SoleExecution(e)'
  PROVE  d = e
BY WritersOfStatus DEF SoleExecution

(* While the status is terminal and stays so, an execution that has nothing *)
(* left to write gets nothing to write: a new one is skipped.               *)
LEMMA FinishedStays ==
  ASSUME TypeInv, NEW d \in Deliveries, RunStep(d) \/ WorkerCrash(d),
         status \in Terminal, pc[d] \in Finished
  PROVE  pc'[d] \in Finished
BY DEF TypeInv, TypeOK, Finished, Terminal, NonReentrant, RunStep, Goto,
         Deliver, CreateJob, CheckStatus, AppendJobCreated, AppendJobStarted,
         MarkJobRunning, AppendStageStarted, RunStage, StageRaises, AppendStageRetrying,
         UpdateCheckpoint, AppendStageSucceeded, MarkJobSucceeded, AppendJobSucceeded,
         AppendStageFailed, AppendRollbackStarted, UndoStage, UndoRaises, AppendRollbackOutcome,
         MarkJobFailed, AppendJobFailed, JobVanished, WorkerCrash

LEMMA ExecutionKeepsUntouched ==
  ASSUME TypeInv, Untouched, NEW d \in Deliveries, RunStep(d) \/ WorkerCrash(d)
  PROVE  Untouched'
<1>1. UNCHANGED <<api, sent>>
  BY DEF RunStep, AppendEvent, apiVars,
         Deliver, CreateJob, CheckStatus, AppendJobCreated, AppendJobStarted,
         MarkJobRunning, AppendStageStarted, RunStage, StageRaises, AppendStageRetrying,
         UpdateCheckpoint, AppendStageSucceeded, MarkJobSucceeded, AppendJobSucceeded,
         AppendStageFailed, AppendRollbackStarted, UndoStage, UndoRaises, AppendRollbackOutcome,
         MarkJobFailed, AppendJobFailed, JobVanished, WorkerCrash
<1>2. sent
  BY DEF Untouched, RunStep, Goto, Step, StoreStep,
         Deliver, CreateJob, CheckStatus, AppendJobCreated, AppendJobStarted,
         MarkJobRunning, AppendStageStarted, RunStage, StageRaises, AppendStageRetrying,
         UpdateCheckpoint, AppendStageSucceeded, MarkJobSucceeded, AppendJobSucceeded,
         AppendStageFailed, AppendRollbackStarted, UndoStage, UndoRaises, AppendRollbackOutcome,
         MarkJobFailed, AppendJobFailed, JobVanished, WorkerCrash
<1> QED
  BY <1>1, <1>2 DEF Untouched

LEMMA NextFinalInv == FinalInv /\ [Next]_vars => FinalInv'
<1> SUFFICES ASSUME FinalInv, [Next]_vars PROVE FinalInv'
  OBVIOUS
<1>1. TypeInv'
  BY NextTypeInv DEF FinalInv
<1>2. CASE ApiNext \/ UNCHANGED vars
  <2>1. pc' = pc /\ (status' \in Terminal => status \in Terminal)
    BY <1>2 DEF ApiNext, CreateCompilation, InsertRow, AppendAuditEntry, Enqueue, CommitAudit,
                DeleteJob, ApiCrash, workerVars, rowVars, vars, Terminal
  <2>2. Untouched'
    BY <1>2 DEF FinalInv, Untouched, ApiNext, CreateCompilation, AppendAuditEntry, Enqueue,
                CommitAudit, DeleteJob, ApiCrash, workerVars, rowVars, vars
  <2>3. OutcomeWritten'
    BY <2>1 DEF FinalInv, OutcomeWritten, SoleExecution, Executed
  <2> QED
    BY <1>1, <2>2, <2>3 DEF FinalInv
<1>3. ASSUME NEW d \in Deliveries, RunStep(d) \/ WorkerCrash(d)
      PROVE  Untouched' /\ OutcomeWritten'
  <2>1. Untouched'
    BY <1>3, ExecutionKeepsUntouched DEF FinalInv
  <2>2. ASSUME NEW e \in Deliveries, status' \in Terminal, SoleExecution(e)'
        PROVE  pc'[e] \in Finished
    <3>1. SoleExecution(e)
      BY <1>3, <2>2, SoleStays DEF FinalInv
    <3>2. CASE status' = status
      <4>1. pc[e] \in Finished
        BY <2>2, <3>1, <3>2 DEF FinalInv, OutcomeWritten
      <4> QED
        BY <1>3, <2>2, <3>2, <4>1, FinishedStays, OthersUnchanged DEF FinalInv
    <3>3. CASE status' # status
      <4>1. status # "absent"
        BY <1>3, <2>2 DEF RunStep, AppendEvent, InsertRow, rowVars, Terminal,
         Deliver, CreateJob, CheckStatus, AppendJobCreated, AppendJobStarted,
         MarkJobRunning, AppendStageStarted, RunStage, StageRaises, AppendStageRetrying,
         UpdateCheckpoint, AppendStageSucceeded, MarkJobSucceeded, AppendJobSucceeded,
         AppendStageFailed, AppendRollbackStarted, UndoStage, UndoRaises, AppendRollbackOutcome,
         MarkJobFailed, AppendJobFailed, JobVanished, WorkerCrash
      <4>2. d = e
        BY <1>3, <2>2, <3>3, <4>1, SoleWriter DEF FinalInv
      <4> QED
        BY <1>3, <2>2, <3>3, <4>1, <4>2, WritersOfStatus DEF FinalInv
    <3> QED
      BY <3>2, <3>3
  <2> QED
    BY <2>1, <2>2 DEF OutcomeWritten
<1> QED
  BY <1>1, <1>2, <1>3 DEF Next, FinalInv

(* A terminal status is final under a single execution: with FinalInv, the  *)
(* only steps that could rewrite it are the API's deletion or a second      *)
(* execution.                                                               *)
THEOREM OutcomeIsFinal == Spec => TerminalFinal
<1>1. Init => FinalInv
  BY InitTypeInv DEF Init, FinalInv, Untouched, OutcomeWritten, Terminal
<1>2. ASSUME FinalInv, [Next]_vars
      PROVE  [\A d \in Deliveries :
                status \in Terminal /\ SoleExecution(d)' => status' \in {status, "absent"}]_vars
  <2> SUFFICES ASSUME NEW e \in Deliveries, status \in Terminal, SoleExecution(e)', Next
               PROVE  status' \in {status, "absent"}
    BY <1>2
  <2>1. CASE ApiNext
    BY <1>2, <2>1 DEF FinalInv, Untouched, Terminal, ApiNext, CreateCompilation, AppendAuditEntry,
                      Enqueue, CommitAudit, DeleteJob, ApiCrash, rowVars
  <2>2. ASSUME NEW d \in Deliveries, RunStep(d) \/ WorkerCrash(d), status' # status
        PROVE  FALSE
    <3>1. status # "absent"
      BY DEF Terminal
    <3>2. d = e
      BY <1>2, <2>2, <3>1, SoleWriter DEF FinalInv
    <3>3. pc[e] \in Finished
      BY <1>2, <2>2, SoleStays DEF FinalInv, OutcomeWritten
    <3> QED
      BY <1>2, <2>2, <3>1, <3>2, <3>3, WritersOfStatus DEF FinalInv, Finished
  <2> QED
    BY <2>1, <2>2 DEF Next
<1> QED
  BY <1>1, <1>2, NextFinalInv, PTL DEF Spec, TerminalFinal
-----------------------------------------------------------------------------
(* Executions only add rows to the log.                                     *)
LEMMA LogGrows ==
  ASSUME NEW d \in Deliveries, RunStep(d) \/ WorkerCrash(d)
  PROVE  events \subseteq events' /\ api' = api
BY DEF RunStep, AppendEvent, apiVars, IsNextToUndo,
         Deliver, CreateJob, CheckStatus, AppendJobCreated, AppendJobStarted,
         MarkJobRunning, AppendStageStarted, RunStage, StageRaises,
         AppendStageRetrying, UpdateCheckpoint, AppendStageSucceeded, MarkJobSucceeded,
         AppendJobSucceeded, AppendStageFailed, AppendRollbackStarted, UndoStage,
         UndoRaises, AppendRollbackOutcome, MarkJobFailed, AppendJobFailed,
         JobVanished, WorkerCrash

LEMMA LoggedStays ==
  ASSUME events \subseteq events', NEW s, NEW n
  PROVE  /\ Started(events, s, n) => Started(events', s, n)
         /\ Retried(events, s, n) => Retried(events', s, n)
BY DEF Started, Retried

(* One step of an execution keeps its own part of the log in order.         *)
LEMMA RunLogProgress ==
  ASSUME TypeInv, NEW d \in Deliveries, RunStep(d), LogProgress(d)
  PROVE  LogProgress(d)'
<1>1. events \subseteq events'
  BY LogGrows
<1>2. \A s, n : /\ Started(events, s, n) => Started(events', s, n)
                /\ Retried(events, s, n) => Retried(events', s, n)
  BY <1>1, LoggedStays
<1>a. attempt[d] \in Int
  BY ConstantsAssumption DEF TypeInv, TypeOK
<1>3. CASE AppendStageStarted(d)
  <2>1. /\ pc[d] = "stage_started" /\ pc'[d] = "run"
        /\ UNCHANGED <<stage, attempt>>
        /\ [type |-> "stage.started", stage |-> stage[d], attempt |-> attempt[d]] \in events'
    BY <1>3 DEF AppendStageStarted, Goto, AppendEvent, loopVars, TypeInv, TypeOK
  <2>2. Started(events', stage[d], attempt[d] - 1) /\ Retried(events', stage[d], attempt[d] - 1)
    BY <1>2, <2>1 DEF LogProgress
  <2>3. Started(events', stage[d], attempt[d])
    BY <1>a, <2>1, <2>2 DEF Started
  <2> QED
    BY <2>1, <2>2, <2>3 DEF LogProgress, Unstarted
<1>4. CASE AppendStageRetrying(d)
  <2>1. /\ pc[d] = "retrying" /\ pc'[d] = "stage_started"
        /\ stage' = stage /\ attempt'[d] = attempt[d] + 1
        /\ [type |-> "stage.retrying", stage |-> stage[d], attempt |-> attempt[d]] \in events'
    BY <1>4 DEF AppendStageRetrying, Goto, AppendEvent, TypeInv, TypeOK
  <2>2. Started(events', stage[d], attempt[d]) /\ Retried(events', stage[d], attempt[d] - 1)
    BY <1>2, <2>1 DEF LogProgress
  <2>3. Retried(events', stage'[d], attempt'[d] - 1) /\ Started(events', stage'[d], attempt'[d] - 1)
    BY <1>a, <2>1, <2>2 DEF Started, Retried
  <2> QED
    BY <2>1, <2>3 DEF LogProgress, Unstarted, StageDone
<1>5. CASE AppendStageSucceeded(d)
  BY <1>5 DEF AppendStageSucceeded, Goto, loopVars, TypeInv, TypeOK, LogProgress, Unstarted, StageDone
<1>6. CASE MarkJobRunning(d)
  <2>1. Started(events', stage[d], 0) /\ Retried(events', stage[d], 0)
    BY DEF Started, Retried
  <2> QED
    BY <1>2, <1>6, <2>1 DEF MarkJobRunning, Goto, loopVars, TypeInv, TypeOK, LogProgress, Unstarted, StageDone
<1>7. CASE \/ Deliver(d) \/ CreateJob(d) \/ CheckStatus(d)
           \/ AppendJobCreated(d) \/ RunStage(d) \/ StageRaises(d)
           \/ UpdateCheckpoint(d) \/ MarkJobSucceeded(d) \/ AppendJobSucceeded(d)
           \/ AppendStageFailed(d) \/ AppendRollbackStarted(d) \/ UndoStage(d)
           \/ UndoRaises(d) \/ AppendRollbackOutcome(d) \/ MarkJobFailed(d)
           \/ AppendJobFailed(d) \/ JobVanished(d)
  BY <1>2, <1>7
     DEF Goto, AppendEvent, loopVars, TypeInv, TypeOK, LogProgress, Unstarted, StageDone, StoreStep,
         Deliver, CreateJob, CheckStatus, AppendJobCreated, RunStage, StageRaises,
         UpdateCheckpoint, MarkJobSucceeded, AppendJobSucceeded, AppendStageFailed,
         AppendRollbackStarted, UndoStage, UndoRaises, AppendRollbackOutcome,
         MarkJobFailed, AppendJobFailed, JobVanished
<1>8. CASE AppendJobStarted(d)
  BY <1>8 DEF AppendJobStarted, Goto, loopVars, TypeInv, TypeOK, LogProgress, Unstarted, StageDone
<1> QED
  BY <1>3, <1>4, <1>5, <1>6, <1>7, <1>8 DEF RunStep

(* A new outcome row of a stage is the one of the execution that writes it. *)
LEMMA NewOutcomeRow ==
  ASSUME TypeInv, NEW d \in Deliveries, RunStep(d) \/ WorkerCrash(d),
         NEW r \in events' \ events, r.type \in {"stage.succeeded", "stage.failed"}
  PROVE  /\ r.stage = stage[d] /\ r.attempt = attempt[d]
         /\ pc[d] \in {"stage_succeeded", "stage_failed"}
<1>1. AppendStageSucceeded(d) \/ AppendStageFailed(d)
  BY DEF RunStep, AppendEvent,
         Deliver, CreateJob, CheckStatus, AppendJobCreated, AppendJobStarted,
         MarkJobRunning, AppendStageStarted, RunStage, StageRaises,
         AppendStageRetrying, UpdateCheckpoint, MarkJobSucceeded, AppendJobSucceeded,
         AppendRollbackStarted, UndoStage, UndoRaises, AppendRollbackOutcome,
         MarkJobFailed, AppendJobFailed, JobVanished, WorkerCrash
<1> QED
  BY <1>1 DEF AppendStageSucceeded, AppendStageFailed, AppendEvent, Goto

LEMMA NextLogInv == LogInv /\ [Next]_vars => LogInv'
<1> SUFFICES ASSUME LogInv, [Next]_vars PROVE LogInv'
  OBVIOUS
<1>1. TypeInv'
  BY NextTypeInv DEF LogInv
<1>2. CASE ApiNext \/ UNCHANGED vars
  <2>1. RowKept' => RowKept /\ UNCHANGED <<events, pc, stage, attempt>>
    BY <1>2 DEF RowKept, ApiNext, CreateCompilation, AppendAuditEntry, Enqueue, CommitAudit,
                DeleteJob, ApiCrash, workerVars, vars
  <2> QED
    BY <1>1, <2>1 DEF LogInv, AttemptsLogged, LogProgress
<1>3. ASSUME NEW d \in Deliveries, RunStep(d) \/ WorkerCrash(d), RowKept'
      PROVE  AttemptsLogged' /\ \A e \in Deliveries : LogProgress(e)'
  <2>1. events \subseteq events' /\ RowKept
    BY <1>3, LogGrows DEF RowKept
  <2>2. ASSUME NEW e \in Deliveries PROVE LogProgress(e)'
    <3>1. CASE e # d
      BY <1>3, <2>1, <3>1, OthersUnchanged, LoggedStays DEF LogInv, LogProgress
    <3>2. CASE e = d /\ RunStep(d)
      BY <2>1, <3>2, RunLogProgress DEF LogInv
    <3>3. CASE e = d /\ WorkerCrash(d)
      BY <3>3 DEF LogInv, TypeInv, TypeOK, LogProgress, WorkerCrash, Goto, Unstarted, StageDone
    <3> QED
      BY <1>3, <3>1, <3>2, <3>3
  <2>3. ASSUME NEW r \in events', r.type \in {"stage.succeeded", "stage.failed"}
        PROVE  Started(events', r.stage, r.attempt) /\ Retried(events', r.stage, r.attempt - 1)
    <3>1. CASE r \in events
      <4>1. Started(events, r.stage, r.attempt) /\ Retried(events, r.stage, r.attempt - 1)
        BY <2>1, <2>3, <3>1 DEF LogInv, AttemptsLogged, Started, Retried
      <4> QED
        BY <2>1, <4>1, LoggedStays
    <3>2. CASE r \notin events
      <4>1. /\ r.stage = stage[d] /\ r.attempt = attempt[d]
            /\ pc[d] \in {"stage_succeeded", "stage_failed"}
        BY <1>3, <2>3, <3>2, NewOutcomeRow DEF LogInv
      <4>2. Started(events, r.stage, r.attempt) /\ Retried(events, r.stage, r.attempt - 1)
        BY <2>1, <4>1 DEF LogInv, LogProgress, StageDone
      <4> QED
        BY <2>1, <4>2, LoggedStays
    <3> QED
      BY <3>1, <3>2
  <2>4. AttemptsLogged'
    BY <2>3 DEF AttemptsLogged, Started, Retried
  <2> QED
    BY <2>2, <2>4
<1>4. ASSUME NEW d \in Deliveries, RunStep(d) \/ WorkerCrash(d)
      PROVE  AttemptsLogged' /\ (RowKept' => \A e \in Deliveries : LogProgress(e)')
  BY <1>3, <1>4 DEF AttemptsLogged
<1> QED
  BY <1>1, <1>2, <1>4 DEF Next, LogInv

(* The event log accounts for every attempt, for every number of attempts   *)
(* and of executions that share the log: an outcome row comes with the      *)
(* stage.started and stage.retrying rows of the attempts before it.         *)
THEOREM LogAccountsForAttempts == Spec => []AttemptsLogged
<1>1. Init => LogInv
  <2> SUFFICES ASSUME Init PROVE LogInv
    OBVIOUS
  <2>1. AttemptsLogged
    BY DEF Init, AttemptsLogged
  <2>2. \A d \in Deliveries : LogProgress(d)
    BY DEF Init, LogProgress, Unstarted, StageDone
  <2> QED
    BY <2>1, <2>2, InitTypeInv DEF LogInv
<1>2. LogInv => AttemptsLogged
  BY DEF LogInv
<1> QED
  BY <1>1, <1>2, NextLogInv, PTL DEF Spec
-----------------------------------------------------------------------------
(* Effects.  Up to its failure a sole execution leaves the effects of the   *)
(* stages it has completed in place and has nothing to roll back.           *)
InPlace(d) ==
  pc[d] \notin Compensating \cup {"raised"} =>
    /\ done[d] \cap Effectful \subseteq world
    /\ rbLeft[d] = {} /\ rbFailed[d] = FALSE

(* The stages that _rollback has passed, and what it owes for each of them. *)
Passed(d) == (done[d] \cap RollbackEnabled) \ rbLeft[d]
Gone(d, s) == s \in Handled \cap world => s \in captured[d]
RollbackRow(s) == [type |-> "rollback.succeeded", stage |-> s, attempt |-> 0]

Compensated(d) ==
  /\ pc[d] \in Compensating /\ ~rbFailed[d] =>
       \A s \in Passed(d) : Gone(d, s) /\ (RowKept => RollbackRow(s) \in events)
  /\ pc[d] = "undone" => \A s \in Stages : IsNextToUndo(d, s) => Gone(d, s)
  /\ pc[d] = "mark_failed" => rbLeft[d] = {}

ServesOwed == status = "succeeded" => Owed \subseteq world
LeavesNothing(d) ==
  status = "rolled_back" =>
    \A s \in done[d] \cap RollbackEnabled :
      Gone(d, s) /\ (RowKept => RollbackRow(s) \in events)

EffectsInv ==
  /\ CompleteInv /\ FinalInv
  /\ \A d \in Deliveries : SoleExecution(d) =>
       InPlace(d) /\ Compensated(d) /\ ServesOwed /\ LeavesNothing(d)

(* The stored checkpoint of a row that is there belongs to the boundary at  *)
(* which a sole execution is.                                               *)
Boundary(s) == Resolvable([from_stage |-> s, checkpoint |-> checkpoint])

CheckpointAt(d) ==
  /\ pc[d] \in Unstarted /\ status # "absent" => checkpoint = request.checkpoint
  /\ pc[d] \in {"job_created", "job_started"} => Resolvable(request)
  /\ pc[d] \in InStage \cup Compensating \cup {"checkpoint"} => Boundary(stage[d])
  /\ pc[d] \in {"remark", "stage_succeeded"} => checkpoint = stage[d]

CheckpointFollows(d) ==
  /\ CheckpointAt(d)
  /\ status \in {"failed", "rolled_back"} => Boundary(current_stage)

ResumeInv ==
  /\ CompleteInv /\ FinalInv
  /\ RowKept /\ api # "idle" => status # "absent"
  /\ \A d \in Deliveries : SoleExecution(d) /\ RowKept => CheckpointFollows(d)

(* Only activities and rollback handlers change the effects, only the       *)
(* insertion of a row and update_checkpoint the checkpoint, and only the    *)
(* status writes the current stage.                                         *)
LEMMA Movers ==
  ASSUME TypeInv, NEW d \in Deliveries, RunStep(d) \/ WorkerCrash(d)
  PROVE  /\ world' # world => pc[d] \in {"run", "undo"}
         /\ status # "absent" /\ checkpoint' # checkpoint => pc[d] = "checkpoint"
         /\ status # "absent" /\ current_stage' # current_stage =>
              pc[d] \in {"mark_running", "remark", "mark_succeeded", "mark_failed"}
BY DEF RunStep, AppendEvent, Goto, rowVars,
         Deliver, CreateJob, CheckStatus, AppendJobCreated, AppendJobStarted,
         MarkJobRunning, AppendStageStarted, RunStage, StageRaises, AppendStageRetrying,
         UpdateCheckpoint, AppendStageSucceeded, MarkJobSucceeded, AppendJobSucceeded,
         AppendStageFailed, AppendRollbackStarted, UndoStage, UndoRaises, AppendRollbackOutcome,
         MarkJobFailed, AppendJobFailed, JobVanished, WorkerCrash

(* While one execution is the only one, no other delivery is past the       *)
(* duplicate test, before and after its step.                               *)
LEMMA OtherIsIdle ==
  ASSUME TypeInv, NEW d \in Deliveries, RunStep(d) \/ WorkerCrash(d),
         NEW e \in Deliveries, SoleExecution(e)', e # d
  PROVE  ~Executed(d) /\ ~Executed(d)'
BY ExecutedStays DEF SoleExecution

(* One step of an execution keeps its own account of the effects.           *)
LEMMA OwnEffects ==
  ASSUME TypeInv, NEW d \in Deliveries, RunStep(d), Progress(d), InPlace(d), Compensated(d)
  PROVE  InPlace(d)' /\ Compensated(d)'
<1> USE DEF TypeInv, TypeOK, Goto, Compensating
<1>0. events \subseteq events' /\ (RowKept' => RowKept)
  BY LogGrows DEF RowKept
<1>1. CASE RunStage(d)
  <2>1. /\ pc[d] = "run" /\ pc'[d] = "checkpoint"
        /\ done'[d] = done[d] \cup {stage[d]}
        /\ world' = world \cup ({stage[d]} \cap Effectful)
        /\ UNCHANGED <<rbLeft, rbFailed>>
    BY <1>1 DEF RunStage, rbVars
  <2> QED
    BY <2>1 DEF InPlace, Compensated
<1>2. CASE StageRaises(d)
  <2>1. /\ pc[d] = "run" /\ pc'[d] \in {"retrying", "stage_failed"}
        /\ world \ {stage[d]} \subseteq world'
        /\ UNCHANGED <<stage, done, rbLeft, rbFailed>>
    BY <1>2 DEF StageRaises, LeftBehind, loopVars, ctxVars, rbVars
  <2>2. stage[d] \in Int /\ FirstStage(request) \in Int
    BY FirstStageType, ConstantsAssumption DEF Stages
  <2>3. stage[d] \notin done[d]
    BY <2>1, <2>2 DEF Progress, InStage
  <2> QED
    BY <2>1, <2>3 DEF InPlace, Compensated
<1>3. CASE AppendStageFailed(d)
  <2>1. /\ pc[d] = "stage_failed" /\ pc'[d] \in {"mark_failed", "rollback"}
        /\ rbLeft'[d] = done[d] \cap RollbackEnabled
        /\ pc'[d] = "mark_failed" => rbLeft'[d] = {}
        /\ UNCHANGED <<done, world, captured, rbFailed>>
    BY <1>3 DEF AppendStageFailed, AppendEvent, ctxVars
  <2> QED
    BY <2>1 DEF InPlace, Compensated, Passed
<1>4. CASE AppendRollbackStarted(d)
  <2>1. /\ pc[d] = "rollback" /\ pc'[d] = "undo"
        /\ UNCHANGED <<done, world, captured, rbLeft, rbFailed>>
    BY <1>4 DEF AppendRollbackStarted, AppendEvent, ctxVars, rbVars
  <2> QED
    BY <1>0, <2>1 DEF InPlace, Compensated, Passed, Gone
<1>5. CASE UndoStage(d)
  <2>1. PICK s \in Stages :
          /\ IsNextToUndo(d, s)
          /\ world' = IF s \in captured[d] THEN world \cup {s} ELSE world \ ({s} \cap Handled)
    BY <1>5 DEF UndoStage
  <2>2. /\ pc[d] = "undo" /\ pc'[d] = "undone"
        /\ UNCHANGED <<done, captured, rbLeft, rbFailed, events>>
    BY <1>5 DEF UndoStage, ctxVars, rbVars
  <2>3. ASSUME NEW t \in Stages, IsNextToUndo(d, t) PROVE t = s
    BY <2>1, <2>3 DEF IsNextToUndo, Stages
  <2>4. \A t : Gone(d, t) => Gone(d, t)'
    BY <2>1, <2>2 DEF Gone
  <2>5. Gone(d, s)'
    BY <2>1, <2>2 DEF Gone
  <2> QED
    BY <1>0, <2>2, <2>3, <2>4, <2>5 DEF InPlace, Compensated, Passed, IsNextToUndo
<1>6. CASE UndoRaises(d)
  <2>1. /\ pc[d] = "undo" /\ pc'[d] = "undo_failed"
        /\ world' \subseteq world
        /\ UNCHANGED <<done, captured, rbLeft, rbFailed, events>>
    BY <1>6 DEF UndoRaises, ctxVars, rbVars
  <2> QED
    BY <1>0, <2>1 DEF InPlace, Compensated, Passed, Gone
<1>7. CASE AppendRollbackOutcome(d)
  <2>1. PICK s \in Stages :
          /\ IsNextToUndo(d, s)
          /\ \/ /\ pc[d] = "undone"
                /\ RollbackRow(s) \in events'
                /\ UNCHANGED rbFailed
             \/ pc[d] = "undo_failed" /\ rbFailed'[d]
          /\ pc'[d] = IF rbLeft[d] = {s} THEN "mark_failed" ELSE "rollback"
          /\ rbLeft'[d] = rbLeft[d] \ {s}
          /\ UNCHANGED <<done, world, captured>>
    BY <1>7 DEF AppendRollbackOutcome, AppendEvent, ctxVars, RollbackRow
  <2>2. CASE pc[d] = "undone"
    <3>1. Gone(d, s) /\ RollbackRow(s) \in events' /\ rbFailed' = rbFailed
      BY <2>1, <2>2 DEF Compensated
    <3>2. Passed(d)' \subseteq Passed(d) \cup {s}
      BY <2>1 DEF Passed
    <3>3. \A t : Gone(d, t) => Gone(d, t)'
      BY <2>1 DEF Gone
    <3> QED
      BY <1>0, <2>1, <2>2, <3>1, <3>2, <3>3 DEF InPlace, Compensated
  <2>3. CASE pc[d] = "undo_failed"
    BY <2>1, <2>3 DEF InPlace, Compensated
  <2> QED
    BY <2>1, <2>2, <2>3
<1>8. CASE MarkJobFailed(d) \/ AppendJobFailed(d)
  <2>1. /\ pc[d] \in {"mark_failed", "job_failed"} /\ pc'[d] \in {"job_failed", "raised"}
        /\ UNCHANGED <<done, world, captured, rbLeft, rbFailed>>
    BY <1>8 DEF MarkJobFailed, AppendJobFailed, AppendEvent, ctxVars, rbVars
  <2> QED
    BY <1>0, <2>1 DEF InPlace, Compensated, Passed, Gone
<1>9. CASE JobVanished(d)
  BY <1>9 DEF JobVanished, InPlace, Compensated
<1>10. CASE \/ Deliver(d) \/ CreateJob(d) \/ CheckStatus(d) \/ AppendJobCreated(d)
            \/ AppendJobStarted(d) \/ MarkJobRunning(d) \/ AppendStageStarted(d)
            \/ AppendStageRetrying(d) \/ UpdateCheckpoint(d) \/ AppendStageSucceeded(d)
            \/ MarkJobSucceeded(d) \/ AppendJobSucceeded(d)
  <2>1. /\ pc[d] \notin Compensating \cup {"raised"} /\ pc'[d] \notin Compensating
        /\ UNCHANGED <<done, world, captured, rbLeft, rbFailed>>
    BY <1>10 DEF Deliver, CreateJob, CheckStatus, AppendJobCreated, AppendJobStarted,
         MarkJobRunning, AppendStageStarted, AppendStageRetrying,
         UpdateCheckpoint, AppendStageSucceeded, MarkJobSucceeded, AppendJobSucceeded,
         AppendEvent, ctxVars, rbVars
  <2> QED
    BY <2>1 DEF InPlace, Compensated
<1> QED
  BY <1>1, <1>2, <1>3, <1>4, <1>5, <1>6, <1>7, <1>8, <1>9, <1>10 DEF RunStep

(* Only mark_job_failed writes failed or rolled_back.                       *)
LEMMA OnlyMarkFails ==
  ASSUME NEW d \in Deliveries, RunStep(d) \/ WorkerCrash(d), ~MarkJobFailed(d),
         status' \in {"failed", "rolled_back"}
  PROVE  status' = status
BY DEF RunStep, AppendEvent, InsertRow, rowVars,
         Deliver, CreateJob, CheckStatus, AppendJobCreated, AppendJobStarted,
         MarkJobRunning, AppendStageStarted, RunStage, StageRaises, AppendStageRetrying,
         UpdateCheckpoint, AppendStageSucceeded, MarkJobSucceeded, AppendJobSucceeded,
         AppendStageFailed, AppendRollbackStarted, UndoStage, UndoRaises, AppendRollbackOutcome,
         AppendJobFailed, JobVanished, WorkerCrash

(* An outcome that stands keeps its meaning: the sole execution is past its *)
(* effects, and nobody else has any.                                        *)
LEMMA OutcomeStands ==
  ASSUME FinalInv, NEW d \in Deliveries, RunStep(d) \/ WorkerCrash(d),
         NEW e \in Deliveries, SoleExecution(e)', status \in Terminal, status' = status
  PROVE  /\ UNCHANGED <<world, checkpoint, current_stage>>
         /\ done'[e] = done[e] /\ captured'[e] = captured[e]
<1>1. SoleExecution(e) /\ TypeInv
  BY SoleStays DEF FinalInv
<1>2. pc[e] \in Finished
  BY <1>1 DEF FinalInv, OutcomeWritten
<1>3. status # "absent"
  BY DEF Terminal
<1>4. CASE d = e
  <2>1. ~RunStage(d)
    BY <1>2, <1>4 DEF RunStage, Goto, Finished
  <2>2. done' = done /\ captured' = captured
    BY <2>1 DEF RunStep, AppendEvent, ctxVars,
         Deliver, CreateJob, CheckStatus, AppendJobCreated, AppendJobStarted,
         MarkJobRunning, AppendStageStarted, StageRaises, AppendStageRetrying,
         UpdateCheckpoint, AppendStageSucceeded, MarkJobSucceeded, AppendJobSucceeded,
         AppendStageFailed, AppendRollbackStarted, UndoStage, UndoRaises, AppendRollbackOutcome,
         MarkJobFailed, AppendJobFailed, JobVanished, WorkerCrash
  <2> QED
    BY <1>1, <1>2, <1>3, <1>4, <2>2, Movers DEF Finished
<1>5. CASE d # e
  <2>1. ~Executed(d)
    BY <1>1, <1>5, OtherIsIdle
  <2> QED
    BY <1>1, <1>3, <1>5, <2>1, Movers, OthersUnchanged DEF Executed
<1> QED
  BY <1>4, <1>5

LEMMA RunEffects ==
  ASSUME EffectsInv, NEW d \in Deliveries, RunStep(d) \/ WorkerCrash(d),
         NEW e \in Deliveries, SoleExecution(e)'
  PROVE  (InPlace(e) /\ Compensated(e) /\ ServesOwed /\ LeavesNothing(e))'
<1>0. TypeInv /\ FinalInv /\ CompleteInv
  BY DEF EffectsInv, FinalInv
<1>1. SoleExecution(e)
  BY <1>0, SoleStays
<1>2. /\ InPlace(e) /\ Compensated(e) /\ ServesOwed /\ LeavesNothing(e)
      /\ Progress(e)
  BY <1>0, <1>1 DEF EffectsInv, CompleteInv, LoopProgress
<1>3. request' = request /\ events \subseteq events' /\ (RowKept' => RowKept)
  BY ExecutionKeepsRequest, LogGrows DEF RowKept
<1>4. InPlace(e)' /\ Compensated(e)'
  <2>1. CASE d = e /\ RunStep(d)
    BY <1>0, <1>2, <2>1, OwnEffects
  <2>2. CASE d = e /\ WorkerCrash(d)
    BY <1>0, <2>2 DEF WorkerCrash, Goto, InPlace, Compensated, Compensating, TypeInv, TypeOK
  <2>3. CASE d # e
    <3>1. world' = world
      BY <1>0, <2>3, OtherIsIdle, Movers DEF Executed
    <3>2. /\ pc'[e] = pc[e] /\ done'[e] = done[e] /\ captured'[e] = captured[e]
          /\ rbLeft'[e] = rbLeft[e] /\ rbFailed'[e] = rbFailed[e]
      BY <1>0, <2>3, OthersUnchanged
    <3> QED
      BY <1>2, <1>3, <3>1, <3>2 DEF InPlace, Compensated, Passed, Gone, IsNextToUndo
  <2> QED
    BY <2>1, <2>2, <2>3
<1>5. ServesOwed'
  <2> SUFFICES ASSUME status' = "succeeded" PROVE Owed \subseteq world'
    BY <1>3 DEF ServesOwed, Owed
  <2>1. CASE MarkJobSucceeded(d)
    <3>1. status # "absent" /\ pc[d] = "mark_succeeded" /\ world' = world
      BY <2>1 DEF MarkJobSucceeded, Goto
    <3>2. Executed(d)
      BY <3>1 DEF Executed
    <3>3. d = e
      BY <1>0, <3>2, OtherIsIdle
    <3>4. /\ done[e] = FirstStage(request) .. NumStages
          /\ done[e] \cap Effectful \subseteq world
      BY <1>2, <3>1, <3>3 DEF Progress, AllDone, InPlace, Compensating
    <3>5. Owed \subseteq done[e] \cap Effectful
      BY <1>0, <3>4, FirstStageType, ConstantsAssumption DEF Owed, Stages, TypeInv, TypeOK
    <3> QED
      BY <3>1, <3>4, <3>5
  <2>2. CASE ~MarkJobSucceeded(d)
    <3>1. status = "succeeded"
      BY <2>2, OnlyMarkSucceeds
    <3>2. world' = world
      BY <1>0, <3>1, OutcomeStands DEF Terminal
    <3> QED
      BY <1>2, <3>1, <3>2 DEF ServesOwed
  <2> QED
    BY <2>1, <2>2
<1>6. LeavesNothing(e)'
  <2> SUFFICES ASSUME status' = "rolled_back", NEW s \in done'[e] \cap RollbackEnabled
               PROVE  Gone(e, s)' /\ (RowKept' => RollbackRow(s) \in events')
    BY DEF LeavesNothing
  <2>1. CASE MarkJobFailed(d)
    <3>1. /\ pc[d] = "mark_failed" /\ ~rbFailed[d]
          /\ UNCHANGED <<world, done, captured>>
      BY <2>1 DEF MarkJobFailed, Goto, RolledBack, ctxVars
    <3>2. Executed(d)
      BY <3>1 DEF Executed
    <3>3. d = e
      BY <1>0, <3>2, OtherIsIdle
    <3>4. s \in Passed(e)
      BY <1>2, <3>1, <3>3 DEF Compensated, Passed
    <3>5. Gone(e, s) /\ (RowKept => RollbackRow(s) \in events)
      BY <1>2, <3>1, <3>3, <3>4 DEF Compensated, Compensating
    <3> QED
      BY <1>3, <3>1, <3>5 DEF Gone
  <2>2. CASE ~MarkJobFailed(d)
    <3>1. status = "rolled_back"
      BY <2>2, OnlyMarkFails
    <3>2. world' = world /\ done'[e] = done[e] /\ captured'[e] = captured[e]
      BY <1>0, <3>1, OutcomeStands DEF Terminal
    <3> QED
      BY <1>2, <1>3, <3>1, <3>2 DEF LeavesNothing, Gone
  <2> QED
    BY <2>1, <2>2
<1> QED
  BY <1>4, <1>5, <1>6

LEMMA NextEffectsInv == EffectsInv /\ [Next]_vars => EffectsInv'
<1> SUFFICES ASSUME EffectsInv, [Next]_vars PROVE EffectsInv'
  OBVIOUS
<1>1. CompleteInv' /\ FinalInv'
  BY NextCompleteInv, NextFinalInv DEF EffectsInv
<1>2. CASE ApiNext \/ UNCHANGED vars
  <2>1. /\ UNCHANGED <<request, pc, done, captured, rbLeft, rbFailed, world>>
        /\ status' \in Terminal => status' = status
        /\ RowKept' => RowKept /\ events' = events
    BY <1>2 DEF ApiNext, CreateCompilation, InsertRow, AppendAuditEntry, Enqueue, CommitAudit,
                DeleteJob, ApiCrash, workerVars, rowVars, vars, Terminal, RowKept
  <2> QED
    BY <1>1, <2>1
       DEF EffectsInv, SoleExecution, Executed, InPlace, Compensated, Passed, Gone, IsNextToUndo,
           ServesOwed, Owed, LeavesNothing, Terminal
<1>3. ASSUME NEW d \in Deliveries, RunStep(d) \/ WorkerCrash(d) PROVE EffectsInv'
  BY <1>1, <1>3, RunEffects DEF EffectsInv
<1> QED
  BY <1>2, <1>3 DEF Next

LEMMA InitCompleteInv == Init => CompleteInv
<1> SUFFICES ASSUME Init PROVE CompleteInv
  OBVIOUS
<1>1. FirstStage(request) \in Stages
  BY FirstStageType, ConstantsAssumption DEF Init
<1>2. LoopProgress
  BY <1>1, ConstantsAssumption
     DEF Init, LoopProgress, Progress, Unstarted, InStage, StageDone, AllDone, Compensating, Stages
<1>3. SucceededComplete
  BY DEF Init, SucceededComplete
<1> QED
  BY <1>2, <1>3, InitTypeInv DEF CompleteInv

LEMMA InitFinalInv == Init => FinalInv
BY InitTypeInv DEF Init, FinalInv, Untouched, OutcomeWritten, Terminal

LEMMA InitEffectsInv == Init => EffectsInv
<1> SUFFICES ASSUME Init PROVE EffectsInv
  OBVIOUS
<1>1. ASSUME NEW d \in Deliveries
      PROVE  InPlace(d) /\ Compensated(d) /\ ServesOwed /\ LeavesNothing(d)
  BY DEF Init, InPlace, Compensated, ServesOwed, LeavesNothing, Compensating
<1> QED
  BY <1>1, InitCompleteInv, InitFinalInv DEF EffectsInv

-----------------------------------------------------------------------------
(* While the handler has not deleted it, the row of a sent message is there *)
(* and no execution inserts or removes it.                                  *)
LEMMA RowStays ==
  ASSUME ResumeInv, RowKept, NEW d \in Deliveries, RunStep(d) \/ WorkerCrash(d)
  PROVE  status # "absent" /\ status' # "absent"
<1>1. sent
  BY DEF ResumeInv, FinalInv, Untouched, RunStep, Goto, Step, StoreStep,
         Deliver, CreateJob, CheckStatus, AppendJobCreated, AppendJobStarted,
         MarkJobRunning, AppendStageStarted, RunStage, StageRaises, AppendStageRetrying,
         UpdateCheckpoint, AppendStageSucceeded, MarkJobSucceeded, AppendJobSucceeded,
         AppendStageFailed, AppendRollbackStarted, UndoStage, UndoRaises, AppendRollbackOutcome,
         MarkJobFailed, AppendJobFailed, JobVanished, WorkerCrash
<1>2. status # "absent"
  BY <1>1 DEF ResumeInv, FinalInv, Untouched
<1> QED
  BY <1>2 DEF RunStep, AppendEvent, rowVars, InsertRow, RolledBack,
         Deliver, CreateJob, CheckStatus, AppendJobCreated, AppendJobStarted,
         MarkJobRunning, AppendStageStarted, RunStage, StageRaises, AppendStageRetrying,
         UpdateCheckpoint, AppendStageSucceeded, MarkJobSucceeded, AppendJobSucceeded,
         AppendStageFailed, AppendRollbackStarted, UndoStage, UndoRaises, AppendRollbackOutcome,
         MarkJobFailed, AppendJobFailed, JobVanished, WorkerCrash

(* One step of an execution moves its boundary and its checkpoint together. *)
LEMMA OwnBoundary ==
  ASSUME TypeInv, NEW d \in Deliveries, RunStep(d) \/ WorkerCrash(d), status # "absent",
         Progress(d), CheckpointAt(d)
  PROVE  /\ pc'[d] \in Unstarted => checkpoint' = request.checkpoint
         /\ pc'[d] \in {"job_created", "job_started"} => Resolvable(request)
         /\ pc'[d] \in InStage \cup Compensating \cup {"checkpoint"} => Boundary(stage[d])'
         /\ pc'[d] \in {"remark", "stage_succeeded"} => checkpoint' = stage'[d]
<1> USE DEF TypeInv, TypeOK, Goto, Unstarted, InStage, StageDone, Compensating, Boundary, loopVars
<1>1. CASE Deliver(d) \/ CreateJob(d) \/ CheckStatus(d) \/ AppendJobCreated(d)
  <2>1. UNCHANGED <<checkpoint, request, stage>>
    BY <1>1 DEF Deliver, CreateJob, CheckStatus, AppendJobCreated, AppendEvent, rowVars
  <2> QED
    BY <1>1, <2>1 DEF CheckpointAt, Deliver, CreateJob, CheckStatus, AppendJobCreated
<1>2. CASE AppendJobStarted(d)
  <2>1. /\ pc[d] = "job_started" /\ pc'[d] = "mark_running"
        /\ UNCHANGED <<checkpoint, request, stage>>
    BY <1>2 DEF AppendJobStarted, AppendEvent, rowVars
  <2>2. /\ checkpoint = request.checkpoint /\ Resolvable(request)
        /\ stage[d] = FirstStage(request)
    BY <2>1 DEF CheckpointAt, Progress
  <2>3. Resolvable([from_stage |-> stage[d], checkpoint |-> checkpoint])
    BY <2>2 DEF FirstStage, Resolvable
  <2> QED
    BY <2>1, <2>3
<1>3. CASE \/ MarkJobRunning(d) \/ AppendStageStarted(d) \/ RunStage(d) \/ StageRaises(d)
           \/ AppendStageRetrying(d)
  <2>1. UNCHANGED <<checkpoint, stage>>
    BY <1>3 DEF MarkJobRunning, AppendStageStarted, RunStage, StageRaises, AppendStageRetrying,
                AppendEvent, rowVars
  <2>2. \/ pc[d] \in InStage /\ pc'[d] \in InStage \cup {"checkpoint"}
        \/ pc[d] = "remark" /\ pc'[d] = "stage_succeeded"
    BY <1>3 DEF MarkJobRunning, AppendStageStarted, RunStage, StageRaises, AppendStageRetrying
  <2> QED
    BY <2>1, <2>2 DEF CheckpointAt
<1>4. CASE UpdateCheckpoint(d)
  BY <1>4 DEF UpdateCheckpoint
<1>5. CASE AppendStageSucceeded(d)
  <2>1. /\ pc[d] = "stage_succeeded" /\ checkpoint' = checkpoint /\ checkpoint = stage[d]
    BY <1>5 DEF AppendStageSucceeded, AppendEvent, rowVars, CheckpointAt
  <2>2. CASE pc'[d] = "mark_running"
    <3>1. stage'[d] = stage[d] + 1 /\ stage[d] \in Int
      BY <1>5, <2>2, ConstantsAssumption DEF AppendStageSucceeded, Stages
    <3> QED
      BY <2>1, <2>2, <3>1 DEF Resolvable
  <2> QED
    BY <1>5, <2>2 DEF AppendStageSucceeded
<1>6. CASE MarkJobSucceeded(d) \/ AppendJobSucceeded(d) \/ JobVanished(d) \/ WorkerCrash(d)
  BY <1>6 DEF MarkJobSucceeded, AppendJobSucceeded, JobVanished, WorkerCrash
<1>7. CASE \/ AppendStageFailed(d) \/ AppendRollbackStarted(d) \/ UndoStage(d) \/ UndoRaises(d)
           \/ AppendRollbackOutcome(d) \/ MarkJobFailed(d) \/ AppendJobFailed(d)
  <2>1. UNCHANGED <<checkpoint, stage>>
    BY <1>7 DEF AppendStageFailed, AppendRollbackStarted, UndoStage, UndoRaises,
                AppendRollbackOutcome, MarkJobFailed, AppendJobFailed, AppendEvent, rowVars
  <2>2. pc[d] \in InStage \cup Compensating /\ pc'[d] \in Compensating \cup {"raised"}
    BY <1>7 DEF AppendStageFailed, AppendRollbackStarted, UndoStage, UndoRaises,
                AppendRollbackOutcome, MarkJobFailed, AppendJobFailed
  <2> QED
    BY <2>1, <2>2 DEF CheckpointAt
<1> QED
  BY <1>1, <1>2, <1>3, <1>4, <1>5, <1>6, <1>7 DEF RunStep

LEMMA RunResume ==
  ASSUME ResumeInv, NEW d \in Deliveries, RunStep(d) \/ WorkerCrash(d),
         NEW e \in Deliveries, SoleExecution(e)', RowKept'
  PROVE  CheckpointFollows(e)'
<1>0. TypeInv /\ FinalInv /\ RowKept /\ request' = request
  BY LogGrows, ExecutionKeepsRequest DEF ResumeInv, FinalInv, RowKept
<1>1. status # "absent" /\ SoleExecution(e) /\ CheckpointFollows(e) /\ Progress(e)
  BY <1>0, SoleStays, RowStays DEF ResumeInv, CompleteInv, LoopProgress
<1>2. CASE d = e
  <2>1. status' \in {"failed", "rolled_back"} => Boundary(current_stage)'
    <3> SUFFICES ASSUME status' \in {"failed", "rolled_back"} PROVE Boundary(current_stage)'
      OBVIOUS
    <3>1. CASE MarkJobFailed(d)
      <4>1. pc[d] = "mark_failed" /\ current_stage' = stage[d] /\ checkpoint' = checkpoint
        BY <3>1 DEF MarkJobFailed, Goto
      <4> QED
        BY <1>1, <1>2, <4>1 DEF CheckpointAt, CheckpointFollows, Boundary, Compensating
    <3>2. CASE ~MarkJobFailed(d)
      <4>1. status' = status
        BY <3>2, OnlyMarkFails
      <4>2. checkpoint' = checkpoint /\ current_stage' = current_stage
        BY <1>0, <4>1, OutcomeStands DEF Terminal
      <4> QED
        BY <1>1, <4>1, <4>2 DEF CheckpointAt, CheckpointFollows, Boundary
    <3> QED
      BY <3>1, <3>2
  <2> QED
    BY <1>0, <1>1, <1>2, <2>1, OwnBoundary DEF CheckpointAt, CheckpointFollows
<1>3. CASE d # e
  <2>1. pc'[e] = pc[e] /\ stage'[e] = stage[e]
    BY <1>0, <1>3, OthersUnchanged
  <2>2. ~Executed(d)
    BY <1>0, <1>3, OtherIsIdle
  <2>3. checkpoint' = checkpoint /\ current_stage' = current_stage
    BY <1>0, <1>1, <2>2, Movers DEF Executed
  <2>4. status' = status
    BY <1>0, <1>1, <1>3, SoleWriter
  <2> QED
    BY <1>0, <1>1, <2>1, <2>3, <2>4 DEF CheckpointAt, CheckpointFollows, Boundary
<1> QED
  BY <1>2, <1>3

LEMMA NextResumeInv == ResumeInv /\ [Next]_vars => ResumeInv'
<1> SUFFICES ASSUME ResumeInv, [Next]_vars PROVE ResumeInv'
  OBVIOUS
<1>1. CompleteInv' /\ FinalInv'
  BY NextCompleteInv, NextFinalInv DEF ResumeInv
<1>2. CASE CreateCompilation
  <2>1. /\ \A d \in Deliveries : pc'[d] = "queued"
        /\ checkpoint' = request'.checkpoint
        /\ status' = "pending"
    BY <1>2 DEF CreateCompilation, InsertRow, workerVars, ResumeInv, FinalInv, Untouched
  <2> QED
    BY <1>1, <2>1 DEF ResumeInv, CheckpointAt, CheckpointFollows, InStage, Compensating
<1>3. CASE UNCHANGED vars \/ (ApiNext /\ ~CreateCompilation)
  <2>1. /\ UNCHANGED <<request, pc, stage>>
        /\ RowKept' => RowKept /\ UNCHANGED rowVars
        /\ RowKept' /\ api' # "idle" => api # "idle"
    BY <1>3 DEF ApiNext, AppendAuditEntry, Enqueue, CommitAudit,
                DeleteJob, ApiCrash, workerVars, rowVars, vars, RowKept
  <2> QED
    BY <1>1, <2>1
       DEF ResumeInv, SoleExecution, Executed, CheckpointAt, CheckpointFollows, Boundary, rowVars
<1>4. ASSUME NEW d \in Deliveries, RunStep(d) \/ WorkerCrash(d) PROVE ResumeInv'
  <2>1. api' = api
    BY <1>4, LogGrows
  <2> QED
    BY <1>1, <1>4, <2>1, RunResume, RowStays DEF ResumeInv, RowKept
<1> QED
  BY <1>2, <1>3, <1>4 DEF Next

-----------------------------------------------------------------------------
(* What the control point of the only execution says about the status.      *)
Entering == {"queued", "create", "check", "job_created", "job_started"}
Working == (InStage \cup StageDone \cup Compensating \cup {"mark_succeeded"})
             \ {"mark_running", "job_failed"}

StatusAt(d) ==
  /\ pc[d] \in Entering => status \in {"pending", "absent"}
  /\ pc[d] = "mark_running" => status \in {"pending", "running", "absent"}
  /\ pc[d] \in Working => status \in {"running", "absent"}

LifeInv == EffectsInv /\ \A d \in Deliveries : StatusAt(d)

(* A step of an execution keeps StatusAt and is a step of JobLifecycle.     *)
LEMMA RunLifecycle ==
  ASSUME LifeInv, NEW d \in Deliveries, RunStep(d) \/ WorkerCrash(d),
         \A e \in Deliveries : e = d, retries' = retries
  PROVE  /\ StatusAt(d)'
         /\ Lifecycle!Next \/ UNCHANGED <<status, world, Owed, retries>>
<1> USE DEF Goto, Entering, Working, InStage, StageDone, Compensating
<1>0. /\ TypeInv /\ StatusAt(d) /\ pc \in [Deliveries -> PC] /\ d \in Deliveries
      /\ SoleExecution(d)'
      /\ request' = request /\ Owed' = Owed
  BY ExecutionKeepsRequest
     DEF LifeInv, EffectsInv, FinalInv, TypeInv, TypeOK, SoleExecution, Owed
<1>1. CASE CreateJob(d)
  <2>1. /\ pc'[d] = "check" /\ pc[d] = "create" /\ world' = world
        /\ IF status = "absent" THEN status' = "pending" ELSE status' = status
    BY <1>0, <1>1 DEF CreateJob, InsertRow, rowVars
  <2> QED
    BY <1>0, <2>1 DEF StatusAt, Lifecycle!Next, Lifecycle!Create
<1>2. CASE CheckStatus(d)
  <2>1. /\ pc[d] = "check" /\ UNCHANGED <<status, world>>
        /\ pc'[d] \in {"skipped", "job_created", "raised"}
    BY <1>0, <1>2 DEF CheckStatus, rowVars
  <2> QED
    BY <1>0, <2>1 DEF StatusAt
<1>3. CASE MarkJobRunning(d)
  <2>1. /\ pc[d] \in {"mark_running", "remark"} /\ pc'[d] \in {"stage_started", "stage_succeeded"}
        /\ status # "absent" /\ status' = "running" /\ world' = world
    BY <1>0, <1>3 DEF MarkJobRunning
  <2> QED
    BY <1>0, <2>1 DEF StatusAt, Lifecycle!Next, Lifecycle!Start
<1>4. CASE RunStage(d) \/ StageRaises(d) \/ UndoStage(d) \/ UndoRaises(d)
  <2>1. /\ pc[d] \in {"run", "undo"} /\ status' = status
        /\ pc'[d] \in {"checkpoint", "retrying", "stage_failed", "undone", "undo_failed"}
    BY <1>0, <1>4 DEF RunStage, StageRaises, UndoStage, UndoRaises, rowVars
  <2> QED
    BY <1>0, <2>1 DEF StatusAt, Lifecycle!Next, Lifecycle!Work
<1>5. CASE MarkJobSucceeded(d)
  <2>1. /\ pc[d] = "mark_succeeded" /\ pc'[d] = "job_succeeded"
        /\ status # "absent" /\ status' = "succeeded" /\ world' = world
    BY <1>0, <1>5 DEF MarkJobSucceeded
  <2>2. Owed \subseteq world
    BY <1>0, <2>1, RunEffects DEF LifeInv, ServesOwed
  <2> QED
    BY <1>0, <2>1, <2>2 DEF StatusAt, Lifecycle!Next, Lifecycle!Finish, Lifecycle!Outcome
<1>6. CASE MarkJobFailed(d)
  <2>1. /\ pc[d] = "mark_failed" /\ pc'[d] = "job_failed"
        /\ status # "absent" /\ status' \in {"failed", "rolled_back"} /\ world' = world
    BY <1>0, <1>6 DEF MarkJobFailed
  <2> QED
    BY <1>0, <2>1 DEF StatusAt, Lifecycle!Next, Lifecycle!Finish, Lifecycle!Outcome
<1>7. CASE \/ Deliver(d) \/ AppendJobCreated(d) \/ AppendJobStarted(d) \/ AppendStageStarted(d)
           \/ AppendStageRetrying(d) \/ UpdateCheckpoint(d) \/ AppendStageSucceeded(d)
           \/ AppendJobSucceeded(d) \/ AppendStageFailed(d) \/ AppendRollbackStarted(d)
           \/ AppendRollbackOutcome(d) \/ AppendJobFailed(d) \/ JobVanished(d) \/ WorkerCrash(d)
  <2>1. status' = status /\ world' = world
    BY <1>7 DEF Deliver, AppendJobCreated, AppendJobStarted, AppendStageStarted,
         AppendStageRetrying, UpdateCheckpoint, AppendStageSucceeded, AppendJobSucceeded,
         AppendStageFailed, AppendRollbackStarted, AppendRollbackOutcome, AppendJobFailed,
         JobVanished, WorkerCrash, AppendEvent, rowVars
  <2>2. \/ pc[d] \in Entering /\ pc'[d] \in Entering \cup {"mark_running"}
        \/ pc[d] \in Working /\ pc'[d] \in Working \cup {"mark_running"}
        \/ pc'[d] \in {"returned", "raised"}
    BY <1>0, <1>7 DEF Deliver, AppendJobCreated, AppendJobStarted, AppendStageStarted,
         AppendStageRetrying, UpdateCheckpoint, AppendStageSucceeded, AppendJobSucceeded,
         AppendStageFailed, AppendRollbackStarted, AppendRollbackOutcome, AppendJobFailed,
         JobVanished, WorkerCrash
  <2> QED
    BY <1>0, <2>1, <2>2 DEF StatusAt
<1> QED
  BY <1>1, <1>2, <1>3, <1>4, <1>5, <1>6, <1>7 DEF RunStep

LEMMA NextLifecycle ==
  ASSUME \A d, e \in Deliveries : d = e, LifeInv, [Next]_vars, retries' = retries
  PROVE  /\ LifeInv'
         /\ [Lifecycle!Next]_<<status, world, Owed, retries>>
<1>1. EffectsInv'
  BY NextEffectsInv DEF LifeInv
<1>2. CASE ApiNext \/ UNCHANGED vars
  <2>1. UNCHANGED <<request, pc, world>> /\ Owed' = Owed
    BY <1>2 DEF ApiNext, CreateCompilation, AppendAuditEntry, Enqueue, CommitAudit, DeleteJob,
                ApiCrash, workerVars, vars, Owed
  <2>2. \/ status' = status
        \/ status' = "absent"
        \/ status = "absent" /\ status' = "pending" /\ \A d \in Deliveries : pc[d] = "queued"
    BY <1>2 DEF ApiNext, CreateCompilation, InsertRow, AppendAuditEntry, Enqueue, CommitAudit,
                DeleteJob, ApiCrash, rowVars, vars, LifeInv, EffectsInv, FinalInv, Untouched
  <2> QED
    BY <1>1, <2>1, <2>2
       DEF LifeInv, StatusAt, Entering, Working, InStage, StageDone, Compensating,
           Lifecycle!Next, Lifecycle!Create, Lifecycle!Remove
<1>3. ASSUME NEW d \in Deliveries, RunStep(d) \/ WorkerCrash(d)
      PROVE  LifeInv' /\ [Lifecycle!Next]_<<status, world, Owed, retries>>
  BY <1>1, <1>3, RunLifecycle DEF LifeInv
<1> QED
  BY <1>2, <1>3 DEF Next

-----------------------------------------------------------------------------
(* A lineage of jobs.  Every checkpoint, the one a request carries and the  *)
(* stored one, stands for stages that some job of the lineage completed,    *)
(* and only a request that resolves runs any stage.                         *)
DoneByJob == UNION {done[d] : d \in Deliveries}

OnlyResolved(d) ==
  pc[d] \notin {"queued", "create", "check", "skipped", "raised"} \/ done[d] # {} =>
    Resolvable(request)

LineageInv ==
  /\ CompleteInv
  /\ \A d \in Deliveries : OnlyResolved(d)
  /\ 2 .. request.checkpoint \subseteq completed
  /\ 2 .. checkpoint \subseteq completed \cup DoneByJob
  /\ previous \subseteq Effectful

(* The stages that a delivery or its lineage has completed when delivery d  *)
(* has results up to stage n.                                               *)
LEMMA CoveredUpTo ==
  ASSUME LineageInv, NEW d \in Deliveries, NEW n \in Stages,
         FirstStage(request) <= n, FirstStage(request) .. n \subseteq done[d]
  PROVE  2 .. n \subseteq completed \cup DoneByJob
<1>1. FirstStage(request) \in Int /\ n \in Int /\ request \in Request
  BY FirstStageType, ConstantsAssumption
     DEF LineageInv, CompleteInv, TypeInv, TypeOK, Stages
<1>2. Resolvable(request)
  <2>1. n \in FirstStage(request) .. n
    BY <1>1
  <2> QED
    BY <2>1 DEF LineageInv, OnlyResolved
<1>3. ASSUME NEW s \in 2 .. n, s < FirstStage(request) PROVE s \in completed
  <2>1. request.from_stage > 2 /\ FirstStage(request) = request.from_stage
    BY <1>1, <1>3, ConstantsAssumption DEF FirstStage, Request
  <2>2. request.checkpoint = FirstStage(request) - 1
    BY <1>2, <2>1 DEF Resolvable
  <2>3. s \in 2 .. request.checkpoint
    BY <1>1, <1>3, <2>2
  <2> QED
    BY <2>3 DEF LineageInv
<1>4. ASSUME NEW s \in 2 .. n, s >= FirstStage(request) PROVE s \in DoneByJob
  <2>1. s \in done[d]
    BY <1>1, <1>4
  <2> QED
    BY <2>1 DEF DoneByJob
<1>5. ASSUME NEW s \in 2 .. n PROVE s < FirstStage(request) \/ s >= FirstStage(request)
  BY <1>1
<1> QED
  BY <1>3, <1>4, <1>5

(* Only the insertion of a row and update_checkpoint write a checkpoint.    *)
LEMMA CheckpointWritten ==
  ASSUME NEW d \in Deliveries, RunStep(d) \/ WorkerCrash(d)
  PROVE  checkpoint' \in {checkpoint, request.checkpoint} \/ UpdateCheckpoint(d)
BY DEF RunStep, AppendEvent, InsertRow, rowVars,
         Deliver, CreateJob, CheckStatus, AppendJobCreated, AppendJobStarted,
         MarkJobRunning, AppendStageStarted, RunStage, StageRaises, AppendStageRetrying,
         AppendStageSucceeded, MarkJobSucceeded, AppendJobSucceeded,
         AppendStageFailed, AppendRollbackStarted, UndoStage, UndoRaises, AppendRollbackOutcome,
         MarkJobFailed, AppendJobFailed, JobVanished, WorkerCrash

LEMMA OwnResolved ==
  ASSUME TypeInv, NEW d \in Deliveries, RunStep(d) \/ WorkerCrash(d), OnlyResolved(d)
  PROVE  OnlyResolved(d)'
<1>0. request' = request
  BY ExecutionKeepsRequest
<1>1. CASE RunStage(d)
  BY <1>0, <1>1 DEF RunStage, Goto, OnlyResolved
<1>2. CASE ~RunStage(d)
  <2>1. done' = done
    BY <1>2 DEF RunStep, AppendEvent, ctxVars,
         Deliver, CreateJob, CheckStatus, AppendJobCreated, AppendJobStarted,
         MarkJobRunning, AppendStageStarted, StageRaises, AppendStageRetrying,
         UpdateCheckpoint, AppendStageSucceeded, MarkJobSucceeded, AppendJobSucceeded,
         AppendStageFailed, AppendRollbackStarted, UndoStage, UndoRaises, AppendRollbackOutcome,
         MarkJobFailed, AppendJobFailed, JobVanished, WorkerCrash
  <2>2. \/ pc'[d] \in {"queued", "create", "check", "skipped", "raised"}
        \/ pc[d] \notin {"queued", "create", "check", "skipped", "raised"}
        \/ Resolvable(request)
    BY <1>2 DEF TypeInv, TypeOK, RunStep, Goto, StoreStep, Step,
         Deliver, CreateJob, CheckStatus, AppendJobCreated, AppendJobStarted,
         MarkJobRunning, AppendStageStarted, StageRaises, AppendStageRetrying,
         UpdateCheckpoint, AppendStageSucceeded, MarkJobSucceeded, AppendJobSucceeded,
         AppendStageFailed, AppendRollbackStarted, UndoStage, UndoRaises, AppendRollbackOutcome,
         MarkJobFailed, AppendJobFailed, JobVanished, WorkerCrash
  <2> QED
    BY <1>0, <2>1, <2>2 DEF OnlyResolved
<1> QED
  BY <1>1, <1>2

(* A step of the newest job keeps the lineage's account.                    *)
LEMMA JobKeepsLineage ==
  ASSUME LineageInv, [Next]_vars, UNCHANGED <<completed, previous>>
  PROVE  LineageInv'
<1>1. CompleteInv' /\ TypeInv
  BY NextCompleteInv DEF LineageInv, CompleteInv
<1>2. CASE ApiNext \/ UNCHANGED vars
  <2>1. /\ UNCHANGED <<request, pc, done>>
        /\ checkpoint' \in {checkpoint, request.checkpoint, 0}
    BY <1>2 DEF ApiNext, CreateCompilation, InsertRow, AppendAuditEntry, Enqueue, CommitAudit,
                DeleteJob, ApiCrash, workerVars, rowVars, vars
  <2> QED
    BY <1>1, <2>1 DEF LineageInv, OnlyResolved, DoneByJob
<1>3. ASSUME NEW d \in Deliveries, RunStep(d) \/ WorkerCrash(d) PROVE LineageInv'
  <2>1. request' = request
    BY <1>3, ExecutionKeepsRequest
  <2>2. \A e \in Deliveries : OnlyResolved(e)'
    BY <1>1, <1>3, <2>1, OwnResolved, OthersUnchanged DEF LineageInv, OnlyResolved
  <2>3. DoneByJob \subseteq DoneByJob'
    BY <1>1, <1>3, DoneGrows DEF DoneByJob
  <2>4. 2 .. checkpoint' \subseteq completed \cup DoneByJob
    <3>1. CASE UpdateCheckpoint(d)
      <4>1. pc[d] = "checkpoint" /\ checkpoint' = stage[d]
        BY <3>1 DEF UpdateCheckpoint, Goto
      <4>2. /\ FirstStage(request) <= stage[d] /\ stage[d] \in Stages
            /\ done[d] = FirstStage(request) .. stage[d]
        BY <4>1 DEF LineageInv, CompleteInv, LoopProgress, Progress, StageDone, TypeInv, TypeOK
      <4> QED
        BY <4>1, <4>2, CoveredUpTo
    <3> QED
      BY <1>3, <3>1, CheckpointWritten DEF LineageInv
  <2> QED
    BY <1>1, <2>1, <2>2, <2>3, <2>4 DEF LineageInv
<1> QED
  BY <1>2, <1>3 DEF Next

(* A retry starts a new job from the account of the old one.                *)
LEMMA RetryKeepsLineage ==
  ASSUME LineageInv, NEW from \in 0 .. NumStages, RetryCompilation(from)
  PROVE  LineageInv'
<1>1. request' \in Request
  BY DEF RetryCompilation, ReplayRequest, LineageInv, CompleteInv, TypeInv, TypeOK, Request
<1>2. FirstStage(request') \in Stages
  BY <1>1, FirstStageType
<1>3. TypeInv'
  <2>1. /\ 0 \in 0 .. NumStages
        /\ 1 \in 1 .. MaxAttempts
        /\ "queued" \in PC /\ "pending" \in Status /\ "created" \in ApiStep
    BY ConstantsAssumption DEF PC, Status, ApiStep
  <2>2. world' \subseteq Effectful
    BY DEF RetryCompilation, Kept, LineageInv, CompleteInv, TypeInv, TypeOK
  <2>3. checkpoint' \in 0 .. NumStages /\ crashes' \in 0 .. MaxCrashes
    BY DEF RetryCompilation, LineageInv, CompleteInv, TypeInv, TypeOK
  <2> QED
    BY <1>1, <1>2, <2>1, <2>2, <2>3
       DEF RetryCompilation, TypeInv, TypeOK, AttemptLeft
<1>4. LoopProgress'
  BY <1>2, ConstantsAssumption
     DEF RetryCompilation, LoopProgress, Progress, Unstarted, InStage, StageDone, AllDone,
         Compensating, Stages
<1>5. SucceededComplete'
  BY DEF RetryCompilation, SucceededComplete
<1>6. \A d \in Deliveries : OnlyResolved(d)'
  BY DEF RetryCompilation, OnlyResolved
<1>7. /\ 2 .. request'.checkpoint \subseteq completed'
      /\ 2 .. checkpoint' \subseteq completed'
  BY DEF RetryCompilation, ReplayRequest, LineageInv, DoneByJob
<1>8. previous' \subseteq Effectful
  BY DEF RetryCompilation, Kept, LineageInv, CompleteInv, TypeInv, TypeOK
<1> QED
  BY <1>3, <1>4, <1>5, <1>6, <1>7, <1>8 DEF LineageInv, CompleteInv

LEMMA InitLineageInv == LineageInit => LineageInv
<1> SUFFICES ASSUME LineageInit PROVE LineageInv
  OBVIOUS
<1>1. CompleteInv
  BY InitCompleteInv DEF LineageInit
<1>2. \A d \in Deliveries : OnlyResolved(d)
  BY DEF LineageInit, Init, OnlyResolved
<1> QED
  BY <1>1, <1>2 DEF LineageInit, Init, LineageInv

(* No stage is skipped by resuming, for every pipeline, any number of       *)
(* retries with any from_stage, and duplicate deliveries of every message:  *)
(* the boundary checks of the API and of the worker together suffice.       *)
THEOREM ResumingSkipsNothing == LineageSpec => []NoStageSkipped
<1>2. LineageInv /\ [LineageNext]_lineageVars => LineageInv'
  BY JobKeepsLineage, RetryKeepsLineage DEF LineageNext, JobStep, lineageVars
<1>3. LineageInv => NoStageSkipped
  <2> SUFFICES ASSUME LineageInv, status = "succeeded"
               PROVE  2 .. NumStages \subseteq completed \cup DoneByJob
    BY DEF NoStageSkipped, DoneByJob
  <2>1. PICK d \in Deliveries : FirstStage(request) .. NumStages \subseteq done[d]
    BY DEF LineageInv, CompleteInv, SucceededComplete
  <2>2. NumStages \in Stages /\ FirstStage(request) <= NumStages
    BY FirstStageType, ConstantsAssumption DEF LineageInv, CompleteInv, TypeInv, TypeOK, Stages
  <2> QED
    BY <2>1, <2>2, CoveredUpTo
<1> QED
  BY InitLineageInv, <1>2, <1>3, PTL DEF LineageSpec
-----------------------------------------------------------------------------
(* What holds of one job holds of every job of a lineage.  A retry starts   *)
(* its job as a fresh one.                                                  *)
LEMMA RetryKeepsJob ==
  ASSUME LineageInv, NEW from \in 0 .. NumStages, RetryCompilation(from)
  PROVE  EffectsInv' /\ ResumeInv' /\ \A d \in Deliveries : StatusAt(d)'
<1>1. CompleteInv'
  BY RetryKeepsLineage DEF LineageInv
<1>2. /\ status' = "pending" /\ api' = "created" /\ ~sent'
      /\ checkpoint' = request'.checkpoint
      /\ \A d \in Deliveries : pc'[d] = "queued" /\ rbLeft'[d] = {} /\ rbFailed'[d] = FALSE
      /\ \A d \in Deliveries : done'[d] = {}
  BY DEF RetryCompilation, ReplayRequest
<1>3. FinalInv'
  BY <1>1, <1>2 DEF CompleteInv, FinalInv, Untouched, OutcomeWritten, Terminal
<1>4. ASSUME NEW d \in Deliveries
      PROVE  (InPlace(d) /\ Compensated(d) /\ ServesOwed /\ LeavesNothing(d))'
  BY <1>2 DEF InPlace, Compensated, ServesOwed, LeavesNothing, Compensating
<1>5. ASSUME NEW d \in Deliveries PROVE CheckpointFollows(d)'
  BY <1>2 DEF CheckpointAt, CheckpointFollows, InStage, Compensating
<1>6. ASSUME NEW d \in Deliveries PROVE StatusAt(d)'
  BY <1>2 DEF StatusAt, Entering, Working, InStage, StageDone, Compensating
<1> QED
  BY <1>1, <1>2, <1>3, <1>4, <1>5, <1>6 DEF EffectsInv, ResumeInv

LEMMA InitResumeInv == Init => ResumeInv
<1> SUFFICES ASSUME Init PROVE ResumeInv
  OBVIOUS
<1>1. ASSUME NEW d \in Deliveries PROVE CheckpointFollows(d)
  BY DEF Init, CheckpointAt, CheckpointFollows, InStage, Compensating
<1> QED
  BY <1>1, InitCompleteInv, InitFinalInv DEF Init, ResumeInv

(* The account of one job along a lineage.                                  *)
JobInv == LineageInv /\ EffectsInv /\ ResumeInv

LEMMA LineageKeepsJob == JobInv /\ [LineageNext]_lineageVars => JobInv'
<1> SUFFICES ASSUME JobInv, [LineageNext]_lineageVars PROVE JobInv'
  OBVIOUS
<1>1. CASE JobStep \/ UNCHANGED lineageVars
  <2>1. [Next]_vars /\ UNCHANGED <<completed, previous>>
    BY <1>1 DEF JobStep, lineageVars
  <2> QED
    BY <2>1, JobKeepsLineage, NextEffectsInv, NextResumeInv DEF JobInv
<1>2. ASSUME NEW from \in 0 .. NumStages, RetryCompilation(from) PROVE JobInv'
  BY <1>2, RetryKeepsLineage, RetryKeepsJob DEF JobInv
<1> QED
  BY <1>1, <1>2 DEF LineageNext

LEMMA InitJobInv == LineageInit => JobInv
BY InitLineageInv, InitEffectsInv, InitResumeInv DEF LineageInit, JobInv

(* rolled_back is no empty word: every completed stage with a handler is    *)
(* undone, save what its capture says was there before, and each rollback   *)
(* has its row in the log; for a job of any request and for every job of a  *)
(* lineage of retries.                                                      *)
THEOREM RollbackUndoes == (Spec => []RolledBackUndone) /\ (LineageSpec => []RolledBackUndone)
<1>1. EffectsInv => RolledBackUndone
  <2> SUFFICES ASSUME EffectsInv, NEW d \in Deliveries, status = "rolled_back", SoleExecution(d)
               PROVE  /\ done[d] \cap Handled \cap world \subseteq captured[d]
                      /\ RowKept => \A s \in done[d] \cap RollbackEnabled : RollbackRow(s) \in events
    BY DEF RolledBackUndone, RollbackRow
  <2>1. LeavesNothing(d)
    BY DEF EffectsInv
  <2> QED
    BY <2>1, ConstantsAssumption DEF LeavesNothing, Gone
<1>2. Spec => []RolledBackUndone
  BY <1>1, InitEffectsInv, NextEffectsInv, PTL DEF Spec
<1>3. JobInv => EffectsInv
  BY DEF JobInv
<1>4. LineageSpec => []RolledBackUndone
  BY <1>1, <1>3, InitJobInv, LineageKeepsJob, PTL DEF LineageSpec
<1> QED
  BY <1>2, <1>4

(* A failed job can be resumed where it failed: under a single execution    *)
(* the stored checkpoint is the one both boundary checks ask for, for any   *)
(* pipeline, whichever stage failed and whatever was retried on the way,    *)
(* and for every job of a lineage of retries.                               *)
THEOREM FailureIsResumable == (Spec => []FailedResumable) /\ (LineageSpec => []FailedResumable)
<1>1. ResumeInv => FailedResumable
  BY DEF ResumeInv, CheckpointFollows, Boundary, FailedResumable
<1>2. Spec => []FailedResumable
  BY <1>1, InitResumeInv, NextResumeInv, PTL DEF Spec
<1>3. JobInv => ResumeInv
  BY DEF JobInv
<1>4. LineageSpec => []FailedResumable
  BY <1>1, <1>3, InitJobInv, LineageKeepsJob, PTL DEF LineageSpec
<1> QED
  BY <1>2, <1>4

(* The implementation theorem: as long as the broker delivers each message  *)
(* once, the row, the effects and what is owed behave as JobLifecycle says, *)
(* for every pipeline, every pattern of failures and any number of retries. *)
THEOREM ImplementsLifecycle ==
  ASSUME \A d, e \in Deliveries : d = e
  PROVE  LineageSpec => FollowsLifecycle
<1> DEFINE Inv == JobInv /\ LifeInv
<1>1. LineageInit => Inv
  <2> SUFFICES ASSUME LineageInit PROVE Inv
    OBVIOUS
  <2>1. LifeInv
    BY InitEffectsInv
       DEF LineageInit, Init, LifeInv, StatusAt, Entering, Working, InStage, StageDone, Compensating
  <2> QED
    BY <2>1, InitJobInv
<1>2. LineageInit => Lifecycle!Init
  <2> SUFFICES ASSUME LineageInit PROVE Lifecycle!Init
    OBVIOUS
  <2>1. FirstStage(request) \in Int
    BY FirstStageType, ConstantsAssumption DEF LineageInit, Init, Stages
  <2>2. \A s \in world : s \in Int /\ s < FirstStage(request)
    BY ConstantsAssumption DEF LineageInit, Init, Stages
  <2>3. \A s \in Owed : s >= FirstStage(request)
    BY DEF Owed
  <2>4. world \cap Owed = {}
    BY <2>1, <2>2, <2>3
  <2> QED
    BY <2>4 DEF LineageInit, Init, Lifecycle!Init
<1>3. Inv /\ [LineageNext]_lineageVars =>
        Inv' /\ [Lifecycle!Next]_<<status, world, Owed, retries>>
  <2> SUFFICES ASSUME Inv, [LineageNext]_lineageVars
               PROVE  Inv' /\ [Lifecycle!Next]_<<status, world, Owed, retries>>
    OBVIOUS
  <2>1. JobInv'
    BY LineageKeepsJob
  <2>2. CASE JobStep \/ UNCHANGED lineageVars
    <3>1. [Next]_vars /\ retries' = retries
      BY <2>2 DEF JobStep, lineageVars
    <3> QED
      BY <2>1, <3>1, NextLifecycle
  <2>3. ASSUME NEW from \in 0 .. NumStages, RetryCompilation(from)
        PROVE  LifeInv' /\ Lifecycle!Next
    <3>1. LifeInv'
      BY <2>3, RetryKeepsJob DEF JobInv, LifeInv
    <3>2. status # "absent" /\ status' = "pending" /\ retries' = retries + 1
      BY <2>3 DEF RetryCompilation
    <3> QED
      BY <3>1, <3>2 DEF Lifecycle!Next, Lifecycle!Retry
  <2> QED
    BY <2>1, <2>2, <2>3 DEF LineageNext
<1> QED
  BY <1>1, <1>2, <1>3, PTL DEF LineageSpec, FollowsLifecycle, Lifecycle!Spec
-----------------------------------------------------------------------------
(* What a resumed job can rely on.  The account of the effects up to stage  *)
(* n: in place for the checkpoint's version, or taken away by a rollback.   *)
Accounted(n) ==
  \A s \in Effectful : s <= n => s \in Kept \cup undone \cup RolledBackStages

(* The effects before the requested stage, for a request that resolves.     *)
FoundByJob ==
  Resolvable(request) =>
    \A s \in Effectful : s < FirstStage(request) => s \in world \cup undone

(* Before its execution starts, the row may have to be inserted again, with *)
(* the checkpoint the request carries.                                      *)
Insertable ==
  /\ api = "idle" => request.checkpoint = 0
  /\ \A d \in Deliveries : pc[d] \in {"queued", "create"} =>
       \A s \in Effectful : s <= request.checkpoint => s \in Kept \cup undone

(* A rollback is logged before it is carried out, of completed stages only. *)
RollbackLogged(d) ==
  /\ rbLeft[d] \subseteq done[d]
  /\ pc[d] = "undo" /\ status # "absent" =>
       \A s \in Stages : IsNextToUndo(d, s) => s \in RolledBackStages

AccountInv ==
  /\ JobInv
  /\ switched \in BOOLEAN
  /\ FoundByJob
  /\ Insertable
  /\ Accounted(checkpoint)
  /\ status = "absent" => checkpoint = 0
  /\ \A d \in Deliveries : RollbackLogged(d)
  /\ \A d \in Deliveries : status # "absent" => CheckpointAt(d)

(* The effects a step of an execution can take away.                        *)
LEMMA EffectsLost ==
  ASSUME TypeInv, NEW d \in Deliveries, RunStep(d) \/ WorkerCrash(d),
         NEW s \in world, s \notin world'
  PROVE  \/ pc[d] = "run" /\ s = stage[d]
         \/ pc[d] = "undo" /\ s \in Stages /\ IsNextToUndo(d, s)
<1>1. RunStage(d) \/ StageRaises(d) \/ UndoStage(d) \/ UndoRaises(d)
  BY DEF RunStep, AppendEvent,
         Deliver, CreateJob, CheckStatus, AppendJobCreated, AppendJobStarted,
         MarkJobRunning, AppendStageStarted, AppendStageRetrying,
         UpdateCheckpoint, AppendStageSucceeded, MarkJobSucceeded, AppendJobSucceeded,
         AppendStageFailed, AppendRollbackStarted, AppendRollbackOutcome,
         MarkJobFailed, AppendJobFailed, JobVanished, WorkerCrash
<1>2. CASE RunStage(d) \/ StageRaises(d)
  BY <1>2 DEF RunStage, StageRaises, LeftBehind, Goto
<1>3. CASE UndoStage(d)
  BY <1>3 DEF UndoStage, Goto
<1>4. CASE UndoRaises(d)
  BY <1>4, ConstantsAssumption DEF UndoRaises, Goto
<1> QED
  BY <1>1, <1>2, <1>3, <1>4

(* What a step of an execution does to the row's presence, to the rollback  *)
(* state and at the checkpoint.                                             *)
LEMMA StepFacts ==
  ASSUME TypeInv, NEW d \in Deliveries, RunStep(d) \/ WorkerCrash(d)
  PROVE  /\ status = "absent" /\ status' # "absent" => CreateJob(d)
         /\ status' = "absent" => status = "absent"
         /\ status = "absent" /\ status' = "absent" => checkpoint' = checkpoint
         /\ pc'[d] = "undo" => AppendRollbackStarted(d)
         /\ pc'[d] \in {"queued", "create"} => Deliver(d)
         /\ pc[d] = "checkpoint" /\ pc'[d] = "remark" <=> UpdateCheckpoint(d)
<1> USE DEF TypeInv, TypeOK, RunStep, AppendEvent, Goto, rowVars, InsertRow, RolledBack, StoreStep,
         Deliver, CheckStatus, AppendJobCreated, AppendJobStarted,
         MarkJobRunning, AppendStageStarted, RunStage, StageRaises, AppendStageRetrying,
         AppendStageSucceeded, MarkJobSucceeded, AppendJobSucceeded,
         AppendStageFailed, UndoStage, UndoRaises, AppendRollbackOutcome,
         MarkJobFailed, AppendJobFailed, JobVanished, WorkerCrash
<1>1. /\ status = "absent" /\ status' # "absent" => CreateJob(d)
      /\ status' = "absent" => status = "absent"
      /\ status = "absent" /\ status' = "absent" => checkpoint' = checkpoint
  BY DEF CreateJob, UpdateCheckpoint, AppendRollbackStarted
<1>2. pc'[d] = "undo" => AppendRollbackStarted(d)
  BY DEF CreateJob, UpdateCheckpoint
<1>3. pc'[d] \in {"queued", "create"} => Deliver(d)
  BY DEF CreateJob, UpdateCheckpoint, AppendRollbackStarted
<1>4. pc[d] = "checkpoint" /\ pc'[d] = "remark" => UpdateCheckpoint(d)
  BY DEF CreateJob, AppendRollbackStarted
<1>5. UpdateCheckpoint(d) => pc[d] = "checkpoint" /\ pc'[d] = "remark"
  BY DEF UpdateCheckpoint
<1> QED
  BY <1>1, <1>2, <1>3, <1>4, <1>5

(* The rollback state only holds completed stages.                          *)
LEMMA RollbackOfDone ==
  ASSUME TypeInv, NEW d \in Deliveries, RunStep(d) \/ WorkerCrash(d), rbLeft[d] \subseteq done[d]
  PROVE  rbLeft'[d] \subseteq done'[d]
<1>1. done[d] \subseteq done'[d]
  BY DoneGrows
<1>2. rbLeft'[d] \subseteq rbLeft[d] \cup done[d]
  BY DEF TypeInv, TypeOK, RunStep, AppendEvent, rbVars,
         Deliver, CreateJob, CheckStatus, AppendJobCreated, AppendJobStarted,
         MarkJobRunning, AppendStageStarted, RunStage, StageRaises, AppendStageRetrying,
         UpdateCheckpoint, AppendStageSucceeded, MarkJobSucceeded, AppendJobSucceeded,
         AppendStageFailed, AppendRollbackStarted, UndoStage, UndoRaises, AppendRollbackOutcome,
         MarkJobFailed, AppendJobFailed, JobVanished, WorkerCrash
<1> QED
  BY <1>1, <1>2

(* A step of the only execution keeps the account.                          *)
LEMMA RunKeepsAccount ==
  ASSUME AccountInv, NEW d \in Deliveries, RunStep(d) \/ WorkerCrash(d),
         \A e \in Deliveries : e = d, JobInv', JobStep
  PROVE  AccountInv'
<1>0. /\ TypeInv /\ request' = request /\ FirstStage(request) \in Int /\ stage[d] \in Int
      /\ request \in Request /\ NumStages \in Int
      /\ UNCHANGED <<previous, undone>> /\ SoleExecution(d)
  BY ExecutionKeepsRequest, FirstStageType, ConstantsAssumption
     DEF AccountInv, JobInv, EffectsInv, FinalInv, TypeInv, TypeOK, JobStep, SoleExecution, Stages
<1>1. \A s \in Effectful : s \in Int /\ s >= 1 /\ s \in Stages /\ s > 2
  BY ConstantsAssumption, LineageAssumption DEF Stages
<1>2. /\ UpdateCheckpoint(d) => switched' = FALSE
      /\ ~UpdateCheckpoint(d) => switched' = switched
      /\ switched' \in BOOLEAN
  <2>1. pc[d] = "checkpoint" /\ pc'[d] = "remark" <=> UpdateCheckpoint(d)
    BY <1>0, StepFacts
  <2>2. switched' = (switched /\ ~(pc[d] = "checkpoint" /\ pc'[d] = "remark"))
    BY DEF JobStep
  <2> QED
    BY <2>1, <2>2 DEF AccountInv
<1>3. FirstStage(request) <= stage[d] /\ Progress(d) /\ InPlace(d)
  BY <1>0 DEF AccountInv, JobInv, EffectsInv, CompleteInv, LoopProgress
<1>4. RolledBackStages \subseteq RolledBackStages'
  BY LogGrows DEF RolledBackStages
<1>5. FoundByJob'
  <2> SUFFICES ASSUME Resolvable(request), NEW s \in Effectful, s < FirstStage(request)
               PROVE  s \in world' \cup undone
    BY <1>0 DEF FoundByJob
  <2>1. s \in world \cup undone
    BY DEF AccountInv, FoundByJob
  <2>2. CASE s \in world /\ s \notin world'
    <3>1. s # stage[d]
      BY <1>0, <1>1, <1>3
    <3>2. pc[d] = "undo" /\ IsNextToUndo(d, s)
      BY <1>0, <2>2, <3>1, EffectsLost
    <3>3. s \in done[d] /\ done[d] = FirstStage(request) .. stage[d] - 1
      BY <1>3, <3>2 DEF AccountInv, RollbackLogged, IsNextToUndo, Progress, Compensating
    <3> QED
      BY <1>0, <1>1, <3>3
  <2> QED
    BY <2>1, <2>2
<1>6. Insertable'
  <2>1. api' = api
    BY LogGrows
  <2>2. ASSUME pc'[d] \in {"queued", "create"}, NEW s \in Effectful, s <= request.checkpoint
        PROVE  s \in Kept' \cup undone
    <3>1. Deliver(d)
      BY <1>0, <2>2, StepFacts
    <3>2. pc[d] = "queued" /\ world' = world
      BY <3>1 DEF Deliver, Goto
    <3>3. switched' = switched
      BY <1>2, <3>2 DEF UpdateCheckpoint, Goto
    <3>4. s \in Kept \cup undone
      BY <2>2, <3>2 DEF AccountInv, Insertable
    <3> QED
      BY <1>0, <3>2, <3>3, <3>4 DEF Kept
  <2> QED
    BY <1>0, <2>1, <2>2 DEF AccountInv, Insertable
<1>7. Accounted(checkpoint)'
  <2> SUFFICES ASSUME NEW s \in Effectful, s <= checkpoint'
               PROVE  s \in Kept' \cup undone \cup RolledBackStages'
    BY <1>0 DEF Accounted
  <2>1. CASE UpdateCheckpoint(d)
    <3>1. /\ checkpoint' = stage[d] /\ world' = world /\ pc[d] = "checkpoint"
          /\ Kept' = world
      BY <1>2, <2>1 DEF UpdateCheckpoint, Goto, Kept
    <3>2. CASE s >= FirstStage(request)
      <4>1. s \in done[d]
        BY <1>0, <1>1, <1>3, <3>1, <3>2 DEF Progress, StageDone
      <4> QED
        BY <1>3, <3>1, <4>1 DEF InPlace, Compensating
    <3>3. CASE s < FirstStage(request)
      <4>1. Resolvable(request)
        BY <3>1 DEF AccountInv, JobInv, LineageInv, OnlyResolved
      <4> QED
        BY <3>1, <3>3, <4>1 DEF AccountInv, FoundByJob
    <3> QED
      BY <1>0, <1>1, <3>2, <3>3
  <2>2. CASE CreateJob(d) /\ status = "absent"
    <3>1. /\ pc[d] = "create" /\ checkpoint' = request.checkpoint /\ world' = world
          /\ switched' = switched
      BY <1>2, <2>2 DEF CreateJob, InsertRow, Goto, UpdateCheckpoint
    <3>2. s \in Kept \cup undone
      BY <3>1 DEF AccountInv, Insertable
    <3> QED
      BY <1>0, <3>1, <3>2 DEF Kept
  <2>3. CASE ~UpdateCheckpoint(d) /\ ~(CreateJob(d) /\ status = "absent")
    <3>1. switched' = switched
      BY <1>2, <2>3
    <3>2. checkpoint' = checkpoint
      <4>1. CASE status = "absent"
        BY <1>0, <2>3, <4>1, StepFacts
      <4>2. CASE status # "absent"
        BY <2>3, <4>2 DEF RunStep, AppendEvent, rowVars,
             Deliver, CreateJob, CheckStatus, AppendJobCreated, AppendJobStarted,
             MarkJobRunning, AppendStageStarted, RunStage, StageRaises, AppendStageRetrying,
             AppendStageSucceeded, MarkJobSucceeded, AppendJobSucceeded,
             AppendStageFailed, AppendRollbackStarted, UndoStage, UndoRaises,
             AppendRollbackOutcome, MarkJobFailed, AppendJobFailed, JobVanished, WorkerCrash
      <4> QED
        BY <4>1, <4>2
    <3>3. s \in Kept \cup undone \cup RolledBackStages
      BY <3>2 DEF AccountInv, Accounted
    <3>4. CASE s \in world /\ s \notin world'
      <4>1. status # "absent"
        BY <1>1, <3>2 DEF AccountInv
      <4>2. CASE pc[d] = "run" /\ s = stage[d]
        <5>1. Resolvable([from_stage |-> s, checkpoint |-> checkpoint])
          BY <4>1, <4>2 DEF AccountInv, CheckpointAt, Boundary, InStage
        <5>2. checkpoint = s - 1
          BY <1>1, <5>1 DEF Resolvable
        <5> QED
          BY <1>1, <3>2, <5>2
      <4>3. CASE pc[d] = "undo" /\ s \in Stages /\ IsNextToUndo(d, s)
        BY <1>4, <4>1, <4>3 DEF AccountInv, RollbackLogged
      <4> QED
        BY <1>0, <3>4, <4>2, <4>3, EffectsLost
    <3> QED
      BY <1>0, <1>4, <3>1, <3>3, <3>4 DEF Kept
  <2> QED
    BY <2>1, <2>2, <2>3
<1>8. status' = "absent" => checkpoint' = 0
  BY <1>0, StepFacts DEF AccountInv
<1>9. RollbackLogged(d)'
  <2>1. rbLeft'[d] \subseteq done'[d]
    BY <1>0, RollbackOfDone DEF AccountInv, RollbackLogged
  <2>2. ASSUME pc'[d] = "undo", NEW s \in Stages, IsNextToUndo(d, s)'
        PROVE  s \in RolledBackStages'
    <3>1. AppendRollbackStarted(d)
      BY <1>0, <2>2, StepFacts
    <3>2. PICK u \in Stages :
            /\ IsNextToUndo(d, u)
            /\ events' = events \cup {[type |-> "rollback.started", stage |-> u, attempt |-> 0]}
      BY <3>1 DEF AppendRollbackStarted, AppendEvent
    <3>3. rbLeft' = rbLeft
      BY <3>1 DEF AppendRollbackStarted, rbVars
    <3>4. s = u
      <4>1. s \in rbLeft[d] /\ u \in rbLeft[d] /\ s <= u /\ u <= s
        BY <2>2, <3>2, <3>3 DEF IsNextToUndo
      <4> QED
        BY <4>1 DEF Stages
    <3>5. PICK e : e = [type |-> "rollback.started", stage |-> u, attempt |-> 0]
      OBVIOUS
    <3>6. e \in events' /\ e.type = "rollback.started" /\ e.stage = s
      BY <3>2, <3>4, <3>5
    <3> QED
      BY <3>6 DEF RolledBackStages
  <2> QED
    BY <2>1, <2>2 DEF RollbackLogged
<1>10. status' # "absent" => CheckpointAt(d)'
  <2> SUFFICES ASSUME status' # "absent" PROVE CheckpointAt(d)'
    OBVIOUS
  <2>1. CASE status # "absent"
    BY <1>0, <1>3, <2>1, OwnBoundary DEF AccountInv, CheckpointAt
  <2>2. CASE status = "absent"
    <3>1. CreateJob(d)
      BY <1>0, <2>2, StepFacts
    <3>2. pc'[d] = "check" /\ checkpoint' = request'.checkpoint
      BY <1>0, <2>2, <3>1 DEF CreateJob, InsertRow, Goto, TypeInv, TypeOK
    <3> QED
      BY <3>2 DEF CheckpointAt, InStage, Compensating
  <2> QED
    BY <2>1, <2>2
<1> QED
  BY <1>2, <1>5, <1>6, <1>7, <1>8, <1>9, <1>10 DEF AccountInv

(* The handler's steps keep the account: it inserts the row of a first job  *)
(* only, and with a deleted row goes the checkpoint.                        *)
LEMMA ApiKeepsAccount ==
  ASSUME AccountInv, ApiNext \/ UNCHANGED vars, JobInv',
         UNCHANGED <<switched, previous, undone>>
  PROVE  AccountInv'
<1>1. /\ UNCHANGED <<request, world, pc, stage, done, rbLeft>>
      /\ api' = "idle" => api = "idle"
  BY DEF ApiNext, CreateCompilation, AppendAuditEntry, Enqueue, CommitAudit, DeleteJob, ApiCrash,
         workerVars, vars
<1>2. FoundByJob' /\ Insertable'
  BY <1>1 DEF AccountInv, FoundByJob, Insertable, Kept
<1>3. \A s \in Effectful : s \in Int /\ ~(s <= 0)
  BY ConstantsAssumption DEF Stages
<1>4. CASE CreateCompilation
  <2>1. /\ api = "idle" /\ checkpoint' = request'.checkpoint /\ status' = "pending"
        /\ \A d \in Deliveries : pc'[d] = "queued"
    BY <1>1, <1>4
       DEF CreateCompilation, InsertRow, AccountInv, JobInv, EffectsInv, FinalInv, Untouched
  <2>2. checkpoint' = 0
    BY <1>1, <2>1 DEF AccountInv, Insertable
  <2>3. Accounted(checkpoint)'
    BY <1>3, <2>2 DEF Accounted
  <2>4. ASSUME NEW d \in Deliveries PROVE RollbackLogged(d)' /\ CheckpointAt(d)'
    BY <1>1, <2>1 DEF AccountInv, RollbackLogged, CheckpointAt, InStage, Compensating
  <2> QED
    BY <1>2, <2>1, <2>3, <2>4 DEF AccountInv
<1>5. CASE DeleteJob
  <2>1. checkpoint' = 0 /\ status' = "absent"
    BY <1>5 DEF DeleteJob
  <2>2. Accounted(checkpoint)'
    BY <1>3, <2>1 DEF Accounted
  <2>3. ASSUME NEW d \in Deliveries PROVE RollbackLogged(d)'
    BY <1>1, <2>1 DEF AccountInv, RollbackLogged
  <2> QED
    BY <1>2, <2>1, <2>2, <2>3 DEF AccountInv
<1>6. CASE ~CreateCompilation /\ ~DeleteJob
  <2>1. UNCHANGED <<status, checkpoint, events>>
    BY <1>6 DEF ApiNext, AppendAuditEntry, Enqueue, CommitAudit, ApiCrash, rowVars, vars
  <2>2. Accounted(checkpoint)'
    BY <1>1, <2>1 DEF AccountInv, Accounted, Kept, RolledBackStages
  <2>3. ASSUME NEW d \in Deliveries PROVE RollbackLogged(d)'
    BY <1>1, <2>1 DEF AccountInv, RollbackLogged, RolledBackStages, IsNextToUndo
  <2>4. ASSUME NEW d \in Deliveries, status' # "absent" PROVE CheckpointAt(d)'
    BY <1>1, <2>1, <2>4 DEF AccountInv, CheckpointAt, Boundary
  <2> QED
    BY <1>2, <2>1, <2>2, <2>3, <2>4 DEF AccountInv
<1> QED
  BY <1>4, <1>5, <1>6

(* A retry hands the account over: what the ended job rolled back is either *)
(* in place all the same, or marked as undone.                              *)
LEMMA RetryKeepsAccount ==
  ASSUME AccountInv, NEW from \in 0 .. NumStages, RetryCompilation(from), JobInv'
  PROVE  AccountInv'
<1>1. /\ status' = "pending" /\ api' = "created" /\ events' = {}
      /\ checkpoint' = checkpoint /\ request'.checkpoint = checkpoint
      /\ \A d \in Deliveries : pc'[d] = "queued" /\ rbLeft'[d] = {}
  BY DEF RetryCompilation, ReplayRequest
<1>2. Kept' = Kept
  BY DEF RetryCompilation, Kept
<1>3. undone' = (undone \cup RolledBackStages) \ Kept
  BY DEF RetryCompilation
<1>4. \A s \in Effectful : s <= checkpoint => s \in Kept' \cup undone'
  BY <1>2, <1>3 DEF AccountInv, Accounted
<1>5. Insertable' /\ Accounted(checkpoint)'
  BY <1>1, <1>4 DEF Insertable, Accounted
<1>6. FoundByJob'
  <2> SUFFICES ASSUME Resolvable(request'), NEW s \in Effectful, s < FirstStage(request')
               PROVE  s \in world' \cup undone'
    BY DEF FoundByJob
  <2>1. /\ request' \in Request /\ FirstStage(request') \in Int
        /\ s \in Int /\ s > 2
    BY FirstStageType, ConstantsAssumption, LineageAssumption
       DEF JobInv, EffectsInv, FinalInv, TypeInv, TypeOK, Stages
  <2>2. FirstStage(request') > 2 /\ request'.from_stage = FirstStage(request')
    BY <2>1 DEF FirstStage, Request
  <2>3. s <= checkpoint
    BY <1>1, <2>1, <2>2 DEF Resolvable
  <2>4. ~switched'
    <3>1. ~NewVersion(request')
      BY <2>1, <2>2 DEF NewVersion
    <3> QED
      BY <3>1 DEF RetryCompilation
  <2> QED
    BY <1>4, <2>3, <2>4 DEF Kept
<1>7. ASSUME NEW d \in Deliveries PROVE RollbackLogged(d)' /\ CheckpointAt(d)'
  BY <1>1 DEF RollbackLogged, CheckpointAt, InStage, Compensating
<1>8. switched' \in BOOLEAN
  BY DEF RetryCompilation, NewVersion
<1> QED
  BY <1>1, <1>5, <1>6, <1>7, <1>8 DEF AccountInv

(* What a succeeded job promises is there.  As long as the broker delivers  *)
(* each message once, the deployment, the routes and the registry entry of  *)
(* a succeeded job exist, wherever it was resumed, except for an effect     *)
(* that the rollback of an earlier job of its lineage took away before the  *)
(* stage it was resumed at; for any pipeline, any number of retries and any *)
(* pattern of failed attempts, crashes and deletions of the row.            *)
THEOREM SuccessServes ==
  ASSUME \A d, e \in Deliveries : d = e
  PROVE  LineageSpec => []SucceededServes
<1>1. LineageInit => AccountInv
  <2> SUFFICES ASSUME LineageInit PROVE AccountInv
    OBVIOUS
  <2>1. \A s \in Effectful : s \in Int /\ ~(s <= 0) /\ ~(s < 1)
    BY ConstantsAssumption DEF Stages
  <2>2. /\ request.checkpoint = 0 /\ FirstStage(request) = 1 /\ checkpoint = 0
        /\ status = "absent"
        /\ \A d \in Deliveries : pc[d] = "queued" /\ rbLeft[d] = {}
    BY DEF LineageInit, Init, FirstStage
  <2> QED
    BY <2>1, <2>2, InitJobInv
       DEF LineageInit, AccountInv, FoundByJob, Insertable, Accounted, RollbackLogged
<1>2. AccountInv /\ [LineageNext]_lineageVars => AccountInv'
  <2> SUFFICES ASSUME AccountInv, [LineageNext]_lineageVars PROVE AccountInv'
    OBVIOUS
  <2>1. JobInv'
    BY LineageKeepsJob DEF AccountInv
  <2>2. CASE JobStep /\ \E d \in Deliveries : RunStep(d) \/ WorkerCrash(d)
    BY <2>1, <2>2, RunKeepsAccount
  <2>3. CASE JobStep /\ ApiNext
    <3>1. pc' = pc
      BY <2>3 DEF ApiNext, CreateCompilation, AppendAuditEntry, Enqueue, CommitAudit, DeleteJob,
                  ApiCrash, workerVars
    <3>2. UNCHANGED <<previous, undone>> /\ switched' = switched
      BY <2>3, <3>1 DEF JobStep, AccountInv
    <3> QED
      BY <2>1, <2>3, <3>2, ApiKeepsAccount
  <2>4. CASE UNCHANGED lineageVars
    BY <2>1, <2>4, ApiKeepsAccount DEF lineageVars
  <2>5. ASSUME NEW from \in 0 .. NumStages, RetryCompilation(from) PROVE AccountInv'
    BY <2>1, <2>5, RetryKeepsAccount
  <2> QED
    BY <2>2, <2>3, <2>4, <2>5 DEF LineageNext, JobStep, Next
<1>3. AccountInv => SucceededServes
  <2> SUFFICES ASSUME AccountInv, status = "succeeded",
                      NEW s \in Effectful, s >= FirstStage(request) \/ s \notin undone
               PROVE  s \in world
    BY DEF SucceededServes
  <2>1. PICK d \in Deliveries : FirstStage(request) .. NumStages \subseteq done[d]
    BY DEF AccountInv, JobInv, EffectsInv, CompleteInv, SucceededComplete
  <2>2. FirstStage(request) \in Stages /\ s \in Int /\ NumStages \in Int
    BY FirstStageType, ConstantsAssumption
       DEF AccountInv, JobInv, EffectsInv, CompleteInv, TypeInv, TypeOK, Stages
  <2>3. CASE s >= FirstStage(request)
    <3>1. SoleExecution(d)
      BY DEF SoleExecution
    <3>2. Owed \subseteq world
      BY <3>1 DEF AccountInv, JobInv, EffectsInv, ServesOwed
    <3> QED
      BY <2>3, <3>2 DEF Owed
  <2>4. CASE s < FirstStage(request)
    <3>1. s \notin undone
      BY <2>2, <2>4 DEF Stages
    <3>2. NumStages \in done[d]
      BY <2>1, <2>2 DEF Stages
    <3>3. Resolvable(request)
      BY <3>2 DEF AccountInv, JobInv, LineageInv, OnlyResolved
    <3> QED
      BY <2>4, <3>1, <3>3 DEF AccountInv, FoundByJob
  <2> QED
    BY <2>2, <2>3, <2>4 DEF Stages
<1> QED
  BY <1>1, <1>2, <1>3, PTL DEF LineageSpec
-----------------------------------------------------------------------------
(* The event table: max + 1 under a unique constraint numbers the rows      *)
(* without gap or repetition, and therefore a cursor loses no row.          *)

(* Every number up to n is taken by a committed row.                        *)
Filled(n) == \A k \in 1 .. n : \E q \in rows : q.seq = k

(* A number that a writer holds extends the committed ones without a gap.   *)
HeldExtends ==
  \A w \in Writers :
    wpc[w] \in {"flush", "commit"} => sequence_number[w] >= 1 /\ Filled(sequence_number[w] - 1)

(* A number whose insert was flushed is neither committed nor held twice.   *)
FlushedFree ==
  \A w \in Writers : wpc[w] = "commit" =>
    /\ \A r \in rows : r.seq # sequence_number[w]
    /\ \A v \in Writers \ {w} : wpc[v] = "commit" => sequence_number[v] # sequence_number[w]

RowsTyped ==
  /\ rows \subseteq Row
  /\ sequence_number \in [Writers -> Nat]
  /\ wpc \in [Writers -> {"next", "read", "flush", "commit", "returned", "raised"}]

NumberInv == RowsTyped /\ HeldExtends /\ FlushedFree /\ SequenceGapless

(* What the stream knows: its cursor is the number of a committed row, and  *)
(* its batch has every row between the cursor and the batch's own rows.     *)
CursorFilled ==
  /\ last_sequence \in Nat
  /\ last_sequence = 0 \/ \E r \in rows : r.seq = last_sequence

BatchContiguous ==
  /\ batch \subseteq rows
  /\ spc = "get_job" =>
       /\ closedBy = "none"
       /\ \A r \in batch : r.seq > last_sequence
       /\ \A r \in batch, q \in rows : q.seq > last_sequence /\ q.seq <= r.seq => q \in batch
  /\ spc = "list_events" => closedBy = "none"

CursorInv == NumberInv /\ CursorFilled /\ BatchContiguous /\ NothingBehindCursor
-----------------------------------------------------------------------------
LEMMA InitNumberInv == StreamInit => NumberInv
BY DEF StreamInit, NumberInv, RowsTyped, HeldExtends, FlushedFree, SequenceGapless

(* Numbers that are filled stay filled: rows are never deleted.             *)
LEMMA FilledStays ==
  ASSUME rows \subseteq rows', NEW n, Filled(n)
  PROVE  \A k \in 1 .. n : \E q \in rows' : q.seq = k
BY DEF Filled

(* Allocation: the number read extends the committed rows.                  *)
LEMMA ReadMaxFilled ==
  ASSUME RowsTyped, SequenceGapless, NEW n \in Nat, IsNextSequence(n)
  PROVE  n >= 1 /\ Filled(n - 1)
<1>1. CASE n = 1
  BY <1>1 DEF Filled
<1>2. CASE n # 1
  <2>1. PICK r \in rows : r.seq = n - 1
    BY <1>2 DEF IsNextSequence
  <2>2. r.seq \in Nat
    BY DEF RowsTyped, Row
  <2> QED
    BY <1>2, <2>1, <2>2 DEF SequenceGapless, Filled
<1> QED
  BY <1>1, <1>2

(* The commit of a flushed row keeps the numbering gapless and unique.      *)
LEMMA CommitNumbers ==
  ASSUME NumberInv, NEW w \in Writers, Commit(w)
  PROVE  NumberInv'
<1>1. PICK new : /\ rows' = rows \cup {new}
                 /\ new \in Row /\ new.seq = sequence_number[w]
  <2>1. [seq |-> sequence_number[w], by |-> w, last |-> left[w] = 1] \in Row
    BY DEF NumberInv, RowsTyped, Row
  <2> QED
    BY <2>1 DEF Commit
<1>2. /\ wpc[w] = "commit" /\ UNCHANGED sequence_number
      /\ \A v \in Writers : wpc'[v] \in {"flush", "commit"} => wpc'[v] = wpc[v] /\ v # w
      /\ wpc' \in [Writers -> {"next", "read", "flush", "commit", "returned", "raised"}]
  BY DEF Commit, GotoW, NumberInv, RowsTyped
<1>3. RowsTyped'
  BY <1>1, <1>2 DEF NumberInv, RowsTyped
<1>4. sequence_number[w] >= 1 /\ Filled(sequence_number[w] - 1)
  BY <1>2 DEF NumberInv, HeldExtends
<1>5. HeldExtends'
  BY <1>1, <1>2, FilledStays DEF NumberInv, HeldExtends, Filled
<1>6. FlushedFree'
  BY <1>1, <1>2 DEF NumberInv, FlushedFree
<1>7. SequenceGapless'
  <2>1. ASSUME NEW q \in rows', NEW r \in rows', q.seq = r.seq PROVE q = r
    BY <1>1, <1>2, <2>1 DEF NumberInv, SequenceGapless, FlushedFree
  <2>2. ASSUME NEW r \in rows' PROVE r.seq >= 1 /\ \A k \in 1 .. r.seq : \E q \in rows' : q.seq = k
    <3>1. CASE r \in rows
      BY <1>1, <3>1 DEF NumberInv, SequenceGapless
    <3>2. CASE r = new
      <4>1. \A k \in 1 .. sequence_number[w] : k = sequence_number[w] \/ k \in 1 .. sequence_number[w] - 1
        BY DEF NumberInv, RowsTyped
      <4> QED
        BY <1>1, <1>4, <3>2, <4>1 DEF Filled
    <3> QED
      BY <1>1, <3>1, <3>2
  <2> QED
    BY <2>1, <2>2 DEF SequenceGapless
<1> QED
  BY <1>3, <1>5, <1>6, <1>7 DEF NumberInv

(* Allocating and flushing keep the numbering; a conflict drops the number. *)
LEMMA WriterNumbers ==
  ASSUME NumberInv, NEW w \in Writers, WriterStep(w) \/ AppendLost(w)
  PROVE  NumberInv'
<1>1. CASE BeginAppend(w) \/ FlushConflict(w) \/ AppendLost(w)
  <2>1. /\ UNCHANGED <<rows, sequence_number>>
        /\ wpc' \in [Writers -> {"next", "read", "flush", "commit", "returned", "raised"}]
        /\ \A v \in Writers : wpc'[v] \in {"flush", "commit"} => wpc'[v] = wpc[v]
    BY <1>1 DEF BeginAppend, FlushConflict, AppendLost, GotoW, NumberInv, RowsTyped
  <2> QED
    BY <2>1 DEF NumberInv, RowsTyped, HeldExtends, Filled, FlushedFree, SequenceGapless
<1>2. CASE ReadMax(w)
  <2>1. PICK n \in {1} \cup {r.seq + 1 : r \in rows} :
          IsNextSequence(n) /\ sequence_number' = [sequence_number EXCEPT ![w] = n]
    BY <1>2 DEF ReadMax
  <2>2. n \in Nat
    BY <2>1 DEF NumberInv, RowsTyped, Row
  <2>3. n >= 1 /\ Filled(n - 1)
    BY <2>1, <2>2, ReadMaxFilled DEF NumberInv
  <2>4. /\ rows' = rows
        /\ wpc' = [wpc EXCEPT ![w] = "flush"]
    BY <1>2 DEF ReadMax, GotoW
  <2>5. RowsTyped'
    BY <2>1, <2>2, <2>4 DEF NumberInv, RowsTyped
  <2>6. HeldExtends'
    BY <2>1, <2>3, <2>4 DEF NumberInv, RowsTyped, HeldExtends, Filled
  <2>7. FlushedFree'
    BY <2>1, <2>4 DEF NumberInv, RowsTyped, FlushedFree
  <2> QED
    BY <2>4, <2>5, <2>6, <2>7 DEF NumberInv, SequenceGapless
<1>3. CASE Flush(w)
  <2>1. /\ UNCHANGED <<rows, sequence_number>>
        /\ wpc[w] = "flush" /\ wpc' = [wpc EXCEPT ![w] = "commit"]
        /\ \A r \in rows : r.seq # sequence_number[w]
        /\ \A v \in Writers \ {w} : wpc[v] = "commit" => sequence_number[v] # sequence_number[w]
    BY <1>3 DEF Flush, GotoW, Blocked
  <2>2. RowsTyped' /\ SequenceGapless'
    BY <2>1 DEF NumberInv, RowsTyped, SequenceGapless
  <2>3. HeldExtends'
    BY <2>1 DEF NumberInv, RowsTyped, HeldExtends, Filled
  <2>4. FlushedFree'
    BY <2>1 DEF NumberInv, RowsTyped, FlushedFree
  <2> QED
    BY <2>2, <2>3, <2>4 DEF NumberInv
<1>4. CASE Commit(w)
  BY <1>4, CommitNumbers
<1> QED
  BY <1>1, <1>2, <1>3, <1>4 DEF WriterStep

LEMMA NextNumberInv == NumberInv /\ [StreamNext]_logVars => NumberInv'
<1> SUFFICES ASSUME NumberInv, [StreamNext]_logVars PROVE NumberInv'
  OBVIOUS
<1>1. CASE ListEvents \/ GetJob \/ SerializationError \/ UNCHANGED logVars
  <2>1. UNCHANGED <<rows, wpc, sequence_number>>
    BY <1>1 DEF ListEvents, GetJob, SerializationError, writerVars, logVars
  <2> QED
    BY <2>1 DEF NumberInv, RowsTyped, HeldExtends, Filled, FlushedFree, SequenceGapless
<1>2. ASSUME NEW w \in Writers, WriterStep(w) \/ AppendLost(w) PROVE NumberInv'
  BY <1>2, WriterNumbers
<1> QED
  BY <1>1, <1>2 DEF StreamNext

(* append_event allocates: the committed events of a job are numbered 1, 2, *)
(* ... without gap or repetition, for any number of concurrent executions,  *)
(* any max_retries, and any transactions lost before their commit.          *)
THEOREM NumberingIsGapless == StreamSpec => []SequenceGapless
<1>1. NumberInv => SequenceGapless
  BY DEF NumberInv
<1> QED
  BY <1>1, InitNumberInv, NextNumberInv, PTL DEF StreamSpec
-----------------------------------------------------------------------------
(* A committed row lands past the cursor and past everything in the batch:  *)
(* the numbers up to them are taken.                                        *)
LEMMA CommitCursor ==
  ASSUME CursorInv, NEW w \in Writers, Commit(w)
  PROVE  CursorFilled' /\ BatchContiguous' /\ NothingBehindCursor'
<1>1. PICK new : /\ rows' = rows \cup {new}
                 /\ new \in Row /\ new.seq = sequence_number[w]
  <2>1. [seq |-> sequence_number[w], by |-> w, last |-> left[w] = 1] \in Row
    BY DEF CursorInv, NumberInv, RowsTyped, Row
  <2> QED
    BY <2>1 DEF Commit
<1>2. UNCHANGED <<spc, last_sequence, batch, delivered, closedBy>>
  BY DEF Commit, streamVars
<1>3. \A r \in rows : r.seq # new.seq
  BY <1>1 DEF Commit, GotoW, CursorInv, NumberInv, FlushedFree
<1>4. new.seq \in Nat /\ new.seq >= 1
  BY <1>1 DEF Commit, GotoW, CursorInv, NumberInv, HeldExtends, Row
<1>5. \A r \in rows : r.seq < new.seq
  <2> SUFFICES ASSUME NEW r \in rows PROVE r.seq < new.seq
    OBVIOUS
  <2>1. r.seq \in Nat
    BY DEF CursorInv, NumberInv, RowsTyped, Row
  <2>2. new.seq \notin 1 .. r.seq
    BY <1>3 DEF CursorInv, NumberInv, SequenceGapless
  <2> QED
    BY <1>4, <2>1, <2>2
<1>6. new.seq > last_sequence
  BY <1>4, <1>5 DEF CursorInv, CursorFilled
<1>7. CursorFilled'
  BY <1>1, <1>2 DEF CursorInv, CursorFilled
<1>8. BatchContiguous'
  <2>1. \A r \in batch : r.seq < new.seq /\ r.seq \in Nat
    BY <1>5 DEF CursorInv, BatchContiguous, NumberInv, RowsTyped, Row
  <2>2. \A r \in batch : ~(new.seq <= r.seq)
    BY <1>4, <2>1
  <2> QED
    BY <1>1, <1>2, <2>2 DEF CursorInv, BatchContiguous
<1>9. NothingBehindCursor'
  <2>1. ~(new.seq <= last_sequence)
    BY <1>4, <1>6 DEF CursorInv, CursorFilled
  <2> QED
    BY <1>1, <1>2, <2>1 DEF CursorInv, NothingBehindCursor
<1> QED
  BY <1>7, <1>8, <1>9

(* Yielding a whole batch moves the cursor to the batch's last row.         *)
LEMMA GetJobCursor ==
  ASSUME CursorInv, GetJob
  PROVE  CursorFilled' /\ BatchContiguous' /\ NothingBehindCursor'
<1>1. /\ spc = "get_job" /\ closedBy = "none" /\ rows' = rows
      /\ delivered' = delivered \cup batch /\ batch' = {}
      /\ spc' # "get_job" /\ (spc' = "list_events" => closedBy' = "none")
  BY DEF GetJob, CursorInv, BatchContiguous, writerVars
<1>2. PICK n \in {last_sequence} \cup {r.seq : r \in batch} : NextCursor(n) /\ last_sequence' = n
  BY DEF GetJob
<1>3. batch \subseteq rows /\ \A r \in rows : r.seq \in Nat
  BY DEF CursorInv, BatchContiguous, NumberInv, RowsTyped, Row
<1>4. CursorFilled'
  BY <1>1, <1>2, <1>3 DEF CursorInv, CursorFilled
<1>5. BatchContiguous'
  BY <1>1 DEF BatchContiguous
<1>6. delivered = {r \in rows : r.seq <= last_sequence}
  BY <1>1 DEF CursorInv, NothingBehindCursor
<1>7. delivered' = {r \in rows : r.seq <= n}
  <2>1. CASE batch = {}
    BY <1>1, <1>2, <1>6, <2>1 DEF NextCursor
  <2>2. CASE batch # {}
    <3>1. PICK m \in batch : m.seq = n
      BY <1>2, <2>2 DEF NextCursor
    <3>2. \A r \in batch : r.seq <= n
      BY <1>2, <2>2 DEF NextCursor, Yielded
    <3>3. \A q \in rows : q.seq > last_sequence /\ q.seq <= n => q \in batch
      BY <1>1, <3>1 DEF CursorInv, BatchContiguous
    <3>4. m.seq > last_sequence /\ n \in Nat /\ last_sequence \in Nat
      BY <1>1, <1>3, <3>1 DEF CursorInv, BatchContiguous, CursorFilled
    <3>5. ASSUME NEW q \in rows PROVE q \in delivered \cup batch <=> q.seq <= n
      BY <1>3, <1>6, <3>2, <3>3, <3>4
    <3> QED
      BY <1>1, <1>3, <1>6, <3>5
  <2> QED
    BY <2>1, <2>2
<1> QED
  BY <1>1, <1>2, <1>4, <1>5, <1>7 DEF NothingBehindCursor

LEMMA NextCursorInv == CursorInv /\ [StreamNext]_logVars => CursorInv'
<1> SUFFICES ASSUME CursorInv, [StreamNext]_logVars PROVE CursorInv'
  OBVIOUS
<1>1. NumberInv'
  BY NextNumberInv DEF CursorInv
<1>2. ASSUME NEW w \in Writers, WriterStep(w) \/ AppendLost(w), ~Commit(w)
      PROVE  UNCHANGED <<rows, streamVars>>
  BY <1>2 DEF WriterStep, BeginAppend, ReadMax, Flush, FlushConflict, AppendLost
<1>3. CASE UNCHANGED <<rows, streamVars>>
  BY <1>1, <1>3 DEF streamVars, CursorInv, CursorFilled, BatchContiguous, NothingBehindCursor
<1>4. CASE UNCHANGED logVars
  BY <1>3, <1>4 DEF logVars, writerVars
<1>5. CASE ListEvents
  <2>1. /\ spc = "list_events" /\ spc' = "get_job"
        /\ batch' = {r \in rows : r.seq > last_sequence}
        /\ UNCHANGED <<rows, last_sequence, delivered, closedBy>>
    BY <1>5 DEF ListEvents, writerVars
  <2>2. CursorFilled' /\ NothingBehindCursor'
    BY <2>1 DEF CursorInv, CursorFilled, NothingBehindCursor
  <2>3. BatchContiguous'
    BY <2>1 DEF CursorInv, BatchContiguous
  <2> QED
    BY <1>1, <2>2, <2>3 DEF CursorInv
<1>6. CASE GetJob
  BY <1>1, <1>6, GetJobCursor DEF CursorInv
<1>7. CASE SerializationError
  <2>1. PICK r \in batch : last_sequence' = r.seq
    BY <1>7 DEF SerializationError
  <2>2. /\ rows' = rows /\ batch' = {} /\ spc' = "closed" /\ closedBy' = "error"
    BY <1>7 DEF SerializationError, writerVars
  <2>3. r \in rows /\ r.seq \in Nat
    BY DEF CursorInv, BatchContiguous, NumberInv, RowsTyped, Row
  <2> QED
    BY <1>1, <2>1, <2>2, <2>3 DEF CursorInv, CursorFilled, BatchContiguous, NothingBehindCursor
<1>8. ASSUME NEW w \in Writers, Commit(w) PROVE CursorInv'
  BY <1>1, <1>8, CommitCursor DEF CursorInv
<1> QED
  BY <1>2, <1>3, <1>4, <1>5, <1>6, <1>7, <1>8 DEF StreamNext

(* A client that follows the stream misses nothing: a row never becomes     *)
(* visible behind the cursor, because its number is only committed after    *)
(* all the smaller ones.                                                    *)
THEOREM CursorLosesNothing == StreamSpec => []NothingBehindCursor
<1>1. StreamInit => CursorInv
  BY InitNumberInv DEF StreamInit, CursorInv, CursorFilled, BatchContiguous, NothingBehindCursor
<1>2. CursorInv => NothingBehindCursor
  BY DEF CursorInv
<1> QED
  BY <1>1, <1>2, NextCursorInv, PTL DEF StreamSpec
==============================================================================
