--------------------------- MODULE CompileWorkflow ---------------------------
(***************************************************************************)
(* One compilation job of the service2mcp compiler: the API handler that   *)
(* creates and dispatches it (apps/compiler_api/routes/compilations.py),   *)
(* the Celery deliveries of its task, and the staged, retried and          *)
(* compensated pipeline that each delivery runs                            *)
(* (apps/compiler_worker/workflows/compile_workflow.py) against the job    *)
(* row and event table (apps/compiler_worker/repository.py).               *)
(*                                                                         *)
(* Every store call is a transaction of its own in the code, so it is an   *)
(* action of its own here.  Payloads, error texts and metrics are          *)
(* abstracted away; a stage is its position in the stage definitions.      *)
(***************************************************************************)
EXTENDS Integers, FiniteSets

CONSTANTS
  Deliveries,      \* executions of the job's Celery task: one, plus duplicates
  NumStages,       \* number of stage definitions of the workflow
  MaxAttempts,     \* retry_policy.max_attempts of every stage
  RollbackEnabled, \* stages defined with rollback_enabled=True
  Effectful,       \* stages that change the cluster, the gateway or the registry
  Handled,         \* stages with a rollback handler in the activity registry
  Restoring,       \* handled stages whose rollback restores a captured state
  Requires,        \* Requires[s]: effects a run of stage s probes for
  Once,            \* stages that raise when their effect is there (unique key)
  Requests,        \* the requests (from_stage, checkpoint) under study
  MaxCrashes       \* bound on crashes and store failures, of worker or API

Stages == 1 .. NumStages

(* options["from_stage"] and the checkpoint's completed_stage; 0 is "none". *)
Request == [from_stage : 0 .. NumStages, checkpoint : 0 .. NumStages]

ASSUME ConstantsAssumption ==
  /\ NumStages \in Nat \ {0}
  /\ MaxAttempts \in Nat \ {0}
  /\ MaxCrashes \in Nat
  /\ RollbackEnabled \subseteq Stages
  /\ Effectful \subseteq Stages
  /\ Handled \subseteq RollbackEnabled \cap Effectful
  /\ Restoring \subseteq Handled
  /\ Requires \in [Stages -> SUBSET Effectful]
  /\ Once \subseteq Effectful
  /\ Requests \subseteq Request

VARIABLES
  request,        \* the CompilationRequest carried by the task message
  api,            \* progress of the create_compilation handler
  sent,           \* has the task message reached the broker?
  status,         \* compilation_jobs.status, "absent" when there is no row
  current_stage,  \* compilation_jobs.current_stage, 0 when null
  checkpoint,     \* completed_stage of the stored resume checkpoint, 0 if none
  events,         \* compilation_events rows, without their sequence numbers
  world,          \* effectful stages whose effect exists outside the database
  pc,             \* pc[d]: next step of delivery d
  stage,          \* stage[d]: loop variable of the stage loop
  attempt,        \* attempt[d]: loop variable of the attempt loop
  done,           \* done[d]: keys of context.stage_results
  captured,       \* captured[d]: results whose captured state has the effect
  rbLeft,         \* rbLeft[d]: stages _rollback has still to undo
  rbFailed,       \* rbFailed[d]: is rollback_failures non-empty?
  crashes         \* crashes and store failures so far

apiVars == <<api, sent>>
rowVars == <<status, current_stage, checkpoint>>
ctxVars == <<done, captured>>
loopVars == <<stage, attempt>>
rbVars == <<rbLeft, rbFailed>>
vars == <<request, api, sent, status, current_stage, checkpoint, events, world,
          pc, stage, attempt, done, captured, rbLeft, rbFailed, crashes>>

Terminal == {"succeeded", "failed", "rolled_back"}
NonReentrant == Terminal \cup {"running"}
Status == NonReentrant \cup {"pending", "absent"}

EventType == {"job.created", "job.started", "job.succeeded", "job.failed",
              "job.rolled_back", "stage.started", "stage.succeeded",
              "stage.retrying", "stage.failed", "rollback.started",
              "rollback.succeeded", "rollback.failed"}
Event == [type : EventType, stage : 0 .. NumStages, attempt : 0 .. MaxAttempts]

ApiStep == {"idle", "created", "audited", "enqueued", "delete_500",
            "delete_503", "accepted", "error", "unavailable", "crashed"}
(* Steps that start with a store call on an existing row (_require_job).    *)
StoreStep == {"job_created", "job_started", "mark_running", "stage_started",
              "retrying", "checkpoint", "remark", "stage_succeeded",
              "stage_failed", "rollback", "undone", "undo_failed",
              "mark_failed", "job_failed", "mark_succeeded", "job_succeeded"}
Step == StoreStep \cup {"create", "check", "run", "undo"}
PC == Step \cup {"queued", "skipped", "returned", "raised"}

TypeOK ==
  /\ request \in Request
  /\ api \in ApiStep
  /\ sent \in BOOLEAN
  /\ status \in Status
  /\ current_stage \in 0 .. NumStages
  /\ checkpoint \in 0 .. NumStages
  /\ events \subseteq Event
  /\ world \subseteq Effectful
  /\ pc \in [Deliveries -> PC]
  /\ stage \in [Deliveries -> Stages]
  /\ attempt \in [Deliveries -> 1 .. MaxAttempts]
  /\ done \in [Deliveries -> SUBSET Stages]
  /\ captured \in [Deliveries -> SUBSET Restoring]
  /\ rbLeft \in [Deliveries -> SUBSET RollbackEnabled]
  /\ rbFailed \in [Deliveries -> BOOLEAN]
  /\ crashes \in 0 .. MaxCrashes
-----------------------------------------------------------------------------
(* _resolve_stage_definitions: the first stage a request runs, and whether  *)
(* the request resolves at all or raises before any event is written.       *)
FirstStage(r) == IF r.from_stage = 0 THEN 1 ELSE r.from_stage

(* Mutant: any checkpoint will do for any boundary.                         *)
Resolvable_AnyCheckpoint(r) == r.from_stage > 2 => r.checkpoint # 0

Resolvable(r) == r.from_stage > 2 => r.checkpoint = r.from_stage - 1

Init ==
  /\ request \in Requests
  /\ api = "idle"
  /\ sent = FALSE
  /\ status = "absent"
  /\ current_stage = 0
  /\ checkpoint = 0
  /\ events = {}
  \* a resumed request finds whatever earlier jobs left of its earlier stages
  /\ world \in SUBSET {s \in Effectful : s < FirstStage(request)}
  /\ pc = [d \in Deliveries |-> "queued"]
  /\ stage = [d \in Deliveries |-> FirstStage(request)]
  /\ attempt = [d \in Deliveries |-> 1]
  /\ done = [d \in Deliveries |-> {}]
  /\ captured = [d \in Deliveries |-> {}]
  /\ rbLeft = [d \in Deliveries |-> {}]
  /\ rbFailed = [d \in Deliveries |-> FALSE]
  /\ crashes = 0
-----------------------------------------------------------------------------
(* The API handler.                                                         *)

workerVars == <<world, pc, stage, attempt, done, captured, rbLeft, rbFailed>>

(* Inserting the row, in the API or in the worker: status pending and the   *)
(* request's stored options, with the checkpoint they may carry.            *)
InsertRow ==
  /\ status' = "pending"
  /\ current_stage' = 0
  /\ checkpoint' = request.checkpoint

CreateCompilation ==
  /\ api = "idle"
  /\ InsertRow
  /\ api' = "created"
  /\ UNCHANGED <<request, sent, events, workerVars, crashes>>

AppendAuditEntry ==
  /\ api = "created"
  /\ api' \in {"audited", "delete_500"}
  /\ UNCHANGED <<request, sent, rowVars, events, workerVars, crashes>>

(* apply_async may raise before or after the broker has the message.        *)
Enqueue ==
  /\ api = "audited"
  /\ \/ api' = "enqueued" /\ sent' = TRUE
     \/ api' = "delete_503" /\ sent' \in BOOLEAN
  /\ UNCHANGED <<request, rowVars, events, workerVars, crashes>>

CommitAudit ==
  /\ api = "enqueued"
  /\ api' \in {"accepted", "delete_503"}
  /\ UNCHANGED <<request, sent, rowVars, events, workerVars, crashes>>

(* delete_job; the events go with the row (ON DELETE CASCADE).              *)
DeleteJob ==
  /\ \/ api = "delete_500" /\ api' = "error"
     \/ api = "delete_503" /\ api' = "unavailable"
  /\ status' = "absent"
  /\ current_stage' = 0
  /\ checkpoint' = 0
  /\ events' = {}
  /\ UNCHANGED <<request, sent, workerVars, crashes>>

ApiCrash ==
  /\ api \in {"created", "audited", "enqueued", "delete_500", "delete_503"}
  /\ crashes < MaxCrashes
  /\ crashes' = crashes + 1
  /\ api' = "crashed"
  /\ UNCHANGED <<request, sent, rowVars, events, workerVars>>

ApiNext == \/ CreateCompilation \/ AppendAuditEntry \/ Enqueue
           \/ CommitAudit \/ DeleteJob \/ ApiCrash
-----------------------------------------------------------------------------
(* The worker.                                                              *)

Goto(d, from, to) ==
  /\ pc[d] = from
  /\ pc' = [pc EXCEPT ![d] = to]

(* append_event of one row, for a job whose row exists.                     *)
AppendEvent(type, s, a) ==
  /\ status # "absent"
  /\ events' = events \cup {[type |-> type, stage |-> s, attempt |-> a]}
  /\ UNCHANGED <<request, apiVars, rowVars, world, ctxVars, crashes>>

(* A worker takes one delivery of the message; it is acknowledged at once.  *)
Deliver(d) ==
  /\ sent
  /\ Goto(d, "queued", "create")
  /\ UNCHANGED <<request, apiVars, rowVars, events, world, loopVars, ctxVars,
                 rbVars, crashes>>

(* create_job with the message's job id: insert the row unless it exists.   *)
CreateJob(d) ==
  /\ Goto(d, "create", "check")
  /\ IF status = "absent" THEN InsertRow ELSE UNCHANGED rowVars
  /\ UNCHANGED <<request, apiVars, events, world, loopVars, ctxVars, rbVars,
                 crashes>>

(* get_job_status, the duplicate test, and _resolve_stage_definitions.      *)
CheckStatus(d) ==
  /\ \/ status \in NonReentrant /\ Goto(d, "check", "skipped")
     \/ /\ status \notin NonReentrant
        /\ Resolvable(request)
        /\ Goto(d, "check", "job_created")
     \/ /\ status \notin NonReentrant
        /\ ~Resolvable(request)
        /\ Goto(d, "check", "raised")
  /\ UNCHANGED <<request, apiVars, rowVars, events, world, loopVars, ctxVars,
                 rbVars, crashes>>

AppendJobCreated(d) ==
  /\ Goto(d, "job_created", "job_started")
  /\ AppendEvent("job.created", 0, 0)
  /\ UNCHANGED <<loopVars, rbVars>>

(* Mutant: the stage loop forgets mark_job_running before its first stage.  *)
AppendJobStarted_NotRunning(d) ==
  /\ Goto(d, "job_started", "stage_started")
  /\ AppendEvent("job.started", 0, 0)
  /\ UNCHANGED <<loopVars, rbVars>>

AppendJobStarted(d) ==
  /\ Goto(d, "job_started", "mark_running")
  /\ AppendEvent("job.started", 0, 0)
  /\ UNCHANGED <<loopVars, rbVars>>

(* mark_job_running, before the attempts of a stage and after its success.  *)
MarkJobRunning(d) ==
  /\ \/ Goto(d, "mark_running", "stage_started")
     \/ Goto(d, "remark", "stage_succeeded")
  /\ status # "absent"
  /\ status' = "running"
  /\ current_stage' = stage[d]
  /\ UNCHANGED <<request, apiVars, checkpoint, events, world, loopVars, ctxVars,
                 rbVars, crashes>>

AppendStageStarted(d) ==
  /\ Goto(d, "stage_started", "run")
  /\ AppendEvent("stage.started", stage[d], attempt[d])
  /\ UNCHANGED <<loopVars, rbVars>>

(* The activity of stage s succeeds.  A restoring stage captures, with its  *)
(* result, whether its effect was already there (previous_routes).          *)
RunStage(d) ==
  LET s == stage[d] IN
  /\ Goto(d, "run", "checkpoint")
  /\ Requires[s] \subseteq world
  /\ s \in Once => s \notin world
  /\ done' = [done EXCEPT ![d] = @ \cup {s}]
  /\ captured' = [captured EXCEPT ![d] = @ \cup ({s} \cap Restoring \cap world)]
  /\ world' = world \cup ({s} \cap Effectful)
  /\ UNCHANGED <<request, apiVars, rowVars, events, loopVars, rbVars, crashes>>

(* What an attempt that raises may leave behind: a restoring stage keeps    *)
(* what was there, any other cleans up, and both may leave their effect.    *)
LeftBehind(s) ==
  {world \cup ({s} \cap Effectful),
   IF s \in Handled \ Restoring THEN world \ {s} ELSE world}

StageRaises(d) ==
  /\ \/ attempt[d] < MaxAttempts /\ Goto(d, "run", "retrying")
     \/ attempt[d] = MaxAttempts /\ Goto(d, "run", "stage_failed")
  /\ world' \in LeftBehind(stage[d])
  /\ UNCHANGED <<request, apiVars, rowVars, events, loopVars, ctxVars, rbVars,
                 crashes>>

(* Mutant: the attempt loop does not advance.                               *)
AppendStageRetrying_SameAttempt(d) ==
  /\ Goto(d, "retrying", "stage_started")
  /\ AppendEvent("stage.retrying", stage[d], attempt[d])
  /\ UNCHANGED <<loopVars, rbVars>>

(* Mutant: the retry is not logged.                                         *)
AppendStageRetrying_Silent(d) ==
  /\ Goto(d, "retrying", "stage_started")
  /\ status # "absent"
  /\ attempt' = [attempt EXCEPT ![d] = @ + 1]
  /\ UNCHANGED <<request, apiVars, rowVars, events, world, ctxVars, stage,
                 rbVars, crashes>>

AppendStageRetrying(d) ==
  /\ Goto(d, "retrying", "stage_started")
  /\ AppendEvent("stage.retrying", stage[d], attempt[d])
  /\ attempt' = [attempt EXCEPT ![d] = @ + 1]
  /\ UNCHANGED <<stage, rbVars>>

(* Mutant: the checkpoint is not stored.                                    *)
UpdateCheckpoint_NotStored(d) ==
  /\ Goto(d, "checkpoint", "remark")
  /\ status # "absent"
  /\ UNCHANGED <<request, apiVars, rowVars, events, world, loopVars, ctxVars,
                 rbVars, crashes>>

UpdateCheckpoint(d) ==
  /\ Goto(d, "checkpoint", "remark")
  /\ status # "absent"
  /\ checkpoint' = stage[d]
  /\ UNCHANGED <<request, apiVars, status, current_stage, events, world,
                 loopVars, ctxVars, rbVars, crashes>>

(* Mutant: the stage loop ends one stage early.                             *)
AppendStageSucceeded_Early(d) ==
  /\ \/ /\ stage[d] < NumStages - 1
        /\ Goto(d, "stage_succeeded", "mark_running")
        /\ stage' = [stage EXCEPT ![d] = @ + 1]
        /\ attempt' = [attempt EXCEPT ![d] = 1]
     \/ /\ stage[d] >= NumStages - 1
        /\ Goto(d, "stage_succeeded", "mark_succeeded")
        /\ UNCHANGED loopVars
  /\ AppendEvent("stage.succeeded", stage[d], attempt[d])
  /\ UNCHANGED rbVars

AppendStageSucceeded(d) ==
  /\ \/ /\ stage[d] < NumStages
        /\ Goto(d, "stage_succeeded", "mark_running")
        /\ stage' = [stage EXCEPT ![d] = @ + 1]
        /\ attempt' = [attempt EXCEPT ![d] = 1]
     \/ /\ stage[d] = NumStages
        /\ Goto(d, "stage_succeeded", "mark_succeeded")
        /\ UNCHANGED loopVars
  /\ AppendEvent("stage.succeeded", stage[d], attempt[d])
  /\ UNCHANGED rbVars

MarkJobSucceeded(d) ==
  /\ Goto(d, "mark_succeeded", "job_succeeded")
  /\ status # "absent"
  /\ status' = "succeeded"
  /\ current_stage' = NumStages
  /\ UNCHANGED <<request, apiVars, checkpoint, events, world, loopVars, ctxVars,
                 rbVars, crashes>>

AppendJobSucceeded(d) ==
  /\ Goto(d, "job_succeeded", "returned")
  /\ AppendEvent("job.succeeded", NumStages, 0)
  /\ UNCHANGED <<loopVars, rbVars>>
-----------------------------------------------------------------------------
(* Failure of a stage's last attempt, and the compensation of _rollback.    *)

(* Mutant: a failed stage is logged and the loop goes on.                   *)
AppendStageFailed_GoesOn(d) ==
  /\ IF stage[d] < NumStages
     THEN /\ Goto(d, "stage_failed", "mark_running")
          /\ stage' = [stage EXCEPT ![d] = @ + 1]
          /\ attempt' = [attempt EXCEPT ![d] = 1]
     ELSE Goto(d, "stage_failed", "mark_succeeded") /\ UNCHANGED loopVars
  /\ AppendEvent("stage.failed", stage[d], attempt[d])
  /\ UNCHANGED rbVars

AppendStageFailed(d) ==
  /\ Goto(d, "stage_failed",
          IF done[d] \cap RollbackEnabled = {} THEN "mark_failed" ELSE "rollback")
  /\ AppendEvent("stage.failed", stage[d], attempt[d])
  /\ rbLeft' = [rbLeft EXCEPT ![d] = done[d] \cap RollbackEnabled]
  /\ UNCHANGED <<loopVars, rbFailed>>

(* _rollback walks the stage definitions in reverse.                        *)
IsNextToUndo(d, s) == s \in rbLeft[d] /\ \A t \in rbLeft[d] : t <= s

AppendRollbackStarted(d) ==
  /\ Goto(d, "rollback", "undo")
  /\ \E s \in Stages : IsNextToUndo(d, s) /\ AppendEvent("rollback.started", s, 0)
  /\ UNCHANGED <<loopVars, rbVars>>

(* rollback_stage returns: without a handler nothing happens, a restoring   *)
(* handler puts back the captured state, any other deletes.                 *)
UndoStage(d) ==
  /\ Goto(d, "undo", "undone")
  /\ \E s \in Stages :
       /\ IsNextToUndo(d, s)
       /\ world' = IF s \in captured[d] THEN world \cup {s} ELSE world \ ({s} \cap Handled)
  /\ UNCHANGED <<request, apiVars, rowVars, events, loopVars, ctxVars, rbVars,
                 crashes>>

(* rollback_stage raises, with the effect gone or not.                      *)
UndoRaises(d) ==
  /\ Goto(d, "undo", "undo_failed")
  /\ \E s \in Handled : IsNextToUndo(d, s) /\ world' \in {world, world \ {s}}
  /\ UNCHANGED <<request, apiVars, rowVars, events, loopVars, ctxVars, rbVars,
                 crashes>>

(* Mutant: _rollback stops after the first stage it undoes.                 *)
AppendRollbackOutcome_OnlyOne(d) ==
  \E s \in Stages :
    /\ IsNextToUndo(d, s)
    /\ \/ /\ Goto(d, "undone", "mark_failed")
          /\ AppendEvent("rollback.succeeded", s, 0)
          /\ UNCHANGED rbFailed
       \/ /\ Goto(d, "undo_failed", "mark_failed")
          /\ AppendEvent("rollback.failed", s, 0)
          /\ rbFailed' = [rbFailed EXCEPT ![d] = TRUE]
    /\ rbLeft' = [rbLeft EXCEPT ![d] = {}]
    /\ UNCHANGED loopVars

(* rollback.succeeded or rollback.failed, then the next stage of the loop.  *)
AppendRollbackOutcome(d) ==
  \E s \in Stages :
    /\ IsNextToUndo(d, s)
    /\ LET next == IF rbLeft[d] = {s} THEN "mark_failed" ELSE "rollback" IN
       \/ /\ Goto(d, "undone", next)
          /\ AppendEvent("rollback.succeeded", s, 0)
          /\ UNCHANGED rbFailed
       \/ /\ Goto(d, "undo_failed", next)
          /\ AppendEvent("rollback.failed", s, 0)
          /\ rbFailed' = [rbFailed EXCEPT ![d] = TRUE]
    /\ rbLeft' = [rbLeft EXCEPT ![d] = @ \ {s}]
    /\ UNCHANGED loopVars

(* The first component of what _rollback returns.                           *)
RolledBack(d) == done[d] \cap RollbackEnabled # {} /\ ~rbFailed[d]

MarkJobFailed(d) ==
  /\ Goto(d, "mark_failed", "job_failed")
  /\ status # "absent"
  /\ status' = IF RolledBack(d) THEN "rolled_back" ELSE "failed"
  /\ current_stage' = stage[d]
  /\ UNCHANGED <<request, apiVars, checkpoint, events, world, loopVars, ctxVars,
                 rbVars, crashes>>

AppendJobFailed(d) ==
  /\ Goto(d, "job_failed", "raised")
  /\ AppendEvent(IF RolledBack(d) THEN "job.rolled_back" ELSE "job.failed", stage[d], 0)
  /\ UNCHANGED <<loopVars, rbVars>>
-----------------------------------------------------------------------------
(* _require_job finds no row and raises KeyError: nothing handles it.       *)
JobVanished(d) ==
  /\ status = "absent"
  /\ pc[d] \in StoreStep
  /\ Goto(d, pc[d], "raised")
  /\ UNCHANGED <<request, apiVars, rowVars, events, world, loopVars, ctxVars,
                 rbVars, crashes>>

(* The worker process dies, or a store call raises: the delivery ends where *)
(* it is; the message was acknowledged, so the broker does not repeat it.   *)
WorkerCrash(d) ==
  /\ pc[d] \in Step
  /\ crashes < MaxCrashes
  /\ crashes' = crashes + 1
  /\ Goto(d, pc[d], "raised")
  /\ UNCHANGED <<request, apiVars, rowVars, events, world, loopVars, ctxVars,
                 rbVars>>

RunStep(d) ==
  \/ Deliver(d) \/ CreateJob(d) \/ CheckStatus(d)
  \/ AppendJobCreated(d) \/ AppendJobStarted(d) \/ MarkJobRunning(d)
  \/ AppendStageStarted(d) \/ RunStage(d) \/ StageRaises(d)
  \/ AppendStageRetrying(d) \/ UpdateCheckpoint(d) \/ AppendStageSucceeded(d)
  \/ MarkJobSucceeded(d) \/ AppendJobSucceeded(d)
  \/ AppendStageFailed(d) \/ AppendRollbackStarted(d) \/ UndoStage(d)
  \/ UndoRaises(d) \/ AppendRollbackOutcome(d)
  \/ MarkJobFailed(d) \/ AppendJobFailed(d) \/ JobVanished(d)

Next ==
  \/ ApiNext
  \/ \E d \in Deliveries : RunStep(d) \/ WorkerCrash(d)

Spec == Init /\ [][Next]_vars

(* The event loop keeps serving the request and the Celery worker keeps     *)
(* executing a task it has taken; nothing is assumed about crashes.         *)
Fairness ==
  /\ WF_vars(CreateCompilation \/ AppendAuditEntry \/ Enqueue \/ CommitAudit \/ DeleteJob)
  /\ \A d \in Deliveries : WF_vars(RunStep(d))

FairSpec == Spec /\ Fairness
-----------------------------------------------------------------------------
(* Correctness.                                                             *)

(* Delivery d passed the duplicate test and started executing the job.      *)
Executed(d) == pc[d] \notin {"queued", "create", "check", "skipped"}

(* Nobody but d executed the job.                                           *)
SoleExecution(d) == \A e \in Deliveries \ {d} : ~Executed(e)

(* The row was never deleted by a refusing API handler.                     *)
RowKept == api \notin {"error", "unavailable"}

(* A job is only reported succeeded when some delivery really completed     *)
(* every stage from the requested one to the last: no stage is skipped by   *)
(* the retry loop, the resume logic or an early mark_job_succeeded.         *)
SucceededComplete ==
  status = "succeeded" =>
    \E d \in Deliveries : FirstStage(request) .. NumStages \subseteq done[d]

(* With one execution, rolled_back means that every completed stage with a  *)
(* rollback handler is undone, except what its own capture says was there   *)
(* before, and that the log has a rollback.succeeded row for each           *)
(* rollback-enabled stage that completed.                                   *)
RolledBackUndone ==
  \A d \in Deliveries :
    status = "rolled_back" /\ SoleExecution(d) =>
      /\ done[d] \cap Handled \cap world \subseteq captured[d]
      /\ RowKept => \A s \in done[d] \cap RollbackEnabled :
                     [type |-> "rollback.succeeded", stage |-> s, attempt |-> 0] \in events

(* A job that failed, with or without rollback, can be resumed at the stage *)
(* that failed: the stored checkpoint is the one the API's retry boundary   *)
(* check and the worker's _resolve_stage_definitions ask for, unless the    *)
(* handler deleted the row meanwhile and another delivery recreated it.     *)
FailedResumable ==
  \A d \in Deliveries :
    status \in {"failed", "rolled_back"} /\ SoleExecution(d) /\ RowKept =>
      Resolvable([from_stage |-> current_stage, checkpoint |-> checkpoint])

(* Every completed stage in the log went through its attempts in order: a   *)
(* stage.succeeded or stage.failed row for attempt a comes with a           *)
(* stage.started row for each attempt up to a and a stage.retrying row for  *)
(* each attempt before a, also when duplicate executions share the log.     *)
AttemptsLogged ==
  RowKept => \A e \in events :
    e.type \in {"stage.succeeded", "stage.failed"} =>
      /\ \A a \in 1 .. e.attempt :
           [type |-> "stage.started", stage |-> e.stage, attempt |-> a] \in events
      /\ \A a \in 1 .. e.attempt - 1 :
           [type |-> "stage.retrying", stage |-> e.stage, attempt |-> a] \in events

(* A terminal status is final while only one delivery executes the job: no  *)
(* later write of that execution reopens or changes it; only the deletion   *)
(* of a refused job removes it.                                             *)
TerminalFinal ==
  [][\A d \in Deliveries :
       status \in Terminal /\ SoleExecution(d)' => status' \in {status, "absent"}]_vars

(* An accepted, resolvable job ends, also beside a duplicate of it: unless  *)
(* a process dies or a store call fails, it reaches a terminal status and   *)
(* logs the terminal event.  After a crash nothing in the code takes the    *)
(* job up again.                                                            *)
AcceptedEnds ==
  api = "accepted" /\ Resolvable(request) ~>
    \/ crashes > 0
    \/ /\ status \in Terminal
       /\ \E e \in events : e.type \in {"job.succeeded", "job.failed", "job.rolled_back"}

(* The effects the requested part of the pipeline has to bring about.       *)
Owed == {s \in Effectful : s >= FirstStage(request)}
=============================================================================
