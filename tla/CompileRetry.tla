----------------------------- MODULE CompileRetry -----------------------------
(***************************************************************************)
(* A lineage of compilation jobs: POST /compilations/{job_id}/retry clones *)
(* the stored options of an ended job, checkpoint and from_stage included, *)
(* into a new job for the same service                                     *)
(* (apps/compiler_api/routes/compilations.py).  The variables of           *)
(* CompileWorkflow describe the newest job.  The effects belong to a       *)
(* version of the service: they carry over while the lineage works on the  *)
(* same version number.                                                    *)
(***************************************************************************)
EXTENDS CompileWorkflow

CONSTANT MaxRetryJobs   \* bound on the jobs of a lineage after the first

ASSUME LineageAssumption ==
  /\ MaxRetryJobs \in Nat
  /\ Effectful \cap 1 .. 2 = {}   \* detect and extract only compute

VARIABLES
  retries,              \* retry jobs created so far
  completed,            \* stages that earlier jobs of the lineage completed
  switched,             \* a new version number, the cloned checkpoint not replaced
  previous,             \* while switched: the effects of the checkpoint's version
  undone                \* effects that the rollback of an earlier job took away

lineageVars == <<vars, retries, completed, switched, previous, undone>>

LineageInit ==
  /\ Init
  /\ request.from_stage = 0
  /\ request.checkpoint = 0
  /\ retries = 0
  /\ completed = {}
  /\ switched = FALSE
  /\ previous = {}
  /\ undone = {}

(* _validate_retry_stage_boundary: only an explicit from_stage is checked.  *)
RetryAllowed(from) ==
  from # 0 => Resolvable([from_stage |-> from, checkpoint |-> checkpoint])

(* _build_replay_request: dict(original.options), from_stage overwritten    *)
(* only when one is given.                                                  *)
ReplayRequest(from) ==
  [from_stage |-> IF from = 0 THEN request.from_stage ELSE from,
   checkpoint |-> checkpoint]

(* The effects of the version that the stored checkpoint describes.         *)
Kept == IF switched THEN previous ELSE world

(* The stages whose rollback the newest job has begun.                      *)
RolledBackStages == {e.stage : e \in {f \in events : f.type = "rollback.started"}}

(* The extract stage takes the next version number: a new one, with         *)
(* resources of its own, once the register stage has stored this one.       *)
NewVersion(r) == FirstStage(r) <= 2 /\ NumStages \in Kept

(* Bound: the handler and the executions of the job being cloned are over;  *)
(* the code itself only asks that the job's row exists.                     *)
JobEnded ==
  /\ api \in {"accepted", "unavailable", "error", "crashed"}
  /\ \A d \in Deliveries : IF sent THEN pc[d] \in {"skipped", "returned", "raised"}
                                    ELSE pc[d] = "queued"

RetryCompilation(from) ==
  /\ retries < MaxRetryJobs
  /\ JobEnded
  /\ status # "absent"
  /\ RetryAllowed(from)
  /\ retries' = retries + 1
  /\ completed' = completed \cup UNION {done[d] : d \in Deliveries}
  /\ request' = ReplayRequest(from)
  /\ switched' = NewVersion(request')
  /\ previous' = IF switched' THEN Kept ELSE {}
  /\ world' = IF switched' THEN {} ELSE Kept
  /\ undone' = (undone \cup RolledBackStages) \ Kept
  /\ api' = "created"
  /\ sent' = FALSE
  /\ status' = "pending"
  /\ current_stage' = 0
  /\ checkpoint' = checkpoint
  /\ events' = {}
  /\ pc' = [d \in Deliveries |-> "queued"]
  /\ stage' = [d \in Deliveries |-> FirstStage(request')]
  /\ attempt' = [d \in Deliveries |-> 1]
  /\ done' = [d \in Deliveries |-> {}]
  /\ captured' = [d \in Deliveries |-> {}]
  /\ rbLeft' = [d \in Deliveries |-> {}]
  /\ rbFailed' = [d \in Deliveries |-> FALSE]
  /\ UNCHANGED crashes

(* A step of the newest job; its own checkpoint replaces the cloned one.    *)
JobStep ==
  /\ Next
  /\ switched' = (switched /\ \A d \in Deliveries : ~(pc[d] = "checkpoint" /\ pc'[d] = "remark"))
  /\ UNCHANGED <<retries, completed, previous, undone>>

LineageNext == JobStep \/ \E from \in 0 .. NumStages : RetryCompilation(from)

LineageSpec == LineageInit /\ [][LineageNext]_lineageVars
-----------------------------------------------------------------------------
(* Correctness.                                                             *)

(* No stage is skipped by resuming: when a job of the lineage succeeds,     *)
(* every stage from extract on was completed by it or by an earlier job of  *)
(* the lineage, however the from_stage boundaries were combined.            *)
NoStageSkipped ==
  status = "succeeded" => 2 .. NumStages \subseteq completed \cup UNION {done[d] : d \in Deliveries}

(* With one delivery of every message, when a job of the lineage succeeds,  *)
(* from whatever stage it was resumed, the deployment, the routes and the   *)
(* registry entry of its version all exist, except for an effect that the   *)
(* rollback of an earlier job of the lineage took away and that lies before *)
(* the stage this job was resumed at: nothing brings that one back.         *)
SucceededServes ==
  status = "succeeded" =>
    {s \in Effectful : s >= FirstStage(request) \/ s \notin undone} \subseteq world

Lifecycle == INSTANCE JobLifecycle WITH owed <- Owed, job <- retries

(* The row and the outside effects of the jobs of a lineage behave as       *)
(* JobLifecycle promises: legal status transitions, effects only while the  *)
(* job is running, and success only with every owed effect in place.        *)
FollowsLifecycle == Lifecycle!Spec
===============================================================================
