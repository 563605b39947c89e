----------------------------- MODULE Deployments -----------------------------
(***************************************************************************)
(* Compilation jobs that run beside each other, from the extract stage,    *)
(* which picks the version number, to the register stage, which inserts    *)
(* the row, and the four Kubernetes resources that each of them applies,   *)
(* waits for, and deletes again when it fails                              *)
(* (apps/compiler_worker/activities/production.py).                        *)
(*                                                                         *)
(* Every request to the Kubernetes API and every database transaction is   *)
(* an action.  A manifest is the job that rendered it.  The stages that    *)
(* touch neither the cluster nor the version row take no step here; routes *)
(* are in ArtifactRegistry, the attempt and event log in CompileWorkflow.  *)
(***************************************************************************)
EXTENDS Integers, FiniteSets

CONSTANTS
  Jobs,         \* compilation jobs
  Services,     \* service ids
  Label,        \* Label[s]: the id sanitised to a DNS label
  MaxAttempts,  \* retry_policy.max_attempts of every stage
  MaxPolls,     \* polls of a rollout or a readiness probe until its deadline
  MaxFaults     \* bound on calls that fail or whose answer is lost

NoJob == "none"

ASSUME DeploymentsAssumption ==
  /\ Label \in [Services -> {Label[s] : s \in Services}]
  /\ IsFiniteSet(Jobs)
  /\ MaxAttempts \in Nat \ {0}
  /\ MaxPolls \in Nat \ {0}
  /\ MaxFaults \in Nat
  /\ NoJob \notin Jobs

(* The order in which deploy applies its manifests.                         *)
Kinds == <<"configmaps", "deployments", "services", "networkpolicies">>
Kind == {Kinds[i] : i \in 1 .. 4}
Version == 1 .. Cardinality(Jobs) + 1

VARIABLES
  service,   \* service[j]: the service the job compiles
  pc,        \* pc[j]: next step of the job
  version,   \* version[j]: payload["version_number"], 0 before extract
  applied,   \* applied[j]: length of created_manifests
  attempt,   \* attempt[j]: attempts of the current stage so far
  polls,     \* polls[j]: polls of the current wait
  lost,      \* lost[j]: number of unanswered writes and failed deletions
  rows,      \* service_versions: rows[s][n] is the job that inserted the row
  cluster,   \* cluster[k][name]: the job whose manifest the resource has
  pod,       \* pod[name]: the job whose manifest the available pod runs
  faults     \* failures so far

vars == <<service, pc, version, applied, attempt, polls, lost, rows, cluster,
          pod, faults>>

Ended == {"succeeded", "failed", "rolled_back"}
Step == {"extract", "patch", "post", "repatch", "rollout", "cleanup", "probe",
         "register", "undo"}
(* runtime_service_name: the sanitised id and the version, which truncation *)
(* to 63 characters never drops.                                            *)
Names == {Label[s] : s \in Services} \X Version

TypeOK ==
  /\ service \in [Jobs -> Services]
  /\ pc \in [Jobs -> Step \cup Ended]
  /\ version \in [Jobs -> Version \cup {0}]
  /\ applied \in [Jobs -> 0 .. 4]
  /\ attempt \in [Jobs -> 1 .. MaxAttempts]
  /\ polls \in [Jobs -> 0 .. MaxPolls]
  /\ lost \in [Jobs -> 0 .. MaxFaults]
  /\ rows \in [Services -> [Version -> Jobs \cup {NoJob}]]
  /\ cluster \in [Kind -> [Names -> Jobs \cup {NoJob}]]
  /\ pod \in [Names -> Jobs \cup {NoJob}]
  /\ faults \in 0 .. MaxFaults

Init ==
  /\ service \in [Jobs -> Services]
  /\ pc = [j \in Jobs |-> "extract"]
  /\ version = [j \in Jobs |-> 0]
  /\ applied = [j \in Jobs |-> 0]
  /\ attempt = [j \in Jobs |-> 1]
  /\ polls = [j \in Jobs |-> 0]
  /\ lost = [j \in Jobs |-> 0]
  /\ rows = [s \in Services |-> [n \in Version |-> NoJob]]
  /\ cluster = [k \in Kind |-> [n \in Names |-> NoJob]]
  /\ pod = [n \in Names |-> NoJob]
  /\ faults = 0
-----------------------------------------------------------------------------
(* Mutant: the resources of all versions have the name of the service.      *)
Name_Unversioned(j) == <<Label[service[j]], 1>>

Name(j) == <<Label[service[j]], version[j]>>

Goto(j, to) == pc' = [pc EXCEPT ![j] = to]

Fault == faults < MaxFaults /\ faults' = faults + 1

(* A stage raised: another attempt of it, from first, or the job's failure  *)
(* and the rollback of the completed stages, which starts at then.          *)
Raise(j, first, then) ==
  \/ /\ attempt[j] < MaxAttempts
     /\ attempt' = [attempt EXCEPT ![j] = @ + 1]
     /\ Goto(j, first)
  \/ /\ attempt[j] = MaxAttempts
     /\ Goto(j, then)
     /\ UNCHANGED attempt

(* The next stage starts with its first attempt.                            *)
Complete(j, next) ==
  /\ Goto(j, next)
  /\ attempt' = [attempt EXCEPT ![j] = 1]
  /\ polls' = [polls EXCEPT ![j] = 0]

(* _next_version_number: one more than the greatest row, read without lock. *)
NextVersionNumber(s) ==
  CHOOSE n \in Version : /\ \A m \in Version : m >= n => rows[s][m] = NoJob
                         /\ n > 1 => rows[s][n - 1] # NoJob

Extract(j) ==
  /\ pc[j] = "extract"
  /\ version' = [version EXCEPT ![j] = NextVersionNumber(service[j])]
  /\ Complete(j, "patch")
  /\ UNCHANGED <<service, applied, lost, rows, cluster, pod, faults>>
-----------------------------------------------------------------------------
(* _apply_manifest: PATCH; after a 404 POST; after its 409 PATCH again.     *)
Resource(j) == cluster[Kinds[applied[j] + 1]][Name(j)]

Write(j) == cluster' = [cluster EXCEPT ![Kinds[applied[j] + 1]][Name(j)] = j]

(* The manifest is applied; created_manifests grows, and after the fourth   *)
(* one the rollout is awaited.                                              *)
Applied(j) ==
  /\ Write(j)
  /\ applied' = [applied EXCEPT ![j] = @ + 1]
  /\ Goto(j, IF applied[j] = 3 THEN "rollout" ELSE "patch")

Apply(j) ==
  /\ \/ pc[j] \in {"patch", "repatch"} /\ Resource(j) # NoJob /\ Applied(j)
     \/ pc[j] = "post" /\ Resource(j) = NoJob /\ Applied(j)
     \/ /\ pc[j] = "patch" /\ Resource(j) = NoJob
        /\ Goto(j, "post")
        /\ UNCHANGED <<cluster, applied>>
     \/ /\ pc[j] = "post" /\ Resource(j) # NoJob
        /\ Goto(j, "repatch")
        /\ UNCHANGED <<cluster, applied>>
     \/ /\ pc[j] = "repatch" /\ Resource(j) = NoJob  \* a 404 is an error now
        /\ Goto(j, "cleanup")
        /\ UNCHANGED <<cluster, applied>>
  /\ UNCHANGED <<service, version, attempt, polls, lost, rows, pod, faults>>

(* An error answer, or none: the server may have written the resource, and  *)
(* it is not in created_manifests.                                          *)
ApplyFails(j) ==
  /\ pc[j] \in {"patch", "post", "repatch"}
  /\ Fault
  /\ Goto(j, "cleanup")
  /\ \/ UNCHANGED <<cluster, lost>>
     \/ /\ (pc[j] = "post") = (Resource(j) = NoJob)
        /\ Write(j)
        /\ lost' = [lost EXCEPT ![j] = @ + 1]
  /\ UNCHANGED <<service, version, applied, attempt, polls, rows, pod>>

(* The controller of the cluster brings up the pod of the deployment as it  *)
(* is now, and takes the pod of a deleted one away.                         *)
Rollout(n) ==
  /\ pod[n] # cluster["deployments"][n]
  /\ pod' = [pod EXCEPT ![n] = cluster["deployments"][n]]
  /\ UNCHANGED <<service, pc, version, applied, attempt, polls, lost, rows,
                 cluster, faults>>

(* _wait_for_rollout: a poll that finds a replica available, be it one of   *)
(* the deployment's former template, one that does not, and one after       *)
(* another until the deadline; the deployment may be gone (404, raised).    *)
WaitForRollout(j) ==
  /\ pc[j] = "rollout"
  /\ \/ /\ cluster["deployments"][Name(j)] # NoJob
        /\ pod[Name(j)] # NoJob
        /\ Complete(j, "probe")
     \/ /\ cluster["deployments"][Name(j)] # NoJob
        /\ polls[j] < MaxPolls
        /\ polls' = [polls EXCEPT ![j] = @ + 1]
        /\ UNCHANGED <<pc, attempt>>
     \/ /\ \/ polls[j] = MaxPolls
           \/ cluster["deployments"][Name(j)] = NoJob
        /\ Goto(j, "cleanup")
        /\ UNCHANGED <<attempt, polls>>
  /\ UNCHANGED <<service, version, applied, lost, rows, cluster, pod, faults>>
-----------------------------------------------------------------------------
(* _delete_manifests_best_effort, last manifest first; 404 is a success.    *)
Cleanup(j) ==
  /\ pc[j] \in {"cleanup", "undo"}
  /\ applied[j] > 0
  /\ applied' = [applied EXCEPT ![j] = @ - 1]
  /\ cluster' = [cluster EXCEPT ![Kinds[applied[j]]][Name(j)] = NoJob]
  /\ UNCHANGED <<service, pc, version, attempt, polls, lost, rows, pod, faults>>

(* Mutant: the first error ends the loop.                                   *)
CleanupFails_Stops(j) ==
  /\ pc[j] \in {"cleanup", "undo"}
  /\ applied[j] > 0
  /\ Fault
  /\ applied' = [applied EXCEPT ![j] = 0]
  /\ lost' = [lost EXCEPT ![j] = @ + 1]
  /\ UNCHANGED <<service, pc, version, attempt, polls, rows, cluster, pod>>

(* A deletion fails: its error is noted and the next one goes on.           *)
CleanupFails(j) ==
  /\ pc[j] \in {"cleanup", "undo"}
  /\ applied[j] > 0
  /\ Fault
  /\ applied' = [applied EXCEPT ![j] = @ - 1]
  /\ lost' = [lost EXCEPT ![j] = @ + 1]
  /\ \/ cluster' = [cluster EXCEPT ![Kinds[applied[j]]][Name(j)] = NoJob]
     \/ UNCHANGED cluster
  /\ UNCHANGED <<service, pc, version, attempt, polls, rows, pod>>

(* deploy raises, whether or not the cleanup had errors: the next attempt,  *)
(* or the failure of a job without a completed stage to roll back.          *)
DeployRaises(j) ==
  /\ pc[j] = "cleanup"
  /\ applied[j] = 0
  /\ Raise(j, "patch", "failed")
  /\ polls' = [polls EXCEPT ![j] = 0]
  /\ UNCHANGED <<service, version, applied, lost, rows, cluster, pod, faults>>

(* The workflow's rollback of the deploy stage is over: all four resources  *)
(* deleted, or the errors raised.                                           *)
DeployRolledBack(j) ==
  /\ pc[j] = "undo"
  /\ applied[j] = 0
  /\ Goto(j, "rolled_back")
  /\ UNCHANGED <<service, version, applied, attempt, polls, lost, rows, cluster,
                 pod, faults>>
-----------------------------------------------------------------------------
(* validate_runtime_stage: _wait_for_runtime_http_ready polls the service   *)
(* of the runtime, whichever pod is behind it, until its deadline; then the *)
(* validator judges what it finds.                                          *)
Reachable(j) ==
  cluster["services"][Name(j)] # NoJob /\ pod[Name(j)] # NoJob

Probe(j) ==
  /\ pc[j] = "probe"
  /\ polls[j] < MaxPolls
  /\ \/ Reachable(j) /\ Complete(j, "register")
     \/ /\ polls' = [polls EXCEPT ![j] = @ + 1]
        /\ UNCHANGED <<pc, attempt>>
  /\ UNCHANGED <<service, version, applied, lost, rows, cluster, pod, faults>>

(* The deadline has passed, or the report of the validator is not passed.   *)
ValidationFails(j) ==
  /\ pc[j] = "probe"
  /\ \/ polls[j] = MaxPolls /\ UNCHANGED faults
     \/ Reachable(j) /\ Fault
  /\ Raise(j, "probe", "undo")
  /\ polls' = [polls EXCEPT ![j] = 0]
  /\ UNCHANGED <<service, version, applied, lost, rows, cluster, pod>>

(* register_stage: create_version inserts the row under the unique key of   *)
(* service and version.                                                     *)
Register(j) ==
  /\ pc[j] = "register"
  /\ \/ /\ rows[service[j]][version[j]] = NoJob
        /\ rows' = [rows EXCEPT ![service[j]][version[j]] = j]
        /\ Complete(j, "succeeded")
     \/ /\ rows[service[j]][version[j]] # NoJob
        /\ Raise(j, "register", "undo")
        /\ UNCHANGED <<rows, polls>>
  /\ UNCHANGED <<service, version, applied, lost, cluster, pod, faults>>

(* The transaction fails, or its commit goes through and is not answered.   *)
RegisterFails(j) ==
  /\ pc[j] = "register"
  /\ Fault
  /\ Raise(j, "register", "undo")
  /\ \/ UNCHANGED rows
     \/ /\ rows[service[j]][version[j]] = NoJob
        /\ rows' = [rows EXCEPT ![service[j]][version[j]] = j]
  /\ UNCHANGED <<service, version, applied, polls, lost, cluster, pod>>

Runs(j) ==
  \/ Extract(j) \/ Apply(j) \/ ApplyFails(j) \/ WaitForRollout(j)
  \/ Cleanup(j) \/ CleanupFails(j) \/ DeployRaises(j) \/ DeployRolledBack(j)
  \/ Probe(j) \/ ValidationFails(j) \/ Register(j) \/ RegisterFails(j)

Next == (\E j \in Jobs : Runs(j)) \/ (\E n \in Names : Rollout(n))

Spec == Init /\ [][Next]_vars
-----------------------------------------------------------------------------
(* No other job has picked the same version of a service with this label.   *)
Alone(j) ==
  \A k \in Jobs \ {j} :
    \/ version[k] = 0
    \/ version[k] # version[j]
    \/ Label[service[k]] # Label[service[j]]

(* Jobs of one service do not disturb each other's versions: a job that     *)
(* succeeded, and whose number no other job has picked, owns the version's  *)
(* row, all four resources and the pod behind them, whatever other jobs     *)
(* deploy, clean up and roll back.  (_next_version_number takes no lock, so *)
(* two jobs can pick one number; the loser's rollback then deletes the      *)
(* resources of the winner, and so it is between two services whose ids     *)
(* have one label.)                                                         *)
VersionsIsolated ==
  \A j \in Jobs :
    pc[j] = "succeeded" /\ Alone(j) =>
      /\ rows[service[j]][version[j]] = j
      /\ \A k \in Kind : cluster[k][<<Label[service[j]], version[j]>>] = j
      /\ pod[<<Label[service[j]], version[j]>>] = j

(* deploy's cleanup and the deploy rollback delete all they can: a job that *)
(* failed leaves at most one resource for each write that was not answered  *)
(* and each deletion that failed.                                           *)
LeftoversExplained ==
  \A j \in Jobs :
    pc[j] \in {"failed", "rolled_back"} /\ Alone(j) =>
      Cardinality({k \in Kind : cluster[k][Name(j)] # NoJob}) <= lost[j]
=============================================================================
