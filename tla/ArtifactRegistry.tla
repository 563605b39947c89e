-------------------------- MODULE ArtifactRegistry --------------------------
(***************************************************************************)
(* The versions of one service in one scope: the registry rows             *)
(* (apps/compiler_api/repository.py), the gateway routes that lead to them *)
(* (apps/access_control/gateway_binding/service.py), the API handlers that *)
(* change both (apps/compiler_api/routes/artifacts.py, services.py), the   *)
(* reconciliation, and the rollback job that redeploys an earlier version  *)
(* (apps/compiler_worker/workflows/rollback_workflow.py).                  *)
(*                                                                         *)
(* A request runs in one database transaction that locks its rows one by   *)
(* one and keeps the locks until it commits; the gateway is changed by one *)
(* HTTP call at a time while the transaction is open.  Route 0 is the      *)
(* default route of the service, route v the version route of v, and a     *)
(* route document is reduced to the version it leads to, 0 for no route.   *)
(***************************************************************************)
EXTENDS Integers, FiniteSets, FiniteSetsExt

CONSTANTS
  NumVersions, \* version numbers run from 1 to NumVersions
  Requests,    \* requests and rollback jobs, each served once
  Regimes      \* the disciplines of use under study

Versions == 1 .. NumVersions
Route == 0 .. NumVersions
Kinds == {"activate", "delete", "create", "create_active", "update",
          "delete_service", "reconcile", "rollback"}

(* kinds: requests that are made; overlap: those that may run at the same   *)
(* time; faults: bound on store, gateway, deployment and validation errors. *)
Regime == [kinds : SUBSET Kinds, overlap : SUBSET Kinds, faults : Nat]

ASSUME RegistryAssumption ==
  /\ NumVersions \in Nat \ {0}
  /\ IsFiniteSet(Requests)
  /\ Regimes \subseteq Regime

VARIABLES
  regime,   \* the discipline of this behaviour
  exists,   \* versions with a committed row
  active,   \* versions whose committed row has is_active
  routes,   \* routes[i]: what the gateway's route i leads to
  runtime,  \* versions whose runtime is deployed
  job,      \* job[r]: the status in the job row of rollback r
  kind,     \* kind[r]: what request r asks for, "none" before it is made
  version,  \* version[r]: the version it is about
  pc,       \* pc[r]: its next step
  held,     \* held[r]: rows locked by its transaction; 0 is the key of
            \* uq_service_versions_one_active
  todo,     \* todo[r]: rows its current statement has still to lock
  seen,     \* seen[r]: the active version it read, 0 for none
  repl,     \* repl[r]: the replacement a deletion activates, 0 for none
  del,      \* del[r]: routes its gateway call has still to delete
  put,      \* put[r]: routes its gateway call has still to upsert, 0 for none
  prev,     \* prev[r]: the previous_routes its gateway calls have returned
  after,    \* after[r]: the step that follows the gateway calls
  before,   \* before[r]: history: the routes when the request was made
  faults    \* errors so far

rowVars == <<exists, active>>
txnVars == <<held, todo, seen, repl>>
callVars == <<del, put, prev, after>>
reqVars == <<regime, kind, version, before>>
vars == <<regime, exists, active, routes, runtime, job, kind, version, pc, held,
          todo, seen, repl, del, put, prev, after, before, faults>>

JobStatus == {"absent", "pending", "running", "succeeded", "failed"}
Ended == {"ok", "refused", "failed", "compensated"}
Step == {"accept", "resolve", "won", "lost", "begin", "deactivate", "locking",
         "insert", "move_in", "move_out", "rows", "replace", "deleting",
         "unroute", "sync", "calls", "commit", "compensate", "list", "apply",
         "validate", "update", "activate", "activating", "check", "reapply",
         "reroute", "reactivate", "reactivating"}
Routing == [Route -> Route]
NoRoutes == [i \in Route |-> 0]

TypeOK ==
  /\ regime \in Regimes
  /\ exists \subseteq Versions
  /\ active \subseteq exists
  /\ routes \in Routing
  /\ runtime \subseteq Versions
  /\ job \in [Requests -> JobStatus]
  /\ kind \in [Requests -> Kinds \cup {"none"}]
  /\ version \in [Requests -> Versions]
  /\ pc \in [Requests -> Step \cup Ended \cup {"idle"}]
  /\ held \in [Requests -> SUBSET Route]
  /\ todo \in [Requests -> SUBSET Versions]
  /\ seen \in [Requests -> Route]
  /\ repl \in [Requests -> Route]
  /\ del \in [Requests -> SUBSET Route]
  /\ put \in [Requests -> Routing]
  /\ prev \in [Requests -> Routing]
  /\ after \in [Requests -> Step \cup Ended]
  /\ before \in [Requests -> Routing]
  /\ faults \in 0 .. regime.faults

(* get_active_version, of which there is at most one.                       *)
Active == IF active = {} THEN 0 ELSE CHOOSE v \in active : TRUE
MaxOrNone(S) == IF S = {} THEN 0 ELSE Max(S)

(* _service_route_documents: what the gateway should hold for version v,    *)
(* and, in reconcile, for all rows: version routes, and one default route.  *)
Documents(v) == [i \in Route |-> IF i \in {0, v} THEN v ELSE 0]
Expected ==
  [i \in Route |-> IF i = 0 THEN Active ELSE IF i \in exists THEN i ELSE 0]

Init ==
  /\ regime \in Regimes
  /\ exists = Versions \ {NumVersions}
  /\ active = {MaxOrNone(exists)} \ {0}
  /\ routes = Expected
  /\ runtime = exists
  /\ job = [r \in Requests |-> "absent"]
  /\ kind = [r \in Requests |-> "none"]
  /\ version = [r \in Requests |-> 1]
  /\ pc = [r \in Requests |-> "idle"]
  /\ held = [r \in Requests |-> {}]
  /\ todo = [r \in Requests |-> {}]
  /\ seen = [r \in Requests |-> 0]
  /\ repl = [r \in Requests |-> 0]
  /\ del = [r \in Requests |-> {}]
  /\ put = [r \in Requests |-> NoRoutes]
  /\ prev = [r \in Requests |-> NoRoutes]
  /\ after = [r \in Requests |-> "commit"]
  /\ before = [r \in Requests |-> NoRoutes]
  /\ faults = 0
-----------------------------------------------------------------------------
Goto(r, l) == pc' = [pc EXCEPT ![r] = l]
At(r, l) == pc[r] = l
Busy == {r \in Requests : pc[r] \notin Ended \cup {"idle"}}
Alone(r) == Busy \subseteq {r}

(* Row locks: a statement waits until no other transaction holds the row    *)
(* that it comes to; locks are kept until the transaction ends.             *)
Free(r, rows) == \A q \in Requests \ {r} : held[q] \cap rows = {}
Lock(r, rows) == held' = [held EXCEPT ![r] = @ \cup rows] /\ UNCHANGED todo
Release(r) == /\ held' = [held EXCEPT ![r] = {}]
              /\ todo' = [todo EXCEPT ![r] = {}]

Fault == faults < regime.faults /\ faults' = faults + 1
NoFault == UNCHANGED faults

(* _resolve_rollback_metadata: a rollback is for the active version and     *)
(* goes to the highest version below it, chosen when the job is made.       *)
RollbackTarget(v) == Active # 0 /\ v = MaxOrNone({w \in exists : w < Active})

(* A request arrives: alone, or beside requests it may overlap with.        *)
Arrive(r, k, v) ==
  /\ At(r, "idle")
  /\ k \in regime.kinds
  /\ Busy # {} => k \in regime.overlap
  /\ \A q \in Busy : kind[q] \in regime.overlap
  /\ k = "rollback" => RollbackTarget(v)
  /\ k \in {"reconcile", "delete_service"} => v = 1
  /\ kind' = [kind EXCEPT ![r] = k]
  /\ version' = [version EXCEPT ![r] = v]
  /\ before' = [before EXCEPT ![r] = routes]
  /\ Goto(r, IF k = "rollback" THEN "accept" ELSE "begin")
  /\ UNCHANGED <<regime, rowVars, routes, runtime, job, txnVars, callVars,
                 faults>>

(* The request ends and its session is closed: what is not committed is     *)
(* rolled back, locks are released.                                         *)
EndWith(r, answer) ==
  /\ Goto(r, answer)
  /\ Release(r)
  /\ UNCHANGED <<seen, repl, callVars>>
-----------------------------------------------------------------------------
(* Gateway calls.  The plan of a call is made from the routes listed first. *)
Plan(r, deletes, upserts, captured, next) ==
  /\ del' = [del EXCEPT ![r] = deletes]
  /\ put' = [put EXCEPT ![r] = upserts]
  /\ prev' = [prev EXCEPT ![r] =
                [i \in Route |-> IF captured[i] # 0 THEN captured[i] ELSE @[i]]]
  /\ after' = [after EXCEPT ![r] = next]
  /\ Goto(r, "calls")

(* Mutant: sync does not report the stale routes it deletes.                *)
SyncServiceRoutes_ForgetsStale(r, v, next) ==
  LET docs == Documents(v) IN
  Plan(r, {i \in Route : routes[i] # 0 /\ docs[i] = 0}, docs,
       [i \in Route |-> IF docs[i] # 0 THEN routes[i] ELSE 0], next)

(* sync_service_routes: the routes of v replace all routes of the service,  *)
(* those of its other versions included; all of them are captured.          *)
SyncServiceRoutes(r, v, next) ==
  LET docs == Documents(v) IN
  Plan(r, {i \in Route : routes[i] # 0 /\ docs[i] = 0}, docs, routes, next)

(* delete_service_routes, of both routes of v or of the version route only. *)
DeleteServiceRoutes(r, ids, next) ==
  Plan(r, ids, NoRoutes, [i \in Route |-> IF i \in ids THEN routes[i] ELSE 0],
       next)

(* rollback_service_routes: captured routes are upserted, other routes of   *)
(* the configuration deleted.                                               *)
RollbackServiceRoutes(r, ids, next) ==
  Plan(r, {i \in ids : prev[r][i] = 0}, prev[r], NoRoutes, next)

(* reconcile upserts what differs before it deletes what is not expected;   *)
(* every other operation deletes first.                                     *)
NextCall(r) ==
  LET puts == {i \in Route : put[r][i] # 0}
      first == IF kind[r] = "reconcile" THEN puts ELSE del[r]
  IN IF first # {} THEN first ELSE del[r] \cup puts

(* One HTTP call to the gateway: DELETE (404 included) or PUT of one route. *)
GatewayCall(r) ==
  /\ At(r, "calls")
  /\ \E i \in NextCall(r) :
       IF i \in del[r]
       THEN /\ routes' = [routes EXCEPT ![i] = 0]
            /\ del' = [del EXCEPT ![r] = @ \ {i}]
            /\ UNCHANGED put
       ELSE /\ routes' = [routes EXCEPT ![i] = put[r][i]]
            /\ put' = [put EXCEPT ![r][i] = 0]
            /\ UNCHANGED del
  /\ UNCHANGED <<reqVars, rowVars, runtime, job, pc, txnVars, prev, after, faults>>

(* The last call has been answered: the handler goes on.                    *)
GatewayReturn(r) ==
  /\ At(r, "calls")
  /\ NextCall(r) = {}
  /\ Goto(r, after[r])
  /\ UNCHANGED <<reqVars, rowVars, routes, runtime, job, txnVars, callVars, faults>>

(* A call fails.  Handlers roll the transaction back and answer 502, also   *)
(* when the call was a compensation; a rollback job restores what it found  *)
(* active unless it is already restoring.                                   *)
GatewayFails(r) ==
  /\ At(r, "calls")
  /\ NextCall(r) # {}
  /\ Fault
  /\ del' = [del EXCEPT ![r] = {}]
  /\ put' = [put EXCEPT ![r] = NoRoutes]
  /\ Goto(r, CASE after[r] = "activate" -> "check"
               [] after[r] = "reactivate" -> "lost"
               [] OTHER -> "failed")
  /\ Release(r)
  /\ UNCHANGED <<reqVars, rowVars, routes, runtime, job, seen, repl, prev, after>>
-----------------------------------------------------------------------------
(* activate_artifact_version: activate_version reads the row (404 if there  *)
(* is none).                                                                *)
BeginActivate(r) ==
  /\ At(r, "begin") /\ kind[r] = "activate"
  /\ IF version[r] \in exists
     THEN Goto(r, "deactivate") /\ UNCHANGED <<txnVars, callVars>>
     ELSE EndWith(r, "refused")
  /\ UNCHANGED <<reqVars, rowVars, routes, runtime, job, faults>>

(* create_artifact_version lists the rows: explicitly active, or active     *)
(* when it is the first.  No route is published.                            *)
BeginCreate(r) ==
  /\ At(r, "begin") /\ kind[r] \in {"create", "create_active"}
  /\ Goto(r, IF kind[r] = "create_active" \/ exists = {} THEN "deactivate"
                                                          ELSE "insert")
  /\ UNCHANGED <<reqVars, rowVars, routes, runtime, job, txnVars, callVars, faults>>

(* _deactivate_service_versions, its first statement: SELECT FOR UPDATE of  *)
(* the active row.  The UPDATE that follows is for all rows there are then. *)
Deactivate(r) ==
  /\ pc[r] \in {"deactivate", "activate", "reactivate"}
  /\ Free(r, active)
  /\ held' = [held EXCEPT ![r] = active]
  /\ todo' = [todo EXCEPT ![r] = exists \ active]
  /\ Goto(r, CASE At(r, "activate") -> "activating"
               [] At(r, "reactivate") -> "reactivating"
               [] OTHER -> "locking")
  /\ UNCHANGED <<reqVars, rowVars, routes, runtime, job, seen, repl, callVars,
                 faults>>

(* A statement for several rows comes to one of them, in an order of its    *)
(* own; a row that is gone by then is passed over.                          *)
LockRow(r) ==
  /\ pc[r] \in {"locking", "activating", "reactivating", "deleting"}
  /\ \E i \in todo[r] :
       /\ Free(r, {i})
       /\ held' = [held EXCEPT ![r] = @ \cup ({i} \cap exists)]
       /\ todo' = [todo EXCEPT ![r] = @ \ {i}]
  /\ UNCHANGED <<reqVars, rowVars, routes, runtime, job, pc, seen, repl, callVars,
                 faults>>

(* is_active is set, which claims the key of the one active row: an error   *)
(* if the row is gone, or if a row that was not there for the UPDATE is     *)
(* active (the index).                                                      *)
Activates(r, v) == {v} \cup active \subseteq held[r]

ClaimActive(r) ==
  /\ At(r, "locking") /\ kind[r] = "activate" /\ todo[r] = {}
  /\ Free(r, {0})
  /\ IF Activates(r, version[r])
     THEN /\ Lock(r, {0})
          /\ Goto(r, "sync")
          /\ UNCHANGED <<seen, repl, callVars>>
     ELSE EndWith(r, "failed")
  /\ UNCHANGED <<reqVars, rowVars, routes, runtime, job, faults>>

(* The INSERT of create_version: the number may be taken                    *)
(* (uq_service_version), or the active key; both are a 409.                 *)
InsertVersion(r) ==
  LET on == At(r, "locking")
      keys == {version[r]} \cup (IF on THEN {0} ELSE {})
  IN
  /\ kind[r] \in {"create", "create_active"}
  /\ At(r, "insert") \/ (on /\ todo[r] = {})
  /\ Free(r, keys)
  /\ IF version[r] \notin exists /\ (on => active \subseteq held[r])
     THEN /\ Lock(r, keys)
          /\ Goto(r, "commit")
          /\ UNCHANGED <<seen, repl, callVars>>
     ELSE EndWith(r, "refused")
  /\ UNCHANGED <<reqVars, rowVars, routes, runtime, job, faults>>

(* update_artifact_version may rewrite the scope of a row: a version leaves  *)
(* this scope, or one of another scope comes in.                            *)
BeginUpdate(r) ==
  /\ At(r, "begin") /\ kind[r] = "update"
  /\ Goto(r, IF version[r] \in exists THEN "move_out" ELSE "move_in")
  /\ UNCHANGED <<reqVars, rowVars, routes, runtime, job, txnVars, callVars, faults>>

(* The UPDATE of its row fails if the row is gone, if its number is taken   *)
(* here, or if it is active and this scope has an active version already.   *)
MoveVersion(r) ==
  LET v == version[r]
      Claim(on) == {v} \cup (IF on THEN {0} ELSE {})
  IN
  /\ pc[r] \in {"move_out", "move_in"}
  /\ \E on \in BOOLEAN :
       /\ v \in exists => on = (v \in active)
       /\ Free(r, Claim(on))
       /\ IF At(r, "move_out") = (v \in exists) /\ (on => active \subseteq {v})
          THEN /\ Lock(r, Claim(on))
               /\ Goto(r, "commit")
               /\ UNCHANGED <<seen, repl, callVars>>
          ELSE EndWith(r, "failed")
  /\ UNCHANGED <<reqVars, rowVars, routes, runtime, job, faults>>

(* delete_artifact_version first reads the row, its is_active included,     *)
(* without a lock: get_version's answer is what the handler goes by.        *)
BeginDelete(r) ==
  /\ At(r, "begin") /\ kind[r] = "delete"
  /\ IF version[r] \in exists
     THEN /\ seen' = [seen EXCEPT ![r] =
                        IF version[r] \in active THEN version[r] ELSE 0]
          /\ Goto(r, "rows")
          /\ UNCHANGED <<held, todo, repl, callVars>>
     ELSE EndWith(r, "refused")
  /\ UNCHANGED <<reqVars, rowVars, routes, runtime, job, faults>>

(* delete_version: the row goes, and if it was read as active the highest   *)
(* other version is to become active.                                       *)
DeleteRow(r) ==
  LET v == version[r]
      w == IF seen[r] = 0 THEN 0 ELSE MaxOrNone(exists \ {v})
  IN
  /\ At(r, "rows")
  /\ Free(r, {v})
  /\ Lock(r, {v})
  /\ repl' = [repl EXCEPT ![r] = w]
  /\ Goto(r, IF w = 0 THEN "unroute" ELSE "replace")
  /\ UNCHANGED <<reqVars, rowVars, routes, runtime, job, seen, callVars, faults>>

(* Mutant: the index on the active row is not there to refuse.              *)
ReplaceVersion_NoIndex(r) ==
  /\ At(r, "replace")
  /\ Free(r, {repl[r]})
  /\ Lock(r, {repl[r]})
  /\ Goto(r, "unroute")
  /\ UNCHANGED <<reqVars, rowVars, routes, runtime, job, seen, repl, callVars,
                 faults>>

(* The UPDATE of the replacement comes later, with the next query: its row  *)
(* was read without a lock and may be gone, or the index may refuse it.     *)
ReplaceVersion(r) ==
  LET w == repl[r] IN
  /\ At(r, "replace")
  /\ Free(r, {0, w})
  /\ IF w \in exists /\ active \subseteq {version[r], w}
     THEN /\ Lock(r, {0, w})
          /\ Goto(r, "unroute")
          /\ UNCHANGED <<seen, repl, callVars>>
     ELSE EndWith(r, "failed")
  /\ UNCHANGED <<reqVars, rowVars, routes, runtime, job, faults>>

(* delete_service reads the rows, deletes them one after the other in the   *)
(* order of their ids, and leaves the routes.                               *)
BeginDeleteService(r) ==
  /\ At(r, "begin") /\ kind[r] = "delete_service"
  /\ IF exists = {}
     THEN EndWith(r, "refused")
     ELSE /\ todo' = [todo EXCEPT ![r] = exists]
          /\ Goto(r, "deleting")
          /\ UNCHANGED <<held, seen, repl, callVars>>
  /\ UNCHANGED <<reqVars, rowVars, routes, runtime, job, faults>>

DeleteService(r) ==
  /\ At(r, "deleting") /\ todo[r] = {}
  /\ Goto(r, "commit")
  /\ UNCHANGED <<reqVars, rowVars, routes, runtime, job, txnVars, callVars, faults>>

(* Who waits for whom.  The keys of the unique indexes come after all rows, *)
(* so only an INSERT can wait in a circle for one.                          *)
Wanted(r) ==
  CASE pc[r] \in {"deactivate", "activate", "reactivate"} -> active
    [] pc[r] \in {"rows", "insert", "move_in", "move_out", "update"} -> {version[r]}
    [] At(r, "replace") -> {repl[r]}
    [] At(r, "locking") /\ todo[r] = {} -> {version[r]}
    [] pc[r] \in {"locking", "activating", "reactivating", "deleting"} -> todo[r]
    [] OTHER -> {}
WaitsFor(r, q) == r # q /\ Wanted(r) \cap held[q] # {}

(* PostgreSQL finds a circle and aborts one of its transactions: before the *)
(* handlers call the gateway, and with a 500; the rollback job goes on as   *)
(* after any other error of its store.                                      *)
DeadlockAbort(r) ==
  /\ \E S \in SUBSET Requests :
       /\ r \in S
       /\ \A p \in S : /\ \E q \in S : WaitsFor(p, q)
                       /\ \E q \in S : WaitsFor(q, p)
  /\ Goto(r, CASE pc[r] \in {"activate", "activating"} -> "check"
               [] pc[r] \in {"update", "reactivate", "reactivating"} -> "lost"
               [] OTHER -> "failed")
  /\ Release(r)
  /\ UNCHANGED <<reqVars, rowVars, routes, runtime, job, seen, repl, callVars,
                 faults>>

(* The routes of the deleted version: only its version route when another   *)
(* version takes over the default route or has it already, else both.       *)
Unroute(r) ==
  LET v == version[r]
      ids == IF seen[r] # 0 /\ repl[r] = 0 THEN {0, v} ELSE {v}
  IN
  /\ At(r, "unroute")
  /\ DeleteServiceRoutes(r, ids, IF repl[r] # 0 THEN "sync" ELSE "commit")
  /\ UNCHANGED <<reqVars, rowVars, routes, runtime, job, txnVars, faults>>

(* Both handlers publish the routes of the version that becomes active, and *)
(* the rollback job those of its target, outside any transaction.           *)
Sync(r) ==
  /\ At(r, "sync")
  /\ SyncServiceRoutes(r, IF repl[r] # 0 THEN repl[r] ELSE version[r],
                       IF kind[r] = "rollback" THEN "activate" ELSE "commit")
  /\ UNCHANGED <<reqVars, rowVars, routes, runtime, job, txnVars, faults>>

(* The rows as the transaction of r leaves them.                            *)
Rows(r) ==
  CASE kind[r] = "activate" -> <<exists, {version[r]}>>
    [] kind[r] = "update" /\ version[r] \in exists ->
         <<exists \ {version[r]}, active \ {version[r]}>>
    [] kind[r] = "delete" ->
         <<exists \ {version[r]},
           (active \ {version[r]}) \cup ({repl[r]} \ {0})>>
    [] kind[r] = "delete_service" -> <<exists \ held[r], active \ held[r]>>
    [] OTHER -> <<exists \cup {version[r]},
                  IF 0 \in held[r] THEN {version[r]} ELSE active>>

(* Mutant: the transaction stays open after the answer.                     *)
Commit_KeepsLocks(r) ==
  /\ At(r, "commit")
  /\ exists' = Rows(r)[1]
  /\ active' = Rows(r)[2]
  /\ Goto(r, "ok")
  /\ UNCHANGED <<reqVars, routes, runtime, job, txnVars, callVars, faults>>

(* append_entry of the audit log, and the commit.                           *)
Commit(r) ==
  /\ At(r, "commit")
  /\ exists' = Rows(r)[1]
  /\ active' = Rows(r)[2]
  /\ EndWith(r, "ok")
  /\ UNCHANGED <<reqVars, routes, runtime, job, faults>>

(* The audit entry or the commit fails: the transaction is rolled back and  *)
(* its locks are gone before the routes are compensated.                    *)
CommitFails(r) ==
  /\ At(r, "commit")
  /\ Fault
  /\ Release(r)
  /\ Goto(r, IF kind[r] \in {"activate", "delete"} THEN "compensate"
                                                   ELSE "failed")
  /\ UNCHANGED <<reqVars, rowVars, routes, runtime, job, seen, repl, callVars>>

(* route_publisher.rollback of the configuration published last.            *)
Compensate(r) ==
  LET v == version[r]
      ids == IF repl[r] # 0 THEN {0, repl[r]}
             ELSE IF kind[r] = "delete" /\ seen[r] = 0 THEN {v} ELSE {0, v}
  IN
  /\ At(r, "compensate")
  /\ RollbackServiceRoutes(r, ids, "compensated")
  /\ UNCHANGED <<reqVars, rowVars, routes, runtime, job, txnVars, faults>>

(* reconcile reads the committed rows, and then lists the gateway.          *)
ReconcileRead(r) ==
  /\ At(r, "begin") /\ kind[r] = "reconcile"
  /\ put' = [put EXCEPT ![r] = Expected]
  /\ Goto(r, "list")
  /\ UNCHANGED <<reqVars, rowVars, routes, runtime, job, txnVars, del, prev, after,
                 faults>>

(* Mutant: reconcile does not delete what is no longer expected.            *)
ReconcileList_KeepsRoutes(r) ==
  /\ At(r, "list")
  /\ Plan(r, {},
          [i \in Route |-> IF routes[i] # put[r][i] THEN put[r][i] ELSE 0],
          NoRoutes, "ok")
  /\ UNCHANGED <<reqVars, rowVars, routes, runtime, job, txnVars, faults>>

ReconcileList(r) ==
  /\ At(r, "list")
  /\ Plan(r, {i \in Route : routes[i] # 0 /\ put[r][i] = 0},
          [i \in Route |-> IF routes[i] # put[r][i] THEN put[r][i] ELSE 0],
          NoRoutes, "ok")
  /\ UNCHANGED <<reqVars, rowVars, routes, runtime, job, txnVars, faults>>
-----------------------------------------------------------------------------
(* The rollback job: the route that makes it (rollback_compilation), its    *)
(* execution by the worker (_execute_rollback_request), and in it           *)
(* RollbackWorkflow.run, each store call a transaction of its own.          *)

(* The row is there; the message is sent and the audit entry committed.     *)
(* When one of them fails the row is deleted again, also when the message   *)
(* is out: the worker then inserts it anew.                                 *)
Dispatch(r) ==
  /\ At(r, "accept")
  /\ \/ /\ Goto(r, "begin") /\ NoFault
        /\ job' = [job EXCEPT ![r] = "pending"]
     \/ /\ Goto(r, "refused") /\ Fault
        /\ UNCHANGED job
     \/ /\ Goto(r, "begin") /\ Fault
        /\ UNCHANGED job
  /\ UNCHANGED <<reqVars, rowVars, routes, runtime, txnVars, callVars>>

(* create_job, the first events and mark_job_running, whatever the row says *)
(* so far; an error here is outside the try block and leaves the row.       *)
StartJob(r) ==
  /\ At(r, "begin") /\ kind[r] = "rollback"
  /\ \/ /\ Goto(r, "resolve") /\ NoFault
        /\ job' = [job EXCEPT ![r] = "running"]
     \/ /\ Goto(r, "failed") /\ Fault
        /\ \E s \in {job[r], "running"} :
             job' = [job EXCEPT ![r] = IF s = "absent" THEN "pending" ELSE s]
  /\ UNCHANGED <<reqVars, rowVars, routes, runtime, txnVars, callVars>>

(* The workflow has returned or raised, and its outcome is recorded; if     *)
(* that fails the row says running for good.                                *)
RecordOutcome(r) ==
  /\ pc[r] \in {"won", "lost"}
  /\ \/ /\ job' = [job EXCEPT ![r] = IF At(r, "won") THEN "succeeded"
                                                     ELSE "failed"]
        /\ Goto(r, IF At(r, "won") THEN "ok" ELSE "failed")
        /\ NoFault
     \/ Goto(r, "failed") /\ Fault /\ UNCHANGED job
  /\ UNCHANGED <<reqVars, rowVars, routes, runtime, txnVars, callVars>>

(* The task is delivered once more: there is no duplicate test.             *)
Redeliver(r) ==
  /\ kind[r] = "rollback" /\ pc[r] \in {"ok", "failed"}
  /\ Busy = {} \/ "rollback" \in regime.overlap
  /\ \A q \in Busy : kind[q] \in regime.overlap
  /\ Fault
  /\ Goto(r, "begin")
  /\ prev' = [prev EXCEPT ![r] = NoRoutes]
  /\ UNCHANGED <<reqVars, rowVars, routes, runtime, job, txnVars, del, put,
                 after>>

(* It reads the active version, and the target it is to go back to.         *)
RollbackBegin(r) ==
  /\ At(r, "resolve")
  /\ seen' = [seen EXCEPT ![r] = Active]
  /\ Goto(r, IF version[r] \in exists THEN "apply" ELSE "lost")
  /\ UNCHANGED <<reqVars, rowVars, routes, runtime, job, held, todo, repl, callVars,
                 faults>>

(* apply_version and wait_for_rollout of the target, or in a restore of the *)
(* version that was active.  A deployment that fails deletes the resources  *)
(* it applied, those that were there before included.                       *)
Deploy(r, v, next) ==
  /\ Goto(r, next)
  /\ runtime' = runtime \cup {v}
  /\ NoFault
  /\ UNCHANGED <<reqVars, rowVars, routes, job, txnVars, callVars>>

DeployFails(r, v) ==
  /\ Fault
  /\ runtime' \in {runtime, runtime \ {v}}
  /\ Goto(r, "lost")
  /\ UNCHANGED <<reqVars, rowVars, routes, job, txnVars, callVars>>

Apply(r) == At(r, "apply") /\ Deploy(r, version[r], "validate")
ApplyFails(r) == At(r, "apply") /\ DeployFails(r, version[r])

(* The validator passes, or reports a failure, on which the job restores;   *)
(* or it raises, and the job fails as it stands.                            *)
Validate(r) ==
  /\ At(r, "validate")
  /\ \/ Goto(r, "update") /\ NoFault
     \/ Goto(r, "check") /\ Fault
     \/ Goto(r, "lost") /\ Fault
  /\ after' = [after EXCEPT ![r] = "reapply"]
  /\ UNCHANGED <<reqVars, rowVars, routes, runtime, job, txnVars, del, put, prev>>

(* update_version stores revision and report; a failure is not restored.    *)
UpdateVersion(r) ==
  /\ At(r, "update")
  /\ Free(r, {version[r]} \cap exists)
  /\ \/ Goto(r, "sync") /\ NoFault
     \/ Goto(r, "lost") /\ Fault
  /\ UNCHANGED <<reqVars, rowVars, routes, runtime, job, txnVars, callVars>>

(* activate_version with its own commit: the target becomes active; or its  *)
(* row is gone, or the store fails, before the commit or after it (the      *)
(* refresh), and the job restores.                                          *)
Activate(r) ==
  /\ At(r, "activating") /\ todo[r] = {}
  /\ Free(r, {0})
  /\ \/ /\ Activates(r, version[r])
        /\ active' = {version[r]}
        /\ Goto(r, "won")
        /\ NoFault
     \/ /\ ~Activates(r, version[r])
        /\ Goto(r, "check")
        /\ NoFault
        /\ UNCHANGED active
     \/ /\ Fault
        /\ Goto(r, "check")
        /\ \/ UNCHANGED active
           \/ Activates(r, version[r]) /\ active' = {version[r]}
  /\ Release(r)
  /\ UNCHANGED <<reqVars, exists, routes, runtime, job, seen, repl, callVars>>

(* _restore_current_active: nothing to do unless the version that was       *)
(* active still is.                                                         *)
RestoreCheck(r) ==
  /\ At(r, "check")
  /\ Goto(r, IF seen[r] # 0 /\ Active = seen[r] THEN "reapply" ELSE "lost")
  /\ UNCHANGED <<reqVars, rowVars, routes, runtime, job, txnVars, callVars, faults>>

Reapply(r) ==
  /\ At(r, "reapply")
  /\ Deploy(r, seen[r],
            IF after[r] = "reapply" THEN "reactivate" ELSE "reroute")
ReapplyFails(r) == At(r, "reapply") /\ DeployFails(r, seen[r])

(* Mutant: the restore leaves the routes alone.                             *)
Reroute_Skipped(r) ==
  /\ At(r, "reroute")
  /\ Goto(r, "reactivate")
  /\ UNCHANGED <<reqVars, rowVars, routes, runtime, job, txnVars, callVars, faults>>

Reroute(r) ==
  /\ At(r, "reroute")
  /\ SyncServiceRoutes(r, seen[r], "reactivate")
  /\ UNCHANGED <<reqVars, rowVars, routes, runtime, job, txnVars, faults>>

(* The job has failed in any case; the restored version is activated (an    *)
(* error after this commit changes nothing more).                           *)
Reactivate(r) ==
  /\ At(r, "reactivating") /\ todo[r] = {}
  /\ Free(r, {0})
  /\ Goto(r, "lost")
  /\ \/ /\ active' = IF Activates(r, seen[r]) THEN {seen[r]} ELSE active
        /\ NoFault
     \/ Fault /\ UNCHANGED active
  /\ Release(r)
  /\ UNCHANGED <<reqVars, exists, routes, runtime, job, seen, repl, callVars>>
-----------------------------------------------------------------------------
Serve(r) ==
  \/ GatewayCall(r) \/ GatewayReturn(r)
  \/ BeginActivate(r) \/ BeginCreate(r) \/ BeginUpdate(r) \/ BeginDelete(r)
  \/ BeginDeleteService(r) \/ Deactivate(r) \/ LockRow(r) \/ ClaimActive(r)
  \/ InsertVersion(r) \/ MoveVersion(r) \/ DeleteRow(r) \/ ReplaceVersion(r)
  \/ DeleteService(r) \/ DeadlockAbort(r)
  \/ Unroute(r) \/ Sync(r) \/ Commit(r) \/ Compensate(r)
  \/ ReconcileRead(r) \/ ReconcileList(r)
  \/ Dispatch(r) \/ StartJob(r) \/ RecordOutcome(r)
  \/ RollbackBegin(r) \/ Apply(r) \/ Validate(r) \/ UpdateVersion(r)
  \/ Activate(r) \/ RestoreCheck(r) \/ Reapply(r) \/ Reroute(r)
  \/ Reactivate(r)

Fails(r) ==
  \/ GatewayFails(r) \/ CommitFails(r) \/ ApplyFails(r) \/ ReapplyFails(r)

Next ==
  \E r \in Requests :
    \/ \E k \in Kinds, v \in Versions : Arrive(r, k, v)
    \/ Serve(r)
    \/ Fails(r)
    \/ Redeliver(r)

Spec == Init /\ [][Next]_vars

(* Every request that has begun is served: the API and the worker keep      *)
(* running, a lock that is free is eventually granted, and PostgreSQL looks *)
(* for deadlocks after deadlock_timeout.                                    *)
FairSpec == Spec /\ \A r \in Requests : WF_vars(Serve(r))
-----------------------------------------------------------------------------
Quiet == Busy = {}

(* At most one version of a service is active, whatever requests overlap:   *)
(* the row locks of _deactivate_service_versions and the unique index see   *)
(* to it although delete_version goes by an is_active it read without lock. *)
OneActive == \A v, w \in active : v = w

(* A handler that could not commit and whose compensation went through has  *)
(* put back all routes of the service, those of other versions that the     *)
(* synchronisation had deleted included.                                    *)
CompensationRestores ==
  regime.overlap = {} =>
    \A r \in Requests :
      At(r, "compensated") /\ (\A q \in Requests \ {r} : kind[q] = "none")
        => routes = before[r]

(* v serves: it is the active version, deployed, behind the default route.  *)
InService(v) == active = {v} /\ v \in runtime /\ routes[0] = v

(* What the row of a rollback job says is so, when one thing went wrong (or *)
(* nothing) and nothing else ran: a job that succeeded has put the target   *)
(* in service; of one that failed the former version serves, unless the     *)
(* error came after the commit of activate_version, when the target does    *)
(* (the restore is skipped and no later step has planned gateway calls);    *)
(* one that was refused or whose row was left running has taken no version  *)
(* out of service: the former one serves, or the target already does.       *)
RollbackTruthful ==
  regime.overlap = {} /\ faults <= 1 =>
    \A r \in Requests :
      /\ kind[r] = "rollback" /\ pc[r] \in Ended
      /\ \A q \in Requests \ {r} : kind[q] = "none"
      => CASE job[r] = "succeeded" -> InService(version[r])
           [] job[r] = "failed" ->
                InService(IF after[r] = "activate" THEN version[r] ELSE seen[r])
           [] OTHER -> InService(before[r][0]) \/ InService(version[r])

(* Reconciliation heals: when it has run alone, default and version routes  *)
(* are those the registry asks for, whatever failures came before it.       *)
ReconcileHeals ==
  regime.overlap = {} =>
    \A r \in Requests :
      /\ kind[r] = "reconcile" /\ At(r, "calls") /\ NextCall(r) = {}
      => routes = Expected

(* No request waits for ever, for a lock or for another request: although   *)
(* delete_version, delete_service and _deactivate_service_versions lock     *)
(* rows in different orders, whoever waits in a circle is thrown out of it, *)
(* and its locks with it.                                                   *)
RequestsEnd == \A r \in Requests : At(r, "begin") ~> pc[r] \in Ended
=============================================================================
