------------------------ MODULE ArtifactRegistryProofs ------------------------
(* Proofs about ArtifactRegistry for any number of versions and requests    *)
(* and any regime: which requests are made, which of them may overlap, and  *)
(* how many errors there are.                                               *)
EXTENDS ArtifactRegistry, WellFoundedInduction, TLAPS

(* The step of one request.                                                 *)
StepOf(r) ==
  \/ \E k \in Kinds, v \in Versions : Arrive(r, k, v)
  \/ Serve(r)
  \/ Fails(r)
  \/ Redeliver(r)
-----------------------------------------------------------------------------
(* Highest versions.                                                        *)
LEMMA Highest ==
  ASSUME NEW S \in SUBSET Versions, S # {}
  PROVE  Max(S) \in S /\ \A y \in S : y <= Max(S)
<1>1. NumVersions \in Nat
  BY RegistryAssumption
<1> DEFINE T == {NumVersions - x : x \in S}
<1>2. T \in SUBSET Nat /\ T # {}
  <2>1. \A x \in S : NumVersions - x \in Nat
    BY <1>1 DEF Versions
  <2> QED
    BY <2>1
<1> HIDE DEF T
<1>3. IsWellFoundedOn(OpToRel(<, Nat), Nat)
  BY NatLessThanWellFounded
<1>4. PICK t \in T : \A y \in T : ~ (<<y, t>> \in OpToRel(<, Nat))
  BY <1>2, <1>3, WFMin
<1>5. \A y \in T : ~ (y < t)
  BY <1>2, <1>4 DEF OpToRel
<1>6. PICK x \in S : t = NumVersions - x
  BY DEF T
<1>7. \A y \in S : x >= y
  <2> SUFFICES ASSUME NEW y \in S PROVE x >= y
    OBVIOUS
  <2>1. ~ (NumVersions - y < t)
    BY <1>5 DEF T
  <2> QED
    BY <1>1, <1>6, <2>1 DEF Versions
<1>8. Max(S) \in S /\ \A y \in S : Max(S) >= y
  BY <1>7 DEF Max
<1> QED
  BY <1>1, <1>8 DEF Versions

LEMMA MaxType ==
  ASSUME NEW S \in SUBSET Versions
  PROVE  MaxOrNone(S) \in Route /\ (MaxOrNone(S) # 0 => MaxOrNone(S) \in S)
<1>1. NumVersions \in Nat /\ 0 \in Route /\ Versions \subseteq Route
  BY RegistryAssumption DEF Route, Versions
<1> QED
  BY <1>1, Highest DEF MaxOrNone

LEMMA ActiveType ==
  ASSUME active \subseteq Versions
  PROVE  /\ Active \in Route /\ 0 \notin Versions
         /\ Active # 0 => Active \in active
         /\ Active = 0 => active = {}
<1>1. NumVersions \in Nat /\ 0 \in Route /\ Versions \subseteq Route /\ 0 \notin Versions
  BY RegistryAssumption DEF Route, Versions
<1> QED
  BY <1>1 DEF Active
-----------------------------------------------------------------------------
(* The steps each kind of request goes through, and the steps that follow   *)
(* its gateway calls; a restore redeploys a version.                        *)
Course(r) ==
  /\ kind[r] = "none" => pc[r] = "idle"
  /\ kind[r] \in {"create", "create_active"} =>
       pc[r] \in {"begin", "deactivate", "locking", "insert", "commit", "ok", "refused", "failed"}
  /\ kind[r] = "update" =>
       pc[r] \in {"begin", "move_in", "move_out", "commit", "ok", "refused", "failed"}
  /\ kind[r] = "delete_service" =>
       pc[r] \in {"begin", "deleting", "commit", "ok", "refused", "failed"}
  /\ kind[r] = "reconcile" => /\ pc[r] \in {"begin", "list", "calls", "ok", "failed"}
                              /\ pc[r] = "calls" => after[r] = "ok"
  /\ kind[r] = "activate" =>
       /\ pc[r] \in {"begin", "deactivate", "locking", "sync", "calls", "commit", "compensate"}
                    \cup Ended
       /\ pc[r] = "calls" => after[r] \in {"commit", "compensated"}
  /\ kind[r] = "delete" =>
       /\ pc[r] \in {"begin", "rows", "replace", "unroute", "sync", "calls", "commit", "compensate"}
                    \cup Ended
       /\ pc[r] = "calls" => after[r] \in {"sync", "commit", "compensated"}
  /\ kind[r] = "rollback" =>
       /\ pc[r] \in {"accept", "begin", "resolve", "apply", "validate", "update", "sync", "calls",
                     "activate", "activating", "check", "reapply", "reroute", "reactivate",
                     "reactivating", "won", "lost", "ok", "refused", "failed"}
       /\ pc[r] = "calls" => after[r] \in {"activate", "reactivate"}
  /\ pc[r] = "reapply" => seen[r] # 0

Typed == TypeOK /\ \A r \in Requests : Course(r)

LEMMA RouteFacts ==
  /\ NumVersions \in Nat /\ 0 \in Route /\ Versions \subseteq Route /\ 0 \notin Versions
  /\ NoRoutes \in Routing
  /\ \A v \in Route : Documents(v) \in Routing
  /\ Route = Versions \cup {0}
<1>1. NumVersions \in Nat /\ 0 \in Route /\ Versions \subseteq Route /\ 0 \notin Versions
      /\ Route = Versions \cup {0}
  BY RegistryAssumption DEF Route, Versions
<1> QED
  BY <1>1 DEF NoRoutes, Routing, Documents

LEMMA ExpectedType ==
  ASSUME TypeOK
  PROVE  Expected \in Routing
<1>1. active \subseteq Versions /\ exists \subseteq Versions
  BY DEF TypeOK
<1> QED
  BY <1>1, ActiveType, RouteFacts DEF Expected, Routing

LEMMA FaultType ==
  ASSUME TypeOK, Fault
  PROVE  faults' \in 0 .. regime.faults
<1>1. regime \in Regime /\ regime.faults \in Nat /\ faults \in 0 .. regime.faults
  BY RegistryAssumption DEF TypeOK, Regime
<1> QED
  BY <1>1 DEF Fault

(* What a request can do to the rows, routes, runtimes and job rows.        *)
LEMMA PlanTypes ==
  ASSUME TypeOK, NEW r \in Requests, NEW deletes \in SUBSET Route, NEW upserts \in Routing,
         NEW captured \in Routing, NEW next \in Step \cup Ended,
         Plan(r, deletes, upserts, captured, next)
  PROVE  /\ del' \in [Requests -> SUBSET Route]
         /\ put' \in [Requests -> Routing]
         /\ prev' \in [Requests -> Routing]
         /\ after' \in [Requests -> Step \cup Ended]
         /\ pc' \in [Requests -> Step \cup Ended \cup {"idle"}]
         /\ del'[r] = deletes /\ put'[r] = upserts /\ after'[r] = next /\ pc'[r] = "calls"
         /\ prev'[r] = [i \in Route |-> IF captured[i] # 0 THEN captured[i] ELSE prev[r][i]]
<1>1. [i \in Route |-> IF captured[i] # 0 THEN captured[i] ELSE prev[r][i]] \in Routing
  BY DEF TypeOK, Routing
<1> QED
  BY <1>1 DEF TypeOK, Plan, Goto, Step

(* The plans of the gateway calls.                                          *)
LEMMA PlannedCalls ==
  ASSUME TypeOK, NEW r \in Requests
  PROVE  /\ \A v \in Route, next \in Step \cup Ended : SyncServiceRoutes(r, v, next) =>
              Plan(r, {i \in Route : routes[i] # 0 /\ Documents(v)[i] = 0}, Documents(v),
                   routes, next)
         /\ \A v \in Route, next \in Step \cup Ended : SyncServiceRoutes(r, v, next) =>
              /\ del' \in [Requests -> SUBSET Route] /\ put' \in [Requests -> Routing]
              /\ prev' \in [Requests -> Routing] /\ after' \in [Requests -> Step \cup Ended]
              /\ pc' \in [Requests -> Step \cup Ended \cup {"idle"}]
              /\ pc'[r] = "calls" /\ after'[r] = next
         /\ \A ids \in SUBSET Route, next \in Step \cup Ended : DeleteServiceRoutes(r, ids, next) =>
              /\ del' \in [Requests -> SUBSET Route] /\ put' \in [Requests -> Routing]
              /\ prev' \in [Requests -> Routing] /\ after' \in [Requests -> Step \cup Ended]
              /\ pc' \in [Requests -> Step \cup Ended \cup {"idle"}]
              /\ pc'[r] = "calls" /\ after'[r] = next
         /\ \A ids \in SUBSET Route, next \in Step \cup Ended : RollbackServiceRoutes(r, ids, next) =>
              /\ del' \in [Requests -> SUBSET Route] /\ put' \in [Requests -> Routing]
              /\ prev' \in [Requests -> Routing] /\ after' \in [Requests -> Step \cup Ended]
              /\ pc' \in [Requests -> Step \cup Ended \cup {"idle"}]
              /\ pc'[r] = "calls" /\ after'[r] = next
<1> DEFINE Shaped(next) ==
      /\ del' \in [Requests -> SUBSET Route] /\ put' \in [Requests -> Routing]
      /\ prev' \in [Requests -> Routing] /\ after' \in [Requests -> Step \cup Ended]
      /\ pc' \in [Requests -> Step \cup Ended \cup {"idle"}]
      /\ pc'[r] = "calls" /\ after'[r] = next
<1>1. ASSUME NEW deletes \in SUBSET Route, NEW upserts \in Routing,
             NEW captured \in Routing, NEW next \in Step \cup Ended,
             Plan(r, deletes, upserts, captured, next)
      PROVE  Shaped(next)
  BY <1>1, PlanTypes
<1> HIDE DEF Shaped
<1>2. routes \in Routing /\ prev[r] \in Routing
  BY DEF TypeOK
<1>3. ASSUME NEW v \in Route, NEW next \in Step \cup Ended, SyncServiceRoutes(r, v, next)
      PROVE  /\ Plan(r, {i \in Route : routes[i] # 0 /\ Documents(v)[i] = 0}, Documents(v),
                     routes, next)
             /\ Shaped(next)
  <2>1. Plan(r, {i \in Route : routes[i] # 0 /\ Documents(v)[i] = 0}, Documents(v), routes, next)
    BY <1>3 DEF SyncServiceRoutes
  <2>2. {i \in Route : routes[i] # 0 /\ Documents(v)[i] = 0} \in SUBSET Route
    OBVIOUS
  <2> QED
    BY <1>1, <1>2, <2>1, <2>2, RouteFacts
<1>4. ASSUME NEW ids \in SUBSET Route, NEW next \in Step \cup Ended,
             DeleteServiceRoutes(r, ids, next)
      PROVE  Shaped(next)
  <2> DEFINE captured == [i \in Route |-> IF i \in ids THEN routes[i] ELSE 0]
  <2>1. captured \in Routing
    BY <1>2, RouteFacts DEF Routing
  <2>2. Plan(r, ids, NoRoutes, captured, next)
    BY <1>4 DEF DeleteServiceRoutes
  <2> HIDE DEF captured
  <2> QED
    BY <1>1, <2>1, <2>2, RouteFacts
<1>5. ASSUME NEW ids \in SUBSET Route, NEW next \in Step \cup Ended,
             RollbackServiceRoutes(r, ids, next)
      PROVE  Shaped(next)
  <2> DEFINE deletes == {i \in ids : prev[r][i] = 0}
  <2>1. deletes \in SUBSET Route
    OBVIOUS
  <2>2. Plan(r, deletes, prev[r], NoRoutes, next)
    BY <1>5 DEF RollbackServiceRoutes
  <2> HIDE DEF deletes
  <2> QED
    BY <1>1, <1>2, <2>1, <2>2, RouteFacts
<1> QED
  BY <1>3, <1>4, <1>5 DEF Shaped

(* A transaction is aborted only where it waits for a row.                  *)
LockSteps ==
  {"deactivate", "activate", "reactivate", "rows", "insert", "move_in", "move_out", "update",
   "replace", "locking", "activating", "reactivating", "deleting"}

LEMMA AbortedWaits ==
  ASSUME NEW r \in Requests, DeadlockAbort(r)
  PROVE  pc[r] \in LockSteps /\ \E q \in Requests \ {r} : held[q] # {}
<1>1. PICK q \in Requests : r # q /\ Wanted(r) \cap held[q] # {}
  BY DEF DeadlockAbort, WaitsFor
<1> QED
  BY <1>1 DEF Wanted, LockSteps, At

(* A step of r changes no local of another request.                         *)
LEMMA OthersSame ==
  ASSUME TypeOK, NEW r \in Requests, StepOf(r), NEW q \in Requests \ {r}
  PROVE  /\ job'[q] = job[q] /\ kind'[q] = kind[q] /\ version'[q] = version[q]
         /\ pc'[q] = pc[q] /\ held'[q] = held[q] /\ todo'[q] = todo[q] /\ seen'[q] = seen[q]
         /\ repl'[q] = repl[q] /\ del'[q] = del[q] /\ put'[q] = put[q]
         /\ prev'[q] = prev[q] /\ after'[q] = after[q] /\ before'[q] = before[q]
<1> USE DEF TypeOK, Goto, Lock, Release, txnVars, callVars, reqVars, rowVars, EndWith, Release, Release
<1>1. CASE \E k \in Kinds, v \in Versions : Arrive(r, k, v)
  BY <1>1 DEF Arrive
<1>2. CASE GatewayCall(r) \/ GatewayReturn(r) \/ GatewayFails(r)
  BY <1>2 DEF GatewayCall, GatewayReturn, GatewayFails
<1>3. CASE BeginActivate(r) \/ BeginCreate(r) \/ BeginUpdate(r) \/ BeginDeleteService(r)
  BY <1>3 DEF BeginActivate, BeginCreate, BeginUpdate, BeginDeleteService
<1>4. CASE BeginDelete(r) \/ DeleteRow(r) \/ ReplaceVersion(r) \/ DeleteService(r)
  BY <1>4 DEF BeginDelete, DeleteRow, ReplaceVersion, DeleteService
<1>10. CASE Deactivate(r) \/ LockRow(r) \/ ClaimActive(r) \/ InsertVersion(r)
  BY <1>10 DEF Deactivate, LockRow, ClaimActive, InsertVersion
<1>11. CASE MoveVersion(r) \/ DeadlockAbort(r)
  BY <1>11 DEF MoveVersion, DeadlockAbort
<1>5. CASE Unroute(r) \/ Sync(r) \/ Compensate(r) \/ Reroute(r)
  BY <1>5 DEF Unroute, Sync, Compensate, Reroute, DeleteServiceRoutes, SyncServiceRoutes,
         RollbackServiceRoutes, Plan
<1>6. CASE Commit(r) \/ CommitFails(r) \/ ReconcileRead(r) \/ ReconcileList(r)
  BY <1>6 DEF Commit, CommitFails, ReconcileRead, ReconcileList, Plan
<1>7. CASE Dispatch(r) \/ StartJob(r) \/ RecordOutcome(r) \/ Redeliver(r) \/ RollbackBegin(r)
  BY <1>7 DEF Dispatch, StartJob, RecordOutcome, Redeliver, RollbackBegin
<1>8. CASE Apply(r) \/ ApplyFails(r) \/ Reapply(r) \/ ReapplyFails(r)
  BY <1>8 DEF Apply, ApplyFails, Reapply, ReapplyFails, Deploy, DeployFails
<1>9. CASE Validate(r) \/ UpdateVersion(r) \/ Activate(r) \/ RestoreCheck(r) \/ Reactivate(r)
  BY <1>9 DEF Validate, UpdateVersion, Activate, RestoreCheck, Reactivate
<1> QED
  BY <1>1, <1>2, <1>3, <1>4, <1>5, <1>6, <1>7, <1>8, <1>9, <1>10, <1>11 DEF StepOf, Serve, Fails

(* The locals of a request have their types after its step.                 *)
LocalsTyped ==
  /\ regime' \in Regimes /\ routes' \in Routing /\ runtime' \subseteq Versions
  /\ job' \in [Requests -> JobStatus]
  /\ kind' \in [Requests -> Kinds \cup {"none"}]
  /\ version' \in [Requests -> Versions]
  /\ pc' \in [Requests -> Step \cup Ended \cup {"idle"}]
  /\ held' \in [Requests -> SUBSET Route] /\ todo' \in [Requests -> SUBSET Versions]
  /\ seen' \in [Requests -> Route] /\ repl' \in [Requests -> Route]
  /\ del' \in [Requests -> SUBSET Route] /\ put' \in [Requests -> Routing]
  /\ prev' \in [Requests -> Routing] /\ after' \in [Requests -> Step \cup Ended]
  /\ before' \in [Requests -> Routing]
  /\ faults' \in 0 .. regime'.faults

LEMMA LocalTypes ==
  ASSUME Typed, NEW r \in Requests, StepOf(r)
  PROVE  LocalsTyped
<1>1. TypeOK /\ (pc[r] = "reapply" => seen[r] # 0)
  BY DEF Typed, Course
<1>2. /\ version[r] \in Versions /\ Versions \subseteq Route /\ exists \subseteq Versions
      /\ active \subseteq exists /\ seen[r] \in Route /\ repl[r] \in Route /\ 0 \in Route
      /\ (seen[r] # 0 => seen[r] \in Versions) /\ NoRoutes \in Routing /\ prev[r] \in Routing
      /\ after[r] \in Step \cup Ended /\ routes \in Routing
  BY <1>1, RouteFacts DEF TypeOK
<1>3. Fault => faults' \in 0 .. regime.faults
  BY <1>1, FaultType
<1>4. Active \in Route /\ Expected \in Routing
  BY <1>1, <1>2, ActiveType, ExpectedType
<1> USE <1>1, <1>2, <1>3, <1>4
    DEF LocalsTyped, TypeOK, Goto, At, Lock, Release, txnVars, callVars, reqVars, rowVars, EndWith, Release,
        NoFault, Step, Ended, JobStatus
<1>5. CASE \E k \in Kinds, v \in Versions : Arrive(r, k, v)
  BY <1>5 DEF Arrive
<1>6. CASE GatewayCall(r)
  <2>1. PICK i \in Route :
          \/ /\ routes' = [routes EXCEPT ![i] = 0] /\ del' = [del EXCEPT ![r] = @ \ {i}]
             /\ put' = put
          \/ /\ routes' = [routes EXCEPT ![i] = put[r][i]] /\ put' = [put EXCEPT ![r][i] = 0]
             /\ del' = del
    BY <1>6 DEF GatewayCall, NextCall
  <2>2. put[r][i] \in Route /\ [put[r] EXCEPT ![i] = 0] \in Routing /\ put[r] \in Routing
    BY DEF Routing
  <2>3. routes' \in Routing
    BY <2>1, <2>2 DEF Routing
  <2>4. put' \in [Requests -> Routing]
    BY <2>1, <2>2
  <2>5. del' \in [Requests -> SUBSET Route]
    BY <2>1
  <2> QED
    BY <1>6, <2>3, <2>4, <2>5 DEF GatewayCall
<1>7. CASE GatewayReturn(r)
  BY <1>7 DEF GatewayReturn
<1>8. CASE GatewayFails(r)
  <2>1. PICK l \in Step \cup Ended : pc' = [pc EXCEPT ![r] = l]
    BY <1>8 DEF GatewayFails
  <2> QED
    BY <1>8, <2>1 DEF GatewayFails
<1>9. CASE BeginActivate(r) \/ ClaimActive(r)
  BY <1>9 DEF BeginActivate, ClaimActive
<1>10. CASE BeginCreate(r) \/ InsertVersion(r)
  BY <1>10 DEF BeginCreate, InsertVersion
<1>11. CASE BeginUpdate(r)
  BY <1>11 DEF BeginUpdate
<1>33. CASE MoveVersion(r)
  <2>1. PICK rows \in SUBSET Route :
          \/ /\ held' = [held EXCEPT ![r] = @ \cup rows] /\ todo' = todo
             /\ pc' = [pc EXCEPT ![r] = "commit"]
          \/ /\ held' = [held EXCEPT ![r] = {}] /\ todo' = [todo EXCEPT ![r] = {}]
             /\ pc' = [pc EXCEPT ![r] = "failed"]
    <3>1. \A on \in BOOLEAN : {version[r]} \cup (IF on THEN {0} ELSE {}) \in SUBSET Route
      OBVIOUS
    <3> QED
      BY <1>33, <3>1 DEF MoveVersion
  <2>2. UNCHANGED <<seen, repl, callVars, reqVars, rowVars, routes, runtime, job, faults>>
    BY <1>33 DEF MoveVersion
  <2> QED
    BY <2>1, <2>2
<1>12. CASE BeginDelete(r) \/ BeginDeleteService(r)
  BY <1>12 DEF BeginDelete, BeginDeleteService
<1>13. CASE DeleteRow(r)
  <2>1. PICK w : w = IF seen[r] = 0 THEN 0 ELSE MaxOrNone(exists \ {version[r]})
    OBVIOUS
  <2>2. w \in Route
    <3>1. MaxOrNone(exists \ {version[r]}) \in Route
      BY MaxType
    <3> QED
      BY <2>1, <3>1
  <2>3. /\ pc' = [pc EXCEPT ![r] = IF w = 0 THEN "unroute" ELSE "replace"]
        /\ held' = [held EXCEPT ![r] = @ \cup {version[r]}] /\ todo' = todo
        /\ repl' = [repl EXCEPT ![r] = w] /\ UNCHANGED <<seen, callVars>>
        /\ UNCHANGED <<reqVars, rowVars, routes, runtime, job, faults>>
    BY <1>13, <2>1 DEF DeleteRow
  <2> QED
    BY <2>2, <2>3
<1>29. CASE ReplaceVersion(r)
  BY <1>29 DEF ReplaceVersion
<1>30. CASE Deactivate(r)
  BY <1>30 DEF Deactivate
<1>31. CASE LockRow(r)
  BY <1>31 DEF LockRow
<1>32. CASE DeadlockAbort(r)
  <2>1. PICK l \in Step \cup Ended : pc' = [pc EXCEPT ![r] = l]
    BY <1>32 DEF DeadlockAbort
  <2> QED
    BY <1>32, <2>1 DEF DeadlockAbort
<1>14. CASE Unroute(r)
  <2>1. PICK ids \in SUBSET Route, next \in Step \cup Ended : DeleteServiceRoutes(r, ids, next)
    BY <1>14 DEF Unroute
  <2>2. UNCHANGED <<reqVars, rowVars, routes, runtime, job, txnVars, faults>>
    BY <1>14 DEF Unroute
  <2> QED
    BY <2>1, <2>2, PlannedCalls
<1>15. CASE Sync(r)
  <2>1. PICK v \in Route, next \in Step \cup Ended : SyncServiceRoutes(r, v, next)
    BY <1>15 DEF Sync
  <2>2. UNCHANGED <<reqVars, rowVars, routes, runtime, job, txnVars, faults>>
    BY <1>15 DEF Sync
  <2> QED
    BY <2>1, <2>2, PlannedCalls
<1>16. CASE Reroute(r)
  <2>1. SyncServiceRoutes(r, seen[r], "reactivate")
    BY <1>16 DEF Reroute
  <2>2. UNCHANGED <<reqVars, rowVars, routes, runtime, job, txnVars, faults>>
    BY <1>16 DEF Reroute
  <2> QED
    BY <2>1, <2>2, PlannedCalls
<1>17. CASE Compensate(r)
  <2>1. PICK ids \in SUBSET Route : RollbackServiceRoutes(r, ids, "compensated")
    BY <1>17 DEF Compensate
  <2>2. UNCHANGED <<reqVars, rowVars, routes, runtime, job, txnVars, faults>>
    BY <1>17 DEF Compensate
  <2> QED
    BY <2>1, <2>2, PlannedCalls
<1>18. CASE Commit(r) \/ CommitFails(r) \/ DeleteService(r)
  BY <1>18 DEF Commit, CommitFails, DeleteService
<1>19. CASE ReconcileRead(r)
  BY <1>19 DEF ReconcileRead
<1>20. CASE ReconcileList(r)
  <2> DEFINE deletes == {i \in Route : routes[i] # 0 /\ put[r][i] = 0}
             upserts == [i \in Route |-> IF routes[i] # put[r][i] THEN put[r][i] ELSE 0]
  <2>1. put[r] \in Routing
    OBVIOUS
  <2>2. deletes \in SUBSET Route /\ upserts \in Routing
    BY <2>1 DEF Routing
  <2>3. /\ Plan(r, deletes, upserts, NoRoutes, "ok")
        /\ UNCHANGED <<reqVars, rowVars, routes, runtime, job, txnVars, faults>>
    BY <1>20 DEF ReconcileList
  <2> HIDE DEF deletes, upserts
  <2> QED
    BY <2>2, <2>3, PlanTypes
<1>21. CASE Dispatch(r) \/ RecordOutcome(r)
  BY <1>21 DEF Dispatch, RecordOutcome
<1>22. CASE StartJob(r)
  <2>1. PICK s \in JobStatus, l \in Step \cup Ended :
          job' = [job EXCEPT ![r] = s] /\ pc' = [pc EXCEPT ![r] = l]
    BY <1>22 DEF StartJob
  <2> QED
    BY <1>22, <2>1 DEF StartJob
<1>23. CASE Redeliver(r)
  BY <1>23 DEF Redeliver
<1>24. CASE RollbackBegin(r)
  BY <1>24 DEF RollbackBegin
<1>25. CASE Apply(r) \/ Reapply(r)
  BY <1>25 DEF Apply, Reapply, Deploy
<1>26. CASE ApplyFails(r) \/ ReapplyFails(r)
  BY <1>26 DEF ApplyFails, ReapplyFails, DeployFails
<1>27. CASE Validate(r) \/ UpdateVersion(r) \/ RestoreCheck(r)
  BY <1>27 DEF Validate, UpdateVersion, RestoreCheck
<1>28. CASE Activate(r) \/ Reactivate(r)
  BY <1>28 DEF Activate, Reactivate
<1> QED
  BY <1>5, <1>6, <1>7, <1>8, <1>9, <1>10, <1>11, <1>12, <1>13, <1>14, <1>15, <1>16, <1>17,
     <1>18, <1>19, <1>20, <1>21, <1>22, <1>23, <1>24, <1>25, <1>26, <1>27, <1>28, <1>29, <1>30,
     <1>31, <1>32, <1>33
     DEF StepOf, Serve, Fails
-----------------------------------------------------------------------------
(* The transactions.  One that is open holds the rows its commit is about,  *)
(* which nobody else then deletes, and, if it activates a version, the key  *)
(* of the active row, without which nobody else activates one.              *)
Open(r) ==
  \/ pc[r] \in {"unroute", "sync", "commit"}
  \/ pc[r] = "calls" /\ after[r] \in {"sync", "commit"}

Holding(r) ==
  /\ pc[r] \in {"locking", "activating", "reactivating"} => held[r] \subseteq exists
  /\ pc[r] = "replace" => version[r] \in held[r] /\ repl[r] \notin {0, version[r]}
  /\ Open(r) =>
    /\ kind[r] = "activate" => version[r] \in exists \cap held[r] /\ 0 \in held[r]
    /\ kind[r] = "update" => version[r] \in held[r]
    /\ kind[r] = "delete" =>
         /\ version[r] \in held[r]
         /\ repl[r] # 0 => /\ repl[r] \in exists \cap held[r] /\ repl[r] # version[r]
                           /\ 0 \in held[r] /\ active \subseteq {version[r], repl[r]}

Exclusive == \A r, q \in Requests : r # q => held[r] \cap held[q] = {}

LockInv == Typed /\ Exclusive /\ OneActive /\ \A r \in Requests : Holding(r)

LEMMA RowsCases ==
  ASSUME NEW r \in Requests
  PROVE  /\ kind[r] = "activate" => Rows(r) = <<exists, {version[r]}>>
         /\ kind[r] = "update" /\ version[r] \in exists =>
              Rows(r) = <<exists \ {version[r]}, active \ {version[r]}>>
         /\ kind[r] = "delete" =>
              Rows(r) = <<exists \ {version[r]}, (active \ {version[r]}) \cup ({repl[r]} \ {0})>>
         /\ kind[r] = "delete_service" => Rows(r) = <<exists \ held[r], active \ held[r]>>
         /\ kind[r] \notin {"activate", "delete", "delete_service"}
            /\ ~(kind[r] = "update" /\ version[r] \in exists) =>
              Rows(r) = <<exists \cup {version[r]},
                          IF 0 \in held[r] THEN {version[r]} ELSE active>>
BY DEF Rows

(* What a step of r does to the rows, and to the rows of another one.       *)
LEMMA RowStep ==
  ASSUME LockInv, NEW r \in Requests, StepOf(r)
  PROVE  /\ exists' \subseteq Versions /\ active' \subseteq exists' /\ OneActive'
         /\ \A q \in Requests \ {r} : exists \cap held[q] \subseteq exists'
         /\ \A q \in Requests \ {r} : 0 \in held[q] => active' \subseteq active
<1>1. /\ TypeOK /\ exists \subseteq Versions /\ active \subseteq exists
      /\ version[r] \in Versions /\ seen[r] \in Route /\ Holding(r)
      /\ \A v, w \in active : v = w
  BY DEF LockInv, Typed, TypeOK, OneActive
<1>2. \A q \in Requests \ {r} : held[r] \cap held[q] = {}
  BY DEF LockInv, Exclusive
<1>3. CASE UNCHANGED <<exists, active>>
  BY <1>1, <1>3 DEF OneActive
<1>4. CASE Commit(r)
  <2>1. exists' = Rows(r)[1] /\ active' = Rows(r)[2] /\ Open(r)
    BY <1>4 DEF Commit, Open, At
  <2>2. CASE kind[r] = "activate"
    <3>1. exists' = exists /\ active' = {version[r]}
      BY <2>1, <2>2, RowsCases
    <3>2. version[r] \in exists /\ 0 \in held[r]
      BY <1>1, <2>1, <2>2 DEF Holding
    <3> QED
      BY <1>1, <1>2, <3>1, <3>2 DEF OneActive
  <2>3. CASE kind[r] = "update" /\ version[r] \in exists
    <3>1. exists' = exists \ {version[r]} /\ active' = active \ {version[r]}
      BY <2>1, <2>3, RowsCases
    <3>2. version[r] \in held[r]
      BY <1>1, <2>1, <2>3 DEF Holding
    <3> QED
      BY <1>1, <1>2, <3>1, <3>2 DEF OneActive
  <2>4. CASE kind[r] = "delete"
    <3>1. exists' = exists \ {version[r]} /\ active' = (active \ {version[r]}) \cup ({repl[r]} \ {0})
      BY <2>1, <2>4, RowsCases
    <3>2. /\ version[r] \in held[r]
          /\ repl[r] # 0 => /\ repl[r] \in exists \cap held[r] /\ repl[r] # version[r]
                            /\ 0 \in held[r] /\ active \subseteq {version[r], repl[r]}
      BY <1>1, <2>1, <2>4 DEF Holding
    <3>3. CASE repl[r] = 0
      BY <1>1, <1>2, <3>1, <3>2, <3>3 DEF OneActive
    <3>4. CASE repl[r] # 0
      <4>1. active' = {repl[r]}
        BY <3>1, <3>2, <3>4
      <4> QED
        BY <1>1, <1>2, <3>1, <3>2, <3>4, <4>1 DEF OneActive
    <3> QED
      BY <3>3, <3>4
  <2>6. CASE kind[r] = "delete_service"
    <3>1. exists' = exists \ held[r] /\ active' = active \ held[r]
      BY <2>1, <2>6, RowsCases
    <3> QED
      BY <1>1, <1>2, <3>1 DEF OneActive
  <2>5. CASE /\ kind[r] \notin {"activate", "delete", "delete_service"}
             /\ ~(kind[r] = "update" /\ version[r] \in exists)
    <3>1. /\ exists' = exists \cup {version[r]}
          /\ active' = IF 0 \in held[r] THEN {version[r]} ELSE active
      <4>1. Rows(r) = <<exists \cup {version[r]}, IF 0 \in held[r] THEN {version[r]} ELSE active>>
        BY <2>5, RowsCases
      <4> QED
        BY <2>1, <4>1
    <3> QED
      BY <1>1, <1>2, <3>1 DEF OneActive
  <2> QED
    BY <2>2, <2>3, <2>4, <2>5, <2>6
<1>6. CASE Activate(r) \/ Reactivate(r)
  <2>3. held[r] \subseteq exists
    BY <1>1, <1>6 DEF Activate, Reactivate, Holding, At
  <2>1. /\ exists' = exists /\ Free(r, {0})
        /\ active' = active \/ \E v \in exists : active' = {v}
    BY <1>1, <1>6, <2>3 DEF Activate, Reactivate, Activates
  <2>2. \A q \in Requests \ {r} : 0 \notin held[q]
    BY <2>1 DEF Free
  <2> QED
    BY <1>1, <2>1, <2>2 DEF OneActive
<1>7. \/ UNCHANGED <<exists, active>> \/ Commit(r) \/ Activate(r) \/ Reactivate(r)
  BY DEF StepOf, Serve, Fails, Arrive, GatewayCall, GatewayReturn, GatewayFails, BeginActivate,
         BeginCreate, BeginUpdate, BeginDelete, BeginDeleteService, Deactivate, LockRow, ClaimActive,
         InsertVersion, MoveVersion, DeleteRow, ReplaceVersion, DeadlockAbort, Unroute, Sync, Compensate, Reroute,
         CommitFails, DeleteService, ReconcileRead, ReconcileList, Dispatch, StartJob,
         RecordOutcome, Redeliver, RollbackBegin, Apply, ApplyFails, Reapply, ReapplyFails, Deploy,
         DeployFails, Validate, UpdateVersion, RestoreCheck, rowVars
<1> QED
  BY <1>3, <1>4, <1>6, <1>7

(* The control of a request.                                                *)
LEMMA CourseStep ==
  ASSUME Typed, NEW r \in Requests, StepOf(r)
  PROVE  Course(r)'
<1>1. TypeOK /\ Course(r) /\ kind[r] \in Kinds \cup {"none"}
  BY DEF Typed, TypeOK
<1>2. /\ pc \in [Requests -> Step \cup Ended \cup {"idle"}]
      /\ kind \in [Requests -> Kinds \cup {"none"}]
      /\ after \in [Requests -> Step \cup Ended] /\ seen \in [Requests -> Route]
  BY <1>1 DEF TypeOK
<1> USE <1>1, <1>2
    DEF Goto, At, Lock, EndWith, Release, txnVars, callVars, reqVars, rowVars, Kinds, Ended
<1>3. CASE \E k \in Kinds, v \in Versions : Arrive(r, k, v)
  <2>1. PICK k \in Kinds : /\ kind'[r] = k
                           /\ pc'[r] = IF k = "rollback" THEN "accept" ELSE "begin"
    BY <1>3 DEF Arrive
  <2> QED
    BY <2>1 DEF Course
<1>4. CASE GatewayCall(r)
  BY <1>4 DEF GatewayCall, Course
<1>5. CASE GatewayReturn(r)
  <2>1. pc[r] = "calls" /\ pc'[r] = after[r] /\ UNCHANGED <<kind, after, seen>>
    BY <1>5 DEF GatewayReturn
  <2> QED
    BY <2>1 DEF Course
<1>6. CASE GatewayFails(r)
  <2>1. /\ pc[r] = "calls" /\ UNCHANGED <<kind, after, seen>>
        /\ pc'[r] = CASE after[r] = "activate" -> "check"
                      [] after[r] = "reactivate" -> "lost"
                      [] OTHER -> "failed"
    BY <1>6 DEF GatewayFails
  <2> QED
    BY <2>1 DEF Course
<1>7. CASE \/ BeginActivate(r) \/ BeginCreate(r) \/ BeginUpdate(r) \/ BeginDelete(r)
           \/ BeginDeleteService(r)
  <2>1. /\ kind[r] = "activate" => pc'[r] \in {"deactivate", "refused"}
        /\ kind[r] = "delete" => pc'[r] \in {"rows", "refused"}
        /\ kind[r] \in {"create", "create_active"} => pc'[r] \in {"deactivate", "insert"}
        /\ kind[r] = "update" => pc'[r] \in {"move_in", "move_out"}
        /\ kind[r] = "delete_service" => pc'[r] \in {"deleting", "refused"}
        /\ kind[r] \in {"activate", "delete", "create", "create_active", "update", "delete_service"}
        /\ kind' = kind
    BY <1>7 DEF BeginActivate, BeginCreate, BeginUpdate, BeginDelete, BeginDeleteService
  <2> QED
    BY <2>1 DEF Course
<1>8. CASE DeleteRow(r) \/ ReplaceVersion(r)
  <2>1. pc[r] \in {"rows", "replace"} /\ pc'[r] \in {"unroute", "replace", "failed"} /\ kind' = kind
    BY <1>8 DEF DeleteRow, ReplaceVersion
  <2> QED
    BY <2>1 DEF Course
<1>14. CASE Deactivate(r)
  <2>1. /\ \/ pc[r] = "deactivate" /\ pc'[r] = "locking"
           \/ pc[r] = "activate" /\ pc'[r] = "activating"
           \/ pc[r] = "reactivate" /\ pc'[r] = "reactivating"
        /\ kind' = kind
    BY <1>14 DEF Deactivate
  <2> QED
    BY <2>1 DEF Course
<1>15. CASE LockRow(r)
  BY <1>15 DEF LockRow, Course
<1>16. CASE ClaimActive(r) \/ InsertVersion(r) \/ MoveVersion(r)
  <2>1. /\ \/ kind[r] = "activate" /\ pc'[r] \in {"sync", "failed"}
           \/ kind[r] \in {"create", "create_active"} /\ pc'[r] \in {"commit", "refused"}
           \/ pc[r] \in {"move_in", "move_out"} /\ pc'[r] \in {"commit", "failed"}
        /\ kind' = kind
    BY <1>16 DEF ClaimActive, InsertVersion, MoveVersion
  <2> QED
    BY <2>1 DEF Course
<1>17. CASE DeadlockAbort(r)
  <2>1. /\ pc[r] \in LockSteps /\ kind' = kind
        /\ pc'[r] = CASE pc[r] \in {"activate", "activating"} -> "check"
                      [] pc[r] \in {"update", "reactivate", "reactivating"} -> "lost"
                      [] OTHER -> "failed"
    BY <1>17, AbortedWaits DEF DeadlockAbort
  <2> QED
    BY <2>1 DEF Course, LockSteps
<1>9. CASE Unroute(r) \/ Sync(r) \/ Compensate(r) \/ Reroute(r) \/ ReconcileList(r)
  <2>1. /\ kind' = kind /\ pc'[r] = "calls"
        /\ \/ pc[r] = "unroute" /\ after'[r] \in {"sync", "commit"}
           \/ pc[r] = "sync" /\ after'[r] = IF kind[r] = "rollback" THEN "activate" ELSE "commit"
           \/ pc[r] = "compensate" /\ after'[r] = "compensated"
           \/ pc[r] = "reroute" /\ after'[r] = "reactivate"
           \/ pc[r] = "list" /\ after'[r] = "ok"
    BY <1>9 DEF Unroute, Sync, Compensate, Reroute, ReconcileList, Plan, SyncServiceRoutes,
         DeleteServiceRoutes, RollbackServiceRoutes
  <2> QED
    BY <2>1 DEF Course
<1>10. CASE Commit(r) \/ CommitFails(r) \/ DeleteService(r) \/ ReconcileRead(r)
  BY <1>10 DEF Commit, CommitFails, DeleteService, ReconcileRead, Course
<1>11. CASE Dispatch(r) \/ StartJob(r) \/ RecordOutcome(r) \/ Redeliver(r) \/ RollbackBegin(r)
  BY <1>11 DEF Dispatch, StartJob, RecordOutcome, Redeliver, RollbackBegin, Course
<1>12. CASE Apply(r) \/ ApplyFails(r) \/ Reapply(r) \/ ReapplyFails(r)
  BY <1>12 DEF Apply, ApplyFails, Reapply, ReapplyFails, Deploy, DeployFails, Course
<1>13. CASE Validate(r) \/ UpdateVersion(r) \/ Activate(r) \/ RestoreCheck(r) \/ Reactivate(r)
  BY <1>13 DEF Validate, UpdateVersion, Activate, RestoreCheck, Reactivate, Course
<1> QED
  BY <1>3, <1>4, <1>5, <1>6, <1>7, <1>8, <1>9, <1>10, <1>11, <1>12, <1>13, <1>14, <1>15, <1>16,
     <1>17 DEF StepOf, Serve, Fails

(* The locks a step of r takes or keeps, and what it holds with them.       *)
LEMMA HeldStep ==
  ASSUME LockInv, NEW r \in Requests, StepOf(r)
  PROVE  /\ \A q \in Requests \ {r} : held'[r] \cap held[q] = {}
         /\ Holding(r)'
<1>1. /\ TypeOK /\ version[r] \in Versions /\ 0 \notin Versions /\ Holding(r) /\ Course(r)
  BY RouteFacts DEF LockInv, Typed, TypeOK
<1>2. \A q \in Requests \ {r} : held[r] \cap held[q] = {}
  BY DEF LockInv, Exclusive
<1> USE DEF Goto, At, Lock, EndWith, Release, txnVars, callVars, reqVars, rowVars
<1>3. ASSUME held'[r] = {}, pc'[r] \in Ended
      PROVE  /\ \A q \in Requests \ {r} : held'[r] \cap held[q] = {}
             /\ Holding(r)'
  BY <1>3 DEF Holding, Open, Ended
<1>4. CASE BeginActivate(r) \/ BeginCreate(r) \/ BeginUpdate(r) \/ BeginDeleteService(r) \/ BeginDelete(r)
  <2>1. \/ held' = held /\ pc'[r] \in {"deactivate", "insert", "move_in", "move_out", "deleting", "rows"}
        \/ held'[r] = {} /\ pc'[r] = "refused"
    BY <1>1, <1>4 DEF BeginActivate, BeginCreate, BeginUpdate, BeginDeleteService, BeginDelete, TypeOK
  <2> QED
    BY <1>2, <1>3, <2>1 DEF Holding, Open, Ended
<1>5. CASE Deactivate(r)
  <2>1. /\ held'[r] = active /\ Free(r, active) /\ exists' = exists
        /\ pc'[r] \in {"locking", "activating", "reactivating"}
    BY <1>1, <1>5 DEF Deactivate, TypeOK
  <2>2. active \subseteq exists
    BY <1>1 DEF TypeOK
  <2> QED
    BY <2>1, <2>2 DEF Free, Holding, Open
<1>6. CASE LockRow(r)
  <2>1. PICK i \in todo[r] : held'[r] = held[r] \cup ({i} \cap exists) /\ Free(r, {i})
    BY <1>1, <1>6 DEF LockRow, TypeOK
  <2>2. /\ exists' = exists /\ pc' = pc
        /\ pc[r] \in {"locking", "activating", "reactivating", "deleting"}
    BY <1>6 DEF LockRow
  <2> QED
    BY <1>1, <1>2, <2>1, <2>2 DEF Free, Holding, Open
<1>7. CASE ClaimActive(r)
  <2>1. CASE Activates(r, version[r])
    <3>1. /\ pc[r] = "locking" /\ pc'[r] = "sync" /\ kind' = kind /\ kind[r] = "activate"
          /\ held'[r] = held[r] \cup {0} /\ Free(r, {0}) /\ version' = version /\ exists' = exists
      BY <1>1, <1>7, <2>1 DEF ClaimActive, TypeOK
    <3>2. version[r] \in held[r] /\ held[r] \subseteq exists
      BY <1>1, <2>1, <3>1 DEF Activates, Holding
    <3> QED
      BY <1>2, <3>1, <3>2 DEF Free, Holding
  <2>2. CASE ~Activates(r, version[r])
    BY <1>1, <1>3, <1>7, <2>2 DEF ClaimActive, TypeOK, Ended
  <2> QED
    BY <2>1, <2>2
<1>8. CASE InsertVersion(r)
  <2>1. PICK keys : keys = {version[r]} \cup (IF pc[r] = "locking" THEN {0} ELSE {})
    OBVIOUS
  <2>2. /\ Free(r, keys) /\ kind' = kind /\ kind[r] \in {"create", "create_active"}
        /\ \/ held'[r] = held[r] \cup keys /\ pc'[r] = "commit"
           \/ held'[r] = {} /\ pc'[r] = "refused"
    BY <1>1, <1>8, <2>1 DEF InsertVersion, TypeOK
  <2> QED
    BY <1>2, <1>3, <2>2 DEF Free, Holding, Ended
<1>17. CASE MoveVersion(r)
  <2> DEFINE Claim(on) == {version[r]} \cup (IF on THEN {0} ELSE {})
  <2>1. PICK on \in BOOLEAN :
          /\ Free(r, Claim(on)) /\ kind' = kind /\ version' = version
          /\ pc[r] \in {"move_in", "move_out"}
          /\ \/ held'[r] = held[r] \cup Claim(on) /\ pc'[r] = "commit"
             \/ held'[r] = {} /\ pc'[r] = "failed"
    BY <1>1, <1>17 DEF MoveVersion, TypeOK
  <2>2. PICK rows : rows = Claim(on)
    OBVIOUS
  <2>3. version[r] \in rows
    BY <2>2
  <2>4. kind[r] = "update"
    BY <1>1, <2>1 DEF Course, TypeOK, Kinds, Ended
  <2> HIDE DEF Claim
  <2> QED
    BY <1>2, <1>3, <2>1, <2>2, <2>3, <2>4 DEF Free, Holding, Ended
<1>18. CASE DeleteRow(r)
  <2>1. PICK w : w = IF seen[r] = 0 THEN 0 ELSE MaxOrNone(exists \ {version[r]})
    OBVIOUS
  <2>2. w # version[r]
    <3>1. exists \ {version[r]} \in SUBSET Versions
      BY <1>1 DEF TypeOK
    <3> QED
      BY <1>1, <2>1, <3>1, MaxType
  <2>3. /\ pc[r] = "rows" /\ pc'[r] = IF w = 0 THEN "unroute" ELSE "replace"
        /\ held'[r] = held[r] \cup {version[r]} /\ repl'[r] = w /\ Free(r, {version[r]})
        /\ UNCHANGED <<kind, version>>
    BY <1>1, <1>18, <2>1 DEF DeleteRow, TypeOK
  <2>4. kind[r] \notin {"activate", "update"}
    BY <1>1, <2>3 DEF Course, Ended
  <2> QED
    BY <1>2, <2>2, <2>3, <2>4 DEF Free, Holding, Open
<1>19. CASE ReplaceVersion(r)
  <2>1. /\ pc[r] = "replace" /\ Free(r, {0, repl[r]})
        /\ \/ /\ pc'[r] = "unroute" /\ held'[r] = held[r] \cup {0, repl[r]}
              /\ repl[r] \in exists /\ active \subseteq {version[r], repl[r]}
              /\ repl' = repl
           \/ pc'[r] = "failed" /\ held'[r] = {}
        /\ UNCHANGED <<kind, version, exists, active>>
    BY <1>1, <1>19 DEF ReplaceVersion, TypeOK
  <2>2. kind[r] \notin {"activate", "update"} /\ version[r] \in held[r] /\ repl[r] # version[r]
    BY <1>1, <2>1 DEF Course, Ended, Holding
  <2> QED
    BY <1>2, <1>3, <2>1, <2>2 DEF Free, Holding, Ended
<1>20. CASE DeadlockAbort(r) \/ Activate(r) \/ Reactivate(r)
  <2>1. held'[r] = {} /\ pc'[r] \in {"check", "lost", "failed", "won"}
    BY <1>1, <1>20 DEF DeadlockAbort, Activate, Reactivate, TypeOK
  <2> QED
    BY <2>1 DEF Holding, Open
<1>21. CASE DeleteService(r)
  <2>1. held' = held /\ kind' = kind /\ pc[r] = "deleting" /\ pc'[r] = "commit"
    BY <1>1, <1>21 DEF DeleteService, TypeOK
  <2>2. kind[r] \notin {"activate", "update", "delete"}
    BY <1>1, <2>1 DEF Course, Ended
  <2> QED
    BY <1>2, <2>1, <2>2 DEF Holding
<1>9. ASSUME held' = held, ~Open(r)',
             pc'[r] \notin {"locking", "activating", "reactivating", "replace"}
      PROVE  Holding(r)' /\ \A q \in Requests \ {r} : held'[r] \cap held[q] = {}
  BY <1>2, <1>9 DEF Holding
<1>10. CASE \E k \in Kinds, v \in Versions : Arrive(r, k, v)
  <2>1. held' = held /\ pc'[r] \in {"accept", "begin"}
    BY <1>1, <1>10 DEF Arrive, TypeOK
  <2> QED
    BY <1>9, <2>1 DEF Open
<1>11. CASE GatewayCall(r) \/ GatewayReturn(r) \/ Unroute(r) \/ Sync(r)
  <2>1. UNCHANGED <<held, kind, version, repl, exists, active>>
    BY <1>11 DEF GatewayCall, GatewayReturn, Unroute, Sync
  <2>2. (Open(r)' => Open(r)) /\ pc'[r] \notin {"locking", "activating", "reactivating", "replace"}
    <3>1. CASE GatewayCall(r)
      BY <3>1 DEF GatewayCall, Open
    <3>2. CASE GatewayReturn(r)
      <4>1. pc[r] = "calls" /\ pc'[r] = after[r] /\ after' = after
        BY <1>1, <3>2 DEF GatewayReturn, TypeOK
      <4>2. after[r] \notin {"unroute", "calls", "locking", "activating", "reactivating", "replace"}
        BY <1>1, <4>1 DEF Course, TypeOK, Kinds
      <4> QED
        BY <4>1, <4>2 DEF Open
    <3>3. CASE Unroute(r) \/ Sync(r)
      <4>1. pc'[r] = "calls"
        BY <1>1, <3>3 DEF Unroute, Sync, DeleteServiceRoutes, SyncServiceRoutes, Plan, TypeOK
      <4> QED
        BY <3>3, <4>1 DEF Unroute, Sync, Open
    <3> QED
      BY <1>11, <3>1, <3>2, <3>3
  <2> QED
    BY <1>1, <1>2, <2>1, <2>2 DEF Holding
<1>12. CASE GatewayFails(r) \/ CommitFails(r)
  <2>1. held'[r] = {} /\ pc'[r] \in {"check", "lost", "failed", "compensate"}
    BY <1>1, <1>12 DEF GatewayFails, CommitFails, TypeOK
  <2> QED
    BY <2>1 DEF Holding, Open
<1>13. CASE Commit(r)
  <2>1. held'[r] = {} /\ pc'[r] = "ok"
    BY <1>1, <1>13 DEF Commit, TypeOK
  <2> QED
    BY <1>3, <2>1 DEF Ended
<1>14. CASE Compensate(r) \/ ReconcileList(r) \/ Reroute(r)
  <2>1. held' = held /\ pc'[r] = "calls" /\ after'[r] \in {"compensated", "ok", "reactivate"}
    BY <1>1, <1>14 DEF Compensate, ReconcileList, Reroute, SyncServiceRoutes,
         RollbackServiceRoutes, Plan, TypeOK
  <2> QED
    BY <1>9, <2>1 DEF Open
<1>15. CASE \/ ReconcileRead(r) \/ Dispatch(r) \/ StartJob(r) \/ RecordOutcome(r) \/ Redeliver(r)
            \/ RollbackBegin(r) \/ Apply(r) \/ ApplyFails(r) \/ Reapply(r) \/ ReapplyFails(r)
            \/ Validate(r) \/ RestoreCheck(r)
  <2>1. /\ held' = held
        /\ pc'[r] \in {"list", "begin", "refused", "resolve", "failed", "ok", "apply", "lost",
                       "validate", "update", "check", "won", "reapply", "reroute", "reactivate"}
    BY <1>1, <1>15 DEF ReconcileRead, Dispatch, StartJob, RecordOutcome, Redeliver, RollbackBegin,
         Apply, ApplyFails, Reapply, ReapplyFails, Deploy, DeployFails, Validate, RestoreCheck,
         TypeOK
  <2> QED
    BY <1>9, <2>1 DEF Open
<1>16. CASE UpdateVersion(r)
  <2>1. pc[r] = "update" /\ held' = held /\ kind' = kind /\ pc'[r] \in {"sync", "lost"}
    BY <1>1, <1>16 DEF UpdateVersion, TypeOK
  <2>2. kind[r] = "rollback"
    BY <1>1, <2>1 DEF Course, TypeOK, Kinds, Ended
  <2> QED
    BY <1>2, <2>1, <2>2 DEF Holding
<1> QED
  BY <1>4, <1>5, <1>6, <1>7, <1>8, <1>10, <1>11, <1>12, <1>13, <1>14, <1>15, <1>16, <1>17, <1>18,
     <1>19, <1>20, <1>21 DEF StepOf, Serve, Fails

LEMMA TypedStep ==
  ASSUME LockInv, NEW r \in Requests, StepOf(r)
  PROVE  Typed'
<1>1. Typed /\ TypeOK
  BY DEF LockInv, Typed
<1>2. TypeOK'
  BY <1>1, LocalTypes, RowStep DEF TypeOK, LocalsTyped
<1>3. ASSUME NEW q \in Requests PROVE Course(q)'
  <2>1. CASE q = r
    BY <1>1, <2>1, CourseStep
  <2>2. CASE q # r
    <3>1. q \in Requests \ {r} /\ Course(q)
      BY <1>1, <2>2 DEF Typed
    <3> QED
      BY <1>1, <3>1, OthersSame DEF Course
  <2> QED
    BY <2>1, <2>2
<1> QED
  BY <1>2, <1>3 DEF Typed

LEMMA LockStep ==
  ASSUME LockInv, NEW r \in Requests, StepOf(r)
  PROVE  LockInv'
<1>1. TypeOK
  BY DEF LockInv, Typed
<1>2. Typed' /\ OneActive'
  BY TypedStep, RowStep
<1>3. \A q \in Requests \ {r} : held'[q] = held[q] /\ held'[r] \cap held[q] = {}
  BY <1>1, OthersSame, HeldStep
<1>4. Exclusive'
  <2> SUFFICES ASSUME NEW p \in Requests, NEW q \in Requests, p # q
               PROVE  held'[p] \cap held'[q] = {}
    BY DEF Exclusive
  <2>1. CASE p = r
    <3>1. q \in Requests \ {r}
      BY <2>1
    <3> QED
      BY <1>3, <2>1, <3>1
  <2>2. CASE q = r
    <3>1. p \in Requests \ {r}
      BY <2>2
    <3> QED
      BY <1>3, <2>2, <3>1
  <2>3. CASE p # r /\ q # r
    <3>1. p \in Requests \ {r} /\ q \in Requests \ {r}
      BY <2>3
    <3> QED
      BY <1>3, <3>1 DEF LockInv, Exclusive
  <2> QED
    BY <2>1, <2>2, <2>3
<1>5. ASSUME NEW q \in Requests PROVE Holding(q)'
  <2>1. CASE q = r
    BY <2>1, HeldStep
  <2>2. CASE q # r
    <3>1. q \in Requests \ {r} /\ Holding(q)
      BY <2>2 DEF LockInv
    <3>2. exists \cap held[q] \subseteq exists' /\ (0 \in held[q] => active' \subseteq active)
      BY <3>1, RowStep
    <3>3. /\ kind'[q] = kind[q] /\ version'[q] = version[q] /\ pc'[q] = pc[q]
          /\ held'[q] = held[q] /\ repl'[q] = repl[q] /\ after'[q] = after[q]
      BY <1>1, <3>1, OthersSame
    <3> QED
      BY <3>1, <3>2, <3>3 DEF Holding, Open
  <2> QED
    BY <2>1, <2>2
<1> QED
  BY <1>2, <1>4, <1>5 DEF LockInv

LEMMA LockInit ==
  ASSUME Init
  PROVE  LockInv
<1>1. exists \subseteq Versions /\ exists = Versions \ {NumVersions}
  BY DEF Init
<1>2. active \subseteq exists /\ OneActive
  <2>1. MaxOrNone(exists) # 0 => MaxOrNone(exists) \in exists
    BY <1>1, MaxType
  <2> QED
    BY <2>1 DEF Init, OneActive
<1>3. TypeOK
  <2>1. regime \in Regime /\ regime.faults \in Nat /\ 1 \in Versions
    BY RegistryAssumption DEF Init, Regime, Versions
  <2>2. 0 \in 0 .. regime.faults
    BY <2>1
  <2>3. Expected \in Routing
    BY <1>1, <1>2, ActiveType, RouteFacts DEF Expected, Routing
  <2> QED
    BY <1>1, <1>2, <2>1, <2>2, <2>3, RouteFacts DEF Init, TypeOK, JobStatus, Step
<1>4. \A r \in Requests : Course(r) /\ Holding(r)
  BY DEF Init, Course, Holding, Open, Kinds
<1>5. Exclusive
  BY DEF Init, Exclusive
<1> QED
  BY <1>2, <1>3, <1>4, <1>5 DEF LockInv, Typed

LEMMA NextIsStep == Next => \E r \in Requests : StepOf(r)
BY DEF Next, StepOf

LEMMA LockStutter ==
  ASSUME LockInv, UNCHANGED vars
  PROVE  LockInv'
<1> USE DEF vars
<1>1. TypeOK' /\ OneActive' /\ Exclusive'
  BY DEF LockInv, Typed, TypeOK, OneActive, Exclusive
<1>2. \A r \in Requests : Course(r)'
  BY DEF LockInv, Typed, Course
<1>3. \A r \in Requests : Holding(r)'
  BY DEF LockInv, Holding, Open
<1> QED
  BY <1>1, <1>2, <1>3 DEF LockInv, Typed

LEMMA LockInvariant == Spec => []LockInv
<1>1. LockInv /\ [Next]_vars => LockInv'
  BY LockStep, LockStutter, NextIsStep
<1> QED
  BY <1>1, LockInit, PTL DEF Spec
-----------------------------------------------------------------------------
(* The values of the model have their types; in particular every active     *)
(* version has a row, whatever activate_version, delete_version,            *)
(* delete_service and the rollback job interleave with.                     *)
THEOREM RegistryTypes == Spec => []TypeOK
<1>1. LockInv => TypeOK
  BY DEF LockInv, Typed
<1> QED
  BY <1>1, LockInvariant, PTL

(* At most one version of a service is active: the locks that               *)
(* _deactivate_service_versions takes and the unique index keep it so,      *)
(* although delete_version goes by an is_active it read without a lock.     *)
THEOREM AtMostOneActive == Spec => []OneActive
<1>1. LockInv => OneActive
  BY DEF LockInv
<1> QED
  BY <1>1, LockInvariant, PTL
-----------------------------------------------------------------------------
(* Reconciliation.  Where requests do not overlap, one of them runs at a    *)
(* time, so the rows are those that reconcile has read, and a route is as   *)
(* expected, or one of the calls that are left makes it so.                 *)
Solo == regime.overlap = {} => \A r, q \in Busy : r = q

Healing(r) ==
  regime.overlap = {} /\ kind[r] = "reconcile" =>
    /\ pc[r] = "list" => put[r] = Expected
    /\ pc[r] = "calls" => \A i \in Route :
         /\ i \in del[r] => Expected[i] = 0 /\ put[r][i] = 0
         /\ put[r][i] # 0 => put[r][i] = Expected[i]
         /\ i \notin del[r] /\ put[r][i] = 0 => routes[i] = Expected[i]

HealInv == LockInv /\ Solo /\ \A r \in Requests : Healing(r)

LEMMA RegimeFixed ==
  ASSUME NEW r \in Requests, StepOf(r)
  PROVE  regime' = regime
BY DEF StepOf, Serve, Fails, Arrive, GatewayCall, GatewayReturn, GatewayFails, BeginActivate,
       BeginCreate, BeginUpdate, BeginDelete, BeginDeleteService, Deactivate, LockRow, ClaimActive,
         InsertVersion, MoveVersion, DeleteRow, ReplaceVersion, DeadlockAbort, Unroute, Sync, Compensate, Reroute,
       Commit, DeleteService, CommitFails, ReconcileRead, ReconcileList, Dispatch, StartJob,
       RecordOutcome, Redeliver, RollbackBegin, Apply, ApplyFails, Reapply, ReapplyFails,
       Deploy, DeployFails, Validate, UpdateVersion, Activate, RestoreCheck, Reactivate, reqVars

(* A request that takes a step is busy before it, or nobody is.             *)
LEMMA Turn ==
  ASSUME TypeOK, Solo, NEW r \in Requests, StepOf(r), regime.overlap = {}
  PROVE  regime' = regime /\ \A q \in Busy : q = r
<1>1. regime' = regime
  BY RegimeFixed
<1>2. CASE (\E k \in Kinds, v \in Versions : Arrive(r, k, v)) \/ Redeliver(r)
  BY <1>1, <1>2 DEF Arrive, Redeliver
<1>3. CASE Serve(r) \/ Fails(r)
  <2>1. pc[r] \notin Ended \cup {"idle"}
    BY <1>3, AbortedWaits DEF LockSteps, At, Ended, Serve, Fails, GatewayCall, GatewayReturn, GatewayFails, BeginActivate,
         BeginCreate, BeginUpdate, BeginDelete, BeginDeleteService, Deactivate, LockRow, ClaimActive,
         InsertVersion, MoveVersion, DeleteRow, ReplaceVersion, Unroute, Sync, Compensate, Reroute,
         Commit, DeleteService, CommitFails, ReconcileRead, ReconcileList, Dispatch, StartJob,
         RecordOutcome, RollbackBegin, Apply, ApplyFails, Reapply, ReapplyFails,
         Validate, UpdateVersion, Activate, RestoreCheck, Reactivate
  <2> QED
    BY <1>1, <2>1 DEF Solo, Busy
<1> QED
  BY <1>2, <1>3 DEF StepOf

LEMMA SoloStep ==
  ASSUME TypeOK, Solo, NEW r \in Requests, StepOf(r)
  PROVE  Solo'
<1> SUFFICES ASSUME regime'.overlap = {}, NEW p \in Busy', NEW q \in Busy'
             PROVE  p = q
  BY DEF Solo
<1>1. regime.overlap = {}
  BY RegimeFixed
<1>2. ASSUME NEW x \in Busy' PROVE x = r
  <2>1. SUFFICES ASSUME x \in Requests \ {r} PROVE FALSE
    BY DEF Busy
  <2>2. x \in Busy
    BY <2>1, OthersSame DEF Busy
  <2> QED
    BY <1>1, <2>1, <2>2, Turn
<1> QED
  BY <1>2

(* The steps by which a reconciliation comes to its calls, or makes one.    *)
LEMMA ReconcileSteps ==
  ASSUME Typed, NEW r \in Requests, StepOf(r), kind'[r] = "reconcile",
         pc'[r] \in {"list", "calls"}
  PROVE  /\ kind[r] = "reconcile"
         /\ ReconcileRead(r) \/ ReconcileList(r) \/ GatewayCall(r)
<1>1. TypeOK /\ Course(r)
  BY DEF Typed
<1> USE <1>1 DEF TypeOK, Goto, At, Lock, EndWith, Release, txnVars, callVars, reqVars, rowVars, Ended
<1>2. CASE \E k \in Kinds, v \in Versions : Arrive(r, k, v)
  BY <1>2 DEF Arrive
<1>3. CASE ~\E k \in Kinds, v \in Versions : Arrive(r, k, v)
  <2>1. kind[r] = "reconcile"
    BY <1>3 DEF StepOf, Serve, Fails, GatewayCall, GatewayReturn, GatewayFails, BeginActivate,
         BeginCreate, BeginUpdate, BeginDelete, BeginDeleteService, Deactivate, LockRow, ClaimActive,
         InsertVersion, MoveVersion, DeleteRow, ReplaceVersion, DeadlockAbort, Unroute, Sync, Compensate, Reroute,
         Commit, DeleteService, CommitFails, ReconcileRead, ReconcileList, Dispatch, StartJob,
         RecordOutcome, Redeliver, RollbackBegin, Apply, ApplyFails, Reapply, ReapplyFails,
         Deploy, DeployFails, Validate, UpdateVersion, Activate, RestoreCheck, Reactivate
  <2>2. /\ pc[r] \in {"begin", "list", "calls", "ok", "failed"}
        /\ pc[r] = "calls" => after[r] = "ok"
    BY <2>1 DEF Course
  <2>3. \/ ReconcileRead(r) \/ ReconcileList(r) \/ GatewayCall(r) \/ GatewayReturn(r)
        \/ GatewayFails(r)
    BY <1>3, <2>1, <2>2 DEF StepOf, Serve, Fails, BeginActivate,
         BeginCreate, BeginUpdate, BeginDelete, BeginDeleteService, Deactivate, LockRow, ClaimActive,
         InsertVersion, MoveVersion, DeleteRow, ReplaceVersion, DeadlockAbort, Unroute, Sync, Compensate, Reroute,
         Commit, DeleteService, CommitFails, Dispatch, StartJob,
         RecordOutcome, Redeliver, RollbackBegin, Apply, ApplyFails, Reapply, ReapplyFails,
         Validate, UpdateVersion, Activate, RestoreCheck, Reactivate
  <2>4. ~GatewayReturn(r) /\ ~GatewayFails(r)
    BY <2>2 DEF GatewayReturn, GatewayFails
  <2> QED
    BY <2>1, <2>3, <2>4
<1> QED
  BY <1>2, <1>3

LEMMA HealStep ==
  ASSUME HealInv, NEW r \in Requests, StepOf(r)
  PROVE  HealInv'
<1>1. LockInv /\ Solo /\ Typed /\ TypeOK /\ Healing(r)
  BY DEF HealInv, LockInv, Typed
<1>2. LockInv' /\ Solo' /\ regime' = regime
  BY <1>1, LockStep, SoloStep, RegimeFixed
<1>3. ASSUME NEW q \in Requests PROVE Healing(q)'
  <2> SUFFICES ASSUME regime.overlap = {}, kind'[q] = "reconcile", pc'[q] \in {"list", "calls"}
               PROVE  Healing(q)'
    BY <1>2 DEF Healing
  <2>1. q = r
    <3>1. SUFFICES ASSUME q \in Requests \ {r} PROVE FALSE
      OBVIOUS
    <3>2. q \in Busy
      BY <1>1, <3>1, OthersSame DEF Busy, Ended
    <3> QED
      BY <1>1, <3>1, <3>2, Turn
  <2>2. kind[r] = "reconcile" /\ (ReconcileRead(r) \/ ReconcileList(r) \/ GatewayCall(r))
    BY <1>1, <2>1, ReconcileSteps
  <2>3. Expected' = Expected
    <3>1. exists' = exists /\ active' = active
      BY <2>2 DEF ReconcileRead, ReconcileList, GatewayCall, rowVars
    <3> QED
      BY <3>1 DEF Expected, Active
  <2>4. CASE ReconcileRead(r)
    <3>1. pc'[r] = "list" /\ put'[r] = Expected
      BY <1>1, <2>4 DEF ReconcileRead, Goto, TypeOK
    <3> QED
      BY <2>1, <2>3, <3>1 DEF Healing
  <2>5. CASE ReconcileList(r)
    <3>1. pc[r] = "list" /\ put[r] = Expected
      BY <1>1, <2>2, <2>5 DEF ReconcileList, At, Healing
    <3>2. /\ pc'[r] = "calls" /\ routes' = routes
          /\ del'[r] = {i \in Route : routes[i] # 0 /\ put[r][i] = 0}
          /\ put'[r] = [i \in Route |-> IF routes[i] # put[r][i] THEN put[r][i] ELSE 0]
      BY <1>1, <2>5 DEF ReconcileList, Plan, Goto, TypeOK
    <3> QED
      BY <2>1, <2>3, <3>1, <3>2 DEF Healing
  <2>6. CASE GatewayCall(r)
    <3>1. PICK i \in Route :
            \/ /\ i \in del[r] /\ put' = put
               /\ routes' = [routes EXCEPT ![i] = 0] /\ del' = [del EXCEPT ![r] = @ \ {i}]
            \/ /\ i \notin del[r] /\ put[r][i] # 0 /\ del' = del
               /\ routes' = [routes EXCEPT ![i] = put[r][i]] /\ put' = [put EXCEPT ![r][i] = 0]
      BY <1>1, <2>6 DEF GatewayCall, NextCall, TypeOK
    <3>2. /\ routes \in [Route -> Route] /\ put[r] \in [Route -> Route]
          /\ pc[r] = "calls" /\ pc' = pc
      BY <1>1, <2>6 DEF TypeOK, Routing, GatewayCall, At
    <3>3. \A x \in Route :
            /\ x \in del[r] => Expected[x] = 0 /\ put[r][x] = 0
            /\ put[r][x] # 0 => put[r][x] = Expected[x]
            /\ x \notin del[r] /\ put[r][x] = 0 => routes[x] = Expected[x]
      BY <1>1, <2>2, <3>2 DEF Healing
    <3>4. CASE i \in del[r]
      <4>1. /\ put'[r] = put[r] /\ del'[r] = del[r] \ {i}
            /\ \A x \in Route : routes'[x] = IF x = i THEN 0 ELSE routes[x]
        BY <1>1, <3>1, <3>2, <3>4 DEF TypeOK
      <4> QED
        BY <2>1, <2>3, <3>2, <3>3, <3>4, <4>1 DEF Healing
    <3>5. CASE i \notin del[r]
      <4>1. /\ del'[r] = del[r] /\ put[r][i] # 0
            /\ \A x \in Route : routes'[x] = IF x = i THEN put[r][i] ELSE routes[x]
            /\ \A x \in Route : put'[r][x] = IF x = i THEN 0 ELSE put[r][x]
        BY <1>1, <3>1, <3>2, <3>5 DEF TypeOK
      <4> QED
        BY <2>1, <2>3, <3>2, <3>3, <3>5, <4>1 DEF Healing
    <3> QED
      BY <3>4, <3>5
  <2> QED
    BY <2>2, <2>4, <2>5, <2>6
<1> QED
  BY <1>2, <1>3 DEF HealInv

LEMMA HealInvariant == Spec => []HealInv
<1>1. Init => HealInv
  <2> SUFFICES ASSUME Init PROVE HealInv
    OBVIOUS
  <2>1. Busy = {} /\ \A r \in Requests : kind[r] = "none"
    BY DEF Init, Busy
  <2> QED
    BY <2>1, LockInit DEF HealInv, Solo, Healing
<1>2. HealInv /\ [Next]_vars => HealInv'
  <2>1. ASSUME HealInv, UNCHANGED vars PROVE HealInv'
    <3>1. LockInv' /\ Solo'
      BY <2>1, LockStutter DEF HealInv, Solo, Busy, vars
    <3>2. Expected' = Expected
      BY <2>1 DEF vars, Expected, Active
    <3>3. \A r \in Requests : Healing(r)'
      BY <2>1, <3>2 DEF HealInv, Healing, vars
    <3> QED
      BY <3>1, <3>3 DEF HealInv
  <2> QED
    BY <2>1, HealStep, NextIsStep
<1> QED
  BY <1>1, <1>2, PTL DEF Spec

(* Reconciliation heals, whatever failures and half-done requests came      *)
(* before it: when its last call is answered, the routes of the service are *)
(* those that its rows ask for.                                             *)
THEOREM ReconciliationHeals == Spec => []ReconcileHeals
<1>1. HealInv => ReconcileHeals
  <2> SUFFICES ASSUME HealInv, regime.overlap = {}, NEW r \in Requests,
                      kind[r] = "reconcile", pc[r] = "calls", NextCall(r) = {}
               PROVE  routes = Expected
    BY DEF ReconcileHeals, At
  <2>1. del[r] = {} /\ \A i \in Route : put[r][i] = 0
    BY DEF NextCall
  <2>2. \A i \in Route : routes[i] = Expected[i]
    BY <2>1 DEF HealInv, Healing
  <2>3. routes \in [Route -> Route] /\ Expected \in [Route -> Route]
    BY ExpectedType DEF HealInv, LockInv, Typed, TypeOK, Routing
  <2> QED
    BY <2>2, <2>3
<1> QED
  BY <1>1, HealInvariant, PTL
-----------------------------------------------------------------------------
(* Compensation.  While a handler that is the only request so far publishes *)
(* its routes, every route is as it was found or is in previous_routes.     *)
Single(r) == \A q \in Requests \ {r} : kind[q] = "none"

(* The routes of the configuration that Compensate names.                   *)
Published(r) ==
  IF repl[r] # 0 THEN {0, repl[r]}
  ELSE IF kind[r] = "delete" /\ seen[r] = 0 THEN {version[r]} ELSE {0, version[r]}

BeforeSync(r) ==
  \/ pc[r] \in {"begin", "deactivate", "locking", "rows", "replace", "unroute", "sync"}
  \/ pc[r] = "calls" /\ after[r] = "sync"
BeforeCommit(r) ==
  pc[r] \in {"commit", "compensate"} \/ (pc[r] = "calls" /\ after[r] = "commit")
Restoring(r) == pc[r] = "calls" /\ after[r] = "compensated"

RouteKept(r, i) ==
  /\ prev[r][i] # 0 => prev[r][i] = before[r][i]
  /\ BeforeSync(r) =>
       /\ routes[i] \in {0, before[r][i]}
       /\ prev[r][i] = 0 => routes[i] = before[r][i]
       /\ pc[r] = "calls" => /\ put[r][i] = 0
                             /\ i \in del[r] /\ prev[r][i] = 0 => before[r][i] = 0
  /\ BeforeCommit(r) =>
       /\ prev[r][i] = 0 => IF i \in Published(r) THEN before[r][i] = 0
                                                  ELSE routes[i] = before[r][i]
       /\ pc[r] = "calls" /\ prev[r][i] = 0 =>
            /\ i \in del[r] => before[r][i] = 0
            /\ put[r][i] # 0 => i \in Published(r)
  /\ Restoring(r) =>
       /\ put[r][i] # 0 => put[r][i] = before[r][i]
       /\ i \in del[r] => before[r][i] = 0 /\ put[r][i] = 0
       /\ i \notin del[r] /\ put[r][i] = 0 => routes[i] = before[r][i]
  /\ pc[r] = "compensated" => routes[i] = before[r][i]

Restorable(r) ==
  kind[r] \in {"activate", "delete"} /\ Single(r) => \A i \in Route : RouteKept(r, i)

(* Requests that have not begun, and replacements.                          *)
Prepared(r) ==
  /\ pc[r] = "idle" =>
       kind[r] = "none" /\ prev[r] = NoRoutes /\ held[r] = {} /\ after[r] = "commit"
  /\ kind[r] # "delete" => repl[r] = 0
  /\ kind[r] = "delete" /\ (pc[r] = "sync" \/ (pc[r] = "calls" /\ after[r] = "sync")) =>
       repl[r] # 0

RestoreInv == LockInv /\ \A r \in Requests : Prepared(r) /\ Restorable(r)

LEMMA SteppedIsKnown ==
  ASSUME Typed, NEW r \in Requests, StepOf(r)
  PROVE  /\ kind'[r] # "none"
         /\ \/ \E k \in Kinds, v \in Versions : Arrive(r, k, v)
            \/ kind' = kind /\ before' = before
<1>1. TypeOK /\ Course(r)
  BY DEF Typed
<1>2. CASE \E k \in Kinds, v \in Versions : Arrive(r, k, v)
  <2>1. PICK k \in Kinds : kind'[r] = k
    BY <1>1, <1>2 DEF Arrive, TypeOK
  <2>2. "none" \notin Kinds
    BY DEF Kinds
  <2>3. kind'[r] # "none"
    BY <2>1, <2>2
  <2> QED
    BY <1>2, <2>3
<1>3. CASE ~\E k \in Kinds, v \in Versions : Arrive(r, k, v)
  <2>1. kind' = kind /\ before' = before
    BY <1>3 DEF StepOf, Serve, Fails, GatewayCall, GatewayReturn, GatewayFails, BeginActivate,
         BeginCreate, BeginUpdate, BeginDelete, BeginDeleteService, Deactivate, LockRow, ClaimActive,
         InsertVersion, MoveVersion, DeleteRow, ReplaceVersion, DeadlockAbort, Unroute, Sync, Compensate, Reroute,
         Commit, DeleteService, CommitFails, ReconcileRead, ReconcileList, Dispatch, StartJob,
         RecordOutcome, Redeliver, RollbackBegin, Apply, ApplyFails, Reapply, ReapplyFails,
         Deploy, DeployFails, Validate, UpdateVersion, Activate, RestoreCheck, Reactivate, reqVars
  <2>2. pc[r] # "idle"
    BY <1>3, AbortedWaits DEF LockSteps, At, StepOf, Serve, Fails, GatewayCall, GatewayReturn, GatewayFails, BeginActivate,
         BeginCreate, BeginUpdate, BeginDelete, BeginDeleteService, Deactivate, LockRow, ClaimActive,
         InsertVersion, MoveVersion, DeleteRow, ReplaceVersion, Unroute, Sync, Compensate, Reroute,
         Commit, DeleteService, CommitFails, ReconcileRead, ReconcileList, Dispatch, StartJob,
         RecordOutcome, Redeliver, RollbackBegin, Apply, ApplyFails, Reapply, ReapplyFails,
         Validate, UpdateVersion, Activate, RestoreCheck, Reactivate
  <2> QED
    BY <1>1, <2>1, <2>2 DEF Course
<1> QED
  BY <1>2, <1>3

LEMMA PreparedStep ==
  ASSUME Typed, NEW r \in Requests, StepOf(r), Prepared(r)
  PROVE  Prepared(r)'
<1>1. TypeOK /\ Course(r)
  BY DEF Typed
<1> USE <1>1 DEF Goto, At, Lock, EndWith, Release, txnVars, callVars, reqVars, rowVars, TypeOK
<1>2. pc'[r] # "idle"
  <2>1. CASE GatewayReturn(r)
    BY <2>1 DEF GatewayReturn, Step, Ended
  <2>2. CASE GatewayCall(r)
    BY <2>2 DEF GatewayCall
  <2>3. CASE \/ BeginActivate(r) \/ BeginCreate(r) \/ BeginUpdate(r) \/ BeginDelete(r)
             \/ BeginDeleteService(r) \/ GatewayFails(r) \/ Commit(r) \/ CommitFails(r)
    BY <2>3 DEF BeginActivate, BeginCreate, BeginUpdate, BeginDelete, BeginDeleteService,
         GatewayFails, Commit, CommitFails
  <2>6. CASE \/ DeleteService(r) \/ Deactivate(r) \/ LockRow(r) \/ ClaimActive(r) \/ InsertVersion(r)
             \/ MoveVersion(r) \/ ReplaceVersion(r) \/ DeadlockAbort(r)
    BY <2>6 DEF DeleteService, Deactivate, LockRow, ClaimActive, InsertVersion, MoveVersion,
         ReplaceVersion, DeadlockAbort
  <2>7. CASE DeleteRow(r)
    <3>1. pc'[r] \in {"unroute", "replace"}
      BY <2>7 DEF DeleteRow
    <3> QED
      BY <3>1
  <2>4. CASE \/ Unroute(r) \/ Sync(r) \/ Compensate(r) \/ Reroute(r) \/ ReconcileList(r)
             \/ ReconcileRead(r) \/ \E k \in Kinds, v \in Versions : Arrive(r, k, v)
    BY <2>4 DEF Unroute, Sync, Compensate, Reroute, ReconcileList, ReconcileRead, Arrive, Plan,
         SyncServiceRoutes, DeleteServiceRoutes, RollbackServiceRoutes
  <2>5. CASE \/ Dispatch(r) \/ StartJob(r) \/ RecordOutcome(r) \/ Redeliver(r) \/ RollbackBegin(r)
             \/ Apply(r) \/ ApplyFails(r) \/ Reapply(r) \/ ReapplyFails(r) \/ Validate(r)
             \/ UpdateVersion(r) \/ Activate(r) \/ RestoreCheck(r) \/ Reactivate(r)
    BY <2>5 DEF Dispatch, StartJob, RecordOutcome, Redeliver, RollbackBegin, Apply, ApplyFails,
         Reapply, ReapplyFails, Deploy, DeployFails, Validate, UpdateVersion, Activate,
         RestoreCheck, Reactivate
  <2> QED
    BY <2>1, <2>2, <2>3, <2>4, <2>5, <2>6, <2>7 DEF StepOf, Serve, Fails
<1>3. CASE DeleteRow(r)
  <2>1. pc[r] = "rows" /\ kind' = kind /\ pc'[r] \in {"unroute", "replace"}
    BY <1>3 DEF DeleteRow
  <2>2. kind[r] = "delete"
    BY <2>1 DEF Course, Kinds, Ended
  <2> QED
    BY <1>2, <2>1, <2>2 DEF Prepared
<1>4. CASE \E k \in Kinds, v \in Versions : Arrive(r, k, v)
  <2>1. pc[r] = "idle" /\ repl' = repl /\ pc'[r] \in {"accept", "begin"}
    BY <1>4 DEF Arrive
  <2> QED
    BY <2>1 DEF Prepared
<1>5. CASE Unroute(r)
  <2>1. /\ pc[r] = "unroute" /\ kind' = kind /\ repl' = repl
        /\ after'[r] = IF repl[r] # 0 THEN "sync" ELSE "commit"
        /\ pc'[r] = "calls"
    BY <1>5 DEF Unroute, DeleteServiceRoutes, Plan
  <2> QED
    BY <2>1 DEF Prepared
<1>6. CASE Sync(r)
  <2>1. pc'[r] = "calls" /\ after'[r] # "sync" /\ kind' = kind /\ repl' = repl
    BY <1>6 DEF Sync, SyncServiceRoutes, Plan
  <2> QED
    BY <2>1 DEF Prepared
<1>7. CASE GatewayReturn(r) \/ GatewayCall(r)
  <2>1. /\ kind' = kind /\ repl' = repl /\ after' = after /\ pc[r] = "calls"
        /\ pc'[r] \in {pc[r], after[r]}
    BY <1>7 DEF GatewayReturn, GatewayCall
  <2>2. kind[r] = "delete" => after[r] # "calls"
    BY <2>1 DEF Course
  <2> QED
    BY <1>2, <2>1, <2>2 DEF Prepared
<1>8. CASE ~(\/ DeleteRow(r) \/ (\E k \in Kinds, v \in Versions : Arrive(r, k, v)) \/ Unroute(r)
             \/ Sync(r) \/ GatewayReturn(r) \/ GatewayCall(r))
  <2>1. /\ kind' = kind /\ repl' = repl
        /\ kind[r] = "delete" => pc'[r] # "sync" /\ (pc'[r] = "calls" => after'[r] = "compensated")
    <3>1. CASE \/ BeginActivate(r) \/ BeginCreate(r) \/ BeginUpdate(r) \/ BeginDelete(r)
               \/ BeginDeleteService(r) \/ GatewayFails(r) \/ Commit(r) \/ CommitFails(r)
      BY <3>1 DEF BeginActivate, BeginCreate, BeginUpdate, BeginDelete, BeginDeleteService,
           GatewayFails, Commit, CommitFails
    <3>4. CASE \/ DeleteService(r) \/ LockRow(r) \/ InsertVersion(r) \/ MoveVersion(r)
               \/ ReplaceVersion(r) \/ DeadlockAbort(r)
      <4>1. kind' = kind /\ repl' = repl /\ pc'[r] \notin {"sync", "calls"}
        BY <3>4 DEF DeleteService, LockRow, InsertVersion, MoveVersion, ReplaceVersion, DeadlockAbort
      <4> QED
        BY <4>1
    <3>5. CASE ClaimActive(r)
      BY <3>5 DEF ClaimActive
    <3>6. CASE Deactivate(r)
      <4>1. kind' = kind /\ repl' = repl /\ pc'[r] \in {"locking", "activating", "reactivating"}
        BY <3>6 DEF Deactivate
      <4> QED
        BY <4>1
    <3>2. CASE Compensate(r) \/ ReconcileRead(r)
      BY <3>2 DEF Compensate, ReconcileRead, Plan, RollbackServiceRoutes
    <3>3. CASE \/ Reroute(r) \/ ReconcileList(r) \/ Dispatch(r) \/ StartJob(r) \/ RecordOutcome(r)
               \/ Redeliver(r) \/ RollbackBegin(r) \/ Apply(r) \/ ApplyFails(r) \/ Reapply(r)
               \/ ReapplyFails(r) \/ Validate(r) \/ UpdateVersion(r) \/ Activate(r)
               \/ RestoreCheck(r) \/ Reactivate(r)
      <4>1. kind' = kind /\ repl' = repl
        BY <3>3 DEF Dispatch, StartJob, RecordOutcome, Redeliver, RollbackBegin, Apply, ApplyFails,
           Reapply, ReapplyFails, Deploy, DeployFails, Validate, UpdateVersion, Activate,
           RestoreCheck, Reactivate, Reroute, ReconcileList
      <4>2. \/ kind[r] = "rollback"
            \/ pc[r] \in {"reroute", "list", "accept", "won", "lost", "resolve", "apply", "reapply",
                          "validate", "update", "activating", "check", "reactivating"}
        BY <3>3 DEF Dispatch, StartJob, RecordOutcome, Redeliver, RollbackBegin, Apply, ApplyFails,
           Reapply, ReapplyFails, Validate, UpdateVersion, Activate,
           RestoreCheck, Reactivate, Reroute, ReconcileList
      <4>3. kind[r] # "delete"
        BY <4>2 DEF Course, Ended
      <4> QED
        BY <4>1, <4>3
    <3> QED
      BY <1>8, <3>1, <3>2, <3>3, <3>4, <3>5, <3>6 DEF StepOf, Serve, Fails
  <2> QED
    BY <1>2, <2>1 DEF Prepared
<1> QED
  BY <1>3, <1>4, <1>5, <1>6, <1>7, <1>8

(* The steps of the two handlers that publish routes.                       *)
LEMMA HandlerSteps ==
  ASSUME Typed, NEW r \in Requests, StepOf(r), kind[r] \in {"activate", "delete"}
  PROVE  \/ GatewayCall(r) \/ GatewayReturn(r) \/ GatewayFails(r) \/ BeginActivate(r)
         \/ BeginDelete(r) \/ Deactivate(r) \/ LockRow(r) \/ ClaimActive(r) \/ DeleteRow(r)
         \/ ReplaceVersion(r) \/ DeadlockAbort(r) \/ Unroute(r) \/ Sync(r) \/ Commit(r)
         \/ CommitFails(r) \/ Compensate(r)
<1>1. pc[r] \in {"begin", "deactivate", "locking", "rows", "replace", "unroute", "sync", "calls",
                 "commit", "compensate"} \cup Ended
  BY DEF Typed, Course
<1> QED
  BY <1>1 DEF Ended, At, StepOf, Serve, Fails, Arrive, BeginCreate, BeginUpdate, Reroute,
       BeginDeleteService, DeleteService, InsertVersion, MoveVersion, ReconcileRead, ReconcileList, Dispatch, StartJob, RecordOutcome, Redeliver,
       RollbackBegin, Apply, ApplyFails, Reapply, ReapplyFails, Validate, UpdateVersion, Activate,
       RestoreCheck, Reactivate

LEMMA CallStep ==
  ASSUME TypeOK, NEW r \in Requests, GatewayCall(r)
  PROVE  \E i \in Route :
           \/ /\ i \in del[r] /\ put' = put /\ del'[r] = del[r] \ {i}
              /\ \A x \in Route : routes'[x] = IF x = i THEN 0 ELSE routes[x]
           \/ /\ i \notin del[r] /\ put[r][i] # 0 /\ del' = del
              /\ \A x \in Route : routes'[x] = IF x = i THEN put[r][i] ELSE routes[x]
              /\ \A x \in Route : put'[r][x] = IF x = i THEN 0 ELSE put[r][x]
<1>1. PICK i \in Route :
        \/ /\ i \in del[r] /\ put' = put
           /\ routes' = [routes EXCEPT ![i] = 0] /\ del' = [del EXCEPT ![r] = @ \ {i}]
        \/ /\ i \notin del[r] /\ put[r][i] # 0 /\ del' = del
           /\ routes' = [routes EXCEPT ![i] = put[r][i]] /\ put' = [put EXCEPT ![r][i] = 0]
  BY DEF GatewayCall, NextCall, TypeOK
<1>2. routes \in [Route -> Route] /\ put[r] \in [Route -> Route]
  BY DEF TypeOK, Routing
<1> QED
  BY <1>1, <1>2 DEF TypeOK

LEMMA RestorableStep ==
  ASSUME LockInv, NEW r \in Requests, StepOf(r), Prepared(r), Restorable(r),
         kind[r] \in {"activate", "delete"}, Single(r)
  PROVE  \A i \in Route : RouteKept(r, i)'
<1>1. TypeOK /\ Typed /\ Course(r) /\ Holding(r) /\ version[r] \in Versions /\ 0 \notin Versions
      /\ version[r] \in Route /\ repl[r] \in Route /\ 0 \in Route
  BY RouteFacts DEF LockInv, Typed, TypeOK
<1>2. \A i \in Route : RouteKept(r, i)
  BY DEF Restorable
<1>3. pc[r] # "idle" /\ kind' = kind /\ before' = before /\ version' = version
  <2>1. pc[r] # "idle"
    BY DEF Prepared
  <2>2. \/ GatewayCall(r) \/ GatewayReturn(r) \/ GatewayFails(r) \/ BeginActivate(r)
        \/ BeginDelete(r) \/ Deactivate(r) \/ LockRow(r) \/ ClaimActive(r) \/ DeleteRow(r)
        \/ ReplaceVersion(r) \/ DeadlockAbort(r) \/ Unroute(r) \/ Sync(r) \/ Commit(r)
        \/ CommitFails(r) \/ Compensate(r)
    BY <1>1, HandlerSteps
  <2>3. kind' = kind /\ before' = before /\ version' = version
    BY <2>2 DEF GatewayCall, GatewayReturn, GatewayFails, BeginActivate,
         BeginDelete, Deactivate, LockRow, ClaimActive, DeleteRow, ReplaceVersion, DeadlockAbort,
         Unroute, Sync, Commit, CommitFails, Compensate, reqVars
  <2> QED
    BY <2>1, <2>3
<1> USE <1>1 DEF Goto, At, Lock, EndWith, Release, txnVars, callVars, reqVars, rowVars
<1>4. CASE GatewayCall(r)
  <2>1. UNCHANGED <<pc, prev, after, repl, seen>> /\ pc[r] = "calls"
    BY <1>4 DEF GatewayCall
  <2>2. Published(r)' = Published(r)
    BY <1>3, <2>1 DEF Published
  <2>3. /\ BeforeSync(r)' = BeforeSync(r) /\ BeforeCommit(r)' = BeforeCommit(r)
        /\ Restoring(r)' = Restoring(r)
    BY <2>1 DEF BeforeSync, BeforeCommit, Restoring
  <2>4. after[r] \in {"sync", "commit", "compensated"}
    BY <2>1 DEF Course
  <2>5. PICK i \in Route :
           \/ /\ i \in del[r] /\ put' = put /\ del'[r] = del[r] \ {i}
              /\ \A x \in Route : routes'[x] = IF x = i THEN 0 ELSE routes[x]
           \/ /\ i \notin del[r] /\ put[r][i] # 0 /\ del' = del
              /\ \A x \in Route : routes'[x] = IF x = i THEN put[r][i] ELSE routes[x]
              /\ \A x \in Route : put'[r][x] = IF x = i THEN 0 ELSE put[r][x]
    BY <1>4, CallStep
  <2>6. SUFFICES ASSUME NEW x \in Route PROVE RouteKept(r, x)'
    OBVIOUS
  <2>7. RouteKept(r, x)
    BY <1>2
  <2>8. CASE after[r] = "sync"
    <3>1. BeforeSync(r) /\ ~BeforeCommit(r) /\ ~Restoring(r)
      BY <2>1, <2>8 DEF BeforeSync, BeforeCommit, Restoring
    <3>2. put[r][i] = 0 /\ put[r][x] = 0
      BY <1>2, <2>1, <3>1 DEF RouteKept
    <3> QED
      BY <1>3, <2>1, <2>3, <2>5, <2>7, <3>1, <3>2 DEF RouteKept
  <2>9. CASE after[r] = "commit"
    <3>1. ~BeforeSync(r) /\ BeforeCommit(r) /\ ~Restoring(r)
      BY <2>1, <2>9 DEF BeforeSync, BeforeCommit, Restoring
    <3> QED
      BY <1>3, <2>1, <2>2, <2>3, <2>5, <2>7, <3>1 DEF RouteKept
  <2>10. CASE after[r] = "compensated"
    <3>1. ~BeforeSync(r) /\ ~BeforeCommit(r) /\ Restoring(r)
      BY <2>1, <2>10 DEF BeforeSync, BeforeCommit, Restoring
    <3> QED
      BY <1>3, <2>1, <2>3, <2>5, <2>7, <3>1 DEF RouteKept
  <2> QED
    BY <2>4, <2>8, <2>9, <2>10
<1>5. CASE GatewayReturn(r)
  <2>1. /\ UNCHANGED <<prev, after, repl, seen, routes, del, put>> /\ pc[r] = "calls"
        /\ pc'[r] = after[r] /\ NextCall(r) = {}
    BY <1>5 DEF GatewayReturn, TypeOK
  <2>2. Published(r)' = Published(r)
    BY <1>3, <2>1 DEF Published
  <2>3. after[r] \in {"sync", "commit", "compensated"}
    BY <2>1 DEF Course
  <2>4. del[r] = {} /\ \A x \in Route : put[r][x] = 0
    BY <2>1 DEF NextCall
  <2> QED
    BY <1>2, <1>3, <2>1, <2>2, <2>3, <2>4
       DEF RouteKept, BeforeSync, BeforeCommit, Restoring
<1>6. CASE GatewayFails(r)
  <2>1. /\ pc[r] = "calls" /\ UNCHANGED <<prev, routes>>
        /\ pc'[r] = CASE after[r] = "activate" -> "check"
                      [] after[r] = "reactivate" -> "lost"
                      [] OTHER -> "failed"
    BY <1>6 DEF GatewayFails, TypeOK
  <2>2. pc'[r] = "failed"
    BY <2>1 DEF Course
  <2> QED
    BY <1>2, <1>3, <2>1, <2>2 DEF RouteKept, BeforeSync, BeforeCommit, Restoring
<1>7. CASE BeginActivate(r) \/ BeginDelete(r) \/ ClaimActive(r) \/ DeleteRow(r) \/ ReplaceVersion(r)
  <2>1. /\ pc[r] \in {"begin", "locking", "rows", "replace"} /\ UNCHANGED <<prev, routes>>
        /\ pc'[r] \in {"deactivate", "sync", "rows", "replace", "unroute", "refused", "failed"}
    BY <1>7 DEF BeginActivate, BeginDelete, ClaimActive, DeleteRow, ReplaceVersion, TypeOK
  <2> QED
    BY <1>2, <1>3, <2>1 DEF RouteKept, BeforeSync, BeforeCommit, Restoring
<1>13. CASE LockRow(r) \/ Deactivate(r)
  <2>1. /\ pc[r] \in {"locking", "deactivate"} /\ pc'[r] = "locking" /\ UNCHANGED <<prev, routes>>
    <3>1. pc[r] \notin {"activate", "reactivate", "activating", "reactivating", "deleting"}
      BY DEF Course, Ended
    <3> QED
      BY <1>13, <3>1 DEF LockRow, Deactivate, TypeOK
  <2> QED
    BY <1>2, <1>3, <2>1 DEF RouteKept, BeforeSync, BeforeCommit, Restoring
<1>14. CASE DeadlockAbort(r)
  <2>1. /\ UNCHANGED <<prev, routes>>
        /\ pc'[r] \in {"check", "lost", "failed"}
    BY <1>14 DEF DeadlockAbort, TypeOK
  <2> QED
    BY <1>2, <1>3, <2>1 DEF RouteKept, BeforeSync, BeforeCommit, Restoring
<1>8. CASE Unroute(r)
  <2> DEFINE ids == IF seen[r] # 0 /\ repl[r] = 0 THEN {0, version[r]} ELSE {version[r]}
  <2>1. /\ pc[r] = "unroute" /\ UNCHANGED <<routes, repl, seen>>
        /\ pc'[r] = "calls" /\ after'[r] = IF repl[r] # 0 THEN "sync" ELSE "commit"
        /\ del'[r] = ids /\ put'[r] = NoRoutes
        /\ prev'[r] = [x \in Route |-> IF (IF x \in ids THEN routes[x] ELSE 0) # 0
                                       THEN (IF x \in ids THEN routes[x] ELSE 0) ELSE prev[r][x]]
    BY <1>8 DEF Unroute, DeleteServiceRoutes, Plan, TypeOK
  <2>2. kind[r] = "delete" /\ Published(r)' = Published(r)
    BY <1>3, <2>1 DEF Course, Published, Ended
  <2>3. repl[r] = 0 => Published(r) = ids
    BY <2>2 DEF Published
  <2> HIDE DEF ids
  <2>4. SUFFICES ASSUME NEW x \in Route PROVE RouteKept(r, x)'
    OBVIOUS
  <2>5. /\ prev[r][x] # 0 => prev[r][x] = before[r][x]
        /\ routes[x] \in {0, before[r][x]}
        /\ prev[r][x] = 0 => routes[x] = before[r][x]
    BY <1>2, <2>1 DEF RouteKept, BeforeSync
  <2>6. /\ put'[r][x] = 0
        /\ prev'[r][x] = IF x \in ids /\ routes[x] # 0 THEN routes[x] ELSE prev[r][x]
    BY <2>1 DEF NoRoutes
  <2> QED
    BY <1>3, <2>1, <2>2, <2>3, <2>5, <2>6 DEF RouteKept, BeforeSync, BeforeCommit, Restoring
<1>9. CASE Sync(r)
  <2> DEFINE v == IF repl[r] # 0 THEN repl[r] ELSE version[r]
  <2>1. /\ pc[r] = "sync" /\ UNCHANGED <<routes, repl, seen>>
        /\ pc'[r] = "calls" /\ after'[r] = "commit"
        /\ del'[r] = {x \in Route : routes[x] # 0 /\ Documents(v)[x] = 0}
        /\ put'[r] = Documents(v)
        /\ prev'[r] = [x \in Route |-> IF routes[x] # 0 THEN routes[x] ELSE prev[r][x]]
    BY <1>9 DEF Sync, SyncServiceRoutes, Plan, TypeOK
  <2>2. Published(r)' = Published(r) /\ Published(r) = {0, v}
    BY <1>3, <2>1 DEF Published, Prepared
  <2> HIDE DEF v
  <2>3. SUFFICES ASSUME NEW x \in Route PROVE RouteKept(r, x)'
    OBVIOUS
  <2>4. /\ prev[r][x] # 0 => prev[r][x] = before[r][x]
        /\ routes[x] \in {0, before[r][x]}
        /\ prev[r][x] = 0 => routes[x] = before[r][x]
    BY <1>2, <2>1 DEF RouteKept, BeforeSync
  <2>5. /\ put'[r][x] = IF x \in {0, v} THEN v ELSE 0
        /\ prev'[r][x] = IF routes[x] # 0 THEN routes[x] ELSE prev[r][x]
        /\ x \in del'[r] => routes[x] # 0
    BY <2>1 DEF Documents
  <2> QED
    BY <1>3, <2>1, <2>2, <2>4, <2>5 DEF RouteKept, BeforeSync, BeforeCommit, Restoring
<1>10. CASE Commit(r)
  <2>1. pc'[r] = "ok" /\ prev' = prev
    BY <1>10 DEF Commit, TypeOK
  <2> QED
    BY <1>2, <1>3, <2>1 DEF RouteKept, BeforeSync, BeforeCommit, Restoring
<1>11. CASE CommitFails(r)
  <2>1. /\ pc[r] = "commit" /\ pc'[r] = "compensate" /\ UNCHANGED <<prev, routes, repl, seen>>
    BY <1>11 DEF CommitFails, TypeOK
  <2>2. Published(r)' = Published(r)
    BY <1>3, <2>1 DEF Published
  <2> QED
    BY <1>2, <1>3, <2>1, <2>2 DEF RouteKept, BeforeSync, BeforeCommit, Restoring
<1>12. CASE Compensate(r)
  <2>1. /\ pc[r] = "compensate" /\ UNCHANGED <<routes, repl, seen>>
        /\ pc'[r] = "calls" /\ after'[r] = "compensated"
        /\ del'[r] = {x \in Published(r) : prev[r][x] = 0} /\ put'[r] = prev[r]
        /\ prev'[r] = [x \in Route |-> IF NoRoutes[x] # 0 THEN NoRoutes[x] ELSE prev[r][x]]
    BY <1>12 DEF Compensate, Published, RollbackServiceRoutes, Plan, TypeOK
  <2>2. \A x \in Route : prev'[r][x] = prev[r][x]
    BY <2>1 DEF NoRoutes
  <2>3. SUFFICES ASSUME NEW x \in Route PROVE RouteKept(r, x)'
    OBVIOUS
  <2>4. /\ prev[r][x] # 0 => prev[r][x] = before[r][x]
        /\ prev[r][x] = 0 => IF x \in Published(r) THEN before[r][x] = 0
                                                   ELSE routes[x] = before[r][x]
    BY <1>2, <2>1 DEF RouteKept, BeforeCommit
  <2> QED
    BY <1>3, <2>1, <2>2, <2>4 DEF RouteKept, BeforeSync, BeforeCommit, Restoring
<1> QED
  BY <1>4, <1>5, <1>6, <1>7, <1>8, <1>9, <1>10, <1>11, <1>12, <1>13, <1>14, HandlerSteps

LEMMA RestoreStep ==
  ASSUME RestoreInv, NEW r \in Requests, StepOf(r)
  PROVE  RestoreInv'
<1>1. LockInv /\ LockInv' /\ Typed /\ TypeOK
  BY LockStep DEF RestoreInv, LockInv, Typed
<1>2. ASSUME NEW q \in Requests PROVE Prepared(q)'
  <2>1. CASE q = r
    BY <1>1, <2>1, PreparedStep DEF RestoreInv
  <2>2. CASE q # r
    <3>1. q \in Requests \ {r} /\ Prepared(q)
      BY <2>2 DEF RestoreInv
    <3> QED
      BY <1>1, <3>1, OthersSame DEF Prepared
  <2> QED
    BY <2>1, <2>2
<1>3. ASSUME NEW q \in Requests, kind'[q] \in {"activate", "delete"}, Single(q)'
      PROVE  \A i \in Route : RouteKept(q, i)'
  <2>1. q = r
    <3>1. kind'[r] # "none"
      BY <1>1, SteppedIsKnown
    <3> QED
      BY <1>3, <3>1 DEF Single
  <2>2. Single(r)
    BY <1>1, <1>3, <2>1, OthersSame DEF Single
  <2>3. CASE \E k \in Kinds, v \in Versions : Arrive(r, k, v)
    <3>1. /\ pc[r] = "idle" /\ UNCHANGED <<routes, prev>> /\ before'[r] = routes
          /\ pc'[r] \in {"accept", "begin"}
      BY <1>1, <2>3 DEF Arrive, At, Goto, TypeOK, callVars
    <3>2. \A i \in Route : prev[r][i] = 0
      BY <3>1 DEF RestoreInv, Prepared, NoRoutes
    <3> QED
      BY <2>1, <3>1, <3>2 DEF RouteKept, BeforeSync, BeforeCommit, Restoring
  <2>4. CASE ~\E k \in Kinds, v \in Versions : Arrive(r, k, v)
    <3>1. kind' = kind
      BY <1>1, <2>4, SteppedIsKnown
    <3> QED
      BY <1>1, <1>3, <2>1, <2>2, <3>1, RestorableStep DEF RestoreInv
  <2> QED
    BY <2>3, <2>4
<1> QED
  BY <1>1, <1>2, <1>3 DEF RestoreInv, Restorable

LEMMA RestoreInvariant == Spec => []RestoreInv
<1>1. Init => RestoreInv
  <2> SUFFICES ASSUME Init PROVE RestoreInv
    OBVIOUS
  <2> QED
    BY LockInit DEF Init, RestoreInv, Prepared, Restorable
<1>2. RestoreInv /\ [Next]_vars => RestoreInv'
  <2>1. ASSUME RestoreInv, UNCHANGED vars PROVE RestoreInv'
    <3>1. LockInv'
      BY <2>1, LockStutter DEF RestoreInv
    <3>2. \A r \in Requests : Prepared(r)' /\ (Single(r)' <=> Single(r))
      BY <2>1 DEF RestoreInv, Prepared, Single, vars
    <3>3. \A r \in Requests, i \in Route : RouteKept(r, i)' <=> RouteKept(r, i)
      BY <2>1 DEF RouteKept, BeforeSync, BeforeCommit, Restoring, Published, vars
    <3> QED
      BY <2>1, <3>1, <3>2, <3>3 DEF RestoreInv, Restorable, vars
  <2> QED
    BY <2>1, RestoreStep, NextIsStep
<1> QED
  BY <1>1, <1>2, PTL DEF Spec

(* A handler whose commit failed and whose route compensation went through  *)
(* has put back every route of the service, those of other versions that    *)
(* sync_service_routes deleted included.                                    *)
THEOREM CompensationIsComplete == Spec => []CompensationRestores
<1>1. RestoreInv => CompensationRestores
  <2> SUFFICES ASSUME RestoreInv, NEW r \in Requests, pc[r] = "compensated", Single(r)
               PROVE  routes = before[r]
    BY DEF CompensationRestores, At, Single
  <2>1. Course(r) /\ TypeOK /\ Restorable(r) /\ kind[r] \in Kinds \cup {"none"}
    BY DEF RestoreInv, LockInv, Typed, TypeOK
  <2>2. kind[r] \in {"activate", "delete"}
    BY <2>1 DEF Course, Kinds
  <2>3. \A i \in Route : routes[i] = before[r][i]
    BY <2>1, <2>2 DEF Restorable, RouteKept
  <2>4. routes \in [Route -> Route] /\ before[r] \in [Route -> Route]
    BY <2>1 DEF TypeOK, Routing
  <2> QED
    BY <2>3, <2>4
<1> QED
  BY <1>1, RestoreInvariant, PTL
-----------------------------------------------------------------------------
(* The rollback job.  With at most one failure or redelivery, and no other  *)
(* request before it, a step finds the former version in service, or, when  *)
(* the task is delivered again after it succeeded, the target.              *)
Former(r) == before[r][0]

FormerServes(r) == InService(Former(r))
TargetServes(r) == InService(version[r])

(* The calls of a synchronisation with v: the default route leads to v, or  *)
(* its call is yet to come.                                                 *)
Switching(r, v) ==
  0 \notin del[r] /\ put[r][0] \in {0, v} /\ (put[r][0] = 0 => routes[0] = v)

Trial(r) ==
  /\ active = {seen[r]} /\ {seen[r], version[r]} \subseteq runtime
  /\ \/ seen[r] = Former(r)
     \/ seen[r] = version[r] /\ routes[0] = version[r] /\ faults = 1

(* The error came after the commit of activate_version: the restore is      *)
(* skipped.                                                                 *)
Through(r) ==
  after[r] = "activate" /\ pc[r] \in {"check", "lost"} /\ TargetServes(r)

Truthful(r) ==
  /\ Former(r) \in exists /\ version[r] \in exists /\ Former(r) # version[r]
  /\ pc[r] \in {"accept", "begin", "resolve", "apply", "validate", "update", "sync"} =>
       \/ /\ FormerServes(r) /\ job[r] \notin {"succeeded", "failed"}
          /\ after[r] # "activate"
       \/ TargetServes(r) /\ faults = 1 /\ pc[r] # "accept"
  /\ pc[r] \in {"apply", "validate", "update", "sync"} => active = {seen[r]}
  /\ pc[r] \in {"update", "sync", "validate"} => version[r] \in runtime
  /\ pc[r] = "calls" /\ after[r] = "activate" => Trial(r) /\ Switching(r, version[r])
  /\ pc[r] \in {"activate", "activating"} =>
       Trial(r) /\ routes[0] = version[r] /\ after[r] = "activate"
  /\ pc[r] = "activating" => exists \subseteq held[r] \cup todo[r]
  /\ pc[r] = "won" => TargetServes(r)
  /\ \/ pc[r] \in {"check", "reapply", "reroute", "reactivate", "reactivating", "lost"}
     \/ pc[r] = "calls" /\ after[r] = "reactivate"
     => /\ faults = 1 /\ seen[r] = Former(r)
        /\ \/ Through(r)
           \/ /\ active = {seen[r]} /\ seen[r] \in runtime
              /\ pc[r] \in {"check", "reapply"} /\ after[r] = "reapply" => routes[0] = seen[r]
              /\ pc[r] \in {"reactivate", "reactivating", "lost"} =>
                   routes[0] = seen[r] /\ after[r] # "activate"
              /\ pc[r] = "calls" => Switching(r, seen[r])
  /\ pc[r] \in Step \ {"accept", "begin"} => job[r] = "running"
  /\ pc[r] = "ok" => TargetServes(r) /\ job[r] = "succeeded"
  /\ pc[r] = "refused" => FormerServes(r) /\ job[r] \notin {"succeeded", "failed"}
  /\ pc[r] = "failed" =>
       /\ faults = 1
       /\ \/ job[r] = "failed" /\ seen[r] = Former(r) /\ FormerServes(r) /\ after[r] # "activate"
          \/ job[r] = "failed" /\ TargetServes(r) /\ after[r] = "activate"
          \/ job[r] \notin {"succeeded", "failed"} /\ (FormerServes(r) \/ TargetServes(r))

Outcome(r) == kind[r] = "rollback" /\ Single(r) /\ faults <= 1 => Truthful(r)

(* Before the first request the active version is in service.               *)
Pristine ==
  /\ (\A r \in Requests : kind[r] = "none") /\ active # {} => InService(Active)
  /\ \A r \in Requests : kind[r] = "none" => job[r] = "absent"

TruthInv ==
  LockInv /\ Pristine /\ \A r \in Requests : Prepared(r) /\ Outcome(r)

LEMMA ActiveOf ==
  ASSUME NEW v, active = {v}
  PROVE  Active = v
BY DEF Active

LEMMA RollbackSteps ==
  ASSUME Typed, NEW r \in Requests, StepOf(r), kind[r] = "rollback"
  PROVE  /\ \/ GatewayCall(r) \/ GatewayReturn(r) \/ GatewayFails(r) \/ Sync(r) \/ Reroute(r)
            \/ Dispatch(r) \/ StartJob(r) \/ RecordOutcome(r) \/ Redeliver(r) \/ RollbackBegin(r)
            \/ Apply(r) \/ ApplyFails(r) \/ Reapply(r) \/ ReapplyFails(r) \/ Validate(r)
            \/ UpdateVersion(r) \/ Activate(r) \/ RestoreCheck(r) \/ Reactivate(r)
            \/ Deactivate(r) \/ LockRow(r) \/ DeadlockAbort(r)
            \/ \E k \in Kinds, v \in Versions : Arrive(r, k, v)
<1>1. pc[r] \notin {"rows", "unroute", "commit", "compensate", "list", "locking", "insert", "move_in",
                    "move_out", "replace", "deleting"}
  BY DEF Typed, Course
<1> QED
  BY <1>1 DEF At, StepOf, Serve, Fails, BeginActivate, BeginCreate, BeginUpdate, BeginDelete,
       BeginDeleteService, ClaimActive, InsertVersion, MoveVersion, DeleteRow, ReplaceVersion,
       Unroute, Commit, CommitFails, Compensate, DeleteService, ReconcileRead,
       ReconcileList

(* Failures are counted.                                                    *)
LEMMA FaultCount ==
  ASSUME TypeOK, NEW r \in Requests, StepOf(r), faults' <= 1
  PROVE  /\ faults <= 1 /\ faults \in Nat
         /\ faults' = faults \/ (Fault /\ faults = 0 /\ faults' = 1)
<1>1. faults \in Nat
  BY RegistryAssumption DEF TypeOK, Regime
<1>2. faults' = faults \/ Fault
  BY DEF NoFault, StepOf, Serve, Fails, Arrive, GatewayCall, GatewayReturn, GatewayFails,
         BeginActivate, BeginCreate, BeginUpdate, BeginDelete, BeginDeleteService, Deactivate, LockRow, ClaimActive,
         InsertVersion, MoveVersion, DeleteRow, ReplaceVersion, DeadlockAbort, Unroute, Sync,
         Compensate, Reroute, Commit, DeleteService, CommitFails, ReconcileRead, ReconcileList,
         Dispatch, StartJob, RecordOutcome, Redeliver, RollbackBegin, Apply, ApplyFails, Reapply,
         ReapplyFails, Deploy, DeployFails, Validate, UpdateVersion, Activate, RestoreCheck,
         Reactivate, reqVars
<1> QED
  BY <1>1, <1>2 DEF Fault

LEMMA TruthfulStep ==
  ASSUME LockInv, NEW r \in Requests, Prepared(r), StepOf(r), kind[r] = "rollback",
         Truthful(r), faults' <= 1, \A q \in Requests \ {r} : held[q] = {}
  PROVE  Truthful(r)'
<1>1. /\ TypeOK /\ Typed /\ Course(r) /\ faults \in Nat
      /\ faults' = faults \/ (Fault /\ faults = 0 /\ faults' = 1)
      /\ pc[r] # "idle" /\ repl[r] = 0
  BY FaultCount DEF LockInv, Typed, Prepared
<1>2. \/ GatewayCall(r) \/ GatewayReturn(r) \/ GatewayFails(r) \/ Sync(r) \/ Reroute(r)
      \/ Dispatch(r) \/ StartJob(r) \/ RecordOutcome(r) \/ Redeliver(r) \/ RollbackBegin(r)
      \/ Apply(r) \/ ApplyFails(r) \/ Reapply(r) \/ ReapplyFails(r) \/ Validate(r)
      \/ UpdateVersion(r) \/ Activate(r) \/ RestoreCheck(r) \/ Reactivate(r)
      \/ Deactivate(r) \/ LockRow(r)
  BY <1>1, RollbackSteps, AbortedWaits DEF Arrive, At
<1>3. /\ version' = version /\ before' = before /\ exists' = exists /\ Former(r)' = Former(r)
  BY <1>2 DEF Former, GatewayCall, GatewayReturn, GatewayFails, Sync, Reroute, Dispatch, StartJob,
       RecordOutcome, Redeliver, RollbackBegin, Apply, ApplyFails, Reapply, ReapplyFails, Deploy,
       DeployFails, Validate, UpdateVersion, Activate, RestoreCheck, Reactivate, Deactivate, LockRow,
       reqVars, rowVars
<1>4. /\ pc \in [Requests -> Step \cup Ended \cup {"idle"}] /\ job \in [Requests -> JobStatus]
      /\ seen \in [Requests -> Route] /\ after \in [Requests -> Step \cup Ended]
      /\ del \in [Requests -> SUBSET Route] /\ put \in [Requests -> Routing]
      /\ prev \in [Requests -> Routing] /\ put[r] \in [Route -> Route]
      /\ 0 \in Route /\ 0 \notin Versions /\ version[r] \in Route
      /\ version[r] # 0 /\ Former(r) # 0 /\ exists \subseteq Versions /\ Former(r) \in Route
  BY <1>1, RouteFacts DEF TypeOK, Truthful, Routing
<1>5. Fault => faults = 0 /\ faults' = 1
  BY <1>1, <1>4 DEF Fault
<1> USE <1>1, <1>3, <1>4, <1>5
    DEF Goto, At, Lock, Release, txnVars, callVars, reqVars, rowVars, FormerServes, TargetServes,
        InService, Through
<1>6. CASE GatewayCall(r)
  <2>1. UNCHANGED <<pc, job, active, runtime, seen, after, faults>> /\ pc[r] = "calls"
    BY <1>6 DEF GatewayCall
  <2>2. PICK i \in Route :
           \/ /\ i \in del[r] /\ put' = put /\ del'[r] = del[r] \ {i}
              /\ \A x \in Route : routes'[x] = IF x = i THEN 0 ELSE routes[x]
           \/ /\ i \notin del[r] /\ put[r][i] # 0 /\ del' = del
              /\ \A x \in Route : routes'[x] = IF x = i THEN put[r][i] ELSE routes[x]
              /\ \A x \in Route : put'[r][x] = IF x = i THEN 0 ELSE put[r][x]
    BY <1>6, CallStep
  <2>3. ASSUME NEW v \in Route, Switching(r, v)
        PROVE  Switching(r, v)' /\ (routes[0] = v => routes'[0] = v)
    BY <2>2, <2>3 DEF Switching
  <2>4. CASE after[r] = "activate"
    <3>1. Trial(r) /\ Switching(r, version[r])
      BY <2>1, <2>4 DEF Truthful
    <3>2. Switching(r, version[r])' /\ (routes[0] = version[r] => routes'[0] = version[r])
      BY <2>3, <3>1 DEF Switching
    <3>3. Trial(r)'
      BY <2>1, <3>1, <3>2 DEF Trial
    <3> QED
      BY <2>1, <2>4, <3>2, <3>3 DEF Truthful, Step
  <2>5. CASE after[r] = "reactivate"
    <3>1. Switching(r, seen[r])
      BY <2>1, <2>5 DEF Truthful
    <3>2. Switching(r, seen[r])'
      BY <2>1, <2>3, <3>1 DEF Switching
    <3> QED
      BY <2>1, <2>5, <3>2 DEF Truthful, Step
  <2> QED
    BY <2>1, <2>4, <2>5 DEF Course
<1>7. CASE GatewayReturn(r)
  <2>1. /\ UNCHANGED <<job, active, runtime, routes, seen, after, put, del, faults>>
        /\ pc[r] = "calls" /\ pc'[r] = after[r] /\ NextCall(r) = {}
    BY <1>7 DEF GatewayReturn
  <2>2. put[r][0] = 0
    BY <2>1 DEF NextCall
  <2>3. after[r] \in {"activate", "reactivate"}
    BY <2>1 DEF Course
  <2> QED
    BY <2>1, <2>2, <2>3 DEF Truthful, Trial, Switching, Step
<1>8. CASE GatewayFails(r)
  <2>1. /\ UNCHANGED <<job, active, runtime, routes, seen, after>> /\ pc[r] = "calls"
        /\ faults = 0 /\ faults' = 1
        /\ after[r] = "activate" => pc'[r] = "check"
    BY <1>8 DEF GatewayFails
  <2>2. after[r] = "activate"
    BY <2>1 DEF Course, Truthful
  <2> QED
    BY <2>1, <2>2 DEF Truthful, Trial, Step
<1>9. CASE Sync(r)
  <2>1. /\ UNCHANGED <<job, active, runtime, routes, seen, faults>> /\ pc[r] = "sync"
        /\ pc'[r] = "calls" /\ after'[r] = "activate"
        /\ del'[r] = {x \in Route : routes[x] # 0 /\ Documents(version[r])[x] = 0}
        /\ put'[r] = Documents(version[r])
    BY <1>9 DEF Sync, SyncServiceRoutes, Plan
  <2>2. Switching(r, version[r])'
    BY <2>1 DEF Switching, Documents
  <2>3. Trial(r)'
    BY <2>1 DEF Truthful, Trial
  <2> QED
    BY <2>1, <2>2, <2>3 DEF Truthful, Step
<1>10. CASE Reroute(r)
  <2>1. /\ UNCHANGED <<job, active, runtime, routes, seen, faults>> /\ pc[r] = "reroute"
        /\ pc'[r] = "calls" /\ after'[r] = "reactivate"
        /\ del'[r] = {x \in Route : routes[x] # 0 /\ Documents(seen[r])[x] = 0}
        /\ put'[r] = Documents(seen[r])
    BY <1>10 DEF Reroute, SyncServiceRoutes, Plan
  <2>2. seen[r] # 0
    BY <2>1 DEF Truthful
  <2>3. Switching(r, seen[r])'
    BY <2>1, <2>2 DEF Switching, Documents
  <2> QED
    BY <2>1, <2>3 DEF Truthful, Step
<1>11. CASE Dispatch(r)
  <2>1. /\ UNCHANGED <<active, runtime, routes, seen, after>> /\ pc[r] = "accept"
        /\ \/ pc'[r] = "begin" /\ job'[r] \in {job[r], "pending"}
           \/ pc'[r] = "refused" /\ job'[r] = job[r]
    BY <1>11 DEF Dispatch
  <2> QED
    BY <2>1 DEF Truthful, Step
<1>12. CASE StartJob(r)
  <2>1. /\ UNCHANGED <<active, runtime, routes, seen, after>> /\ pc[r] = "begin"
        /\ \/ pc'[r] = "resolve" /\ job'[r] = "running" /\ faults' = faults
           \/ pc'[r] = "failed" /\ faults = 0 /\ faults' = 1
              /\ job'[r] \in {job[r], "running", "pending"}
    BY <1>12 DEF StartJob, NoFault
  <2> QED
    BY <2>1 DEF Truthful, Step
<1>13. CASE RecordOutcome(r)
  <2>1. /\ UNCHANGED <<active, runtime, routes, seen, after>> /\ pc[r] \in {"won", "lost"}
        /\ \/ /\ pc[r] = "won" /\ pc'[r] = "ok" /\ job'[r] = "succeeded" /\ faults' = faults
           \/ /\ pc[r] = "lost" /\ pc'[r] = "failed" /\ job'[r] = "failed" /\ faults' = faults
           \/ /\ pc'[r] = "failed" /\ job' = job /\ faults = 0 /\ faults' = 1
    BY <1>13 DEF RecordOutcome, NoFault
  <2> QED
    BY <2>1 DEF Truthful, Step
<1>14. CASE Redeliver(r)
  <2>1. /\ UNCHANGED <<active, runtime, routes, seen, job, after>> /\ pc[r] \in {"ok", "failed"}
        /\ pc'[r] = "begin" /\ faults = 0 /\ faults' = 1
    BY <1>14 DEF Redeliver
  <2> QED
    BY <2>1 DEF Truthful, Step
<1>15. CASE RollbackBegin(r)
  <2>1. /\ UNCHANGED <<active, runtime, routes, job, faults, after>> /\ pc[r] = "resolve"
        /\ seen'[r] = Active /\ pc'[r] = "apply"
    BY <1>15 DEF RollbackBegin, Truthful
  <2>2. active = {Active}
    BY <2>1, ActiveOf DEF Truthful
  <2> QED
    BY <2>1, <2>2 DEF Truthful, Step
<1>16. CASE Apply(r)
  <2>1. /\ UNCHANGED <<active, routes, job, faults, seen, after>> /\ pc[r] = "apply"
        /\ runtime' = runtime \cup {version[r]} /\ pc'[r] = "validate"
    BY <1>16 DEF Apply, Deploy, NoFault
  <2> QED
    BY <2>1 DEF Truthful, Step
<1>17. CASE ApplyFails(r)
  <2>1. /\ UNCHANGED <<active, routes, job, seen, after>> /\ pc[r] = "apply" /\ faults = 0 /\ faults' = 1
        /\ runtime' \in {runtime, runtime \ {version[r]}} /\ pc'[r] = "lost"
    BY <1>17 DEF ApplyFails, DeployFails
  <2> QED
    BY <2>1 DEF Truthful, Step
<1>18. CASE Reapply(r)
  <2>1. /\ UNCHANGED <<active, routes, job, faults, seen, after>> /\ pc[r] = "reapply"
        /\ runtime' = runtime \cup {seen[r]}
        /\ pc'[r] = IF after[r] = "reapply" THEN "reactivate" ELSE "reroute"
    BY <1>18 DEF Reapply, Deploy, NoFault
  <2> QED
    BY <2>1 DEF Truthful, Step
<1>19. CASE ReapplyFails(r)
  <2>1. pc[r] = "reapply" /\ faults = 0
    BY <1>19 DEF ReapplyFails, DeployFails
  <2> QED
    BY <2>1 DEF Truthful
<1>20. CASE Validate(r)
  <2>1. /\ UNCHANGED <<active, routes, runtime, job, seen>> /\ pc[r] = "validate"
        /\ after'[r] = "reapply"
        /\ \/ pc'[r] = "update" /\ faults' = faults
           \/ pc'[r] \in {"check", "lost"} /\ faults = 0 /\ faults' = 1
    BY <1>20 DEF Validate, NoFault
  <2> QED
    BY <2>1 DEF Truthful, Step
<1>21. CASE UpdateVersion(r)
  <2>1. /\ UNCHANGED <<active, routes, runtime, job, seen, after>> /\ pc[r] = "update"
        /\ \/ pc'[r] = "sync" /\ faults' = faults
           \/ pc'[r] = "lost" /\ faults = 0 /\ faults' = 1
    BY <1>21 DEF UpdateVersion, NoFault
  <2>2. CASE pc'[r] = "sync" /\ faults' = faults
    BY <2>1, <2>2 DEF Truthful, Step
  <2>3. CASE pc'[r] = "lost" /\ faults = 0 /\ faults' = 1
    <3>1. FormerServes(r) /\ seen[r] = Former(r) /\ job[r] = "running" /\ after[r] # "activate"
      BY <2>1, <2>3 DEF Truthful, Step
    <3> QED
      BY <2>1, <2>3, <3>1 DEF Truthful, Step
  <2> QED
    BY <2>1, <2>2, <2>3
<1>22. CASE Activate(r)
  <2>1. /\ UNCHANGED <<routes, runtime, job, seen, after>> /\ pc[r] = "activating"
        /\ \/ pc'[r] = "won" /\ faults' = faults /\ active' = {version[r]}
           \/ pc'[r] = "check" /\ faults = 0 /\ faults' = 1 /\ active' = active
           \/ pc'[r] = "check" /\ faults = 0 /\ faults' = 1 /\ active' = {version[r]}
           \/ ~Activates(r, version[r])
    BY <1>22 DEF Activate, NoFault
  <2>2. Activates(r, version[r])
    <3>1. exists \subseteq held[r] /\ active \subseteq exists /\ version[r] \in exists
      BY <1>22, <2>1 DEF Activate, Truthful, TypeOK
    <3> QED
      BY <3>1 DEF Activates
  <2> QED
    BY <2>1, <2>2 DEF Truthful, Trial, Step
<1>23. CASE RestoreCheck(r)
  <2>1. /\ UNCHANGED <<active, routes, runtime, job, seen, after, faults>> /\ pc[r] = "check"
        /\ pc'[r] = IF seen[r] # 0 /\ Active = seen[r] THEN "reapply" ELSE "lost"
    BY <1>23 DEF RestoreCheck
  <2>2. CASE Through(r)
    <3>1. pc'[r] = "lost"
      BY <2>1, <2>2, ActiveOf DEF Truthful
    <3> QED
      BY <2>1, <2>2, <3>1 DEF Truthful, Step
  <2>3. CASE ~Through(r)
    <3>1. pc'[r] = "reapply"
      BY <2>1, <2>3, ActiveOf DEF Truthful
    <3> QED
      BY <2>1, <2>3, <3>1 DEF Truthful, Step
  <2> QED
    BY <2>2, <2>3
<1>24. CASE Reactivate(r)
  <2>1. /\ UNCHANGED <<routes, runtime, job, seen, after>> /\ pc[r] = "reactivating" /\ pc'[r] = "lost"
        /\ active' \in {active, {seen[r]}} /\ (faults' = faults \/ faults = 0)
    BY <1>24 DEF Reactivate, NoFault
  <2> QED
    BY <2>1 DEF Truthful, Step
<1>25. CASE Deactivate(r)
  <2>1. /\ UNCHANGED <<active, routes, runtime, job, seen, after, faults>>
        /\ \/ pc[r] = "activate" /\ pc'[r] = "activating"
           \/ pc[r] = "reactivate" /\ pc'[r] = "reactivating"
        /\ exists \subseteq held'[r] \cup todo'[r]
    BY <1>25 DEF Deactivate, Course, TypeOK
  <2> QED
    BY <2>1 DEF Truthful, Trial, Step
<1>26. CASE LockRow(r)
  <2>1. /\ UNCHANGED <<active, routes, runtime, job, seen, after, faults, pc>>
        /\ pc[r] \in {"activating", "reactivating"}
    BY <1>26 DEF LockRow, Course
  <2>2. exists \subseteq held[r] \cup todo[r] => exists \subseteq held'[r] \cup todo'[r]
    <3>1. PICK i \in todo[r] : /\ held'[r] = held[r] \cup ({i} \cap exists)
                              /\ todo'[r] = todo[r] \ {i}
      BY <1>26 DEF LockRow, TypeOK
    <3> QED
      BY <3>1
  <2> QED
    BY <2>1, <2>2 DEF Truthful, Trial, Step
<1> QED
  BY <1>2, <1>6, <1>7, <1>8, <1>9, <1>10, <1>11, <1>12, <1>13, <1>14, <1>15, <1>16, <1>17,
     <1>18, <1>19, <1>20, <1>21, <1>22, <1>23, <1>24, <1>25, <1>26

(* A job is made for the active version, which is in service, and goes to   *)
(* an earlier one that has a row.                                           *)
LEMMA TruthfulArrival ==
  ASSUME TruthInv, NEW r \in Requests, NEW v \in Versions, Arrive(r, "rollback", v), Single(r)
  PROVE  Truthful(r)'
<1>1. TypeOK /\ OneActive /\ Pristine /\ Prepared(r)
  BY DEF TruthInv, LockInv, Typed
<1>2. /\ pc[r] = "idle" /\ Active # 0 /\ v = MaxOrNone({w \in exists : w < Active})
      /\ version'[r] = v /\ before'[r] = routes /\ pc'[r] = "accept" /\ after'[r] # "activate"
      /\ UNCHANGED <<exists, active, routes, runtime, job, faults>>
  BY <1>1 DEF Arrive, RollbackTarget, At, Goto, TypeOK, rowVars, callVars, Prepared
<1>3. /\ {w \in exists : w < Active} \in SUBSET Versions /\ 0 \notin Versions
      /\ active \subseteq Versions /\ active \subseteq exists
  BY <1>1, RouteFacts DEF TypeOK
<1>4. v \in exists /\ v < Active
  BY <1>2, <1>3, MaxType
<1>5. Active \in exists /\ Active \in Int /\ active # {}
  BY <1>2, <1>3, ActiveType DEF Route, Active
<1>6. \A q \in Requests : kind[q] = "none"
  BY <1>1, <1>2 DEF Prepared, Single
<1>7. InService(Active) /\ job[r] = "absent"
  BY <1>1, <1>5, <1>6 DEF Pristine
<1>8. Former(r)' = Active /\ v # Active
  BY <1>2, <1>4, <1>5, <1>7 DEF Former, InService
<1>9. FormerServes(r)'
  BY <1>2, <1>7, <1>8 DEF FormerServes, InService
<1> QED
  BY <1>2, <1>4, <1>5, <1>7, <1>8, <1>9 DEF Truthful, Step

LEMMA TruthStep ==
  ASSUME TruthInv, NEW r \in Requests, StepOf(r)
  PROVE  TruthInv'
<1>1. LockInv /\ LockInv' /\ Typed /\ TypeOK /\ kind'[r] # "none"
  BY LockStep, SteppedIsKnown DEF TruthInv, LockInv, Typed
<1>2. Pristine'
  <2>1. ~\A q \in Requests : kind'[q] = "none"
    BY <1>1
  <2>2. ASSUME NEW q \in Requests, kind'[q] = "none" PROVE job'[q] = "absent"
    <3>1. q \in Requests \ {r}
      BY <1>1, <2>2
    <3>2. kind'[q] = kind[q] /\ job'[q] = job[q]
      BY <1>1, <3>1, OthersSame
    <3> QED
      BY <2>2, <3>2 DEF TruthInv, Pristine
  <2> QED
    BY <2>1, <2>2 DEF Pristine
<1>3. ASSUME NEW q \in Requests PROVE Prepared(q)'
  <2>1. CASE q = r
    BY <1>1, <2>1, PreparedStep DEF TruthInv
  <2>2. CASE q # r
    <3>1. q \in Requests \ {r} /\ Prepared(q)
      BY <2>2 DEF TruthInv
    <3> QED
      BY <1>1, <3>1, OthersSame DEF Prepared
  <2> QED
    BY <2>1, <2>2
<1>4. ASSUME NEW q \in Requests, kind'[q] = "rollback", Single(q)', faults' <= 1
      PROVE  Truthful(q)'
  <2>1. q = r
    BY <1>1, <1>4 DEF Single
  <2>2. Single(r)
    BY <1>1, <1>4, <2>1, OthersSame DEF Single
  <2>3. CASE \E k \in Kinds, v \in Versions : Arrive(r, k, v)
    <3>1. PICK k \in Kinds, v \in Versions : Arrive(r, k, v)
      BY <2>3
    <3>2. kind'[r] = k
      BY <1>1, <3>1 DEF Arrive, TypeOK
    <3>3. Arrive(r, "rollback", v)
      BY <1>4, <2>1, <3>1, <3>2
    <3> QED
      BY <2>1, <2>2, <3>3, TruthfulArrival
  <2>4. CASE ~\E k \in Kinds, v \in Versions : Arrive(r, k, v)
    <3>1. kind[r] = "rollback"
      BY <1>1, <1>4, <2>1, <2>4, SteppedIsKnown
    <3>2. Truthful(r) /\ Prepared(r)
      BY <1>1, <1>4, <2>2, <3>1, FaultCount DEF TruthInv, Outcome
    <3>3. ASSUME NEW x \in Requests \ {r} PROVE held[x] = {}
      <4>1. kind[x] = "none" /\ Course(x) /\ Prepared(x)
        BY <1>1, <2>2 DEF Single, Typed, TruthInv
      <4> QED
        BY <4>1 DEF Course, Prepared
    <3> QED
      BY <1>1, <1>4, <2>1, <3>1, <3>2, <3>3, TruthfulStep
  <2> QED
    BY <2>3, <2>4
<1> QED
  BY <1>1, <1>2, <1>3, <1>4 DEF TruthInv, Outcome

LEMMA TruthInvariant == Spec => []TruthInv
<1>1. Init => TruthInv
  <2> SUFFICES ASSUME Init PROVE TruthInv
    OBVIOUS
  <2>1. LockInv /\ \A r \in Requests : Prepared(r) /\ Outcome(r)
    BY LockInit DEF Init, Prepared, Outcome
  <2>2. active # {} => InService(Active)
    <3> SUFFICES ASSUME active # {} PROVE InService(Active)
      OBVIOUS
    <3>1. active \subseteq exists /\ active \subseteq Versions /\ OneActive /\ 0 \in Route
      BY <2>1, RouteFacts DEF LockInv, Typed, TypeOK
    <3>2. Active \in active
      BY DEF Active
    <3>3. active = {Active}
      BY <3>1, <3>2 DEF OneActive
    <3>4. routes[0] = Active /\ runtime = exists
      BY <3>1 DEF Init, Expected
    <3> QED
      BY <3>1, <3>2, <3>3, <3>4 DEF InService
  <2>3. \A r \in Requests : job[r] = "absent"
    BY DEF Init
  <2> QED
    BY <2>1, <2>2, <2>3 DEF TruthInv, Pristine
<1>2. TruthInv /\ [Next]_vars => TruthInv'
  <2>1. ASSUME TruthInv, UNCHANGED vars PROVE TruthInv'
    <3> USE <2>1 DEF vars
    <3>1. LockInv'
      BY LockStutter DEF TruthInv
    <3>2. Pristine' /\ \A r \in Requests : Prepared(r)' /\ (Single(r)' <=> Single(r))
      <4>1. Active' = Active
        BY DEF Active
      <4> QED
        BY <4>1 DEF TruthInv, Pristine, InService, Prepared, Single
    <3>3. \A r \in Requests : Truthful(r)' <=> Truthful(r)
      BY DEF Truthful, Former, FormerServes, TargetServes, InService, Trial, Switching, Through
    <3> QED
      BY <3>1, <3>2, <3>3 DEF TruthInv, Outcome
  <2> QED
    BY <2>1, TruthStep, NextIsStep
<1> QED
  BY <1>1, <1>2, PTL DEF Spec

(* What the row of a rollback job says is so when one thing went wrong, or  *)
(* nothing, and nothing else ran: a job that succeeded has put the target   *)
(* in service; of one that failed the former version serves, or the target  *)
(* if the error came after activate_version had committed; one that was     *)
(* refused or left running has taken no version out of service.             *)
THEOREM RollbackJobIsTruthful == Spec => []RollbackTruthful
<1>1. TruthInv => RollbackTruthful
  <2> SUFFICES ASSUME TruthInv, faults <= 1, NEW r \in Requests, kind[r] = "rollback",
                      pc[r] \in Ended, Single(r)
               PROVE  CASE job[r] = "succeeded" -> InService(version[r])
                        [] job[r] = "failed" ->
                             InService(IF after[r] = "activate" THEN version[r] ELSE seen[r])
                        [] OTHER -> InService(before[r][0]) \/ InService(version[r])
    BY DEF RollbackTruthful, Single
  <2>1. Truthful(r) /\ Course(r)
    BY DEF TruthInv, Outcome, LockInv, Typed
  <2>2. pc[r] \in {"ok", "refused", "failed"}
    BY <2>1 DEF Course, Ended
  <2>3. /\ job[r] = "succeeded" => InService(version[r])
        /\ job[r] = "failed" =>
             InService(IF after[r] = "activate" THEN version[r] ELSE seen[r])
        /\ InService(before[r][0]) \/ InService(version[r])
    BY <2>1, <2>2 DEF Truthful, FormerServes, TargetServes, Former
  <2> QED
    BY <2>3
<1> QED
  BY <1>1, TruthInvariant, PTL
==============================================================================
