-------------------------- MODULE DeploymentsProofs --------------------------
(* Proofs about Deployments for any finite set of jobs, any services and    *)
(* labels, and any number of attempts, polls and failures.                  *)
EXTENDS Deployments, WellFoundedInduction, FiniteSetTheorems, TLAPS

(* The control point of a job, its version number and created_manifests.    *)
Applying == {"patch", "post", "repatch"}
AllApplied == {"rollout", "probe", "register", "succeeded"}

Course(j) ==
  /\ pc[j] = "extract" <=> version[j] = 0
  /\ pc[j] \in {"extract", "failed", "rolled_back"} => applied[j] = 0
  /\ pc[j] \in Applying => applied[j] < 4
  /\ pc[j] \in AllApplied => applied[j] = 4
  /\ lost[j] <= faults

(* A row belongs to the job that picked its number, and all numbers below   *)
(* the one a job picked are taken.                                          *)
RowsFilled ==
  /\ \A s \in Services, n \in Version :
       rows[s][n] # NoJob => service[rows[s][n]] = s /\ version[rows[s][n]] = n
  /\ \A j \in Jobs : \A m \in Version : m < version[j] => rows[service[j]][m] # NoJob

(* Resources and pods have the name of the job they come from.              *)
Named(n, j) == j # NoJob => version[j] # 0 /\ Name(j) = n
Owned ==
  \A n \in Names : Named(n, pod[n]) /\ \A k \in Kind : Named(n, cluster[k][n])

(* What a job that shares its name with nobody finds under it: the          *)
(* resources it has applied, the pod it waited for, its row, and of other   *)
(* resources no more than the failures account for.                         *)
AppliedKinds(j) == {Kinds[i] : i \in 1 .. applied[j]}
Left(j) == {k \in Kind : cluster[k][Name(j)] # NoJob} \ AppliedKinds(j)

Undisturbed(j) ==
  /\ \A k \in AppliedKinds(j) : cluster[k][Name(j)] = j
  /\ pc[j] \in {"probe", "register", "succeeded"} => pod[Name(j)] = j
  /\ Cardinality(Left(j)) <= lost[j]

Registered(j) == pc[j] = "succeeded" => rows[service[j]][version[j]] = j

BaseInv == TypeOK /\ RowsFilled /\ Owned /\ \A j \in Jobs : Course(j) /\ Registered(j)
IsolationInv ==
  BaseInv /\ \A j \in Jobs : version[j] # 0 /\ Alone(j) => Undisturbed(j)
-----------------------------------------------------------------------------
LEMMA KindFacts ==
  /\ Kind = {"configmaps", "deployments", "services", "networkpolicies"}
  /\ \A i \in 1 .. 4 : Kinds[i] \in Kind
  /\ \A i, k \in 1 .. 4 : Kinds[i] = Kinds[k] => i = k
  /\ \A x \in Kind : \E i \in 1 .. 4 : x = Kinds[i]
  /\ Kinds[2] = "deployments"
<1>1. /\ Kinds[1] = "configmaps" /\ Kinds[2] = "deployments"
      /\ Kinds[3] = "services" /\ Kinds[4] = "networkpolicies"
  BY DEF Kinds
<1>2. 1 .. 4 = {1, 2, 3, 4}
  OBVIOUS
<1>3. Kind = {Kinds[1], Kinds[2], Kinds[3], Kinds[4]}
  BY <1>2 DEF Kind
<1>4. \A i \in 1 .. 4 : i = 1 \/ i = 2 \/ i = 3 \/ i = 4
  OBVIOUS
<1>5. \A i, k \in 1 .. 4 : Kinds[i] = Kinds[k] => i = k
  BY <1>1, <1>4
<1> QED
  BY <1>1, <1>2, <1>3, <1>5

LEMMA KindFinite == IsFiniteSet(Kind)
<1>1. Kind = {"configmaps", "deployments", "services"} \cup {"networkpolicies"}
  BY KindFacts
<1>2. {"configmaps", "deployments", "services"} = {"configmaps", "deployments"} \cup {"services"}
  OBVIOUS
<1>3. {"configmaps", "deployments"} = {"configmaps"} \cup {"deployments"}
  OBVIOUS
<1>4. IsFiniteSet({"configmaps"})
  BY FS_Singleton
<1>5. IsFiniteSet({"configmaps", "deployments"})
  BY <1>3, <1>4, FS_AddElement
<1>6. IsFiniteSet({"configmaps", "deployments", "services"})
  BY <1>2, <1>5, FS_AddElement
<1> QED
  BY <1>1, <1>6, FS_AddElement

LEMMA Smallest ==
  ASSUME NEW T \in SUBSET Nat, T # {}
  PROVE  \E x \in T : \A y \in T : x <= y
<1>1. IsWellFoundedOn(OpToRel(<, Nat), Nat)
  BY NatLessThanWellFounded
<1>2. PICK x \in T : \A y \in T : ~ (<<y, x>> \in OpToRel(<, Nat))
  BY <1>1, WFMin
<1>3. \A y \in T : ~ (y < x)
  BY <1>2 DEF OpToRel
<1> QED
  BY <1>3

(* There are more version numbers than jobs, so the last one is never       *)
(* taken: with RowsFilled every number would be, each by a job of its own.  *)
LEMMA LastVersionFree ==
  ASSUME TypeOK, RowsFilled, NEW s \in Services
  PROVE  rows[s][Cardinality(Jobs) + 1] = NoJob
<1> DEFINE last == Cardinality(Jobs) + 1
<1>1. /\ IsFiniteSet(Jobs) /\ Cardinality(Jobs) \in Nat
      /\ last \in Version /\ Version = 1 .. last
  BY DeploymentsAssumption, FS_CardinalityType DEF Version
<1>2. SUFFICES ASSUME rows[s][last] # NoJob PROVE FALSE
  OBVIOUS
<1>3. ASSUME NEW m \in Version PROVE rows[s][m] # NoJob
  <2>1. rows[s][last] \in Jobs /\ service[rows[s][last]] = s /\ version[rows[s][last]] = last
    BY <1>1, <1>2 DEF TypeOK, RowsFilled
  <2>2. m < last \/ m = last
    BY <1>1
  <2> QED
    BY <1>2, <2>1, <2>2 DEF RowsFilled
<1>4. rows[s] \in [Version -> Jobs]
  BY <1>3 DEF TypeOK
<1>5. IsFiniteSet(Version) /\ Cardinality(Jobs) < Cardinality(Version)
  BY <1>1, FS_Interval
<1>6. PICK m, n \in Version : m # n /\ rows[s][m] = rows[s][n]
  BY <1>1, <1>4, <1>5, FS_PigeonHole
<1> QED
  BY <1>3, <1>6 DEF RowsFilled

(* _next_version_number finds a number, and every smaller one is taken.     *)
LEMMA NextVersionExists ==
  ASSUME TypeOK, RowsFilled, NEW s \in Services
  PROVE  /\ NextVersionNumber(s) \in Version
         /\ \A m \in Version : m < NextVersionNumber(s) => rows[s][m] # NoJob
<1> DEFINE last == Cardinality(Jobs) + 1
           Unused(n) == \A m \in Version : m >= n => rows[s][m] = NoJob
           T == {n \in Version : Unused(n)}
<1>1. last \in Version /\ Version = 1 .. last /\ last \in Nat
  BY DeploymentsAssumption, FS_CardinalityType DEF Version
<1>2. last \in T
  BY <1>1, LastVersionFree
<1>3. PICK x \in T : \A y \in T : x <= y
  <2>1. T \in SUBSET Nat /\ T # {}
    BY <1>1, <1>2
  <2> HIDE DEF T
  <2> QED
    BY <2>1, Smallest
<1>4. x > 1 => rows[s][x - 1] # NoJob
  <2> SUFFICES ASSUME x > 1, rows[s][x - 1] = NoJob PROVE FALSE
    OBVIOUS
  <2>1. x - 1 \in Version
    BY <1>1
  <2>2. ASSUME NEW m \in Version, m >= x - 1 PROVE rows[s][m] = NoJob
    <3>1. m = x - 1 \/ m >= x
      BY <1>1, <2>2
    <3>2. Unused(x)
      BY <1>3
    <3> QED
      BY <3>1, <3>2
  <2> QED
    BY <1>1, <1>3, <2>1, <2>2
<1>5. \E n \in Version : /\ \A m \in Version : m >= n => rows[s][m] = NoJob
                         /\ n > 1 => rows[s][n - 1] # NoJob
  BY <1>3, <1>4
<1> DEFINE v == NextVersionNumber(s)
<1>6. v \in Version /\ (v > 1 => rows[s][v - 1] # NoJob)
  BY <1>5 DEF NextVersionNumber
<1>7. ASSUME NEW m \in Version, m < v PROVE rows[s][m] # NoJob
  <2>1. v > 1 /\ v - 1 \in Version
    BY <1>1, <1>6, <1>7
  <2>2. rows[s][v - 1] \in Jobs /\ version[rows[s][v - 1]] = v - 1 /\ service[rows[s][v - 1]] = s
    BY <1>6, <2>1 DEF TypeOK, RowsFilled
  <2>3. m = v - 1 \/ m < v - 1
    BY <1>1, <1>6, <1>7
  <2> QED
    BY <1>6, <2>1, <2>2, <2>3 DEF RowsFilled
<1> QED
  BY <1>6, <1>7
-----------------------------------------------------------------------------
(* What single writes do.                                                   *)
LEMMA NameType ==
  ASSUME TypeOK, NEW j \in Jobs, version[j] # 0
  PROVE  Name(j) \in Names
BY DEF TypeOK, Name, Names

LEMMA SetResource ==
  ASSUME TypeOK, NEW K \in Kind, NEW n \in Names, NEW v \in Jobs \cup {NoJob},
         cluster' = [cluster EXCEPT ![K][n] = v]
  PROVE  /\ cluster' \in [Kind -> [Names -> Jobs \cup {NoJob}]]
         /\ \A k \in Kind, m \in Names :
              cluster'[k][m] = IF k = K /\ m = n THEN v ELSE cluster[k][m]
BY DEF TypeOK

LEMMA SetRow ==
  ASSUME TypeOK, NEW s \in Services, NEW n \in Version, NEW v \in Jobs,
         rows' = [rows EXCEPT ![s][n] = v]
  PROVE  /\ rows' \in [Services -> [Version -> Jobs \cup {NoJob}]]
         /\ \A x \in Services, m \in Version :
              rows'[x][m] = IF x = s /\ m = n THEN v ELSE rows[x][m]
BY DEF TypeOK

(* The resource that _apply_manifest is about, and the one a cleanup is.    *)
LEMMA KindIndex ==
  ASSUME TypeOK, NEW j \in Jobs, Course(j)
  PROVE  /\ pc[j] \in Applying => applied[j] + 1 \in 1 .. 4
         /\ applied[j] > 0 => applied[j] \in 1 .. 4
         /\ pc[j] # "extract" => Name(j) \in Names
<1>1. applied[j] \in 0 .. 4
  BY DEF TypeOK
<1> QED
  BY <1>1, NameType DEF Course

(* A step of a job writes resources of its own name only.                   *)
LEMMA ClusterStep ==
  ASSUME TypeOK, NEW j \in Jobs, Course(j), Runs(j)
  PROVE  /\ cluster' \in [Kind -> [Names -> Jobs \cup {NoJob}]]
         /\ \A k \in Kind, m \in Names :
              cluster'[k][m] # cluster[k][m] =>
                /\ pc[j] # "extract" /\ m = Name(j)
                /\ cluster'[k][m] \in {j, NoJob}
<1>1. CASE cluster' = cluster
  BY <1>1 DEF TypeOK
<1>2. ASSUME pc[j] \in Applying, Write(j)
      PROVE  /\ cluster' \in [Kind -> [Names -> Jobs \cup {NoJob}]]
             /\ \A k \in Kind, m \in Names :
                  cluster'[k][m] # cluster[k][m] =>
                    /\ pc[j] # "extract" /\ m = Name(j)
                    /\ cluster'[k][m] \in {j, NoJob}
  <2>1. Kinds[applied[j] + 1] \in Kind /\ Name(j) \in Names /\ pc[j] # "extract"
    BY <1>2, KindIndex, KindFacts DEF Applying
  <2>2. cluster' = [cluster EXCEPT ![Kinds[applied[j] + 1]][Name(j)] = j]
    BY <1>2 DEF Write
  <2> DEFINE K == Kinds[applied[j] + 1]
             n == Name(j)
  <2>3. K \in Kind /\ n \in Names /\ cluster' = [cluster EXCEPT ![K][n] = j]
    BY <2>1, <2>2
  <2> HIDE DEF K, n
  <2>4. /\ cluster' \in [Kind -> [Names -> Jobs \cup {NoJob}]]
        /\ \A k \in Kind, m \in Names :
             cluster'[k][m] = IF k = K /\ m = n THEN j ELSE cluster[k][m]
    BY <2>3, SetResource
  <2> QED
    BY <2>1, <2>4 DEF n
<1>3. ASSUME pc[j] \in {"cleanup", "undo"}, applied[j] > 0,
             cluster' = [cluster EXCEPT ![Kinds[applied[j]]][Name(j)] = NoJob]
      PROVE  /\ cluster' \in [Kind -> [Names -> Jobs \cup {NoJob}]]
             /\ \A k \in Kind, m \in Names :
                  cluster'[k][m] # cluster[k][m] =>
                    /\ pc[j] # "extract" /\ m = Name(j)
                    /\ cluster'[k][m] \in {j, NoJob}
  <2>1. Kinds[applied[j]] \in Kind /\ Name(j) \in Names /\ pc[j] # "extract"
    BY <1>3, KindIndex, KindFacts
  <2> DEFINE K == Kinds[applied[j]]
             n == Name(j)
  <2>2. K \in Kind /\ n \in Names /\ cluster' = [cluster EXCEPT ![K][n] = NoJob]
    BY <1>3, <2>1
  <2> HIDE DEF K, n
  <2>3. /\ cluster' \in [Kind -> [Names -> Jobs \cup {NoJob}]]
        /\ \A k \in Kind, m \in Names :
             cluster'[k][m] = IF k = K /\ m = n THEN NoJob ELSE cluster[k][m]
    BY <2>2, SetResource
  <2> QED
    BY <2>1, <2>3 DEF n
<1>4. CASE Apply(j) \/ ApplyFails(j)
  <2>1. cluster' = cluster \/ (pc[j] \in Applying /\ Write(j))
    BY <1>4 DEF Apply, ApplyFails, Applied, Applying
  <2> QED
    BY <1>1, <1>2, <2>1
<1>5. CASE Cleanup(j) \/ CleanupFails(j)
  BY <1>1, <1>3, <1>5 DEF Cleanup, CleanupFails
<1>6. CASE \/ Extract(j) \/ WaitForRollout(j) \/ DeployRaises(j) \/ DeployRolledBack(j)
           \/ Probe(j) \/ ValidationFails(j) \/ Register(j) \/ RegisterFails(j)
  BY <1>1, <1>6 DEF Extract, WaitForRollout, DeployRaises, DeployRolledBack, Probe,
         ValidationFails, Register, RegisterFails
<1> QED
  BY <1>4, <1>5, <1>6 DEF Runs

(* Only a registration writes a row, one that is not there, with the job.   *)
LEMMA RowStep ==
  ASSUME TypeOK, NEW j \in Jobs, Course(j), Runs(j)
  PROVE  /\ rows' \in [Services -> [Version -> Jobs \cup {NoJob}]]
         /\ \A s \in Services, n \in Version :
              rows'[s][n] # rows[s][n] =>
                /\ rows[s][n] = NoJob /\ rows'[s][n] = j
                /\ s = service[j] /\ n = version[j] /\ version' = version
<1>1. CASE rows' = rows
  BY <1>1 DEF TypeOK
<1>2. CASE rows' # rows
  <2>1. /\ pc[j] = "register" /\ version' = version
        /\ rows[service[j]][version[j]] = NoJob
        /\ rows' = [rows EXCEPT ![service[j]][version[j]] = j]
    BY <1>2 DEF Runs, Extract, Apply, ApplyFails, WaitForRollout, Cleanup, CleanupFails,
         DeployRaises, DeployRolledBack, Probe, ValidationFails, Register, RegisterFails
  <2>2. service[j] \in Services /\ version[j] \in Version
    BY <2>1 DEF TypeOK, Course
  <2> QED
    BY <2>1, <2>2, SetRow
<1> QED
  BY <1>1, <1>2

LEMMA RaiseTypes ==
  ASSUME TypeOK, NEW j \in Jobs, NEW first \in Step \cup Ended, NEW then \in Step \cup Ended,
         Raise(j, first, then)
  PROVE  /\ attempt' \in [Jobs -> 1 .. MaxAttempts]
         /\ pc' \in [Jobs -> Step \cup Ended]
         /\ pc'[j] \in {first, then}
<1>1. attempt[j] < MaxAttempts => attempt[j] + 1 \in 1 .. MaxAttempts
  BY DeploymentsAssumption DEF TypeOK
<1>2. \/ attempt' = attempt
      \/ attempt[j] < MaxAttempts /\ attempt' = [attempt EXCEPT ![j] = @ + 1]
  BY DEF Raise
<1>3. attempt' \in [Jobs -> 1 .. MaxAttempts]
  BY <1>1, <1>2 DEF TypeOK
<1>4. \E x \in {first, then} : pc' = [pc EXCEPT ![j] = x]
  BY DEF Raise, Goto
<1> QED
  BY <1>3, <1>4 DEF TypeOK

(* The locals of a job take the values of their types, step by step.        *)
LEMMA LocalTypes ==
  ASSUME TypeOK, RowsFilled, NEW j \in Jobs, Course(j), Runs(j)
  PROVE  /\ pc' \in [Jobs -> Step \cup Ended]
         /\ version' \in [Jobs -> Version \cup {0}]
         /\ applied' \in [Jobs -> 0 .. 4]
         /\ attempt' \in [Jobs -> 1 .. MaxAttempts]
         /\ polls' \in [Jobs -> 0 .. MaxPolls]
<1>1. /\ pc \in [Jobs -> Step \cup Ended] /\ version \in [Jobs -> Version \cup {0}]
      /\ applied \in [Jobs -> 0 .. 4] /\ attempt \in [Jobs -> 1 .. MaxAttempts]
      /\ polls \in [Jobs -> 0 .. MaxPolls] /\ service \in [Jobs -> Services]
  BY DEF TypeOK
<1>2. /\ applied[j] < 4 => applied[j] + 1 \in 0 .. 4
      /\ applied[j] > 0 => applied[j] - 1 \in 0 .. 4
  <2>1. applied[j] \in 0 .. 4
    BY <1>1
  <2> QED
    BY <2>1
<1>3. /\ polls[j] < MaxPolls => polls[j] + 1 \in 0 .. MaxPolls
      /\ 0 \in 0 .. MaxPolls /\ 1 \in 1 .. MaxAttempts
  <2>1. polls[j] \in 0 .. MaxPolls /\ MaxPolls \in Nat /\ MaxAttempts \in Nat \ {0}
    BY <1>1, DeploymentsAssumption
  <2> QED
    BY <2>1
<1>4. version' = version \/ version' = [version EXCEPT ![j] = NextVersionNumber(service[j])]
  BY DEF Runs, Extract, Apply, ApplyFails, WaitForRollout, Cleanup, CleanupFails,
         DeployRaises, DeployRolledBack, Probe, ValidationFails, Register, RegisterFails
<1>5. version' \in [Jobs -> Version \cup {0}]
  <2>1. NextVersionNumber(service[j]) \in Version
    BY <1>1, NextVersionExists
  <2> QED
    BY <1>1, <1>4, <2>1
<1>6. \/ applied' = applied
      \/ applied[j] < 4 /\ applied' = [applied EXCEPT ![j] = @ + 1]
      \/ applied[j] > 0 /\ applied' = [applied EXCEPT ![j] = @ - 1]
  BY DEF Course, Applying, Runs, Extract, Apply, Applied, ApplyFails, WaitForRollout,
         Cleanup, CleanupFails, DeployRaises, DeployRolledBack, Probe, ValidationFails,
         Register, RegisterFails
<1>7. applied' \in [Jobs -> 0 .. 4]
  BY <1>1, <1>2, <1>6
<1>8. \/ polls' = polls \/ polls' = [polls EXCEPT ![j] = 0]
      \/ polls[j] < MaxPolls /\ polls' = [polls EXCEPT ![j] = @ + 1]
  BY DEF Complete, Runs, Extract, Apply, ApplyFails, WaitForRollout, Cleanup, CleanupFails,
         DeployRaises, DeployRolledBack, Probe, ValidationFails, Register, RegisterFails
<1>9. polls' \in [Jobs -> 0 .. MaxPolls]
  BY <1>1, <1>3, <1>8
<1>10. \/ attempt' = attempt \/ attempt' = [attempt EXCEPT ![j] = 1]
       \/ \E x, y \in Step \cup Ended : Raise(j, x, y)
  <2>1. CASE \E x, y \in Step \cup Ended : Raise(j, x, y)
    BY <2>1
  <2>2. CASE DeployRaises(j) \/ ValidationFails(j) \/ Register(j) \/ RegisterFails(j)
    BY <2>2 DEF Complete, DeployRaises, ValidationFails, Register, RegisterFails, Step, Ended
  <2>3. CASE ~(DeployRaises(j) \/ ValidationFails(j) \/ Register(j) \/ RegisterFails(j))
    BY <2>3 DEF Complete, Runs, Extract, Apply, ApplyFails, WaitForRollout, Cleanup,
         CleanupFails, DeployRolledBack, Probe
  <2> QED
    BY <2>2, <2>3
<1>11. attempt' \in [Jobs -> 1 .. MaxAttempts]
  BY <1>1, <1>3, <1>10, RaiseTypes
<1>12. pc' = pc \/ \E x \in Step \cup Ended : pc' = [pc EXCEPT ![j] = x]
  BY DEF Goto, Raise, Complete, Runs, Extract, Apply, Applied, ApplyFails, WaitForRollout,
         Cleanup, CleanupFails, DeployRaises, DeployRolledBack, Probe, ValidationFails,
         Register, RegisterFails, Step, Ended
<1>13. pc' \in [Jobs -> Step \cup Ended]
  BY <1>1, <1>12
<1> QED
  BY <1>5, <1>7, <1>9, <1>11, <1>13

(* A step of a job leaves the locals of the others, and the pods, alone.    *)
LEMMA OthersSame ==
  ASSUME TypeOK, NEW j \in Jobs, Runs(j)
  PROVE  /\ service' = service /\ pod' = pod
         /\ \A q \in Jobs \ {j} :
              /\ pc'[q] = pc[q] /\ version'[q] = version[q] /\ applied'[q] = applied[q]
              /\ lost'[q] = lost[q]
<1> USE DEF TypeOK, Goto, Raise, Complete
<1>1. CASE Extract(j) \/ ApplyFails(j) \/ DeployRaises(j) \/ DeployRolledBack(j)
  BY <1>1 DEF Extract, ApplyFails, DeployRaises, DeployRolledBack
<1>2. CASE Apply(j)
  BY <1>2 DEF Apply, Applied
<1>3. CASE WaitForRollout(j) \/ Probe(j)
  BY <1>3 DEF WaitForRollout, Probe
<1>4. CASE Cleanup(j) \/ CleanupFails(j)
  BY <1>4 DEF Cleanup, CleanupFails
<1>5. CASE ValidationFails(j) \/ Register(j) \/ RegisterFails(j)
  BY <1>5 DEF ValidationFails, Register, RegisterFails
<1> QED
  BY <1>1, <1>2, <1>3, <1>4, <1>5 DEF Runs

(* An unanswered write or a failed deletion is one of the failures.         *)
LEMMA LostStep ==
  ASSUME TypeOK, NEW j \in Jobs, Runs(j), \A q \in Jobs : lost[q] <= faults
  PROVE  /\ faults' \in 0 .. MaxFaults
         /\ lost' \in [Jobs -> 0 .. MaxFaults]
         /\ \A q \in Jobs : lost'[q] <= faults'
<1>1. /\ lost \in [Jobs -> 0 .. MaxFaults] /\ faults \in 0 .. MaxFaults /\ MaxFaults \in Nat
  BY DeploymentsAssumption DEF TypeOK
<1>2. \/ lost' = lost /\ faults' = faults
      \/ lost' = lost /\ Fault
      \/ lost' = [lost EXCEPT ![j] = @ + 1] /\ Fault
  BY DEF Runs, Extract, Apply, ApplyFails, WaitForRollout, Cleanup, CleanupFails,
         DeployRaises, DeployRolledBack, Probe, ValidationFails, Register, RegisterFails
<1>3. CASE lost' = lost /\ faults' = faults
  BY <1>1, <1>3
<1>4. CASE lost' = lost /\ Fault
  <2>1. faults' = faults + 1 /\ faults < MaxFaults
    BY <1>4 DEF Fault
  <2>2. ASSUME NEW q \in Jobs PROVE lost'[q] <= faults'
    <3>1. lost[q] \in 0 .. MaxFaults /\ lost[q] <= faults
      BY <1>1
    <3> QED
      BY <1>1, <1>4, <2>1, <3>1
  <2> QED
    BY <1>1, <1>4, <2>1, <2>2
<1>5. CASE lost' = [lost EXCEPT ![j] = @ + 1] /\ Fault
  <2>1. faults' = faults + 1 /\ faults < MaxFaults
    BY <1>5 DEF Fault
  <2>2. ASSUME NEW q \in Jobs PROVE lost'[q] <= faults' /\ lost'[q] \in 0 .. MaxFaults
    <3>1. lost[q] \in 0 .. MaxFaults /\ lost[q] <= faults
      BY <1>1
    <3>2. lost'[q] = lost[q] \/ lost'[q] = lost[q] + 1
      BY <1>1, <1>5
    <3> QED
      BY <1>1, <2>1, <3>1, <3>2
  <2>3. lost' \in [Jobs -> 0 .. MaxFaults]
    BY <1>1, <1>5, <2>2
  <2> QED
    BY <1>1, <2>1, <2>2, <2>3
<1> QED
  BY <1>2, <1>3, <1>4, <1>5

LEMMA RunTypes ==
  ASSUME TypeOK, RowsFilled, NEW j \in Jobs, \A q \in Jobs : Course(q), Runs(j)
  PROVE  TypeOK'
<1>1. \A q \in Jobs : lost[q] <= faults
  BY DEF Course
<1> QED
  BY <1>1, OthersSame, LocalTypes, ClusterStep, RowStep, LostStep DEF TypeOK
-----------------------------------------------------------------------------
(* The control of a job, of its step and of the steps of the others.        *)
LEMMA CourseStep ==
  ASSUME TypeOK, RowsFilled, NEW j \in Jobs, \A q \in Jobs : Course(q), Runs(j),
         NEW q \in Jobs
  PROVE  Course(q)'
<1>1. lost'[q] <= faults' /\ TypeOK'
  BY LostStep, RunTypes DEF Course
<1>2. CASE q # j
  <2>1. q \in Jobs \ {j}
    BY <1>2
  <2> QED
    BY <1>1, <2>1, OthersSame DEF Course
<1>3. CASE q = j
  <2>1. /\ applied[j] \in 0 .. 4 /\ pc[j] \in Step \cup Ended /\ Course(j)
        /\ pc \in [Jobs -> Step \cup Ended] /\ version \in [Jobs -> Version \cup {0}]
        /\ applied \in [Jobs -> 0 .. 4]
    BY DEF TypeOK
  <2> USE <2>1 DEF Applying, AllApplied, Goto
  <2> DEFINE Good ==
               /\ pc'[j] = "extract" <=> version'[j] = 0
               /\ pc'[j] \in {"extract", "failed", "rolled_back"} => applied'[j] = 0
               /\ pc'[j] \in Applying => applied'[j] < 4
               /\ pc'[j] \in AllApplied => applied'[j] = 4
  <2> SUFFICES Good
    BY <1>1, <1>3 DEF Course
  <2>2. CASE Extract(j)
    <3>1. NextVersionNumber(service[j]) \in Version /\ 0 \notin Version
      BY NextVersionExists, DeploymentsAssumption, FS_CardinalityType DEF TypeOK, Version
    <3>2. pc'[j] = "patch" /\ version'[j] # 0 /\ applied'[j] = 0
      BY <2>2, <3>1 DEF Extract, Complete, Course
    <3> QED
      BY <3>2
  <2>3. CASE Apply(j)
    <3>1. /\ pc[j] \in Applying /\ version'[j] = version[j] /\ version[j] # 0
          /\ applied[j] < 4
      BY <2>3 DEF Apply, Course
    <3>2. \/ pc'[j] \in {"post", "repatch", "cleanup"} /\ applied'[j] = applied[j]
          \/ pc'[j] = "rollout" /\ applied[j] = 3 /\ applied'[j] = applied[j] + 1
          \/ pc'[j] = "patch" /\ applied[j] # 3 /\ applied'[j] = applied[j] + 1
      BY <2>3 DEF Apply, Applied
    <3> QED
      BY <3>1, <3>2
  <2>4. CASE ApplyFails(j)
    BY <2>4 DEF ApplyFails, Course
  <2>5. CASE WaitForRollout(j)
    <3>1. /\ pc[j] = "rollout" /\ version'[j] = version[j] /\ applied'[j] = applied[j]
          /\ pc'[j] \in {"rollout", "probe", "cleanup"}
      BY <2>5 DEF WaitForRollout, Complete
    <3> QED
      BY <3>1 DEF Course
  <2>6. CASE Cleanup(j) \/ CleanupFails(j)
    <3>1. /\ pc[j] \in {"cleanup", "undo"} /\ version'[j] = version[j] /\ pc'[j] = pc[j]
      BY <2>6 DEF Cleanup, CleanupFails
    <3> QED
      BY <3>1 DEF Course
  <2>7. CASE DeployRaises(j)
    <3>1. /\ pc[j] = "cleanup" /\ version'[j] = version[j] /\ applied'[j] = 0
          /\ pc'[j] \in {"patch", "failed"}
      BY <2>7 DEF DeployRaises, Raise
    <3> QED
      BY <3>1 DEF Course
  <2>8. CASE DeployRolledBack(j)
    BY <2>8 DEF DeployRolledBack, Course
  <2>9. CASE Probe(j)
    <3>1. /\ pc[j] = "probe" /\ version'[j] = version[j] /\ applied'[j] = applied[j]
          /\ pc'[j] \in {"probe", "register"}
      BY <2>9 DEF Probe, Complete
    <3> QED
      BY <3>1 DEF Course
  <2>10. CASE ValidationFails(j)
    <3>1. /\ pc[j] = "probe" /\ version'[j] = version[j] /\ applied'[j] = applied[j]
          /\ pc'[j] \in {"probe", "undo"}
      BY <2>10 DEF ValidationFails, Raise
    <3> QED
      BY <3>1 DEF Course
  <2>11. CASE Register(j) \/ RegisterFails(j)
    <3>1. /\ pc[j] = "register" /\ version'[j] = version[j] /\ applied'[j] = applied[j]
          /\ pc'[j] \in {"register", "undo", "succeeded"}
      BY <2>11 DEF Register, RegisterFails, Raise, Complete
    <3> QED
      BY <3>1 DEF Course
  <2> QED
    BY <2>2, <2>3, <2>4, <2>5, <2>6, <2>7, <2>8, <2>9, <2>10, <2>11 DEF Runs
<1> QED
  BY <1>2, <1>3

(* The number of a job is set once, at extract.                             *)
LEMMA VersionStep ==
  ASSUME TypeOK, NEW j \in Jobs, Course(j), Runs(j)
  PROVE  \/ version' = version
         \/ /\ Extract(j) /\ version[j] = 0
            /\ version'[j] = NextVersionNumber(service[j])
<1>1. CASE Extract(j)
  BY <1>1 DEF Extract, Course, TypeOK
<1>2. CASE ~Extract(j)
  BY <1>2 DEF Runs, Apply, ApplyFails, WaitForRollout, Cleanup, CleanupFails,
         DeployRaises, DeployRolledBack, Probe, ValidationFails, Register, RegisterFails
<1> QED
  BY <1>1, <1>2

LEMMA VersionKept ==
  ASSUME TypeOK, NEW j \in Jobs, Course(j), Runs(j), NEW q \in Jobs, version[q] # 0
  PROVE  version'[q] = version[q] /\ Name(q)' = Name(q)
<1>1. version'[q] = version[q]
  <2>1. CASE q = j
    BY <2>1, VersionStep
  <2>2. CASE q # j
    <3>1. q \in Jobs \ {j}
      BY <2>2
    <3> QED
      BY <3>1, OthersSame
  <2> QED
    BY <2>1, <2>2
<1> QED
  BY <1>1, OthersSame DEF Name

LEMMA RowsFilledStep ==
  ASSUME TypeOK, RowsFilled, NEW j \in Jobs, Course(j), Runs(j)
  PROVE  RowsFilled'
<1>1. service' = service /\ service \in [Jobs -> Services] /\ NoJob \notin Jobs
  BY OthersSame, DeploymentsAssumption DEF TypeOK
<1>2. 0 \notin Version
  BY DeploymentsAssumption, FS_CardinalityType DEF Version
<1>3. ASSUME NEW s \in Services, NEW n \in Version, rows'[s][n] # NoJob
      PROVE  service'[rows'[s][n]] = s /\ version'[rows'[s][n]] = n
  <2>1. CASE rows'[s][n] = rows[s][n]
    <3>1. /\ rows[s][n] \in Jobs /\ service[rows[s][n]] = s /\ version[rows[s][n]] = n
      BY <1>3, <2>1 DEF TypeOK, RowsFilled
    <3>2. version'[rows[s][n]] = n
      BY <1>2, <3>1, VersionKept
    <3> QED
      BY <1>1, <2>1, <3>1, <3>2
  <2>2. CASE rows'[s][n] # rows[s][n]
    BY <1>1, <2>2, RowStep
  <2> QED
    BY <2>1, <2>2
<1>4. ASSUME NEW q \in Jobs, NEW m \in Version, m < version'[q]
      PROVE  rows'[service'[q]][m] # NoJob
  <2>1. rows[service[q]][m] # NoJob
    <3>1. CASE version'[q] = version[q]
      BY <1>4, <3>1 DEF RowsFilled
    <3>2. CASE version'[q] # version[q]
      <4>1. q = j
        <5>1. SUFFICES ASSUME q \in Jobs \ {j} PROVE FALSE
          BY <1>4
        <5> QED
          BY <3>2, <5>1, OthersSame
      <4>2. version'[q] = NextVersionNumber(service[q])
        BY <3>2, <4>1, VersionStep
      <4>3. \A x \in Version : x < NextVersionNumber(service[q]) => rows[service[q]][x] # NoJob
        BY <1>1, NextVersionExists
      <4> QED
        BY <1>4, <4>2, <4>3
    <3> QED
      BY <3>1, <3>2
  <2>2. service[q] \in Services
    BY <1>1
  <2> QED
    BY <1>1, <2>1, <2>2, RowStep
<1> QED
  BY <1>3, <1>4 DEF RowsFilled

LEMMA OwnedStep ==
  ASSUME TypeOK, Owned, NEW j \in Jobs, Course(j), Runs(j)
  PROVE  Owned'
<1>1. ASSUME NEW n \in Names, NEW x \in Jobs \cup {NoJob}, Named(n, x)
      PROVE  x # NoJob => version'[x] # 0 /\ Name(x)' = n
  BY <1>1, VersionKept DEF Named
<1>2. ASSUME NEW n \in Names PROVE Named(n, pod[n])'
  <2>1. pod'[n] = pod[n] /\ pod[n] \in Jobs \cup {NoJob} /\ Named(n, pod[n])
    BY OthersSame DEF TypeOK, Owned
  <2>2. pod[n] # NoJob => version'[pod[n]] # 0 /\ Name(pod[n])' = n
    BY <1>1, <2>1
  <2> QED
    BY <2>1, <2>2 DEF Named, Name
<1>3. ASSUME NEW n \in Names, NEW k \in Kind PROVE Named(n, cluster[k][n])'
  <2>1. CASE cluster'[k][n] = cluster[k][n]
    <3>1. PICK x \in Jobs \cup {NoJob} : x = cluster[k][n]
      BY DEF TypeOK
    <3>2. x # NoJob => version'[x] # 0 /\ Name(x)' = n
      BY <1>1, <3>1 DEF Owned
    <3> QED
      BY <2>1, <3>1, <3>2 DEF Named, Name
  <2>2. CASE cluster'[k][n] # cluster[k][n]
    <3>1. pc[j] # "extract" /\ n = Name(j) /\ cluster'[k][n] \in {j, NoJob}
      BY <2>2, ClusterStep
    <3>2. version[j] # 0
      BY <3>1 DEF Course
    <3>3. version'[j] # 0 /\ Name(j)' = n
      BY <3>1, <3>2, VersionKept
    <3> QED
      BY <3>1, <3>3 DEF Named, Name
  <2> QED
    BY <2>1, <2>2
<1> QED
  BY <1>2, <1>3 DEF Owned

(* Only the insertion of its row lets a job succeed, and no row goes away.  *)
LEMMA RegisteredStep ==
  ASSUME TypeOK, NEW j \in Jobs, Course(j), Runs(j), NEW q \in Jobs, Course(q), Registered(q)
  PROVE  Registered(q)'
<1> SUFFICES ASSUME pc'[q] = "succeeded" PROVE rows'[service'[q]][version'[q]] = q
  BY DEF Registered
<1>1. service' = service /\ NoJob \notin Jobs
  BY OthersSame, DeploymentsAssumption
<1>2. CASE q # j
  <2>1. q \in Jobs \ {j}
    BY <1>2
  <2>2. pc[q] = "succeeded" /\ version'[q] = version[q]
    BY <2>1, OthersSame
  <2>3. rows[service[q]][version[q]] = q
    BY <2>2 DEF Registered
  <2>4. service[q] \in Services /\ version[q] \in Version
    BY <2>2 DEF TypeOK, Course
  <2> QED
    BY <1>1, <2>2, <2>3, <2>4, RowStep
<1>3. CASE q = j
  <2>1. /\ pc[j] = "register" /\ version' = version
        /\ rows' = [rows EXCEPT ![service[j]][version[j]] = j]
    <3>1. Register(j)
      BY <1>3 DEF TypeOK, Goto, Raise, Complete, Runs, Extract, Apply, Applied, ApplyFails,
         WaitForRollout, Cleanup, CleanupFails, DeployRaises, DeployRolledBack, Probe,
         ValidationFails, RegisterFails
    <3> QED
      BY <1>3, <3>1 DEF TypeOK, Goto, Raise, Register
  <2>2. service[j] \in Services /\ version[j] \in Version
    BY <2>1 DEF TypeOK, Course
  <2> QED
    BY <1>1, <1>3, <2>1, <2>2, SetRow
<1> QED
  BY <1>2, <1>3

LEMMA BaseStep ==
  ASSUME BaseInv, NEW j \in Jobs, Runs(j)
  PROVE  BaseInv'
<1>1. TypeOK /\ RowsFilled /\ Owned /\ \A q \in Jobs : Course(q) /\ Registered(q)
  BY DEF BaseInv
<1>2. TypeOK' /\ RowsFilled' /\ Owned'
  BY <1>1, RunTypes, RowsFilledStep, OwnedStep
<1>3. \A q \in Jobs : Course(q)' /\ Registered(q)'
  BY <1>1, CourseStep, RegisteredStep
<1> QED
  BY <1>2, <1>3 DEF BaseInv

LEMMA BaseRollout ==
  ASSUME BaseInv, NEW n \in Names, Rollout(n)
  PROVE  BaseInv'
<1>1. TypeOK /\ RowsFilled /\ Owned /\ \A q \in Jobs : Course(q) /\ Registered(q)
  BY DEF BaseInv
<1>2. "deployments" \in Kind
  BY KindFacts
<1>3. TypeOK'
  BY <1>1, <1>2 DEF TypeOK, Rollout
<1>4. \A m \in Names : pod'[m] = IF m = n THEN cluster["deployments"][n] ELSE pod[m]
  BY <1>1 DEF TypeOK, Rollout
<1>5. Owned'
  <2>1. ASSUME NEW m \in Names
        PROVE  Named(m, pod'[m]) /\ \A k \in Kind : Named(m, cluster[k][m])
    BY <1>1, <1>2, <1>4 DEF Owned
  <2> QED
    BY <2>1 DEF Owned, Rollout, Named, Name
<1>6. RowsFilled' /\ \A q \in Jobs : Course(q)' /\ Registered(q)'
  BY <1>1 DEF RowsFilled, Course, Registered, Rollout
<1> QED
  BY <1>3, <1>5, <1>6 DEF BaseInv
-----------------------------------------------------------------------------
(* The isolation of a job that shares its name with nobody.                 *)
LEMMA AloneBefore ==
  ASSUME BaseInv, NEW j \in Jobs, Runs(j), NEW q \in Jobs, version[q] # 0, Alone(q)'
  PROVE  Alone(q)
<1>1. TypeOK /\ Course(j) /\ service' = service
  BY OthersSame DEF BaseInv
<1>2. version'[q] = version[q]
  BY <1>1, VersionKept
<1>3. ASSUME NEW k \in Jobs \ {q}, version[k] # 0
      PROVE  version[k] # version[q] \/ Label[service[k]] # Label[service[q]]
  <2>1. version'[k] = version[k]
    BY <1>1, <1>3, VersionKept
  <2> QED
    BY <1>1, <1>2, <1>3, <2>1 DEF Alone
<1> QED
  BY <1>3 DEF Alone

LEMMA OwnOnly ==
  ASSUME BaseInv, NEW j \in Jobs, version[j] # 0, Alone(j)
  PROVE  /\ Name(j) \in Names
         /\ pod[Name(j)] \in {j, NoJob}
         /\ \A k \in Kind : cluster[k][Name(j)] \in {j, NoJob}
<1>1. TypeOK /\ Owned /\ Name(j) \in Names
  BY NameType DEF BaseInv
<1>2. ASSUME NEW x \in Jobs, Named(Name(j), x) PROVE x = j
  <2>1. /\ version[x] # 0 /\ version[x] = version[j] /\ Label[service[x]] = Label[service[j]]
    BY <1>2, DeploymentsAssumption DEF Named, Name
  <2> QED
    BY <2>1 DEF Alone
<1> QED
  BY <1>1, <1>2 DEF Owned, TypeOK

LEMMA SmallSets ==
  ASSUME NEW S \in SUBSET Kind, NEW T \in SUBSET Kind
  PROVE  /\ Cardinality(S) \in Nat
         /\ S \subseteq T => Cardinality(S) <= Cardinality(T)
         /\ \A k \in Kind : S \subseteq T \cup {k} => Cardinality(S) <= Cardinality(T) + 1
         /\ S = {} => Cardinality(S) = 0
<1>1. IsFiniteSet(S) /\ IsFiniteSet(T)
  BY KindFinite, FS_Subset
<1>2. Cardinality(S) \in Nat /\ Cardinality(T) \in Nat
  BY <1>1, FS_CardinalityType
<1>3. S \subseteq T => Cardinality(S) <= Cardinality(T)
  BY <1>1, FS_Subset
<1>4. ASSUME NEW k \in Kind, S \subseteq T \cup {k} PROVE Cardinality(S) <= Cardinality(T) + 1
  <2>1. /\ IsFiniteSet(T \cup {k})
        /\ Cardinality(T \cup {k}) = Cardinality(T) \/ Cardinality(T \cup {k}) = Cardinality(T) + 1
    BY <1>1, FS_AddElement
  <2>2. Cardinality(S) <= Cardinality(T \cup {k})
    BY <1>4, <2>1, FS_Subset
  <2> QED
    BY <1>2, <2>1, <2>2
<1>5. S = {} => Cardinality(S) = 0
  BY FS_EmptySet
<1> QED
  BY <1>2, <1>3, <1>4, <1>5

(* One more manifest applied, or one fewer.                                 *)
LEMMA AppliedKindsStep ==
  ASSUME NEW a \in 0 .. 4, NEW b \in 0 .. 4, b = a + 1
  PROVE  /\ Kinds[b] \in Kind /\ Kinds[b] \notin {Kinds[i] : i \in 1 .. a}
         /\ {Kinds[i] : i \in 1 .. b} = {Kinds[i] : i \in 1 .. a} \cup {Kinds[b]}
<1>1. b \in 1 .. 4 /\ 1 .. b = (1 .. a) \cup {b} /\ b \notin 1 .. a /\ 1 .. a \subseteq 1 .. 4
  OBVIOUS
<1>2. Kinds[b] \in Kind /\ \A i \in 1 .. a : Kinds[i] # Kinds[b]
  BY <1>1, KindFacts
<1> QED
  BY <1>1, <1>2

(* What a step after extract does under the job's own name.                 *)
OwnWrite(j, k, v) ==
  \A x \in Kind : cluster'[x][Name(j)] = IF x = k THEN v ELSE cluster[x][Name(j)]

OwnEffect(j) ==
  \/ UNCHANGED <<cluster, applied, lost>>
  \/ /\ applied'[j] = applied[j] + 1 /\ lost' = lost
     /\ OwnWrite(j, Kinds[applied[j] + 1], j)
  \/ /\ applied' = applied /\ lost'[j] = lost[j] + 1 /\ applied[j] + 1 \in 1 .. 4
     /\ OwnWrite(j, Kinds[applied[j] + 1], j)
  \/ /\ applied[j] > 0 /\ applied'[j] = applied[j] - 1 /\ lost' = lost
     /\ OwnWrite(j, Kinds[applied[j]], NoJob)
  \/ /\ applied[j] > 0 /\ applied'[j] = applied[j] - 1 /\ lost'[j] = lost[j] + 1
     /\ cluster' = cluster \/ OwnWrite(j, Kinds[applied[j]], NoJob)

LEMMA OwnEffects ==
  ASSUME BaseInv, NEW j \in Jobs, Runs(j), ~Extract(j)
  PROVE  OwnEffect(j)
<1>1. TypeOK /\ Course(j)
  BY DEF BaseInv
<1>2. ASSUME pc[j] \in Applying, Write(j)
      PROVE  OwnWrite(j, Kinds[applied[j] + 1], j) /\ applied[j] + 1 \in 1 .. 4
  <2> DEFINE K == Kinds[applied[j] + 1]
             n == Name(j)
  <2>1. K \in Kind /\ n \in Names /\ applied[j] + 1 \in 1 .. 4
    BY <1>1, <1>2, KindIndex, KindFacts DEF Applying
  <2>2. cluster' = [cluster EXCEPT ![K][n] = j]
    BY <1>2 DEF Write
  <2> HIDE DEF K, n
  <2>3. \A k \in Kind, m \in Names :
          cluster'[k][m] = IF k = K /\ m = n THEN j ELSE cluster[k][m]
    BY <1>1, <2>1, <2>2, SetResource
  <2> QED
    BY <2>1, <2>3 DEF OwnWrite, K, n
<1>3. ASSUME pc[j] \in {"cleanup", "undo"}, applied[j] > 0,
             cluster' = [cluster EXCEPT ![Kinds[applied[j]]][Name(j)] = NoJob]
      PROVE  OwnWrite(j, Kinds[applied[j]], NoJob)
  <2> DEFINE K == Kinds[applied[j]]
             n == Name(j)
  <2>1. K \in Kind /\ n \in Names
    BY <1>1, <1>3, KindIndex, KindFacts
  <2>2. cluster' = [cluster EXCEPT ![K][n] = NoJob]
    BY <1>3
  <2> HIDE DEF K, n
  <2>3. \A k \in Kind, m \in Names :
          cluster'[k][m] = IF k = K /\ m = n THEN NoJob ELSE cluster[k][m]
    BY <1>1, <2>1, <2>2, SetResource
  <2> QED
    BY <2>1, <2>3 DEF OwnWrite, K, n
<1>4. applied \in [Jobs -> 0 .. 4] /\ lost \in [Jobs -> 0 .. MaxFaults]
  BY <1>1 DEF TypeOK
<1>5. CASE Apply(j)
  <2>1. \/ UNCHANGED <<cluster, applied, lost>>
        \/ pc[j] \in Applying /\ Applied(j) /\ lost' = lost
    BY <1>5 DEF Apply, Applying
  <2>2. ASSUME pc[j] \in Applying, Applied(j)
        PROVE  OwnWrite(j, Kinds[applied[j] + 1], j) /\ applied'[j] = applied[j] + 1
    BY <1>2, <1>4, <2>2 DEF Applied
  <2> QED
    BY <2>1, <2>2 DEF OwnEffect
<1>6. CASE ApplyFails(j)
  <2>1. \/ UNCHANGED <<cluster, applied, lost>>
        \/ pc[j] \in Applying /\ Write(j) /\ applied' = applied /\ lost'[j] = lost[j] + 1
    BY <1>4, <1>6 DEF ApplyFails, Applying
  <2> QED
    BY <1>2, <2>1 DEF OwnEffect
<1>7. CASE Cleanup(j)
  <2>1. /\ applied[j] > 0 /\ applied'[j] = applied[j] - 1 /\ lost' = lost
        /\ OwnWrite(j, Kinds[applied[j]], NoJob)
    BY <1>3, <1>4, <1>7 DEF Cleanup
  <2> QED
    BY <2>1 DEF OwnEffect
<1>8. CASE CleanupFails(j)
  <2>1. /\ applied[j] > 0 /\ applied'[j] = applied[j] - 1 /\ lost'[j] = lost[j] + 1
        /\ cluster' = cluster \/ OwnWrite(j, Kinds[applied[j]], NoJob)
    BY <1>3, <1>4, <1>8 DEF CleanupFails
  <2> QED
    BY <2>1 DEF OwnEffect
<1>9. CASE \/ WaitForRollout(j) \/ DeployRaises(j) \/ DeployRolledBack(j)
           \/ Probe(j) \/ ValidationFails(j) \/ Register(j) \/ RegisterFails(j)
  <2>1. UNCHANGED <<cluster, applied, lost>>
    BY <1>9 DEF WaitForRollout, DeployRaises, DeployRolledBack, Probe, ValidationFails,
         Register, RegisterFails
  <2> QED
    BY <2>1 DEF OwnEffect
<1> QED
  BY <1>5, <1>6, <1>7, <1>8, <1>9 DEF Runs

(* The job has seen its pod available before it goes on to the probe.       *)
LEMMA PodSeen ==
  ASSUME TypeOK, NEW j \in Jobs, Runs(j), pc'[j] \in {"probe", "register", "succeeded"}
  PROVE  pc[j] \in {"probe", "register"} \/ (pc[j] = "rollout" /\ pod[Name(j)] # NoJob)
BY DEF TypeOK, Goto, Raise, Complete, Runs, Extract, Apply, Applied, ApplyFails,
       WaitForRollout, Cleanup, CleanupFails, DeployRaises, DeployRolledBack, Probe,
       ValidationFails, Register, RegisterFails

LEMMA OwnStep ==
  ASSUME BaseInv, NEW j \in Jobs, Runs(j), ~Extract(j), version[j] # 0, Alone(j),
         Undisturbed(j), BaseInv'
  PROVE  Undisturbed(j)'
<1>1. TypeOK /\ Course(j) /\ TypeOK'
  BY DEF BaseInv
<1>2. /\ Name(j)' = Name(j) /\ pod' = pod
      /\ pod[Name(j)] \in {j, NoJob} /\ Name(j) \in Names
      /\ \A k \in Kind : cluster[k][Name(j)] \in {j, NoJob}
  BY <1>1, VersionKept, OthersSame, OwnOnly
<1>3. pc'[j] \in {"probe", "register", "succeeded"} => pod'[Name(j)'] = j
  BY <1>1, <1>2, PodSeen DEF Undisturbed
<1>4. OwnEffect(j)
  BY OwnEffects
<1>5. /\ applied[j] \in 0 .. 4 /\ applied'[j] \in 0 .. 4 /\ lost[j] \in Int
      /\ j # NoJob /\ Left(j) \in SUBSET Kind /\ Left(j)' \in SUBSET Kind
      /\ AppliedKinds(j) \subseteq Kind
  <2>1. applied[j] \in 0 .. 4 /\ applied'[j] \in 0 .. 4 /\ lost[j] \in Int
    BY <1>1 DEF TypeOK
  <2> QED
    BY <2>1, DeploymentsAssumption, KindFacts DEF Left, AppliedKinds
<1>6. Left(j)' = {k \in Kind : cluster'[k][Name(j)] # NoJob} \ AppliedKinds(j)'
  BY <1>2 DEF Left
<1>7. /\ Cardinality(Left(j)) \in Nat /\ Cardinality(Left(j)') \in Nat
      /\ Cardinality(Left(j)) <= lost[j]
      /\ Left(j)' \subseteq Left(j) => Cardinality(Left(j)') <= Cardinality(Left(j))
      /\ \A k \in Kind : Left(j)' \subseteq Left(j) \cup {k} =>
                           Cardinality(Left(j)') <= Cardinality(Left(j)) + 1
  BY <1>5, SmallSets DEF Undisturbed
<1>8. \A k \in AppliedKinds(j) : cluster[k][Name(j)] = j
  BY DEF Undisturbed
<1> DEFINE Goal == /\ \A k \in AppliedKinds(j)' : cluster'[k][Name(j)] = j
                   /\ Cardinality(Left(j)') <= lost'[j]
<1>9. CASE UNCHANGED <<cluster, applied, lost>>
  <2>1. AppliedKinds(j)' = AppliedKinds(j) /\ Left(j)' = Left(j)
    BY <1>2, <1>9 DEF AppliedKinds, Left
  <2>2. Goal
    BY <1>7, <1>8, <1>9, <2>1
  <2> QED
    BY <1>2, <1>3, <2>2 DEF Undisturbed
<1>10. CASE /\ applied'[j] = applied[j] + 1 /\ lost' = lost
            /\ OwnWrite(j, Kinds[applied[j] + 1], j)
  <2> DEFINE K == Kinds[applied[j] + 1]
  <2>1. K \in Kind /\ AppliedKinds(j)' = AppliedKinds(j) \cup {K}
    BY <1>5, <1>10, AppliedKindsStep DEF AppliedKinds
  <2>2. \A k \in Kind : cluster'[k][Name(j)] = IF k = K THEN j ELSE cluster[k][Name(j)]
    BY <1>10 DEF OwnWrite
  <2> HIDE DEF K
  <2>3. \A k \in AppliedKinds(j)' : cluster'[k][Name(j)] = j
    BY <1>5, <1>8, <2>1, <2>2
  <2>4. Left(j)' \subseteq Left(j)
    BY <1>6, <2>1, <2>2 DEF Left
  <2>5. Goal
    BY <1>5, <1>7, <1>10, <2>3, <2>4
  <2> QED
    BY <1>2, <1>3, <2>5 DEF Undisturbed
<1>11. CASE /\ applied' = applied /\ lost'[j] = lost[j] + 1 /\ applied[j] + 1 \in 1 .. 4
            /\ OwnWrite(j, Kinds[applied[j] + 1], j)
  <2> DEFINE K == Kinds[applied[j] + 1]
  <2>1. K \in Kind /\ AppliedKinds(j)' = AppliedKinds(j)
    BY <1>11, KindFacts DEF AppliedKinds
  <2>2. \A k \in Kind : cluster'[k][Name(j)] = IF k = K THEN j ELSE cluster[k][Name(j)]
    BY <1>11 DEF OwnWrite
  <2> HIDE DEF K
  <2>3. \A k \in AppliedKinds(j)' : cluster'[k][Name(j)] = j
    BY <1>5, <1>8, <2>1, <2>2
  <2>4. Left(j)' \subseteq Left(j) \cup {K}
    BY <1>6, <2>1, <2>2 DEF Left
  <2>5. Cardinality(Left(j)') <= lost'[j]
    <3>1. Cardinality(Left(j)') <= Cardinality(Left(j)) + 1
      BY <1>7, <2>1, <2>4
    <3> QED
      BY <1>5, <1>7, <1>11, <3>1
  <2> QED
    BY <1>2, <1>3, <2>3, <2>5 DEF Undisturbed
<1>12. CASE applied[j] > 0 /\ applied'[j] = applied[j] - 1
  <2> DEFINE K == Kinds[applied[j]]
  <2>1. /\ K \in Kind /\ K \notin AppliedKinds(j)'
        /\ AppliedKinds(j) = AppliedKinds(j)' \cup {K}
    <3>1. applied[j] = applied'[j] + 1
      BY <1>5, <1>12
    <3> QED
      BY <1>5, <3>1, AppliedKindsStep DEF AppliedKinds
  <2>2. \/ cluster' = cluster /\ lost'[j] = lost[j] + 1
        \/ OwnWrite(j, K, NoJob) /\ (lost' = lost \/ lost'[j] = lost[j] + 1)
    <3>1. applied'[j] # applied[j] /\ applied'[j] # applied[j] + 1
      BY <1>5, <1>12
    <3> QED
      BY <1>4, <3>1 DEF OwnEffect
  <2>3. \/ cluster' = cluster
        \/ \A k \in Kind : cluster'[k][Name(j)] = IF k = K THEN NoJob ELSE cluster[k][Name(j)]
    BY <2>2 DEF OwnWrite
  <2> HIDE DEF K
  <2>4. \A k \in AppliedKinds(j)' : cluster'[k][Name(j)] = j
    BY <1>5, <1>8, <2>1, <2>3
  <2>5. CASE cluster' = cluster /\ lost'[j] = lost[j] + 1
    <3>1. Left(j)' \subseteq Left(j) \cup {K}
      BY <1>6, <2>1, <2>5 DEF Left
    <3>2. Cardinality(Left(j)') <= Cardinality(Left(j)) + 1
      BY <1>7, <2>1, <3>1
    <3>3. Cardinality(Left(j)') <= lost'[j]
      BY <1>5, <1>7, <2>5, <3>2
    <3> QED
      BY <1>2, <1>3, <2>4, <3>3 DEF Undisturbed
  <2>6. CASE OwnWrite(j, K, NoJob) /\ (lost' = lost \/ lost'[j] = lost[j] + 1)
    <3>1. \A k \in Kind : cluster'[k][Name(j)] = IF k = K THEN NoJob ELSE cluster[k][Name(j)]
      BY <2>6 DEF OwnWrite
    <3>2. Left(j)' \subseteq Left(j)
      BY <1>6, <2>1, <3>1 DEF Left
    <3>3. Cardinality(Left(j)') <= Cardinality(Left(j))
      BY <1>7, <3>2
    <3>4. Cardinality(Left(j)') <= lost'[j]
      BY <1>5, <1>7, <2>6, <3>3
    <3> QED
      BY <1>2, <1>3, <2>4, <3>4 DEF Undisturbed
  <2> QED
    BY <2>2, <2>5, <2>6
<1> QED
  BY <1>4, <1>9, <1>10, <1>11, <1>12 DEF OwnEffect

(* A job that picks a number nobody else has finds nothing under its name.  *)
LEMMA FreshName ==
  ASSUME BaseInv, NEW j \in Jobs, Extract(j), Alone(j)', BaseInv'
  PROVE  Undisturbed(j)'
<1>1. /\ TypeOK /\ TypeOK' /\ Owned' /\ Course(j) /\ Course(j)'
  BY DEF BaseInv
<1>2. /\ pc[j] = "extract" /\ pc'[j] = "patch" /\ cluster' = cluster
      /\ version[j] = 0 /\ applied'[j] = 0 /\ lost' = lost
  BY <1>1 DEF Extract, Complete, Goto, TypeOK, Course
<1>3. version'[j] # 0 /\ Name(j)' \in Names
  BY <1>1, <1>2 DEF Course, TypeOK, Name, Names
<1>4. ASSUME NEW k \in Kind PROVE cluster'[k][Name(j)'] = NoJob
  <2>1. SUFFICES ASSUME cluster'[k][Name(j)'] # NoJob PROVE FALSE
    OBVIOUS
  <2>2. PICK x \in Jobs : x = cluster[k][Name(j)']
    BY <1>1, <1>2, <1>3, <2>1 DEF TypeOK
  <2>3. version'[x] # 0 /\ Name(x)' = Name(j)'
    BY <1>1, <1>2, <1>3, <2>1, <2>2 DEF Owned, Named, Name
  <2>4. x = j
    BY <2>3 DEF Alone, Name
  <2>5. Named(Name(j)', cluster[k][Name(j)'])
    BY <1>3 DEF BaseInv, Owned
  <2> QED
    BY <1>2, <2>1, <2>2, <2>4, <2>5 DEF Named
<1>5. AppliedKinds(j)' = {} /\ Left(j)' = {}
  BY <1>2, <1>4 DEF AppliedKinds, Left
<1>6. Cardinality(Left(j)') <= lost'[j]
  <2>1. lost'[j] \in 0 .. MaxFaults /\ Cardinality(Left(j)') = 0
    BY <1>1, <1>5, FS_EmptySet DEF TypeOK
  <2> QED
    BY <2>1, DeploymentsAssumption
<1> QED
  BY <1>2, <1>5, <1>6 DEF Undisturbed

(* The steps of a job never touch what has the name of another one.         *)
LEMMA OtherStep ==
  ASSUME BaseInv, NEW j \in Jobs, Runs(j), NEW q \in Jobs \ {j}, version[q] # 0, Alone(q),
         Undisturbed(q)
  PROVE  Undisturbed(q)'
<1>1. TypeOK /\ Course(j)
  BY DEF BaseInv
<1>2. /\ Name(q)' = Name(q) /\ pod' = pod /\ pc'[q] = pc[q] /\ Name(q) \in Names
      /\ applied'[q] = applied[q] /\ lost'[q] = lost[q]
  BY <1>1, VersionKept, OthersSame, OwnOnly
<1>3. pc[j] # "extract" => Name(j) # Name(q)
  <2>1. SUFFICES ASSUME version[j] # 0, Name(j) = Name(q) PROVE FALSE
    BY <1>1 DEF Course
  <2> QED
    BY <2>1 DEF Alone, Name
<1>4. \A k \in Kind : cluster'[k][Name(q)] = cluster[k][Name(q)]
  BY <1>1, <1>2, <1>3, ClusterStep
<1>5. AppliedKinds(q)' = AppliedKinds(q) /\ AppliedKinds(q) \subseteq Kind
  <2>1. applied[q] \in 0 .. 4
    BY <1>1 DEF TypeOK
  <2> QED
    BY <1>2, <2>1, KindFacts DEF AppliedKinds
<1>6. Left(q)' = Left(q)
  BY <1>2, <1>4, <1>5 DEF Left
<1> QED
  BY <1>2, <1>4, <1>5, <1>6 DEF Undisturbed

LEMMA IsolationStep ==
  ASSUME IsolationInv, NEW j \in Jobs, Runs(j)
  PROVE  IsolationInv'
<1>1. BaseInv /\ BaseInv'
  BY BaseStep DEF IsolationInv
<1>2. ASSUME NEW q \in Jobs, version'[q] # 0, Alone(q)' PROVE Undisturbed(q)'
  <2>1. CASE q = j /\ Extract(j)
    BY <1>1, <1>2, <2>1, FreshName
  <2>2. CASE ~(q = j /\ Extract(j))
    <3>1. version[q] # 0
      <4>1. CASE q = j
        <5>1. version' = version
          BY <1>1, <2>2, <4>1, VersionStep DEF BaseInv
        <5> QED
          BY <1>2, <5>1
      <4>2. CASE q # j
        <5>1. q \in Jobs \ {j}
          BY <4>2
        <5> QED
          BY <1>1, <1>2, <5>1, OthersSame DEF BaseInv
      <4> QED
        BY <4>1, <4>2
    <3>2. Alone(q)
      BY <1>1, <1>2, <3>1, AloneBefore
    <3>3. Undisturbed(q)
      BY <3>1, <3>2 DEF IsolationInv
    <3>4. CASE q = j
      BY <1>1, <2>2, <3>1, <3>2, <3>3, <3>4, OwnStep
    <3>5. CASE q # j
      <4>1. q \in Jobs \ {j}
        BY <3>5
      <4> QED
        BY <1>1, <3>1, <3>2, <3>3, <4>1, OtherStep
    <3> QED
      BY <3>4, <3>5
  <2> QED
    BY <2>1, <2>2
<1> QED
  BY <1>1, <1>2 DEF IsolationInv

(* The controller copies the deployment, which is the job's own.            *)
LEMMA IsolationRollout ==
  ASSUME IsolationInv, NEW n \in Names, Rollout(n)
  PROVE  IsolationInv'
<1>1. BaseInv /\ BaseInv' /\ TypeOK
  BY BaseRollout DEF IsolationInv, BaseInv
<1>2. \A m \in Names : pod'[m] = IF m = n THEN cluster["deployments"][n] ELSE pod[m]
  BY <1>1 DEF TypeOK, Rollout
<1>3. ASSUME NEW q \in Jobs, version'[q] # 0, Alone(q)' PROVE Undisturbed(q)'
  <2>1. /\ version[q] # 0 /\ Alone(q) /\ Name(q)' = Name(q)
        /\ AppliedKinds(q)' = AppliedKinds(q) /\ Left(q)' = Left(q)
        /\ pc' = pc /\ cluster' = cluster /\ lost' = lost
    BY <1>3 DEF Rollout, Alone, Name, AppliedKinds, Left
  <2>2. Undisturbed(q) /\ Name(q) \in Names /\ Course(q)
    BY <1>1, <2>1, OwnOnly DEF IsolationInv, BaseInv
  <2>3. ASSUME pc[q] \in {"probe", "register", "succeeded"} PROVE pod'[Name(q)] = q
    <3>1. applied[q] = 4
      BY <2>2, <2>3 DEF Course, AllApplied
    <3>2. "deployments" \in AppliedKinds(q)
      BY <3>1, KindFacts DEF AppliedKinds
    <3>3. cluster["deployments"][Name(q)] = q /\ pod[Name(q)] = q
      BY <2>2, <2>3, <3>2 DEF Undisturbed
    <3> QED
      BY <1>2, <2>2, <3>3
  <2> QED
    BY <2>1, <2>2, <2>3 DEF Undisturbed
<1> QED
  BY <1>1, <1>3 DEF IsolationInv

LEMMA IsolationInit ==
  ASSUME Init
  PROVE  IsolationInv
<1>1. /\ 0 \in 0 .. 4 /\ 1 \in 1 .. MaxAttempts /\ 0 \in 0 .. MaxPolls /\ 0 \in 0 .. MaxFaults
  BY DeploymentsAssumption
<1>2. TypeOK
  BY <1>1 DEF Init, TypeOK, Step
<1>3. RowsFilled
  <2>1. \A m \in Version : ~(m < 0)
    BY DeploymentsAssumption, FS_CardinalityType DEF Version
  <2> QED
    BY <2>1 DEF Init, RowsFilled
<1>4. Owned
  BY DEF Init, Owned, Named
<1>5. \A j \in Jobs : Course(j) /\ Registered(j)
  BY DEF Init, Course, Registered, Applying, AllApplied
<1>6. \A j \in Jobs : version[j] = 0
  BY DEF Init
<1> QED
  BY <1>2, <1>3, <1>4, <1>5, <1>6 DEF IsolationInv, BaseInv

LEMMA IsolationInvariant == Spec => []IsolationInv
<1>1. Init => IsolationInv
  BY IsolationInit
<1>2. IsolationInv /\ [Next]_vars => IsolationInv'
  <2> SUFFICES ASSUME IsolationInv, [Next]_vars PROVE IsolationInv'
    OBVIOUS
  <2>1. CASE Next
    BY <2>1, IsolationStep, IsolationRollout DEF Next
  <2>2. CASE UNCHANGED vars
    <3> USE <2>2 DEF vars
    <3>1. TypeOK' /\ RowsFilled' /\ Owned'
      BY DEF IsolationInv, BaseInv, TypeOK, RowsFilled, Owned, Named, Name
    <3>2. \A q \in Jobs : Course(q)' /\ Registered(q)'
      BY DEF IsolationInv, BaseInv, Course, Registered
    <3>3. \A q \in Jobs : (Alone(q)' <=> Alone(q)) /\ (Undisturbed(q)' <=> Undisturbed(q))
      <4>1. \A q \in Jobs : Left(q)' = Left(q) /\ AppliedKinds(q)' = AppliedKinds(q)
        BY DEF Left, AppliedKinds, Name
      <4> QED
        BY <4>1 DEF Alone, Undisturbed, Name
    <3> QED
      BY <3>1, <3>2, <3>3 DEF IsolationInv, BaseInv
  <2> QED
    BY <2>1, <2>2
<1> QED
  BY <1>1, <1>2, PTL DEF Spec
-----------------------------------------------------------------------------
(* Whatever number of jobs deploy, fail, clean up and roll back beside each *)
(* other: one that succeeded, and whose number no other job has picked,     *)
(* owns its version row (register_stage), the four resources that deploy    *)
(* applied and the pod behind them.                                         *)
THEOREM JobsAreIsolated == Spec => []VersionsIsolated
<1>1. IsolationInv => VersionsIsolated
  <2> SUFFICES ASSUME IsolationInv, NEW j \in Jobs, pc[j] = "succeeded", Alone(j)
               PROVE  /\ rows[service[j]][version[j]] = j
                      /\ \A k \in Kind : cluster[k][<<Label[service[j]], version[j]>>] = j
                      /\ pod[<<Label[service[j]], version[j]>>] = j
    BY DEF VersionsIsolated
  <2>1. Course(j) /\ Registered(j)
    BY DEF IsolationInv, BaseInv
  <2>2. version[j] # 0 /\ applied[j] = 4
    BY <2>1 DEF Course, AllApplied
  <2>3. Undisturbed(j)
    BY <2>2 DEF IsolationInv
  <2>4. AppliedKinds(j) = Kind
    BY <2>2 DEF AppliedKinds, Kind
  <2> QED
    BY <2>1, <2>3, <2>4 DEF Registered, Undisturbed, Name
<1> QED
  BY <1>1, IsolationInvariant, PTL

(* deploy's cleanup and the deploy rollback delete everything they can: a   *)
(* failed job leaves at most one resource per unanswered write or failed    *)
(* deletion, in whatever order the failures, attempts and other jobs come.  *)
THEOREM CleanupIsComplete == Spec => []LeftoversExplained
<1>1. IsolationInv => LeftoversExplained
  <2> SUFFICES ASSUME IsolationInv, NEW j \in Jobs, pc[j] \in {"failed", "rolled_back"}, Alone(j)
               PROVE  Cardinality({k \in Kind : cluster[k][Name(j)] # NoJob}) <= lost[j]
    BY DEF LeftoversExplained
  <2>1. version[j] # 0 /\ applied[j] = 0
    BY DEF IsolationInv, BaseInv, Course
  <2>2. Undisturbed(j)
    BY <2>1 DEF IsolationInv
  <2>3. Left(j) = {k \in Kind : cluster[k][Name(j)] # NoJob}
    BY <2>1 DEF Left, AppliedKinds
  <2> QED
    BY <2>2, <2>3 DEF Undisturbed
<1> QED
  BY <1>1, IsolationInvariant, PTL
==============================================================================
