------------------------ MODULE GatewayBindingProofs ------------------------
(* Proofs about GatewayBinding for any tokens, policies and contents, any   *)
(* number of requests and every discipline of use.                          *)
EXTENDS GatewayBinding, TLAPS

(* A request of a kind that may not overlap runs alone.                     *)
Solo ==
  \A r \in Requests : pc[r] \in Step /\ kind[r] \notin regime.overlap =>
    \A q \in Requests \ {r} : pc[q] \notin Step

(* A reconciliation that runs alone works on the rows as they are, and what *)
(* it has not still to do agrees with them.                                 *)
Agrees(r) ==
  kind[r] \notin regime.overlap /\ pc[r] \in {"list", "calls"} =>
    /\ expected[r] = ExpectedDocuments
    /\ pc[r] = "calls" => \A o \in Objects \ todo[r] : gateway[o] = expected[r][o]

HealInv == TypeOK /\ Solo /\ \A r \in Requests : Agrees(r)

(* A row is written by one transaction at a time, from its flush or insert  *)
(* to its commit.                                                           *)
Locks ==
  /\ \A r \in Requests : held[r] \subseteq {object[r]}
                         /\ (held[r] # {} => pc[r] \in {"sync", "commit"})
  /\ \A q, r \in Requests : q # r => held[q] \cap held[r] = {}

(* An object is created by one request.                                     *)
OneCreator ==
  \A q, r \in Requests :
    kind[q] = "create" /\ kind[r] = "create" /\ object[q] = object[r] => q = r

Writing == {"begin", "flush", "sync", "commit"}
Reconciling == {"read", "list", "calls"}

(* What the progress of a request says about its kind.                      *)
Course(r) ==
  /\ pc[r] = "idle" <=> kind[r] = "none"
  /\ pc[r] \in Writing => kind[r] \in {"create", "change", "remove"}
  /\ pc[r] = "flush" => kind[r] # "create"
  /\ pc[r] \in Reconciling => kind[r] = "reconcile" \/ faults > 0
  /\ pc[r] \in {"idle", "begin"} => seen[r] = 0
  /\ kind[r] = "change" => object[r] \notin Tokens

(* What it says about the row: a request works on the row as it is, or it   *)
(* holds nothing and has nothing to write.                                  *)
Grounded(r) ==
  /\ kind[r] = "create" /\ pc[r] \in Writing => row[object[r]] = New
  /\ kind[r] \in {"change", "remove"} /\ pc[r] \in Writing \ {"begin"} => row[object[r]] # New
  /\ kind[r] = "change" /\ held[r] # {} => row[object[r]] # Gone
  /\ pc[r] \in {"sync", "commit"} /\ held[r] = {} =>
       \/ kind[r] = "change" /\ content[r] = seen[r]
       \/ kind[r] = "remove" /\ row[object[r]] = Gone

(* Nobody asks for what it has read; nothing has failed and nothing         *)
(* reconciles alongside other requests.                                     *)
Clean(o) == \A r \in Requests : kind[r] = "change" /\ object[r] = o => content[r] # seen[r]
Calm == faults = 0 /\ "reconcile" \notin regime.overlap

(* The gateway follows the row, or the transaction about to commit it.      *)
Pending(r, o) == pc[r] = "commit" /\ o \in held[r]
Follows(o) ==
  /\ \A r \in Requests : Pending(r, o) => gateway[o] = DocumentOf(r)
  /\ (\A r \in Requests : ~Pending(r, o)) => gateway[o] = ExpectedDocuments[o]

RowInv == Locks /\ OneCreator /\ \A r \in Requests : Course(r) /\ Grounded(r)
BindingInv == HealInv /\ RowInv /\ (Calm => \A o \in Objects : Clean(o) => Follows(o))

(* One step of request r.                                                   *)
Makes(r) == \E k \in Kinds, o \in Objects, c \in Contents : Arrive(r, k, o, c)
Fails(r) == SyncFails(r) \/ CommitFails(r) \/ ReconcileFails(r)
Does(r) == Makes(r) \/ Serve(r) \/ Fails(r)
-----------------------------------------------------------------------------
LEMMA ExpectedType == TypeOK => ExpectedDocuments \in [Objects -> Document]
BY BindingAssumption DEF TypeOK, ExpectedDocuments, Live, Contents, Document, Row

LEMMA InitTypes == Init => TypeOK
<1> SUFFICES ASSUME Init PROVE TypeOK
  OBVIOUS
<1>1. /\ 1 \in Contents /\ 0 \in Document /\ New \in Row /\ 1 \in Row
  BY BindingAssumption DEF Contents, Document, Row
<1>2. row \in [Objects -> Row] /\ gateway \in [Objects -> Document]
  <2>1. row \in [Objects -> Row]
    BY <1>1 DEF Init
  <2> QED
    BY <1>1, <2>1, BindingAssumption
       DEF Init, ExpectedDocuments, Live, Contents, Document, Row
<1>3. (CHOOSE o \in Objects : TRUE) \in Objects
  BY BindingAssumption
<1>4. object \in [Requests -> Objects]
  BY <1>3 DEF Init
<1>5. faults \in 0 .. regime.faults
  BY BindingAssumption DEF Init, Regime
<1> QED
  BY <1>1, <1>2, <1>4, <1>5 DEF Init, TypeOK

LEMMA NextTypes ==
  ASSUME TypeOK, NEW r \in Requests, Does(r)
  PROVE  TypeOK'
<1> USE BindingAssumption DEF TypeOK, Goto, At, reqVars, recVars
<1>0. regime.faults \in Nat
  BY DEF Regime
<1>1. CASE Makes(r)
  BY <1>1 DEF Makes, Arrive, Step, Kinds
<1>2. CASE Insert(r)
  BY <1>2 DEF Insert, Step
<1>3. CASE Load(r)
  BY <1>3 DEF Load, Step, Ended, Live, Document, Contents
<1>4. CASE Flush(r)
  <2>1. \/ Goto(r, "failed") /\ held' = held
        \/ Goto(r, "sync") /\ held' = [held EXCEPT ![r] = {object[r]}]
    BY <1>4 DEF Flush
  <2>2. UNCHANGED <<regime, kind, object, content, row, gateway, seen, expected, todo, faults>>
    BY <1>4 DEF Flush
  <2>3. pc' \in [Requests -> Step \cup Ended \cup {"idle"}]
    BY <2>1 DEF Step, Ended
  <2>4. held' \in [Requests -> SUBSET Objects]
    BY <2>1
  <2> QED
    BY <2>2, <2>3, <2>4
<1>5. CASE Sync(r)
  BY <1>5 DEF Sync, Step, DocumentOf, Document, Contents
<1>6. CASE SyncFails(r)
  BY <1>0, <1>6 DEF SyncFails, Ended, DocumentOf, Document, Contents, Release, Fault
<1>7. CASE Commit(r)
  BY <1>7 DEF Commit, Ended, Release, Row
<1>8. CASE CommitFails(r)
  BY <1>0, <1>8 DEF CommitFails, Step, Release, Fault
<1>9. CASE ReconcileRead(r)
  BY <1>9, ExpectedType DEF ReconcileRead, Step
<1>10. CASE ReconcileList(r)
  BY <1>10 DEF ReconcileList, Step
<1>11. CASE ReconcileCall(r)
  BY <1>11 DEF ReconcileCall, Step
<1>12. CASE ReconcileReturns(r)
  BY <1>12 DEF ReconcileReturns, Ended
<1>13. CASE ReconcileFails(r)
  BY <1>0, <1>13 DEF ReconcileFails, Ended, Fault
<1> QED
  BY <1>1, <1>2, <1>3, <1>4, <1>5, <1>6, <1>7, <1>8, <1>9, <1>10, <1>11, <1>12, <1>13
     DEF Does, Serve, Fails

(* A step of one request leaves the locals of the others alone, no step but *)
(* a commit writes a row, and errors only add up.                           *)
LEMMA OthersSame ==
  ASSUME TypeOK, NEW r \in Requests, Does(r), NEW q \in Requests, q # r
  PROVE  /\ pc'[q] = pc[q] /\ kind'[q] = kind[q] /\ object'[q] = object[q]
         /\ content'[q] = content[q] /\ held'[q] = held[q] /\ seen'[q] = seen[q]
         /\ expected'[q] = expected[q] /\ todo'[q] = todo[q]
BY DEF TypeOK, Does, Makes, Serve, Fails, Goto, Release, reqVars, recVars, Arrive, Insert, Load, Flush,
       Sync, SyncFails, Commit, CommitFails, ReconcileRead, ReconcileList, ReconcileCall,
       ReconcileReturns, ReconcileFails

LEMMA RowsWritten ==
  ASSUME TypeOK, NEW r \in Requests, Does(r)
  PROVE  /\ regime' = regime
         /\ row' # row => Commit(r)
         /\ faults' = 0 => faults = 0 /\ ~Fails(r)
<1>1. faults \in Int /\ faults >= 0
  BY BindingAssumption DEF TypeOK, Regime
<1> QED
  BY <1>1
  DEF Does, Makes, Serve, Fails, Fault, reqVars, Arrive, Insert, Load, Flush,
       Sync, SyncFails, Commit, CommitFails, ReconcileRead, ReconcileList, ReconcileCall,
       ReconcileReturns, ReconcileFails

(* A request stays what it is about, and is busy until it ends.             *)
LEMMA OwnSame ==
  ASSUME TypeOK, NEW r \in Requests, Serve(r) \/ Fails(r)
  PROVE  /\ UNCHANGED <<kind, object, content>>
         /\ pc[r] \in Step
BY DEF TypeOK, Serve, Fails, reqVars, At, Step, Insert, Load, Flush,
       Sync, SyncFails, Commit, CommitFails, ReconcileRead, ReconcileList, ReconcileCall,
       ReconcileReturns, ReconcileFails

LEMMA NextSolo ==
  ASSUME TypeOK, Solo, NEW r \in Requests, Does(r)
  PROVE  Solo'
<1>0. regime' = regime
  BY RowsWritten
<1>1. CASE Makes(r)
  <2>1. PICK k \in Kinds, o \in Objects, c \in Contents : Arrive(r, k, o, c)
    BY <1>1 DEF Makes
  <2>2. \A q \in Requests : q \in Busy <=> pc[q] \in Step
    BY DEF TypeOK, Busy, Step, Ended
  <2>3. /\ kind'[r] = k
        /\ k \notin regime.overlap => \A q \in Requests : pc[q] \notin Step
        /\ \A q \in Requests : pc[q] \in Step => kind[q] \in regime.overlap
    BY <2>1, <2>2 DEF Arrive, TypeOK
  <2> QED
    BY <1>0, <2>3, OthersSame DEF Solo
<1>2. CASE Serve(r) \/ Fails(r)
  <2>1. kind' = kind /\ pc[r] \in Step
    BY <1>2, OwnSame
  <2> QED
    BY <1>0, <2>1, OthersSame DEF Solo
<1> QED
  BY <1>1, <1>2 DEF Does

(* While a reconciliation runs alone, nobody else changes rows or gateway.  *)
LEMMA NextAgrees ==
  ASSUME HealInv, NEW r \in Requests, Does(r), NEW q \in Requests
  PROVE  Agrees(q)'
<1> USE DEF HealInv
<1>0. TypeOK /\ TypeOK' /\ Solo' /\ regime' = regime
  BY NextTypes, NextSolo, RowsWritten
<1>1. SUFFICES ASSUME kind'[q] \notin regime.overlap, pc'[q] \in {"list", "calls"}
               PROVE  /\ expected'[q] = ExpectedDocuments'
                      /\ pc'[q] = "calls" =>
                           \A o \in Objects \ todo'[q] : gateway'[o] = expected'[q][o]
  BY <1>0 DEF Agrees
<1>2. CASE q # r
  <2>1. pc[r] \notin Step /\ pc'[r] \notin Step
    <3>1. pc'[q] = pc[q] /\ kind'[q] = kind[q] /\ pc[q] \in Step
      BY <1>0, <1>1, <1>2, OthersSame DEF Step
    <3> QED
      BY <1>0, <1>1, <1>2, <3>1 DEF Solo
  <2>2. Makes(r)
    BY <1>0, <2>1, OwnSame DEF Does
  <2> QED
    BY <2>1, <2>2 DEF Makes, Arrive, TypeOK, Goto, Step
<1>3. CASE q = r
  <2>1. CASE Makes(r)
    BY <1>1, <1>3, <2>1 DEF Makes, Arrive, Goto, TypeOK
  <2>2. CASE ReconcileRead(r)
    BY <1>1, <1>3, <2>2 DEF ReconcileRead, Goto, TypeOK, ExpectedDocuments, reqVars
  <2>3. CASE ReconcileList(r)
    <3>1. /\ expected' = expected /\ row' = row /\ gateway' = gateway
          /\ pc[r] = "list" /\ kind' = kind
          /\ todo'[r] = {o \in Objects : gateway[o] # expected[r][o]}
      BY <2>3 DEF ReconcileList, At, TypeOK, reqVars
    <3>2. expected[r] = ExpectedDocuments
      BY <1>1, <1>3, <3>1 DEF Agrees
    <3> QED
      BY <1>3, <3>1, <3>2 DEF ExpectedDocuments
  <2>4. CASE ReconcileCall(r)
    <3>1. PICK o \in todo[r] : /\ gateway' = [gateway EXCEPT ![o] = expected[r][o]]
                               /\ todo' = [todo EXCEPT ![r] = @ \ {o}]
      BY <2>4 DEF ReconcileCall
    <3>2. /\ expected' = expected /\ row' = row /\ pc[r] = "calls" /\ kind' = kind
      BY <2>4 DEF ReconcileCall, At, reqVars
    <3>3. /\ expected[r] = ExpectedDocuments
          /\ \A x \in Objects \ todo[r] : gateway[x] = expected[r][x]
      BY <1>1, <1>3, <3>2 DEF Agrees
    <3>4. todo'[r] = todo[r] \ {o}
      BY <3>1 DEF TypeOK
    <3>5. ASSUME NEW x \in Objects \ todo'[r] PROVE gateway'[x] = expected[r][x]
      BY <3>1, <3>3, <3>4, <3>5 DEF TypeOK
    <3> QED
      BY <1>3, <3>2, <3>3, <3>5 DEF ExpectedDocuments
  <2>5. CASE ReconcileReturns(r) \/ Fails(r) \/ Insert(r) \/ Load(r) \/ Flush(r) \/ Sync(r) \/ Commit(r)
    BY <1>1, <1>3, <2>5
       DEF ReconcileReturns, Fails, Insert, Load, Flush, Sync, Commit, SyncFails, CommitFails,
           ReconcileFails, Goto, TypeOK
  <2> QED
    BY <2>1, <2>2, <2>3, <2>4, <2>5 DEF Does, Serve
<1> QED
  BY <1>2, <1>3

LEMMA NextHealInv == HealInv /\ [Next]_vars => HealInv'
<1> SUFFICES ASSUME HealInv, [Next]_vars PROVE HealInv'
  OBVIOUS
<1>1. ASSUME NEW r \in Requests, Does(r) PROVE HealInv'
  BY <1>1, NextTypes, NextSolo, NextAgrees DEF HealInv
<1>2. CASE UNCHANGED vars
  BY <1>2 DEF vars, HealInv, TypeOK, Solo, Agrees, ExpectedDocuments
<1> QED
  BY <1>1, <1>2 DEF Next, Does, Makes, Fails

(* A reconciliation that ran alone healed the gateway, for any rows and any *)
(* failures before it: it works on rows that nobody changes meanwhile.      *)
THEOREM ReconciliationHeals == Spec => []ReconcileHeals
<1>1. Init => HealInv
  <2> SUFFICES ASSUME Init PROVE HealInv
    OBVIOUS
  <2> QED
    BY InitTypes DEF Init, HealInv, Solo, Agrees, Step
<1>2. HealInv => ReconcileHeals
  <2> SUFFICES ASSUME HealInv, regime.overlap = {}, NEW r \in Requests,
                      pc[r] = "calls", todo[r] = {}
               PROVE  gateway = ExpectedDocuments
    BY DEF ReconcileHeals, At
  <2>1. /\ expected[r] = ExpectedDocuments
        /\ \A o \in Objects : gateway[o] = expected[r][o]
    BY DEF HealInv, Agrees
  <2>2. gateway \in [Objects -> Document] /\ ExpectedDocuments \in [Objects -> Document]
    BY ExpectedType DEF HealInv, TypeOK
  <2> QED
    BY <2>1, <2>2
<1> QED
  BY <1>1, <1>2, NextHealInv, PTL DEF Spec
-----------------------------------------------------------------------------
(* Requests and the rows they are about.                                    *)

LEMMA NextOneCreator ==
  ASSUME TypeOK, OneCreator, NEW r \in Requests, Does(r)
  PROVE  OneCreator'
<1>1. CASE Makes(r)
  <2>1. PICK k \in Kinds, o \in Objects, c \in Contents : Arrive(r, k, o, c)
    BY <1>1 DEF Makes
  <2>2. /\ kind'[r] = k /\ object'[r] = o
        /\ k = "create" => \A q \in Requests : kind[q] # "create" \/ object[q] # o
    BY <2>1 DEF Arrive, TypeOK
  <2> QED
    BY <2>2, OthersSame DEF OneCreator
<1>2. CASE Serve(r) \/ Fails(r)
  BY <1>2, OwnSame DEF OneCreator
<1> QED
  BY <1>1, <1>2 DEF Does

LEMMA NextCourse ==
  ASSUME TypeOK, NEW r \in Requests, Does(r), NEW q \in Requests, Course(q)
  PROVE  Course(q)'
<1> USE DEF TypeOK, Goto, At, reqVars, Course, Writing, Reconciling
<1>0. faults \in Nat /\ faults' \in {faults, faults + 1}
  <2>1. faults \in Nat
    BY BindingAssumption DEF Regime
  <2> QED
    BY <2>1
    DEF Does, Makes, Serve, Fails, Fault, Arrive, Insert, Load, Flush,
       Sync, SyncFails, Commit, CommitFails, ReconcileRead, ReconcileList, ReconcileCall,
       ReconcileReturns, ReconcileFails
<1>1. CASE q # r
  <2>1. /\ pc'[q] = pc[q] /\ kind'[q] = kind[q] /\ object'[q] = object[q] /\ seen'[q] = seen[q]
    BY <1>1, OthersSame
  <2> QED
    BY <1>0, <2>1
<1>2. CASE q = r /\ Makes(r)
  BY <1>2 DEF Makes, Arrive, Kinds
<1>3. CASE q = r /\ (Serve(r) \/ Fails(r))
  <2>1. UNCHANGED <<kind, object, content>>
    BY <1>3, OwnSame
  <2>2. CASE Insert(r) \/ Load(r)
    BY <1>3, <2>1, <2>2 DEF Insert, Load
  <2>3. CASE Flush(r) \/ Sync(r)
    <3>1. /\ pc[r] \in {"flush", "sync"} /\ pc'[r] \in {"failed", "sync", "commit"}
      BY <2>3 DEF Flush, Sync
    <3> QED
      BY <1>3, <2>1, <3>1
  <2>4. CASE Commit(r) \/ ReconcileReturns(r)
    BY <1>3, <2>1, <2>4 DEF Commit, ReconcileReturns
  <2>5. CASE ReconcileRead(r) \/ ReconcileList(r) \/ ReconcileCall(r)
    <3>1. /\ pc[r] \in Reconciling /\ pc'[r] \in Reconciling /\ faults' = faults
      BY <2>5 DEF ReconcileRead, ReconcileList, ReconcileCall
    <3> QED
      BY <1>3, <2>1, <3>1
  <2>6. CASE Fails(r)
    <3>1. /\ pc[r] \in Step /\ pc'[r] \in {"failed", "read"} /\ faults' = faults + 1
      BY <2>6 DEF Fails, SyncFails, CommitFails, ReconcileFails, Fault, Step
    <3> QED
      BY <1>0, <1>3, <2>1, <3>1 DEF Step
  <2> QED
    BY <1>3, <2>2, <2>3, <2>4, <2>5, <2>6 DEF Serve
<1> QED
  BY <1>1, <1>2, <1>3 DEF Does

(* A row that is being written is nobody else's: an insertion has its row   *)
(* for itself, a flush waits.                                               *)
LEMMA NextLocks ==
  ASSUME TypeOK, RowInv, NEW r \in Requests, Does(r)
  PROVE  Locks'
<1> USE DEF RowInv
<1>1. ASSUME held' = held,
             \/ Makes(r) /\ object'[r] \in Objects
             \/ pc[r] \notin {"sync", "commit"} \/ pc'[r] = "commit"
             \/ held[r] = {},
             Makes(r) \/ object'[r] = object[r]
      PROVE  Locks'
  <2>1. Makes(r) => held[r] = {}
    BY DEF Makes, Arrive, At, Locks
  <2> QED
    BY <1>1, <2>1, OthersSame DEF Locks
<1>2. ASSUME held' = [held EXCEPT ![r] = {}] PROVE Locks'
  BY <1>2, OthersSame DEF Locks, TypeOK
<1>3. ASSUME held' = [held EXCEPT ![r] = {object[r]}], Free(r, object[r]),
             object' = object, pc'[r] = "sync"
      PROVE  Locks'
  BY <1>3, OthersSame DEF Locks, TypeOK, Free
<1>4. CASE Makes(r)
  BY <1>1, <1>4 DEF Makes, Arrive, TypeOK
<1>5. CASE Insert(r)
  <2>1. /\ row[object[r]] = New /\ kind[r] = "create" /\ object' = object
        /\ held' = [held EXCEPT ![r] = {object[r]}] /\ pc'[r] = "sync"
    BY <1>5 DEF Insert, At, Goto, reqVars, TypeOK, Grounded, Writing
  <2>2. ASSUME NEW q \in Requests \ {r}, object[r] \in held[q] PROVE FALSE
    <3>1. object[q] = object[r] /\ pc[q] \in {"sync", "commit"}
      BY <2>2 DEF Locks
    <3>2. kind[q] \in {"change", "remove"}
      BY <2>1, <2>2, <3>1 DEF Course, Writing, OneCreator
    <3> QED
      BY <2>1, <2>2, <3>1, <3>2 DEF Grounded, Writing
  <2> QED
    BY <1>3, <2>1, <2>2 DEF Free
<1>6. CASE Flush(r)
  <2>1. object' = object /\ pc[r] = "flush" /\ Free(r, object[r])
    BY <1>6 DEF Flush, At, reqVars
  <2>2. \/ held' = held
        \/ pc'[r] = "sync" /\ held' = [held EXCEPT ![r] = {object[r]}]
    BY <1>6 DEF Flush, Goto, TypeOK
  <2> QED
    BY <1>1, <1>3, <2>1, <2>2
<1>7. CASE SyncFails(r) \/ Commit(r) \/ CommitFails(r)
  BY <1>2, <1>7 DEF SyncFails, Commit, CommitFails, Release
<1>8. CASE Load(r) \/ Sync(r) \/ ReconcileRead(r) \/ ReconcileList(r) \/ ReconcileCall(r)
           \/ ReconcileReturns(r) \/ ReconcileFails(r)
  <2>1. /\ held' = held /\ object' = object
        /\ pc[r] \notin {"sync", "commit"} \/ pc'[r] = "commit"
    BY <1>8 DEF Load, Sync, ReconcileRead, ReconcileList, ReconcileCall, ReconcileReturns,
                ReconcileFails, reqVars, At, Goto, TypeOK
  <2> QED
    BY <1>1, <2>1
<1> QED
  BY <1>4, <1>5, <1>6, <1>7, <1>8 DEF Does, Serve, Fails

(* A commit writes a row that is not new any more, and never one that has   *)
(* gone, save to leave it gone.                                             *)
LEMMA CommitWrites ==
  ASSUME TypeOK, RowInv, NEW r \in Requests, Commit(r), row' # row
  PROVE  /\ object[r] \in held[r] /\ pc[r] = "commit"
         /\ row' = [row EXCEPT ![object[r]] = IF kind[r] = "remove" THEN Gone ELSE content[r]]
         /\ row'[object[r]] # New
         /\ row[object[r]] = Gone => row'[object[r]] = Gone
         /\ row[object[r]] = New => kind[r] = "create"
<1>1. /\ object[r] \in held[r] /\ pc[r] = "commit"
      /\ row' = [row EXCEPT ![object[r]] = IF kind[r] = "remove" THEN Gone ELSE content[r]]
  BY DEF Commit, At
<1>2. content[r] \in Contents /\ object[r] \in Objects
  BY DEF TypeOK
<1>3. row'[object[r]] = IF kind[r] = "remove" THEN Gone ELSE content[r]
  BY <1>1, <1>2 DEF TypeOK
<1>4. kind[r] \in {"create", "change", "remove"}
  BY <1>1 DEF RowInv, Course, Writing
<1>5. row[object[r]] = Gone => kind[r] = "remove"
  BY <1>1, <1>4 DEF RowInv, Grounded, Writing, Gone, New
<1>6. row[object[r]] = New => kind[r] = "create"
  BY <1>1, <1>4 DEF RowInv, Grounded, Writing
<1> QED
  BY <1>1, <1>2, <1>3, <1>5, <1>6, BindingAssumption DEF Contents, Gone, New

(* What a request found stays so under the steps of the others.             *)
LEMMA OthersGrounded ==
  ASSUME TypeOK, RowInv, NEW r \in Requests, Does(r), NEW q \in Requests, q # r
  PROVE  Grounded(q)'
<1>1. /\ pc'[q] = pc[q] /\ kind'[q] = kind[q] /\ object'[q] = object[q]
      /\ content'[q] = content[q] /\ held'[q] = held[q] /\ seen'[q] = seen[q]
  BY OthersSame
<1>2. CASE row' = row
  BY <1>1, <1>2 DEF RowInv, Grounded
<1>3. CASE row' # row /\ object[q] = object[r]
  <2>0. Commit(r)
    BY <1>3, RowsWritten
  <2>1. /\ object[r] \in held[r] /\ pc[r] = "commit"
        /\ row'[object[r]] # New
        /\ row[object[r]] = Gone => row'[object[r]] = Gone
        /\ row[object[r]] = New => kind[r] = "create"
    BY <1>3, <2>0, CommitWrites
  <2>2. held[q] = {}
    BY <1>3, <2>1 DEF RowInv, Locks
  <2>3. ~(kind[q] = "create" /\ pc[q] \in Writing)
    BY <1>3, <2>1 DEF RowInv, Grounded, OneCreator
  <2> QED
    BY <1>1, <1>3, <2>1, <2>2, <2>3 DEF RowInv, Grounded
<1>4. CASE row' # row /\ object[q] # object[r]
  <2>1. row'[object[q]] = row[object[q]]
    BY <1>4, RowsWritten, CommitWrites DEF TypeOK
  <2> QED
    BY <1>1, <2>1 DEF RowInv, Grounded
<1> QED
  BY <1>2, <1>3, <1>4

(* What a request finds when it takes its own steps.                        *)
LEMMA OwnGrounded ==
  ASSUME TypeOK, RowInv, NEW r \in Requests, Does(r)
  PROVE  Grounded(r)'
<1> USE DEF TypeOK, Goto, At, Writing
<1>0. Course(r) /\ Grounded(r)
  BY DEF RowInv
<1>1. CASE Makes(r)
  <2>1. PICK k \in Kinds, o \in Objects, c \in Contents : Arrive(r, k, o, c)
    BY <1>1 DEF Makes
  <2>2. /\ pc[r] = "idle" /\ pc'[r] \in {"begin", "read"} /\ held' = held /\ row' = row
        /\ kind'[r] = k /\ object'[r] = o /\ (k = "create" => row[o] = New)
    BY <2>1 DEF Arrive
  <2>3. held[r] = {}
    BY <2>2 DEF RowInv, Locks
  <2> QED
    BY <2>2, <2>3 DEF Grounded
<1>2. CASE Insert(r)
  <2>1. /\ kind[r] = "create" /\ pc[r] = "begin" /\ pc'[r] = "sync"
        /\ held'[r] = {object[r]} /\ UNCHANGED <<row, kind, object, content, seen>>
    BY <1>2 DEF Insert, reqVars
  <2> QED
    BY <1>0, <2>1 DEF Grounded
<1>3. CASE Load(r)
  <2>1. /\ kind[r] \in {"change", "remove"} /\ pc[r] = "begin"
        /\ UNCHANGED <<row, kind, object, content, held>>
    BY <1>3 DEF Load, reqVars
  <2>2. held[r] = {} /\ row[object[r]] \in Row
    BY <2>1 DEF RowInv, Locks
  <2>3. CASE pc'[r] = "refused"
    BY <2>1, <2>2, <2>3 DEF Grounded
  <2>4. CASE pc'[r] = "flush"
    <3>1. Live(row[object[r]])
      BY <1>3, <2>4 DEF Load
    <3> QED
      BY <2>1, <2>2, <2>4, <3>1, BindingAssumption DEF Grounded, Live, Contents, New
  <2>5. CASE pc'[r] = "sync"
    <3>1. \/ Live(row[object[r]]) /\ kind[r] = "change" /\ content[r] = row[object[r]]
             /\ seen'[r] = row[object[r]]
          \/ object[r] \in Tokens /\ row[object[r]] = Gone
      BY <1>3, <2>5 DEF Load
    <3> QED
      BY <1>0, <2>1, <2>2, <2>5, <3>1, BindingAssumption
         DEF Grounded, Live, Contents, New, Gone, Course
  <2> QED
    BY <1>3, <2>3, <2>4, <2>5 DEF Load
<1>4. CASE Flush(r)
  <2>1. /\ pc[r] = "flush" /\ UNCHANGED <<row, kind, object, content, seen>>
    BY <1>4 DEF Flush, reqVars
  <2>2. /\ held[r] = {} /\ kind[r] \in {"change", "remove"}
    BY <1>0, <2>1 DEF RowInv, Locks, Course
  <2>3. \/ pc'[r] = "failed" /\ held'[r] = held[r]
        \/ /\ pc'[r] = "sync" /\ held'[r] = {object[r]}
           /\ ~(row[object[r]] = Gone /\ kind[r] = "change")
    BY <1>4 DEF Flush
  <2> QED
    BY <1>0, <2>1, <2>2, <2>3 DEF Grounded
<1>5. CASE Sync(r)
  <2>1. /\ pc[r] = "sync" /\ pc'[r] = "commit"
        /\ UNCHANGED <<row, kind, object, content, held, seen>>
    BY <1>5 DEF Sync, reqVars
  <2> QED
    BY <1>0, <2>1 DEF Grounded
<1>6. CASE Commit(r) \/ SyncFails(r) \/ CommitFails(r)
  <2>1. pc'[r] \in {"ok", "failed", "read"} /\ held'[r] = {}
    BY <1>6 DEF Commit, SyncFails, CommitFails, Release
  <2> QED
    BY <2>1 DEF Grounded
<1>7. CASE \/ ReconcileRead(r) \/ ReconcileList(r) \/ ReconcileCall(r)
           \/ ReconcileReturns(r) \/ ReconcileFails(r)
  <2>1. /\ pc[r] \in Reconciling /\ pc'[r] \in Reconciling \cup {"ok", "failed"} /\ held' = held
    BY <1>7 DEF ReconcileRead, ReconcileList, ReconcileCall, ReconcileReturns, ReconcileFails,
                Reconciling
  <2>2. held[r] = {}
    BY <2>1 DEF RowInv, Locks, Reconciling
  <2> QED
    BY <2>1, <2>2 DEF Grounded, Reconciling
<1> QED
  BY <1>1, <1>2, <1>3, <1>4, <1>5, <1>6, <1>7 DEF Does, Serve, Fails

LEMMA NextRowInv ==
  ASSUME TypeOK, RowInv, NEW r \in Requests, Does(r)
  PROVE  RowInv'
<1>1. ASSUME NEW q \in Requests PROVE Course(q)' /\ Grounded(q)'
  BY NextCourse, OthersGrounded, OwnGrounded DEF RowInv
<1> QED
  BY <1>1, NextLocks, NextOneCreator DEF RowInv
-----------------------------------------------------------------------------
(* An update that asked for what it read has done so for good.              *)
LEMMA CleanBefore ==
  ASSUME TypeOK, RowInv, NEW r \in Requests, Does(r), NEW o \in Objects, Clean(o)'
  PROVE  Clean(o)
<1> SUFFICES ASSUME NEW q \in Requests, kind[q] = "change", object[q] = o
             PROVE  content[q] # seen[q]
  BY DEF Clean
<1>1. CASE q # r
  BY <1>1, OthersSame DEF Clean
<1>2. CASE q = r
  <2>1. ~Makes(r)
    BY <1>2 DEF Makes, Arrive, At, RowInv, Course
  <2>2. UNCHANGED <<kind, object, content>>
    BY <2>1, OwnSame DEF Does
  <2>3. CASE seen' = seen
    BY <1>2, <2>2, <2>3 DEF Clean
  <2>4. CASE pc[r] = "begin"
    <3>1. seen[r] = 0 /\ content[r] \in Contents
      BY <2>4 DEF RowInv, Course, TypeOK
    <3> QED
      BY <1>2, <3>1, BindingAssumption DEF Contents
  <2>5. seen' = seen \/ pc[r] = "begin"
    BY <2>1 DEF Does, Serve, Fails, At, Insert, Load, Flush, Sync, SyncFails, Commit, CommitFails,
         ReconcileRead, ReconcileList, ReconcileCall, ReconcileReturns, ReconcileFails
  <2> QED
    BY <2>3, <2>4, <2>5
<1> QED
  BY <1>1, <1>2

(* A step that neither tells the gateway about an object nor commits it     *)
(* keeps the gateway in step with it.                                       *)
LEMMA FollowsOn ==
  ASSUME TypeOK, NEW r \in Requests, Does(r), NEW o \in Objects, Follows(o),
         ~Pending(r, o), ~Pending(r, o)', gateway'[o] = gateway[o], row'[o] = row[o]
  PROVE  Follows(o)'
<1>1. ASSUME NEW q \in Requests, q # r
      PROVE  /\ Pending(q, o)' <=> Pending(q, o)
             /\ DocumentOf(q)' = DocumentOf(q)
  BY <1>1, OthersSame DEF Pending, DocumentOf
<1>2. ExpectedDocuments'[o] = ExpectedDocuments[o]
  BY DEF ExpectedDocuments
<1> QED
  BY <1>1, <1>2 DEF Follows

LEMMA NextFollows ==
  ASSUME BindingInv, NEW r \in Requests, Does(r), Calm', NEW o \in Objects, Clean(o)'
  PROVE  Follows(o)'
<1>0. /\ TypeOK /\ RowInv /\ Solo /\ Calm /\ ~Fails(r)
      /\ Course(r) /\ Grounded(r) /\ Agrees(r)
      /\ object[r] \in Objects /\ content[r] \in Contents
  BY RowsWritten DEF BindingInv, HealInv, RowInv, Calm, TypeOK
<1>1. Clean(o) /\ Follows(o)
  BY <1>0, CleanBefore DEF BindingInv
<1>2. ASSUME NEW q \in Requests, o \in held[q] PROVE object[q] = o
  BY <1>0, <1>2 DEF RowInv, Locks
<1>3. CASE Sync(r) /\ object[r] = o
  <2>1. /\ pc[r] = "sync" /\ pc'[r] = "commit" /\ gateway'[o] = DocumentOf(r)
        /\ UNCHANGED <<row, kind, object, content, held>>
    BY <1>0, <1>3 DEF Sync, At, Goto, reqVars, TypeOK
  <2>2. DocumentOf(r)' = DocumentOf(r)
    BY <2>1 DEF DocumentOf
  <2>3. CASE o \in held[r]
    <3>1. ASSUME NEW q \in Requests, Pending(q, o)' PROVE q = r
      BY <1>0, <2>1, <2>3, <3>1 DEF Pending, RowInv, Locks
    <3>2. Pending(r, o)'
      BY <2>1, <2>3 DEF Pending
    <3> QED
      BY <2>1, <2>2, <3>1, <3>2 DEF Follows
  <2>4. CASE o \notin held[r]
    <3>1. held[r] = {}
      BY <1>0, <1>3, <2>4 DEF RowInv, Locks
    <3>2. kind[r] = "remove" /\ row[o] = Gone
      BY <1>0, <1>1, <1>3, <2>1, <3>1 DEF Grounded, Clean
    <3>3. gateway'[o] = 0
      BY <2>1, <3>2 DEF DocumentOf
    <3>4. ASSUME NEW q \in Requests, Pending(q, o)' PROVE DocumentOf(q)' = 0
      <4>1. o \in held[q] /\ object[q] = o /\ pc'[q] = "commit"
        BY <1>2, <2>1, <3>4 DEF Pending
      <4>2. q # r
        BY <2>4, <4>1
      <4>3. pc[q] = "commit"
        BY <1>0, <4>1, <4>2, OthersSame
      <4>4. kind[q] \in {"create", "change", "remove"}
        BY <1>0, <4>3 DEF RowInv, Course, Writing
      <4>5. kind[q] = "remove"
        BY <1>0, <3>2, <4>1, <4>3, <4>4 DEF RowInv, Grounded, Writing, Gone, New
      <4> QED
        BY <2>1, <4>5 DEF DocumentOf
    <3>5. ExpectedDocuments'[o] = 0
      BY <2>1, <3>2, BindingAssumption DEF ExpectedDocuments, Live, Contents, Gone
    <3> QED
      BY <3>3, <3>4, <3>5 DEF Follows
  <2> QED
    BY <2>3, <2>4
<1>4. CASE Commit(r) /\ o \in held[r]
  <2>1. /\ Pending(r, o) /\ object[r] = o /\ gateway' = gateway
        /\ row'[o] = IF kind[r] = "remove" THEN Gone ELSE content[r]
    BY <1>0, <1>2, <1>4 DEF Commit, At, Pending, TypeOK
  <2>2. gateway'[o] = DocumentOf(r)
    BY <1>1, <2>1 DEF Follows
  <2>3. ExpectedDocuments'[o] = DocumentOf(r)
    BY <1>0, <2>1, BindingAssumption DEF ExpectedDocuments, DocumentOf, Live, Contents, Gone
  <2>4. ASSUME NEW q \in Requests PROVE ~Pending(q, o)'
    <3>1. CASE q = r
      BY <1>0, <1>4, <3>1 DEF Commit, Release, Pending, TypeOK
    <3>2. CASE q # r
      BY <1>0, <1>4, <3>2, OthersSame DEF Pending, RowInv, Locks
    <3> QED
      BY <3>1, <3>2
  <2> QED
    BY <2>2, <2>3, <2>4 DEF Follows
<1>5. CASE ReconcileCall(r)
  <2>1. PICK x \in todo[r] : gateway' = [gateway EXCEPT ![x] = expected[r][x]]
    BY <1>5 DEF ReconcileCall
  <2>2. /\ pc[r] = "calls" /\ pc' = pc /\ UNCHANGED <<row, held>>
    BY <1>5 DEF ReconcileCall, At
  <2>3. kind[r] \notin regime.overlap
    BY <1>0, <2>2 DEF Course, Calm, Reconciling
  <2>4. /\ expected[r] = ExpectedDocuments
        /\ \A q \in Requests \ {r} : pc[q] \notin Step
    BY <1>0, <2>2, <2>3 DEF Agrees, Solo, Step
  <2>5. \A q \in Requests : ~Pending(q, o) /\ ~Pending(q, o)'
    BY <2>2, <2>4 DEF Pending, Step
  <2>6. gateway'[o] = ExpectedDocuments[o]
    BY <1>0, <1>1, <2>1, <2>4, <2>5 DEF Follows, TypeOK
  <2>7. ExpectedDocuments' = ExpectedDocuments
    BY <2>2 DEF ExpectedDocuments
  <2> QED
    BY <2>5, <2>6, <2>7 DEF Follows
<1>6. CASE \/ Makes(r) \/ Insert(r) \/ Load(r) \/ Flush(r) \/ ReconcileRead(r) \/ ReconcileList(r)
           \/ ReconcileReturns(r)
  <2>1. /\ row' = row /\ gateway' = gateway /\ pc[r] # "commit" /\ pc'[r] # "commit"
    BY <1>0, <1>6 DEF Makes, Arrive, Insert, Load, Flush, ReconcileRead, ReconcileList,
                ReconcileReturns, At, Goto, TypeOK
  <2> QED
    BY <1>0, <1>1, <2>1, FollowsOn DEF Pending
<1>7. CASE Sync(r) /\ object[r] # o
  <2>1. /\ row' = row /\ gateway'[o] = gateway[o] /\ held' = held /\ o \notin held[r]
    BY <1>0, <1>2, <1>7 DEF Sync, TypeOK
  <2> QED
    BY <1>0, <1>1, <2>1, FollowsOn DEF Pending
<1>8. CASE Commit(r) /\ o \notin held[r]
  <2>1. /\ row'[o] = row[o] /\ gateway' = gateway /\ held'[r] = {}
    BY <1>0, <1>8 DEF Commit, Release, TypeOK
  <2> QED
    BY <1>0, <1>1, <1>8, <2>1, FollowsOn DEF Pending
<1> QED
  BY <1>0, <1>3, <1>4, <1>5, <1>6, <1>7, <1>8 DEF Does, Serve

LEMMA NextBindingInv == BindingInv /\ [Next]_vars => BindingInv'
<1> SUFFICES ASSUME BindingInv, [Next]_vars PROVE BindingInv'
  OBVIOUS
<1>0. HealInv'
  BY NextHealInv DEF BindingInv
<1>1. ASSUME NEW r \in Requests, Does(r) PROVE BindingInv'
  BY <1>0, <1>1, NextRowInv, NextFollows DEF BindingInv, HealInv
<1>2. CASE UNCHANGED vars
  BY <1>0, <1>2 DEF vars, BindingInv, RowInv, Locks, OneCreator, Course, Grounded, Calm, Clean,
               Follows, Pending, DocumentOf, ExpectedDocuments
<1> QED
  BY <1>1, <1>2 DEF Next, Does, Makes, Fails

LEMMA InitBindingInv == Init => BindingInv
<1> SUFFICES ASSUME Init PROVE BindingInv
  OBVIOUS
<1>1. HealInv
  BY InitTypes DEF Init, HealInv, Solo, Agrees, Step
<1>2. RowInv
  BY DEF Init, RowInv, Locks, OneCreator, Course, Grounded, Writing, Reconciling
<1>3. \A o \in Objects : Follows(o)
  BY DEF Init, Follows, Pending
<1> QED
  BY <1>1, <1>2, <1>3 DEF BindingInv

(* When all is quiet and calm, the gateway and the rows agree wherever no   *)
(* update asked for what it had read.                                       *)
LEMMA QuietAgrees ==
  ASSUME BindingInv, Quiet, Calm, NEW o \in Objects, Clean(o)
  PROVE  gateway[o] = ExpectedDocuments[o]
<1>1. \A r \in Requests : ~Pending(r, o)
  BY DEF Quiet, Busy, Pending, Ended
<1> QED
  BY <1>1 DEF BindingInv, Follows

(* A revoked token has no consumer, for any number of overlapping requests: *)
(* whoever still tells the gateway about a token holds its row or has seen  *)
(* it revoked.                                                              *)
THEOREM RevocationReachesGateway == Spec => []RevokedIsGone
<1>1. BindingInv => RevokedIsGone
  <2> SUFFICES ASSUME BindingInv, Quiet, Calm, NEW o \in Tokens, row[o] = Gone
               PROVE  gateway[o] = 0
    BY DEF RevokedIsGone, Calm
  <2>1. o \in Objects /\ Clean(o)
    BY DEF Objects, Clean, BindingInv, RowInv, Course
  <2>2. gateway[o] = ExpectedDocuments[o]
    BY <2>1, QuietAgrees
  <2> QED
    BY <2>1, <2>2, BindingAssumption DEF ExpectedDocuments, Live, Contents, Gone
<1> QED
  BY <1>1, InitBindingInv, NextBindingInv, PTL DEF Spec

(* The gateway follows the rows, for any number of overlapping creations,   *)
(* updates and removals: BindingInv says for every object which transaction *)
(* the gateway is ahead of the rows by.                                     *)
THEOREM GatewayFollowsRows == Spec => []BindingsFollowRows
<1>1. BindingInv => BindingsFollowRows
  <2> SUFFICES ASSUME BindingInv, Quiet, Calm,
                      \A r \in Requests : kind[r] = "change" => content[r] # seen[r]
               PROVE  gateway = ExpectedDocuments
    BY DEF BindingsFollowRows, Calm
  <2>1. \A o \in Objects : gateway[o] = ExpectedDocuments[o]
    BY QuietAgrees DEF Clean
  <2>2. gateway \in [Objects -> Document] /\ ExpectedDocuments \in [Objects -> Document]
    BY ExpectedType DEF BindingInv, HealInv, TypeOK
  <2> QED
    BY <2>1, <2>2
<1> QED
  BY <1>1, InitBindingInv, NextBindingInv, PTL DEF Spec
=============================================================================
