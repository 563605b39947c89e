--------------------------- MODULE GatewayBinding ---------------------------
(***************************************************************************)
(* Personal access tokens and policies of the access-control service and   *)
(* their counterparts at the gateway: a consumer per token, a binding per  *)
(* policy.  The handlers of apps/access_control/authn/routes.py and        *)
(* authz/routes.py change a row, tell the gateway while the transaction is *)
(* open, and commit; when the commit fails they reconcile the gateway with *)
(* the rows (apps/access_control/gateway_binding/service.py).              *)
(*                                                                         *)
(* The text of a row and of its gateway document is reduced to a content,  *)
(* 0 at the gateway for "not there".                                       *)
(***************************************************************************)
EXTENDS Integers, FiniteSets

CONSTANTS
  Tokens,      \* ids of personal access tokens: created once, revoked once
  Policies,    \* ids of policies: created once, updated, deleted
  NumContents, \* contents a policy can have; a token has content 1
  Requests,    \* requests, each served once
  Regimes      \* the disciplines of use under study

Objects == Tokens \cup Policies
Contents == 1 .. NumContents
Kinds == {"create", "change", "remove", "reconcile"}
Regime == [kinds : SUBSET Kinds, overlap : SUBSET Kinds, faults : Nat]

ASSUME BindingAssumption ==
  /\ Tokens \cap Policies = {}
  /\ Objects # {}
  /\ NumContents \in Nat \ {0}
  /\ Regimes \subseteq Regime

VARIABLES
  regime,   \* kinds of requests, which of them overlap, bound on errors
  row,      \* row[o]: committed content; New before, Gone after
  gateway,  \* gateway[o]: content of the gateway's document, 0 for none
  kind,     \* kind[r]: what request r asks for, "none" before it is made
  object,   \* object[r]: the token or policy it is about
  content,  \* content[r]: the content it asks for
  pc,       \* pc[r]: its next step
  held,     \* held[r]: rows its transaction has written
  seen,     \* seen[r]: the content its session has read
  expected, \* expected[r]: what a reconciliation expects of the gateway
  todo,     \* todo[r]: objects it has still to upsert or delete
  faults    \* errors so far

reqVars == <<regime, kind, object, content>>
recVars == <<expected, todo>>
vars == <<regime, row, gateway, kind, object, content, pc, held, seen,
          expected, todo, faults>>

New == 0
Gone == -1

Ended == {"ok", "refused", "failed"}
Step == {"begin", "flush", "sync", "commit", "read", "list", "calls"}
Document == 0 .. NumContents
Row == {Gone} \cup {New} \cup Contents

TypeOK ==
  /\ regime \in Regimes
  /\ row \in [Objects -> Row]
  /\ gateway \in [Objects -> Document]
  /\ kind \in [Requests -> Kinds \cup {"none"}]
  /\ object \in [Requests -> Objects]
  /\ content \in [Requests -> Contents]
  /\ pc \in [Requests -> Step \cup Ended \cup {"idle"}]
  /\ held \in [Requests -> SUBSET Objects]
  /\ seen \in [Requests -> Document]
  /\ expected \in [Requests -> [Objects -> Document]]
  /\ todo \in [Requests -> SUBSET Objects]
  /\ faults \in 0 .. regime.faults

Live(x) == x \in Contents

(* The gateway documents that the committed rows ask for: unrevoked tokens  *)
(* of active users, and all policies.                                       *)
ExpectedDocuments ==
  [o \in Objects |-> IF Live(row[o]) THEN row[o] ELSE 0]

Init ==
  /\ regime \in Regimes
  /\ row \in [Objects -> {New, 1}]
  /\ gateway = ExpectedDocuments
  /\ kind = [r \in Requests |-> "none"]
  /\ object \in [Requests -> {CHOOSE o \in Objects : TRUE}]
  /\ content = [r \in Requests |-> 1]
  /\ pc = [r \in Requests |-> "idle"]
  /\ held = [r \in Requests |-> {}]
  /\ seen = [r \in Requests |-> 0]
  /\ expected = [r \in Requests |-> [o \in Objects |-> 0]]
  /\ todo = [r \in Requests |-> {}]
  /\ faults = 0
-----------------------------------------------------------------------------
Goto(r, l) == pc' = [pc EXCEPT ![r] = l]
At(r, l) == pc[r] = l
Busy == {r \in Requests : pc[r] \notin Ended \cup {"idle"}}
Quiet == Busy = {}
Free(r, o) == \A q \in Requests \ {r} : o \notin held[q]
Release(r) == held' = [held EXCEPT ![r] = {}]
Fault == faults < regime.faults /\ faults' = faults + 1

(* A request arrives.  Ids are fresh: one request creates an object.        *)
Arrive(r, k, o, c) ==
  /\ At(r, "idle")
  /\ k \in regime.kinds
  /\ Busy # {} => k \in regime.overlap
  /\ \A q \in Busy : kind[q] \in regime.overlap
  /\ o \in Tokens => c = 1 /\ k # "change"
  /\ k \in {"remove", "reconcile"} => c = 1
  /\ k = "create" =>
       row[o] = New /\ \A q \in Requests : kind[q] # "create" \/ object[q] # o
  /\ kind' = [kind EXCEPT ![r] = k]
  /\ object' = [object EXCEPT ![r] = o]
  /\ content' = [content EXCEPT ![r] = c]
  /\ Goto(r, IF k = "reconcile" THEN "read" ELSE "begin")
  /\ UNCHANGED <<regime, row, gateway, held, seen, recVars, faults>>

(* create_pat and create_policy insert a row that nobody else can see.      *)
Insert(r) ==
  /\ At(r, "begin") /\ kind[r] = "create"
  /\ held' = [held EXCEPT ![r] = {object[r]}]
  /\ Goto(r, "sync")
  /\ UNCHANGED <<reqVars, row, gateway, seen, recVars, faults>>

(* update_policy, delete_policy and revoke_pat read the row without a lock. *)
(* An unknown id is a 404; a token that is revoked already is not written   *)
(* again, and neither is a policy that has the content asked for.           *)
Load(r) ==
  LET o == object[r]
      known == Live(row[o]) \/ (o \in Tokens /\ row[o] = Gone)
      dirty == Live(row[o]) /\ ~(kind[r] = "change" /\ content[r] = row[o])
  IN
  /\ At(r, "begin") /\ kind[r] \in {"change", "remove"}
  /\ Goto(r, IF ~known THEN "refused" ELSE IF dirty THEN "flush" ELSE "sync")
  /\ seen' = [seen EXCEPT ![r] = IF Live(row[o]) THEN row[o] ELSE 0]
  /\ UNCHANGED <<reqVars, row, gateway, held, recVars, faults>>

(* Mutant: the statement does not wait for the row.                         *)
Flush_NoWait(r) ==
  /\ At(r, "flush")
  /\ held' = [held EXCEPT ![r] = {object[r]}]
  /\ Goto(r, "sync")
  /\ UNCHANGED <<reqVars, row, gateway, seen, recVars, faults>>

(* The flush waits for the row.  An update of a row that has gone raises, a *)
(* deletion of it is only warned about.                                     *)
Flush(r) ==
  LET o == object[r] IN
  /\ At(r, "flush")
  /\ Free(r, o)
  /\ IF row[o] = Gone /\ kind[r] = "change"
     THEN Goto(r, "failed") /\ UNCHANGED held
     ELSE Goto(r, "sync") /\ held' = [held EXCEPT ![r] = {o}]
  /\ UNCHANGED <<reqVars, row, gateway, seen, recVars, faults>>

(* Mutant: a revocation reaches the gateway only if this request wrote it.  *)
DocumentOf_KeptOnRemove(r) ==
  IF kind[r] = "remove" /\ object[r] \in Tokens THEN seen[r]
  ELSE IF kind[r] = "remove" THEN 0 ELSE content[r]

(* What the gateway is told: no document of a removed object, else the row  *)
(* as refreshed: the content written, or the one that was there already.    *)
DocumentOf(r) == IF kind[r] = "remove" THEN 0 ELSE content[r]

(* sync_pat_creation, sync_pat_revocation, sync_policy or delete_policy.    *)
Sync(r) ==
  /\ At(r, "sync")
  /\ gateway' = [gateway EXCEPT ![object[r]] = DocumentOf(r)]
  /\ Goto(r, "commit")
  /\ UNCHANGED <<reqVars, row, held, seen, recVars, faults>>

(* The call fails, before or after it has taken effect: the transaction is  *)
(* rolled back and the answer is 502.                                       *)
SyncFails(r) ==
  /\ At(r, "sync")
  /\ Fault
  /\ gateway' \in {gateway, [gateway EXCEPT ![object[r]] = DocumentOf(r)]}
  /\ Release(r)
  /\ Goto(r, "failed")
  /\ UNCHANGED <<reqVars, row, seen, recVars>>

(* Audit entry and commit.                                                  *)
Commit(r) ==
  LET o == object[r] IN
  /\ At(r, "commit")
  /\ row' = IF o \in held[r]
            THEN [row EXCEPT ![o] = IF kind[r] = "remove" THEN Gone
                                                       ELSE content[r]]
            ELSE row
  /\ Release(r)
  /\ Goto(r, "ok")
  /\ UNCHANGED <<reqVars, gateway, seen, recVars, faults>>

(* _rollback_and_reconcile_gateway: the transaction is rolled back, and the *)
(* compensation is a reconciliation of everything.                          *)
CommitFails(r) ==
  /\ At(r, "commit")
  /\ Fault
  /\ Release(r)
  /\ Goto(r, "read")
  /\ UNCHANGED <<reqVars, row, gateway, seen, recVars>>

(* reconcile: committed rows first, then the gateway's lists, then one call *)
(* for every difference.                                                    *)
ReconcileRead(r) ==
  /\ At(r, "read")
  /\ expected' = [expected EXCEPT ![r] = ExpectedDocuments]
  /\ Goto(r, "list")
  /\ UNCHANGED <<reqVars, row, gateway, held, seen, todo, faults>>

(* Mutant: documents that nothing asks for are left at the gateway.         *)
ReconcileList_OnlyUpserts(r) ==
  /\ At(r, "list")
  /\ todo' = [todo EXCEPT ![r] =
       {o \in Objects : expected[r][o] \notin {gateway[o], 0}}]
  /\ Goto(r, "calls")
  /\ UNCHANGED <<reqVars, row, gateway, held, seen, expected, faults>>

ReconcileList(r) ==
  /\ At(r, "list")
  /\ todo' = [todo EXCEPT ![r] = {o \in Objects : gateway[o] # expected[r][o]}]
  /\ Goto(r, "calls")
  /\ UNCHANGED <<reqVars, row, gateway, held, seen, expected, faults>>

ReconcileCall(r) ==
  /\ At(r, "calls")
  /\ \E o \in todo[r] :
       /\ gateway' = [gateway EXCEPT ![o] = expected[r][o]]
       /\ todo' = [todo EXCEPT ![r] = @ \ {o}]
  /\ UNCHANGED <<reqVars, row, pc, held, seen, expected, faults>>

ReconcileReturns(r) ==
  /\ At(r, "calls")
  /\ todo[r] = {}
  /\ Goto(r, IF kind[r] = "reconcile" THEN "ok" ELSE "failed")
  /\ UNCHANGED <<reqVars, row, gateway, held, seen, recVars, faults>>

ReconcileFails(r) ==
  /\ At(r, "calls")
  /\ todo[r] # {}
  /\ Fault
  /\ todo' = [todo EXCEPT ![r] = {}]
  /\ Goto(r, "failed")
  /\ UNCHANGED <<reqVars, row, gateway, held, seen, expected>>

Serve(r) ==
  \/ Insert(r) \/ Load(r) \/ Flush(r) \/ Sync(r) \/ Commit(r)
  \/ ReconcileRead(r) \/ ReconcileList(r) \/ ReconcileCall(r)
  \/ ReconcileReturns(r)

Next ==
  \E r \in Requests :
    \/ \E k \in Kinds, o \in Objects, c \in Contents : Arrive(r, k, o, c)
    \/ Serve(r)
    \/ SyncFails(r) \/ CommitFails(r) \/ ReconcileFails(r)

Spec == Init /\ [][Next]_vars
-----------------------------------------------------------------------------
(* A token that is revoked in the database has no consumer at the gateway   *)
(* once all requests have ended, however creations, revocations (also of    *)
(* one token twice) and policy changes overlapped, unless something failed  *)
(* or a reconciliation overlapped.                                          *)
RevokedIsGone ==
  Quiet /\ faults = 0 /\ "reconcile" \notin regime.overlap =>
    \A o \in Tokens : row[o] = Gone => gateway[o] = 0

(* When all is quiet and nothing failed, the gateway holds exactly the      *)
(* documents of the committed rows, however creations, updates and removals *)
(* overlapped: each handler tells the gateway while it holds its row.  Only *)
(* an update that asks for what it read takes no lock, and a reconciliation *)
(* none at all.                                                             *)
BindingsFollowRows ==
  /\ Quiet /\ faults = 0
  /\ "reconcile" \notin regime.overlap
  /\ \A r \in Requests : kind[r] = "change" => content[r] # seen[r]
  => gateway = ExpectedDocuments

(* A reconciliation that ran alone, on its own or to compensate a commit    *)
(* that failed, leaves the gateway with exactly the documents of the rows,  *)
(* whatever failed before it.                                               *)
ReconcileHeals ==
  regime.overlap = {} =>
    \A r \in Requests :
      At(r, "calls") /\ todo[r] = {} => gateway = ExpectedDocuments
=============================================================================
