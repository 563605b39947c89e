--------------------------- MODULE ReviewWorkflow ---------------------------
(***************************************************************************)
(* The review of one service version (apps/compiler_api/routes/            *)
(* workflows.py).  A handler reads the row or makes a new one, checks the  *)
(* transition against the state it read, and writes state and history back *)
(* at the commit; nothing locks the row in between.  The unique constraint *)
(* of the table does not bind rows without tenant or environment, so two   *)
(* first requests can leave two rows, of which a later request reads any.  *)
(***************************************************************************)
EXTENDS Naturals, Sequences, FiniteSets

CONSTANTS
  Clients,    \* requests that can be in progress at the same time
  Roles,      \* the role a caller comes with, "none" among them
  Scopes,     \* may the version be scoped? a subset of BOOLEAN
  MaxHistory  \* bound on the length of a history

ASSUME ReviewAssumption ==
  /\ Scopes \subseteq BOOLEAN
  /\ "none" \in Roles
  /\ MaxHistory \in Nat
  /\ IsFiniteSet(Clients)

States == {"draft", "submitted", "in_review", "approved", "rejected",
           "published", "deployed"}

VALID_TRANSITIONS ==
  { <<"draft", "submitted">>, <<"submitted", "in_review">>,
    <<"in_review", "approved">>, <<"in_review", "rejected">>,
    <<"approved", "published">>, <<"rejected", "draft">>,
    <<"published", "deployed">> }

(* _TRANSITION_REQUIRED_ROLES: who may pass a gate.                         *)
Gates == { <<"in_review", "approved">>, <<"approved", "published">>,
           <<"published", "deployed">> }
Required(t) ==
  CASE t = <<"in_review", "approved">> -> {"reviewer", "admin"}
    [] t = <<"approved", "published">> -> {"publisher", "admin"}
    [] t = <<"published", "deployed">> -> {"deployer", "admin"}

VARIABLES
  scoped, \* has the version a tenant and an environment?
  rows,   \* committed rows: state, history (newest entry first), and
          \* whether review notes have been saved
  pc,     \* pc[c]: "idle", or "write" between read and commit
  index,  \* index[c]: the row that c has read, 0 for one it makes
  record, \* record[c]: the row as c will write it
  dirty   \* dirty[c]: the columns that c has assigned

vars == <<scoped, rows, pc, index, record, dirty>>

(* by is a ghost: the role with which a gate was passed, "none" elsewhere.  *)
Entry == [from : States, to : States, by : Roles]
NewRecord == [state |-> "draft", history |-> <<>>, notes |-> FALSE]

TypeOK ==
  /\ scoped \in Scopes
  /\ Len(rows) <= Cardinality(Clients)
  /\ scoped => Len(rows) <= 1
  /\ \A i \in 1 .. Len(rows) :
       /\ rows[i].state \in States
       /\ Len(rows[i].history) <= MaxHistory
       /\ \A j \in 1 .. Len(rows[i].history) : rows[i].history[j] \in Entry
  /\ pc \in [Clients -> {"idle", "write"}]
  /\ index \in [Clients -> 0 .. Cardinality(Clients)]
  /\ dirty \in [Clients -> SUBSET {"state", "history", "notes"}]

Init ==
  /\ scoped \in Scopes
  /\ rows = <<>>
  /\ pc = [c \in Clients |-> "idle"]
  /\ index = [c \in Clients |-> 0]
  /\ record = [c \in Clients |-> NewRecord]
  /\ dirty = [c \in Clients |-> {}]

(* _get_or_create: any row of the version, or a new one.                    *)
Candidates == IF rows = <<>> THEN {0} ELSE 1 .. Len(rows)
RecordAt(i) == IF i = 0 THEN NewRecord ELSE rows[i]

(* What the handlers share: find the row or make one, and assign columns.   *)
Load(c, i, r, columns) ==
  /\ pc[c] = "idle"
  /\ i \in Candidates
  /\ index' = [index EXCEPT ![c] = i]
  /\ record' = [record EXCEPT ![c] = r]
  /\ dirty' = [dirty EXCEPT ![c] = columns]
  /\ pc' = [pc EXCEPT ![c] = "write"]
  /\ UNCHANGED <<scoped, rows>>

(* get_workflow and get_workflow_history: reading may make the row.         *)
GetWorkflow(c) ==
  \E i \in Candidates : Load(c, i, RecordAt(i), {})

(* save_review_notes.                                                       *)
SaveReviewNotes(c) ==
  \E i \in Candidates :
    Load(c, i, [RecordAt(i) EXCEPT !.notes = TRUE], {"notes"})

(* Mutant: gates are open to every caller.                                  *)
Allowed_AnyRole(from, to, role) == <<from, to>> \in VALID_TRANSITIONS

(* A transition that is not in the table is a 409, a gate without the role  *)
(* a 403; in both cases nothing is written.                                 *)
Allowed(from, to, role) ==
  /\ <<from, to>> \in VALID_TRANSITIONS
  /\ <<from, to>> \in Gates => role \in Required(<<from, to>>)

(* transition_workflow up to its commit.                                    *)
Transition(c, to, role) ==
  \E i \in Candidates :
    LET r == RecordAt(i)
        entry == [from |-> r.state, to |-> to,
                  by |-> IF <<r.state, to>> \in Gates THEN role ELSE "none"]
    IN
    /\ Allowed(r.state, to, role)
    /\ Len(r.history) < MaxHistory
    /\ Load(c, i,
            [r EXCEPT !.state = to, !.history = <<entry>> \o r.history],
            {"state", "history"})

(* The session of the request is closed.                                    *)
Answer(c) ==
  /\ pc[c] = "write"
  /\ pc' = [pc EXCEPT ![c] = "idle"]
  /\ index' = [index EXCEPT ![c] = 0]
  /\ record' = [record EXCEPT ![c] = NewRecord]
  /\ dirty' = [dirty EXCEPT ![c] = {}]

(* A commit that writes row w: a new row, refused by the constraint if the  *)
(* version is scoped and has one, or an update of the row that was read.    *)
Store(c, w) ==
  /\ Answer(c)
  /\ rows' = CASE index[c] # 0 -> [rows EXCEPT ![index[c]] = w]
               [] index[c] = 0 /\ scoped /\ rows # <<>> -> rows
               [] OTHER -> Append(rows, w)
  /\ UNCHANGED scoped

(* The update of the assigned columns only, whatever they hold by now.      *)
Merged(c) ==
  IF index[c] = 0 THEN record[c]
  ELSE [col \in DOMAIN NewRecord |->
          IF col \in dirty[c] THEN record[c][col] ELSE rows[index[c]][col]]

(* Mutants: the new entry is put before what the row holds by now; the      *)
(* whole row is written back.                                               *)
Commit_Appends(c) ==
  Store(c, IF index[c] # 0 /\ "state" \in dirty[c]
           THEN [Merged(c) EXCEPT !.history =
                   <<Head(record[c].history)>> \o rows[index[c]].history]
           ELSE Merged(c))
Commit_WholeRow(c) == Store(c, record[c])

(* session.commit.                                                          *)
Commit(c) == Store(c, Merged(c))

(* The request ends without a commit: the store fails or the caller leaves. *)
Abort(c) ==
  /\ Answer(c)
  /\ UNCHANGED <<scoped, rows>>

Next ==
  \E c \in Clients :
    \/ GetWorkflow(c)
    \/ SaveReviewNotes(c)
    \/ \E to \in States, role \in Roles : Transition(c, to, role)
    \/ Commit(c)
    \/ Abort(c)

Spec == Init /\ [][Next]_vars
-----------------------------------------------------------------------------
(* However reviewers overwrite each other, the history of a row is a chain  *)
(* of transitions that starts at draft and ends in the row's state: lost    *)
(* updates lose whole steps, never the agreement of state and history.      *)
HistoryIsAChain ==
  \A i \in 1 .. Len(rows) :
    LET h == rows[i].history IN
    /\ rows[i].state = IF h = <<>> THEN "draft" ELSE Head(h).to
    /\ h # <<>> => h[Len(h)].from = "draft"
    /\ \A j \in 1 .. Len(h) - 1 : h[j].from = h[j + 1].to

(* Saved notes stay: a transition that was read before the notes were saved *)
(* and is committed after them does not take them back.                     *)
NotesKept ==
  [][\A i \in 1 .. Len(rows) : rows[i].notes => rows'[i].notes]_vars

(* A version is published or deployed only if someone with the role for it  *)
(* passed every gate on the way, on the row that says so.                   *)
GatesPassed ==
  \A i \in 1 .. Len(rows) :
    LET h == rows[i].history
        Passed(t) == \E j \in 1 .. Len(h) :
                       <<h[j].from, h[j].to>> = t /\ h[j].by \in Required(t)
    IN
    /\ rows[i].state \in {"approved", "published", "deployed"} =>
         Passed(<<"in_review", "approved">>)
    /\ rows[i].state \in {"published", "deployed"} =>
         Passed(<<"approved", "published">>)
    /\ rows[i].state = "deployed" => Passed(<<"published", "deployed">>)
=============================================================================
