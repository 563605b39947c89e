---------------------------------- MODULE IR ----------------------------------
(***************************************************************************)
(* The intermediate representation (libs/ir/models.py): what an operation, *)
(* an event descriptor and a service are, and what the model validators    *)
(* demand of them.  An id is a tuple of the parts it is joined from; the   *)
(* texts, schemas and examples of the models are left out.                 *)
(***************************************************************************)
EXTENDS Naturals, Sequences, FiniteSets, SequencesExt

NoOp == <<>>

(* What a list comprehension gathers: what Make makes of each item, in turn. *)
Each(items, Make(_)) == FlattenSeq([i \in DOMAIN items |-> Make(items[i])])

Levels == {"safe", "cautious", "dangerous", "unknown"}
Contracts == {"http", "graphql", "grpc_unary", "soap", "sql", "jsonrpc", "cli",
              "none"}

(* An operation as an extractor builds it.  at: its path, where discovery   *)
(* found one; open: a path parameter has no default, so that a sample of it *)
(* is a placeholder; body: request_body_mode; conf: the confidences of the  *)
(* operation and of its parameters are what the validators accept.          *)
Operation(id, method, contract, level) ==
  [id |-> id, method |-> method, contract |-> contract, level |-> level,
   writes |-> level \in {"cautious", "dangerous"},
   destructive |-> level = "dangerous",
   at |-> <<>>, open |-> FALSE, body |-> "json", conf |-> TRUE,
   enabled |-> TRUE, intent |-> "none"]

(* An event descriptor; mode is that of its grpc_stream configuration.      *)
Event(id, transport, support, op, mode) ==
  [id |-> id, transport |-> transport, support |-> support, op |-> op,
   mode |-> mode]

Service(ops, events, auth) ==
  [ops |-> ops, events |-> events, auth |-> auth, groups |-> {},
   prompts |-> {}, resources |-> {}]

OpIds(ir) == {op.id : op \in ToSet(ir.ops)}
EnabledOps(ir) == {op \in ToSet(ir.ops) : op.enabled}
EnabledIds(ir) == {op.id : op \in EnabledOps(ir)}

(* The native contracts exclude each other, and each has its HTTP method.   *)
Coherent(op) ==
  /\ op.contract \in {"grpc_unary", "soap", "jsonrpc"} => op.method = "POST"
  /\ op.contract = "sql" => op.method = IF op.writes THEN "POST" ELSE "GET"

(* ServiceIR's validators: unique operation ids, and no event, group or     *)
(* prompt that names an operation which is not there.                       *)
UniqueOpIds(ir) ==
  \A i, j \in DOMAIN ir.ops : ir.ops[i].id = ir.ops[j].id => i = j

RefsValid(ir) ==
  /\ \A e \in ir.events : e.op = NoOp \/ e.op \in OpIds(ir)
  /\ \A g \in ir.groups : g \subseteq OpIds(ir)
  /\ \A p \in ir.prompts : p.tools \subseteq OpIds(ir)
  /\ \A r \in ir.resources : r.op = NoOp \/ r.op \in OpIds(ir)

Valid(ir) ==
  /\ UniqueOpIds(ir)
  /\ RefsValid(ir)
  /\ \A op \in ToSet(ir.ops) : Coherent(op) /\ op.conf

(* unknown_risk_must_be_disabled.                                           *)
DisableUnknown(op) == [op EXCEPT !.enabled = @ /\ op.level # "unknown"]

(* model_validate of a dumped service: the validators run over every part   *)
(* of it again, and some change what they see.                              *)
ModelValidate(ir) ==
  [ir EXCEPT !.ops = [i \in DOMAIN ir.ops |-> DisableUnknown(ir.ops[i])]]
=============================================================================
