----------------------------- MODULE Enhancement -----------------------------
(***************************************************************************)
(* The enhance stage (libs/enhancer): batches of operations go to an LLM,  *)
(* a few at a time and within a token budget, and whatever it answers is   *)
(* written into the service; then the deterministic steps derive intents,  *)
(* groups, resources and prompts (_apply_post_enhancement).                *)
(*                                                                         *)
(* An answer of the LLM is none (nothing that can be parsed), text, wild   *)
(* (a confidence that is no number in 0.0 .. 1.0) or broken (parameters    *)
(* that are no list of objects).  Token counts are abstract units.         *)
(***************************************************************************)
EXTENDS IR

CONSTANTS BatchSize,      \* batch_size
          Concurrency,    \* max_concurrent_batches
          TokenBudget,    \* max_tokens_per_job
          CallTokens      \* what one call can cost

ASSUME EnhancementAssumption ==
  /\ BatchSize \in Nat \ {0} /\ Concurrency \in Nat \ {0} /\ TokenBudget \in Nat
  /\ CallTokens \subseteq Nat
  /\ \E most \in CallTokens : most > 0 /\ \A t \in CallTokens : t <= most

VARIABLES batches,        \* the operations of each batch, by id
          progress,       \* waiting, calling or done, for each batch
          answers,        \* operation id -> what the LLM said about it
          usage           \* token_usage

enhanceVars == <<batches, progress, answers, usage>>

Answers == {"none", "text", "wild", "broken"}

EnhanceInit ==
  batches = <<>> /\ progress = <<>> /\ answers = <<>> /\ usage = 0

(* _select_operations takes the operations whose descriptions are short,    *)
(* and _batch_operations cuts them into batches.                            *)
Batched(ids) ==
  [b \in 1 .. (Len(ids) + BatchSize - 1) \div BatchSize |->
     ToSet(SubSeq(ids, (b - 1) * BatchSize + 1,
                  IF b * BatchSize < Len(ids) THEN b * BatchSize ELSE Len(ids)))]

StartEnhance(ir, short) ==
  LET ops == SelectSeq(ir.ops, LAMBDA op : op.id \in short)
      cut == Batched([i \in DOMAIN ops |-> ops[i].id])
  IN  /\ batches' = cut
      /\ progress' = [b \in DOMAIN cut |-> "waiting"]
      /\ answers' = <<>> /\ usage' = 0

Calling == {b \in DOMAIN progress : progress[b] = "calling"}

(* Mutant: the budget is looked at before the semaphore is awaited, when    *)
(* no call has been paid for yet.                                           *)
StartBatch_ChecksEarly(b) ==
  /\ progress[b] = "waiting" /\ Cardinality(Calling) < Concurrency
  /\ \A c \in 1 .. b - 1 : progress[c] # "waiting"
  /\ progress' = [progress EXCEPT ![b] = "calling"]
  /\ UNCHANGED <<batches, answers, usage>>

(* _process_batch: the semaphore admits batches in order, and the budget is *)
(* looked at between its grant and the call.                                *)
StartBatch(b) ==
  /\ progress[b] = "waiting" /\ Cardinality(Calling) < Concurrency
  /\ \A c \in 1 .. b - 1 : progress[c] # "waiting"
  /\ progress' = [progress EXCEPT ![b] = IF usage >= TokenBudget THEN "done"
                                         ELSE "calling"]
  /\ UNCHANGED <<batches, answers, usage>>

(* The call returns, is paid for and is parsed.                             *)
BatchAnswered(b) ==
  /\ progress[b] = "calling"
  /\ progress' = [progress EXCEPT ![b] = "done"]
  /\ \E t \in CallTokens : usage' = usage + t
  /\ \E a \in Answers :
       answers' = IF a = "none" THEN answers
                  ELSE [id \in batches[b] |-> a] @@ answers
  /\ UNCHANGED batches

(* The call raises: the batch gives nothing.                                *)
BatchFails(b) ==
  /\ progress[b] = "calling"
  /\ progress' = [progress EXCEPT ![b] = "done"]
  /\ UNCHANGED <<batches, answers, usage>>

BatchStep ==
  \E b \in DOMAIN progress : StartBatch(b) \/ BatchAnswered(b) \/ BatchFails(b)

Gathered == \A b \in DOMAIN progress : progress[b] = "done"

(* _apply_enhancements copies without validating: a wild confidence is      *)
(* found out by the next stage; broken parameters raise here.               *)
ApplyRaises == \E id \in DOMAIN answers : answers[id] = "broken"

ApplyEnhancements(ir) ==
  LET Enhanced(op) == IF op.id \in DOMAIN answers /\ answers[op.id] = "wild"
                      THEN [op EXCEPT !.conf = FALSE] ELSE op
  IN  [ir EXCEPT !.ops = [i \in DOMAIN ir.ops |-> Enhanced(ir.ops[i])]]
-----------------------------------------------------------------------------
(* derive_tool_intent.                                                      *)
ToolIntent(op) ==
  IF /\ ~op.writes /\ ~op.destructive /\ op.level = "safe"
     /\ op.method \in {"GET", "HEAD", "OPTIONS"}
  THEN "discovery" ELSE "action"

DeriveIntents(ir) ==
  [ir EXCEPT !.ops = [i \in DOMAIN ir.ops |->
     IF ir.ops[i].intent = "none"
     THEN [ir.ops[i] EXCEPT !.intent = ToolIntent(ir.ops[i])] ELSE ir.ops[i]]]

(* ToolGrouper: the LLM proposes groups; ids that are not those of enabled  *)
(* operations are dropped from them, and empty groups with them.            *)
Grouped(ir, proposed) ==
  [ir EXCEPT !.groups = {g \cap EnabledIds(ir) : g \in proposed} \ {{}}]

(* generate_resources: documents about the service, none of them dynamic.   *)
GeneratedResources(ir) ==
  {[id |-> d, op |-> NoOp] : d \in {"schema", "operations", "auth_requirements",
                                    "risk_profile", "error_catalog"}}

(* The prompts of prompt_generator: every tool, the read-only tools, and    *)
(* the tools that need a confirmation.  Those per entity are left out: they *)
(* too name enabled operations only.                                        *)
IsSafeOperation(op) ==
  op.intent = "discovery" \/ op.level = "safe" \/ op.method = "GET"

(* Mutant: the prompt lists every operation of the service.                 *)
ExplorePrompt_All(ir) == [id |-> "explore", tools |-> OpIds(ir)]

ExplorePrompt(ir) == [id |-> "explore", tools |-> EnabledIds(ir)]

SafeDiscoveryPrompt(ir) ==
  [id |-> "safe_discovery",
   tools |-> {op.id : op \in {op \in EnabledOps(ir) : IsSafeOperation(op)}}]

RiskyOps(ir) ==
  {op \in EnabledOps(ir) : op.level \in {"cautious", "dangerous"}}

RiskAwarePrompt(ir) ==
  [id |-> "risk_aware", tools |-> {op.id : op \in RiskyOps(ir)}]

GeneratedPrompts(ir) ==
  {ExplorePrompt(ir), SafeDiscoveryPrompt(ir)}
    \cup (IF RiskyOps(ir) = {} THEN {} ELSE {RiskAwarePrompt(ir)})

PostEnhancement(ir, proposed) ==
  LET grouped == Grouped(DeriveIntents(ir), proposed)
  IN  [grouped EXCEPT !.resources = GeneratedResources(grouped),
                      !.prompts = GeneratedPrompts(grouped)]
=============================================================================
