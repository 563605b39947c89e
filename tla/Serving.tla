------------------------------- MODULE Serving -------------------------------
(***************************************************************************)
(* From a service to a runtime that serves it: the pre-deploy validator,   *)
(* the flags that the generator puts into the manifests, how the runtime   *)
(* loads the service and dispatches a tool, and how the post-deploy        *)
(* validator picks the operation it calls (libs/validator, libs/generator, *)
(* apps/mcp_runtime).                                                      *)
(***************************************************************************)
EXTENDS IR

BrokerTransports == {"kafka", "rabbitmq", "mqtt", "amqp", "pulsar", "async_event"}
WebhookTransports == {"webhook", "callback"}
StreamTransports == {"sse", "websocket"}

(* _has_supported_native_grpc_stream, _has_native_grpc_unary: what the      *)
(* service itself needs; validator and generator both ask.                  *)
NeedsGrpcStream(ir) ==
  \E e \in ir.events : /\ e.transport = "grpc_stream" /\ e.support = "supported"
                       /\ e.mode = "server"

NeedsGrpcUnary(ir) ==
  \E op \in EnabledOps(ir) : op.contract = "grpc_unary"

(* _validate_event_support for one descriptor.                              *)
DescriptorPasses(ir, e) ==
  \/ e.support = "unsupported"
  \/ /\ e.support = "supported" /\ e.op # NoOp
     /\ \/ e.transport \in StreamTransports
        \/ /\ e.transport = "grpc_stream" /\ e.mode = "server"
           /\ NeedsGrpcStream(ir)

(* A disabled unary operation counts here, though not for the flag.         *)
EventSupportPasses(ir) ==
  /\ \A e \in ir.events : DescriptorPasses(ir, e)
  /\ \A op \in ToSet(ir.ops) : op.contract = "grpc_unary" => NeedsGrpcUnary(ir)

(* _validate_oauth2_endpoint.  With client credentials, whose secrets the   *)
(* worker must have, the endpoint has to grant a token; with only the URL   *)
(* of an endpoint and a secret reference any answer of success will do.     *)
TokenAnswers == {"token", "other", "error", "unreachable"}

OAuth2EndpointPasses(auth, answer) ==
  CASE auth = "oauth2" -> answer = "token"
    [] auth = "oauth2_url" -> answer \in {"token", "other"}
    [] OTHER -> FALSE      \* a secret or the URL is missing

(* _validate_auth_smoke: a scheme without a secret reference fails.         *)
OAuth2(auth) == auth \in {"oauth2", "oauth2_url", "oauth2_incomplete"}

AuthSmokePasses(ir, tokenAnswer) ==
  CASE ir.auth = "none" -> TRUE
    [] OAuth2(ir.auth) -> OAuth2EndpointPasses(ir.auth, tokenAnswer)
    [] OTHER -> ir.auth = "secret_ref"

(* PreDeployValidator.validate.                                             *)
PreDeployPasses(ir, tokenAnswer) ==
  /\ Valid(ir)
  /\ EventSupportPasses(ir)
  /\ AuthSmokePasses(ir, tokenAnswer)

(* Mutant: only unary calls are thought of.                                 *)
ManifestEnv_UnaryOnly(ir) ==
  IF NeedsGrpcUnary(ir) THEN {"ENABLE_NATIVE_GRPC_UNARY"} ELSE {}

(* The flags of the runtime container.                                      *)
ManifestEnv(ir) ==
  (IF NeedsGrpcStream(ir) THEN {"ENABLE_NATIVE_GRPC_STREAM"} ELSE {})
    \cup (IF NeedsGrpcUnary(ir) THEN {"ENABLE_NATIVE_GRPC_UNARY"} ELSE {})
-----------------------------------------------------------------------------
(* build_runtime_state: the executors a runtime has, by the service and the *)
(* flags of its environment.                                                *)
SqlEnabled(ir) == \E op \in EnabledOps(ir) : op.contract = "sql"

GrpcUnaryEnabled(ir, env) ==
  "ENABLE_NATIVE_GRPC_UNARY" \in env /\ NeedsGrpcUnary(ir)

GrpcStreamEnabled(ir, env) ==
  /\ "ENABLE_NATIVE_GRPC_STREAM" \in env
  /\ \E e \in ir.events : e.transport = "grpc_stream" /\ e.support = "supported"

LiveDescriptor(ir, transports) ==
  \E e \in ir.events : e.support # "unsupported" /\ e.transport \in transports

Executors(ir, env) ==
  {x \in {"sql", "grpc_unary", "grpc_stream", "event_bridge", "webhook"} :
     \/ x = "sql" /\ SqlEnabled(ir)
     \/ x = "grpc_unary" /\ GrpcUnaryEnabled(ir, env)
     \/ x = "grpc_stream" /\ GrpcStreamEnabled(ir, env)
     \/ x = "event_bridge" /\ LiveDescriptor(ir, BrokerTransports)
     \/ x = "webhook" /\ LiveDescriptor(ir, WebhookTransports)}

(* register_ir_tools: one tool per enabled operation.                       *)
RegisteredTools(ir) == EnabledIds(ir)

(* load_service_ir validates the dumped service; then build_runtime_state.  *)
BuildRuntimeState(ir, env) ==
  LET loaded == ModelValidate(ir)
  IN  [loaded |-> Valid(ir), ir |-> loaded,
       tools |-> IF Valid(ir) THEN RegisteredTools(loaded) ELSE {},
       executors |-> Executors(loaded, env)]

OpOf(ir, id) == CHOOSE op \in ToSet(ir.ops) : op.id = id
DescriptorsOf(ir, id) == {e \in ir.events : e.op = id}
Supported(ir, id) == {e \in DescriptorsOf(ir, id) : e.support = "supported"}

(* stream_descriptor_for_operation: an operation with descriptors and none  *)
(* of them supported, or more than one, cannot be called at all.            *)
StreamAdapter(ir, id) ==
  LET supported == Supported(ir, id)
  IN  CASE Cardinality(supported) # 1 -> "refused"
        [] \E e \in supported : e.transport = "grpc_stream" -> "grpc_stream"
        [] \E e \in supported : e.transport \in StreamTransports -> "http_stream"
        [] OTHER -> "refused"

(* _dispatch_native: which way a call goes.  An operation has at most one   *)
(* descriptor that is not unsupported.                                      *)
Adapter(ir, op) ==
  LET own == DescriptorsOf(ir, op.id)
      Through(ts) == \E e \in own : e.support # "unsupported" /\ e.transport \in ts
  IN  IF op.contract \in {"sql", "grpc_unary", "cli"} THEN op.contract
      ELSE IF Through(BrokerTransports) THEN "event_bridge"
      ELSE IF Through(WebhookTransports) THEN "webhook"
      ELSE IF own # {} THEN StreamAdapter(ir, op.id)
      ELSE "http"

(* A call that finds no executor, or no method to send, is a ToolError      *)
(* before anything reaches the upstream.                                    *)
Reaches(rt, op) ==
  LET adapter == Adapter(rt.ir, op)
  IN  \/ adapter \in rt.executors
      \/ adapter = "cli"
      \/ adapter \in {"http", "http_stream"} /\ op.method # "none"
-----------------------------------------------------------------------------
(* The samples of _build_sample_invocations fill a path parameter without a *)
(* default by a placeholder, unless the user gave a sample.                 *)
UsesPlaceholder(op, sampled) == op.open /\ op.id \notin sampled

SafeCandidate(op, sampled) ==
  ~UsesPlaceholder(op, sampled) /\ ~op.writes /\ ~op.destructive

(* _smoke_operation_priority: the category, then the penalty for writing.   *)
SmokeCategory(ir, op) ==
  CASE op.contract = "sql" -> IF op.writes THEN 8 ELSE 0
    [] op.contract = "graphql" -> IF op.writes THEN 7 ELSE 1
    [] op.contract = "grpc_unary" -> 2
    [] op.contract = "soap" -> 4
    [] op.contract \in {"http", "jsonrpc", "cli", "none"} ->
         IF \E e \in Supported(ir, op.id) : e.transport = "grpc_stream" THEN 3
         ELSE CASE op.method \in {"GET", "HEAD"} -> 1
                [] op.method = "POST" -> 5
                [] op.method \in {"PUT", "PATCH"} -> 7
                [] op.method = "DELETE" -> 8
                [] OTHER -> 6

SmokePriority(ir, op) ==
  10 * SmokeCategory(ir, op) + (IF op.writes THEN 2 ELSE 0)
    + (IF op.destructive THEN 4 ELSE 0)

(* Mutant: the priority alone keeps the choice away from what writes.       *)
SmokeChoices_AnyTool(rt, preferred, sampled) ==
  LET ops == {op \in EnabledOps(rt.ir) :
                op.id \in rt.tools /\ ~UsesPlaceholder(op, sampled)}
      wanted == {op \in ops : op.id = preferred}
  IN  IF wanted # {} THEN wanted
      ELSE {op \in ops : \A other \in ops :
              SmokePriority(rt.ir, op) <= SmokePriority(rt.ir, other)}

(* _select_smoke_operation: the operation the user prefers, if it has no    *)
(* placeholder; otherwise a safe one of the best priority.  Between equals  *)
(* the parameters and the id decide, which is any of them here.             *)
SmokeChoices(rt, preferred, sampled) ==
  LET ops == {op \in EnabledOps(rt.ir) : op.id \in rt.tools}
      wanted == {op \in ops : op.id = preferred /\ ~UsesPlaceholder(op, sampled)}
      safe == {op \in ops : SafeCandidate(op, sampled)}
  IN  IF wanted # {} THEN wanted
      ELSE {op \in safe : \A other \in safe :
              SmokePriority(rt.ir, op) <= SmokePriority(rt.ir, other)}

(* _validate_health, _validate_tool_listing: the runtime that answers has   *)
(* loaded its service and lists what the service enables.                   *)
HealthPasses(rt) == rt.loaded
ListingPasses(rt, ir) == rt.tools = EnabledIds(ir)

(* build_streamable_http_tool_invoker: a ToolError, of the upstream or of   *)
(* the runtime itself, comes back as an MCP error, which                    *)
(* _tool_result_failure_reason takes for an upstream that was reached.      *)
(* What fails is a runtime that cannot be connected to.                     *)
SmokeResult(rt, op, connected) ==
  CASE ~connected -> "exception"
    [] connected /\ Reaches(rt, op) -> "ok"
    [] OTHER -> "upstream_error"

SmokePasses(rt, op, connected) ==
  SmokeResult(rt, op, connected) \in {"ok", "upstream_error"}
-----------------------------------------------------------------------------
(* AuditPolicy.skip_reason with its defaults: a placeholder that is a text  *)
(* is seen, one that is a number is not (numeric: the operations whose open *)
(* path parameters are numbers).  What is read over HTTP and what is meant  *)
(* for discovery is called, whatever its risk; of the rest what neither     *)
(* writes nor destroys (an external side effect goes with a write in every  *)
(* extractor).                                                              *)
Audited(op, sampled, numeric) ==
  /\ ~UsesPlaceholder(op, sampled \cup numeric)
  /\ \/ op.method \in {"GET", "HEAD", "OPTIONS"}
     \/ op.intent = "discovery"
     \/ ~op.destructive /\ ~op.writes

(* _audit_all_enabled_operations: each enabled operation is called and      *)
(* passed or failed, or it is skipped.  After a call that failed the        *)
(* placeholder is looked for once more, numbers included                    *)
(* (failure_skip_reason): then the account says skipped of a tool that was  *)
(* called.                                                                  *)
AuditOutcome(rt, op, sampled, numeric, connected) ==
  IF op.id \notin rt.tools THEN [called |-> FALSE, outcome |-> "failed"]
  ELSE IF ~Audited(op, sampled, numeric) THEN [called |-> FALSE, outcome |-> "skipped"]
  ELSE [called |-> TRUE,
        outcome |-> IF SmokePasses(rt, op, connected) THEN "passed"
                    ELSE IF UsesPlaceholder(op, sampled) THEN "skipped"
                    ELSE "failed"]

(* validate_with_audit on a runtime that is healthy and lists its tools.    *)
Audit(rt, sampled, numeric, connected) ==
  [id \in EnabledIds(rt.ir) |->
     AuditOutcome(rt, OpOf(rt.ir, id), sampled, numeric, connected)]

=============================================================================
