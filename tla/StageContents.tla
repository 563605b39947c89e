---------------------------- MODULE StageContents ----------------------------
(***************************************************************************)
(* What one compilation makes of its source: the data path through the     *)
(* stages whose control CompileWorkflow has.  Each stage is one attempt    *)
(* (activities/production.py); a stage that raises ends the compilation    *)
(* here, and what was stored before it is what a resumed job would find.   *)
(*                                                                         *)
(* A job is [source, site, forced, auth, enhance, preferred, sampled,      *)
(* numeric]: the source, the website behind its URL, the protocol the user *)
(* forces ("none": detect it), the auth the user gives ("keep": what the   *)
(* source says), whether an LLM is configured, the tool the user prefers   *)
(* for the smoke test, the tools the user gave samples for, and the tools  *)
(* whose path parameters, if they have no default, are numbers.            *)
(***************************************************************************)
EXTENDS Extraction, RestDiscovery, Enhancement, Serving, Exchange

CONSTANTS Jobs,          \* the compilations looked at
          Sites          \* the websites, by name

ASSUME JobsAssumption ==
  \A j \in Jobs :
    /\ j.source.items \in Seq([name : STRING, verb : STRING, kind : STRING])
    /\ \A item \in ToSet(j.source.items) : item.verb # "none"
    /\ Website(Sites[j.site])

VARIABLES job,           \* the request
          stage,         \* the stage that runs next, serving or failed
          failedAt,      \* the stage that raised
          protocol,      \* what detect found
          ir,            \* service_ir of the payload
          env,           \* the flags in the generated manifest
          rt,            \* the state of the deployed runtime
          smoke,         \* the operation that the smoke test called
          audit          \* of every tool: was it called, and the outcome

ownVars == <<job, stage, failedAt, protocol, ir, env, rt, smoke, audit>>
vars == <<ownVars, crawlVars, enhanceVars>>

NoService == Service(<<>>, {}, "none")
NoRuntime == [loaded |-> FALSE, ir |-> NoService, tools |-> {}, executors |-> {}]

Init ==
  /\ job \in Jobs
  /\ stage = "detect" /\ failedAt = "none" /\ protocol = "none"
  /\ ir = NoService /\ env = {} /\ rt = NoRuntime /\ smoke = NoOp /\ audit = <<>>
  /\ CrawlInit(Sites[job.site])
  /\ EnhanceInit

Raise ==
  /\ failedAt' = stage /\ stage' = "failed"
  /\ UNCHANGED <<job, protocol, ir, env, rt, smoke, audit>>

(* detect_stage: a forced protocol is taken as it is.                       *)
Detected == IF job.forced = "none" THEN Detect(job.source) ELSE job.forced

DetectStage ==
  /\ stage = "detect"
  /\ IF Detected = "none" THEN Raise
     ELSE /\ protocol' = Detected /\ stage' = "extract"
          /\ UNCHANGED <<job, failedAt, ir, env, rt, smoke, audit>>
  /\ UNCHANGED <<crawlVars, enhanceVars>>

(* _apply_auth_override replaces what the extractor found.                  *)
AuthOverride(service) ==
  IF job.auth = "keep" THEN service ELSE [service EXCEPT !.auth = job.auth]

(* What extract_stage stores: the validators have run over the operations   *)
(* when they were built.                                                    *)
Extract(service) ==
  /\ ir' = AuthOverride(ModelValidate(service)) /\ stage' = "enhance"
  /\ UNCHANGED <<job, failedAt, protocol, env, rt, smoke, audit>>

ExtractStage ==
  /\ stage = "extract" /\ protocol # "rest"
  /\ IF ExtractRaises(protocol, job.source) THEN Raise
     ELSE Extract(Extracted(protocol, job.source))
  /\ UNCHANGED <<crawlVars, enhanceVars>>

(* RESTExtractor.extract needs a URL; then it discovers.                    *)
ExtractRestWithoutUrl ==
  /\ stage = "extract" /\ protocol = "rest" /\ job.source.via # "url"
  /\ Raise
  /\ UNCHANGED <<crawlVars, enhanceVars>>

DiscoverStep ==
  /\ stage = "extract" /\ protocol = "rest" /\ job.source.via = "url"
  /\ StartCrawl \/ CrawlNext
  /\ UNCHANGED <<ownVars, enhanceVars>>

ExtractDiscovered ==
  /\ stage = "extract" /\ protocol = "rest" /\ crawl = "done"
  /\ IF Discovered(observed) = <<>> \/ ~Valid(RestExtract(observed)) THEN Raise
     ELSE Extract(RestExtract(observed))
  /\ UNCHANGED <<crawlVars, enhanceVars>>

(* enhance_stage without an LLM: the deterministic steps only.              *)
EnhancePassthrough ==
  /\ stage = "enhance" /\ ~job.enhance
  /\ ir' = PostEnhancement(ModelValidate(ir), {})
  /\ stage' = "validate_ir"
  /\ UNCHANGED <<job, failedAt, protocol, env, rt, smoke, audit, crawlVars, enhanceVars>>

EnhanceStart ==
  /\ stage = "enhance" /\ job.enhance /\ batches = <<>> /\ ir.ops # <<>>
  /\ StartEnhance(ir, OpIds(ir))
  /\ UNCHANGED <<ownVars, crawlVars>>

EnhanceBatch ==
  /\ stage = "enhance" /\ BatchStep
  /\ UNCHANGED <<ownVars, crawlVars>>

(* The groups an LLM can propose: none (grouping is off, or it failed), or  *)
(* one with a tool that is not there.                                       *)
Proposals == {{}, {OpIds(ir) \cup {<<"no_such_tool">>}}}

EnhanceEnd ==
  /\ stage = "enhance" /\ job.enhance /\ Gathered
  /\ batches # <<>> \/ ir.ops = <<>>
  /\ \/ ApplyRaises /\ Raise
     \/ /\ ~ApplyRaises
        /\ \E proposed \in Proposals :
             ir' = PostEnhancement(ApplyEnhancements(ir), proposed)
        /\ stage' = "validate_ir"
        /\ UNCHANGED <<job, failedAt, protocol, env, rt, smoke, audit>>
  /\ UNCHANGED <<crawlVars, enhanceVars>>

(* validate_ir_stage.                                                       *)
ValidateIR(tokenAnswer) ==
  /\ stage = "validate_ir"
  /\ tokenAnswer = "token" \/ OAuth2(ir.auth)
  /\ IF ~PreDeployPasses(ir, tokenAnswer) THEN Raise
     ELSE /\ stage' = "generate"
          /\ UNCHANGED <<job, failedAt, protocol, ir, env, rt, smoke, audit>>
  /\ UNCHANGED <<crawlVars, enhanceVars>>

Generate ==
  /\ stage = "generate"
  /\ env' = ManifestEnv(ModelValidate(ir)) /\ stage' = "deploy"
  /\ UNCHANGED <<job, failedAt, protocol, ir, rt, smoke, audit, crawlVars, enhanceVars>>

(* The pod starts and loads the service that the manifest mounts.           *)
Deploy ==
  /\ stage = "deploy"
  /\ rt' = BuildRuntimeState(ir, env) /\ stage' = "validate_runtime"
  /\ UNCHANGED <<job, failedAt, protocol, ir, env, smoke, audit, crawlVars, enhanceVars>>

(* validate_runtime_stage: without an operation to call it fails, and so it *)
(* does when the call does.                                                 *)
ValidateRuntime ==
  /\ stage = "validate_runtime"
  /\ HealthPasses(rt) /\ ListingPasses(rt, ir)
  /\ \E op \in SmokeChoices(rt, job.preferred, job.sampled) :
       \E connected \in BOOLEAN :
         /\ smoke' = op.id
         /\ IF SmokePasses(rt, op, connected)
            THEN stage' = "serving" /\ UNCHANGED failedAt
            ELSE stage' = "failed" /\ failedAt' = stage
  /\ UNCHANGED <<job, protocol, ir, env, rt, audit, crawlVars, enhanceVars>>

NothingToCall ==
  /\ stage = "validate_runtime"
  /\ \/ ~HealthPasses(rt) \/ ~ListingPasses(rt, ir)
     \/ SmokeChoices(rt, job.preferred, job.sampled) = {}
  /\ Raise
  /\ UNCHANGED <<crawlVars, enhanceVars>>

(* validate_with_audit, on demand, of a runtime that serves.                *)
AuditTools ==
  /\ stage = "serving" /\ audit = <<>>
  /\ \E connected \in BOOLEAN :
       audit' = Audit(rt, job.sampled, job.numeric, connected)
  /\ UNCHANGED <<job, stage, failedAt, protocol, ir, env, rt, smoke, crawlVars,
                 enhanceVars>>

Next ==
  \/ DetectStage \/ ExtractStage \/ ExtractRestWithoutUrl
  \/ DiscoverStep \/ ExtractDiscovered
  \/ EnhancePassthrough \/ EnhanceStart \/ EnhanceBatch \/ EnhanceEnd
  \/ \E answer \in TokenAnswers : ValidateIR(answer)
  \/ Generate \/ Deploy \/ ValidateRuntime \/ NothingToCall \/ AuditTools

Spec == Init /\ [][Next]_vars
-----------------------------------------------------------------------------
(* What an extractor may go by although the content is not its own: a word  *)
(* in the text, the name of the file or URL, or the answer to a probe.      *)
Misled(p, s) ==
  CASE p = "openapi" -> s.shape \in Prose /\ s.words \cap {"openapi", "paths"} # {}
    [] p = "graphql" -> IsUrl(s, "graphql")
    [] p = "grpc" -> "rpc" \in s.words
    [] p = "soap" -> "wsdl" \in s.words
    [] p = "odata" -> s.name = "$metadata" \/ s.live = "$metadata" \/ "edmx" \in s.words
    [] p = "scim" -> IsUrl(s, "scim") \/ "scim" \in s.words
    [] p = "jsonrpc" -> s.live = "rpc_error"
    [] p = "asyncapi" -> s.name = ".asyncapi.yaml"
    [] p = "cli" -> s.name = ".cli.yaml" \/ ".cli.yaml" \in s.words
    [] OTHER -> FALSE

(* TypeDetector ranks eleven extractors that do not know of each other.     *)
(* With no forced protocol, extraction fails only when the chosen extractor *)
(* went by such a mark and not by the content, or when the document         *)
(* contradicts itself (two operations of one id, no gRPC method that can be *)
(* called).  And a document that some extractor is as sure of as the        *)
(* content can make it (95 percent) and could have read is lost to a mark   *)
(* in two ways only: its path ends in $metadata, or its text mentions       *)
(* OpenAPI.                                                                 *)
DetectedExtracts ==
  failedAt = "extract" /\ job.forced = "none" /\ protocol # "rest" =>
    /\ Misled(protocol, job.source) \/ Accepts(protocol, job.source)
    /\ \A p \in ToSet(Extractors) :
         Confidence(job.source)[p] >= 95 /\ ~ExtractRaises(p, job.source) =>
           \/ protocol = "odata" /\ job.source.name = "$metadata"
           \/ protocol = "openapi" /\ "openapi" \in job.source.words

(* Whatever discovery saw a path answer to stays callable: merging paths    *)
(* into templates and coalescing siblings loses no method of any path.      *)
MethodsReachable ==
  protocol = "rest" /\ ir.ops # <<>> =>
    \A p \in DOMAIN observed : \A m \in observed[p].methods :
      \E op \in ToSet(ir.ops) : op.method = m /\ Covers(op.at, p)

MaxTokens == CHOOSE t \in CallTokens : \A u \in CallTokens : u <= t

(* The cost of the enhancer's batches stays within the budget up to what    *)
(* the calls in flight when it is reached cost: the budget is read after    *)
(* the semaphore.  (Tool grouping and examples have no budget.)             *)
BudgetBounded == usage <= TokenBudget - 1 + Concurrency * MaxTokens

HasCallback(op) ==
  \E e \in ir.events : e.op = op.id /\ e.transport = "callback"

(* A runtime that passed its validation can dispatch every tool it lists,   *)
(* not only the one that was tried: validator, manifest flags and runtime   *)
(* agree on what the service needs.  An OpenAPI operation with a callback   *)
(* is the exception: its unsupported descriptor makes the proxy refuse it.  *)
ListedToolsCallable ==
  stage = "serving" =>
    \A id \in rt.tools : HasCallback(OpOf(rt.ir, id)) \/ Reaches(rt, OpOf(rt.ir, id))

(* The item of the source that an operation was made of.                    *)
MakesTool(item) ==
  CASE protocol = "graphql" -> item.kind # "subscription"
    [] protocol = "grpc" -> item.kind = "unary" \/ NativeStream(job.source, item)
    [] OTHER -> TRUE

ItemOf(id) ==
  CHOOSE i \in ToSet(job.source.items) : i.name = Last(id) /\ MakesTool(i)

(* What the source itself says about an operation: its HTTP method, the SQL *)
(* statement, the GraphQL root or the name.                                 *)
ReadsBySource(op) ==
  CASE protocol \in {"openapi", "odata", "scim", "rest"} ->
         op.method \in {"GET", "HEAD", "OPTIONS"}
    [] protocol = "sql" -> op.id[1] = "query"
    [] protocol = "graphql" -> ItemOf(op.id).kind = "query"
    [] protocol = "cli" /\ ItemOf(op.id).kind # "named" ->
         ItemOf(op.id).kind # "writes"
    [] OTHER -> ItemOf(op.id).verb = "get"

(* The smoke test and the audit, which call a real upstream, never write to *)
(* it unless the user chose the tool.  That the audit reports a tool as     *)
(* skipped does not mean that it was not called: but only a tool whose path *)
(* parameters are numbers can have been.                                    *)
SmokeHarmless ==
  /\ smoke # NoOp /\ smoke # job.preferred => ReadsBySource(OpOf(ir, smoke))
  /\ \A id \in DOMAIN audit :
       /\ audit[id].called => ReadsBySource(OpOf(rt.ir, id))
       /\ audit[id].called /\ audit[id].outcome = "skipped" =>
            id \in job.numeric /\ OpOf(rt.ir, id).open

HttpTools == {op \in ToSet(rt.ir.ops) : op.id \in rt.tools /\ Adapter(rt.ir, op) = "http"}

Places(request, n) == {place \in {"path", "query", "body"} : n \in request[place]}

(* The arguments that an upstream can fail to see: an empty list, which has *)
(* no element, position or pair in a query; by name, those that a payload   *)
(* object replaces, and an empty payload beside others.                     *)
Vanishes(op, sig, args, n) ==
  \/ args[n] = "empty_list"
  \/ /\ op.contract = "jsonrpc" /\ ~sig.positional /\ "payload" \in DOMAIN args
     /\ args["payload"] = IF n = "payload" THEN "empty" ELSE "clash"

HasPosition(n, args) ==
  n \in DOMAIN args /\ (n = "payload" => args[n] \notin {"list", "empty_list"})

(* However a call of a served tool is put together, every argument reaches  *)
(* the upstream exactly once, in the path, the query or the body, but for   *)
(* the ones of Vanishes, for an API key that the runtime sets itself and    *)
(* for the fields of an empty upload; the request signature covers just     *)
(* what is sent, and the empty lists of the query; an argument by position  *)
(* has its own if it and all before it are given and the payload is not a   *)
(* list among them; and the sample of every tool that the smoke test may    *)
(* pick can be sent, unless a method that reads has a raw body, whose       *)
(* sample has no content.                                                   *)
ArgumentsSentOnce ==
  stage = "serving" =>
    \A op \in HttpTools : \A sig \in Signatures(protocol, op) :
      /\ \A args \in Calls(protocol, op, sig) : \A auth \in {"header", "api_key_query"} :
           LET request == Request(protocol, op, sig, args, auth)
           IN  request.sent =>
                 /\ \A n \in DOMAIN args :
                      \/ n \in request.secrets \/ Cardinality(Places(request, n)) = 1
                      \/ Places(request, n) = {} /\ Vanishes(op, sig, args, n)
                 /\ request.query \cup request.secrets \subseteq request.signed.query
                 /\ \A n \in request.signed.query \ (request.query \cup request.secrets) :
                      args[n] = "empty_list"
                 /\ request.signed.body = request.body
                 /\ request.encoding = "none" =>
                      \A n \in request.body : args[n] = "empty"
                 /\ sig.positional =>
                      \A k \in DOMAIN sig.names :
                        (\A j \in 1 .. k : HasPosition(sig.names[j], args)) =>
                          k \in DOMAIN request.order /\ request.order[k] = sig.names[k]
      /\ SafeCandidate(op, job.sampled) /\ op.body # "raw" =>
           Request(protocol, op, sig, SampleArguments(op, sig), "header").sent

(* An upstream that reports an error in the way of its protocol is never    *)
(* taken for one that succeeded, whatever status the error comes with, and  *)
(* one that succeeds is not taken for one that failed.  This is for answers *)
(* of the protocol's content type; of the others at least SOAP and GraphQL, *)
(* which must be unwrapped, let no error pass.                              *)
AnswersTruthful ==
  stage = "serving" =>
    \A op \in HttpTools : \A r \in Responses :
      LET enveloped == op.contract \in {"soap", "graphql", "jsonrpc"}
                         \/ protocol \in {"odata", "scim"}
          ok == Outcome(protocol, op, r) = "ok"
      IN  /\ ~r.success => ~ok
          /\ r.success /\ r.type = "readable" /\ r.body = "data" => ok
          /\ r.body \in {"error", "malformed"} /\ enveloped /\ ok => r.type # "readable"
          /\ op.contract \in {"soap", "graphql"} /\ ok =>
               r.body \in {"data", "both"}

(* Everything that the prompts and groups of a served service name is a     *)
(* tool the runtime lists, and no tool of unknown risk is listed: what the  *)
(* validators disable late is not referred to by what was derived earlier.  *)
ReferencesListed ==
  stage = "serving" =>
    /\ \A p \in rt.ir.prompts : p.tools \subseteq rt.tools
    /\ \A g \in rt.ir.groups : g \subseteq rt.tools
    /\ \A id \in rt.tools : OpOf(rt.ir, id).level # "unknown"
=============================================================================
