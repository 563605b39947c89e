------------------------------ MODULE Extraction ------------------------------
(***************************************************************************)
(* The extractors (libs/extractors): how sure each of them is of a source, *)
(* and the service that the chosen one makes of it.                        *)
(*                                                                         *)
(* A source is a record: shape, the form of its content; words, the marks *)
(* of other formats that its text contains; via, whether the content is    *)
(* given inline, as a file or by URL; name, what the path or URL contains  *)
(* or ends in; live, what the endpoint answers to a probe; items, what the *)
(* document declares; opt, the hint about gRPC streams; and auth.          *)
(* An item has a name, a verb (its HTTP method, or what the prefix of its  *)
(* name says) and a kind.  Confidences are percentages.                    *)
(***************************************************************************)
EXTENDS IR

(* get_content: an inline text, a file, or the answer to a GET, which a     *)
(* database or a gRPC endpoint does not give.                               *)
GetContent(s) == ~(s.via = "url" /\ s.shape \in {"database", "reflection"})
Has(s, shape) == GetContent(s) /\ s.shape = shape
Mentions(s, word) == GetContent(s) /\ word \in s.words
IsUrl(s, name) == s.via = "url" /\ s.name = name

(* The texts that are neither JSON nor YAML, which YAML can read as one     *)
(* string: then the words in it pass for the keys of a spec.                *)
Prose == {"html", "proto", "bare_proto", "wsdl", "edmx"}

OpenAPIDetect(s) ==
  CASE Has(s, "openapi") \/ Has(s, "swagger") -> 95
    [] s.shape \in Prose /\ Mentions(s, "openapi") -> 95
    [] Has(s, "paths") -> 60
    [] s.shape \in Prose /\ ~Mentions(s, "openapi") /\ Mentions(s, "paths") -> 60
    [] OTHER -> 0

GraphQLDetect(s) ==
  CASE s.via # "url" /\ s.shape = "introspection" -> 95
    [] IsUrl(s, "graphql") -> 40
    [] OTHER -> 0

(* A proto without its syntax line is known by the same two words as a page *)
(* about services and rpc.                                                  *)
GrpcDetect(s) ==
  CASE s.shape = "reflection" /\ ~GetContent(s) -> 70
    [] Has(s, "proto") -> IF s.via = "file" /\ s.name = ".proto" THEN 98 ELSE 95
    [] ~Has(s, "proto") /\ (Has(s, "bare_proto") \/ Mentions(s, "rpc")) -> 60
    [] OTHER -> 0

SoapDetect(s) ==
  IF Has(s, "wsdl") THEN IF s.name = ".wsdl" THEN 98 ELSE 95
  ELSE IF Mentions(s, "wsdl") THEN 70 ELSE 0

ODataDetect(s) ==
  IF s.name = "$metadata" THEN 95
  ELSE IF Has(s, "edmx") \/ Mentions(s, "edmx") THEN 90
  ELSE IF s.live = "$metadata" THEN 85 ELSE 0

ScimDetect(s) ==
  IF IsUrl(s, "scim") THEN 85
  ELSE IF Has(s, "scim") \/ Mentions(s, "scim") THEN 90 ELSE 0

JsonRpcDetect(s) ==
  IF Has(s, "openrpc") THEN 95
  ELSE IF Has(s, "rpc_service") THEN 90
  ELSE IF Has(s, "methods") THEN 70
  ELSE IF s.live = "methods" THEN 85
  ELSE IF s.live = "rpc_error" THEN 60 ELSE 0

(* An extension decides before the content is read.                         *)
AsyncAPIDetect(s) ==
  IF s.via # "inline" /\ s.name = ".asyncapi.yaml" THEN 88
  ELSE IF Has(s, "asyncapi") THEN 92 ELSE 0

SqlDetect(s) == IF s.shape = "database" THEN 95 ELSE 0

CliDetect(s) ==
  IF \/ s.via = "file" /\ s.name = ".cli.yaml"
     \/ s.via = "inline" /\ Mentions(s, ".cli.yaml") THEN 90
  ELSE IF Has(s, "commands") THEN 85 ELSE 0

RestDetect(s) ==
  IF s.via # "url" \/ s.shape \in {"database", "reflection"} THEN 0
  ELSE IF s.name \in {"graphql", "swagger"} THEN 10 ELSE 55

(* _build_extractors: the order in which they are asked.                    *)
Extractors == <<"openapi", "graphql", "grpc", "soap", "odata", "scim",
                "jsonrpc", "asyncapi", "sql", "cli", "rest">>

Confidence(s) ==
  [openapi |-> OpenAPIDetect(s), graphql |-> GraphQLDetect(s),
   grpc |-> GrpcDetect(s), soap |-> SoapDetect(s), odata |-> ODataDetect(s),
   scim |-> ScimDetect(s), jsonrpc |-> JsonRpcDetect(s),
   asyncapi |-> AsyncAPIDetect(s), sql |-> SqlDetect(s), cli |-> CliDetect(s),
   rest |-> RestDetect(s)]

(* Mutant: the first extractor that is sure enough is taken.                *)
Detect_FirstSure(s) ==
  LET c == Confidence(s)
      sure == {i \in DOMAIN Extractors : c[Extractors[i]] >= 50}
  IN  IF sure = {} THEN "none"
      ELSE Extractors[CHOOSE i \in sure : \A j \in sure : i <= j]

(* TypeDetector.detect: the most confident, the first of them on a tie.     *)
Detect(s) ==
  LET c == Confidence(s)
      best == {i \in DOMAIN Extractors :
                 \A j \in DOMAIN Extractors : c[Extractors[j]] <= c[Extractors[i]]}
      first == CHOOSE i \in best : \A j \in best : i <= j
  IN  IF c[Extractors[first]] = 0 THEN "none" ELSE Extractors[first]
-----------------------------------------------------------------------------
(* Risks by what the prefix of a name says, a table for each of gRPC, SOAP, *)
(* JSON-RPC and CLI, and by HTTP method.                                    *)
NameRisk(verb) ==
  CASE verb = "get" -> "safe" [] verb = "delete" -> "dangerous"
    [] OTHER -> "cautious"

RpcRisk(verb) == NameRisk(verb)
SoapRisk(verb) == NameRisk(verb)
JsonRpcRisk(verb) == NameRisk(verb)

MethodRisk(method) ==
  CASE method \in {"GET", "HEAD", "OPTIONS"} -> "safe"
    [] method \in {"POST", "PUT", "PATCH"} -> "cautious"
    [] method = "DELETE" -> "dangerous"
    [] OTHER -> "unknown"

(* _extract_params, _extract_request_body_params: the body's mode is that   *)
(* of the first content type the extractor knows.                           *)
OpenAPIBody(item) ==
  IF item.kind \in {"multipart", "raw"} THEN item.kind ELSE "json"

OpenAPIOperation(item) ==
  [Operation(<<"openapi", item.name>>, item.verb, "http", MethodRisk(item.verb))
     EXCEPT !.open = item.kind = "path", !.body = OpenAPIBody(item)]

(* An operation with a callback keeps it as an unsupported descriptor that  *)
(* names the operation; a webhook is one without an operation.              *)
OpenAPIEvents(items) ==
  {Event(<<i.name, "callback">>, "callback", "unsupported",
         <<"openapi", i.name>>, "none") :
     i \in {i \in items : i.kind = "callback"}}
  \cup
  {Event(<<i.name>>, "webhook", "unsupported", NoOp, "none") :
     i \in {i \in items : i.kind = "webhook"}}

OpenAPIAuth(s) == s.auth

OpenAPIExtract(s) ==
  Service(Each(s.items, LAMBDA i : IF i.kind = "webhook" THEN <<>>
                                   ELSE <<OpenAPIOperation(i)>>),
          OpenAPIEvents(ToSet(s.items)), OpenAPIAuth(s))

(* One id for a query and a mutation of one name.                           *)
GraphQLOperation(item) ==
  Operation(<<item.name>>, "POST", "graphql",
            IF item.kind = "query" THEN "safe" ELSE "cautious")

GraphQLSubscription(item) ==
  Event(<<item.name>>, "graphql_subscription", "unsupported", NoOp, "none")

GraphQLExtract(s) ==
  Service(Each(s.items, LAMBDA i : IF i.kind = "subscription" THEN <<>>
                                   ELSE <<GraphQLOperation(i)>>),
          {GraphQLSubscription(i) : i \in {i \in ToSet(s.items) : i.kind = "subscription"}},
          IF s.auth = "none" THEN "none" ELSE "bearer")

(* A server stream is native unless opted out, a client stream when opted   *)
(* in, a bidirectional one never.                                           *)
NativeStream(s, item) ==
  \/ item.kind = "server" /\ s.opt # "no_streams"
  \/ item.kind = "client" /\ s.opt = "client_streams"

GrpcOperation(item) ==
  Operation(<<item.name>>, "POST",
            IF item.kind = "unary" THEN "grpc_unary" ELSE "http",
            RpcRisk(item.verb))

GrpcEvent(s, item) ==
  Event(<<item.name>>, "grpc_stream",
        IF NativeStream(s, item) THEN "supported" ELSE "unsupported",
        IF NativeStream(s, item) THEN <<item.name>> ELSE NoOp, item.kind)

GrpcExtract(s) ==
  Service(Each(s.items, LAMBDA i : IF i.kind = "unary" \/ NativeStream(s, i)
                                   THEN <<GrpcOperation(i)>> ELSE <<>>),
          {GrpcEvent(s, i) : i \in {i \in ToSet(s.items) : i.kind # "unary"}},
          "none")

SoapOperation(item) ==
  Operation(<<item.name>>, "POST", "soap", SoapRisk(item.verb))

SoapExtract(s) ==
  Service(Each(s.items, LAMBDA i : <<SoapOperation(i)>>), {}, "none")

(* The five operations of an entity set, whose name is lowered; those on    *)
(* one entity have its key in the path.  A function import is a GET, an     *)
(* action import a POST.                                                    *)
EntityOperation(verb, name, method) ==
  [Operation(<<verb, name>>, method, "http", MethodRisk(method))
     EXCEPT !.open = verb \notin {"list", "create"}]

EntityReads(name) ==
  <<EntityOperation("list", name, "GET"), EntityOperation("get_by_key", name, "GET")>>

EntityWrites(name) ==
  <<EntityOperation("create", name, "POST"), EntityOperation("update", name, "PATCH"),
    EntityOperation("delete", name, "DELETE")>>

EntitySetOperations(name) == EntityReads(name) \o EntityWrites(name)

ImportOperation(item) ==
  LET method == IF item.kind = "function" THEN "GET" ELSE "POST"
  IN  Operation(<<item.kind, item.name>>, method, "http", MethodRisk(method))

ODataExtract(s) ==
  Service(Each(s.items, LAMBDA i : IF i.kind = "set" THEN EntitySetOperations(i.name)
                                   ELSE <<ImportOperation(i)>>), {}, "none")

(* A resource type has CRUD operations, with PATCH when the provider says   *)
(* that it supports it (kind "patch").                                      *)
ScimResourceOperations(item) ==
  LET Op(verb, method) ==
        [Operation(<<verb, item.name>>, method, "http", MethodRisk(method))
           EXCEPT !.open = verb \notin {"list", "create"}]
  IN  <<Op("list", "GET"), Op("get", "GET"), Op("create", "POST"),
        Op("update", "PUT")>>
      \o (IF item.kind = "patch" THEN <<Op("patch", "PATCH")>> ELSE <<>>)
      \o <<Op("delete", "DELETE")>>

(* changePassword and bulk of the service provider's configuration.         *)
ScimGlobalOperation(item) ==
  IF item.kind = "bulk"
  THEN [Operation(<<"bulk_operation">>, "POST", "http", "dangerous")
          EXCEPT !.destructive = FALSE]
  ELSE Operation(<<"change_password">>, "POST", "http", "cautious")

ScimExtract(s) ==
  Service(Each(s.items, LAMBDA i : IF i.kind \in {"bulk", "password"}
                                   THEN <<ScimGlobalOperation(i)>>
                                   ELSE ScimResourceOperations(i)), {}, "none")

(* The dots of a method name become underscores.                            *)
JsonRpcOperation(item) ==
  Operation(<<item.name>>, "POST", "jsonrpc", JsonRpcRisk(item.verb))

JsonRpcExtract(s) ==
  Service(Each(s.items, LAMBDA i : <<JsonRpcOperation(i)>>), {}, "none")

(* Channels: subscribe is observed, publish is sent; both, and two          *)
(* operations.  The descriptor is planned and names no operation.           *)
ObserveOperation(item) ==
  Operation(<<"observe", item.name>>, "none", "none", "safe")

PublishOperation(item) ==
  Operation(<<"publish", item.name>>, "none", "none", "cautious")

V2ChannelOperations(item) ==
  (IF item.kind = "publish" THEN <<>> ELSE <<ObserveOperation(item)>>)
  \o (IF item.kind = "subscribe" THEN <<>> ELSE <<PublishOperation(item)>>)

(* AsyncAPI 3: operations of their own that receive from or send to a       *)
(* channel.                                                                 *)
V3Operations(item) ==
  IF item.kind = "receive" THEN <<ObserveOperation(item)>>
  ELSE <<PublishOperation(item)>>

ChannelOperations(item) ==
  IF item.kind \in {"receive", "send"} THEN V3Operations(item)
  ELSE V2ChannelOperations(item)

AsyncAPIEvent(item) ==
  Event(<<"event", item.name>>, "kafka", "planned", NoOp, "none")

AsyncAPIExtract(s) ==
  Service(Each(s.items, ChannelOperations),
          {AsyncAPIEvent(i) : i \in ToSet(s.items)}, "none")

(* A view is only queried; update and delete need a primary key.            *)
QueryOperation(item) == Operation(<<"query", item.name>>, "GET", "sql", "safe")
InsertOperation(item) == Operation(<<"insert", item.name>>, "POST", "sql", "cautious")
UpdateOperation(item) == Operation(<<"update", item.name>>, "POST", "sql", "cautious")
DeleteOperation(item) == Operation(<<"delete", item.name>>, "POST", "sql", "dangerous")

RelationOperations(item) ==
  <<QueryOperation(item)>>
  \o (IF item.kind = "view" THEN <<>> ELSE <<InsertOperation(item)>>)
  \o (IF item.kind # "keyed" THEN <<>>
      ELSE <<UpdateOperation(item), DeleteOperation(item)>>)

SqlExtract(s) ==
  Service(Each(s.items, RelationOperations), {}, "none")

(* A command may declare its risk; otherwise its name tells.  The declared  *)
(* level is unknown when it is none of the levels, and a command that       *)
(* declares a risk writes only if it says so (kind "writes").               *)
CommandRisk(item) ==
  IF item.kind = "named" THEN NameRisk(item.verb)
  ELSE IF item.verb \in Levels THEN item.verb ELSE "unknown"

CommandOperation(item) ==
  LET op == Operation(<<item.name>>, "none", "cli", CommandRisk(item))
  IN  IF item.kind = "named" THEN op
      ELSE [op EXCEPT !.writes = item.kind = "writes", !.destructive = FALSE]

CliExtract(s) ==
  Service(Each(s.items, LAMBDA i : <<CommandOperation(i)>>), {}, "none")
-----------------------------------------------------------------------------
(* The content that an extractor asked to extract can make something of;    *)
(* for anything else it raises.                                             *)
Accepts(p, s) ==
  CASE p = "openapi" -> s.shape \in {"openapi", "swagger", "paths"}
    [] p = "graphql" -> s.shape = "introspection"
    [] p = "grpc" -> s.shape \in {"proto", "bare_proto", "reflection"}
    [] p = "soap" -> s.shape = "wsdl"
    [] p = "odata" -> s.shape = "edmx"
    [] p = "scim" -> s.shape = "scim"
    [] p = "jsonrpc" -> s.shape \in {"openrpc", "rpc_service", "methods"}
                           \/ s.live = "methods"
    [] p = "asyncapi" -> s.shape = "asyncapi"
    [] p = "sql" -> s.shape = "database"
    [] p = "cli" -> s.shape = "commands"
    [] OTHER -> FALSE

Extracted(p, s) ==
  CASE p = "openapi" -> OpenAPIExtract(s) [] p = "graphql" -> GraphQLExtract(s)
    [] p = "grpc" -> GrpcExtract(s) [] p = "soap" -> SoapExtract(s)
    [] p = "odata" -> ODataExtract(s) [] p = "scim" -> ScimExtract(s)
    [] p = "jsonrpc" -> JsonRpcExtract(s) [] p = "asyncapi" -> AsyncAPIExtract(s)
    [] p = "sql" -> SqlExtract(s) [] OTHER -> CliExtract(s)

(* extract raises: the content is not the extractor's, the service breaks a *)
(* validator, or (gRPC) nothing callable is left.                           *)
ExtractRaises(p, s) ==
  \/ ~Accepts(p, s)
  \/ ~Valid(Extracted(p, s))
  \/ p = "grpc" /\ Extracted(p, s).ops = <<>>
=============================================================================
