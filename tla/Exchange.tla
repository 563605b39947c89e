------------------------------ MODULE Exchange ------------------------------
(***************************************************************************)
(* One HTTP exchange of a tool call (apps/mcp_runtime/proxy_http.py,       *)
(* proxy_utils.py and the helpers of each protocol): where the arguments   *)
(* go in the request, what is signed, and what becomes of the answer.      *)
(*                                                                         *)
(* A signature is what the operation declares: path, its path parameters;  *)
(* body, its body_param_name; objects, its parameters of type object or    *)
(* array; dollar, the system query options of OData; names, the sequence   *)
(* params_names or variable_names; positional, for JSON-RPC.  A call gives *)
(* args, from the names of the arguments that are not None to what kind of *)
(* value each has: scalar; list; empty_list; or an object, which may be a  *)
(* form (form fields and no files), empty, garbled (fields that a body     *)
(* builder refuses) or a clash (its keys are the names of other            *)
(* arguments).                                                             *)
(***************************************************************************)
EXTENDS IR

CONSTANT ParamLists       \* what the methods of GraphQL and JSON-RPC declare

(* A document's order of its parameters is kept, wherever payload is among  *)
(* them; id is the name that the signatures give to a path parameter.       *)
ASSUME ParamListsAssumption == ParamLists \subseteq Seq(STRING \ {"id"})

(* The operations with a list of names: _method_to_operation of JSON-RPC,   *)
(* whose fallback declares a token and a payload, and likewise GraphQL.     *)
NameLists(op) == IF op.contract \in {"graphql", "jsonrpc"} THEN ParamLists ELSE {<<>>}

(* An OpenAPI upload is one payload (its JSON bodies are flattened), and so *)
(* is the optional body of a discovered REST write.                         *)
HasPayload(protocol, op) ==
  op.body # "json" \/ (protocol = "rest" /\ op.method \in {"POST", "PUT", "PATCH"})

(* The system query options of an OData read, without their $.              *)
SystemOptions(protocol) == IF protocol = "odata" THEN {"filter"} ELSE {}

(* params_type: a JSON-RPC method takes its parameters by position or name. *)
Styles(op) == IF op.contract = "jsonrpc" THEN BOOLEAN ELSE {FALSE}

SignatureOf(protocol, op, names, positional) ==
  [path |-> IF op.open THEN {"id"} ELSE {},
   body |-> IF HasPayload(protocol, op) THEN "payload" ELSE "none",
   objects |-> IF HasPayload(protocol, op) THEN {"payload"} ELSE {},
   dollar |-> SystemOptions(protocol), names |-> names, positional |-> positional]

Signatures(protocol, op) ==
  {SignatureOf(protocol, op, names, positional) :
     names \in NameLists(op), positional \in Styles(op)}

(* Beside these q stands for a query parameter, f for a field of a          *)
(* flattened body, and api_key for a parameter that an API key is sent in.  *)
Declared(protocol, op, sig) ==
  IF op.contract \in {"graphql", "jsonrpc"} THEN sig.path \cup ToSet(sig.names)
  ELSE sig.path \cup sig.dollar \cup ({sig.body} \ {"none"})
         \cup (IF op.contract = "http" THEN {"q", "f", "api_key"} ELSE {"q", "f"})

Kinds == {"scalar", "list", "empty_list", "object", "form", "empty", "garbled", "clash"}

(* The calls a client can make: any of the declared arguments, of which the *)
(* payload or a field can be more than a scalar.                            *)
Calls(protocol, op, sig) ==
  {[n \in given |-> IF n = varied THEN kind ELSE "scalar"] :
     given \in SUBSET Declared(protocol, op, sig), varied \in {"payload", "f"},
     kind \in Kinds}

(* _sample_arguments_for_operation: the path parameters and what else is    *)
(* required, which is the payload of an upload: an object with a name, in   *)
(* which a builder finds neither form nor files nor content.                *)
SampleArguments(op, sig) ==
  [n \in sig.path \cup (IF op.body = "json" THEN {} ELSE {sig.body}) |->
     IF n # "payload" THEN "scalar"
     ELSE IF op.body = "multipart" THEN "empty" ELSE "garbled"]

WriteMethods == {"POST", "PUT", "PATCH"}
BodyNames == {"body", "payload", "data"}

(* PreparedRequestPayload: the arguments in the query, those the body       *)
(* carries, how the body is encoded, and the arguments that are signed.     *)
Payload(query, body, encoding) ==
  [ok |-> TRUE, query |-> query, body |-> body, encoding |-> encoding,
   signed |-> body, order |-> <<>>]
ToolError == [ok |-> FALSE, query |-> {}, body |-> {}, encoding |-> "none",
              signed |-> {}, order |-> <<>>]

(* resolve_url: every path parameter needs a value.                         *)
UrlResolves(sig, args) == sig.path \subseteq DOMAIN args

(* Mutant: the body argument stays in the query as well.                    *)
SplitQueryAndBody_KeepsBody(method, sig, args, remaining) ==
  IF method \notin WriteMethods THEN Payload(remaining, {}, "none")
  ELSE IF sig.body \in remaining THEN Payload(remaining, {sig.body}, "json")
  ELSE Payload({}, remaining, "json")

(* split_query_and_body: the body parameter alone when it is given, else    *)
(* all arguments as one object; no write, no body.  (A single object-like   *)
(* argument is the body, rather than a field of it.)                        *)
SplitQueryAndBody(method, sig, args, remaining) ==
  IF remaining = {} \/ method \notin WriteMethods
  THEN Payload(remaining, {}, "none")
  ELSE IF sig.body \in remaining
       THEN Payload(remaining \ {sig.body}, {sig.body}, "json")
       ELSE Payload({}, remaining, "json")

(* select_body_argument_name, for the modes that need one argument: none of *)
(* these, or more than one, is an error.                                    *)
BodyArguments(sig, remaining) ==
  LET objects == remaining \cap sig.objects
  IN  IF sig.body # "none" THEN {sig.body} \cap remaining
      ELSE IF BodyNames \cap remaining # {}
           THEN {CHOOSE n \in BodyNames \cap remaining : TRUE}
      ELSE IF Cardinality(objects) = 1 THEN objects
      ELSE IF Cardinality(remaining) = 1 THEN remaining ELSE {}

(* _build_multipart_request_body takes an object of form and files;         *)
(* _build_raw_request_body a string or an object with its content.          *)
MultipartBuilds(kind) == kind \in {"object", "form", "empty"}
RawBuilds(kind) == kind \in {"scalar", "object"}

(* build_request_kwargs: the one part that was prepared is sent.  Without   *)
(* files the form goes out url-encoded, and an empty one not at all.        *)
Encoding(mode, kind) ==
  CASE mode = "multipart" /\ kind = "form" -> "form"
    [] mode = "multipart" /\ kind = "empty" -> "none"
    [] OTHER -> mode

(* Multipart and raw bodies: one argument is the body, the others go to the *)
(* query.                                                                   *)
PrepareBody(mode, sig, args, remaining) ==
  LET chosen == BodyArguments(sig, remaining)
      Builds(n) == IF mode = "multipart" THEN MultipartBuilds(args[n])
                   ELSE RawBuilds(args[n])
  IN  IF chosen = {} \/ ~(\A n \in chosen : Builds(n)) THEN ToolError
      ELSE Payload(remaining \ chosen, chosen,
                   Encoding(mode, args[CHOOSE n \in chosen : TRUE]))

(* prepare_odata_payload: the options lose their $ in the tool's signature  *)
(* and get it back here; the rest is split as above.                        *)
PrepareOData(method, sig, args, remaining) ==
  LET rest == SplitQueryAndBody(method, sig, args, remaining \ sig.dollar)
  IN  [rest EXCEPT !.query = @ \cup (remaining \cap sig.dollar)]

(* prepare_jsonrpc_payload by position: the items of a payload that is a   *)
(* list have a position each (two stand for any number), everything else    *)
(* that is given has one.                                                   *)
Positions(n, kind) ==
  IF n = "payload" /\ kind = "empty_list" THEN <<>>
  ELSE IF n = "payload" /\ kind = "list" THEN <<n, n>> ELSE <<n>>

(* By name: a payload that is an object is merged into the others, whose    *)
(* values its keys replace; any other is a member of its own.               *)
Merged(others, args, remaining) ==
  IF "payload" \notin remaining \/ args["payload"] = "empty" THEN others
  ELSE IF args["payload"] = "clash" THEN {"payload"} ELSE others \cup {"payload"}

(* By position, an argument that is left out moves the later ones forward.  *)
PrepareJsonRpc(sig, args, remaining) ==
  LET listed == Each(sig.names, LAMBDA n : IF n \in remaining THEN Positions(n, args[n])
                                           ELSE <<>>)
      named == Merged((ToSet(sig.names) \cap remaining) \ {"payload"}, args, remaining)
  IN  IF sig.positional
      THEN [Payload({}, ToSet(listed), "json") EXCEPT !.order = listed]
      ELSE Payload({}, IF named = {} THEN remaining ELSE named, "json")

(* prepare_graphql_payload: the declared variables that are given.          *)
PrepareGraphQL(sig, remaining) ==
  Payload({}, IF sig.names = <<>> THEN remaining
              ELSE ToSet(sig.names) \cap remaining, "json")

(* prepare_soap_payload: every argument is an element of the envelope, a    *)
(* list one for each item.                                                  *)
PrepareSoap(args, remaining) ==
  Payload({}, {n \in remaining : args[n] # "empty_list"}, "xml")

(* prepare_request_payload.                                                 *)
Prepare(protocol, op, sig, args) ==
  LET remaining == DOMAIN args \ sig.path
  IN  IF op.contract = "soap" THEN PrepareSoap(args, remaining)
      ELSE IF op.contract = "graphql" THEN PrepareGraphQL(sig, remaining)
      ELSE IF op.contract = "jsonrpc" THEN PrepareJsonRpc(sig, args, remaining)
      ELSE IF protocol = "odata" THEN PrepareOData(op.method, sig, args, remaining)
      ELSE IF remaining = {} THEN Payload({}, {}, "none")
      ELSE IF op.body \in {"multipart", "raw"}
           THEN PrepareBody(op.body, sig, args, remaining)
      ELSE SplitQueryAndBody(op.method, sig, args, remaining)

(* build_primary_auth puts the secret into a header, or an API key into the *)
(* query, where it replaces an argument of its name; a secret that cannot   *)
(* be resolved is a ToolError.                                              *)
AuthQuery(auth) == IF auth = "api_key_query" THEN {"api_key"} ELSE {}
AuthBuilds(auth) == auth # "unresolved"

(* build_request_signing covers the query that it is given and              *)
(* signable_body; build_auth gives it the query with the key in it.         *)
Signature(query, body) == [query |-> query, body |-> body]
BuildAuth(payload, auth) ==
  Signature(payload.query \cup AuthQuery(auth), payload.signed)

(* perform_request up to send_request.  The HTTP client repeats a list in   *)
(* the query, so that an empty one leaves nothing there.                    *)
Request(protocol, op, sig, args, auth) ==
  LET payload == Prepare(protocol, op, sig, args)
  IN  [sent |-> /\ op.method # "none" /\ UrlResolves(sig, args)
                /\ payload.ok /\ AuthBuilds(auth),
       path |-> sig.path,
       query |-> {n \in payload.query : args[n] # "empty_list"} \ AuthQuery(auth),
       secrets |-> AuthQuery(auth),
       body |-> payload.body, encoding |-> payload.encoding,
       order |-> payload.order, signed |-> BuildAuth(payload, auth)]
-----------------------------------------------------------------------------
(* An answer is [success, type, body]: its status class; whether its        *)
(* content type is that of the protocol (readable: JSON, or XML for SOAP),  *)
(* of text or binary; and what its body is: data, the protocol's error      *)
(* envelope, a malformed one (an error that is not of the right shape),     *)
(* both (data beside errors, or beside a null error) or other (a page, a    *)
(* broken document).                                                        *)
Responses == [success : BOOLEAN, type : {"readable", "text", "binary"},
             body : {"data", "error", "malformed", "both", "other"}]

(* _parse_response_payload: a readable body is an object, and so is the     *)
(* description of a binary one, without any of the envelope's keys.         *)
Envelope(r) == IF r.type = "readable" /\ r.body # "other" THEN r.body
               ELSE IF r.type = "binary" THEN "binary" ELSE "text"

(* soap_fault_message reads the text, whatever its type.                    *)
SoapFault(r) == r.body = "error"
(* graphql_error_message: no object, or a list of errors that is not empty. *)
GraphQLError(r) == Envelope(r) \in {"text", "error", "both"}
(* jsonrpc_error_message: any error key, a null one included.               *)
JsonRpcError(r) == Envelope(r) \in {"error", "malformed", "both"}
(* odata_error_message: likewise.                                           *)
ODataError(r) == Envelope(r) \in {"error", "malformed", "both"}
(* scim_error_message: the schema of errors, or schemas that are no list.   *)
ScimError(r) == Envelope(r) \in {"error", "malformed"}

(* Mutant: only the status tells an error.                                  *)
ProtocolError_ByStatus(protocol, op, r) == ~r.success

(* check_protocol_errors before the status.                                 *)
ProtocolError(protocol, op, r) ==
  \/ op.contract = "soap" /\ SoapFault(r)
  \/ op.contract = "graphql" /\ GraphQLError(r)
  \/ op.contract = "jsonrpc" /\ JsonRpcError(r)
  \/ protocol = "odata" /\ ODataError(r)
  \/ protocol = "scim" /\ ScimError(r)

(* sanitize_response unwraps: an XML document without a body element, or a  *)
(* GraphQL answer without data, is a ToolError; the other envelopes are     *)
(* opened when they are there.                                              *)
UnwrapSoapFails(r) == r.body \in {"malformed", "other"}
UnwrapGraphQLFails(r) == Envelope(r) \notin {"data", "both"}
UnwrapFails(op, r) ==
  \/ op.contract = "soap" /\ UnwrapSoapFails(r)
  \/ op.contract = "graphql" /\ UnwrapGraphQLFails(r)

(* What the client gets.  Errors of the envelope and of the status are      *)
(* counted by the breaker, those of the unwrapping are not.                 *)
Outcome(protocol, op, r) ==
  IF ProtocolError(protocol, op, r) \/ ~r.success THEN "counted"
  ELSE IF UnwrapFails(op, r) THEN "uncounted" ELSE "ok"
=============================================================================
