----------------------------- MODULE MCContents -----------------------------
(* Sources of every protocol, named and reachable in every way, and three  *)
(* websites, for the stages of one compilation.                            *)
EXTENDS StageContents

I(name, verb, kind) == [name |-> name, verb |-> verb, kind |-> kind]

Spec1 == <<I("a", "GET", "plain"), I("b", "GET", "path"),
           I("c", "GET", "callback"), I("d", "DELETE", "plain"),
           I("e", "POST", "multipart"), I("u", "PUT", "raw"), I("r", "GET", "raw"),
           I("n", "GET", "path"), I("w", "POST", "webhook")>>
Rpcs == <<I("GetA", "get", "unary"), I("WatchA", "get", "server"),
          I("PutA", "put", "client"), I("ChatA", "put", "both")>>

(* What a document of each shape declares.                                  *)
ItemsOf(shape) ==
  CASE shape \in {"openapi", "swagger", "paths"} -> Spec1
    [] shape = "introspection" -> <<I("a", "get", "query"), I("b", "put", "mutation"),
                                    I("s", "get", "subscription")>>
    [] shape \in {"proto", "bare_proto", "reflection"} -> Rpcs
    [] shape \in {"wsdl", "openrpc", "rpc_service", "methods"} ->
         <<I("a", "put", "plain"), I("b", "get", "plain"), I("c", "delete", "plain")>>
    [] shape = "edmx" -> <<I("a", "get", "set"), I("f", "get", "function"),
                           I("g", "put", "action")>>
    [] shape = "scim" -> <<I("a", "get", "patch"), I("b", "get", "plain"),
                           I("x", "put", "bulk"), I("y", "put", "password")>>
    [] shape = "asyncapi" -> <<I("a", "get", "both"), I("b", "get", "subscribe"),
                               I("c", "put", "publish")>>
    [] shape = "database" -> <<I("a", "get", "keyed"), I("b", "get", "bare"),
                               I("v", "get", "view")>>
    [] shape = "commands" -> <<I("a", "put", "named"), I("b", "get", "named"),
                               I("c", "strange", "declared"),
                               I("d", "dangerous", "writes")>>
    [] OTHER -> <<>>

Shapes == {"openapi", "swagger", "paths", "introspection", "proto", "bare_proto",
           "reflection", "wsdl", "edmx", "scim", "openrpc", "rpc_service", "methods",
           "asyncapi", "database", "commands", "html"}

Source(shape, via, name, live) ==
  [shape |-> shape, words |-> {}, via |-> via, name |-> name, live |-> live,
   items |-> ItemsOf(shape), opt |-> "default", auth |-> "none"]

At(name, links) == [name |-> name, links |-> links]

Job(source) ==
  [source |-> source, site |-> At("empty", {}), forced |-> "none", auth |-> "keep",
   enhance |-> FALSE, preferred |-> NoOp, sampled |-> {},
   numeric |-> {<<"openapi", "n">>, <<"get_by_key", "a">>, <<"delete", "a">>}]

(* Detection: every shape under every name; only a URL can be probed.       *)
Named ==
  {Source(shape, "inline", "plain", "none") : shape \in Shapes \ {"database"}}
  \cup {Source(x[1], "file", x[2], "none") :
          x \in (Shapes \ {"database", "reflection"})
                  \X {"plain", ".proto", ".wsdl", ".asyncapi.yaml", ".cli.yaml", "$metadata"}}
  \cup {Source(x[1], "url", x[2], x[3]) :
          x \in Shapes \X {"plain", ".wsdl", ".asyncapi.yaml", "$metadata", "scim", "graphql",
                           "swagger"}
                  \X {"none", "$metadata", "methods", "rpc_error"}}

(* A document of one format whose text contains the marks of others.        *)
Words == {{"openapi"}, {"paths"}, {"rpc"}, {"wsdl"}, {"edmx"}, {"scim"}, {".cli.yaml"},
          {"openapi", "rpc"}, {"wsdl", "edmx"}}
Quoting ==
  {[Source(x[1], x[2], x[3], "none") EXCEPT !.words = x[4]] :
     x \in (Shapes \ {"database", "reflection"}) \X {"inline", "url"} \X {"plain"} \X Words}
  \cup {[Source(x[1], "file", x[2], "none") EXCEPT !.words = x[3]] :
          x \in {"proto", "wsdl", "asyncapi", "commands"}
                  \X {".proto", ".wsdl", ".asyncapi.yaml", ".cli.yaml", "$metadata"} \X Words}

Plain(shape) == Source(shape, "url", "plain", "none")

(* Documents that contradict themselves, opt in or out, or need auth.       *)
Odd ==
  {[Plain("introspection") EXCEPT !.via = "inline",
      !.items = <<I("a", "get", "query"), I("a", "put", "mutation")>>],
   [Plain("proto") EXCEPT !.items = <<Rpcs[4]>>],
   [Plain("proto") EXCEPT !.items = <<Rpcs[2]>>],
   [Plain("proto") EXCEPT !.opt = "client_streams"],
   [Plain("proto") EXCEPT !.opt = "no_streams"],
   [Plain("openapi") EXCEPT !.items = <<Spec1[2], Spec1[4]>>],
   [Plain("openapi") EXCEPT !.items = <<Spec1[4]>>],
   [Plain("openapi") EXCEPT !.auth = "declared"],
   [Plain("asyncapi") EXCEPT !.items = <<I("a", "get", "receive"), I("b", "put", "send")>>]}

(* Requests with options.                                                   *)
Wanted ==
  {[Job(Plain("openapi")) EXCEPT !.auth = a] : a \in {"secret_ref", "oauth2", "oauth2_url", "oauth2_incomplete"}}
  \cup {[Job(Plain("openapi")) EXCEPT !.preferred = <<"openapi", id>>,
                                      !.sampled = smp] :
          id \in {"b", "d"}, smp \in {{}, {<<"openapi", "b">>}}}
  \cup {[Job(Plain(shape)) EXCEPT !.enhance = TRUE] :
          shape \in {"openapi", "commands"}}
  \cup {[Job([Plain("introspection") EXCEPT !.via = "inline",
               !.items = <<I("s", "get", "subscription")>>])
           EXCEPT !.enhance = TRUE]}
  \cup {[Job([Plain("html") EXCEPT !.via = v]) EXCEPT !.forced = f,
                                                !.site = At("shop", {<<"tags", "7">>})] :
          v \in {"inline", "url"}, f \in {"rest", "soap"}}

ShopLinks == {<<"users", "1">>, <<"tags", "7">>, <<"tags", "8">>, <<"users", "me">>}

Crawls ==
  {[Job(Plain("html")) EXCEPT !.site = st] :
     st \in {At("shop", ls) : ls \in SUBSET ShopLinks}
              \cup {At("json_server", {}), At("empty", {})}}

MCJobs == {Job(s) : s \in Named \cup Quoting \cup Odd} \cup Wanted \cup Crawls
-----------------------------------------------------------------------------
L(path, how) == [path |-> path, how |-> how]
Page(kind, items, registry, next, links, db) ==
  [kind |-> kind, items |-> items, registry |-> registry, next |-> next,
   links |-> links, db |-> db]
Probe(options, allow, head, get) ==
  [options |-> options, allow |-> allow, head |-> head, get |-> get]

users == <<"users">>
user == <<"users", "{user_id}">>

(* A front page with a link to users, any of four others and a form; the    *)
(* list of users is paged JSON; OPTIONS is answered here and there.         *)
Shop(links) ==
  [base |-> <<>>, relations |-> <<>>, llm |-> TRUE,
   pages |-> (<<>> :> Page("html", "none", {}, {},
                           {L(p, "link") : p \in links \cup {users}}
                             \cup {L(<<"tags", "new">>, "form")}, {}))
             @@ (users :> Page("json", "sampled", {}, {<<"users", "2">>}, {}, {}))
             @@ (<<"users", "2">> :> Page("json", "unsampled", {<<"tags">>}, {},
                                          {L(<<"users", "1">>, "json")}, {})),
   probes |-> (users :> Probe("allow", {"GET", "POST"}, TRUE, TRUE))
              @@ (user :> Probe("allow", {"GET", "DELETE"}, FALSE, TRUE))
              @@ (<<"users", "1">> :> Probe("405", {}, TRUE, TRUE))
              @@ (<<"users", "2">> :> Probe("allow", {"PUT"}, FALSE, FALSE))
              @@ (Append(user, "posts") :> Probe("404", {}, FALSE, TRUE))
              @@ (<<"admin">> :> Probe("404", {}, TRUE, TRUE))]

(* A json-server with a list, an empty list and a single object.            *)
JsonServer ==
  [base |-> <<>>, llm |-> FALSE,
   relations |-> "users" :> {"posts"},
   pages |-> (<<>> :> Page("json_server", "none", {}, {}, {},
                           {[path |-> users, kind |-> "sampled"],
                            [path |-> <<"posts">>, kind |-> "list"],
                            [path |-> <<"admin">>, kind |-> "object"]})),
   probes |-> (Append(user, "posts") :> Probe("allow", {"GET"}, TRUE, TRUE))]

Empty == [base |-> <<>>, llm |-> FALSE, relations |-> <<>>,
          pages |-> (<<>> :> Page("html", "none", {}, {}, {}, {})),
          probes |-> <<>>]

MCSites ==
  [st \in {At("shop", ls) : ls \in SUBSET ShopLinks}
            \cup {At("json_server", {}), At("empty", {})} |->
     CASE st.name = "shop" -> Shop(st.links)
       [] st.name = "json_server" -> JsonServer
       [] st.name = "empty" -> Empty]

MCParamOf ==
  [s \in {"users", "posts", "tags", "admin", "new", "me", "1", "2", "7", "8"} |->
     CASE s = "users" -> "{user_id}" [] s = "posts" -> "{post_id}"
       [] s = "tags" -> "{tag_id}" [] s = "admin" -> "{admin_id}"
       [] s = "new" -> "{new_id}" [] s = "1" -> "{1_id}" [] s = "2" -> "{2_id}"
       [] s = "7" -> "{7_id}" [] s = "8" -> "{8_id}" [] s = "me" -> "{me_id}"]
MCTemplates == {MCParamOf[s] : s \in DOMAIN MCParamOf} \cup {"{resource_id}", "{id}"}
MCText == [s \in DOMAIN MCParamOf \cup MCTemplates |-> s]
MCCommon == "users" :> {"posts"}
MCSeeds == {<<"admin">>, <<"users", "me">>}
MCValues == {"1", "2", "7", "8"}
MCCallTokens == {1, 2}

(* Parameters in every order that tells a payload's place, and the fallback *)
(* of a method that is only known by name.                                  *)
MCParamLists == {<<"q", "f", "payload">>, <<"q", "payload", "f">>, <<"payload", "f">>,
                 <<"token", "payload">>, <<"q">>, <<>>}
=============================================================================
