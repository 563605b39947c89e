---------------------------- MODULE RestDiscovery ----------------------------
(***************************************************************************)
(* Black-box discovery of a REST API (libs/extractors/rest.py,             *)
(* rest_probing.py, rest_classification.py): pages are crawled breadth     *)
(* first, every endpoint seen is asked for its methods with OPTIONS,       *)
(* details and sub-resources are inferred from the shape of the paths, an  *)
(* LLM may propose more, and concrete paths are merged into templates.     *)
(*                                                                         *)
(* A path is a sequence of segments without its query.  A website is       *)
(* [pages, probes, relations]: what a GET of a page shows, how a path      *)
(* answers OPTIONS, HEAD and GET, and which resources of a json-server     *)
(* hang below which.  An endpoint is [methods, conf, db]: conf is a        *)
(* percentage, db whether json-server's database told of it.  The URL that *)
(* goes with an endpoint only gives its path parameters their defaults.    *)
(***************************************************************************)
EXTENDS IR

CONSTANTS MaxPages,      \* max_pages
          MaxPasses,     \* _MAX_INFERENCE_PASSES
          MaxLost,       \* bound: requests of one discovery that fail
          ParamOf,       \* the template segment of a collection's detail
          Templates,     \* the template segments
          Values,        \* segments that look like ids (numbers, UUIDs)
          Text,          \* what a segment contributes to an operation id
          Common,        \* _common_sub_resources, by the parent's segment
          Seeds          \* paths an LLM can propose

IsPath(p) == p \in Seq(ToSet(p))

ASSUME DiscoveryAssumption ==
  /\ "{id}" \in Templates
  /\ \A s \in DOMAIN Common : IsFiniteSet(Common[s])
  /\ IsFiniteSet(Seeds) /\ \A p \in Seeds : IsPath(p)

VARIABLES site,          \* the website
          queue,         \* pages to fetch, with their depth
          visited,       \* visited_pages
          observed,      \* path -> endpoint
          crawl,         \* idle, pages, methods, infer, seed, done
          passes,        \* inference passes made
          asked,         \* endpoints asked for their methods
          lost           \* requests lost so far

crawlVars == <<site, queue, visited, observed, crawl, passes, asked, lost>>

(* _SUPPORTED_METHODS: an Allow header's other methods are passed over.     *)
Methods == {"GET", "POST", "PUT", "PATCH", "DELETE"}

(* What can be read of a website: finitely many things on every page.       *)
Website(s) ==
  /\ \A p \in DOMAIN s.pages :
       LET page == s.pages[p]
       IN  /\ IsPath(p)
           /\ IsFiniteSet(page.db) /\ \A r \in page.db : IsPath(r.path)
           /\ IsFiniteSet(page.registry) /\ \A c \in page.registry : IsPath(c)
           /\ IsFiniteSet(page.links)
           /\ \A c \in page.links : IsPath(c.path) /\ c.how \in {"link", "json", "form"}
  /\ \A p \in DOMAIN s.probes : s.probes[p].allow \subseteq Methods
  /\ \A r \in DOMAIN s.relations : IsFiniteSet(s.relations[r])

IsTemplate(seg) == seg \in Templates
Endpoint(methods, conf, db) == [methods |-> methods, conf |-> conf, db |-> db]

(* _resource_param_name_from_path and its kin: the detail of a collection.  *)
DetailOf(p) == Append(p, IF p = <<>> THEN "{resource_id}" ELSE ParamOf[Last(p)])

NoPage == [kind |-> "none"]
PageOf(p) == IF p \in DOMAIN site.pages THEN site.pages[p] ELSE NoPage
NoProbe == [options |-> "404", allow |-> {}, head |-> FALSE, get |-> FALSE]
ProbeOf(p) == IF p \in DOMAIN site.probes THEN site.probes[p] ELSE NoProbe

MaxOf(a, b) == IF a < b THEN b ELSE a
Best(confs) == CHOOSE c \in confs : \A d \in confs : d <= c

Sighting(p, methods, conf, db) == [path |-> p, e |-> Endpoint(methods, conf, db)]

(* _register_endpoint, for everything that was sighted: methods are added   *)
(* and the higher confidence stays.                                         *)
Register(obs, sightings) ==
  [p \in DOMAIN obs \cup {s.path : s \in sightings} |->
     LET all == {s.e : s \in {s \in sightings : s.path = p}}
                  \cup {obs[q] : q \in {p} \cap DOMAIN obs}
     IN  Endpoint(UNION {e.methods : e \in all}, Best({e.conf : e \in all}),
                  \E e \in all : e.db)]

(* _head_probe and the GET after it.                                        *)
HeadProbe(p) == IF ProbeOf(p).head THEN {"GET"} ELSE {}
GetProbe(p) == IF ProbeOf(p).get THEN {"GET"} ELSE {}

(* _probe_and_register: OPTIONS tells the methods; where it says nothing    *)
(* (or is lost), HEAD and then GET at least tell that the path exists.      *)
ProbedMethods(p, drop) ==
  LET allowed == IF ~drop /\ ProbeOf(p).options = "allow"
                 THEN ProbeOf(p).allow ELSE {}
      headed == IF allowed = {} THEN HeadProbe(p) ELSE allowed
  IN  IF headed = {} THEN GetProbe(p) ELSE headed

(* The paths that answer are registered anew.                               *)
Probed(paths, dropped) ==
  [p \in {p \in paths : ProbedMethods(p, p = dropped) # {}} |->
     Endpoint(ProbedMethods(p, p = dropped), 85, FALSE)]

(* What was registered anew replaces what was known of the same paths.      *)
Replacing(new, obs) ==
  [p \in DOMAIN new \cup DOMAIN obs |-> IF p \in DOMAIN new THEN new[p] ELSE obs[p]]
-----------------------------------------------------------------------------
(* What one page shows, helper by helper.                                   *)

(* _bootstrap_json_server: the front page of a json-server leads to its     *)
(* database, which lists every resource.                                    *)
JsonServerSightings(page) ==
  LET Methods_(r) == IF r.kind = "object" THEN {"GET", "PUT", "PATCH"}
                     ELSE {"GET", "POST"}
  IN  {Sighting(r.path, Methods_(r), 98, TRUE) : r \in page.db}
      \cup {Sighting(DetailOf(r.path), {"GET", "PUT", "PATCH", "DELETE"}, 97, TRUE) :
              r \in {r \in page.db : r.kind = "sampled"}}

(* _bootstrap_current_json_entrypoint: a JSON list is a collection; the     *)
(* detail of its first item is probed, and what it was before is replaced.  *)
EntrypointSightings(p, page) ==
  IF page.items = "none" THEN {} ELSE {Sighting(p, {"GET"}, 96, FALSE)}

EntrypointDetail(p, page, drop) ==
  LET details == IF page.items = "sampled" THEN {DetailOf(p)} ELSE {}
  IN  Probed(details, IF drop THEN DetailOf(p) ELSE NoOp)

(* _bootstrap_collection_registry: a page that lists collections.           *)
RegistrySightings(page) ==
  {Sighting(c, {"GET", "POST"}, 93, FALSE) : c \in page.registry}

(* _extract_candidate_paths and the loop over them: a link or a path in a   *)
(* JSON text is a GET, a form is a POST.                                    *)
CandidateSightings(page) ==
  {CASE c.how = "link" -> Sighting(c.path, {"GET"}, 75, FALSE)
     [] c.how = "json" -> Sighting(c.path, {"GET"}, 70, FALSE)
     [] c.how = "form" -> Sighting(c.path, {"POST"}, 85, FALSE) : c \in page.links}

ObservePage(obs, p, page, drop) ==
  LET before == Register(obs, JsonServerSightings(page)
                                \cup EntrypointSightings(p, page))
  IN  Register(Replacing(EntrypointDetail(p, page, drop), before),
               RegistrySightings(page) \cup CandidateSightings(page))

(* Pages to fetch next: listed collections, the next page of a listing      *)
(* (_pagination_followups) and links.                                       *)
Followups(page) ==
  page.registry \cup page.next
    \cup {c.path : c \in {c \in page.links : c.how # "form"}}

Enqueue(q, page, depth, seen) ==
  LET next == {p \in Followups(page) : depth + 1 < MaxPages /\ p \notin seen}
  IN  FoldSet(LAMBDA p, acc : Append(acc, [path |-> p, depth |-> depth + 1]),
              q, next)
-----------------------------------------------------------------------------
CrawlInit(s) ==
  /\ site = s /\ queue = <<>> /\ visited = {} /\ observed = <<>>
  /\ crawl = "idle" /\ passes = 0 /\ asked = {} /\ lost = 0

StartCrawl ==
  /\ crawl = "idle"
  /\ crawl' = "pages"
  /\ queue' = <<[path |-> site.base, depth |-> 0]>>
  /\ UNCHANGED <<site, visited, observed, passes, asked, lost>>

MayLose(drop) == drop => lost < MaxLost
Lost(drop) == lost' = IF drop THEN lost + 1 ELSE lost

(* A page is fetched (_request retries 429): an error shows nothing, and    *)
(* the page counts as visited all the same.                                 *)
FetchPage(drop) ==
  /\ crawl = "pages" /\ queue # <<>> /\ Cardinality(visited) < MaxPages
  /\ MayLose(drop)
  /\ LET p == Head(queue).path
         page == PageOf(p)
     IN  /\ p \notin visited
         /\ visited' = visited \cup {p}
         /\ IF drop \/ page.kind = "none"
            THEN queue' = Tail(queue) /\ UNCHANGED observed
            ELSE /\ observed' = ObservePage(observed, p, page, FALSE)
                 /\ queue' = Enqueue(Tail(queue), page, Head(queue).depth,
                                     visited')
  /\ Lost(drop)
  /\ UNCHANGED <<site, crawl, passes, asked>>

(* The page arrives and the OPTIONS request for its detail is lost.         *)
FetchPageDetailLost ==
  /\ crawl = "pages" /\ queue # <<>> /\ Cardinality(visited) < MaxPages
  /\ MayLose(TRUE)
  /\ LET p == Head(queue).path
         page == PageOf(p)
     IN  /\ p \notin visited
         /\ page.kind = "json" /\ page.items = "sampled"
         /\ visited' = visited \cup {p}
         /\ observed' = ObservePage(observed, p, page, TRUE)
         /\ queue' = Enqueue(Tail(queue), page, Head(queue).depth, visited')
  /\ Lost(TRUE)
  /\ UNCHANGED <<site, crawl, passes, asked>>

SkipVisited ==
  /\ crawl = "pages" /\ queue # <<>> /\ Cardinality(visited) < MaxPages
  /\ Head(queue).path \in visited
  /\ queue' = Tail(queue)
  /\ UNCHANGED <<site, visited, observed, crawl, passes, asked, lost>>

CrawlEnds ==
  /\ crawl = "pages"
  /\ queue = <<>> \/ Cardinality(visited) >= MaxPages
  /\ crawl' = "methods"
  /\ UNCHANGED <<site, queue, visited, observed, passes, asked, lost>>

(* _probe_allowed_methods: what OPTIONS allows replaces what was guessed; a *)
(* 405 leads to HEAD, which can only add GET.                               *)
AllowedMethods(e, p) ==
  LET probe == ProbeOf(p)
  IN  CASE probe.options = "allow" /\ probe.allow # {} ->
             [e EXCEPT !.methods = probe.allow, !.conf = MaxOf(@, 90)]
        [] probe.options = "405" -> [e EXCEPT !.methods = @ \cup HeadProbe(p)]
        [] OTHER -> e

(* The endpoints are asked one after the other; none sees another's answer. *)
ProbeAllowedMethods(drop) ==
  /\ crawl = "methods" /\ DOMAIN observed \ asked # {}
  /\ MayLose(drop)
  /\ LET p == CHOOSE p \in DOMAIN observed \ asked : TRUE
     IN  /\ asked' = asked \cup {p}
         /\ observed' = IF drop THEN observed
                        ELSE [observed EXCEPT ![p] = AllowedMethods(@, p)]
  /\ Lost(drop)
  /\ UNCHANGED <<site, queue, visited, crawl, passes>>

MethodsKnown ==
  /\ crawl = "methods" /\ DOMAIN observed \subseteq asked
  /\ crawl' = "infer"
  /\ UNCHANGED <<site, queue, visited, observed, passes, asked, lost>>

(* The candidates of one pass: the detail of each collection, and below     *)
(* each detail the usual sub-resources (a json-server: its relations).      *)
SubResources(p) ==
  LET parent == p[Len(p) - 1]
  IN  IF observed[p].db
      THEN IF Len(p) = 2 /\ parent \in DOMAIN site.relations
           THEN site.relations[parent] ELSE {}
      ELSE IF Len(p) > 1 /\ parent \in DOMAIN Common THEN Common[parent] ELSE {}

Candidates ==
  LET Detail(p) == {DetailOf(p)}
      Below(p) == {Append(p, r) : r \in SubResources(p)}
      named == {p \in DOMAIN observed : p # <<>>}
  IN  UNION {IF IsTemplate(Last(p)) THEN Below(p) ELSE Detail(p) : p \in named}
        \ DOMAIN observed

(* One pass of _infer_sub_resources; a pass that infers nothing is the last.*)
Inferred(dropped) == Probed(Candidates, dropped)

Infer(drop) ==
  /\ crawl = "infer" /\ passes < MaxPasses
  /\ MayLose(drop)
  /\ \E dropped \in IF drop THEN Candidates ELSE {NoOp} :
       LET inferred == Inferred(dropped)
       IN  /\ observed' = Replacing(inferred, observed)
           /\ crawl' = IF inferred = <<>> THEN "seed" ELSE "infer"
  /\ passes' = passes + 1
  /\ Lost(drop)
  /\ UNCHANGED <<site, queue, visited, asked>>

PassesUsedUp ==
  /\ crawl = "infer" /\ passes >= MaxPasses
  /\ crawl' = "seed"
  /\ UNCHANGED <<site, queue, visited, observed, passes, asked, lost>>

(* _llm_seed_mutation, when asked for: the LLM proposes any paths, and each *)
(* that was not observed is probed.                                         *)
SeedMutation ==
  /\ crawl = "seed"
  /\ \E proposed \in IF site.llm THEN SUBSET Seeds ELSE {{}} :
       observed' = Replacing(Probed(proposed \ DOMAIN observed, NoOp), observed)
  /\ crawl' = "done"
  /\ UNCHANGED <<site, queue, visited, passes, asked, lost>>

CrawlNext ==
  \/ \E drop \in BOOLEAN : FetchPage(drop) \/ ProbeAllowedMethods(drop)
                             \/ Infer(drop)
  \/ FetchPageDetailLost \/ SkipVisited \/ CrawlEnds \/ MethodsKnown
  \/ PassesUsedUp \/ SeedMutation
-----------------------------------------------------------------------------
(* A template covers the paths that its parameters can be filled in for.    *)
Covers(t, p) ==
  /\ Len(t) = Len(p)
  /\ \A i \in DOMAIN t : IsTemplate(t[i]) \/ t[i] = p[i]

TemplateCount(p) == Cardinality({i \in DOMAIN p : IsTemplate(p[i])})

(* The most general of the templates that cover a path.                     *)
Subsumers(obs, p) ==
  {t \in DOMAIN obs : TemplateCount(t) > TemplateCount(p) /\ Covers(t, p)}

MostGeneral(obs, p) ==
  IF Subsumers(obs, p) = {} THEN p
  ELSE CHOOSE t \in Subsumers(obs, p) :
         \A u \in Subsumers(obs, p) : TemplateCount(u) <= TemplateCount(t)

MergedMethods(obs, group) == UNION {obs[p].methods : p \in group}
MergedConf(obs, group) == Best({obs[p].conf : p \in group})

(* Mutant: what a subsumed path can do is forgotten.                        *)
Deduplicate_Forgets(obs) ==
  [t \in {MostGeneral(obs, p) : p \in DOMAIN obs} |-> obs[t]]

(* _deduplicate_concrete_paths: a path is merged into its most general      *)
(* template.                                                                *)
Deduplicate(obs) ==
  [t \in {MostGeneral(obs, p) : p \in DOMAIN obs} |->
     LET group == {p \in DOMAIN obs : MostGeneral(obs, p) = t}
     IN  [obs[t] EXCEPT !.methods = MergedMethods(obs, group),
                        !.conf = MergedConf(obs, group)]]

Parent(p) == IF p = <<>> THEN <<>> ELSE Front(p)
Siblings(obs, parent) == {p \in DOMAIN obs : Parent(p) = parent}
LooksLikeValue(p) == p # <<>> /\ Last(p) \in Values
HasValue(group) == \E p \in group : LooksLikeValue(p)

(* The path of a coalesced group: a template that is already there, or      *)
(* {id} below the parent.                                                   *)
GroupTemplates(group) == {p \in group : p # <<>> /\ IsTemplate(Last(p))}
CoalescedPath(parent, group) ==
  IF GroupTemplates(group) = {} THEN Append(parent, "{id}")
  ELSE CHOOSE p \in GroupTemplates(group) : TRUE

(* _coalesce_sibling_endpoints: siblings with a value among them become one *)
(* template with the methods of them all; those that are no values stay.    *)
CoalesceGroup(obs, parent) ==
  LET group == Siblings(obs, parent)
      kept == {p \in group : ~LooksLikeValue(p)} \ GroupTemplates(group)
      path == CoalescedPath(parent, group)
  IN  IF ~HasValue(group) THEN [p \in group |-> obs[p]]
      ELSE [p \in {path} \cup kept |->
              IF p # path THEN obs[p]
              ELSE Endpoint(MergedMethods(obs, group), MergedConf(obs, group), FALSE)]

Coalesce(obs) ==
  LET groups == {CoalesceGroup(obs, parent) : parent \in {Parent(p) : p \in DOMAIN obs}}
  IN  [p \in UNION {DOMAIN g : g \in groups} |->
         LET g == CHOOSE g \in groups : p \in DOMAIN g IN g[p]]

(* What _discover returns; freeze gives an endpoint without methods a GET.  *)
Frozen(e) == [e EXCEPT !.methods = IF @ = {} THEN {"GET"} ELSE @]
Discovered(obs) ==
  LET found == Coalesce(Deduplicate(obs))
  IN  [p \in DOMAIN found |-> Frozen(found[p])]

RestRisk(method) ==
  CASE method = "GET" -> "safe"
    [] method \in {"POST", "PUT", "PATCH"} -> "cautious"
    [] method = "DELETE" -> "dangerous"
    [] OTHER -> "unknown"

(* _classification_to_operation: a body parameter carries the endpoint's    *)
(* confidence, and an extractor's parameter needs 80 percent.               *)
RestOperation(p, e, method) ==
  [Operation(<<method>> \o [i \in DOMAIN p |-> Text[p[i]]], method, "http",
             RestRisk(method))
     EXCEPT !.at = p,
            !.conf = method \in {"POST", "PUT", "PATCH"} => e.conf >= 80]

(* _deduplicate_operation_ids: the second of one id gets a suffix.          *)
SuffixedOps(ops) ==
  LET Before(i) == Cardinality({j \in 1 .. i - 1 : ops[j].id = ops[i].id})
      Suffix == <<"1", "2", "3">>
  IN  [i \in DOMAIN ops |->
         IF Before(i) = 0 THEN ops[i]
         ELSE [ops[i] EXCEPT !.id = Append(@, Suffix[Before(i)])]]

(* HeuristicRESTClassifier and the rest of extract.                         *)
RestExtract(obs) ==
  LET found == Discovered(obs)
      pairs == UNION {{<<p, m>> : m \in found[p].methods} : p \in DOMAIN found}
      order == FoldSet(LAMBDA pm, acc : Append(acc, pm), <<>>, pairs)
  IN  Service(SuffixedOps([i \in DOMAIN order |->
                RestOperation(order[i][1], found[order[i][1]], order[i][2])]),
              {}, "none")
=============================================================================
