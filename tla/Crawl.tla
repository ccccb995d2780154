-------------------------------- MODULE Crawl --------------------------------
(***************************************************************************)
(* discover of discovery.py: the crawl that makes the profile every probe    *)
(* works on.  Pages are walked breadth first, endpoints are read from a       *)
(* served spec, from bundles, links and the plan's hints, a browser renders    *)
(* what it may and reports what the app called, paths that nothing names are   *)
(* asked for, a model may point at more, and then guards withhold the forms    *)
(* and drop the endpoints that must not be probed.  Any request may be lost.   *)
(*                                                                         *)
(* A path is the sequence of its segments, markup is what it contains.        *)
(***************************************************************************)
EXTENDS Integers, FiniteSets, SequencesExt

CONSTANTS
    Segments, \* what a path may have between its slashes, or as its query
    Sites,    \* the sites and the options of the crawl, see MCCrawl
    MaxPages, \* MAX_PAGES
    MaxDepth, \* MAX_DEPTH
    Shown,    \* _BROWSER_ROUTE_CAP
    Judged,   \* _BASELINE_CAP
    Losses    \* bound: requests that are lost in a crawl

Path     == Seq(Segments)
Kinds    == {"login", "change", "search"}
Form     == [act : Path, kind : Kinds]
Origins  == {"crawl", "llm", "observed", "mined", "conventional", "perceived"}
Endpoint == [m : {"get", "post"}, p : Path, raw : Path, from : Origins, takes : BOOLEAN, base : Nat]

\* A page: its links, scripts and forms, an answer that is no 0, and what a browser paints.
Markup(fs) == \A f \in fs : f.act \in Path /\ f.kind \in Kinds /\ f.bare \in BOOLEAN
IsPage(g)  == /\ g.links \in Seq(Path) /\ g.srcs \cup g.painted.links \subseteq Path
              /\ Markup(g.forms) /\ Markup(g.painted.forms)
              /\ g.cta \in BOOLEAN /\ g.painted.cta \in BOOLEAN /\ g.status \in Nat \ {0}

\* A site: a served spec, calls and hints, searches beside a collection, which has a name below
\* another (_is_collection), and what a model sees, each once (_dedup_merge_endpoints).
IsSite(s) ==
    /\ s.start \in Path /\ <<>> \in DOMAIN s.pages /\ IsPage(s.missing) /\ \A p \in DOMAIN s.pages : IsPage(s.pages[p])
    /\ s.calls \cup s.literals \cup s.usual \cup s.queried \cup s.doors \subseteq Path
    /\ s.spec \cup s.hints \cup s.called \cup s.sees \subseteq Endpoint /\ s.imagines \subseteq Form
    /\ \A e \in s.spec : e.from = "crawl"
    /\ \A e \in s.called : e.from = "observed"
    /\ \A e \in s.sees : e.from = "perceived" /\ \A d \in s.sees : d.m = e.m /\ d.raw = e.raw => d = e
    /\ \A r \in s.searches : r.of \in Path /\ r.at \in Path /\ Len(r.of) >= 2 /\ IsPrefix(r.of, r.at)
    /\ s.auth \in BOOLEAN /\ s.canvas \in {"none", "rendered", "error", "stuck"}

ASSUME CrawlAssumption == /\ {MaxPages, MaxDepth, Shown, Judged, Losses} \subseteq Nat
                          /\ {"login", "home", "?q="} \subseteq Segments
                          /\ \A s \in Sites : IsSite(s)

VARIABLES
    site,      \* the site and the options
    pc,        \* the part of discover that runs next
    queue,     \* pages to fetch, each with its depth
    visited,   \* pages asked for
    read,      \* history: pages that were answered with markup
    routes,    \* every path the profile names
    forms,     \* forms to be probed
    seen,      \* seen_forms
    endpoints, \* endpoints to be probed
    queried,   \* link_params: paths linked with a query
    cta,       \* auth: a button or a link offers to log in
    dom,       \* the pages the browser rendered
    session,   \* the crawl has an account of its own
    landing,   \* landing_path
    state,     \* render_state
    refused,   \* history: forms a guard took away
    left,      \* history: a logout path was requested
    lost       \* history: requests lost so far

walk    == <<queue, visited, read, queried>>
surface == <<routes, forms, seen, endpoints, cta>>
browser == <<dom, session, state>>
hist    == <<refused, left, lost>>
vars    == <<site, pc, walk, surface, browser, landing, hist>>

Init == /\ site \in Sites
        /\ pc = "pages" /\ queue = <<[p |-> site.start, d |-> 0]>>
        /\ visited = {} /\ read = {} /\ routes = {} /\ forms = {} /\ seen = {}
        /\ endpoints = {} /\ queried = {} /\ cta = FALSE
        /\ dom = {} /\ session = FALSE /\ landing = <<>> /\ state = "none"
        /\ refused = {} /\ left = FALSE /\ lost = 0

-----------------------------------------------------------------------------
(* Paths.                                                                   *)

\* _entry_scope: an entry of two segments is an app of its own on its host.
Scope == IF Len(site.start) >= 2 THEN site.start ELSE <<>>
InScope(p)  == IsPrefix(Scope, p)
IsLogout(p) == "logout" \in ToSet(p)
Braced(p)   == "{x}" \in ToSet(p)
\* _same_origin_path
Followed(ps) == {p \in ps : InScope(p) /\ ~IsLogout(p) /\ ~Braced(p)}
\* Mutant: a literal is taken to be relative to the host.
BugUnder(p) == p

\* _under: where a path of the bundle is served
Under(p) == IF IsPrefix(site.start, p) THEN p ELSE site.start \o p

-----------------------------------------------------------------------------
(* What the site answers.                                                   *)

Exists(p) == p \in DOMAIN site.pages
\* A catch-all host serves its shell, the page at its root, for any path nobody has.
Shell(p)  == site.catchAll /\ (Exists(p) => site.pages[p].shell)
Page(p)   == CASE Exists(p) -> site.pages[p]
               [] ~Exists(p) /\ site.catchAll -> site.pages[<<>>]
               [] OTHER -> site.missing
Status(p) == Page(p).status

\* Which of the requests for ps are lost.
Gone(ps) == {g \in SUBSET ps : lost + Cardinality(g) \in 0 .. Losses}
Sent(ps, gone) == /\ left' = (left \/ \E p \in ps : IsLogout(p))
                  /\ lost' = lost + Cardinality(gone)
\* The first n of S, in an order that is not modelled.
First(n, S) == {T \in SUBSET S : Cardinality(T) = IF Cardinality(S) < n THEN Cardinality(S) ELSE n}

-----------------------------------------------------------------------------
(* Forms and endpoints.                                                     *)

\* _parse_forms and _formless_form: a form without an action is its page's.
FormsOf(p, fs) == {[act |-> IF f.bare THEN p ELSE f.act, kind |-> f.kind] :
                     f \in {g \in fs : g.bare \/ g.act \in Followed({g.act})}}
Password(fs) == \E f \in fs : f.kind \in {"login", "change"}

\* Forms that were not seen before join the forms, and their actions the routes.
Harvest(found, paths) == /\ forms' = forms \cup (found \ seen)
                         /\ seen' = seen \cup found
                         /\ routes' = routes \cup paths \cup {f.act : f \in found \ seen}

Paths(es)    == {e.p : e \in es}
Same(e, d)   == e.m = d.m /\ e.raw = d.raw
Has(es, ms, p) == \E e \in es : e.m \in ms /\ e.p = p
\* _dedup_merge_endpoints: the inputs of a duplicate go to the endpoint that is kept.
Merge(es, more) ==
    {LET twins == {d \in more : Same(d, e)}
     IN  [e EXCEPT !.takes = @ \/ \E d \in twins : d.takes,
                   !.from  = IF \E d \in twins : d.from = "crawl" THEN "crawl" ELSE @] : e \in es}
    \cup {d \in more : ~\E e \in es : Same(d, e)}
\* The baseline of the endpoints in es: 0 when nobody asked or the answer was lost.
Judge(es, asked, gone) == {[e EXCEPT !.base = IF e \in asked /\ e.p \notin gone THEN Status(e.p) ELSE @] : e \in es}
Found(from, m, p) == [m |-> m, p |-> p, raw |-> p, from |-> from, takes |-> FALSE, base |-> 0]

-----------------------------------------------------------------------------
(* The walk.                                                                *)

\* The loop goes on.
More == queue # <<>> /\ Cardinality(visited) < MaxPages

\* The numbers of S in their order.
InOrder(S) == {k \in [1 .. Cardinality(S) -> S] : \A i, j \in DOMAIN k : i < j => k[i] < k[j]}

\* The links that are in ps, in the order of the page, join the rest of the queue.
Enqueue(links, ps, d) == \E k \in InOrder({i \in DOMAIN links : links[i] \in ps}) :
                            queue' = Tail(queue) \o [i \in DOMAIN k |-> [p |-> links[k[i]], d |-> d]]

\* Mutant: a page that is skipped stays at the head of the queue.
BugSkip ==
    /\ pc = "pages" /\ More
    /\ Head(queue).p \in visited \/ lost < Losses
    /\ visited' = visited \cup {Head(queue).p}
    /\ Sent({}, {Head(queue).p} \ visited)
    /\ UNCHANGED <<site, pc, queue, read, queried, surface, browser, landing, refused>>

\* A page that was asked for before, or that is lost.
Skip ==
    /\ pc = "pages" /\ More
    /\ Head(queue).p \in visited \/ lost < Losses
    /\ visited' = visited \cup {Head(queue).p} /\ queue' = Tail(queue)
    /\ Sent({}, {Head(queue).p} \ visited)
    /\ UNCHANGED <<site, pc, read, queried, surface, browser, landing, refused>>

\* A page that is answered: its forms are harvested, and its links are followed
\* as long as it is not too deep.
Fetch ==
    /\ pc = "pages" /\ More /\ Head(queue).p \notin visited
    /\ LET p == Head(queue).p
           d == Head(queue).d
           linked == IF d < MaxDepth THEN Followed(ToSet(Page(p).links)) ELSE {}
       IN  /\ visited' = visited \cup {p}
           /\ Sent({p}, {})
           /\ IF Page(p).html
              THEN /\ read' = read \cup {p}
                   /\ cta' = (cta \/ Page(p).cta)
                   /\ Harvest(FormsOf(p, Page(p).forms), {p} \cup Followed(Page(p).srcs) \cup linked)
                   /\ queried' = queried \cup (linked \cap site.queried)
                   /\ Enqueue(Page(p).links, linked \ visited', d + 1)
              ELSE /\ routes' = routes \cup {p} /\ queue' = Tail(queue)
                   /\ UNCHANGED <<read, cta, forms, seen, queried>>
    /\ UNCHANGED <<site, pc, endpoints, browser, landing, refused>>

\* js_urls: a page of the walk loads the bundle.
Chunk == \E p \in read : site.bundle \in Followed(Page(p).srcs)

\* Where a spec is served.
Document == <<"openapi.json">>

\* The endpoints of the spec that is served, and of the calls the bundle makes.
Served(deaf) == IF Document \in deaf THEN {} ELSE site.spec
Calls(deaf)  == IF site.bundle \in deaf \/ ~Chunk THEN {} ELSE {Found("crawl", "get", p) : p \in site.calls}
\* What the plan of the deployment read in the source.
Hints == {[e EXCEPT !.from = "llm"] : e \in site.hints}

\* The walk ends, and what it did not see is read from the spec, the bundle (when
\* a page named it), the hints of the plan and the queries of links.  What is out
\* of scope or a template is dropped, the rest is asked for its baseline.
Ingest ==
    /\ pc = "pages" /\ ~More
    /\ \E deaf \in SUBSET {Document, site.bundle} :
         LET links == {[Found("crawl", "get", p) EXCEPT !.takes = TRUE] : p \in queried}
             es    == {e \in Merge(Merge(Merge(Served(deaf), Calls(deaf)), Hints), links) : InScope(e.p) /\ ~Braced(e.p)}
         IN  \E asked \in First(Judged, es) : \E gone \in SUBSET Paths(asked) :
               /\ deaf \cup gone \in Gone({Document, site.bundle} \cup Paths(asked))
               /\ endpoints' = Judge(es, asked, gone)
               /\ routes' = routes \cup Paths(es)
               /\ Sent(Paths(asked), deaf \cup gone)
    /\ pc' = IF site.render THEN "register" ELSE "guard"
    /\ UNCHANGED <<site, walk, forms, seen, cta, browser, landing, refused>>

-----------------------------------------------------------------------------
(* The browser.                                                             *)

\* An account for the crawl, if it may have one and there is a door.
Register ==
    /\ pc = "register" /\ pc' = "entry"
    /\ \E in \in BOOLEAN : /\ in => site.auth /\ (cta \/ Password(forms))
                           /\ session' = in
    /\ UNCHANGED <<site, walk, surface, dom, state, landing, hist>>

\* The entry is rendered: there is no browser, the app fails for good and has no
\* profile, or its links join the routes.
RenderEntry ==
    /\ pc = "entry"
    /\ \/ /\ pc' = "guard" /\ UNCHANGED <<surface, browser>>
       \/ /\ site.canvas \in {"error", "stuck"} /\ pc' = "done" /\ state' = site.canvas
          /\ forms' = {} /\ endpoints' = {} /\ routes' = {}
          /\ UNCHANGED <<seen, cta, dom, session>>
       \/ /\ site.canvas \in {"none", "rendered"} /\ pc' = "rest" /\ state' = site.canvas
          /\ dom' = {site.start}
          /\ routes' = routes \cup Followed(Page(site.start).painted.links)
          /\ UNCHANGED <<forms, seen, endpoints, cta, session>>
    /\ UNCHANGED <<site, walk, landing, hist>>

\* More routes are rendered, those where a login is usually found if there is a
\* button but no form for one, and those behind a login if there is a session.
Usual == IF cta /\ ~Password(forms) THEN {<<"login">>} ELSE {}
Inner == IF session THEN {<<"home">>} ELSE {}

RenderRest ==
    /\ pc = "rest" /\ pc' = "observe"
    /\ \E extra \in First(Shown, {r \in routes \ {site.start} : r # site.bundle}) :
       \E gone \in Gone(extra) :
         LET asked == extra \cup ((Usual \cup Inner) \ visited)
             shown == dom \cup (asked \ gone)
         IN  /\ dom' = shown
             /\ cta' = (cta \/ \E p \in shown : Page(p).painted.cta)
             /\ Harvest(UNION {FormsOf(p, Page(p).painted.forms) : p \in shown},
                        UNION {Followed(Page(p).painted.links) : p \in shown})
             /\ Sent({}, gone)
    /\ UNCHANGED <<site, walk, endpoints, session, state, landing, refused>>

\* Requests of the app to itself, each once.
Called == {e \in site.called : e.p \in Followed({e.p})}

\* What the app was seen to call, unless it is known or a page of its own.
Observe ==
    /\ pc = "observe" /\ pc' = "mine"
    /\ LET new == {e \in Called : /\ ~Has(endpoints, {e.m}, e.p)
                                  /\ ~(e.m = "get" /\ ~e.takes /\ e.p \in routes)}
       IN  \E asked \in First(Judged, new) : \E gone \in Gone(Paths(asked)) :
             /\ endpoints' = endpoints \cup Judge(new, asked, gone)
             /\ routes' = routes \cup Paths(new)
             /\ Sent(Paths(asked), gone)
    /\ UNCHANGED <<site, walk, forms, seen, cta, browser, landing, refused>>

-----------------------------------------------------------------------------
(* Paths that are asked for.                                                *)

\* Mutant: only known pages are not asked for.
BugVerify(from, candidates) ==
    LET asked == {p \in candidates : ~Has(endpoints, {"get"}, p)}
    IN  \E gone \in Gone(asked) :
          LET new == {[Found(from, IF Status(p) = 405 THEN "post" ELSE "get", p) EXCEPT !.base = Status(p)] :
                        p \in {q \in asked \ gone : Status(q) # 404}}
          IN  /\ endpoints' = endpoints \cup new
              /\ routes' = routes \cup Paths(new)
              /\ Sent(asked, gone)

\* _verify_api_path for each candidate: what is not served is no endpoint, what
\* refuses the verb is one to post to.
Verify(from, candidates) ==
    LET asked == {p \in candidates : ~Has(endpoints, {"get", "post"}, p)}
    IN  \E gone \in Gone(asked) :
          LET new == {[Found(from, IF Status(p) = 405 THEN "post" ELSE "get", p) EXCEPT !.base = Status(p)] :
                        p \in {q \in asked \ gone : Status(q) # 404}}
          IN  /\ endpoints' = endpoints \cup new
              /\ routes' = routes \cup Paths(new)
              /\ Sent(asked, gone)

Mine == /\ pc = "mine" /\ pc' = "conventional"
        /\ \/ Verify("mined", IF site.bundle \in routes THEN {Under(p) : p \in site.literals} ELSE {})
           \/ /\ site.bundle \in routes /\ lost < Losses /\ lost' = lost + 1
              /\ UNCHANGED <<endpoints, routes, left>>
        /\ UNCHANGED <<site, walk, forms, seen, cta, browser, landing, refused>>

Conventional == /\ pc = "conventional" /\ pc' = "search"
                /\ Verify("conventional", {Under(p) : p \in site.usual})
                /\ UNCHANGED <<site, walk, forms, seen, cta, browser, landing, refused>>

\* A collection that lists something is searched for it at its usual sibling.
Search ==
    /\ pc = "search" /\ pc' = "perceive"
    /\ LET lists == {e.p : e \in {d \in endpoints : d.m = "get" /\ ~d.takes}} \cup routes
           asked == {s \in site.searches : s.of \in lists /\ ~Has(endpoints, {"get"}, s.at)}
       IN  \E gone \in Gone({s.at : s \in asked}) :
             LET new == {[Found("mined", "get", s.at) EXCEPT !.raw = Append(s.at, "?q="), !.takes = TRUE, !.base = 200] :
                           s \in {t \in asked : t.at \notin gone}}
             IN  /\ endpoints' = endpoints \cup new
                 /\ routes' = routes \cup Paths(new)
                 /\ Sent({}, gone)
    /\ UNCHANGED <<site, walk, forms, seen, cta, browser, landing, refused>>

\* Endpoints without inputs say what they want when they refuse a body.
Explained == {[e EXCEPT !.takes = @ \/ (e.m = "post" /\ e.p \in site.explains)] : e \in endpoints}

\* Nothing the crawl found is taken away by what a model saw.
Perceived == Merge(Explained, IF site.perceives THEN site.sees ELSE {})

\* The model that looks at the rendered pages adds what it sees, or fails.
Perceive ==
    /\ pc = "perceive" /\ pc' = "guard"
    /\ \/ /\ endpoints' = Explained /\ UNCHANGED <<forms, left, lost>>
       \/ /\ forms' = forms \cup (IF site.perceives THEN site.imagines ELSE {})
          /\ \E asked \in First(Judged, {e \in Perceived : e.from = "perceived" /\ e.base = 0}) :
             \E gone \in Gone(Paths(asked)) :
               endpoints' = Judge(Perceived, asked, gone) /\ Sent(Paths(asked), gone)
    /\ UNCHANGED <<site, walk, routes, seen, cta, browser, landing, refused>>

-----------------------------------------------------------------------------
(* What must not be probed.                                                 *)

Submittable(fs) == {f \in fs : f.kind # "change"}

\* Forms that change a password are withheld, and on a host that serves a shell
\* for a path nobody has, what echoes the shell is dropped.
Guard ==
    /\ pc = "guard" /\ pc' = "auth"
    /\ LET kept == Submittable(forms)
       IN  /\ \/ /\ site.catchAll => lost < Losses
                 /\ forms' = kept /\ UNCHANGED endpoints
                 /\ Sent({}, IF site.catchAll THEN {"probe"} ELSE {})
              \/ /\ site.catchAll
                 /\ LET asked == Paths(endpoints) \cup {f.act : f \in kept}
                    IN  \E gone \in Gone(asked) :
                          /\ forms' = {f \in kept : f.act \in gone \/ ~Shell(f.act)}
                          /\ endpoints' = {e \in endpoints : e.p \in gone \/ ~Shell(e.p)}
                          /\ Sent(asked, gone)
           /\ refused' = (forms \ forms') \cap seen
    /\ UNCHANGED <<site, walk, routes, seen, cta, browser, landing>>

\* The auth routes the bundle names, as far as they can be rendered.
Doors == IF site.render THEN site.doors \ visited ELSE {}

\* With no door in sight the bundle is searched for one, and what it names is
\* rendered for its form.
MineAuth ==
    /\ pc = "auth" /\ pc' = "assemble"
    /\ IF Password(forms) \/ cta \/ ~Chunk
       THEN UNCHANGED <<surface, dom, left, lost>>
       ELSE \/ lost < Losses /\ lost' = lost + 1 /\ UNCHANGED <<surface, dom, left>>
            \/ \E gone \in Gone(Doors) :
                 /\ dom' = dom \cup (Doors \ gone)
                 /\ cta' = (site.doors # {})
                 /\ Harvest(UNION {FormsOf(p, Page(p).painted.forms) : p \in Doors \ gone}, {})
                 /\ Sent({}, gone)
                 /\ UNCHANGED endpoints
    /\ UNCHANGED <<site, walk, session, state, landing, refused>>

\* A thin entry, and nothing that was found is left.
Bare(es) == /\ state = "none" /\ dom # {} /\ site.thin
            /\ es = {} /\ forms = {} /\ routes \subseteq {site.start, <<>>}

\* The profile: the page that stands for the home page, no templates, and whether
\* there was anything at all.
Assemble ==
    /\ pc = "assemble" /\ pc' = "done"
    /\ landing' \in IF Scope # <<>> THEN {site.start}
                    ELSE {<<>>} \cup (IF Status(<<>>) >= 400 /\ Status(site.start) < 400 THEN {site.start} ELSE {})
    /\ lost' = lost + (IF landing' = <<>> /\ Status(<<>>) >= 400 /\ Status(site.start) < 400 THEN 1 ELSE 0)
    /\ lost' <= Losses
    /\ endpoints' = {e \in endpoints : ~Braced(e.p)}
    /\ state' = IF Bare(endpoints') THEN "empty" ELSE state
    /\ UNCHANGED <<site, walk, routes, forms, seen, cta, dom, session, refused, left>>

Next == \/ Skip \/ Fetch \/ Ingest \/ Register \/ RenderEntry \/ RenderRest \/ Observe \/ Mine
        \/ Conventional \/ Search \/ Perceive \/ Guard \/ MineAuth \/ Assemble

\* Every request and every render has a timeout, so the crawl always goes on.
Spec == Init /\ [][Next]_vars /\ WF_vars(Next)

-----------------------------------------------------------------------------
(* Properties.                                                              *)

TypeOK ==
    /\ pc \in {"pages", "register", "entry", "rest", "observe", "mine", "conventional", "search",
               "perceive", "guard", "auth", "assemble", "done"}
    /\ \A i \in DOMAIN queue : queue[i].d \in 0 .. MaxDepth
    /\ read \subseteq visited
    /\ endpoints \subseteq Endpoint /\ forms \cup seen \subseteq Form
    /\ cta \in BOOLEAN /\ session \in BOOLEAN /\ lost \in 0 .. Losses
    /\ state \in {"none", "rendered", "error", "stuck", "empty"}

\* The pages within n links of the entry, of pages that were answered.
Near[n \in Nat] == IF n = 0 THEN {site.start}
                   ELSE Near[n - 1] \cup UNION {Followed(ToSet(Page(p).links)) : p \in Near[n - 1] \cap read}

\* Unless it runs into its page limit, the walk asks for exactly the pages that are
\* within its depth, whatever order links are met in and whichever page is lost.
WithinReach == Cardinality(visited) >= MaxPages \/ visited = Near[MaxDepth]

\* No endpoint but one the model pointed at is in another app of the host: the
\* spec and the bundle are shared, and literals are relative to the app.
Confined == \A e \in endpoints : e.from # "perceived" => InScope(e.p)

\* An endpoint that was only guessed at was answered, and is not a second row of
\* one that another source had found.
VerifiedOnce ==
    \A e \in endpoints : e.from \in {"mined", "conventional"} =>
        /\ e.base \notin {0, 404}
        /\ \A d \in endpoints : d.from # "perceived" /\ d.p = e.p /\ d.m = e.m => d = e

\* A form that a guard took away is not found again by the search for a door that
\* follows the guards (seen_forms remembers it).
RefusedStaysOut == refused \cap forms = {}

\* A source that only points is credited with what no other source found.
CreditIsUnique ==
    \A e \in endpoints :
        /\ e.from = "llm" => ~(e.m = "get" /\ e.raw \in queried)
        /\ e.from = "perceived" => \A d \in endpoints : Same(d, e) => d = e

\* A crawl calls the app empty only if it has no endpoint and every form it ever
\* found was taken away by a guard, wherever the form was.
EmptyIsBare == state = "empty" => endpoints = {} /\ seen \subseteq refused

\* The walk asks for MaxPages pages at most.
InBudget == Cardinality(visited) <= MaxPages

\* discover() stays in the app it was given and in its budget, and what a guard
\* refused stays out, whichever answers are lost on the way.
StaysInBounds == InBudget /\ Confined /\ RefusedStaysOut

\* The Profile that discover() hands on is what was found, each thing once:
\* nothing unverified, nothing credited twice, and not "empty" with a surface.
SurfaceIsSound == TypeOK /\ VerifiedOnce /\ CreditIsUnique /\ EmptyIsBare

\* A crawl comes to its profile, with all pages in reach asked for.
Ends == <>(pc = "done" /\ WithinReach)

\* What the comment on _LOGOUT says of every path.
NeverLogsOut == ~left
-----------------------------------------------------------------------------
(* The inductive invariant of the proofs in CrawlProofs.                     *)

Early == {"pages", "register", "entry", "rest", "observe", "mine", "conventional", "search", "perceive"}

\* What is walked is of the app, and counted.
WalkInv == /\ site \in Sites /\ pc \in Early \cup {"guard", "auth", "assemble", "done"}
           /\ queue \in Seq([p : {p \in Path : InScope(p)}, d : 0 .. MaxDepth])
           /\ IsFiniteSet(visited) /\ InBudget /\ read \subseteq visited /\ queried \subseteq Path

\* Until the guards, every path that was named is of the app or a usual door of its host.
RouteInv == pc \in Early => \A p \in routes \cup dom : p \in Path /\ (InScope(p) \/ Len(p) = 1)

\* The endpoints es are in the app, verified and credited once.
Sound(es) ==
    /\ es \subseteq Endpoint
    /\ \A e \in es : e.from # "perceived" => InScope(e.p)
    /\ \A e \in es : e.from \in {"mined", "conventional"} =>
          e.base \notin {0, 404} /\ \A d \in es : d.from # "perceived" /\ d.p = e.p /\ d.m = e.m => d = e
    /\ \A e \in es : e.from = "llm" => ~(e.m = "get" /\ e.raw \in queried)
    /\ \A e \in es : e.from = "perceived" => \A d \in es : Same(d, e) => d = e

\* There are none before the walk is over, and none of a model before it looks.
EndpointInv == /\ Sound(endpoints)
               /\ pc = "pages" => endpoints = {}
               /\ pc \in Early => \A e \in endpoints : e.from # "perceived"

\* A form that was seen is there or was refused, up to the profile; nothing is refused
\* before the guards.
FormInv == /\ forms \cup seen \subseteq Form
           /\ refused \subseteq seen /\ RefusedStaysOut
           /\ pc \in Early \cup {"guard"} => refused = {}
           /\ pc # "done" => seen \subseteq forms \cup refused /\ state # "empty"
           /\ EmptyIsBare

CountInv == /\ cta \in BOOLEAN /\ session \in BOOLEAN /\ lost \in 0 .. Losses
            /\ state \in {"none", "rendered", "error", "stuck", "empty"}

CrawlInv == WalkInv /\ RouteInv /\ EndpointInv /\ FormInv /\ CountInv
=============================================================================
