---------------------------- MODULE CrawlProofs ----------------------------
(***************************************************************************)
(* What discover() hands on, for every site, page limit, depth and number  *)
(* of lost requests: it stays in the app it was given, and the profile     *)
(* holds what was found, verified, once.                                   *)
(***************************************************************************)
EXTENDS Crawl, FiniteSetTheorems, TLAPS

-----------------------------------------------------------------------------
(* Paths and pages.                                                        *)

\* The constants, and what is known of a site.
LEMMA SiteTyped ==
    ASSUME site \in Sites
    PROVE  /\ IsSite(site) /\ site.start \in Path
           /\ MaxPages \in Nat /\ MaxDepth \in Nat /\ Shown \in Nat /\ Judged \in Nat /\ Losses \in Nat
<1>1. QED BY CrawlAssumption DEF CrawlAssumption, IsSite

\* A path begins with nothing and with itself, and what begins with a path also
\* begins with what that begins with.
LEMMA Prefixes0 ==
    ASSUME NEW p \in Path, NEW q \in Path, NEW r \in Path
    PROVE  /\ IsPrefix(<<>>, p) /\ IsPrefix(p, p) /\ p \o q \in Path /\ IsPrefix(p, p \o q)
           /\ IsPrefix(p, q) /\ IsPrefix(q, r) => IsPrefix(p, r)
<1>1. IsPrefix(<<>>, p) /\ IsPrefix(p, p)
  BY DEF IsPrefix, Path
<1>2. p \o q \in Path /\ IsPrefix(p, p \o q)
  BY DEF IsPrefix, Path
<1>3. ASSUME IsPrefix(p, q), IsPrefix(q, r)
      PROVE  IsPrefix(p, r)
  <2>1. Len(p) <= Len(q) /\ Len(q) <= Len(r) /\ Len(p) \in Nat /\ Len(q) \in Nat /\ Len(r) \in Nat
    BY <1>3 DEF IsPrefix, Path
  <2>2. \A i \in 1 .. Len(p) : p[i] = SubSeq(p, 1, Len(p))[i] /\ q[i] = SubSeq(q, 1, Len(p))[i]
    BY <2>1 DEF Path
  <2>3. \A i \in 1 .. Len(p) : p[i] = q[i]
    BY <1>3, <2>2 DEF IsPrefix
  <2>4. \A i \in 1 .. Len(q) : q[i] = SubSeq(q, 1, Len(q))[i] /\ r[i] = SubSeq(r, 1, Len(q))[i]
    BY <2>1 DEF Path
  <2>5. \A i \in 1 .. Len(q) : q[i] = r[i]
    BY <1>3, <2>4 DEF IsPrefix
  <2>6. \A i \in 1 .. Len(p) : p[i] = r[i]
    BY <2>1, <2>3, <2>5
  <2>7. SubSeq(p, 1, Len(p)) = SubSeq(r, 1, Len(p))
    BY <2>1, <2>6 DEF Path
  <2>8. QED BY <2>1, <2>7 DEF IsPrefix
<1>4. QED BY <1>1, <1>2, <1>3

\* A word is a path of one segment.
LEMMA OneSegment ==
    ASSUME NEW word \in Segments
    PROVE  <<word>> \in Path /\ Len(<<word>>) = 1
<1>1. QED BY DEF Path

\* The entry is in scope, and so is what is below a path in scope.
LEMMA ScopeIs ==
    ASSUME site \in Sites
    PROVE  /\ Scope \in Path /\ InScope(site.start)
           /\ \A p, q \in Path : InScope(p) /\ IsPrefix(p, q) => InScope(q)
<1>1. site.start \in Path /\ <<>> \in Path
  BY SiteTyped DEF Path
<1>2. Scope \in Path /\ InScope(site.start)
  BY <1>1, Prefixes0 DEF Scope, InScope
<1>3. QED BY <1>2, Prefixes0 DEF InScope

\* What the bundle names is put below the entry.
LEMMA UnderInScope ==
    ASSUME site \in Sites, NEW p \in Path
    PROVE  Under(p) \in Path /\ InScope(Under(p))
<1>1. site.start \in Path /\ InScope(site.start)
  BY SiteTyped, ScopeIs
<1>2. CASE IsPrefix(site.start, p)
  BY <1>1, <1>2, ScopeIs DEF Under
<1>3. CASE ~IsPrefix(site.start, p)
  BY <1>1, <1>3, Prefixes0, ScopeIs DEF Under
<1>4. QED BY <1>2, <1>3

\* Every path is answered with a page.
LEMMA PageTyped ==
    ASSUME site \in Sites, NEW p
    PROVE  /\ IsPage(Page(p)) /\ Status(p) \in Nat \ {0}
           /\ Page(p).links \in Seq(Path) /\ Page(p).srcs \subseteq Path /\ Page(p).painted.links \subseteq Path
           /\ Markup(Page(p).forms) /\ Markup(Page(p).painted.forms)
           /\ Page(p).cta \in BOOLEAN /\ Page(p).painted.cta \in BOOLEAN
<1>1. IsSite(site)
  BY SiteTyped
<1>2. Page(p) = site.missing \/ \E q \in DOMAIN site.pages : Page(p) = site.pages[q]
  BY <1>1 DEF Page, Exists, IsSite
<1>3. IsPage(Page(p))
  BY <1>1, <1>2 DEF IsSite
<1>4. QED BY <1>3 DEF IsPage, Status

\* A form of a page is posted to the page or to a path of the app.
LEMMA FormsTyped ==
    ASSUME NEW p \in Path, NEW fs, Markup(fs)
    PROVE  FormsOf(p, fs) \subseteq Form /\ \A f \in FormsOf(p, fs) : f.act = p \/ InScope(f.act)
<1> SUFFICES ASSUME NEW f \in FormsOf(p, fs)
             PROVE  f \in Form /\ (f.act = p \/ InScope(f.act))
  OBVIOUS
<1>1. PICK g \in fs : /\ g.bare \/ g.act \in Followed({g.act})
                      /\ f = [act |-> IF g.bare THEN p ELSE g.act, kind |-> g.kind]
  BY DEF FormsOf
<1>2. g.act \in Path /\ g.kind \in Kinds /\ g.bare \in BOOLEAN
  BY DEF Markup
<1>3. f.act = (IF g.bare THEN p ELSE g.act) /\ f \in Form
  BY <1>1, <1>2 DEF Form
<1>4. QED BY <1>1, <1>2, <1>3 DEF Followed

-----------------------------------------------------------------------------
(* Endpoints.                                                              *)

\* What a pass over the endpoints may change of one: not what it is, nor who found it,
\* and not the answer of a guess that was verified.
Keeps(x, e) == /\ x \in Endpoint
               /\ x.m = e.m /\ x.p = e.p /\ x.raw = e.raw /\ x.from = e.from
               /\ x.from \in {"mined", "conventional"} => x.base = e.base

\* Sound endpoints stay sound under such a pass.
LEMMA PassSound ==
    ASSUME NEW es, Sound(es), NEW f, \A e \in es : Keeps(f[e], e)
    PROVE  Sound({f[e] : e \in es})
<1> DEFINE fs == {f[e] : e \in es}
<1>1. fs \subseteq Endpoint
  BY DEF Keeps
<1>2. ASSUME NEW x \in fs
      PROVE  \E e \in es : x = f[e] /\ Keeps(x, e)
  OBVIOUS
<1>3. \A x \in fs : x.from # "perceived" => InScope(x.p)
  BY <1>2 DEF Keeps, Sound
<1>4. ASSUME NEW x \in fs, x.from \in {"mined", "conventional"}
      PROVE  x.base \notin {0, 404} /\ \A y \in fs : y.from # "perceived" /\ y.p = x.p /\ y.m = x.m => y = x
  <2>1. PICK e \in es : x = f[e] /\ Keeps(x, e)
    BY <1>2
  <2>2. e.from \in {"mined", "conventional"} /\ x.base = e.base /\ e.base \notin {0, 404}
    BY <1>4, <2>1 DEF Keeps, Sound
  <2>3. ASSUME NEW y \in fs, y.from # "perceived", y.p = x.p, y.m = x.m
        PROVE  y = x
    <3>1. PICK d \in es : y = f[d] /\ Keeps(y, d)
      BY <1>2
    <3>2. d.from # "perceived" /\ d.p = e.p /\ d.m = e.m
      BY <2>1, <2>3, <3>1 DEF Keeps
    <3>3. d = e
      BY <2>2, <3>2 DEF Sound
    <3>4. QED BY <2>1, <3>1, <3>3
  <2>4. QED BY <2>2, <2>3
<1>5. \A x \in fs : x.from = "llm" => ~(x.m = "get" /\ x.raw \in queried)
  BY <1>2 DEF Keeps, Sound
<1>6. ASSUME NEW x \in fs, x.from = "perceived", NEW y \in fs, Same(y, x)
      PROVE  y = x
  <2>1. PICK e \in es : x = f[e] /\ Keeps(x, e)
    BY <1>2
  <2>2. PICK d \in es : y = f[d] /\ Keeps(y, d)
    BY <1>2
  <2>3. e.from = "perceived" /\ Same(d, e)
    BY <1>6, <2>1, <2>2 DEF Keeps, Same
  <2>4. d = e
    BY <2>3 DEF Sound
  <2>5. QED BY <2>1, <2>2, <2>4
<1> HIDE DEF fs
<1>7. Sound(fs)
  BY <1>1, <1>3, <1>4, <1>5, <1>6 DEF Sound
<1>8. QED BY <1>7 DEF fs

\* Endpoints that are dropped do no harm.
LEMMA SubSound ==
    ASSUME NEW es, Sound(es), NEW fs \in SUBSET es
    PROVE  Sound(fs)
<1>1. QED BY DEF Sound

\* The next state sees the same of the endpoints when the walk is over.
LEMMA SoundNext ==
    ASSUME NEW es, Sound(es), es = endpoints', site' = site, queried' = queried
    PROVE  Sound(endpoints)'
<1>1. Scope' = Scope /\ \A p : InScope(p)' = InScope(p)
  BY DEF Scope, InScope
<1>2. QED BY <1>1 DEF Sound, InScope, Same

\* A new endpoint, without inputs.
LEMMA FoundTyped ==
    ASSUME NEW from \in Origins, NEW m \in {"get", "post"}, NEW p \in Path
    PROVE  /\ Found(from, m, p) \in Endpoint
           /\ Found(from, m, p).m = m /\ Found(from, m, p).p = p /\ Found(from, m, p).raw = p
           /\ Found(from, m, p).from = from /\ Found(from, m, p).base = 0
<1>1. QED BY DEF Found, Endpoint

\* A baseline changes the answer of the endpoints that were asked.
Judged1(e, asked, gone) == [e EXCEPT !.base = IF e \in asked /\ e.p \notin gone THEN Status(e.p) ELSE @]

LEMMA JudgeTyped ==
    ASSUME site \in Sites, NEW e \in Endpoint, NEW asked, NEW gone
    PROVE  LET x == Judged1(e, asked, gone)
           IN  /\ x \in Endpoint /\ x.m = e.m /\ x.p = e.p /\ x.raw = e.raw /\ x.from = e.from
               /\ e \notin asked => x = e
<1>1. Status(e.p) \in Nat
  BY PageTyped
<1>2. QED BY <1>1 DEF Judged1, Endpoint

\* Merging an endpoint with its twins.
Merged(e, more) ==
    LET twins == {d \in more : Same(d, e)}
    IN  [e EXCEPT !.takes = @ \/ \E d \in twins : d.takes,
                  !.from  = IF \E d \in twins : d.from = "crawl" THEN "crawl" ELSE @]

LEMMA MergeTyped ==
    ASSUME NEW e \in Endpoint, NEW more
    PROVE  LET x == Merged(e, more)
           IN  /\ x \in Endpoint /\ x.m = e.m /\ x.p = e.p /\ x.raw = e.raw /\ x.base = e.base
               /\ x.from \in {e.from, "crawl"}
               /\ (\E d \in more : Same(d, e) /\ d.from = "crawl") => x.from = "crawl"
               /\ (\A d \in more : d.from # "crawl") => x.from = e.from
<1> DEFINE twins == {d \in more : Same(d, e)}
           takes == e.takes \/ \E d \in twins : d.takes
           from  == IF \E d \in twins : d.from = "crawl" THEN "crawl" ELSE e.from
<1>1. takes \in BOOLEAN /\ from \in Origins /\ from \in {e.from, "crawl"}
  BY DEF Endpoint, Origins
<1>2. Merged(e, more) = [e EXCEPT !.takes = takes, !.from = from]
  BY DEF Merged
<1>3. (\E d \in more : Same(d, e) /\ d.from = "crawl") => from = "crawl"
  OBVIOUS
<1>4. (\A d \in more : d.from # "crawl") => from = e.from
  OBVIOUS
<1> HIDE DEF takes, from
<1>5. QED BY <1>1, <1>2, <1>3, <1>4 DEF Endpoint

-----------------------------------------------------------------------------
(* What a step leaves alone.                                               *)

Late == {"guard", "auth", "assemble", "done"}

\* The parts of the invariant, for a step that does not touch what they speak of.
LEMMA WalkRest ==
    ASSUME WalkInv, UNCHANGED <<site, walk>>, pc' \in Early \cup Late
    PROVE  WalkInv'
<1>1. UNCHANGED <<site, queue, visited, read, queried>>
  BY DEF walk
<1>2. \A p : InScope(p)' = InScope(p)
  BY <1>1 DEF InScope, Scope
<1>3. QED BY <1>1, <1>2 DEF WalkInv, InBudget, Late

LEMMA RouteRest ==
    ASSUME RouteInv, site' = site, pc' \in Early => pc \in Early,
           pc' \in Early => \A p \in (routes' \cup dom') \ (routes \cup dom) : p \in Path /\ (InScope(p) \/ Len(p) = 1)
    PROVE  RouteInv'
<1>1. \A p : InScope(p)' = InScope(p)
  BY DEF InScope, Scope
<1>2. QED BY <1>1 DEF RouteInv

LEMMA EndpointRest ==
    ASSUME EndpointInv, UNCHANGED <<site, queried, endpoints>>, pc' = "pages" => pc = "pages",
           pc' \in Early => pc \in Early
    PROVE  EndpointInv'
<1>1. Sound(endpoints)'
  BY SoundNext DEF EndpointInv
<1>2. QED BY <1>1 DEF EndpointInv

LEMMA EndpointNew ==
    ASSUME Sound(endpoints'), UNCHANGED <<site, queried>>, pc' # "pages",
           pc' \in Early => \A e \in endpoints' : e.from # "perceived"
    PROVE  EndpointInv'
<1>1. Sound(endpoints)'
  BY SoundNext
<1>2. QED BY <1>1 DEF EndpointInv

LEMMA FormRest ==
    ASSUME FormInv, UNCHANGED <<forms, seen, refused>>, pc # "done", state' # "empty",
           pc' \in Early \cup {"guard"} => pc \in Early \cup {"guard"}
    PROVE  FormInv'
<1>1. QED BY DEF FormInv, RefusedStaysOut, EmptyIsBare

\* Forms that are harvested are new, so none comes back that was refused.
LEMMA FormHarvest ==
    ASSUME FormInv, pc # "done", NEW found \in SUBSET Form, NEW paths, Harvest(found, paths), refused' = refused,
           state' # "empty", pc' \in Early \cup {"guard"} => pc \in Early \cup {"guard"}
    PROVE  FormInv'
<1>1. forms' = forms \cup (found \ seen) /\ seen' = seen \cup found
  BY DEF Harvest
<1>2. (forms \cup seen)' \subseteq Form
  BY <1>1 DEF FormInv
<1>3. refused' \subseteq seen' /\ refused' \cap forms' = {}
  BY <1>1 DEF FormInv, RefusedStaysOut
<1>4. seen' \subseteq forms' \cup refused'
  BY <1>1 DEF FormInv
<1>5. QED BY <1>2, <1>3, <1>4 DEF FormInv, RefusedStaysOut, EmptyIsBare

\* The routes of what was harvested.
LEMMA HarvestRoutes ==
    ASSUME NEW found, NEW paths, Harvest(found, paths), NEW p \in routes' \ routes
    PROVE  p \in paths \/ \E f \in found : p = f.act
<1>1. QED BY DEF Harvest

\* Requests are counted, and so many are lost.
LEMMA SentCounts ==
    ASSUME NEW ps, NEW qs, NEW gone \in Gone(ps), Sent(qs, gone)
    PROVE  lost' \in 0 .. Losses
<1>1. QED BY DEF Gone, Sent

-----------------------------------------------------------------------------
(* The walk.                                                               *)

Entry == [p : {p \in Path : InScope(p)}, d : 0 .. MaxDepth]

\* The head of the queue is a page of the app.
LEMMA QueueTyped ==
    ASSUME WalkInv, More
    PROVE  /\ queue \in Seq(Entry) /\ Tail(queue) \in Seq(Entry)
           /\ Head(queue).p \in Path /\ InScope(Head(queue).p) /\ Head(queue).d \in 0 .. MaxDepth
<1>1. queue \in Seq(Entry) /\ queue # <<>>
  BY DEF WalkInv, More, Entry
<1>2. Head(queue) \in Entry /\ Tail(queue) \in Seq(Entry)
  BY <1>1
<1>3. QED BY <1>1, <1>2 DEF Entry

\* One page more is within the budget.
LEMMA VisitOne ==
    ASSUME WalkInv, More, NEW p, visited' = visited \cup {p}
    PROVE  IsFiniteSet(visited') /\ InBudget'
<1>1. IsFiniteSet(visited) /\ Cardinality(visited) \in Nat /\ Cardinality(visited) < MaxPages /\ MaxPages \in Nat
  BY FS_CardinalityType, SiteTyped DEF WalkInv, More
<1>2. IsFiniteSet(visited \cup {p})
      /\ Cardinality(visited \cup {p}) = IF p \in visited THEN Cardinality(visited) ELSE Cardinality(visited) + 1
  BY <1>1, FS_AddElement
<1>3. Cardinality(visited \cup {p}) <= MaxPages
  BY <1>1, <1>2
<1>4. QED BY <1>2, <1>3 DEF InBudget

\* A page of the queue is passed over.
LEMMA SkipKeeps == ASSUME CrawlInv, Skip PROVE CrawlInv'
<1> DEFINE p == Head(queue).p
<1>1. /\ pc = "pages" /\ More /\ visited' = visited \cup {p} /\ queue' = Tail(queue)
      /\ UNCHANGED <<site, pc, read, queried, surface, browser, landing, refused>>
  BY DEF Skip
<1>2. WalkInv /\ RouteInv /\ EndpointInv /\ FormInv /\ CountInv
  BY DEF CrawlInv
<1>3. WalkInv'
  <2>1. \A q : InScope(q)' = InScope(q)
    BY <1>1 DEF InScope, Scope
  <2>2. queue' \in Seq(Entry)
    BY <1>1, <1>2, QueueTyped
  <2>3. IsFiniteSet(visited') /\ InBudget'
    BY <1>1, <1>2, VisitOne
  <2>4. QED BY <1>1, <1>2, <2>1, <2>2, <2>3 DEF WalkInv, Entry
<1>4. RouteInv' /\ EndpointInv' /\ FormInv'
  BY <1>1, <1>2, RouteRest, EndpointRest, FormRest DEF surface, browser, CountInv, FormInv
<1>5. lost' \in 0 .. Losses
  <2>1. lost' = lost + Cardinality({p} \ visited) /\ (p \in visited \/ lost < Losses)
    BY DEF Skip, Sent
  <2>2. lost \in 0 .. Losses /\ Losses \in Nat
    BY <1>2, SiteTyped DEF CountInv, WalkInv
  <2>3. Cardinality({}) = 0 /\ Cardinality({p}) = 1
    BY FS_EmptySet, FS_Singleton
  <2>4. CASE p \in visited
    <3>1. {p} \ visited = {}
      BY <2>4
    <3>2. QED BY <2>1, <2>2, <2>3, <3>1
  <2>5. CASE p \notin visited
    <3>1. {p} \ visited = {p}
      BY <2>5
    <3>2. QED BY <2>1, <2>2, <2>3, <2>5, <3>1
  <2>6. QED BY <2>4, <2>5
<1>6. CountInv'
  BY <1>1, <1>2, <1>5 DEF CountInv, surface, browser
<1>7. QED BY <1>3, <1>4, <1>6 DEF CrawlInv

\* A page is read.
LEMMA FetchKeeps == ASSUME CrawlInv, Fetch PROVE CrawlInv'
<1> DEFINE p == Head(queue).p
           d == Head(queue).d
           linked == IF d < MaxDepth THEN Followed(ToSet(Page(p).links)) ELSE {}
           found == FormsOf(p, Page(p).forms)
           paths == {p} \cup Followed(Page(p).srcs) \cup linked
<1>1. /\ pc = "pages" /\ More /\ visited' = visited \cup {p} /\ p \notin visited
      /\ UNCHANGED <<site, pc, endpoints, browser, landing, refused>>
      /\ Sent({p}, {})
  BY DEF Fetch
<1>2. WalkInv /\ RouteInv /\ EndpointInv /\ FormInv /\ CountInv /\ site \in Sites
  BY DEF CrawlInv, WalkInv
<1>3. p \in Path /\ InScope(p) /\ d \in 0 .. MaxDepth /\ Tail(queue) \in Seq(Entry) /\ MaxDepth \in Nat
  BY <1>1, <1>2, QueueTyped, SiteTyped
<1>4. /\ Page(p).links \in Seq(Path) /\ Page(p).srcs \subseteq Path /\ Markup(Page(p).forms)
      /\ Page(p).cta \in BOOLEAN
  BY <1>2, PageTyped
<1>5. linked \subseteq {q \in Path : InScope(q)} /\ (linked # {} => d + 1 \in 0 .. MaxDepth)
  BY <1>3, <1>4 DEF Followed, ToSet
<1>6. \A q \in paths : q \in Path /\ InScope(q)
  BY <1>3, <1>4, <1>5 DEF Followed
<1>7. found \subseteq Form /\ \A f \in found : f.act \in Path /\ InScope(f.act)
  <2>1. found \subseteq Form /\ \A f \in found : f.act = p \/ InScope(f.act)
    BY <1>3, <1>4, FormsTyped
  <2>2. QED BY <1>3, <2>1 DEF Form
<1>8. queue' \in Seq(Entry)
  <2>1. CASE queue' = Tail(queue)
    BY <1>3, <2>1
  <2>2. CASE Enqueue(Page(p).links, linked \ visited', d + 1)
    <3> DEFINE links == Page(p).links
               at == {i \in DOMAIN links : links[i] \in linked \ visited'}
    <3>1. PICK k \in InOrder(at) : queue' = Tail(queue) \o [i \in DOMAIN k |-> [p |-> links[k[i]], d |-> d + 1]]
      BY <2>2 DEF Enqueue
    <3>2. k \in [1 .. Cardinality(at) -> at] /\ DOMAIN k = 1 .. Cardinality(at)
      BY DEF InOrder
    <3>3. Cardinality(at) \in Nat
      <4>1. at \subseteq 1 .. Len(links) /\ Len(links) \in Nat
        BY <1>4
      <4>2. IsFiniteSet(1 .. Len(links))
        BY <4>1, FS_Interval, 1 \in Int
      <4>3. IsFiniteSet(at)
        BY <4>1, <4>2, FS_Subset
      <4>4. QED BY <4>3, FS_CardinalityType
    <3>4. \A i \in DOMAIN k : [p |-> links[k[i]], d |-> d + 1] \in Entry
      BY <1>5, <3>2 DEF Entry
    <3>5. [i \in DOMAIN k |-> [p |-> links[k[i]], d |-> d + 1]] \in Seq(Entry)
      <4> DEFINE f == [i \in DOMAIN k |-> [p |-> links[k[i]], d |-> d + 1]]
      <4>1. f \in [1 .. Cardinality(at) -> Entry]
        BY <3>2, <3>4
      <4> HIDE DEF f, at
      <4>2. f \in Seq(Entry)
        BY <3>3, <4>1
      <4>3. QED BY <4>2 DEF f
    <3> DEFINE more == [i \in DOMAIN k |-> [p |-> links[k[i]], d |-> d + 1]]
               rest == Tail(queue)
    <3>6. queue' = rest \o more /\ rest \in Seq(Entry) /\ more \in Seq(Entry)
      BY <1>3, <3>1, <3>5
    <3> HIDE DEF more, rest
    <3>7. QED BY <3>6
  <2>3. QED BY <2>1, <2>2 DEF Fetch
<1>9. queried' \subseteq Path /\ read' \subseteq visited' /\ cta' \in BOOLEAN
  BY <1>1, <1>2, <1>4, <1>5 DEF Fetch, WalkInv, CountInv
<1>10. WalkInv'
  <2>1. \A q : InScope(q)' = InScope(q)
    BY <1>1 DEF InScope, Scope
  <2>2. IsFiniteSet(visited') /\ InBudget'
    BY <1>1, <1>2, VisitOne
  <2>3. QED BY <1>1, <1>2, <1>8, <1>9, <2>1, <2>2 DEF WalkInv, Entry
<1>11. Harvest(found, paths) \/ (routes' = routes \cup {p} /\ UNCHANGED <<forms, seen>>)
  BY DEF Fetch
<1>12. RouteInv'
  <2>1. ASSUME NEW q \in routes' \ routes
        PROVE  q \in Path /\ InScope(q)
    <3>1. CASE Harvest(found, paths)
      <4>1. q \in paths \/ \E f \in found : q = f.act
        BY <2>1, <3>1, HarvestRoutes
      <4>2. QED BY <1>6, <1>7, <4>1
    <3>2. CASE routes' = routes \cup {p}
      BY <1>3, <2>1, <3>2
    <3>3. QED BY <1>11, <3>1, <3>2
  <2>2. QED BY <1>1, <1>2, <2>1, RouteRest DEF browser
<1>13. EndpointInv'
  <2>1. endpoints' = {} /\ pc' = "pages"
    BY <1>1, <1>2 DEF EndpointInv
  <2>2. QED BY <2>1 DEF EndpointInv, Sound
<1>14. FormInv'
  <2>1. pc # "done" /\ pc' = pc /\ refused' = refused /\ state' # "empty"
    BY <1>1, <1>2 DEF browser, FormInv
  <2>2. QED BY <1>2, <1>7, <1>11, <2>1, FormHarvest, FormRest
<1>15. CountInv'
  <2>1. lost' = lost
    <3>1. lost' = lost + Cardinality({}) /\ Cardinality({}) = 0 /\ lost \in 0 .. Losses /\ Losses \in Nat
      BY <1>1, <1>2, FS_EmptySet, SiteTyped DEF Sent, CountInv
    <3>2. QED BY <3>1
  <2>2. QED BY <1>1, <1>2, <1>9, <2>1 DEF CountInv, browser
<1>16. QED BY <1>10, <1>12, <1>13, <1>14, <1>15 DEF CrawlInv

\* An endpoint of the merged sources: whichever found it, no guess and no model did.
LEMMA MergeSources ==
    ASSUME NEW es, NEW more, es \cup more \subseteq Endpoint,
           \A e \in es \cup more : e.from \in {"crawl", "llm"}
    PROVE  Merge(es, more) \subseteq Endpoint /\ \A e \in Merge(es, more) : e.from \in {"crawl", "llm"}
<1> SUFFICES ASSUME NEW x \in Merge(es, more)
             PROVE  x \in Endpoint /\ x.from \in {"crawl", "llm"}
  OBVIOUS
<1>1. (\E e \in es : x = Merged(e, more)) \/ x \in more
  BY DEF Merge, Merged
<1>2. QED BY <1>1, MergeTyped

\* An endpoint with the key of a page linked with a query is the crawl's.
LEMMA MergeLinks ==
    ASSUME NEW es, NEW more, es \cup more \subseteq Endpoint, \A e \in more : e.from = "crawl",
           NEW x \in Merge(es, more), x.from = "llm"
    PROVE  ~\E e \in more : Same(e, x)
<1>1. (\E e \in es : x = Merged(e, more)) \/ x \in more
  BY DEF Merge, Merged
<1>2. PICK e \in es : x = Merged(e, more)
  BY <1>1
<1>3. x.m = e.m /\ x.raw = e.raw /\ ((\E d \in more : Same(d, e) /\ d.from = "crawl") => x.from = "crawl")
  BY <1>2, MergeTyped
<1>4. QED BY <1>3 DEF Same

\* What the spec, the bundle, the hints and the links of the walk come to.
LEMMA IngestSound ==
    ASSUME WalkInv, NEW deaf,
           NEW es, es = {e \in Merge(Merge(Merge(Served(deaf), Calls(deaf)), Hints),
                                     {[Found("crawl", "get", p) EXCEPT !.takes = TRUE] : p \in queried}) :
                           InScope(e.p) /\ ~Braced(e.p)}
    PROVE  Sound(es) /\ \A e \in es : e.from \in {"crawl", "llm"}
<1> DEFINE links == {[Found("crawl", "get", p) EXCEPT !.takes = TRUE] : p \in queried}
           served == Merge(Merge(Served(deaf), Calls(deaf)), Hints)
<1>1. IsSite(site) /\ queried \subseteq Path
  BY SiteTyped DEF WalkInv
<1>2. Served(deaf) \subseteq Endpoint /\ \A e \in Served(deaf) : e.from \in {"crawl", "llm"}
  BY <1>1 DEF Served, IsSite
<1>3. Calls(deaf) \subseteq Endpoint /\ \A e \in Calls(deaf) : e.from \in {"crawl", "llm"}
  <2>1. \A p \in site.calls : Found("crawl", "get", p) \in Endpoint /\ Found("crawl", "get", p).from = "crawl"
    BY <1>1, FoundTyped DEF IsSite, Origins
  <2>2. QED BY <2>1 DEF Calls
<1>4. Hints \subseteq Endpoint /\ \A e \in Hints : e.from \in {"crawl", "llm"}
  BY <1>1 DEF Hints, IsSite, Endpoint, Origins
<1>5. served \subseteq Endpoint /\ \A e \in served : e.from \in {"crawl", "llm"}
  BY <1>2, <1>3, <1>4, MergeSources
<1> DEFINE Link(p) == [Found("crawl", "get", p) EXCEPT !.takes = TRUE]
<1>6. \A p \in queried : /\ Link(p) \in links /\ Link(p) \in Endpoint
                         /\ Link(p).from = "crawl" /\ Link(p).m = "get" /\ Link(p).raw = p
  BY <1>1 DEF Found, Endpoint, Origins
<1>7. links \subseteq Endpoint /\ \A e \in links : e.from = "crawl"
  <2>1. \A l \in links : \E p \in queried : l = Link(p)
    OBVIOUS
  <2> HIDE DEF links, Link
  <2>2. QED BY <1>6, <2>1
<1> HIDE DEF Link
<1> HIDE DEF links, served
<1>8. es \subseteq Merge(served, links) /\ \A e \in es : InScope(e.p)
  BY DEF links, served
<1>9. Merge(served, links) \subseteq Endpoint /\ \A e \in Merge(served, links) : e.from \in {"crawl", "llm"}
  BY <1>5, <1>7, MergeSources
<1>10. ASSUME NEW e \in es, e.from = "llm", e.m = "get", e.raw \in queried
       PROVE  FALSE
  <2>1. ~\E l \in links : Same(l, e)
    BY <1>5, <1>7, <1>8, <1>10, MergeLinks
  <2>2. QED BY <1>6, <1>10, <2>1 DEF Same
<1>11. QED BY <1>8, <1>9, <1>10 DEF Sound

\* Sound endpoints are sound when some have been asked for their baseline.
LEMMA JudgeSound ==
    ASSUME site \in Sites, NEW es, Sound(es), NEW asked, NEW gone,
           \A e \in asked : e.from \notin {"mined", "conventional"}
    PROVE  /\ Sound(Judge(es, asked, gone))
           /\ \A x \in Judge(es, asked, gone) : \E e \in es : x.p = e.p /\ x.m = e.m /\ x.from = e.from
<1> DEFINE f == [e \in es |-> Judged1(e, asked, gone)]
<1>1. Judge(es, asked, gone) = {f[e] : e \in es}
  BY DEF Judge, Judged1
<1>2. ASSUME NEW e \in es
      PROVE  Keeps(f[e], e)
  <2>1. e \in Endpoint /\ f[e] = Judged1(e, asked, gone)
    BY DEF Sound
  <2> HIDE DEF f
  <2>2. f[e] \in Endpoint /\ f[e].m = e.m /\ f[e].p = e.p /\ f[e].raw = e.raw /\ f[e].from = e.from
        /\ (e \notin asked => f[e] = e)
    BY <2>1, JudgeTyped
  <2>3. QED BY <2>2 DEF Keeps
<1> HIDE DEF f
<1>3. Sound({f[e] : e \in es})
  BY <1>2, PassSound
<1>4. QED BY <1>1, <1>2, <1>3 DEF Keeps

\* The spec, the bundle, the hints and the links are read, and some of it is asked for.
LEMMA IngestKeeps == ASSUME CrawlInv, Ingest PROVE CrawlInv'
<1>1. /\ pc = "pages" /\ pc' \in {"register", "guard"}
      /\ UNCHANGED <<site, walk, forms, seen, cta, browser, landing, refused>>
  BY DEF Ingest
<1>2. WalkInv /\ RouteInv /\ EndpointInv /\ FormInv /\ CountInv /\ site \in Sites
  BY DEF CrawlInv, WalkInv
<1>3. PICK deaf \in SUBSET {Document, site.bundle} :
         LET links == {[Found("crawl", "get", p) EXCEPT !.takes = TRUE] : p \in queried}
             es    == {e \in Merge(Merge(Merge(Served(deaf), Calls(deaf)), Hints), links) : InScope(e.p) /\ ~Braced(e.p)}
         IN  \E asked \in First(Judged, es) : \E gone \in SUBSET Paths(asked) :
               /\ deaf \cup gone \in Gone({Document, site.bundle} \cup Paths(asked))
               /\ endpoints' = Judge(es, asked, gone)
               /\ routes' = routes \cup Paths(es)
               /\ Sent(Paths(asked), deaf \cup gone)
  BY DEF Ingest
<1> DEFINE es == {e \in Merge(Merge(Merge(Served(deaf), Calls(deaf)), Hints),
                              {[Found("crawl", "get", p) EXCEPT !.takes = TRUE] : p \in queried}) :
                     InScope(e.p) /\ ~Braced(e.p)}
<1>4. PICK asked \in First(Judged, es) : \E gone \in SUBSET Paths(asked) :
               /\ deaf \cup gone \in Gone({Document, site.bundle} \cup Paths(asked))
               /\ endpoints' = Judge(es, asked, gone)
               /\ routes' = routes \cup Paths(es)
               /\ Sent(Paths(asked), deaf \cup gone)
  BY <1>3
<1>5. PICK gone \in SUBSET Paths(asked) :
               /\ deaf \cup gone \in Gone({Document, site.bundle} \cup Paths(asked))
               /\ endpoints' = Judge(es, asked, gone)
               /\ routes' = routes \cup Paths(es)
               /\ Sent(Paths(asked), deaf \cup gone)
  BY <1>4
<1>6. Sound(es) /\ \A e \in es : e.from \in {"crawl", "llm"}
  BY <1>2, IngestSound
<1> HIDE DEF es
<1>7. asked \subseteq es
  BY DEF First
<1>8. Sound(endpoints') /\ \A x \in endpoints' : x.from # "perceived"
  <2>1. \A e \in asked : e.from \notin {"mined", "conventional"}
    BY <1>6, <1>7
  <2>2. QED BY <1>2, <1>5, <1>6, <2>1, JudgeSound
<1>9. \A p \in Paths(es) : p \in Path /\ InScope(p)
  BY <1>6 DEF Paths, Sound, Endpoint
<1>10. UNCHANGED <<queried, dom, state, session>> /\ pc' \in Early \cup Late
  BY <1>1 DEF walk, browser, Early, Late
<1>11. WalkInv' /\ EndpointInv'
  BY <1>1, <1>2, <1>8, <1>10, WalkRest, EndpointNew
<1>12. RouteInv'
  <2>1. pc \in Early
    BY <1>1 DEF Early
  <2>2. QED BY <1>1, <1>2, <1>5, <1>9, <1>10, <2>1, RouteRest
<1>13. FormInv'
  BY <1>1, <1>2, <1>10, FormRest DEF Early, FormInv
<1>14. CountInv'
  <2>1. lost' \in 0 .. Losses
    BY <1>5, SentCounts
  <2>2. QED BY <1>1, <1>2, <1>10, <2>1 DEF CountInv
<1>15. QED BY <1>11, <1>12, <1>13, <1>14 DEF CrawlInv

-----------------------------------------------------------------------------
(* The browser.                                                            *)

\* An account of the crawl's own.
LEMMA RegisterKeeps == ASSUME CrawlInv, Register PROVE CrawlInv'
<1>1. /\ pc = "register" /\ pc' = "entry" /\ session' \in BOOLEAN
      /\ UNCHANGED <<site, walk, surface, dom, state, landing, hist>>
  BY DEF Register
<1>2. WalkInv /\ RouteInv /\ EndpointInv /\ FormInv /\ CountInv
  BY DEF CrawlInv
<1>3. UNCHANGED <<site, queried, routes, forms, seen, endpoints, cta, dom, state, refused, lost>>
  BY <1>1 DEF walk, surface, hist
<1>4. pc \in Early /\ pc' \in Early /\ pc' # "pages" /\ pc # "done"
  BY <1>1 DEF Early
<1>5. WalkInv' /\ RouteInv' /\ EndpointInv' /\ FormInv'
  BY <1>1, <1>2, <1>3, <1>4, WalkRest, RouteRest, EndpointRest, FormRest DEF FormInv
<1>6. CountInv'
  BY <1>1, <1>2, <1>3 DEF CountInv
<1>7. QED BY <1>5, <1>6 DEF CrawlInv

\* The entry is rendered, or fails for good, or there is no browser.
LEMMA RenderEntryKeeps == ASSUME CrawlInv, RenderEntry PROVE CrawlInv'
<1>1. pc = "entry" /\ UNCHANGED <<site, walk, landing, hist>>
  BY DEF RenderEntry
<1>2. WalkInv /\ RouteInv /\ EndpointInv /\ FormInv /\ CountInv /\ site \in Sites
  BY DEF CrawlInv, WalkInv
<1>3. UNCHANGED <<queried, refused, lost>> /\ pc \in Early /\ pc # "done"
  BY <1>1 DEF walk, hist, Early
<1>4. CASE pc' = "guard" /\ UNCHANGED <<surface, browser>>
  <2>1. UNCHANGED <<routes, forms, seen, endpoints, cta, dom, session, state>> /\ pc' \in Late
    BY <1>4 DEF surface, browser, Late
  <2>2. WalkInv' /\ RouteInv' /\ EndpointInv' /\ FormInv'
    BY <1>1, <1>2, <1>3, <1>4, <2>1, WalkRest, RouteRest, EndpointRest, FormRest DEF FormInv
  <2>3. CountInv'
    BY <1>2, <1>3, <2>1 DEF CountInv
  <2>4. QED BY <2>2, <2>3 DEF CrawlInv
<1>5. CASE /\ site.canvas \in {"error", "stuck"} /\ pc' = "done" /\ state' = site.canvas
           /\ forms' = {} /\ endpoints' = {} /\ routes' = {}
           /\ UNCHANGED <<seen, cta, dom, session>>
  <2>1. pc' \notin Early /\ pc' \in Late /\ pc' \notin Early \cup {"guard"}
    BY <1>5 DEF Early, Late
  <2>2. WalkInv' /\ RouteInv'
    BY <1>1, <1>2, <2>1, WalkRest DEF RouteInv
  <2>3. EndpointInv'
    BY <1>5 DEF EndpointInv, Sound
  <2>4. FormInv'
    BY <1>2, <1>3, <1>5, <2>1 DEF FormInv, RefusedStaysOut, EmptyIsBare
  <2>5. CountInv'
    BY <1>2, <1>3, <1>5 DEF CountInv
  <2>6. QED BY <2>2, <2>3, <2>4, <2>5 DEF CrawlInv
<1>6. CASE /\ site.canvas \in {"none", "rendered"} /\ pc' = "rest" /\ state' = site.canvas
           /\ dom' = {site.start}
           /\ routes' = routes \cup Followed(Page(site.start).painted.links)
           /\ UNCHANGED <<forms, seen, endpoints, cta, session>>
  <2>1. pc' \in Early /\ pc' # "pages" /\ state' # "empty"
    BY <1>6 DEF Early
  <2>2. site.start \in Path /\ InScope(site.start)
    BY <1>2, SiteTyped, ScopeIs
  <2>3. \A p \in Followed(Page(site.start).painted.links) : p \in Path /\ InScope(p)
    BY <1>2, PageTyped DEF Followed
  <2>4. WalkInv' /\ EndpointInv' /\ FormInv'
    BY <1>1, <1>2, <1>3, <1>6, <2>1, WalkRest, EndpointRest, FormRest DEF Early
  <2>5. RouteInv'
    BY <1>1, <1>2, <1>3, <1>6, <2>2, <2>3, RouteRest
  <2>6. CountInv'
    BY <1>2, <1>3, <1>6 DEF CountInv
  <2>7. QED BY <2>4, <2>5, <2>6 DEF CrawlInv
<1>7. QED BY <1>4, <1>5, <1>6 DEF RenderEntry

\* More routes are rendered.
LEMMA RenderRestKeeps == ASSUME CrawlInv, RenderRest PROVE CrawlInv'
<1>1. pc = "rest" /\ pc' = "observe" /\ UNCHANGED <<site, walk, endpoints, session, state, landing, refused>>
  BY DEF RenderRest
<1>2. WalkInv /\ RouteInv /\ EndpointInv /\ FormInv /\ CountInv /\ site \in Sites
  BY DEF CrawlInv, WalkInv
<1>3. queried' = queried /\ pc \in Early /\ pc' \in Early /\ pc # "done"
  BY <1>1 DEF walk, Early
<1>4. PICK extra \in First(Shown, {r \in routes \ {site.start} : r # site.bundle}) : \E gone \in Gone(extra) :
         LET asked == extra \cup ((Usual \cup Inner) \ visited)
             shown == dom \cup (asked \ gone)
         IN  /\ dom' = shown
             /\ cta' = (cta \/ \E p \in shown : Page(p).painted.cta)
             /\ Harvest(UNION {FormsOf(p, Page(p).painted.forms) : p \in shown},
                        UNION {Followed(Page(p).painted.links) : p \in shown})
             /\ Sent({}, gone)
  BY DEF RenderRest
<1>5. PICK gone \in Gone(extra) :
         LET asked == extra \cup ((Usual \cup Inner) \ visited)
             shown == dom \cup (asked \ gone)
         IN  /\ dom' = shown
             /\ cta' = (cta \/ \E p \in shown : Page(p).painted.cta)
             /\ Harvest(UNION {FormsOf(p, Page(p).painted.forms) : p \in shown},
                        UNION {Followed(Page(p).painted.links) : p \in shown})
             /\ Sent({}, gone)
  BY <1>4
<1> DEFINE shown == dom \cup ((extra \cup ((Usual \cup Inner) \ visited)) \ gone)
           found == UNION {FormsOf(p, Page(p).painted.forms) : p \in shown}
           paths == UNION {Followed(Page(p).painted.links) : p \in shown}
<1>6. dom' = shown /\ cta' \in BOOLEAN /\ Harvest(found, paths) /\ Sent({}, gone)
  BY <1>2, <1>5 DEF CountInv
<1>7. \A p \in shown : p \in Path /\ (InScope(p) \/ Len(p) = 1)
  <2>1. \A p \in dom \cup extra : p \in Path /\ (InScope(p) \/ Len(p) = 1)
    BY <1>2, <1>3 DEF RouteInv, First
  <2>2. \A p \in Usual \cup Inner : p \in Path /\ Len(p) = 1
    <3>1. \A p \in Usual \cup Inner : p = <<"login">> \/ p = <<"home">>
      BY DEF Usual, Inner
    <3>2. "login" \in Segments /\ "home" \in Segments
      BY CrawlAssumption DEF CrawlAssumption
    <3>3. QED BY <3>1, <3>2, OneSegment
  <2>3. QED BY <2>1, <2>2
<1> HIDE DEF shown
<1>8. found \subseteq Form /\ \A f \in found : f.act \in Path /\ (InScope(f.act) \/ Len(f.act) = 1)
  <2> SUFFICES ASSUME NEW f \in found
               PROVE  f \in Form /\ (InScope(f.act) \/ Len(f.act) = 1)
    BY DEF Form
  <2>1. PICK p \in shown : f \in FormsOf(p, Page(p).painted.forms)
    OBVIOUS
  <2>2. Markup(Page(p).painted.forms) /\ p \in Path
    BY <1>2, <1>7, PageTyped
  <2>3. f \in Form /\ (f.act = p \/ InScope(f.act))
    BY <2>1, <2>2, FormsTyped
  <2>4. QED BY <1>7, <2>3
<1>9. \A q \in paths : q \in Path /\ InScope(q)
  <2> SUFFICES ASSUME NEW p \in shown, NEW q \in Followed(Page(p).painted.links)
               PROVE  q \in Path /\ InScope(q)
    OBVIOUS
  <2>1. QED BY <1>2, PageTyped DEF Followed
<1> HIDE DEF found, paths
<1>10. WalkInv' /\ EndpointInv'
  BY <1>1, <1>2, <1>3, WalkRest, EndpointRest
<1>11. RouteInv'
  <2>1. ASSUME NEW q \in (routes' \cup dom') \ (routes \cup dom)
        PROVE  q \in Path /\ (InScope(q) \/ Len(q) = 1)
    <3>1. CASE q \in dom'
      BY <1>6, <1>7, <3>1
    <3>2. CASE q \in routes' \ routes
      <4>1. q \in paths \/ \E f \in found : q = f.act
        BY <1>6, <3>2, HarvestRoutes
      <4>2. QED BY <1>8, <1>9, <4>1
    <3>3. QED BY <2>1, <3>1, <3>2
  <2>2. QED BY <1>1, <1>2, <1>3, <2>1, RouteRest
<1>12. FormInv'
  <2>1. refused' = refused /\ state' # "empty"
    BY <1>1, <1>2, <1>3 DEF FormInv
  <2>2. QED BY <1>2, <1>3, <1>6, <1>8, <2>1, FormHarvest
<1>13. CountInv'
  <2>1. lost' \in 0 .. Losses
    BY <1>6, SentCounts
  <2>2. QED BY <1>1, <1>2, <1>6, <2>1 DEF CountInv
<1>14. QED BY <1>10, <1>11, <1>12, <1>13 DEF CrawlInv

\* Two sets of sound endpoints that share no path and verb, and no key.
LEMMA JoinSound ==
    ASSUME NEW es, Sound(es), NEW new, Sound(new), \A e \in es \cup new : e.from # "perceived",
           \A e \in es, d \in new : ~(e.p = d.p /\ e.m = d.m)
    PROVE  Sound(es \cup new)
<1>1. \A e \in es \cup new : e.from \in {"mined", "conventional"} =>
         e.base \notin {0, 404} /\ \A d \in es \cup new : d.from # "perceived" /\ d.p = e.p /\ d.m = e.m => d = e
  BY DEF Sound
<1>2. \A e \in es \cup new : e.from = "llm" => ~(e.m = "get" /\ e.raw \in queried)
  BY DEF Sound
<1>3. \A e \in es \cup new : e.from # "perceived" => InScope(e.p)
  BY DEF Sound
<1>4. es \cup new \subseteq Endpoint
  BY DEF Sound
<1>5. QED BY <1>1, <1>2, <1>3, <1>4 DEF Sound

\* What the app was seen to call.
LEMMA ObserveKeeps == ASSUME CrawlInv, Observe PROVE CrawlInv'
<1> DEFINE new == {e \in Called : /\ ~Has(endpoints, {e.m}, e.p)
                                  /\ ~(e.m = "get" /\ ~e.takes /\ e.p \in routes)}
<1>1. pc = "observe" /\ pc' = "mine" /\ UNCHANGED <<site, walk, forms, seen, cta, browser, landing, refused>>
  BY DEF Observe
<1>2. WalkInv /\ RouteInv /\ EndpointInv /\ FormInv /\ CountInv /\ site \in Sites
  BY DEF CrawlInv, WalkInv
<1>3. UNCHANGED <<queried, dom, state, session>> /\ pc \in Early /\ pc' \in Early /\ pc # "done" /\ pc' # "pages"
  BY <1>1 DEF walk, browser, Early
<1>4. PICK asked \in First(Judged, new) : \E gone \in Gone(Paths(asked)) :
             /\ endpoints' = endpoints \cup Judge(new, asked, gone)
             /\ routes' = routes \cup Paths(new)
             /\ Sent(Paths(asked), gone)
  BY DEF Observe
<1>5. PICK gone \in Gone(Paths(asked)) :
             /\ endpoints' = endpoints \cup Judge(new, asked, gone)
             /\ routes' = routes \cup Paths(new)
             /\ Sent(Paths(asked), gone)
  BY <1>4
<1>6. \A e \in new : e \in Endpoint /\ e.from = "observed" /\ InScope(e.p)
  <2>1. IsSite(site)
    BY <1>2, SiteTyped
  <2>2. QED BY <2>1 DEF IsSite, Called, Followed
<1>7. \A e \in new : ~\E d \in endpoints : d.m = e.m /\ d.p = e.p
  BY DEF Has
<1>8. asked \subseteq new
  BY DEF First
<1> HIDE DEF new
<1>9. Sound(new)
  BY <1>6 DEF Sound
<1>10. /\ Sound(Judge(new, asked, gone))
       /\ \A x \in Judge(new, asked, gone) : \E e \in new : x.p = e.p /\ x.m = e.m /\ x.from = e.from
  <2>1. \A e \in asked : e.from \notin {"mined", "conventional"}
    BY <1>6, <1>8
  <2>2. QED BY <1>2, <1>9, <2>1, JudgeSound
<1>11. Sound(endpoints') /\ \A e \in endpoints' : e.from # "perceived"
  <2>1. Sound(endpoints) /\ \A e \in endpoints : e.from # "perceived"
    BY <1>2, <1>3 DEF EndpointInv
  <2>2. \A x \in Judge(new, asked, gone) : x.from # "perceived"
    BY <1>6, <1>10
  <2>3. \A e \in endpoints, d \in Judge(new, asked, gone) : ~(e.p = d.p /\ e.m = d.m)
    BY <1>7, <1>10
  <2>4. QED BY <1>5, <1>10, <2>1, <2>2, <2>3, JoinSound
<1>12. WalkInv' /\ EndpointInv'
  BY <1>1, <1>2, <1>3, <1>11, WalkRest, EndpointNew
<1>13. RouteInv'
  <2>1. \A p \in Paths(new) : p \in Path /\ InScope(p)
    BY <1>6 DEF Paths, Endpoint
  <2>2. QED BY <1>1, <1>2, <1>3, <1>5, <2>1, RouteRest
<1>14. FormInv'
  BY <1>1, <1>2, <1>3, FormRest DEF FormInv
<1>15. CountInv'
  <2>1. lost' \in 0 .. Losses
    BY <1>5, SentCounts
  <2>2. QED BY <1>1, <1>2, <1>3, <2>1 DEF CountInv
<1>16. QED BY <1>12, <1>13, <1>14, <1>15 DEF CrawlInv

-----------------------------------------------------------------------------
(* Paths that are asked for.                                               *)

\* New endpoints, found by a request each.
LEMMA VerifyKeeps ==
    ASSUME CrawlInv, pc \in {"mine", "conventional"}, pc' \in Early, pc' # "pages",
           NEW from \in {"mined", "conventional"}, NEW candidates \in SUBSET Path, \A p \in candidates : InScope(p),
           Verify(from, candidates), UNCHANGED <<site, walk, forms, seen, cta, browser, landing, refused>>
    PROVE  CrawlInv'
<1>1. WalkInv /\ RouteInv /\ EndpointInv /\ FormInv /\ CountInv /\ site \in Sites
  BY DEF CrawlInv, WalkInv
<1>2. UNCHANGED <<queried, dom, state, session>> /\ pc \in Early /\ pc # "done"
  BY DEF walk, browser, Early
<1> DEFINE asked == {p \in candidates : ~Has(endpoints, {"get", "post"}, p)}
           Row(p) == [Found(from, IF Status(p) = 405 THEN "post" ELSE "get", p) EXCEPT !.base = Status(p)]
           New(gone) == {Row(p) : p \in {q \in asked \ gone : Status(q) # 404}}
<1>3. PICK gone \in Gone(asked) : /\ endpoints' = endpoints \cup New(gone)
                                  /\ routes' = routes \cup Paths(New(gone))
                                  /\ Sent(asked, gone)
  BY DEF Verify
<1>4. \A p \in candidates : /\ Row(p) \in Endpoint /\ Row(p).p = p /\ Row(p).from = from
                            /\ Row(p).base = Status(p) /\ Status(p) # 0
  <2> SUFFICES ASSUME NEW p \in candidates
               PROVE  /\ Row(p) \in Endpoint /\ Row(p).p = p /\ Row(p).from = from
                      /\ Row(p).base = Status(p) /\ Status(p) # 0
    OBVIOUS
  <2> DEFINE verb == IF Status(p) = 405 THEN "post" ELSE "get"
  <2>1. Status(p) \in Nat /\ Status(p) # 0 /\ verb \in {"get", "post"} /\ from \in Origins
    BY <1>1, PageTyped DEF Origins
  <2> DEFINE found == Found(from, verb, p)
  <2>2. found \in Endpoint /\ found.p = p /\ found.from = from
    BY <2>1, FoundTyped DEF Origins
  <2>3. Row(p) = [found EXCEPT !.base = Status(p)]
    OBVIOUS
  <2> HIDE DEF Row, verb, found
  <2>4. QED BY <2>1, <2>2, <2>3 DEF Endpoint
<1>5. \A x \in New(gone) : \E p \in asked : x = Row(p) /\ Status(p) # 404
  OBVIOUS
<1>6. \A p \in asked : p \in candidates /\ \A e \in endpoints : e.p # p
  BY <1>1 DEF Has, EndpointInv, Sound, Endpoint
<1> HIDE DEF New, Row, asked
<1>7. \A x \in New(gone) : /\ x \in Endpoint /\ x.p \in Path /\ InScope(x.p) /\ x.from = from /\ x = Row(x.p)
                           /\ x.base \notin {0, 404} /\ \A e \in endpoints : e.p # x.p
  BY <1>4, <1>5, <1>6
<1>8. Sound(New(gone))
  BY <1>7 DEF Sound
<1>9. Sound(endpoints') /\ \A e \in endpoints' : e.from # "perceived"
  <2>1. Sound(endpoints) /\ \A e \in endpoints : e.from # "perceived"
    BY <1>1, <1>2 DEF EndpointInv
  <2>2. QED BY <1>3, <1>7, <1>8, <2>1, JoinSound
<1>10. WalkInv' /\ EndpointInv'
  BY <1>1, <1>2, <1>9, WalkRest, EndpointNew
<1>11. RouteInv'
  <2>1. \A p \in Paths(New(gone)) : p \in Path /\ InScope(p)
    BY <1>7 DEF Paths
  <2>2. QED BY <1>1, <1>2, <1>3, <2>1, RouteRest
<1>12. FormInv'
  BY <1>1, <1>2, FormRest DEF FormInv, Early
<1>13. CountInv'
  <2>1. lost' \in 0 .. Losses
    BY <1>3, SentCounts
  <2>2. QED BY <1>1, <1>2, <2>1 DEF CountInv
<1>14. QED BY <1>10, <1>11, <1>12, <1>13 DEF CrawlInv

\* Literals of the bundle.
LEMMA MineKeeps == ASSUME CrawlInv, Mine PROVE CrawlInv'
<1> DEFINE candidates == IF site.bundle \in routes THEN {Under(p) : p \in site.literals} ELSE {}
<1>1. pc = "mine" /\ pc' = "conventional" /\ UNCHANGED <<site, walk, forms, seen, cta, browser, landing, refused>>
  BY DEF Mine
<1>2. WalkInv /\ RouteInv /\ EndpointInv /\ FormInv /\ CountInv /\ site \in Sites
  BY DEF CrawlInv, WalkInv
<1>3. pc' \in Early /\ pc \in Early /\ pc' # "pages" /\ pc # "done"
  BY <1>1 DEF Early
<1>4. CASE Verify("mined", candidates)
  <2>1. \A p \in site.literals : p \in Path
    BY <1>2, SiteTyped DEF IsSite
  <2>2. candidates \in SUBSET Path /\ \A p \in candidates : InScope(p)
    BY <1>2, <2>1, UnderInScope
  <2> HIDE DEF candidates
  <2>3. QED BY <1>1, <1>3, <1>4, <2>2, VerifyKeeps
<1>5. CASE lost < Losses /\ lost' = lost + 1 /\ UNCHANGED <<endpoints, routes, left>>
  <2>1. UNCHANGED <<queried, dom, state, session>>
    BY <1>1 DEF walk, browser
  <2>2. WalkInv' /\ RouteInv' /\ EndpointInv' /\ FormInv'
    BY <1>1, <1>2, <1>3, <1>5, <2>1, WalkRest, RouteRest, EndpointRest, FormRest DEF FormInv
  <2>3. CountInv'
    BY <1>1, <1>2, <1>5, <2>1, SiteTyped DEF CountInv
  <2>4. QED BY <2>2, <2>3 DEF CrawlInv
<1>6. QED BY <1>4, <1>5 DEF Mine

\* The usual names.
LEMMA ConventionalKeeps == ASSUME CrawlInv, Conventional PROVE CrawlInv'
<1> DEFINE candidates == {Under(p) : p \in site.usual}
<1>1. pc = "conventional" /\ pc' = "search" /\ UNCHANGED <<site, walk, forms, seen, cta, browser, landing, refused>>
  BY DEF Conventional
<1>2. site \in Sites /\ pc' \in Early /\ pc' # "pages"
  BY <1>1 DEF CrawlInv, WalkInv, Early
<1>3. \A p \in site.usual : p \in Path
  BY <1>2, SiteTyped DEF IsSite
<1>4. candidates \in SUBSET Path /\ \A p \in candidates : InScope(p)
  BY <1>2, <1>3, UnderInScope
<1>5. Verify("conventional", candidates)
  BY DEF Conventional
<1> HIDE DEF candidates
<1>6. QED BY <1>1, <1>2, <1>4, <1>5, VerifyKeeps

\* The searches beside a collection.
LEMMA SearchKeeps == ASSUME CrawlInv, Search PROVE CrawlInv'
<1> DEFINE lists == {e.p : e \in {d \in endpoints : d.m = "get" /\ ~d.takes}} \cup routes
           asked == {s \in site.searches : s.of \in lists /\ ~Has(endpoints, {"get"}, s.at)}
           Row(p) == [Found("mined", "get", p) EXCEPT !.raw = Append(p, "?q="), !.takes = TRUE, !.base = 200]
           New(gone) == {Row(s.at) : s \in {t \in asked : t.at \notin gone}}
<1>1. pc = "search" /\ pc' = "perceive" /\ UNCHANGED <<site, walk, forms, seen, cta, browser, landing, refused>>
  BY DEF Search
<1>2. WalkInv /\ RouteInv /\ EndpointInv /\ FormInv /\ CountInv /\ site \in Sites
  BY DEF CrawlInv, WalkInv
<1>3. UNCHANGED <<queried, dom, state, session>> /\ pc \in Early /\ pc # "done" /\ pc' \in Early /\ pc' # "pages"
  BY <1>1 DEF walk, browser, Early
<1>4. PICK gone \in Gone({s.at : s \in asked}) : /\ endpoints' = endpoints \cup New(gone)
                                                 /\ routes' = routes \cup Paths(New(gone))
                                                 /\ Sent({}, gone)
  <2>1. \E gone \in Gone({s.at : s \in asked}) :
             LET new == {[Found("mined", "get", s.at) EXCEPT !.raw = Append(s.at, "?q="), !.takes = TRUE, !.base = 200] :
                           s \in {t \in asked : t.at \notin gone}}
             IN  /\ endpoints' = endpoints \cup new
                 /\ routes' = routes \cup Paths(new)
                 /\ Sent({}, gone)
    BY DEF Search
  <2>2. QED BY <2>1
<1>5. \A s \in asked : s.at \in Path /\ InScope(s.at) /\ \A e \in endpoints : ~(e.m = "get" /\ e.p = s.at)
  <2> SUFFICES ASSUME NEW s \in asked
               PROVE  s.at \in Path /\ InScope(s.at) /\ \A e \in endpoints : ~(e.m = "get" /\ e.p = s.at)
    OBVIOUS
  <2>1. s.of \in Path /\ s.at \in Path /\ Len(s.of) >= 2 /\ IsPrefix(s.of, s.at)
    BY <1>2, SiteTyped DEF IsSite
  <2>2. InScope(s.of)
    <3>1. CASE s.of \in routes
      <4>1. InScope(s.of) \/ Len(s.of) = 1
        BY <1>2, <1>3, <3>1 DEF RouteInv
      <4>2. Len(s.of) \in Nat
        BY <2>1 DEF Path
      <4> DEFINE n == Len(s.of)
      <4>3. n \in Nat /\ n >= 2
        BY <2>1, <4>2
      <4> HIDE DEF n
      <4>4. n # 1
        BY <4>3
      <4>5. QED BY <4>1, <4>4 DEF n
    <3>2. CASE s.of \notin routes
      <4>1. PICK e \in endpoints : s.of = e.p
        BY <3>2
      <4>2. e.from # "perceived" /\ Sound(endpoints)
        BY <1>2, <1>3 DEF EndpointInv
      <4>3. InScope(e.p)
        BY <4>2 DEF Sound
      <4>4. QED BY <4>1, <4>3
    <3>3. QED BY <3>1, <3>2
  <2>3. InScope(s.at)
    BY <1>2, <2>1, <2>2, ScopeIs
  <2>4. QED BY <2>1, <2>3 DEF Has
<1>6. \A p \in Path : /\ Row(p) \in Endpoint /\ Row(p).p = p /\ Row(p).m = "get"
                      /\ Row(p).from = "mined" /\ Row(p).base = 200
  <2>1. \A p \in Path : Append(p, "?q=") \in Path
    BY CrawlAssumption DEF CrawlAssumption, Path
  <2> SUFFICES ASSUME NEW p \in Path
               PROVE  /\ Row(p) \in Endpoint /\ Row(p).p = p /\ Row(p).m = "get"
                      /\ Row(p).from = "mined" /\ Row(p).base = 200
    OBVIOUS
  <2> DEFINE found == Found("mined", "get", p)
             raw   == Append(p, "?q=")
  <2>2. found \in Endpoint /\ found.p = p /\ found.m = "get" /\ found.from = "mined" /\ raw \in Path
    BY <2>1, FoundTyped DEF Origins
  <2> DEFINE named == [found EXCEPT !.raw = raw]
             open  == [named EXCEPT !.takes = TRUE]
  <2>3. Row(p) = [open EXCEPT !.base = 200]
    OBVIOUS
  <2> HIDE DEF Row, found, raw
  <2>4. named \in Endpoint /\ named.p = p /\ named.m = "get" /\ named.from = "mined"
    BY <2>2 DEF Endpoint
  <2> HIDE DEF named
  <2>5. open \in Endpoint /\ open.p = p /\ open.m = "get" /\ open.from = "mined"
    BY <2>4 DEF Endpoint
  <2> HIDE DEF open
  <2>6. QED BY <2>3, <2>5 DEF Endpoint
<1>7. \A x \in New(gone) : \E s \in asked : x = Row(s.at)
  OBVIOUS
<1> HIDE DEF New, Row, asked
<1>8. \A x \in New(gone) : /\ x \in Endpoint /\ x.p \in Path /\ InScope(x.p) /\ x.from = "mined" /\ x = Row(x.p)
                           /\ x.base = 200 /\ x.m = "get" /\ \A e \in endpoints : ~(e.m = "get" /\ e.p = x.p)
  BY <1>5, <1>6, <1>7
<1>9. Sound(New(gone))
  BY <1>8 DEF Sound
<1>10. Sound(endpoints') /\ \A e \in endpoints' : e.from # "perceived"
  <2>1. Sound(endpoints) /\ \A e \in endpoints : e.from # "perceived"
    BY <1>2, <1>3 DEF EndpointInv
  <2>2. \A e \in endpoints, d \in New(gone) : ~(e.p = d.p /\ e.m = d.m)
    BY <1>8
  <2>3. \A d \in New(gone) : d.from # "perceived"
    BY <1>8
  <2>4. QED BY <1>4, <1>9, <2>1, <2>2, <2>3, JoinSound
<1>11. WalkInv' /\ EndpointInv'
  BY <1>1, <1>2, <1>3, <1>10, WalkRest, EndpointNew
<1>12. RouteInv'
  <2>1. \A p \in Paths(New(gone)) : p \in Path /\ InScope(p)
    BY <1>8 DEF Paths
  <2>2. QED BY <1>1, <1>2, <1>3, <1>4, <2>1, RouteRest
<1>13. FormInv'
  BY <1>1, <1>2, <1>3, FormRest DEF FormInv
<1>14. CountInv'
  <2>1. lost' \in 0 .. Losses
    BY <1>4, SentCounts
  <2>2. QED BY <1>1, <1>2, <1>3, <2>1 DEF CountInv
<1>15. QED BY <1>11, <1>12, <1>13, <1>14 DEF CrawlInv

\* What refuses a body says what it wants.
LEMMA ExplainedSound ==
    ASSUME Sound(endpoints)
    PROVE  Sound(Explained) /\ \A x \in Explained : \E e \in endpoints : x.from = e.from
<1> DEFINE f == [e \in endpoints |-> [e EXCEPT !.takes = @ \/ (e.m = "post" /\ e.p \in site.explains)]]
<1>1. Explained = {f[e] : e \in endpoints}
  BY DEF Explained
<1>2. ASSUME NEW e \in endpoints
      PROVE  Keeps(f[e], e)
  <2> DEFINE takes == e.takes \/ (e.m = "post" /\ e.p \in site.explains)
  <2>1. f[e] = [e EXCEPT !.takes = takes] /\ takes \in BOOLEAN /\ e \in Endpoint
    BY DEF Sound, Endpoint
  <2> HIDE DEF f, takes
  <2>2. QED BY <2>1 DEF Keeps, Endpoint
<1> HIDE DEF f
<1>3. Sound({f[e] : e \in endpoints})
  BY <1>2, PassSound
<1>4. QED BY <1>1, <1>2, <1>3 DEF Keeps

\* What a model points at comes beside what was found.
LEMMA PerceivedSound ==
    ASSUME site \in Sites, Sound(endpoints), \A e \in endpoints : e.from # "perceived"
    PROVE  Sound(Perceived)
<1> DEFINE more == IF site.perceives THEN site.sees ELSE {}
           f == [e \in Explained |-> Merged(e, more)]
           fs == {f[e] : e \in Explained}
           new == {d \in more : ~\E e \in Explained : Same(d, e)}
<1>1. Perceived = fs \cup new
  BY DEF Perceived, Merge, Merged
<1>2. Sound(Explained) /\ \A x \in Explained : x.from # "perceived"
  BY ExplainedSound
<1>3. more \subseteq Endpoint /\ \A e \in more : e.from = "perceived" /\ \A d \in more : Same(d, e) => d = e
  <2>1. IsSite(site)
    BY SiteTyped
  <2>2. QED BY <2>1 DEF IsSite, Same
<1> HIDE DEF more
<1>4. ASSUME NEW e \in Explained
      PROVE  Keeps(f[e], e)
  <2>1. e \in Endpoint /\ \A d \in more : d.from # "crawl"
    BY <1>2, <1>3 DEF Sound
  <2>2. f[e] = Merged(e, more)
    OBVIOUS
  <2> HIDE DEF f
  <2>3. QED BY <2>1, <2>2, MergeTyped DEF Keeps
<1> HIDE DEF f
<1>5. Sound(fs)
  BY <1>2, <1>4, PassSound
<1>6. \A x \in fs : \E e \in Explained : Keeps(x, e)
  BY <1>4
<1>7. \A x \in fs : x.from # "perceived"
  BY <1>2, <1>6 DEF Keeps
<1>8. \A d \in new, x \in fs : ~Same(d, x) /\ ~Same(x, d)
  BY <1>6 DEF Keeps, Same
<1>9. new \subseteq more
  OBVIOUS
<1> HIDE DEF fs, new
<1>10. Sound(fs \cup new)
  <2>1. fs \cup new \subseteq Endpoint /\ \A e \in fs \cup new : e.from # "perceived" => e \in fs
    BY <1>3, <1>5, <1>9 DEF Sound
  <2>2. \A e \in fs \cup new : e.from = "perceived" => e \in new
    BY <1>7
  <2>3. \A e \in fs \cup new : e.from = "perceived" => \A d \in fs \cup new : Same(d, e) => d = e
    BY <1>3, <1>8, <1>9, <2>2
  <2>4. \A e \in fs \cup new : e.from \in {"mined", "conventional"} =>
          e.base \notin {0, 404} /\ \A d \in fs \cup new : d.from # "perceived" /\ d.p = e.p /\ d.m = e.m => d = e
    BY <1>5, <2>1 DEF Sound
  <2>5. QED BY <1>5, <2>1, <2>3, <2>4 DEF Sound
<1>11. QED BY <1>1, <1>10

\* A model looks at the pages, or fails.
LEMMA PerceiveKeeps == ASSUME CrawlInv, Perceive PROVE CrawlInv'
<1>1. pc = "perceive" /\ pc' = "guard" /\ UNCHANGED <<site, walk, routes, seen, cta, browser, landing, refused>>
  BY DEF Perceive
<1>2. WalkInv /\ RouteInv /\ EndpointInv /\ FormInv /\ CountInv /\ site \in Sites
  BY DEF CrawlInv, WalkInv
<1>3. /\ UNCHANGED <<queried, dom, state, session>> /\ pc \in Early /\ pc # "done"
      /\ pc' \in Late /\ pc' \notin Early /\ pc' # "pages"
  BY <1>1 DEF walk, browser, Early, Late
<1>4. Sound(endpoints) /\ \A e \in endpoints : e.from # "perceived"
  BY <1>2, <1>3 DEF EndpointInv
<1>5. CASE endpoints' = Explained /\ UNCHANGED <<forms, left, lost>>
  <2>1. WalkInv' /\ RouteInv' /\ EndpointInv' /\ FormInv'
    BY <1>1, <1>2, <1>3, <1>4, <1>5, ExplainedSound, WalkRest, RouteRest, EndpointNew, FormRest DEF FormInv
  <2>2. CountInv'
    BY <1>1, <1>2, <1>3, <1>5 DEF CountInv
  <2>3. QED BY <2>1, <2>2 DEF CrawlInv
<1>6. CASE /\ forms' = forms \cup (IF site.perceives THEN site.imagines ELSE {})
           /\ \E asked \in First(Judged, {e \in Perceived : e.from = "perceived" /\ e.base = 0}) :
              \E gone \in Gone(Paths(asked)) : endpoints' = Judge(Perceived, asked, gone) /\ Sent(Paths(asked), gone)
  <2>1. PICK asked \in First(Judged, {e \in Perceived : e.from = "perceived" /\ e.base = 0}) :
              \E gone \in Gone(Paths(asked)) : endpoints' = Judge(Perceived, asked, gone) /\ Sent(Paths(asked), gone)
    BY <1>6
  <2>2. PICK gone \in Gone(Paths(asked)) : endpoints' = Judge(Perceived, asked, gone) /\ Sent(Paths(asked), gone)
    BY <2>1
  <2>3. \A e \in asked : e.from \notin {"mined", "conventional"}
    BY DEF First
  <2>4. Sound(endpoints')
    BY <1>2, <1>4, <2>2, <2>3, PerceivedSound, JudgeSound
  <2>5. WalkInv' /\ RouteInv' /\ EndpointInv'
    BY <1>1, <1>2, <1>3, <2>4, WalkRest, RouteRest, EndpointNew
  <2>6. FormInv'
    <3>1. forms' \subseteq Form
      BY <1>2, <1>6, SiteTyped DEF IsSite, FormInv
    <3>2. refused = {} /\ forms \subseteq forms'
      BY <1>2, <1>3, <1>6 DEF FormInv
    <3>3. QED BY <1>1, <1>2, <1>3, <3>1, <3>2 DEF FormInv, RefusedStaysOut, EmptyIsBare
  <2>7. CountInv'
    <3>1. lost' \in 0 .. Losses
      BY <2>2, SentCounts
    <3>2. QED BY <1>1, <1>2, <1>3, <3>1 DEF CountInv
  <2>8. QED BY <2>5, <2>6, <2>7 DEF CrawlInv
<1>7. QED BY <1>5, <1>6 DEF Perceive

-----------------------------------------------------------------------------
(* The guards, the search for a door and the profile.                      *)

\* What must not be probed is taken away, and remembered.
LEMMA GuardKeeps == ASSUME CrawlInv, Guard PROVE CrawlInv'
<1> DEFINE kept == Submittable(forms)
           asked == Paths(endpoints) \cup {f.act : f \in kept}
<1>1. /\ pc = "guard" /\ pc' = "auth" /\ refused' = (forms \ forms') \cap seen
      /\ UNCHANGED <<site, walk, routes, seen, cta, browser, landing>>
  BY DEF Guard
<1>2. WalkInv /\ RouteInv /\ EndpointInv /\ FormInv /\ CountInv /\ site \in Sites
  BY DEF CrawlInv, WalkInv
<1>3. /\ UNCHANGED <<queried, dom, state, session>> /\ pc # "done" /\ pc # "pages" /\ pc \in Early \cup {"guard"}
      /\ pc' \in Late /\ pc' \notin Early /\ pc' \notin Early \cup {"guard"} /\ pc' # "pages" /\ pc' # "done"
  BY <1>1 DEF walk, browser, Early, Late
<1>4. \/ /\ site.catchAll => lost < Losses
         /\ forms' = kept /\ endpoints' = endpoints
         /\ Sent({}, IF site.catchAll THEN {"probe"} ELSE {})
      \/ \E gone \in Gone(asked) :
            /\ forms' = {f \in kept : f.act \in gone \/ ~Shell(f.act)}
            /\ endpoints' = {e \in endpoints : e.p \in gone \/ ~Shell(e.p)}
            /\ Sent(asked, gone)
  BY DEF Guard
<1>5. forms' \subseteq forms /\ endpoints' \subseteq endpoints
  BY <1>4 DEF Submittable
<1>6. WalkInv' /\ RouteInv'
  BY <1>1, <1>2, <1>3, WalkRest DEF RouteInv
<1>7. EndpointInv'
  <2>1. Sound(endpoints')
    BY <1>2, <1>5, SubSound DEF EndpointInv
  <2>2. QED BY <1>1, <1>3, <2>1, EndpointNew
<1>8. FormInv'
  <2>1. refused = {} /\ seen \subseteq forms /\ state # "empty"
    BY <1>2, <1>3 DEF FormInv
  <2>2. (forms \cup seen)' \subseteq Form
    BY <1>1, <1>2, <1>5 DEF FormInv
  <2>3. seen' = seen /\ refused' \subseteq seen' /\ refused' \cap forms' = {} /\ seen' \subseteq forms' \cup refused'
    BY <1>1, <2>1
  <2>4. QED BY <1>3, <2>1, <2>2, <2>3 DEF FormInv, RefusedStaysOut, EmptyIsBare
<1>9. lost' \in 0 .. Losses
  <2>1. lost \in 0 .. Losses /\ Losses \in Nat
    BY <1>2, SiteTyped DEF CountInv
  <2>2. CASE \E gone \in Gone(asked) : Sent(asked, gone)
    BY <2>2, SentCounts
  <2>3. CASE (site.catchAll => lost < Losses) /\ Sent({}, IF site.catchAll THEN {"probe"} ELSE {})
    <3>1. lost' = lost + Cardinality(IF site.catchAll THEN {"probe"} ELSE {})
      BY <2>3 DEF Sent
    <3>2. Cardinality({}) = 0 /\ Cardinality({"probe"}) = 1
      BY FS_EmptySet, FS_Singleton
    <3>3. CASE site.catchAll
      BY <2>1, <2>3, <3>1, <3>2, <3>3
    <3>4. CASE ~site.catchAll
      BY <2>1, <3>1, <3>2, <3>4
    <3>5. QED BY <3>3, <3>4
  <2>4. QED BY <1>4, <2>2, <2>3
<1>10. CountInv'
  BY <1>1, <1>2, <1>3, <1>9 DEF CountInv
<1>11. QED BY <1>6, <1>7, <1>8, <1>10 DEF CrawlInv

\* A door that the bundle names is rendered for its form, which is new or not taken.
LEMMA MineAuthKeeps == ASSUME CrawlInv, MineAuth PROVE CrawlInv'
<1> DEFINE Shown1(gone) == UNION {FormsOf(p, Page(p).painted.forms) : p \in Doors \ gone}
<1>1. pc = "auth" /\ pc' = "assemble" /\ UNCHANGED <<site, walk, session, state, landing, refused>>
  BY DEF MineAuth
<1>2. WalkInv /\ RouteInv /\ EndpointInv /\ FormInv /\ CountInv /\ site \in Sites
  BY DEF CrawlInv, WalkInv
<1>3. /\ queried' = queried /\ pc # "done" /\ pc' \in Late /\ pc' \notin Early /\ pc' \notin Early \cup {"guard"}
      /\ pc' # "pages" /\ state' # "empty" /\ refused' = refused
  BY <1>1, <1>2 DEF walk, Early, Late, FormInv
<1>4. \/ UNCHANGED <<surface, dom, left, lost>>
      \/ lost < Losses /\ lost' = lost + 1 /\ UNCHANGED <<surface, dom, left>>
      \/ \E gone \in Gone(Doors) : /\ cta' = (site.doors # {}) /\ Harvest(Shown1(gone), {})
                                   /\ Sent({}, gone) /\ UNCHANGED endpoints
  BY DEF MineAuth
<1>5. endpoints' = endpoints
  BY <1>4 DEF surface
<1>6. WalkInv' /\ RouteInv' /\ EndpointInv'
  BY <1>1, <1>2, <1>3, <1>5, WalkRest, EndpointRest DEF RouteInv
<1>7. FormInv'
  <2>1. CASE UNCHANGED surface
    <3>1. UNCHANGED <<forms, seen>>
      BY <2>1 DEF surface
    <3>2. QED BY <1>2, <1>3, <3>1, FormRest
  <2>2. CASE \E gone \in Gone(Doors) : Harvest(Shown1(gone), {})
    <3>1. PICK gone \in Gone(Doors) : Harvest(Shown1(gone), {})
      BY <2>2
    <3>2. \A p \in Doors : p \in Path /\ Markup(Page(p).painted.forms)
      <4>1. IsSite(site)
        BY <1>2, SiteTyped
      <4>2. Doors \subseteq Path
        BY <4>1 DEF Doors, IsSite
      <4>3. QED BY <1>2, <4>2, PageTyped
    <3>3. Shown1(gone) \subseteq Form
      <4>1. \A p \in Doors : FormsOf(p, Page(p).painted.forms) \subseteq Form
        BY <3>2, FormsTyped
      <4>2. QED BY <4>1
    <3> HIDE DEF Shown1
    <3>4. QED BY <1>2, <1>3, <3>1, <3>3, FormHarvest
  <2>3. QED BY <1>4, <2>1, <2>2
<1>8. CountInv'
  <2>1. cta' \in BOOLEAN
    BY <1>2, <1>4 DEF surface, CountInv
  <2>2. lost' \in 0 .. Losses
    <3>1. lost \in 0 .. Losses /\ Losses \in Nat
      BY <1>2, SiteTyped DEF CountInv
    <3>2. CASE lost' = lost \/ (lost < Losses /\ lost' = lost + 1)
      BY <3>1, <3>2
    <3>3. CASE \E gone \in Gone(Doors) : Sent({}, gone)
      BY <3>3, SentCounts
    <3>4. QED BY <1>4, <3>2, <3>3
  <2>3. QED BY <1>1, <1>2, <2>1, <2>2 DEF CountInv
<1>9. QED BY <1>6, <1>7, <1>8 DEF CrawlInv

\* The profile: it is empty only if every form was refused.
LEMMA AssembleKeeps == ASSUME CrawlInv, Assemble PROVE CrawlInv'
<1>1. /\ pc = "assemble" /\ pc' = "done" /\ endpoints' \subseteq endpoints
      /\ state' = (IF Bare(endpoints') THEN "empty" ELSE state)
      /\ UNCHANGED <<site, walk, routes, forms, seen, cta, dom, session, refused, left>>
  BY DEF Assemble
<1>2. WalkInv /\ RouteInv /\ EndpointInv /\ FormInv /\ CountInv /\ site \in Sites
  BY DEF CrawlInv, WalkInv
<1>3. /\ queried' = queried /\ pc # "done" /\ pc' \in Late /\ pc' \notin Early /\ pc' \notin Early \cup {"guard"}
      /\ pc' # "pages"
  BY <1>1 DEF walk, Early, Late
<1>4. WalkInv' /\ RouteInv'
  BY <1>1, <1>2, <1>3, WalkRest DEF RouteInv
<1>5. EndpointInv'
  <2>1. Sound(endpoints')
    BY <1>1, <1>2, SubSound DEF EndpointInv
  <2>2. QED BY <1>1, <1>3, <2>1, EndpointNew
<1>6. FormInv'
  <2>1. state # "empty" /\ seen \subseteq forms \cup refused
    BY <1>2, <1>3 DEF FormInv
  <2>2. state' = "empty" => endpoints' = {} /\ seen' \subseteq refused'
    BY <1>1, <2>1 DEF Bare
  <2>3. QED BY <1>1, <1>2, <1>3, <2>2 DEF FormInv, RefusedStaysOut, EmptyIsBare
<1>7. CountInv'
  <2>1. /\ lost' = lost + (IF landing' = <<>> /\ Status(<<>>) >= 400 /\ Status(site.start) < 400 THEN 1 ELSE 0)
        /\ lost' <= Losses
    BY DEF Assemble
  <2>2. lost \in 0 .. Losses /\ Losses \in Nat
    BY <1>2, SiteTyped DEF CountInv
  <2>3. lost' = lost \/ lost' = lost + 1
    BY <2>1, <2>2
  <2>4. lost' \in 0 .. Losses
    BY <2>1, <2>2, <2>3
  <2>5. QED BY <1>1, <1>2, <2>4 DEF CountInv
<1>8. QED BY <1>4, <1>5, <1>6, <1>7 DEF CrawlInv

-----------------------------------------------------------------------------
(* The crawl.                                                              *)

\* The invariant holds when the crawl begins with its entry.
LEMMA CrawlInit == Init => CrawlInv
<1> SUFFICES ASSUME Init PROVE CrawlInv
  OBVIOUS
<1>1. site \in Sites /\ MaxDepth \in Nat /\ MaxPages \in Nat /\ Losses \in Nat
  BY SiteTyped DEF Init
<1>2. site.start \in Path /\ InScope(site.start)
  BY <1>1, SiteTyped, ScopeIs
<1>3. queue \in Seq(Entry)
  <2>1. [p |-> site.start, d |-> 0] \in Entry
    BY <1>1, <1>2 DEF Entry
  <2>2. QED BY <2>1 DEF Init
<1>4. IsFiniteSet(visited) /\ InBudget
  BY <1>1, FS_EmptySet DEF Init, InBudget
<1>5. WalkInv
  BY <1>1, <1>3, <1>4 DEF Init, WalkInv, Entry, Early
<1>6. RouteInv /\ EndpointInv
  BY DEF Init, RouteInv, EndpointInv, Sound
<1>7. FormInv
  BY DEF Init, FormInv, RefusedStaysOut, EmptyIsBare
<1>8. CountInv
  <2>1. cta \in BOOLEAN /\ session \in BOOLEAN
    BY DEF Init
  <2>2. lost \in 0 .. Losses
    BY <1>1 DEF Init
  <2>3. state \in {"none", "rendered", "error", "stuck", "empty"}
    BY DEF Init
  <2>4. QED BY <2>1, <2>2, <2>3 DEF CountInv
<1>9. QED BY <1>5, <1>6, <1>7, <1>8 DEF CrawlInv

\* Nothing of it is lost when nothing happens.
LEMMA CrawlStutters == ASSUME CrawlInv, UNCHANGED vars PROVE CrawlInv'
<1>1. WalkInv /\ RouteInv /\ EndpointInv /\ FormInv /\ CountInv
  BY DEF CrawlInv
<1>2. UNCHANGED <<site, pc, walk, queried, routes, forms, seen, endpoints, cta, dom, session, state, refused, lost>>
  BY DEF vars, walk, surface, browser, hist
<1>3. WalkInv' /\ RouteInv' /\ EndpointInv'
  BY <1>1, <1>2, WalkRest, RouteRest, EndpointRest DEF WalkInv, Late
<1>4. FormInv' /\ CountInv'
  BY <1>1, <1>2 DEF FormInv, CountInv, RefusedStaysOut, EmptyIsBare
<1>5. QED BY <1>3, <1>4 DEF CrawlInv

\* Every step of discover() keeps it.
LEMMA CrawlStep == CrawlInv /\ [Next]_vars => CrawlInv'
<1>1. CrawlInv /\ Next => CrawlInv'
  BY SkipKeeps, FetchKeeps, IngestKeeps, RegisterKeeps, RenderEntryKeeps, RenderRestKeeps, ObserveKeeps,
     MineKeeps, ConventionalKeeps, SearchKeeps, PerceiveKeeps, GuardKeeps, MineAuthKeeps, AssembleKeeps DEF Next
<1>2. QED BY <1>1, CrawlStutters

\* The invariant is one of the specification.
LEMMA CrawlAlways == Spec => []CrawlInv
<1>1. QED BY CrawlInit, CrawlStep, PTL DEF Spec

\* For every site and whatever is lost, discover() asks for MaxPages pages at most, no
\* endpoint but one a model pointed at is in another app of the host, and no form a guard
\* took away is probed.
THEOREM CrawlStaysInBounds == Spec => []StaysInBounds
<1>1. CrawlInv => StaysInBounds
  BY DEF CrawlInv, WalkInv, EndpointInv, Sound, FormInv, StaysInBounds, Confined
<1>2. QED BY <1>1, CrawlAlways, PTL

\* For every site and whatever is lost, a guessed endpoint of the Profile was answered and
\* is no second row of another, a source that only points is credited with what it alone
\* found, and a crawl that is called empty has nothing that could be probed.
THEOREM CrawlSurfaceSound == Spec => []SurfaceIsSound
<1>1. CrawlInv => TypeOK
  <2> SUFFICES ASSUME CrawlInv PROVE TypeOK
    OBVIOUS
  <2>1. queue \in Seq(Entry)
    BY DEF CrawlInv, WalkInv, Entry
  <2>2. \A i \in DOMAIN queue : queue[i] \in Entry
    BY <2>1
  <2>3. \A i \in DOMAIN queue : queue[i].d \in 0 .. MaxDepth
    BY <2>2 DEF Entry
  <2>4. QED BY <2>3 DEF CrawlInv, WalkInv, EndpointInv, Sound, FormInv, CountInv, TypeOK, Early
<1>2. CrawlInv => VerifiedOnce /\ CreditIsUnique
  BY DEF CrawlInv, EndpointInv, Sound, VerifiedOnce, CreditIsUnique
<1>3. CrawlInv => SurfaceIsSound
  BY <1>1, <1>2 DEF CrawlInv, FormInv, SurfaceIsSound
<1>4. QED BY <1>3, CrawlAlways, PTL
=============================================================================
