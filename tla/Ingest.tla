-------------------------------- MODULE Ingest --------------------------------
(***************************************************************************)
(* Reading an event off the submission site (devpost.py, devpost_repos.py) and *)
(* what survives of it in the ingest cache (IngestCache over append_jsonl): an *)
(* enumeration that must tell an empty gallery from a blocked one, and a file   *)
(* that a killed process leaves a torn line in.                            *)
(***************************************************************************)
EXTENDS Integers, FiniteSets, Sequences, Functions

CONSTANTS
    Apps,     \* the sites and what is asked of them, see MCServices
    Tries,    \* tries of _get_detail
    MaxPages, \* max_pages of submissions, event_meta and the scraper
    Limit,    \* --limit of the scraper
    Faults,   \* bound: answers that are not the page
    Restarts  \* bound: runs after the first

VARIABLES
    app,    \* the site, and the question: walk, scrape, links or meta
    at,     \* where the process is
    mem,    \* the process: its cache, page, projects left on it, tries, what it gave out, how it ended
    disk,   \* the cache file; history: keys whose put returned, torn lines, runs, a hollow page was read
    faults  \* history: answers that were not the page

vars == <<app, at, mem, disk, faults>>

Started == [cache |-> <<>>, page |-> 1, items |-> <<>>, tries |-> 1, out |-> {}, seen |-> {}, clean |-> TRUE, status |-> "none"]

Init == /\ app \in Apps
        /\ at = "load" /\ mem = Started /\ faults = 0
        /\ disk = [log |-> app.legacy, saved |-> {}, tears |-> 0, runs |-> 0, hollow |-> FALSE]

Go(pc, m)    == at' = pc /\ mem' = m
Done(m, how) == at' = "end" /\ mem' = [m EXCEPT !.status = how]

-----------------------------------------------------------------------------
(* The cache file: whole lines, and where a writer was killed a torn one, which *)
(* the next append is glued to.                                            *)

Line(k, v, is) == [k |-> k, v |-> v, is |-> is]

\* Mutant: a torn line does not swallow the next one.
BugAppended(line) == Append(disk.log, line)

\* The file ends in a torn line.
Torn == disk.log # <<>> /\ disk.log[Len(disk.log)].is = "torn"

Appended(line) ==
    IF Torn
    THEN Append(SubSeq(disk.log, 1, Len(disk.log) - 1), [line EXCEPT !.is = IF @ = "torn" THEN "torn" ELSE "glued"])
    ELSE Append(disk.log, line)

\* What a reader makes of lines of the file: the last of a key counts.
Read(lines) == [k \in {disk.log[n].k : n \in lines} |->
                  disk.log[CHOOSE n \in lines : disk.log[n].k = k /\ \A l \in lines : disk.log[l].k = k => l <= n].v]

First == CASE app.asks \in {"walk", "scrape"} -> "gallery"
           [] app.asks = "links"              -> "pages"
           [] app.asks = "meta"               -> "api"

WholeLines == {n \in 1 .. Len(disk.log) : disk.log[n].is = "whole"}

Load == /\ at = "load"
        /\ Go(First, [mem EXCEPT !.cache = Read(WholeLines)])
        /\ UNCHANGED <<app, disk, faults>>

\* The process is killed, or has ended, and is started again.
Again(log, tears) == /\ disk.runs < Restarts
                     /\ disk' = [disk EXCEPT !.log = log, !.tears = tears, !.runs = @ + 1]
                     /\ Go("load", Started)

Restart == /\ at # "load" /\ Again(disk.log, disk.tears)
           /\ UNCHANGED <<app, faults>>

-----------------------------------------------------------------------------
(* One fetch.  What the site has is read, or what comes back is no page: a     *)
(* block or a lost answer is asked for again until the tries are used up; a    *)
(* server error, an empty body, a challenge or another host is a block at once. *)
(* An interstitial that nothing marks as one reads as a page without entries. *)

Page(is, has) == [is |-> is, has |-> has]

\* Mutant: what cannot be read is an empty page.
BugBlocked == Page("ok", <<>>)

Blocked == Page("blocked", <<>>)
Hollow  == Page("hollow", <<>>)

\* One more fault is had: the request is tried again, or what it brought is taken.
Retry == /\ faults < Faults /\ mem.tries < Tries
         /\ faults' = faults + 1
         /\ Go(at, [mem EXCEPT !.clean = FALSE, !.tries = @ + 1])
         /\ UNCHANGED disk

Fetched(truth) ==
    {[got |-> truth, m |-> mem, faults |-> faults]}
    \cup [got : {Blocked} \cup (IF truth.is = "ok" /\ at # "api" THEN {Hollow} ELSE {}),
          m : {[mem EXCEPT !.clean = FALSE]},
          faults : {faults + 1} \cap (0 .. Faults)]

Noted(got) == [disk EXCEPT !.hollow = @ \/ got.is = "hollow"]

\* What was read is put in the cache and the process goes on, or is killed in the append.
Put(k, got, pc, m) ==
    \/ /\ disk' = [Noted(got) EXCEPT !.log = Appended(Line(k, got.has, "whole")), !.saved = @ \cup {k}]
       /\ Go(pc, [m EXCEPT !.cache = [j \in DOMAIN @ \cup {k} |-> IF j = k THEN got.has ELSE @[j]]])
    \/ Again(Appended(Line(k, got.has, "torn")), disk.tears + 1)

-----------------------------------------------------------------------------
(* The gallery, page by page: submissions raises at a block, page_projects and *)
(* links_for of the scraper flatten it.                                    *)

Gallery(n) == IF n <= Len(app.gallery) THEN Page("ok", app.gallery[n]) ELSE app.beyond
Project(p) == IF p \in app.gone THEN Page("absent", <<>>) ELSE Page("ok", app.links[p])

Listed(m, items) == [m EXCEPT !.items = items, !.tries = 1, !.status = IF items = <<>> THEN "ended" ELSE @]
Where(m) == IF m.status # "none" THEN "end" ELSE IF m.items # <<>> THEN "project" ELSE "gallery"

Unread(m) == Done(m, IF app.asks = "walk" THEN "blocked" ELSE "ended")

TurnPage ==
    /\ at = "gallery"
    /\ LET k == <<"page", mem.page>>
           then(got, m) == CASE got.is = "blocked" -> Unread(m) /\ disk' = disk
                             [] got.is = "absent"  -> Done(m, "ended") /\ disk' = disk
                             [] got.is \in {"ok", "hollow"} -> Put(k, got, Where(Listed(m, got.has)), Listed(m, got.has))
       IN  CASE mem.page > MaxPages  -> Done(mem, "ended") /\ UNCHANGED <<disk, faults>>
             [] mem.page <= MaxPages /\ k \in DOMAIN mem.cache ->
                    LET m == Listed(mem, mem.cache[k]) IN Go(Where(m), m) /\ UNCHANGED <<disk, faults>>
             [] OTHER -> Retry \/ \E r \in Fetched(Gallery(mem.page)) : faults' = r.faults /\ then(r.got, r.m)
    /\ UNCHANGED app

Shared(links, others) == Range(links) \cap Range(others) # {}

\* The scraper keeps what links something and nothing it has, up to its limit.
Kept(m, p, links) == IF app.asks = "scrape" /\ (links = <<>> \/ \E q \in m.out : Shared(q[2], links))
                     THEN m.out ELSE m.out \cup {<<p, links>>}

Given(m, links) ==
    LET p    == Head(m.items)
        rest == Tail(m.items)
        out  == Kept(m, p, links)
    IN  [m EXCEPT !.items = rest, !.tries = 1, !.page = IF rest = <<>> THEN @ + 1 ELSE @, !.out = out,
                  !.status = IF app.asks = "scrape" /\ Cardinality(out) >= Limit THEN "ended" ELSE @]

Submission ==
    /\ at = "project"
    /\ LET p == Head(mem.items)
           k == <<"hrefs", p>>
           legacy == <<"links", p>>
           on(m) == Go(Where(m), m) /\ disk' = disk
           then(got, m) ==
               CASE got.is = "blocked" -> IF app.asks = "walk" THEN Unread(m) /\ disk' = disk ELSE on(Given(m, <<>>))
                 [] got.is = "absent"  -> on(Given(m, <<>>))
                 [] got.is \in {"ok", "hollow"} -> LET g == Given(m, got.has) IN Put(k, got, Where(g), g)
       IN  CASE app.asks = "scrape" /\ legacy \in DOMAIN mem.cache -> on(Given(mem, mem.cache[legacy])) /\ faults' = faults
             [] (app.asks # "scrape" \/ legacy \notin DOMAIN mem.cache) /\ k \in DOMAIN mem.cache ->
                    on(Given(mem, mem.cache[k])) /\ faults' = faults
             [] OTHER -> Retry \/ \E r \in Fetched(Project(p)) : faults' = r.faults /\ then(r.got, r.m)
    /\ UNCHANGED app

-----------------------------------------------------------------------------
(* event_links: the anchors of the event's own two pages, and how much of them *)
(* was read.                                                               *)

Scanned(seen) == IF "blocked" \in seen THEN "blocked" ELSE IF seen = {"absent"} THEN "not_found" ELSE "ok"

Scan == /\ at = "pages"
        /\ IF mem.page > Len(app.pages) THEN Done(mem, Scanned(mem.seen)) /\ UNCHANGED <<disk, faults>>
           ELSE LET then(got, m) ==
                        /\ disk' = Noted(got)
                        /\ Go(at, [m EXCEPT !.page = @ + 1, !.tries = 1, !.out = @ \cup Range(got.has),
                                            !.seen = @ \cup {IF got.is = "hollow" THEN "ok" ELSE got.is}])
                IN  Retry \/ \E r \in Fetched(app.pages[mem.page]) : faults' = r.faults /\ then(r.got, r.m)
        /\ UNCHANGED app

-----------------------------------------------------------------------------
(* event_meta: the event in the search of the API, and where it is not found   *)
(* there, its own page.                                                    *)

Search == /\ at = "api"
          /\ LET then(got, m) ==
                     /\ disk' = disk
                     /\ CASE got.is = "blocked" -> Done(m, "blocked")
                          [] got.is = "absent"  -> Done(m, "not_found")
                          [] got.is = "ok" /\ TRUE \in Range(got.has) -> Done(m, "ok")
                          [] got.is = "ok" /\ got.has = <<>>          -> Go("event", [m EXCEPT !.tries = 1])
                          [] got.is = "ok" /\ Range(got.has) = {FALSE} -> Go(at, [m EXCEPT !.page = @ + 1, !.tries = 1])
             IN  IF mem.page > MaxPages THEN Go("event", mem) /\ UNCHANGED <<disk, faults>>
                 ELSE Retry \/ \E r \in Fetched(IF mem.page <= Len(app.api) THEN app.api[mem.page] ELSE Page("ok", <<>>)) :
                                  faults' = r.faults /\ then(r.got, r.m)
          /\ UNCHANGED app

Corroborate == /\ at = "event"
               /\ LET then(got, m) == /\ disk' = Noted(got)
                                      /\ Done(m, IF got.is = "absent" THEN "not_found" ELSE "blocked")
                  IN  Retry \/ \E r \in Fetched(app.event) : faults' = r.faults /\ then(r.got, r.m)
               /\ UNCHANGED app

-----------------------------------------------------------------------------
Steps == Load \/ TurnPage \/ Submission \/ Scan \/ Search \/ Corroborate

Next == Steps \/ Restart

\* A request has a timeout and the tries are counted; a restart may never come.
Spec == Init /\ [][Next]_vars /\ WF_vars(Steps)

-----------------------------------------------------------------------------
Galleries == app.asks \in {"walk", "scrape"}
Present   == UNION {Range(app.gallery[n]) : n \in 1 .. IF Len(app.gallery) < MaxPages THEN Len(app.gallery) ELSE MaxPages}

\* A block is never taken for an end: what submissions gives out is true, and when
\* it ends without raising, it is every submission of the pages it may turn.
WalkIsWhole == app.asks = "walk" /\ ~disk.hollow =>
                  LET all == {<<p, Project(p).has>> : p \in Present}
                  IN  mem.out \subseteq all /\ (mem.status = "ended" => mem.out = all)

Truth(k) == (IF k[1] = "page" THEN Gallery(k[2]) ELSE Project(k[2])).has

\* Nothing that failed is remembered, through crashes and restarts: what the cache
\* answers is what the site has.
CacheIsTrue == Galleries /\ ~disk.hollow => \A k \in DOMAIN mem.cache : mem.cache[k] = Truth(k)

\* No two records of the scraper link the same thing, and a run that meets no fault
\* finds all there is, up to its limit, whatever the runs before it met.
ScrapeRecovers ==
    app.asks = "scrape" =>
        /\ \A q, r \in mem.out : q # r => ~Shared(q[2], r[2])
        /\ mem.clean /\ ~disk.hollow /\ at = "end" =>
               \/ Cardinality(mem.out) = Limit
               \/ \A p \in Present : Project(p).has = <<>> \/ \E q \in mem.out : Shared(q[2], Project(p).has)

\* A process that is killed while it appends costs the next run the line after the
\* torn one, and no other.
ResumeLosesLittle == at # "load" => Cardinality(disk.saved \ DOMAIN mem.cache) <= disk.tears

\* "It is not there" is never concluded from silence: a published link may be missed
\* under "blocked", an event that the search does not list under "blocked" too, unless
\* its own page answers 404, which corroborates the miss.  event_meta also passes on a
\* 404 of the search itself, within its pages, without asking for the event's page, so
\* that an event that is live is then said not to exist.
AbsenceWasAnswered ==
    /\ app.asks = "links" =>
          /\ \A l \in mem.out : \E n \in 1 .. Len(app.pages) : l \in Range(app.pages[n].has)
          /\ mem.status = "ok" /\ ~disk.hollow => mem.out = UNION {Range(app.pages[n].has) : n \in 1 .. Len(app.pages)}
          /\ mem.status = "not_found" => \A n \in 1 .. Len(app.pages) : app.pages[n].is = "absent"
    /\ app.asks = "meta" =>
          /\ mem.status = "ok" => \E n \in 1 .. Len(app.api) : TRUE \in Range(app.api[n].has)
          /\ mem.status = "not_found" => \/ app.event.is = "absent"
                                         \/ \E n \in 1 .. Len(app.api) : n <= MaxPages /\ app.api[n].is = "absent"

Ends == <>[](at = "end")

TypeOK == /\ at \in {"load", "gallery", "project", "pages", "api", "event", "end"}
          /\ mem.status \in {"none", "ended", "blocked", "ok", "not_found"} /\ (mem.status # "none" <=> at = "end")
          /\ mem.tries \in 1 .. Tries /\ mem.page \in 1 .. (IF app.asks = "links" THEN Len(app.pages) ELSE MaxPages) + 1
          /\ \A n \in 1 .. Len(disk.log) : disk.log[n].is = "torn" => n = Len(disk.log)
          /\ disk.tears <= disk.runs /\ disk.runs \in 0 .. Restarts /\ faults \in 0 .. Faults

-----------------------------------------------------------------------------
(* The inductive invariant of the proof in ServicesProofs.                   *)

Projects == 1 .. Len(app.links)
Keys     == ({"page"} \X Nat) \cup ({"hrefs", "links"} \X Projects)

\* A file is a sequence of lines, each of a key.
Lined(log) == /\ Len(log) \in Nat /\ log = [n \in 1 .. Len(log) |-> log[n]]
              /\ \A n \in 1 .. Len(log) : log[n].k \in Keys /\ log[n].is \in {"whole", "torn", "glued"}

\* A page of the search: the event is in it or not, or the search is at its end.
Searched(has) == TRUE \in Range(has) \/ has = <<>> \/ Range(has) = {FALSE}

\* What a site may be: pages of a gallery name submissions, and an older cache is true.
Site == /\ app.asks \in {"walk", "scrape", "links", "meta"}
        /\ Galleries => /\ app.gallery \in Seq(Seq(Projects) \ {<<>>}) /\ Len(app.links) \in Nat
                        /\ \A p \in Projects : app.links[p] = <<>> \/ Range(app.links[p]) # {}
                        /\ app.beyond \in [is : {"ok", "absent"}, has : {<<>>}]
                        /\ Lined(app.legacy)
                        /\ \A n \in 1 .. Len(app.legacy) : app.legacy[n].is = "whole" /\ app.legacy[n].v = Truth(app.legacy[n].k)
        /\ ~Galleries => app.legacy = <<>>
        /\ app.asks = "links" => Len(app.pages) \in Nat /\ \A n \in 1 .. Len(app.pages) : app.pages[n].is \in {"ok", "absent"}
        /\ app.asks = "meta" => Len(app.api) \in Nat /\ app.event.is \in {"ok", "absent"}
                                /\ \A n \in 1 .. Len(app.api) : app.api[n].is = "absent" \/ (app.api[n].is = "ok" /\ Searched(app.api[n].has))

Shaped == /\ {"cache", "page", "items", "tries", "out", "seen", "clean", "status"} \subseteq DOMAIN mem
          /\ {"log", "saved", "tears", "runs", "hollow"} \subseteq DOMAIN disk
          /\ mem.clean \in BOOLEAN /\ disk.hollow \in BOOLEAN /\ disk.tears \in Nat
          /\ at \in {"gallery", "project"} => Galleries
          /\ at = "pages" => app.asks = "links"
          /\ at \in {"api", "event"} => app.asks = "meta"

\* What was read is there, or an interstitial was taken for an empty page. A key that
\* was saved is in a whole line, or a torn line before it accounts for it.
Holds(k, v) == v = Truth(k) \/ (disk.hollow /\ v = <<>>)
Whole       == {disk.log[n].k : n \in WholeLines}

StoreInv == /\ Lined(disk.log) /\ IsFiniteSet(disk.saved)
            /\ \A n \in WholeLines : Holds(disk.log[n].k, disk.log[n].v)
            /\ Cardinality(disk.saved \ Whole) + (IF Torn THEN 1 ELSE 0) <= disk.tears
            /\ \A k \in DOMAIN mem.cache : k \in Keys /\ Holds(k, mem.cache[k])
            /\ at # "load" => Whole \subseteq DOMAIN mem.cache

\* Where a process is in the gallery, and that nothing before it was left out.
Before(n) == UNION {Range(app.gallery[i]) : i \in 1 .. n - 1}
Taken(p)  == IF app.asks = "walk" THEN <<p, Project(p).has>> \in mem.out
             ELSE Project(p).has = <<>> \/ \E q \in mem.out : Shared(q[2], Project(p).has)

PlaceInv == /\ at \in {"load", "gallery"} => mem.items = <<>> /\ mem.page <= Len(app.gallery) + 1
            /\ at = "project" => /\ mem.items \in Seq(Projects) /\ mem.items # <<>>
                                 /\ mem.page <= MaxPages /\ mem.page <= Len(app.gallery)
                                 /\ Range(mem.items) \subseteq Range(app.gallery[mem.page])

OutInv == /\ IsFiniteSet(mem.out)
          /\ app.asks = "walk" /\ ~disk.hollow => \A q \in mem.out : \E p \in Present : q = <<p, Project(p).has>>
          /\ app.asks = "scrape" => /\ \A q, r \in mem.out : q # r => ~Shared(q[2], r[2])
                                    /\ Cardinality(mem.out) <= Limit /\ (Cardinality(mem.out) = Limit => at = "end")
                                    /\ mem.status \in {"none", "ended"}
          /\ ~disk.hollow /\ (app.asks = "walk" \/ mem.clean) =>
                 /\ at \in {"load", "gallery"} => \A p \in Before(mem.page) : Taken(p)
                 /\ at = "project" => \A p \in Before(mem.page + 1) : Taken(p) \/ p \in Range(mem.items)
                 /\ mem.status = "ended" => \/ app.asks = "scrape" /\ Cardinality(mem.out) = Limit
                                            \/ \A p \in Present : Taken(p)

\* What the anchors of the pages that were read say.
LinksInv == app.asks = "links" =>
    /\ \A l \in mem.out : \E n \in 1 .. Len(app.pages) : l \in Range(app.pages[n].has)
    /\ at \in {"load", "pages"} =>
          \A n \in 1 .. mem.page - 1 :
              \/ "blocked" \in mem.seen
              \/ app.pages[n].is \in mem.seen /\ (~disk.hollow => Range(app.pages[n].has) \subseteq mem.out)
    /\ mem.status = "ok" /\ ~disk.hollow => \A n \in 1 .. Len(app.pages) : Range(app.pages[n].has) \subseteq mem.out
    /\ mem.status = "not_found" => \A n \in 1 .. Len(app.pages) : app.pages[n].is = "absent"

MetaInv == app.asks = "meta" =>
    /\ mem.status = "ok" => \E n \in 1 .. Len(app.api) : TRUE \in Range(app.api[n].has)
    /\ mem.status = "not_found" => \/ app.event.is = "absent"
                                   \/ \E n \in 1 .. Len(app.api) : n <= MaxPages /\ app.api[n].is = "absent"

IngestInv == /\ Site /\ TypeOK /\ Shaped
             /\ Galleries => StoreInv /\ PlaceInv /\ OutInv
             /\ ~Galleries => disk.log = <<>> /\ disk.saved = {}
             /\ LinksInv /\ MetaInv
=============================================================================
