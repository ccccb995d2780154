------------------------------ MODULE MCServices ------------------------------
(***************************************************************************)
(* The services around a grade, Ingest, ProbeThreads, Render, Signup, Deploy   *)
(* and RunCache, in one run: what is chosen first says which of them runs, and *)
(* the state variables are shared.                                         *)
(***************************************************************************)
EXTENDS Integers, Sequences, FiniteSets

CONSTANTS Tries, MaxPages, Limit, Faults, Restarts, ProbeDeadline, LaneDeadline, MaxProbes, TotalTimeout, Crashes, Window, Edits, Runs

VARIABLES app, at, mem, aux, faults

ASSUME ServicesAssumption ==
    /\ {Tries, MaxPages, Limit, Restarts, ProbeDeadline, LaneDeadline, MaxProbes, TotalTimeout, Window, Edits, Runs} \subseteq Nat \ {0}
    /\ {Faults, Crashes} \subseteq Nat /\ ProbeDeadline < LaneDeadline

-----------------------------------------------------------------------------
\* Galleries that end with an empty page or with none, submissions that link the same,
\* nothing, or are gone; caches of older versions; an event that is there or is not.
Answer(is, has) == [is |-> is, has |-> has]
Gone            == Answer("absent", <<>>)
Empty           == Answer("ok", <<>>)

Linked    == <<<<"repoA", "urlA">>, <<"repoA">>, <<"urlB">>, <<>>>>
Galleries == {<<>>, <<<<1, 2>>>>, <<<<4>>, <<1, 3>>>>, <<<<1, 2>>, <<3>>>>, <<<<1>>, <<2>>, <<3>>>>}
Caches    == {<<>>, <<[k |-> <<"links", 1>>, v |-> Linked[1], is |-> "whole"]>>}
Pages     == {<<a, b>> : a, b \in {Gone, Empty, Answer("ok", <<"token">>)}}
Searches  == LET quiet == Answer("ok", <<FALSE>>)
             IN  {<<>>, <<quiet>>, <<quiet, Answer("ok", <<FALSE, TRUE>>)>>, <<Gone>>, <<quiet, quiet, Answer("ok", <<TRUE>>)>>}

Sites == {a \in [asks : {"walk", "scrape"}, gallery : Galleries, beyond : {Empty, Gone}, links : {Linked}, gone : {{}, {1}},
                 legacy : Caches] : 1 \in a.gone => a.legacy = <<>>}
         \cup [asks : {"links"}, legacy : {<<>>}, pages : Pages]
         \cup [asks : {"meta"}, legacy : {<<>>}, event : {Gone, Empty}, api : Searches]

\* Batteries: probes with one thread, a pool or a lane, in a thread or in the loop's own.
Triples   == {<<a, b, "inline">> : a \in {"lane", "pool"}, b \in {"plain", "inline"}}
Batteries == [asks : {"battery"}, kinds : Triples, stalls : {{1}}, scope : {"origin"}]
             \cup UNION {[asks : {"battery"}, kinds : [1 .. n -> {"plain", "pool", "lane", "inline"}], stalls : SUBSET (1 .. n),
                          scope : {"origin"}] : n \in 1 .. 2}

\* Up to three routes, each in every character.
Renders == UNION {[asks : {"render"}, routes : [1 .. n -> {"paints", "raises", "wedges"}]] : n \in 1 .. 3}

\* A target with every answer to either scheme; a process or a container in every character.
Deploys ==
    [asks : {"deploy"}, kind : {"remote"}, submitted : {"http", "https"}, https : {"up", "away", "5xx", "dead", "silent"},
     http : {"up", "upgrade", "away", "5xx", "dead", "silent"}]
    \cup [asks : {"deploy"}, kind : {"process"}, is : {"up", "5xx", "exits", "silent"}, moves : BOOLEAN]
    \cup [asks : {"deploy"}, kind : {"container"}, is : {"up", "5xx", "exits", "silent"}, builds : BOOLEAN, network : BOOLEAN]

Commands == [asks : {"command"}, is : {"file", "directory"}, refresh : BOOLEAN]

\* Pages of every kind as the homepage, behind its links and its button, and at the routes
\* that are tried; then what is mailed and granted, where only an address is asked for.
Plain(form)   == [form |-> form, auth |-> FALSE, cta |-> FALSE, own |-> TRUE]
Visible(form) == [form |-> form, auth |-> TRUE, cta |-> FALSE, own |-> TRUE]
Buttoned(form) == [form |-> form, auth |-> FALSE, cta |-> TRUE, own |-> TRUE]
Theirs        == [form |-> "signup", auth |-> FALSE, cta |-> FALSE, own |-> FALSE]

Homes(plain, buttoned) == {Visible("none"), Visible("email")} \cup {Plain(form) : form \in plain}
                          \cup {Buttoned(form) : form \in buttoned}

Walked == {<<>>, <<Plain("none"), Plain("signup")>>, <<Plain("login"), Plain("signup")>>, <<Theirs, Plain("plain")>>}
Fished == {<<Plain("none"), Plain("none")>>, <<Plain("login"), Plain("signup")>>, <<Plain("none"), Plain("plain")>>, <<Theirs>>}
Asking == {<<Plain("none")>>, <<Plain("none"), Plain("email")>>}

Signups ==
    {a \in [asks : {"signup"}, home : Homes({"none", "signup", "plain", "login"}, {"none", "login"}), links : Walked,
            button : {Plain("signup"), Plain("login"), Theirs}, routes : Fished, logins : {<<Plain("none")>>}, emails : {"code"},
            second : {TRUE}, grants : {"session"}, visits : {FALSE}, mode : {"bare", "wizard"}] : a.home.cta \/ a.button = Theirs}
    \cup {a \in [asks : {"signup"}, home : Homes({"none", "email", "signup"}, {}), links : {<<>>}, button : {Plain("none")},
                 routes : Asking, logins : Asking, emails : {"code", "link", "nothing"}, second : BOOLEAN,
                 grants : {"session", "mail", "nothing"}, visits : BOOLEAN, mode : {"bare", "email", "wizard"}] :
              a.visits => a.grants = "mail"}

I == INSTANCE Ingest       WITH Apps <- Sites, disk <- aux
T == INSTANCE ProbeThreads WITH Apps <- Batteries, th <- aux
R == INSTANCE Render       WITH Apps <- Renders
S == INSTANCE Signup       WITH Apps <- Signups
D == INSTANCE Deploy       WITH Apps <- Deploys
C == INSTANCE RunCache     WITH Apps <- Commands

Asks(what) == app.asks \in what
Reading == {"walk", "scrape", "links", "meta"}

Init == \/ I!Init
        \/ T!Init /\ faults = 0
        \/ R!Init
        \/ S!Init
        \/ D!Init
        \/ C!Init

Next == \/ Asks(Reading) /\ I!Next
        \/ Asks({"battery"}) /\ T!Next /\ UNCHANGED faults
        \/ Asks({"render"}) /\ R!Next
        \/ Asks({"signup"}) /\ S!Next
        \/ Asks({"deploy"}) /\ D!Next
        \/ Asks({"command"}) /\ C!Next

vars == <<app, at, mem, aux, faults>>

Spec == /\ Init /\ [][Next]_vars
        /\ WF_vars(Asks(Reading) /\ I!Steps) /\ WF_vars(Asks({"signup"}) /\ S!Steps)
        /\ WF_vars(Asks({"deploy"}) /\ D!Steps) /\ WF_vars(Asks({"command"}) /\ C!Steps)
        /\ WF_vars(Asks({"battery"}) /\ T!Loops /\ UNCHANGED faults)
        /\ WF_vars(Asks({"battery"}) /\ T!Tick /\ UNCHANGED faults)
        /\ \A i \in 1 .. MaxProbes : WF_vars(Asks({"battery"}) /\ i \in T!Probes /\ T!Advances(i) /\ UNCHANGED faults)
        /\ WF_vars(Asks({"render"}) /\ R!Works) /\ WF_vars(Asks({"render"}) /\ R!Tick)
        /\ WF_vars(Asks({"render"}) /\ R!Waits) /\ WF_vars(Asks({"render"}) /\ R!Reads)

-----------------------------------------------------------------------------
\* Each service keeps to its types and bounds.
TypeOK == /\ Asks(Reading) => I!TypeOK
          /\ Asks({"battery"}) => T!TypeOK
          /\ Asks({"render"}) => R!TypeOK
          /\ Asks({"signup"}) => S!TypeOK
          /\ Asks({"deploy"}) => D!TypeOK
          /\ Asks({"command"}) => C!TypeOK

\* What a service answers is true, and is all there is: a block is no end of a gallery
\* (submissions), only what was read is remembered, through torn lines and restarts
\* (IngestCache), a scrape without faults finds all (devpost_repos), "not found" is
\* concluded from no silence (event_links, event_meta), every route streamed before the wedge is kept
\* (render_routes), a signup that can be reached is, and what is said of it is so
\* (register_in_browser), a grade is served again only of the rules and the app it saw (runcache).
AnswersAreWhole ==
    /\ Asks(Reading) => I!WalkIsWhole /\ I!CacheIsTrue /\ I!ScrapeRecovers /\ I!ResumeLosesLittle /\ I!AbsenceWasAnswered
    /\ Asks({"render"}) => R!StreamedIsKept
    /\ Asks({"signup"}) => S!SignupIsTrue
    /\ Asks({"command"}) => C!HitIsFresh

\* A service keeps to its own: an outcome to the evidence of its probe, a thread to the scope
\* of its grade, a watchdog to the lane that has run its time (_run_bounded, scope_bound,
\* _kill_browser_on_stall), a signup to one form of the app, a grade to the host that was
\* submitted and the app it started.
KeepsToItsOwn ==
    /\ Asks({"battery"}) => T!OutcomeIsOwn /\ T!KilledInTime /\ T!ScopeIsKept
    /\ Asks({"signup"}) => S!OneOwnForm
    /\ Asks({"deploy"}) => D!OriginIsTheirs /\ D!GradedIsOurs

\* Nothing runs on: neither the browser below a render worker that is killed, nor an app
\* after its grade or its failed start (render_routes, teardown).
NothingStaysBehind ==
    /\ Asks({"render"}) => R!TreeIsKilled
    /\ Asks({"deploy"}) => D!NothingLeft

\* Every service comes to its end: tries and pages are counted, stuck probes are left
\* behind, wedged renderers are killed.
Ends == <>[](at = "end")

-----------------------------------------------------------------------------
\* The inductive invariant of the proofs in ServicesProofs: each service's own.
ServicesInv ==
    /\ Asks({"battery"}) => T!ThreadsInv /\ T!TypeOK /\ T!KeptInv
    /\ Asks({"render"}) => R!TreeInv /\ R!StreamInv
    /\ Asks({"signup"}) => S!SignupInv /\ app.home.own = TRUE
    /\ Asks({"deploy"}) => D!DeployInv /\ D!TypeOK
    /\ Asks(Reading) => I!IngestInv
    /\ Asks({"command"}) => C!CacheInv
=============================================================================
