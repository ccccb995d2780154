------------------------------- MODULE MCProbes -------------------------------
(***************************************************************************)
(* The probe families of Injection, Echo, Records, Backend, Limits and Pages *)
(* in one run: the app that is chosen first says which family runs, and the state   *)
(* variables are shared.                                                   *)
(***************************************************************************)
EXTENDS Integers, Sequences, FiniteSets

VARIABLES app, at, mem, th, sent, faults, verdict

CONSTANTS Pool, Cap, Attempts, DeepSlots, UploadBudget, Variants, Dirs, Creates, Bursts, Need, Tries,
          Keys, Cut, Guess, Logins, Gated, Payloads, Hops, Budget, MaxRoutes, MaxControls, Faults

ASSUME ProbesAssumption == {Pool, Cap, Attempts, DeepSlots, UploadBudget, Variants, Dirs, Creates, Bursts, Need, Tries,
                            Keys, Cut, Guess, Logins, Gated, Payloads, Hops, Budget,
                            MaxRoutes, MaxControls, Faults} \subseteq Nat \ {0}

-----------------------------------------------------------------------------
(* Apps of each family: a target, or what a probe looks at, in every character. *)

\* An open target, one behind a gate and an open one, and one that uses up the requests.
Page(gate, voice, json, sinks) == [gate |-> gate, voice |-> voice, json |-> json, sinks |-> sinks]
Visit(probe, cap, targets)     == [probe |-> probe, cap |-> cap, targets |-> targets]
Alone(voice, json, a)          == <<Page("open", voice, json, <<a, 0>>)>>
Behind(gate, json, a)          == <<Page(gate, "still", json, <<0>>), Page("open", "still", FALSE, <<0, a>>)>>
Plain(gate)                    == <<Page(gate, "still", FALSE, <<0, 0>>)>>
OpenApps(probe, voices, kinds, json) == {Visit(probe, Cap, Alone(v, json, a)) : v \in voices, a \in kinds}
BehindApps(probe, kinds, json) ==
    {Visit(probe, Cap, Behind(g, json, a)) : g \in {"login", "sick", "proxy", "stream", "phantom"}, a \in kinds}
CappedApps(probe) == {Visit(probe, Cap \div 3, Plain(g)) : g \in {"open", "phantom"}}
SinkApps(probe, voices, kinds, json) ==
    OpenApps(probe, voices, kinds, json) \cup BehindApps(probe, kinds, json) \cup CappedApps(probe)
InjectionApps ==
    SinkApps("sqli", {"still", "echo", "places", "search", "moody", "errs"}, {0, 1, 2, 3, 4}, FALSE)
    \cup SinkApps("cmd", {"still"}, {0, 1, 2, 4}, TRUE)
    \cup SinkApps("ssti", {"still"}, {0, 2}, TRUE)
    \cup SinkApps("lfi", {"still", "errs"}, {0, 1, 2}, TRUE)

\* Lists: of one, of two, of three that begin with two alike, or empty.
AtMostOne(T) == {<<>>} \cup {<<t>> : t \in T}
Couples(S, T) == {<<a, b>> : a \in S, b \in T}
Pairs(T)     == {<<>>} \cup {<<a, b>> : a \in T, b \in T}
Walks(T)     == Pairs(T) \cup {<<a, a, b>> : a \in T, b \in T}
Home         == {<<"page">>}

\* Apps that show a script, that store one, that keep a file, that call back, that are
\* read in other languages.
ScriptApps ==
    [probe : {"xss"}, browser : BOOLEAN,
     targets : {<<t>> : t \in [method : {"get", "post"}, fields : Couples({"no", "flight"}, {"no", "escaped", "flight", "live"}),
                               stores : BOOLEAN]}]
StoreApps ==
    [probe : {"api"}, browser : BOOLEAN, drives : BOOLEAN, unescaped : BOOLEAN,
     targets : {<<>>, <<[accepts |-> FALSE]>>, <<[accepts |-> FALSE], [accepts |-> TRUE]>>}]
FileApps ==
    [probe : {"upload", "active"},
     targets : AtMostOne([accepts : {0, 1, 3, 8}, dir : {1, 7}, runs : BOOLEAN])
               \cup Couples({[accepts |-> 0, dir |-> 0, runs |-> FALSE]}, [accepts : {1, 3}, dir : {1, 7}, runs : BOOLEAN])]
CallbackApps ==
    [probe : {"ssrf", "xxe"}, shows : BOOLEAN, targets : {<<FALSE, TRUE, TRUE>>, <<FALSE>>, <<>>}]
LanguageApps ==
    [probe : {"i18n"}, browser : BOOLEAN, dom : {"none", "intact", "mangled"},
     targets : Couples([plain : {"ok", "500"}, scripts : Couples({"ok", "mangles"}, {"ok", "mangles", "500"}),
                        shows : {"echo", "newest", "oldest", "no"}],
                       [plain : {"ok"}, scripts : Couples({"ok"}, {"ok", "mangles"}), shows : {"newest"}])
               \cup {<<t>> : t \in [plain : {"ok"}, scripts : Couples({"ok", "mangles"}, {"ok", "500"}),
                                    shows : {"newest", "oldest", "no"}]}]
EchoApps == ScriptApps \cup StoreApps \cup FileApps \cup CallbackApps \cup LanguageApps

\* Apps whose records are read by others, one record or a list; whose writes last, by id or
\* in a list; that are written to at once.
OwnerApps ==
    [probe : {"bola", "record", "backend"}, users : {"two", "one"}, owners : {0}, page : {"none"},
     pairs : {<<>>} \cup Couples({[own |-> FALSE, gate |-> "login"]}, {[own |-> TRUE, gate |-> "login"]})
             \cup Couples([own : {TRUE}, gate : {"public", "owner"}], [own : {TRUE}, gate : {"public", "login", "owner"}])]
SharedApps ==
    [probe : {"collection", "idor"}, users : {"two"}, owners : 0 .. 2, page : {"none", "public", "login", "owner"},
     pairs : AtMostOne([own : BOOLEAN, gate : {"public", "login", "owner"}])]
DurableApps ==
    [probe : {"durable"},
     pairs : Couples([observed : BOOLEAN, byId : BOOLEAN, own : BOOLEAN, keeps : BOOLEAN],
                     [observed : {FALSE}, byId : BOOLEAN, own : {TRUE}, keeps : {TRUE}])]
ListApps ==
    [probe : {"list"}, page : {"none", "renders"},
     pairs : {<<p>> : p \in [records : BOOLEAN, wants : {"marker", "number", "bool", "date", "nothing"},
                             says : BOOLEAN, keeps : BOOLEAN, fresh : BOOLEAN]}]
BurstApps ==
    [probe : {"race"}, pairs : {<<>>}, ids : {"atomic", "racy", "one", "hidden"}]
    \cup [probe : {"load"}, pairs : {<<>>}, capacity : 2 .. 4]
RecordApps == OwnerApps \cup SharedApps \cup DurableApps \cup ListApps \cup BurstApps

\* Apps with a database that the client reaches, its tables open or shut; with records for
\* anybody, filters and files on their paths.
Tables  == [inserts : {FALSE}, anon : BOOLEAN, user : {"none", "own", "all"}, column : BOOLEAN, name : BOOLEAN]
ShutTable    == [inserts |-> FALSE, anon |-> FALSE, user |-> "none", column |-> FALSE, name |-> FALSE]
OpenTable    == [ShutTable EXCEPT !.inserts = TRUE]
NoOther == [embedded |-> FALSE, is |-> 1]
Others  == [embedded : BOOLEAN, is : {2}]
Bases   == {<<ShutTable, t, u>> : t \in {ShutTable, OpenTable}, u \in Tables \cup {OpenTable}}
Roots   == {<<ShutTable, ShutTable>>, <<OpenTable, ShutTable>>}
Pasts   == {<<ShutTable, t>> : t \in Tables}
ClientApps ==
    [probe : {"baas", "authed", "bucket"}, embedded : {TRUE}, other : {NoOther}, keys : {1, 2}, good : {1, 2},
     signup : {TRUE}, disclosed : {<<>>, <<3>>, <<3, 2>>}, mined : {<<1, 2>>}, is : Bases]
    \cup [probe : {"schema"}, embedded : {TRUE}, other : {NoOther}, keys : {0, 1, 4}, good : {1, 4}, signup : {TRUE},
          disclosed : {<<>>, <<1>>}, mined : {<<1, 2>>}, is : Roots]
    \cup [probe : {"baas", "authed"}, embedded : BOOLEAN, other : Others, keys : {0, 1}, good : {1},
          signup : BOOLEAN, disclosed : {<<>>}, mined : {<<1>>}, is : Pasts]
Paths   == {<<[shows |-> a], [shows |-> b], [shows |-> "users"]>> :
                a \in {"none", "directory", "refused"}, b \in {"none", "users", "few"}}
Queries == {<<[shows |-> a], [shows |-> b]>> : a \in {"no", "always"}, b \in {"no", "always", "on a comma"}}
File    == [shows : {"no", "secret"}, route : BOOLEAN, claimed : BOOLEAN]
Listing == {<<f, [shows |-> "no", route |-> FALSE, claimed |-> FALSE], g>> : f \in File, g \in File}
PathApps ==
    [probe : {"bulk"}, disclosed : {<<>>}, mined : {<<>>, <<1, 2, 3>>}, is : Paths]
    \cup [probe : {"filter"}, disclosed : {<<>>}, mined : {<<>>, <<1, 2>>}, is : Queries]
    \cup [probe : {"files"}, disclosed : {<<>>}, mined : {<<1, 2, 3>>}, is : Listing]
BackendApps == ClientApps \cup PathApps

\* Apps with logins and gates, with forms, with links, with endpoints, with pages.
GateApps ==
    [probe : {"login"}, catchAll : BOOLEAN, to : Home,
     targets : AtMostOne([limit : {0, 2, 3, 4}, rejects : BOOLEAN, real : BOOLEAN])]
    \cup [probe : {"middleware"}, catchAll : {FALSE}, to : Home, targets : Walks([gated : BOOLEAN, opens : {0, 2}])]
CrossApps ==
    [probe : {"csrf"}, catchAll : BOOLEAN, to : Home, session : {"none", "same site", "cookie"},
     targets : Pairs([does : {"refuses", "away", "redirects", "done", "page"}, real : BOOLEAN])]
LinkApps ==
    [probe : {"links", "loop"}, catchAll : {FALSE}, targets : {<<>>},
     to : {<<a>> : a \in {"page", "1", "off"}}
          \cup {<<a, b, c, d>> : a \in {"page", "2"}, b \in {"page", "3", "dead", "2"},
                                 c \in {"4", "2", "page"}, d \in {"page", "dead", "1"}}]
EndpointApps ==
    [probe : {"crash", "constraint", "bomb", "host"}, catchAll : BOOLEAN, to : Home,
     targets : Pairs([answers : BOOLEAN, real : BOOLEAN, fails : BOOLEAN, errs : {TRUE}, reads : BOOLEAN])]
ErrorApps ==
    [probe : {"errors"}, catchAll : BOOLEAN, to : Home,
     targets : Couples([answers : {TRUE}, real : {TRUE}, fails : BOOLEAN, errs : BOOLEAN],
                       [answers : BOOLEAN, real : BOOLEAN, fails : BOOLEAN, errs : BOOLEAN])]
SplitApps ==
    [probe : {"split"}, catchAll : {FALSE}, to : Home, targets : Pairs([answers : {TRUE}, real : {TRUE}, fails : BOOLEAN])]
OnePageApps ==
    [probe : {"meta", "integrity", "tls"}, catchAll : {FALSE}, to : Home, targets : {<<>>}, page : {"fired", "clean", "na"}]
LimitApps == GateApps \cup CrossApps \cup LinkApps \cup EndpointApps \cup ErrorApps \cup SplitApps \cup OnePageApps

\* Lanes that walk a list, that drive a form, that press BACK, that sign in.
WalkApps ==
    [probe : {"stale"}, gate : BOOLEAN, routes : {<<>>, <<TRUE>>, <<FALSE, TRUE>>}, saves : BOOLEAN, shows : BOOLEAN]
    \cup [probe : {"deep"}, gate : BOOLEAN, paints : BOOLEAN, routes : Walks({"own", "shell", "login", "blank"})]
    \cup [probe : {"scan"}, gate : BOOLEAN, pages : Walks(BOOLEAN)]
    \cup [probe : {"inert"}, gate : {TRUE}, controls : Walks({"dead", "moves", "leaves", "danger"})]
FormApps ==
    [probe : {"silent"}, gate : {TRUE}, form : BOOLEAN, mutates : BOOLEAN, says : BOOLEAN]
    \cup [probe : {"readback", "exec"}, gate : {TRUE}, form : BOOLEAN, saves : BOOLEAN]
    \cup [probe : {"cross"}, gate : {TRUE}, form : BOOLEAN, saves : BOOLEAN, anon : BOOLEAN, other : BOOLEAN]
    \cup [probe : {"console"}, gate : {TRUE}, throws : BOOLEAN, logs : BOOLEAN, broken : BOOLEAN]
BackApps == [probe : {"back"}, gate : {TRUE}, paints : BOOLEAN, link : BOOLEAN, back : {"restores", "url", "stuck", "login"}]
SsoApps ==
    [probe : {"sso"}, gate : BOOLEAN, served : {"none"}, trigger : 0 .. 2, flow : {"none", "sdk", "server"},
     uri : {"dead", "good"}]
    \cup [probe : {"sso"}, gate : BOOLEAN, served : {"dead", "good"}, trigger : {0}, flow : {"none"}, uri : {"good"}]
PageApps == WalkApps \cup FormApps \cup BackApps \cup SsoApps

I == INSTANCE Injection WITH Apps <- InjectionApps, Faults <- Faults
E == INSTANCE Echo      WITH Apps <- EchoApps, Attempts <- Attempts + 1, Faults <- Faults
R == INSTANCE Records   WITH Apps <- RecordApps, Faults <- Faults + 1
B == INSTANCE Backend   WITH Apps <- BackendApps, Faults <- Faults
L == INSTANCE Limits    WITH Apps <- LimitApps, Attempts <- Logins, Faults <- Faults + 1
P == INSTANCE Pages     WITH Apps <- PageApps, Attempts <- Budget, Faults <- Faults + 1

Of(probes) == app.probe \in probes
Injections == {"sqli", "cmd", "ssti", "lfi"}
Echoes     == {"xss", "api", "upload", "active", "ssrf", "xxe", "i18n"}
Writes     == {"bola", "record", "backend", "collection", "idor", "durable", "list", "race", "load"}
Reads      == {"baas", "authed", "schema", "bucket", "bulk", "filter", "files"}
Limited    == {"login", "middleware", "csrf", "links", "loop", "crash", "constraint", "bomb", "host", "errors", "split",
               "meta", "integrity", "tls"}
Lanes      == {"stale", "silent", "back", "deep", "readback", "exec", "cross", "scan", "inert", "console", "sso"}

Init == \/ I!Init
        \/ E!Init /\ th = {}
        \/ R!Init /\ sent = 0
        \/ B!Init /\ sent = 0
        \/ L!Init /\ th = {} /\ sent = 0
        \/ P!Init /\ th = {} /\ sent = 0

Next == \/ Of(Injections) /\ I!Next
        \/ Of(Echoes) /\ E!Next /\ UNCHANGED th
        \/ Of(Writes) /\ R!Next /\ UNCHANGED sent
        \/ Of(Reads) /\ B!Next /\ UNCHANGED sent
        \/ Of(Limited) /\ L!Next /\ UNCHANGED <<th, sent>>
        \/ Of(Lanes) /\ P!Next /\ UNCHANGED <<th, sent>>

vars == <<app, at, mem, th, sent, faults, verdict>>

Spec == Init /\ [][Next]_vars /\ WF_vars(Next)

-----------------------------------------------------------------------------
(* The properties of the families, each of the apps it is about.            *)

\* Every family keeps to its types and its budgets.
TypeOK == /\ Of(Injections) => I!TypeOK
          /\ Of(Echoes)     => E!TypeOK
          /\ Of(Writes)     => R!TypeOK
          /\ Of(Reads)      => B!TypeOK
          /\ Of(Limited)    => L!TypeOK
          /\ Of(Lanes)      => P!TypeOK

\* An app is accused only of what it does: through lost and garbled answers, edges that
\* answer in its place, steps of a browser that fail, up to the faults each probe stands.
AccusedIsGuilty ==
    \* a payload ran in a field that runs it (the reproducing rounds of sqli, cmd, ssti, lfi)
    /\ Of(Injections) => I!FiredIsReal
    \* what was sent came back, and as it is said to (xss, upload, ssrf, xxe, encoding)
    /\ Of(Echoes) => E!FiredIsReal
    \* a second user read what is not hers; an acknowledged write is gone; a race showed twice
    /\ Of(Writes) => R!CrossReadIsReal /\ R!LossIsReal /\ R!RaceIsReal
    \* neither policies per user nor public catalogues nor files that others report fire
    /\ Of(Reads) => B!FiredIsReal
    \* a defect of limits, gates, redirects or controls, or the coincident faults it takes to invent one
    /\ Of(Limited) => L!FiredIsReal
    \* what a lane saw, or the lost steps and the moment of the watchdog it takes to believe so
    /\ Of(Lanes) => P!FiredIsReal

\* With every request answered and its budgets not used up, a probe reports what there is:
\* a hit of one thread of a pool, a late callback, the worse of two findings, a create that
\* wants other types, a candidate in reach.
NothingSeenIsLost ==
    /\ Of(Injections) => I!PoolIsSound
    /\ Of(Echoes) => E!CleanIsInnocent /\ E!WorstIsNamed
    /\ Of(Writes) => R!CreatesAreAccepted
    /\ Of(Reads) => B!NoExposureIsLost
    /\ Of(Limited) => L!DefectsAreFound
    /\ Of(Lanes) => P!DefectsAreFound

\* Clean means that the probe looked: a target was open and a payload tried, a value was
\* seen to survive, the host answered, the page was there.
CleanIsEarned ==
    /\ Of(Injections) => I!UntestedIsNotClean
    /\ Of(Echoes) => E!CleanWasSeen
    /\ Of(Reads) => B!CleanWasHeard
    /\ Of(Lanes) => P!CleanWasSeen

\* Every probe comes to a verdict (the pool joins, every request has a timeout).
Decides == <>(verdict # "none")

-----------------------------------------------------------------------------
\* The inductive invariant of the proofs in ProbesProofs: each family's own.
ProbesInv ==
    /\ Of(Injections) => I!InjectionInv
    /\ Of(Echoes)     => E!EchoInv
    /\ Of(Writes)     => R!RecordInv
    /\ Of(Reads)      => B!BackendInv
    /\ Of(Limited)    => L!LimitInv
    /\ Of(Lanes)      => P!LaneInv
=============================================================================
