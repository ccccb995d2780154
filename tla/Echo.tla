-------------------------------- MODULE Echo --------------------------------
(***************************************************************************)
(* The probes of probes.py that put something into the app and look for it  *)
(* to come back: script in a page (reflected, stored, stored through the    *)
(* JSON API), a file that runs, a callback at the collector of oob.py, and  *)
(* the text of other languages.  Each is a sequence of requests that the    *)
(* app answers in character or that are lost.                               *)
(***************************************************************************)
EXTENDS Integers, Sequences, FiniteSets

CONSTANTS
    Apps,         \* the apps and the probe that is run on each, see MCProbes
    Attempts,     \* max_attempts of the reflection probes
    UploadBudget, \* _UPLOAD_BUDGET
    Variants,     \* how many shapes of a file are uploaded
    Dirs,         \* how many directories it is looked for in
    Faults        \* bound: requests that are lost

VARIABLES
    app,    \* the probe and the app
    at,     \* where the probe is
    mem,    \* n, i, k: the target, its field, the payload; and what the probe holds
    sent,   \* requests so far, of the probes that count them
    faults, \* history: requests that were lost
    verdict

vars == <<app, at, mem, sent, faults, verdict>>

Init == /\ app \in Apps
        /\ at = "start"
        /\ mem = [n |-> 1, i |-> 1, k |-> 0, budget |-> Attempts, tested |-> FALSE, found |-> {}, heard |-> {},
                  survived |-> FALSE, corrupted |-> FALSE, seen |-> FALSE, why |-> "none"]
        /\ sent = 0 /\ faults = 0 /\ verdict = "none"

Targets  == app.targets
Target   == app.targets[mem.n]
NoMore   == mem.n > Len(Targets)
Is(p, pc) == app.probe = p /\ at = pc
Go(pc)   == at' = pc /\ verdict' = verdict
End(v)   == at' = "end" /\ verdict' = v
Hold(m)  == mem' = m
Either(v) == IF mem.tested THEN v ELSE "na"

\* A request came back, or was lost.
Came == faults' = faults
Loss == faults < Faults /\ faults' = faults + 1

-----------------------------------------------------------------------------
(* xss_injectable.  A field answers a marker as "no", "escaped", "flight" (the *)
(* payload is in serialized data and inert) or "live".                     *)

NextField(m) == IF m.i < Len(Target.fields) THEN Go("start") /\ Hold([m EXCEPT !.i = @ + 1])
                                            ELSE Go("stored") /\ Hold(m)

\* The marker: a field of a GET that reflects it is left to the browser.
Marker ==
    /\ Is("xss", "start")
    /\ IF NoMore THEN Go("run") /\ UNCHANGED <<mem, faults>>
       ELSE IF mem.budget = 0 THEN Go("stored") /\ UNCHANGED <<mem, faults>>
       ELSE LET m == [mem EXCEPT !.budget = @ - 1, !.tested = TRUE]
            IN  \/ Loss /\ NextField(m)
                \/ /\ Came
                   /\ CASE Target.fields[mem.i] = "no" -> NextField(m)
                        [] Target.fields[mem.i] # "no" /\ Target.method = "get" /\ app.browser ->
                               NextField([m EXCEPT !.found = @ \cup {<<mem.n, mem.i>>}])
                        [] OTHER -> Go("shapes") /\ Hold([m EXCEPT !.k = 1])
    /\ UNCHANGED <<app, sent>>

\* Without a browser, and for a POST: the shapes of a payload, unescaped in the text.
Shapes ==
    /\ Is("xss", "shapes")
    /\ IF mem.budget = 0 \/ mem.k > 2 THEN NextField(mem) /\ UNCHANGED faults
       ELSE LET m == [mem EXCEPT !.budget = @ - 1, !.k = @ + 1]
            IN  \/ Loss /\ Go(at) /\ Hold(m)
                \/ /\ Came /\ Hold(m)
                   /\ IF mem.k = 2 /\ Target.fields[mem.i] \in {"flight", "live"} THEN End("fired") ELSE Go(at)
    /\ UNCHANGED <<app, sent>>

\* A form is submitted once more, and its page read again.
StoredScript ==
    /\ Is("xss", "stored")
    /\ LET m == [mem EXCEPT !.n = @ + 1, !.i = 1]
       IN  IF mem.budget = 0 THEN Go("run") /\ UNCHANGED <<mem, faults>>
           ELSE IF Target.method = "get" THEN Go("start") /\ Hold(m) /\ UNCHANGED faults
           ELSE /\ Hold([m EXCEPT !.budget = @ - 1])
                /\ \/ Loss /\ Go("start")
                   \/ Came /\ IF Target.stores THEN End("fired") ELSE Go("start")
    /\ UNCHANGED <<app, sent>>

\* The browser has the last word on what a GET reflects.
Execute ==
    /\ Is("xss", "run")
    /\ End(IF \E c \in mem.found : Targets[c[1]].fields[c[2]] = "live" THEN "fired" ELSE Either("clean"))
    /\ UNCHANGED <<app, mem, sent, faults>>

-----------------------------------------------------------------------------
(* stored_xss_api: create through the API, or in the browser, and render.    *)

BrowserCreate(otherwise) == End(IF app.browser /\ app.drives THEN "fired" ELSE otherwise)

Create == /\ Is("api", "start")
          /\ CASE Targets = <<>>                    -> BrowserCreate("na") /\ UNCHANGED <<mem, faults>>
               [] Targets # <<>> /\ NoMore          -> Go("render") /\ UNCHANGED <<mem, faults>>
               [] OTHER -> /\ Go(at)
                           /\ \/ Loss /\ Hold([mem EXCEPT !.n = @ + 1])
                              \/ Came /\ Hold([mem EXCEPT !.n = @ + 1, !.tested = @ \/ Target.accepts])
          /\ UNCHANGED <<app, sent>>

Render == /\ Is("api", "render")
          /\ IF ~mem.tested THEN BrowserCreate("na") ELSE End(IF app.unescaped THEN "fired" ELSE "clean")
          /\ UNCHANGED <<app, mem, sent, faults>>

-----------------------------------------------------------------------------
(* file_upload, upload_stored_xss: every form gets the shapes of a file, and   *)
(* each is looked for where the response names it and in the directories.   *)

Shape(p)  == IF p = "upload" THEN Variants ELSE 3
Lands     == Target.accepts = mem.i
Spent     == sent >= UploadBudget
NextShape == IF mem.i < Shape(app.probe) THEN Hold([mem EXCEPT !.i = @ + 1, !.k = 0])
                                         ELSE Hold([mem EXCEPT !.n = @ + 1, !.i = 1, !.k = 0])

Upload == /\ at = "start" /\ app.probe \in {"upload", "active"}
          /\ IF NoMore \/ Spent THEN End(Either("clean")) /\ UNCHANGED <<mem, sent, faults>>
             ELSE /\ sent' = sent + 1
                  /\ \/ Loss /\ Go("start") /\ mem' = [mem EXCEPT !.tested = TRUE,
                                                        !.n = IF mem.i < Shape(app.probe) THEN @ ELSE @ + 1,
                                                        !.i = IF @ < Shape(app.probe) THEN @ + 1 ELSE 1]
                     \/ Came /\ Go("fetch") /\ Hold([mem EXCEPT !.tested = TRUE, !.k = 1])
          /\ UNCHANGED app

\* What is fetched must run: on the server, or inline in a page of the app.
Fetch ==
    /\ at = "fetch" /\ app.probe \in {"upload", "active"}
    /\ IF Spent \/ mem.k > Dirs THEN Go("start") /\ NextShape /\ UNCHANGED <<sent, faults>>
       ELSE /\ sent' = sent + 1
            /\ Hold([mem EXCEPT !.k = @ + 1])
            /\ \/ Loss /\ Go(at)
               \/ Came /\ IF Lands /\ Target.dir = mem.k /\ Target.runs THEN End("fired") ELSE Go(at)
    /\ UNCHANGED app

-----------------------------------------------------------------------------
(* ssrf, xxe and the Collaborator: a token per field and host; a server that   *)
(* resolves it may call back, at once or later, from where it can reach us. *)

Oob == app.probe \in {"ssrf", "xxe"}

\* xxe asks for a local file first.
FileEntity == /\ Is("xxe", "start") /\ mem.k = 0
              /\ \/ Loss /\ Go(at)
                 \/ Came /\ IF app.shows THEN End("fired") ELSE Go(at)
              /\ Hold([mem EXCEPT !.k = 1])
              /\ UNCHANGED <<app, sent>>

Token == /\ Oob /\ at = "start" /\ (app.probe = "xxe" => mem.k = 1)
         /\ IF NoMore THEN Go("await") /\ UNCHANGED <<mem, faults>>
            ELSE /\ Go(at)
                 /\ \/ Loss /\ Hold([mem EXCEPT !.n = @ + 1])
                    \/ Came /\ Hold([mem EXCEPT !.n = @ + 1, !.found = @ \cup {<<mem.n>>}])
         /\ UNCHANGED <<app, sent>>

\* The collector hears of a token the server fetched.
Callback(n) == /\ Oob /\ at # "end" /\ <<n>> \in mem.found /\ Targets[n] /\ n \notin mem.heard
               /\ mem' = [mem EXCEPT !.heard = @ \cup {n}]
               /\ UNCHANGED <<app, at, sent, faults, verdict>>

\* Mutant: the collector is not asked.
BugAwait == /\ Oob /\ at = "await"
            /\ IF app.probe = "ssrf" THEN Go("inband") ELSE End("clean")
            /\ UNCHANGED <<app, mem, sent, faults>>

\* _await_callback ends at the first callback or the deadline; ssrf then looks at
\* the cloud's metadata.
Await == /\ Oob /\ at = "await"
         /\ IF mem.heard # {} THEN End("fired")
            ELSE IF app.probe = "ssrf" THEN Go("inband") ELSE End("clean")
         /\ UNCHANGED <<app, mem, sent, faults>>

Metadata == /\ Is("ssrf", "inband")
            /\ \/ Loss /\ End("clean")
               \/ Came /\ End(IF app.shows THEN "fired" ELSE "clean")
            /\ UNCHANGED <<app, mem, sent>>

-----------------------------------------------------------------------------
(* international_input_breaks.  A field: what it answers to plain text and to   *)
(* each script ("ok", "mangles", "500"), and where the value shows: in the   *)
(* response, in a list that starts with the newest or the oldest, nowhere.  *)

Plain == /\ Is("i18n", "start")
         /\ CASE NoMore \/ mem.budget = 0 -> Go("judge") /\ UNCHANGED <<mem, faults>>
              [] OTHER -> LET m == [mem EXCEPT !.budget = @ - 1]
                          IN  \/ Loss /\ Go(at) /\ Hold([m EXCEPT !.n = @ + 1])
                              \/ /\ Came
                                 /\ IF Target.plain = "500" THEN Go(at) /\ Hold([m EXCEPT !.n = @ + 1])
                                    ELSE Go("script") /\ Hold([m EXCEPT !.k = 1, !.tested = TRUE])
         /\ UNCHANGED <<app, sent>>

\* _encoding_corrupted looks at the first value that has our marker: in a list
\* that starts with the oldest, that is the plain one.
Judge(t, k) == CASE t.shows = "oldest" \/ t.shows = "no" -> "abstain"
                 [] OTHER -> IF t.scripts[k] = "mangles" THEN "corrupted" ELSE "survived"

\* A 500 ends the search, a mangled value is kept in mind.
Script ==
    /\ Is("i18n", "script")
    /\ IF mem.k > Len(Target.scripts) \/ mem.budget = 0
       THEN Go("start") /\ Hold([mem EXCEPT !.n = @ + 1]) /\ UNCHANGED faults
       ELSE LET m == [mem EXCEPT !.budget = @ - 1, !.k = @ + 1]
            IN  \/ Loss /\ Go(at) /\ Hold(m)
                \/ /\ Came
                   /\ IF Target.scripts[mem.k] = "500"
                      THEN End("fired") /\ Hold([m EXCEPT !.why = "500"])
                      ELSE /\ Go(at)
                           /\ Hold([m EXCEPT !.survived  = @ \/ Judge(Target, mem.k) = "survived",
                                             !.corrupted = @ \/ Judge(Target, mem.k) = "corrupted"])
    /\ UNCHANGED <<app, sent>>

\* What was seen decides; what was not is left to the browser, if there is one.
Weigh == /\ Is("i18n", "judge")
         /\ LET dom == IF app.browser THEN app.dom ELSE "none"
            IN  /\ End(CASE mem.corrupted                    -> "fired"
                         [] ~mem.corrupted /\ mem.survived   -> "clean"
                         [] OTHER -> CASE dom = "none"    -> "na"
                                       [] dom = "mangled" -> "fired"
                                       [] OTHER           -> "clean")
                /\ Hold([mem EXCEPT !.why = IF mem.corrupted \/ dom = "mangled" THEN "corrupted" ELSE @,
                                    !.seen = mem.survived \/ mem.corrupted \/ dom # "none"])
         /\ UNCHANGED <<app, sent, faults>>

-----------------------------------------------------------------------------
Next == \/ Marker \/ Shapes \/ StoredScript \/ Execute
        \/ Create \/ Render
        \/ Upload \/ Fetch
        \/ FileEntity \/ Token \/ (\E n \in 1 .. 3 : Callback(n)) \/ Await \/ Metadata
        \/ Plain \/ Script \/ Weigh

\* Every request has a timeout, and the wait for a callback a deadline.
Spec == Init /\ [][Next]_vars /\ WF_vars(Next)

-----------------------------------------------------------------------------
Fields(kinds) == \E n \in 1 .. Len(Targets) : \E i \in 1 .. Len(Targets[n].fields) : Targets[n].fields[i] \in kinds

\* The app does what the probe accuses it of.
Guilty == CASE app.probe = "xss" ->
                   \/ Fields({"live"})
                   \/ \E n \in 1 .. Len(Targets) : Targets[n].method = "post" /\ Targets[n].stores
            [] app.probe = "api" -> (app.unescaped /\ \E n \in 1 .. Len(Targets) : Targets[n].accepts)
                                    \/ (app.browser /\ app.drives /\ \A n \in 1 .. Len(Targets) : ~Targets[n].accepts)
            [] app.probe \in {"upload", "active"} -> 
                   \E n \in 1 .. Len(Targets) : Targets[n].accepts \in 1 .. Shape(app.probe) /\ Targets[n].runs
            [] app.probe \in {"ssrf", "xxe"} -> app.shows \/ TRUE \in {Targets[n] : n \in 1 .. Len(Targets)}
            [] OTHER -> \/ \E n \in 1 .. Len(Targets) : {"mangles", "500"} \cap {Targets[n].scripts[k] : k \in 1 .. 2} # {}
                        \/ app.dom = "mangled"

\* An app is accused of what it does; a copy of the payload in the data of a page
\* is taken for script only where no browser can tell (xss_injectable).  A
\* created item that runs in the browser counts although the API refused it.
FiredIsReal == verdict = "fired" => Guilty \/ (app.probe = "api" /\ app.drives)
                                           \/ (Fields({"flight"}) /\ ~(app.browser /\ mem.n > Len(Targets)))

\* With nothing lost and nothing used up, a guilty app is not let off: each
\* field, create, shape and directory was tried.  A callback may come too late,
\* and a list that begins with the oldest value hides what became of ours.
CleanIsInnocent == verdict \in {"clean", "na"} /\ faults = 0 /\ mem.budget > 0 /\ ~Spent => 
                       \/ ~Guilty
                       \/ Oob /\ ~app.shows /\ (app.probe = "xxe" => mem.heard = {})
                       \/ /\ app.probe = "i18n"
                          /\ \A n \in 1 .. Len(Targets) : Targets[n].plain = "500" \/ Targets[n].shows \in {"oldest", "no"}
                                                          \/ Targets[n].scripts = <<"ok", "ok">>

\* A crash on real text outranks a mangled value, wherever each is met.
WorstIsNamed == verdict = "fired" /\ app.probe = "i18n" /\ faults = 0 /\ mem.budget > 0 =>
                    (mem.why = "500" <=> \E n \in 1 .. Len(Targets) :
                         Targets[n].plain # "500" /\ \E k \in 1 .. 2 : Targets[n].scripts[k] = "500")

\* A clean bill for other languages means that a value was seen to survive.
CleanWasSeen == verdict = "clean" /\ app.probe = "i18n" => mem.seen

Decides == <>(verdict # "none")

TypeOK == /\ at \in {"start", "stored", "shapes", "run", "render", "fetch", "await", "inband", "script", "judge", "end"}
          /\ (at = "end") = (verdict # "none")
          /\ mem.budget \in 0 .. Attempts /\ sent \in 0 .. UploadBudget
          /\ mem.n \in 1 .. Len(Targets) + 1 /\ faults \in 0 .. Faults

-----------------------------------------------------------------------------
(* The inductive invariant of the proofs in ProbesProofs.                    *)

\* The targets a probe is for.
Held == /\ at # "end" => verdict = "none"
        /\ Len(Targets) \in Nat
        /\ Oob => \A n \in 1 .. Len(Targets) : Targets[n] \in BOOLEAN
        /\ app.probe = "xss" => \A n \in 1 .. Len(Targets) : /\ Len(Targets[n].fields) \in Nat \ {0}
                                                             /\ Targets[n].method \in {"get", "post"}
        /\ app.probe = "i18n" => /\ app.dom \in {"none", "intact", "mangled"}
                                 /\ \A n \in 1 .. Len(Targets) : Len(Targets[n].scripts) = 2

\* What a probe holds on the way.
Holds(m) == /\ DOMAIN m = {"n", "i", "k", "budget", "tested", "found", "heard", "survived", "corrupted", "seen", "why"}
            /\ m.n \in Nat \ {0} /\ m.i \in Nat \ {0} /\ m.k \in Nat

\* A field that was met is there: the one in hand, and those left to the browser.
ScriptMet == app.probe = "xss" =>
                 /\ at \in {"shapes", "stored"} => ~NoMore
                 /\ ~NoMore => mem.i <= Len(Target.fields)
                 /\ \A c \in mem.found : c[1] \in 1 .. Len(Targets) /\ c[2] \in 1 .. Len(Targets[c[1]].fields)

\* A create that was accepted, a shape that exists, a token that was heard of.
StoreMet == app.probe = "api" /\ mem.tested => \E n \in 1 .. Len(Targets) : Targets[n].accepts
FileMet  == app.probe \in {"upload", "active"} => mem.i <= Shape(app.probe) /\ (at = "fetch" => ~NoMore)
OobMet   == Oob => /\ mem.found \subseteq {<<n>> : n \in 1 .. Len(Targets)}
                   /\ mem.heard # {} => TRUE \in {Targets[n] : n \in 1 .. Len(Targets)}

\* A script in hand, and a value that was mangled.
LanguageMet == app.probe = "i18n" => /\ at = "script" => ~NoMore /\ mem.k >= 1
                                     /\ mem.corrupted => Guilty

Met == Holds(mem) /\ ScriptMet /\ StoreMet /\ FileMet /\ OobMet /\ LanguageMet

EchoInv == Held /\ (at # "end" => Met) /\ FiredIsReal /\ CleanWasSeen
=============================================================================
