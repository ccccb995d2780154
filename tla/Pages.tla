-------------------------------- MODULE Pages --------------------------------
(***************************************************************************)
(* The probes that judge an app by one browser page: what a create shows,   *)
(* how a refused action is told, the BACK button, deep links, a second      *)
(* user's view, script that runs, dead controls, errors on load, where      *)
(* sign-in leads (the lanes of browser.py and their predicates in probes.py).*)
(* A step of a lane is answered or lost: most are inside suppress(Exception), *)
(* and a lost one leaves the lane with an empty answer.  Around every lane    *)
(* is the watchdog of _browser_guarded.                                     *)
(***************************************************************************)
EXTENDS Integers, Sequences, FiniteSets

CONSTANTS
    Apps,     \* the apps and the lane that is driven on each, see MCProbes
    MaxRoutes,   \* max_routes of deep_link_broken
    Attempts,    \* max_attempts of dom_xss_executes
    MaxControls, \* max_controls of inert_controls, max_clicks of capture_sso_authorize
    Faults       \* bound: steps that are lost

VARIABLES
    app,    \* the lane and the app
    at,     \* where the lane is
    mem,    \* n: route, look or control; whether something was judged; dead controls; the browser
    faults, \* history: steps that were lost in a living browser
    verdict \* of the predicate

vars == <<app, at, mem, faults, verdict>>

Init == /\ app \in Apps
        /\ at = "start"
        /\ mem = [n |-> 1, tested |-> FALSE, dead |-> 0, on |-> "entry", browser |-> "up", late |-> FALSE]
        /\ faults = 0 /\ verdict = "none"

\* A step runs while the renderer answers at all.
Is(p, pc) == app.probe = p /\ at = pc /\ mem.browser # "wedged"
Go(pc)    == at' = pc /\ verdict' = verdict
Next1(m)  == [m EXCEPT !.n = @ + 1]

\* What a lane without an answer means for its predicate.
Default == IF app.probe \in {"scan", "inert", "console"} THEN "clean" ELSE "na"
Raise   == at' = "end" /\ verdict' = Default /\ mem' = mem
\* The lane's result; closing a browser that was killed raises or not.
Return(v) == /\ at' = "end" /\ mem' = mem
             /\ verdict' = v \/ (mem.browser = "killed" /\ verdict' = Default)

Answered == mem.browser = "up" /\ faults' = faults
Lost == IF mem.browser = "killed" THEN faults' = faults ELSE faults < Faults /\ faults' = faults + 1

-----------------------------------------------------------------------------
(* The browser and its watchdog.                                           *)

\* A page pins its renderer: no call of the lane returns any more.
Wedge == /\ at \notin {"start", "driven", "end"} /\ mem.browser = "up"
         /\ mem' = [mem EXCEPT !.browser = "wedged"]
         /\ UNCHANGED <<app, at, faults, verdict>>

\* The timer kills every browser below this process: a wedged one's own, or
\* that of a lane whose thread was given up before.
Fire == /\ at \notin {"start", "driven", "end"} /\ mem.browser # "killed"
        /\ mem' = [mem EXCEPT !.browser = "killed"]
        /\ UNCHANGED <<app, at, faults, verdict>>

\* The predicate's own gate: nothing of the kind in this app.
Skip == /\ at = IF app.probe = "sso" THEN "driven" ELSE "start"
        /\ ~app.gate
        /\ at' = "end" /\ verdict' = "na"
        /\ UNCHANGED <<app, mem, faults>>

Launch == /\ at = IF app.probe = "sso" THEN "driven" ELSE "start"
          /\ app.gate
          /\ \/ faults' = faults /\ Go("open") /\ mem' = mem
             \/ Lost /\ Raise
          /\ UNCHANGED app

-----------------------------------------------------------------------------
(* check_create_reflection: a create, the page as it stands, the page again. *)

FindForm == /\ Is("stale", "open")
            /\ IF mem.n > Len(app.routes) THEN Return("na") /\ faults' = faults
               ELSE \/ Lost /\ Go("open") /\ mem' = Next1(mem)
                    \/ Answered /\ IF app.routes[mem.n] THEN Go("live") /\ mem' = mem
                                                        ELSE Go("open") /\ mem' = Next1(mem)
            /\ UNCHANGED app

Live == /\ Is("stale", "live")
        /\ \/ Lost /\ Go("after") /\ mem' = mem
           \/ Answered /\ IF app.saves /\ app.shows THEN Return("clean") ELSE Go("after") /\ mem' = mem
        /\ UNCHANGED app

After == /\ Is("stale", "after")
         /\ \/ Lost /\ Return("clean")
            \/ Answered /\ Return(IF app.saves THEN "fired" ELSE "clean")
         /\ UNCHANGED app

(* silent_failure_on_action: the submit's request is answered with a 500. *)

ForceFailure == /\ Is("silent", "open")
                /\ \/ Lost /\ Return("na")
                   \/ Answered /\ IF app.form /\ app.mutates THEN Go("look") /\ mem' = mem ELSE Return("na")
                /\ UNCHANGED app

LookForError == /\ Is("silent", "look")
                /\ \/ mem.browser = "killed" /\ Raise /\ faults' = faults
                   \/ Lost /\ Return("fired")
                   \/ Answered /\ Return(IF app.says THEN "clean" ELSE "fired")
                /\ UNCHANGED app

-----------------------------------------------------------------------------
(* back_button_broken.  BACK restores the view, only its URL, leaves the new   *)
(* view, or meets a login.                                                 *)

Entry == /\ Is("back", "open")
         /\ \/ Lost /\ Return("na")
            \/ Answered /\ IF app.paints /\ app.link THEN Go("click") /\ mem' = mem ELSE Return("na")
         /\ UNCHANGED app

\* A click that is lost changes no view; the look at the new view may be lost too.
Click == /\ Is("back", "click")
         /\ \/ Lost /\ Return("na")
            \/ Answered /\ Go("back") /\ mem' = [mem EXCEPT !.tested = TRUE, !.on = "new"]
            \/ Lost /\ Go("back") /\ mem' = [mem EXCEPT !.on = "new"]
         /\ UNCHANGED app

GoBack == /\ Is("back", "back")
          /\ \/ Lost /\ Go("judge") /\ mem' = mem
             \/ Answered /\ Go("judge") /\ mem' = [mem EXCEPT !.on = app.back]
          /\ UNCHANGED app

\* Content is compared with what each view had of its own.
Judge == /\ Is("back", "judge")
         /\ \/ Lost /\ Return(IF mem.on \in {"restores", "url"} THEN "clean" ELSE "fired")
            \/ Answered /\ Return(CASE mem.on = "login"           -> "na"
                                    [] mem.on = "restores"        -> "clean"
                                    [] mem.on = "url"             -> IF mem.tested THEN "fired" ELSE "clean"
                                    [] mem.on \in {"new", "stuck"} -> "fired")
         /\ UNCHANGED app

-----------------------------------------------------------------------------
(* deep_link_broken, on a catch-all host: a route that looks like no route.  *)

Fallback == /\ Is("deep", "open")
            /\ \/ Lost /\ Return("na")
               \/ Answered /\ IF app.paints THEN Go("route") /\ mem' = mem ELSE Return("na")
            /\ UNCHANGED app

\* A route that a lost look left blank is passed over.
Route ==
    /\ Is("deep", "route")
    /\ IF mem.n > Len(app.routes) \/ mem.n > MaxRoutes
       THEN Return(IF mem.tested THEN "clean" ELSE "na") /\ faults' = faults
       ELSE LET looked == [Next1(mem) EXCEPT !.tested = TRUE]
                kind   == app.routes[mem.n]
            IN  \/ Lost /\ Go(at) /\ mem' = Next1(mem)
                \/ /\ Answered
                   /\ CASE kind = "blank" -> Go(at) /\ mem' = Next1(mem)
                        [] kind \in {"own", "login"} -> Go(at) /\ mem' = looked
                        [] kind = "shell" -> Return("fired")
                \/ kind = "login" /\ Lost /\ Return("fired")
    /\ UNCHANGED app

-----------------------------------------------------------------------------
(* Writing through the page: _drive_create_and_observe reads the value back  *)
(* (create_and_read_back) or sees it run (create_and_check_execution);       *)
(* cross_user_read_back looks as nobody and as a second user.               *)

Writes == {"readback", "exec", "cross"}

Submit == /\ app.probe \in Writes /\ Is(app.probe, "open")
          /\ \/ Lost /\ Return("na")
             \/ Answered /\ IF app.form THEN Go("self") /\ mem' = mem ELSE Return("na")
          /\ UNCHANGED app

\* A look and one more after a reload: at what is seen go on to yes, else to no.
Looks(seen, yes, no) == \/ Answered /\ seen /\ yes
                        \/ /\ (Answered /\ ~seen) \/ Lost
                           /\ IF mem.n = 1 THEN Go(at) /\ mem' = [mem EXCEPT !.n = 2] ELSE no

\* The writer sees the value, or nothing is concluded.
Self == /\ app.probe \in Writes /\ Is(app.probe, "self")
        /\ Looks(app.saves,
                 CASE app.probe = "cross"    -> Go("anon") /\ mem' = [mem EXCEPT !.n = 1]
                   [] app.probe = "exec"     -> Return("fired")
                   [] app.probe = "readback" -> Return("clean"),
                 Return("na"))
        /\ UNCHANGED app

\* Each reader has a context of its own, that a dead browser cannot open.
Opened == ~(mem.n = 1 /\ mem.browser = "killed")

\* Mutant: nobody's look is left out.
BugNobody == /\ Is("cross", "anon") /\ Answered /\ Go("other") /\ mem' = mem /\ UNCHANGED app

Nobody == /\ Is("cross", "anon")
          /\ \/ ~Opened /\ Raise /\ faults' = faults
             \/ Opened /\ Looks(app.anon, Return("clean"), Go("other") /\ mem' = [mem EXCEPT !.n = 1])
          /\ UNCHANGED app

Stranger == /\ Is("cross", "other")
            /\ \/ ~Opened /\ Raise /\ faults' = faults
               \/ Opened /\ Looks(app.other, Return("fired"), Return("clean"))
            /\ UNCHANGED app

-----------------------------------------------------------------------------
(* dom_xss_executes and stored_xss_executes: one page per payload.           *)

Attempt == /\ Is("scan", "open")
           /\ IF mem.n > Len(app.pages) \/ mem.n > Attempts \/ mem.late THEN Return("clean") /\ faults' = faults
              ELSE \/ Lost /\ Go(at) /\ mem' \in {Next1(mem), [Next1(mem) EXCEPT !.late = TRUE]}
                   \/ Answered /\ IF app.pages[mem.n] THEN Return("fired") ELSE Go(at) /\ mem' = Next1(mem)
           /\ UNCHANGED app

(* inert_controls: what moves nothing on any channel is dead. *)

Render == /\ Is("inert", "open")
          /\ \/ Lost /\ Raise
             \/ Answered /\ Go("press") /\ mem' = [mem EXCEPT !.tested = TRUE]
          /\ UNCHANGED app

\* The next control: one not to be clicked is passed over, one that leaves the page
\* has it rendered and tagged again, or the rest have no tags.
Press ==
    /\ Is("inert", "press")
    /\ IF mem.n > Len(app.controls) \/ mem.n > MaxControls THEN Return(IF mem.dead > 0 THEN "fired" ELSE "clean") /\ faults' = faults
       ELSE LET kind == app.controls[mem.n]
            IN  \/ kind # "danger" /\ Lost /\ Go(at) /\ mem' = Next1(mem)
                \/ /\ Answered /\ Go(at)
                   /\ mem' = IF kind = "dead" /\ mem.tested THEN [Next1(mem) EXCEPT !.dead = @ + 1] ELSE Next1(mem)
                \/ kind = "leaves" /\ Lost /\ Go(at) /\ mem' = [Next1(mem) EXCEPT !.tested = FALSE]
                \/ kind = "danger" /\ mem.browser = "killed" /\ faults' = faults /\ Go(at) /\ mem' = Next1(mem)
    /\ UNCHANGED app

(* console_errors: throws count, console errors only on a page that is broken. *)

Load == /\ Is("console", "open")
        /\ \/ Lost /\ Raise
           \/ Answered /\ Return(IF app.throws \/ (app.logs /\ app.broken) THEN "fired" ELSE "clean")
           \/ Lost /\ Return(IF app.throws THEN "fired" ELSE "clean")
        /\ UNCHANGED app

-----------------------------------------------------------------------------
(* oauth_redirect_localhost: an authorize URL that the server gives, or that   *)
(* a click or the replayed request of a server-mediated sign-in reveals.    *)

Verdict(uri) == IF uri = "dead" THEN "fired" ELSE "clean"

Served == /\ app.probe = "sso" /\ at = "start"
          /\ \/ Lost /\ Go("driven") /\ mem' = mem
             \/ Answered /\ IF app.served # "none" THEN Return(Verdict(app.served)) ELSE Go("driven") /\ mem' = mem
          /\ UNCHANGED app

\* The entry page first, then the login routes, until a page has a trigger.
Trigger == /\ Is("sso", "open")
           /\ IF mem.n > 2 THEN Go("replay") /\ mem' = mem /\ faults' = faults
              ELSE \/ Lost /\ IF mem.n = 1 THEN Return("na") ELSE Go(at) /\ mem' = Next1(mem)
                   \/ Answered /\ IF app.trigger = mem.n THEN Go("reveal") /\ mem' = [mem EXCEPT !.n = 1]
                                                         ELSE Go(at) /\ mem' = Next1(mem)
           /\ UNCHANGED app

\* The provider's page is never opened: its request is read and aborted.
Reveal == /\ Is("sso", "reveal")
          /\ \/ Lost /\ Go(IF mem.n < MaxControls THEN at ELSE "replay") /\ mem' = Next1(mem)
             \/ Answered /\ IF app.flow = "sdk" THEN Return(Verdict(app.uri)) ELSE Go("replay") /\ mem' = mem
          /\ UNCHANGED app

Replay == /\ Is("sso", "replay")
          /\ \/ Lost /\ Return("na")
             \/ Answered /\ Return(IF app.flow = "server" THEN Verdict(app.uri) ELSE "na")
          /\ UNCHANGED app

-----------------------------------------------------------------------------
Next == \/ Skip \/ Launch \/ Wedge \/ Fire
        \/ FindForm \/ Live \/ After \/ ForceFailure \/ LookForError
        \/ Entry \/ Click \/ GoBack \/ Judge
        \/ Fallback \/ Route
        \/ Submit \/ Self \/ Nobody \/ Stranger
        \/ Attempt \/ Render \/ Press \/ Load
        \/ Served \/ Trigger \/ Reveal \/ Replay

\* Every call has a timeout, and where it does not work the watchdog has.
Spec == Init /\ [][Next]_vars /\ WF_vars(Next)

-----------------------------------------------------------------------------
To(k, s) == {s[n] : n \in {m \in 1 .. Len(s) : m <= k}}

\* The app has the defect, where the lane looks for it.
Guilty == CASE app.probe = "stale"    -> TRUE \in To(Len(app.routes), app.routes) /\ app.saves /\ ~app.shows
            [] app.probe = "silent"   -> app.form /\ app.mutates /\ ~app.says
            [] app.probe = "back"     -> app.paints /\ app.link /\ app.back \in {"url", "stuck"}
            [] app.probe = "deep"     -> app.paints /\ "shell" \in To(MaxRoutes, app.routes)
            [] app.probe = "cross"    -> app.form /\ app.saves /\ ~app.anon /\ app.other
            [] app.probe = "exec"     -> app.form /\ app.saves
            [] app.probe = "readback" -> FALSE
            [] app.probe = "scan"     -> TRUE \in To(Attempts, app.pages)
            [] app.probe = "inert"    -> "dead" \in To(MaxControls, app.controls)
            [] app.probe = "console"  -> app.throws \/ (app.logs /\ app.broken)
            [] app.probe = "sso"      -> app.served = "dead" \/ (app.uri = "dead" /\ (app.flow = "server" \/ (app.flow = "sdk" /\ app.trigger # 0)))

\* How an app is accused of what it does not have: never by a lane that has to see
\* its mark; by one lost look where the lane concludes from what it does not see;
\* only by two where the look is repeated; and a browser killed in the middle
\* accuses only where nothing is opened after the last look.
FiredIsReal == verdict = "fired" =>
                   \/ Guilty
                   \/ app.probe \in {"stale", "silent", "back", "deep"} /\ faults >= 1
                   \/ app.probe \in {"silent", "back", "deep"} /\ mem.browser = "killed"
                   \/ app.probe = "cross" /\ faults >= 2

\* With every step answered and the browser alive, a defect that the lane reaches
\* is found.
DefectsAreFound == verdict \in {"clean", "na"} /\ Guilty /\ faults = 0 /\ mem.browser = "up" => ~app.gate

\* Clean means that the good behaviour was seen, in the lanes that tell an
\* inconclusive look from a clean one; of BACK and a second user's view, that
\* no look was lost.
CleanWasSeen == verdict = "clean" =>
                   CASE app.probe = "silent"   -> app.says
                     [] app.probe = "deep"     -> To(MaxRoutes, app.routes) \cap {"own", "login"} # {}
                     [] app.probe = "readback" -> app.form /\ app.saves
                     [] app.probe = "cross"    -> app.saves /\ (app.anon \/ ~app.other \/ faults >= 2 \/ mem.browser = "killed")
                     [] app.probe = "back"     -> app.back = "restores" \/ faults >= 1 \/ mem.browser = "killed"
                     [] OTHER -> TRUE

Decides == <>(verdict # "none")

TypeOK == /\ at \in {"start", "open", "live", "after", "look", "click", "back", "judge", "route", "self", "anon", "other",
                     "press", "driven", "reveal", "replay", "end"}
          /\ (at = "end") = (verdict # "none")
          /\ verdict \in {"none", "fired", "clean", "na"}
          /\ mem.browser \in {"up", "wedged", "killed"} /\ faults \in 0 .. Faults
          /\ mem.dead \in 0 .. MaxControls

-----------------------------------------------------------------------------
(* The inductive invariant of the proofs in ProbesProofs.                    *)

\* What a lane holds, and the ends of BACK.
Memories == [n : Nat \ {0}, tested : BOOLEAN, dead : Nat, on : {"entry", "new", "restores", "url", "stuck", "login"},
             browser : {"up", "wedged", "killed"}, late : BOOLEAN]
Held == /\ mem \in Memories
        /\ faults \in Nat /\ (at # "end" => verdict = "none")
        /\ app.probe = "stale" => Len(app.routes) \in Nat
        /\ app.probe = "back" => app.back \in {"restores", "url", "stuck", "login"}
        /\ app.probe = "deep" => /\ Len(app.routes) \in Nat
                                 /\ \A n \in 1 .. Len(app.routes) : app.routes[n] \in {"own", "shell", "login", "blank"}
        /\ app.probe = "scan" => Len(app.pages) \in Nat
        /\ app.probe = "inert" => Len(app.controls) \in Nat

\* That many steps were lost, or the browser is dead.
Blind(k) == faults >= k \/ mem.browser = "killed"

\* What a lane has met when it comes to a step, and what it has missed with as few faults.
Met ==
    /\ at \in {"start", "driven", "open"} => ~mem.tested
    /\ at \in {"live", "after"} => TRUE \in To(Len(app.routes), app.routes)
    /\ at = "look" => app.form /\ app.mutates
    /\ at \in {"click", "back", "judge"} => app.paints /\ app.link
    /\ at = "route" => app.paints /\ (mem.tested => To(MaxRoutes, app.routes) \cap {"own", "login"} # {})
    /\ at \in {"self", "anon", "other"} => app.form
    /\ at \in {"anon", "other"} => app.saves
    /\ mem.dead > 0 => "dead" \in To(MaxControls, app.controls)
    /\ at = "reveal" => app.trigger # 0
Missed ==
    /\ at = "after" => ~(app.saves /\ app.shows) \/ Blind(1)
    /\ at \in {"back", "judge"} => mem.on # "entry" /\ (mem.tested \/ Blind(1))
    /\ at = "judge" => mem.on = app.back \/ Blind(1)
    /\ at = "anon" /\ mem.n # 1 => ~app.anon \/ Blind(1)
    /\ at = "other" => ~app.anon \/ Blind(2)
    /\ at = "other" /\ mem.n # 1 => ~app.other \/ Blind(1)

LaneInv == Held /\ Met /\ Missed /\ FiredIsReal /\ CleanWasSeen
=============================================================================
