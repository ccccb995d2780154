-------------------------------- MODULE Limits --------------------------------
(***************************************************************************)
(* The probes of probes.py that ask for what an app should refuse or survive: *)
(* login after login, a header that skips a gate, a request from elsewhere,  *)
(* links that lead nowhere or in a circle, malformed and oversized bodies, a *)
(* foreign Host.  Most compare two answers, so what happens between the two *)
(* matters: a request is lost, or something in front of the app answers it.  *)
(***************************************************************************)
EXTENDS Integers, Sequences, FiniteSets

CONSTANTS
    Apps,     \* the apps and the probe that is run on each, see MCProbes
    Attempts, \* the wrong logins of a rate-limit probe
    Gated,    \* _MW_MAX_GATED
    Payloads, \* the values of the bypass header
    Hops,     \* _REDIRECT_CAP
    Budget,   \* max_attempts
    Faults    \* bound: requests that are lost, or answered in front of the app

VARIABLES
    app,    \* the probe and the app
    at,     \* where the probe is
    mem,    \* n: the target; k: the step on it; and what the probe holds
    faults, \* history: faults so far
    verdict

vars == <<app, at, mem, faults, verdict>>

Init == /\ app \in Apps
        /\ at = "start"
        /\ mem = [n |-> 1, k |-> 0, budget |-> Budget, tested |-> FALSE, memo |-> "unset", seen |-> {}, bad |-> 0, url |-> 0]
        /\ faults = 0 /\ verdict = "none"

Is(probes, pc) == app.probe \in probes /\ at = pc
Go(pc)    == at' = pc /\ verdict' = verdict
End(v)    == at' = "end" /\ verdict' = v
Keep      == mem' = mem
Came      == faults' = faults
Loss      == faults < Faults /\ faults' = faults + 1
Either(m, v) == IF m.tested THEN v ELSE "na"
Target    == app.targets[mem.n]
NoMore    == mem.n > Len(app.targets)
NextTarget(m) == Go("start") /\ mem' = [m EXCEPT !.n = @ + 1, !.k = 0]
Done      == End(Either(mem, "clean")) /\ Keep /\ Came

-----------------------------------------------------------------------------
(* _endpoint_is_live.  The shell that a catch-all host serves for every path is  *)
(* asked for once in a grade and remembered; an invented sibling of the path  *)
(* is asked for each time.  A question that is lost means there is none.      *)

Gate(real) == {g \in [live : BOOLEAN, memo : {"none", "shell"}, lost : 0 .. 2] :
                 \E first, second \in 0 .. 1 :
                   /\ g.lost = first + second
                   /\ CASE mem.memo # "unset" -> g.memo = mem.memo /\ first = 0
                        [] mem.memo = "unset" -> g.memo = IF app.catchAll /\ first = 0 THEN "shell" ELSE "none"
                   /\ g.live = (real \/ (g.memo = "none" /\ second = 1))
                   /\ real \/ g.memo = "shell" => second = 0}

\* The answer of the gate for the target, and how many questions were lost.
Live(g) == /\ g \in Gate(Target.real)
           /\ faults + g.lost <= Faults /\ faults' = faults + g.lost

-----------------------------------------------------------------------------
(* login_no_rate_limit, _login_rate_limit_json.                            *)

\* One more wrong password: throttled, rejected, or answered with a page.  A block
\* in front of the app looks like a limit (429) or like a rejection (403).
Login == /\ Is({"login"}, "start")
         /\ LET on(rejects) == /\ Go(IF mem.k + 1 < Attempts THEN at ELSE "logged in")
                               /\ mem' = [mem EXCEPT !.k = @ + 1, !.tested = @ \/ rejects]
            IN  CASE NoMore -> End("na") /\ Keep /\ Came
                  [] OTHER -> \/ Loss /\ (End("na") \/ End("clean")) /\ Keep
                              \/ Loss /\ on(TRUE)
                              \/ /\ Came
                                 /\ IF Target.limit \in 1 .. mem.k + 1 THEN End("clean") /\ Keep ELSE on(Target.rejects)
         /\ UNCHANGED app

LoggedIn == /\ Is({"login"}, "logged in")
            /\ \E g \in Gate(Target.real) :
                 /\ Live(g)
                 /\ End(IF g.live THEN Either(mem, "fired") ELSE "na")
                 /\ mem' = [mem EXCEPT !.memo = g.memo]
            /\ UNCHANGED app

-----------------------------------------------------------------------------
(* middleware_auth_bypass: a route that refuses a stranger, and does not when a  *)
(* header is added.                                                        *)

Refuses == /\ Is({"middleware"}, "start")
           /\ IF NoMore \/ mem.bad = Gated THEN End(IF mem.bad > 0 THEN "clean" ELSE "na") /\ Keep /\ Came
              ELSE LET gated == Go("open") /\ mem' = [mem EXCEPT !.bad = @ + 1, !.k = 0]
                   IN  \/ Loss /\ NextTarget(mem)
                       \/ Loss /\ gated
                       \/ Came /\ IF Target.gated THEN gated ELSE NextTarget(mem)
           /\ UNCHANGED app

\* A gate that opens for one of the values, and not on the page of the login.
Opens == /\ Is({"middleware"}, "open")
         /\ IF mem.k = Payloads THEN NextTarget(mem) /\ Came
            ELSE \/ Loss /\ Go(at) /\ mem' = [mem EXCEPT !.k = @ + 1]
                 \/ Came /\ IF ~Target.gated \/ Target.opens = mem.k + 1 THEN End("fired") /\ Keep
                            ELSE Go(at) /\ mem' = [mem EXCEPT !.k = @ + 1]
         /\ UNCHANGED app

-----------------------------------------------------------------------------
(* csrf_missing: a form without a token that takes a request from elsewhere.    *)

\* A session of our own; one that SameSite keeps home is a defence.
Session == /\ Is({"csrf"}, "start") /\ mem.n = 1 /\ mem.k = 0
           /\ \/ (NoMore \/ app.session = "none") /\ End("na") /\ Keep
              \/ ~NoMore /\ app.session = "same site" /\ End("clean") /\ Keep
              \/ ~NoMore /\ app.session = "cookie" /\ Go(at) /\ mem' = [mem EXCEPT !.k = 1]
           /\ UNCHANGED <<app, faults>>

NextForm(m) == Go("start") /\ mem' = [m EXCEPT !.n = @ + 1, !.k = 1]

\* The form takes it ("done"), sends us elsewhere ("away"), refuses it, or shows the
\* page it always shows.
Elsewhere == /\ Is({"csrf"}, "start") /\ mem.k = 1
             /\ IF NoMore THEN Done
                ELSE \/ Loss /\ NextForm(mem)
                     \/ \E g \in Gate(Target.real) :
                          /\ Live(g)
                          /\ LET m == [mem EXCEPT !.memo = g.memo, !.tested = @ \/ g.live]
                             IN  CASE ~g.live \/ Target.does \in {"refuses", "away"} -> NextForm(m)
                                   [] g.live /\ Target.does = "redirects"           -> End("fired") /\ mem' = m
                                   [] OTHER                                         -> Go("compare") /\ mem' = m
             /\ UNCHANGED app

\* The page itself, for comparison; without it there is nothing to hold against.
Compare == /\ Is({"csrf"}, "compare")
           /\ \/ Loss /\ End("fired") /\ Keep
              \/ Came /\ IF Target.does = "page" THEN NextForm(mem) ELSE End("fired") /\ Keep
           /\ UNCHANGED app

-----------------------------------------------------------------------------
(* broken_links, redirect_loop.  A route leads to another one, to a page, to a  *)
(* dead end, or off the origin; route 1 is the homepage.                    *)

\* _same_origin_links: without a page there are no links.
Home == /\ Is({"links", "loop"}, "start") /\ mem.k = 0
        /\ \E lost \in BOOLEAN :
             /\ IF lost THEN Loss ELSE Came
             /\ LET none == lost \/ app.to[1] # "page"
                IN  IF none /\ app.probe = "links" THEN End("na") /\ Keep
                    ELSE Go("start") /\ mem' = [mem EXCEPT !.k = 1, !.n = IF app.probe = "loop" THEN 1 ELSE 2,
                                                           !.budget = IF none THEN 1 ELSE Len(app.to)]
        /\ UNCHANGED app

\* Each link once: a dead end is not found, and what is refused is not dead.
Link == /\ Is({"links"}, "start") /\ mem.k = 1
        /\ IF mem.n > mem.budget THEN End(IF Len(app.to) = 1 THEN "na" ELSE IF mem.bad > 0 THEN "fired" ELSE "clean") /\ Keep /\ Came
           ELSE \/ Loss /\ Go(at) /\ mem' = [mem EXCEPT !.n = @ + 1]
                \/ Came /\ Go(at) /\ mem' = [mem EXCEPT !.n = @ + 1, !.bad = @ + IF app.to[mem.n] = "dead" THEN 1 ELSE 0]
        /\ UNCHANGED app

Enter == /\ Is({"loop"}, "start") /\ mem.k = 1
         /\ IF mem.n > mem.budget THEN Done
            ELSE Came /\ Go("hop") /\ mem' = [mem EXCEPT !.url = mem.n, !.seen = {}]
         /\ UNCHANGED app

Leave(m) == Go("start") /\ mem' = [m EXCEPT !.n = @ + 1]

\* The route a redirect leads to.
Leads(url, n) == app.to[url] = <<"1", "2", "3", "4", "5">>[n]
Number(url)   == CHOOSE n \in 1 .. Len(app.to) : Leads(url, n)

\* Mutant: a route that was seen is not remembered.
BugHop == /\ Is({"loop"}, "hop")
          /\ LET m == [mem EXCEPT !.tested = TRUE]
             IN  \/ Loss /\ Leave(mem)
                 \/ Came /\ IF app.to[mem.url] \in {"page", "dead", "off"} THEN Leave(m)
                            ELSE Go(at) /\ mem' = [m EXCEPT !.url = Number(mem.url)]
          /\ UNCHANGED app

\* A hop to a route that was fetched before is a circle, and a chain is as long as a
\* browser follows it.
Hop == /\ Is({"loop"}, "hop")
       /\ LET m == [mem EXCEPT !.seen = @ \cup {mem.url}, !.tested = TRUE]
          IN  IF mem.url \in mem.seen \/ Cardinality(mem.seen) > Hops THEN End("fired") /\ Keep /\ Came
              ELSE \/ Loss /\ Leave(mem)
                   \/ Came /\ IF app.to[mem.url] \in {"page", "dead", "off"} THEN Leave(m)
                              ELSE Go(at) /\ mem' = [m EXCEPT !.url = Number(mem.url)]
       /\ UNCHANGED app

-----------------------------------------------------------------------------
(* crash_resistance, leaks_error_detail, declared_constraint_unenforced,      *)
(* decompression_bomb, host_header_injection: a baseline, the gate, and then    *)
(* what should be refused.  The first target of "errors" is the route /crash,   *)
(* which is asked for without either.                                      *)

Differential == {"crash", "errors", "constraint", "bomb", "host"}

\* A benign answer of a live endpoint to compare with.
Baseline == /\ Is(Differential, "start")
            /\ IF NoMore \/ mem.budget = 0
               THEN End(IF app.probe = "host" THEN "clean" ELSE Either(mem, "clean")) /\ Keep /\ Came
               ELSE IF app.probe = "errors" /\ mem.n = 1
               THEN Go("provoke") /\ Came /\ mem' = [mem EXCEPT !.budget = @ + 1]
               ELSE \/ Loss /\ NextTarget(mem)
                    \/ Came /\ ~Target.answers /\ NextTarget(mem)
                    \/ /\ Target.answers
                       /\ \E g \in Gate(Target.real) :
                            /\ Live(g)
                            /\ LET m == [mem EXCEPT !.memo = g.memo]
                               IN  IF g.live THEN Go("provoke") /\ mem' = [m EXCEPT !.tested = @ \/ app.probe \in {"constraint", "bomb", "host"}]
                                   ELSE NextTarget(m)
            /\ UNCHANGED app

Spend(m) == [m EXCEPT !.budget = @ - 1]

\* Malformed: a 5xx has to come back a second time.
Crash == /\ Is({"crash"}, "provoke")
         /\ LET m == Spend([mem EXCEPT !.tested = TRUE])
                again == Go("again") /\ mem' = m
            IN  \/ Loss /\ (NextTarget(m) \/ again)
                \/ Came /\ IF Target.fails THEN again ELSE NextTarget(m)
         /\ UNCHANGED app

Again == /\ Is({"crash"}, "again")
         /\ LET fired == End("fired") /\ Keep
            IN  \/ Loss /\ (NextTarget(mem) \/ fired)
                \/ Came /\ IF Target.fails THEN fired ELSE NextTarget(mem)
         /\ UNCHANGED app

\* An error that was provoked shows its trace.
Errors == /\ Is({"errors"}, "provoke")
          /\ \/ Loss /\ NextTarget(Spend(mem))
             \/ /\ Came
                /\ IF Target.fails THEN End("fired") /\ mem' = Spend([mem EXCEPT !.tested = TRUE])
                   ELSE NextTarget(Spend([mem EXCEPT !.tested = @ \/ Target.errs]))
          /\ UNCHANGED app

\* A value of the wrong type is taken like the right one, and nothing at all is not.
\* Something that answers in between looks like a refusal.
Constraint == /\ Is({"constraint"}, "provoke")
              /\ \/ Loss /\ NextTarget(mem)
                 \/ Loss /\ Target.fails /\ End("fired") /\ Keep
                 \/ Came /\ IF Target.fails /\ Target.reads THEN End("fired") /\ Keep ELSE NextTarget(mem)
              /\ UNCHANGED app

\* A bomb that a small body of its shape survives: taken, fatal, or never answered.
Bomb == /\ Is({"bomb"}, "provoke")
        /\ LET fired == End("fired") /\ Keep
           IN  \/ Loss /\ NextTarget(mem)
               \/ Loss /\ Target.reads /\ fired
               \/ Came /\ IF Target.fails THEN fired ELSE NextTarget(mem)
        /\ UNCHANGED app

\* http_response_splitting: field after field, no gate; the header is ours or it is not there.
Splits == /\ Is({"split"}, "start")
          /\ IF NoMore \/ mem.budget = 0 THEN Done
             ELSE LET m == Spend([mem EXCEPT !.tested = TRUE])
                  IN  \/ Loss /\ NextTarget(m)
                      \/ Came /\ IF Target.fails THEN End("fired") /\ mem' = m ELSE NextTarget(m)
          /\ UNCHANGED app

\* A foreign host that comes back: through one header or the other.
Host == /\ Is({"host"}, "provoke")
        /\ \/ Loss /\ (NextTarget(mem) \/ (Target.fails /\ End("fired") /\ Keep))
           \/ Came /\ IF Target.fails THEN End("fired") /\ Keep ELSE NextTarget(mem)
        /\ UNCHANGED app

-----------------------------------------------------------------------------
(* Probes of one page.                                                     *)

\* seo_meta_missing, http_conformance and mixed_content read it whatever its status:
\* the page of a block has no description, and no canonical address.
Meta == /\ Is({"meta"}, "start")
        /\ \/ Loss /\ (End("na") \/ End("fired"))
           \/ Came /\ End(app.page)
        /\ UNCHANGED <<app, mem>>

\* subresource_integrity_missing needs a resource of another origin on it, and
\* no_tls_origin looks at the status.
Page == /\ Is({"integrity", "tls"}, "start")
        /\ \/ Loss /\ End("na")
           \/ Came /\ End(app.page)
        /\ UNCHANGED <<app, mem>>

-----------------------------------------------------------------------------
Next == \/ Login \/ LoggedIn \/ Refuses \/ Opens \/ Session \/ Elsewhere \/ Compare
        \/ Home \/ Link \/ Enter \/ Hop \/ Baseline \/ Crash \/ Again \/ Errors \/ Constraint \/ Bomb \/ Host \/ Splits
        \/ Meta \/ Page

\* Every request has a timeout.
Spec == Init /\ [][Next]_vars /\ WF_vars(Next)

-----------------------------------------------------------------------------
\* Routes that lead to each other only, and a chain that is longer than a browser follows.
Circle == \E S \in (SUBSET (1 .. Len(app.to))) \ {{}} : \A url \in S : \E n \in S : Leads(url, n)
Walked(w, k) == \A h \in 0 .. k - 1 : Leads(w[h], w[h + 1])
Chain  == \E w \in [0 .. Hops + 1 -> 1 .. Len(app.to)] : Walked(w, Hops + 1)

\* What is wrong with a target.
Wrong(t) ==
    CASE app.probe = "login"      -> t.real /\ t.rejects /\ t.limit \notin 1 .. Attempts
      [] app.probe = "middleware" -> t.gated /\ t.opens \in 1 .. Payloads
      [] app.probe = "csrf"       -> t.real /\ t.does \in {"redirects", "done"}
      [] app.probe = "constraint" -> t.answers /\ t.real /\ t.fails /\ t.reads
      [] OTHER                    -> t.answers /\ t.real /\ t.fails

Defective ==
    CASE app.probe = "links" -> \E n \in 2 .. Len(app.to) : app.to[n] = "dead"
      [] app.probe = "loop"  -> Circle \/ Chain
      [] app.probe \in {"meta", "integrity", "tls"} -> app.page = "fired"
      [] OTHER -> \E n \in 1 .. Len(app.targets) : Wrong(app.targets[n])

\* How many faults it takes to invent a finding.  A circle, a dead end and a header
\* that comes back cannot be invented.  A crash must be seen twice, and the shell of
\* a catch-all host passes the gate only when both its questions are lost.  One is
\* enough where only a prefix serves a shell, and where an answer is compared with
\* another that is asked for once: a block that looks like a rejection or like a
\* gate, a page that is not there to compare with, a body that times out, the page
\* of a block (login_no_rate_limit, middleware_auth_bypass, csrf_missing,
\* declared_constraint_unenforced, decompression_bomb, seo_meta_missing).
Withstands == CASE app.probe \in {"links", "loop", "split", "integrity", "tls"} -> Faults
                [] app.probe \in {"crash", "errors", "host"}                    ->
                       IF app.catchAll \/ \A n \in 1 .. Len(app.targets) : app.targets[n].real THEN 1 ELSE 0
                [] OTHER                                                       -> 0
FiredIsReal == verdict = "fired" /\ faults <= Withstands => Defective

\* With every request answered, a defect is found unless a budget is used up before:
\* the gated routes, the attempts, the length of a chain.
DefectsAreFound ==
    /\ verdict = "clean" /\ faults = 0 =>
         \/ ~Defective
         \/ app.probe = "csrf" /\ app.session = "same site"
         \/ app.probe = "middleware" /\ mem.bad = Gated
         \/ app.probe \in {"crash", "errors", "split"} /\ mem.budget = 0
         \/ app.probe = "loop" /\ app.to[1] # "page"
    /\ verdict = "na" /\ faults = 0 =>
         \/ ~Defective
         \/ app.probe = "links"
         \/ app.probe = "csrf" /\ app.session = "none"

\* Every walk ends, a redirect's too.
Decides == <>(verdict # "none")

TypeOK == /\ (at = "end") = (verdict # "none")
          /\ mem.budget \in 0 .. Budget + 5 /\ mem.bad \in 0 .. Len(app.to) + Gated
          /\ mem.memo \in {"unset", "none", "shell"} /\ (mem.memo = "shell" => app.catchAll)
          /\ mem.k \in 0 .. Attempts + Payloads /\ Cardinality(mem.seen) <= Hops + 1
          /\ faults \in 0 .. Faults

-----------------------------------------------------------------------------
(* The inductive invariant of the proof in ProbesProofs.                     *)

\* What a probe holds, and the targets it is for.
Holds(m) == /\ DOMAIN m = {"n", "k", "budget", "tested", "memo", "seen", "bad", "url"}
            /\ m.n \in Nat \ {0} /\ m.k \in Nat /\ m.bad \in Nat
            /\ m.memo \in {"unset", "none", "shell"}
Held == /\ Holds(mem) /\ faults \in Nat
        /\ at # "end" => verdict = "none"
        /\ Len(app.targets) \in Nat /\ Len(app.to) \in Nat
        /\ app.probe = "csrf" => \A n \in 1 .. Len(app.targets) :
                                     app.targets[n].does \in {"refuses", "away", "redirects", "done", "page"}
        /\ app.probe = "errors" => app.targets[1].answers /\ app.targets[1].real
        /\ app.probe = "split" => \A n \in 1 .. Len(app.targets) : app.targets[n].answers /\ app.targets[n].real

\* The target in hand is real, or so many questions of the gate were lost.
Passed == Target.real \/ faults >= IF app.catchAll THEN 2 ELSE 1

\* A catch-all host that is said to have no shell, because its answer was lost.
ShellInv == app.catchAll /\ mem.memo = "none" => faults >= 1

\* What was met of the target in hand, as long as nothing was lost: rejections and no
\* limit, a gate.
LoginInv == app.probe = "login" =>
                /\ at # "end" /\ ~NoMore /\ faults = 0 => (mem.tested => Target.rejects) /\ Target.limit \notin 1 .. mem.k
                /\ at = "logged in" => ~NoMore /\ mem.k >= Attempts
GateInv == app.probe = "middleware" /\ at = "open" => ~NoMore /\ mem.k <= Payloads /\ (faults = 0 => Target.gated)

\* A form, or an endpoint, that is compared with another answer of it.
FormInv == app.probe = "csrf" /\ at = "compare" => ~NoMore /\ Target.does \in {"done", "page"} /\ Passed
EndpointInv == app.probe \in Differential /\ at \in {"provoke", "again"} =>
                   /\ ~NoMore /\ Target.answers /\ Passed
                   /\ at = "again" => Target.fails \/ faults >= 1

\* The links of the page, the dead ones counted.
LinkInv == app.probe = "links" =>
               /\ at = "start" /\ mem.k = 1 => mem.n >= 2 /\ mem.budget = Len(app.to)
               /\ mem.bad > 0 => Defective

\* A route in hand and those seen since the chain was entered, which lead to each other and
\* to it, one after the other.
Route == 1 .. Len(app.to)
Reached(last, seen) ==
    /\ last \in Route /\ seen \subseteq Route /\ IsFiniteSet(seen)
    /\ \A url \in seen : \E n \in seen \cup {last} : Leads(url, n)
    /\ \E w \in [0 .. Cardinality(seen) -> Route] : w[Cardinality(seen)] = last /\ Walked(w, Cardinality(seen))

\* A redirect leads to a route of the app, and what was followed of a chain is one.
Targeted == \A url \in Route : app.to[url] \in {"page", "dead", "off"} \/ \E n \in Route : Leads(url, n)
HopInv   == at = "hop" => Reached(mem.url, mem.seen)
LoopInv  == app.probe = "loop" =>
                Targeted /\ Route # {} /\ (at # "end" /\ mem.k = 1 => mem.budget \in Route) /\ HopInv

LimitInv == Held /\ ShellInv /\ LoginInv /\ GateInv /\ FormInv /\ EndpointInv /\ LinkInv /\ LoopInv /\ FiredIsReal
=============================================================================
