-------------------------------- MODULE Signup --------------------------------
(***************************************************************************)
(* A signup in the browser (register_in_browser, verify_in_browser): the walk    *)
(* to a form with a password (_reach_and_submit_signup), the wizard that mails a *)
(* code (_drive_email_first), the form that mails a link                    *)
(* (_reach_and_submit_magic), and what is left behind as a session.           *)
(***************************************************************************)
EXTENDS Integers, Sequences

CONSTANTS
    Apps,  \* the pages of the app, and what it does with a signup
    Faults \* bound: pages, clicks and mails that are lost

VARIABLES
    app,   \* the app, and with what the browser is sent: "bare", "email", or "wizard" (email and code_getter)
    at,    \* home, links, trigger, routes, reach, send, code, second, magic, settle, mail, end
    mem,   \* the page it is on, the pages left to visit, homepage_has_auth, LAST_STAGE, what is returned
    aux,   \* history: where a password was typed, what the app did of it, the clock and the watchdog
    faults

vars == <<app, at, mem, aux, faults>>

\* A page: the form on it, a visible login or account link, a signup button, and whose it is.
Blank == [form |-> "none", auth |-> FALSE, cta |-> FALSE, own |-> TRUE]

Registers == {"signup", "plain"}

HasPassword(page) == page.form \in Registers \cup {"login"}

\* _page_has_auth_entrypoint; a signup button reads as one.
HasAuth(page) == HasPassword(page) \/ page.auth \/ page.cta

\* _looks_like_signup: a form that is labelled so, or any button that is.
LooksLikeSignup(page) == page.form = "signup" \/ page.cta

Init == /\ app \in Apps /\ at = "home" /\ faults = 0
        /\ mem = [page |-> Blank, walk |-> <<>>, fishes |-> FALSE, stage |-> "none", answer |-> "none"]
        /\ aux = [typed |-> {}, asked |-> FALSE, account |-> FALSE, mails |-> {}, late |-> FALSE, dead |-> FALSE]

Fault == faults < Faults /\ faults' = faults + 1

\* A page operation that fails: lost, or in a browser that the watchdog killed.
Fails == IF aux.dead THEN faults' = faults ELSE Fault

Works == ~aux.dead /\ faults' = faults

Go(pc, m) == at' = pc /\ mem' = m

-----------------------------------------------------------------------------
(* The form with a password: the homepage, the app's own links, its signup   *)
(* button, and routes that apps often have.                                *)

\* _fill_and_submit_signup, on a page that asks for a password: a login form is submitted too,
\* unless the page has a signup button, which is pressed in its place.
Submitted(where, page) ==
    LET sends == page.own /\ page.form \in Registers /\ ~page.cta
    IN  /\ Go("settle", [mem EXCEPT !.page = IF page.cta THEN app.button ELSE page])
        /\ aux' = [aux EXCEPT !.typed = @ \cup {[where |-> where, form |-> page.form, own |-> page.own, sent |-> ~page.cta]},
                              !.account = @ \/ sends, !.mails = IF sends /\ app.grants = "mail" THEN @ \cup {"link"} ELSE @]

\* What did not load in time may be on the screen all the same.
Missed(pc, page, m) == Fails /\ aux' = aux /\ \E shown \in {mem.page, page} : Go(pc, [m EXCEPT !.page = shown])

\* What the homepage links as a signup, and what of a walk is left from one place on.
Links(page) == IF page = app.home THEN app.links ELSE <<>>

From(n) == [mem EXCEPT !.walk = SubSeq(@, n, Len(@))]

Home == /\ at = "home"
        /\ \/ /\ Works
              /\ IF LooksLikeSignup(app.home) /\ HasPassword(app.home) THEN Submitted("home", app.home)
                 ELSE /\ aux' = aux
                      /\ Go("links", [mem EXCEPT !.page = app.home, !.fishes = HasAuth(app.home), !.walk = Links(app.home)])
           \/ /\ Fails /\ aux' = aux
              /\ \E shown \in {Blank, app.home} : Go("links", [mem EXCEPT !.page = shown, !.walk = Links(shown)])
        /\ UNCHANGED app

\* One page of a walk: its form is filled, or the next page is asked for.
Visit(where, page, pc, m) ==
    \/ Works /\ IF HasPassword(page) THEN Submitted(where, page) ELSE aux' = aux /\ Go(pc, [m EXCEPT !.page = page])
    \/ Missed(pc, page, m)

Further == [mem EXCEPT !.walk = Tail(@)]

\* Neither lane after the first looks at the clock; the wizard starts from the homepage.
NextLane == /\ faults' = faults /\ aux' = aux
            /\ IF app.mode = "wizard" THEN Go("reach", [mem EXCEPT !.walk = <<app.home>> \o app.routes])
               ELSE Go("magic", [mem EXCEPT !.walk = <<app.home>> \o app.logins])

\* _signup_hrefs: same origin only.
Own(n) == mem.walk[n].own

FollowLinks == /\ at = "links"
               /\ \/ /\ \A n \in DOMAIN mem.walk : ~Own(n)
                     /\ faults' = faults /\ aux' = aux /\ Go("trigger", mem)
                  \/ \E n \in DOMAIN mem.walk :
                        /\ Own(n) /\ \A k \in 1 .. n - 1 : ~Own(k)
                        /\ IF aux.late THEN NextLane ELSE Visit("link", mem.walk[n], "links", From(n + 1))
               /\ UNCHANGED app

\* The button is looked for on the page the links have led to, and may lead anywhere.
ClickTrigger == /\ at = "trigger"
                /\ LET fish == [mem EXCEPT !.walk = app.routes]
                   IN  IF ~aux.late /\ mem.page.cta /\ ~aux.dead THEN Visit("button", app.button, "routes", fish)
                       ELSE faults' = faults /\ aux' = aux /\ Go("routes", fish)
                /\ UNCHANGED app

FishRoutes == /\ at = "routes"
              /\ IF ~mem.fishes \/ mem.walk = <<>> \/ aux.late THEN NextLane
                 ELSE Visit("route", Head(mem.walk), "routes", Further)
              /\ UNCHANGED app

-----------------------------------------------------------------------------
(* The wizard: an address, the code that is mailed to it, then a password. *)

\* Our address in a form without a password; _fill_and_submit_magic asks the same.
Asked == [aux EXCEPT !.asked = TRUE, !.mails = @ \cup ({app.emails} \ {"nothing"})]

DeadEnd == Go("magic", [mem EXCEPT !.walk = <<app.home>> \o app.logins])

ReachEmailStep ==
    /\ at = "reach" /\ aux' = aux
    /\ IF mem.walk = <<>> THEN faults' = faults /\ DeadEnd
       ELSE \/ Works /\ Go(IF Head(mem.walk).form = "email" THEN "send" ELSE "reach", [Further EXCEPT !.page = Head(mem.walk)])
            \/ Fails /\ \E shown \in {mem.page, Head(mem.walk)} : Go("reach", [Further EXCEPT !.page = shown])
    /\ UNCHANGED app

\* The address is sent; a field for the code appears, or there is no wizard.
SendAddress ==
    /\ at = "send"
    /\ \/ Works /\ aux' = Asked /\ IF app.emails = "code" THEN Go("code", mem) ELSE DeadEnd
       \/ Fails /\ aux' \in {aux, Asked} /\ DeadEnd
    /\ UNCHANGED app

\* code_getter polls the inbox, whatever has become of the browser.
FetchCode ==
    /\ at = "code" /\ aux' = aux
    /\ \/ Works /\ Go("second", mem)
       \/ Fails /\ DeadEnd
    /\ UNCHANGED app

\* The code, and a password if one is asked for now; a click that fails is not noticed.
SubmitCode ==
    /\ at = "second"
    /\ \/ /\ Works /\ Go("settle", mem)
          /\ aux' = [aux EXCEPT !.account = TRUE, !.typed = IF app.second THEN @ \cup {[where |-> "wizard", form |-> "signup", own |-> TRUE, sent |-> TRUE]} ELSE @]
       \/ Fails /\ aux' = aux /\ (DeadEnd \/ Go("settle", mem))
    /\ UNCHANGED app

-----------------------------------------------------------------------------
(* The form that mails a link, on the homepage or a login page. *)

AskForLink ==
    /\ at = "magic"
    /\ IF mem.walk = <<>>
       THEN faults' = faults /\ aux' = aux /\ Go("end", [mem EXCEPT !.stage = "unreached"])
       ELSE LET page  == Head(mem.walk)
                first == Len(mem.walk) = 1 + Len(app.logins)
            IN  \/ /\ Works
                   /\ IF page.form = "email" /\ (first => HasAuth(page))
                      THEN aux' = Asked /\ Go("settle", [mem EXCEPT !.page = page])
                      ELSE aux' = aux /\ Go("magic", [mem EXCEPT !.page = page, !.walk = IF first /\ ~HasAuth(page) THEN <<>> ELSE Tail(@)])
                \/ Missed("magic", page, Further)
    /\ UNCHANGED app

-----------------------------------------------------------------------------
(* What the app left in the browser, and the link it mailed. *)

Granted == aux.account /\ app.grants = "session"

\* Any cookie counts, one set on the first visit too; a slow session is not seen.
Settle ==
    /\ at = "settle" /\ aux' = aux
    /\ LET none == [mem EXCEPT !.stage = "ungranted"]
           pending == IF app.mode = "bare" THEN Go("end", none) ELSE Go("mail", [none EXCEPT !.answer = "pending"])
       IN  \/ Works /\ IF Granted \/ app.visits THEN Go("end", [mem EXCEPT !.answer = "session"]) ELSE pending
           \/ Fault /\ ~aux.dead /\ ~app.visits /\ pending
           \/ aux.dead /\ faults' = faults /\ Go("end", [mem EXCEPT !.stage = "raised"])
    /\ UNCHANGED app

\* A fresh browser opens the link that came, if one did.
Verify ==
    /\ at = "mail" /\ aux' = aux
    /\ \/ /\ faults' = faults
          /\ Go("end", [mem EXCEPT !.answer = IF "link" \in aux.mails THEN "verified" ELSE @])
       \/ "link" \in aux.mails /\ Fault /\ Go("end", [mem EXCEPT !.answer = "inert"])
    /\ UNCHANGED app

-----------------------------------------------------------------------------
\* total_timeout of the walk passes; the lane's watchdog fires, later than that.
InLane == at \notin {"mail", "end"}

Expire == InLane /\ ~aux.late /\ aux' = [aux EXCEPT !.late = TRUE] /\ UNCHANGED <<app, at, mem, faults>>

Watchdog == InLane /\ aux.late /\ ~aux.dead /\ aux' = [aux EXCEPT !.dead = TRUE] /\ UNCHANGED <<app, at, mem, faults>>

Steps == Home \/ FollowLinks \/ ClickTrigger \/ FishRoutes \/ ReachEmailStep \/ SendAddress \/ FetchCode \/ SubmitCode
         \/ AskForLink \/ Settle \/ Verify

Next == Steps \/ Expire \/ Watchdog

\* Every page operation has a timeout; the lanes visit each page once.
Spec == Init /\ [][Next]_vars /\ WF_vars(Steps)

-----------------------------------------------------------------------------
TypeOK == /\ at \in {"home", "links", "trigger", "routes", "reach", "send", "code", "second", "magic", "settle", "mail", "end"}
          /\ mem.answer \in {"none", "pending", "session", "verified", "inert"}
          /\ mem.stage \in {"none", "unreached", "ungranted", "raised"}
          /\ aux.mails \subseteq {"code", "link"} /\ faults \in 0 .. Faults

Hijacked == \E t \in aux.typed : t.form = "login" \/ ~t.own \/ ~t.sent

Reachable == \/ app.home.form = "signup"
             \/ \E n \in 1 .. Len(app.links) : app.links[n].own /\ app.links[n].form \in Registers
             \/ app.home.cta /\ app.links = <<>> /\ app.button.form \in Registers
             \/ HasAuth(app.home) /\ \E n \in 1 .. Len(app.routes) : app.routes[n].form \in Registers

\* A signup that can be reached is reached, unless something was lost, the time ran out, or
\* a login form, another's form or a button stood before it; "unreached" is never said after a
\* password was typed, "ungranted" only when something was sent and no account was
\* granted a session that arrived; and a session is an account's, or a cookie of the first visit.
SignupIsTrue ==
    /\ at = "end" /\ faults = 0 /\ ~aux.late /\ Reachable => aux.account \/ Hijacked
    /\ mem.stage = "unreached" => aux.typed = {} /\ mem.answer = "none"
    /\ mem.stage = "ungranted" => ~app.visits /\ (faults = 0 => ~Granted /\ (aux.typed # {} \/ aux.asked))
    /\ mem.answer = "session" => Granted \/ app.visits
    /\ mem.answer = "verified" => app.mode # "bare" /\ (aux.account \/ aux.asked)

\* One password is typed in a registration, on the app's own pages unless its button or a
\* route led away; never sent as a login from the homepage, nor at a guessed route of an app that
\* shows no way in; and no link is asked for after it.
OneOwnForm ==
    /\ \A t, u \in aux.typed : t = u
    /\ \A t \in aux.typed : (t.own \/ t.where \in {"button", "route"}) /\ (t.where = "home" /\ t.sent => t.form = "signup")
                            /\ (t.where = "route" => HasAuth(app.home))
    /\ at = "magic" => aux.typed = {} /\ ~aux.account

Ends == <>[](at = "end")

-----------------------------------------------------------------------------
(* The inductive invariant of the proof in ServicesProofs.                   *)

\* Where a password may have been typed.
Fitting(t) == /\ t.own = TRUE \/ t.where \in {"button", "route"}
              /\ t.where = "home" /\ t.sent = TRUE => t.form = "signup"
              /\ t.where = "route" => HasAuth(app.home)

\* Typing a password ends the walk, and guessed routes are walked only where the homepage
\* was seen with a way in.
FormInv == /\ {"page", "walk", "fishes", "stage", "answer"} \subseteq DOMAIN mem
           /\ {"typed", "asked", "account", "mails", "late", "dead"} \subseteq DOMAIN aux
           /\ mem.fishes \in BOOLEAN /\ (mem.fishes => HasAuth(app.home))
           /\ \/ aux.typed = {} /\ aux.account = FALSE
              \/ at \in {"settle", "mail", "end"} /\ (aux.typed = {} \/ \E t \in aux.typed : aux.typed = {t} /\ Fitting(t))

\* What a page may be, and the pages of an app.
Pages == [form : {"none", "signup", "plain", "login", "email"}, auth : BOOLEAN, cta : BOOLEAN, own : BOOLEAN]
Site  == {app.home, app.button} \subseteq Pages /\ {app.links, app.routes, app.logins} \subseteq Seq(Pages) /\ app.emails \in {"code", "link", "nothing"}

\* What is said is said at the end, or while a mail is awaited; something was sent before it.
SaidInv == /\ TypeOK /\ mem.walk \in Seq(Pages) /\ mem.page \in Pages
           /\ (at \notin {"mail", "end"} => mem.stage = "none" /\ mem.answer = "none")
           /\ (at = "mail" => mem.stage = "ungranted" /\ mem.answer = "pending" /\ app.mode # "bare")
           /\ (at \in {"code", "second"} => aux.asked)
           /\ (at \in {"settle", "mail"} => aux.typed # {} \/ aux.asked)
           /\ (aux.mails # {} => aux.account \/ aux.asked)
           /\ (aux.dead => aux.late)
           /\ (mem.stage = "unreached" => aux.typed = {} /\ mem.answer = "none")
           /\ (mem.stage = "ungranted" => ~app.visits /\ (faults = 0 => ~Granted /\ (aux.typed # {} \/ aux.asked)))
           /\ (mem.answer = "session" => Granted \/ app.visits)
           /\ (mem.answer = "verified" => app.mode # "bare" /\ (aux.account \/ aux.asked))

\* Where nothing was lost and there was time, what has been walked past had no form to
\* register with, and what has not is still before the walk.
Left(page) == \E k \in 1 .. Len(mem.walk) : mem.walk[k] = page

ReachInv ==
    faults = 0 /\ ~aux.late =>
        /\ at \in {"links", "trigger", "routes"} => (mem.fishes <=> HasAuth(app.home)) /\ app.home.form # "signup"
        /\ at \in {"links", "trigger"} /\ app.links = <<>> => mem.page = app.home /\ mem.walk = <<>>
        /\ at \in {"links", "trigger", "routes"} =>
               \A n \in 1 .. Len(app.links) : app.links[n].own /\ app.links[n].form \in Registers => at = "links" /\ Left(app.links[n])
        /\ at = "routes" => ~(app.home.cta /\ app.links = <<>> /\ app.button.form \in Registers)
        /\ at = "routes" => \A n \in 1 .. Len(app.routes) : app.routes[n].form \in Registers => Left(app.routes[n])
        /\ at \in {"reach", "send", "code", "second", "magic"} => ~Reachable
        /\ at \in {"settle", "mail", "end"} => ~Reachable \/ aux.account \/ Hijacked

SignupInv == FormInv /\ Site /\ SaidInv /\ ReachInv
=============================================================================
