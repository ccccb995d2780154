------------------------------ MODULE Accounts ------------------------------
(***************************************************************************)
(* How the probes of a grade come by accounts of the app under test.       *)
(*                                                                         *)
(* pipeline._Ctx.register signs up a fresh user, or completes the emailed  *)
(* confirmation of a gated signup, or drives the app's own signup in a     *)
(* browser, or signs up at its managed backend.  The email flow of probes.py *)
(* and email_verify.py, with the mail server on the far side, also answers  *)
(* the probes that judge the confirmation and the password reset.  What is  *)
(* slow is memoised on the context, per identity: "me", and the pair "a",   *)
(* "b" of the cross-user probes.  A probe that blows its deadline is        *)
(* abandoned, and its thread goes on beside the next probe's.               *)
(***************************************************************************)
EXTENDS Integers, Sequences, FiniteSets

CONSTANTS
    Apps,      \* the apps under test, with the grade's --browser-auth, see MCAccounts
    Battery,   \* the probes in catalog order: "never", "inert", "reset", "authed", "pair"
    Tries,     \* _BROWSER_REG_MAX_TRIES
    Abandons   \* bound: how many probes blow their deadline

ASSUME AccountsAssumption ==
    /\ Battery \in Seq({"never", "inert", "reset", "authed", "pair"})
    \* by path: qa-email-001, qa-email-002, then qa-reset-001
    /\ \A i, j \in DOMAIN Battery : Battery[i] \in {"never", "inert"} /\ Battery[j] = "reset" => i < j
    /\ Tries \in Nat \ {0} /\ Abandons \in Nat
    /\ \A a \in Apps : a.ctl \in BOOLEAN /\ a.spa \in {"no", "flaky", "session", "both", "pending", "announce"}

Ids     == {"me", "a", "b"}
Probes  == 1 .. Len(Battery)
Threads == 0 .. Len(Battery)      \* 0 is the main thread, which primes the email

VARIABLES
    app,      \* the app of this behaviour
    reg,      \* _reg: the signup with our address, memoised
    acct,     \* the httpx account of that signup, and whether its client is open
    store,    \* _browser_cache
    slot,     \* account_session: the user whose session is kept for reuse
    result,   \* the observation of the email flow, memoised
    inbox,    \* the latest mail of an address
    transit,  \* mails that were sent and did not arrive yet
    missed,   \* history: mails a poll gave up waiting for
    exists,   \* the app has an account with our address
    verified, \* that account is confirmed
    used,     \* its confirmation link was opened
    launches, \* history: browser launches for an identity
    flows,    \* history: how often the email flow of an identity was run
    th,       \* the threads
    running,  \* the probe the battery is at
    verdict,  \* what each probe came to
    users     \* the accounts a probe was given

memos == <<reg, acct, store, slot, result>>
mail  == <<inbox, transit, missed>>
site  == <<exists, verified, used>>
tally == <<launches, flows>>
loop  == <<running, verdict, users>>
vars  == <<app, memos, mail, site, tally, th, loop>>

NoReg    == [lane |-> "absent", submitted |-> FALSE, session |-> FALSE, announced |-> FALSE, ctl |-> FALSE]
Nothing  == [done |-> FALSE, attempted |-> FALSE, gated |-> FALSE, atSignup |-> FALSE, announced |-> FALSE,
             arrived |-> FALSE, late |-> FALSE, ctl |-> FALSE, acted |-> FALSE, session |-> FALSE]
NoUser   == <<"nobody", "me">>
Idle     == [pc |-> "idle", id |-> "me", s |-> "me", back |-> "idle", ret |-> "idle", tries |-> 0,
             out |-> Nothing, got |-> <<>>]

Init == /\ app \in Apps
        /\ reg = [s \in Ids |-> NoReg]
        /\ acct = [s \in Ids |-> "none"]
        /\ store = [s \in Ids |-> "absent"]
        \* the authenticated crawl may have left its session
        /\ slot \in {[s \in Ids |-> NoUser]} \cup
                    IF app.crawled THEN {[s \in Ids |-> IF s = "me" THEN <<"crawl", s>> ELSE NoUser]} ELSE {}
        /\ result = [s \in Ids |-> Nothing]
        /\ inbox = [s \in Ids |-> "none"]
        /\ transit = [s \in Ids |-> {}]
        /\ missed = [s \in Ids |-> {}]
        /\ exists = [s \in Ids |-> FALSE]
        /\ verified = [s \in Ids |-> FALSE]
        /\ used = [s \in Ids |-> FALSE]
        /\ launches = [s \in Ids |-> 0]
        /\ flows = [s \in Ids |-> 0]
        \* has_auth_entrypoint: the signup mail is sent before the battery
        /\ th = [t \in Threads |-> IF t = 0 /\ app.entry THEN [Idle EXCEPT !.pc = "reg", !.back = "end"] ELSE Idle]
        /\ running = 0
        /\ verdict = [t \in Probes |-> "none"]
        /\ users = [t \in Probes |-> <<>>]

At(t, pc)   == th[t].pc = pc
Go(t, pc)   == th' = [th EXCEPT ![t].pc = pc]
Send(s, m)  == transit' = [transit EXCEPT ![s] = @ \cup m]
Confirm     == IF app.mails THEN {"confirm"} ELSE {}

-----------------------------------------------------------------------------
(* The battery: pipeline.run's loop and _run_bounded.                      *)

First(kind) == CASE kind \in {"never", "inert"} -> [Idle EXCEPT !.pc = "flow", !.back = "judge"]
                 [] kind = "reset"              -> [Idle EXCEPT !.pc = "reg", !.back = "recover"]
                 [] kind = "authed"             -> [Idle EXCEPT !.pc = "register", !.id = "me"]
                 [] kind = "pair"               -> [Idle EXCEPT !.pc = "register", !.id = "a"]

StartProbe == /\ running < Len(Battery)
              /\ running = 0 => At(0, "idle")
              /\ running > 0 => verdict[running] # "none"
              /\ running' = running + 1
              /\ th' = [th EXCEPT ![running + 1] = First(Battery[running + 1])]
              /\ UNCHANGED <<app, memos, mail, site, tally, verdict, users>>

\* The deadline: the thread is left alone.
Abandon == /\ running > 0 /\ verdict[running] = "none"
           /\ Cardinality({p \in Probes : verdict[p] = "hung"}) < Abandons
           /\ verdict' = [verdict EXCEPT ![running] = "hung"]
           /\ UNCHANGED <<app, memos, mail, site, tally, th, running, users>>

\* A thread ends; the answer of an abandoned one reaches nobody.
End(t, v) == /\ th' = [th EXCEPT ![t] = Idle]
             /\ verdict' = [p \in Probes |-> IF p = t /\ verdict[p] = "none" THEN v ELSE verdict[p]]

PrimeEnds == /\ At(0, "end")
             /\ th' = [th EXCEPT ![0] = Idle]
             /\ UNCHANGED <<app, memos, mail, site, tally, loop>>

-----------------------------------------------------------------------------
(* _email_register_once: sign up with our address, once per identity.      *)

CheckReg(t) == /\ At(t, "reg")
               /\ Go(t, IF reg[th[t].s] = NoReg THEN "signup" ELSE th[t].back)
               /\ UNCHANGED <<app, memos, mail, site, tally, loop>>

Registered(t, s, r) == /\ reg' = [reg EXCEPT ![s] = r]
                       /\ th' = [th EXCEPT ![t].pc = th[t].back, ![t].tries = 0]

\* What the password form, or the JSON API where there is none, shows for a signup.
FormReply == [took |-> app.form # "no", session |-> app.form \in {"session", "both"},
              announced |-> app.form \in {"announce", "both"}]

\* The form that asks for an address only, and mails a link.
MagicReply == [took |-> app.magic # "no", session |-> FALSE, announced |-> app.magic = "announce"]

\* 1) the password form or JSON API, 1b) the magic-link form.  A signup that
\* shows nothing leaves its account behind for the last resort.
Signup(t) ==
    LET s     == th[t].s
        Shows(r) == r.session \/ r.announced
        won   == IF Shows(FormReply) THEN FormReply ELSE MagicReply
    IN  /\ At(t, "signup")
        /\ IF FormReply.took \/ MagicReply.took
           THEN /\ Send(s, Confirm)
                /\ exists' = [exists EXCEPT ![s] = TRUE]
           ELSE UNCHANGED <<transit, exists>>
        /\ acct' = [acct EXCEPT ![s] = IF FormReply.took \/ Shows(won) THEN "open" ELSE @]
        /\ IF Shows(won)
           THEN Registered(t, s, [lane |-> "httpx", submitted |-> TRUE, session |-> won.session,
                                  announced |-> won.announced, ctl |-> app.ctl])
           ELSE /\ Go(t, IF app.browser THEN "launch" ELSE "gateway")
                /\ UNCHANGED reg
        /\ UNCHANGED <<app, store, slot, result, inbox, missed, verified, used, tally, loop>>

\* What a launch may come to.
Launched == CASE app.spa = "no"      -> {"null"}
              [] app.spa = "flaky"   -> {"null", "session"}
              [] app.spa \in {"session", "both"} -> {"session"}
              [] app.spa \in {"pending", "announce"} -> {"pending"}

\* Mutant: a failed launch is not counted.
BugLaunch(t, s, next) ==
    IF store[s] # "absent" /\ th[t].tries = 0
    THEN /\ Go(t, next)
         /\ UNCHANGED <<store, launches, transit, exists>>
    ELSE \E r \in Launched :
           /\ launches' = [launches EXCEPT ![s] = IF @ < 9 THEN @ + 1 ELSE @]
           /\ IF r = "null"
              THEN UNCHANGED <<store, th>>
              ELSE /\ store' = [store EXCEPT ![s] = r]
                   /\ Go(t, next)
           /\ UNCHANGED <<transit, exists>>

\* _browser_register_once: the memo, or up to Tries launches.
Launch(t, s, next) ==
    IF store[s] # "absent" /\ th[t].tries = 0
    THEN /\ Go(t, next)
         /\ UNCHANGED <<store, launches, transit, exists>>
    ELSE \E r \in Launched :
           /\ launches' = [launches EXCEPT ![s] = @ + 1]
           /\ IF r = "null" /\ th[t].tries + 1 < Tries
              THEN /\ th' = [th EXCEPT ![t].tries = @ + 1]
                   /\ UNCHANGED store
              ELSE /\ store' = [store EXCEPT ![s] = r]
                   /\ th' = [th EXCEPT ![t].pc = next, ![t].tries = 0]
           /\ IF r = "null" THEN UNCHANGED <<transit, exists>>
              ELSE /\ Send(s, Confirm)
                   /\ exists' = [exists EXCEPT ![s] = TRUE]

\* 2) the app's own signup, in the browser: it may announce a mail with a session or without.
LaunchFlow(t) == /\ At(t, "launch")
                 /\ Launch(t, th[t].s, "launched")
                 /\ UNCHANGED <<app, reg, acct, slot, result, inbox, missed, verified, used, flows, loop>>

BrowserLane(t) ==
    LET s == th[t].s
        r == [NoReg EXCEPT !.submitted = TRUE]
    IN  /\ At(t, "launched")
        /\ CASE store[s] = "pending" -> Registered(t, s, [r EXCEPT !.lane = "browser", !.announced = app.spa = "announce"])
             [] store[s] = "session" -> Registered(t, s, [r EXCEPT !.lane = "browser_session", !.session = TRUE, !.announced = app.spa = "both"])
             [] store[s] = "null"    -> Go(t, "gateway") /\ UNCHANGED reg
        /\ UNCHANGED <<app, acct, store, slot, result, mail, site, tally, loop>>

\* 3) the Supabase gateway, by password or magic link, 3b) Firebase, 4) the
\* httpx signup that showed nothing, or nothing was submitted at all.
Gateway(t) ==
    LET s == th[t].s
        r == [NoReg EXCEPT !.submitted = TRUE]
    IN  /\ At(t, "gateway")
        /\ CASE app.baas = "session"  -> Registered(t, s, [r EXCEPT !.lane = "baas_session", !.session = TRUE])
             [] app.baas = "pending"  -> Registered(t, s, [r EXCEPT !.lane = "baas", !.announced = TRUE])
             [] app.baas = "firebase" -> Registered(t, s, [r EXCEPT !.lane = "firebase_session", !.session = TRUE])
             [] app.baas = "no" /\ acct[s] # "none" -> Registered(t, s, [r EXCEPT !.lane = "httpx", !.ctl = app.ctl])
             [] OTHER -> Registered(t, s, [NoReg EXCEPT !.lane = "none"])
        /\ IF app.baas = "no" THEN UNCHANGED <<transit, exists>>
           ELSE /\ Send(s, IF app.baas = "pending" THEN Confirm ELSE {})
                /\ exists' = [exists EXCEPT ![s] = TRUE]
        /\ UNCHANGED <<app, acct, store, slot, result, inbox, missed, verified, used, tally, loop>>

-----------------------------------------------------------------------------
(* The mail server, and receiver.poll: the latest mail, whatever it is.    *)

Deliver(s, m) == /\ m \in transit[s]
                 /\ inbox' = [inbox EXCEPT ![s] = m]
                 /\ transit' = [transit EXCEPT ![s] = @ \ {m}]
                 /\ UNCHANGED <<app, memos, missed, site, tally, th, loop>>

\* A poll of the inbox of s that found a mail goes on at found; one that gave
\* up, at empty, with the observation so far.
Poll(t, s, found, empty, outFound, outEmpty) ==
    /\ IF inbox[s] # "none"
       THEN /\ th' = [th EXCEPT ![t].pc = found, ![t].out = outFound]
            /\ UNCHANGED missed
       ELSE /\ th' = [th EXCEPT ![t].pc = empty, ![t].out = outEmpty]
            /\ missed' = [missed EXCEPT ![s] = @ \cup transit[s]]
    /\ UNCHANGED <<app, memos, inbox, transit, site, tally, loop>>

-----------------------------------------------------------------------------
(* _email_verify_result, _run_email_flow and verify_email_flow.            *)

\* The memo, or the flow.
Flow(t) == /\ At(t, "flow")
           /\ IF result[th[t].s].done THEN Go(t, th[t].back)
              ELSE th' = [th EXCEPT ![t].pc = "reg", ![t].back = "poll", ![t].ret = th[t].back]
           /\ UNCHANGED <<app, memos, mail, site, tally, loop>>

\* Mutant: an account that got no session is taken for gated, announced or not.
BugObserve(t) ==
    LET s == th[t].s
        r == reg[s]
        o == [Nothing EXCEPT !.attempted = r.submitted]
        in == [o EXCEPT !.atSignup = TRUE]
        gate == [o EXCEPT !.gated = TRUE, !.ctl = r.ctl]
    IN  /\ At(t, "poll")
        /\ CASE ~r.submitted -> /\ Go(t, "capture")
                                /\ UNCHANGED <<app, memos, mail, site, tally, loop>>
             [] r.submitted /\ r.session ->
                    Poll(t, s, "capture", "capture", [in EXCEPT !.announced = TRUE, !.arrived = TRUE],
                         [in EXCEPT !.announced = r.announced])
             [] OTHER -> Poll(t, s, "follow", "resend", [gate EXCEPT !.arrived = TRUE], [gate EXCEPT !.late = TRUE])

\* The poll a signup calls for: none when nothing was submitted, a short one when
\* nothing was announced, the first leg of a long one otherwise.
Observe(t) ==
    LET s == th[t].s
        r == reg[s]
        o == [Nothing EXCEPT !.attempted = r.submitted]
        in == [o EXCEPT !.atSignup = TRUE]
        gate == [o EXCEPT !.gated = TRUE, !.ctl = r.ctl]
    IN  /\ At(t, "poll")
        /\ CASE ~r.submitted -> /\ Go(t, "capture")
                                /\ UNCHANGED <<app, memos, mail, site, tally, loop>>
             [] r.submitted /\ r.session ->
                    Poll(t, s, "capture", "capture", [in EXCEPT !.announced = TRUE, !.arrived = TRUE],
                         [in EXCEPT !.announced = r.announced])
             [] r.submitted /\ ~r.session /\ r.announced ->
                    Poll(t, s, "follow", "resend", [gate EXCEPT !.arrived = TRUE], [gate EXCEPT !.late = TRUE])
             [] OTHER -> Poll(t, s, "follow", "capture", [gate EXCEPT !.arrived = TRUE], o)

\* Halfway: the app's own resend control, where the lane has one.
Resend(t) == LET s == th[t].s
             IN  /\ At(t, "resend")
                 /\ Go(t, "second")
                 /\ IF acct[s] = "open" /\ app.ctl THEN Send(s, IF app.resends THEN {"confirm"} ELSE {})
                                                  ELSE UNCHANGED transit
                 /\ UNCHANGED <<app, memos, inbox, missed, site, tally, loop>>

SecondLeg(t) == /\ At(t, "second")
                /\ Poll(t, th[t].s, "follow", "capture", [th[t].out EXCEPT !.arrived = TRUE], th[t].out)

\* A login with the password we signed up with.
LoggedIn(s) == reg[s].lane = "httpx" /\ verified[s]

\* Open the mail's link: over httpx and then log in, in the browser, or at the
\* gateway.  A closed client raises, and the flow reads as never attempted.
Follow(t) ==
    LET s     == th[t].s
        httpx == reg[s].lane = "httpx"
        works == inbox[s] = "confirm" /\ app.link # "inert" /\ ~(app.once /\ used[s])
        sess  == works \/ LoggedIn(s)
    IN  /\ At(t, "follow")
        /\ IF httpx /\ acct[s] = "closed"
           THEN /\ th' = [th EXCEPT ![t].pc = "store", ![t].out = Nothing]
                /\ UNCHANGED <<verified, used>>
           ELSE \E ok \in IF app.link = "code" THEN {FALSE, reg[s].lane # "browser"} ELSE {TRUE} :
                   /\ th' = [th EXCEPT ![t].pc = "capture", ![t].out.acted = ok, ![t].out.session = ok /\ sess]
                   /\ verified' = [verified EXCEPT ![s] = @ \/ (ok /\ works)]
                   /\ used' = [used EXCEPT ![s] = @ \/ inbox[s] = "confirm"]
        /\ UNCHANGED <<app, memos, mail, exists, tally, loop>>

\* A session that was won is kept for the authed probes; the client that won it
\* over httpx is closed.
Capture(t) ==
    LET s    == th[t].s
        kept == th[t].out.session \/ reg[s].lane = "firebase_session"
    IN  /\ At(t, "capture")
        /\ Go(t, "store")
        /\ slot' = [slot EXCEPT ![s] = IF kept THEN <<"flow", s>> ELSE @]
        /\ acct' = [acct EXCEPT ![s] = IF kept /\ reg[s].lane = "httpx" THEN "closed" ELSE @]
        /\ UNCHANGED <<app, reg, store, result, mail, site, tally, loop>>

Store(t) == LET s == th[t].s
            IN  /\ At(t, "store")
                /\ result' = [result EXCEPT ![s] = [th[t].out EXCEPT !.done = TRUE]]
                /\ flows' = [flows EXCEPT ![s] = @ + 1]
                /\ th' = [th EXCEPT ![t].pc = th[t].ret, ![t].back = th[t].ret, ![t].out = Nothing]
                /\ UNCHANGED <<app, reg, acct, store, slot, mail, site, launches, loop>>

-----------------------------------------------------------------------------
(* email_never_arrives, email_verification_inert.                          *)

Never(o) ==
    LET promise == o.atSignup /\ o.announced
    IN  CASE ~o.attempted \/ ~(o.gated \/ promise) -> "na"
          [] promise /\ ~o.arrived   -> "broken promise"
          [] promise /\ o.arrived    -> "clean"
          [] o.gated /\ ~o.arrived   -> "lockout"
          [] o.gated /\ o.arrived /\ o.late -> "late"
          [] o.gated /\ o.arrived /\ ~o.late -> IF o.ctl THEN "clean" ELSE "no resend"

Inert(o) == CASE ~o.attempted \/ ~o.gated \/ ~o.arrived \/ ~o.acted -> "na"
              [] OTHER -> IF o.session THEN "clean" ELSE "inert"

Judge(t) == /\ At(t, "judge")
            /\ End(t, IF Battery[t] = "never" THEN Never(result["me"]) ELSE Inert(result["me"]))
            /\ UNCHANGED <<app, memos, mail, site, tally, running, users>>

-----------------------------------------------------------------------------
(* _run_reset_flow, reset_email_flow and reset_email_unreliable.           *)

\* An account with our address plausibly exists.
Plausible(s) == \/ acct[s] # "none" /\ (FormReply.session \/ FormReply.announced \/ MagicReply.announced \/ verified[s])
                \/ reg[s].lane \in {"baas", "baas_session", "browser_session", "firebase_session"}
                \/ slot[s] # NoUser

\* Ask for a reset: with the client of the account, closed or not, or a new one.
Recover(t) ==
    /\ At(t, "recover")
    /\ CASE ~Plausible("me") \/ app.forgot = "none" -> End(t, "na") /\ UNCHANGED transit
         [] Plausible("me") /\ app.forgot = "site" /\ acct["me"] = "closed" -> End(t, "raised") /\ UNCHANGED transit
         [] OTHER -> /\ Go(t, "wait")
                     /\ Send("me", IF app.resets /\ exists["me"] THEN {"reset"} ELSE {})
                     /\ UNCHANGED verdict
    /\ UNCHANGED <<app, memos, inbox, missed, site, tally, running, users>>

AwaitReset(t) == /\ At(t, "wait")
                 /\ Poll(t, "me", "open", "no reset mail", Nothing, Nothing)

\* The link of the mail that was found; a gateway's link can not be judged.
OpenReset(t) ==
    LET alive == IF inbox["me"] = "reset" THEN app.alive ELSE app.link # "inert" /\ ~(app.once /\ used["me"])
    IN  /\ At(t, "open")
        /\ End(t, IF app.forgot = "site" /\ ~alive THEN "dead link" ELSE "clean")
        /\ UNCHANGED <<app, memos, mail, site, tally, running, users>>

ResetLockout(t) == /\ At(t, "no reset mail")
                   /\ End(t, "no reset mail")
                   /\ UNCHANGED <<app, memos, mail, site, tally, running, users>>

-----------------------------------------------------------------------------
(* _Ctx.register and auth.register_account, for one identity.              *)

\* An account is had: the second of a pair is next, or the probe goes on with it.
Have(t, user) ==
    IF th[t].id = "a"
    THEN /\ th' = [th EXCEPT ![t] = [Idle EXCEPT !.pc = "register", !.id = "b", !.got = <<user>>]]
         /\ UNCHANGED <<verdict, users>>
    ELSE /\ End(t, IF NoUser \in {user} \cup {th[t].got[n] : n \in 1 .. Len(th[t].got)} THEN "na" ELSE "tested")
         /\ users' = [users EXCEPT ![t] = Append(th[t].got, user)]

\* Mutant: the kept session is for every identity.
BugRegister(t) ==
    /\ At(t, "register")
    /\ CASE slot["me"] # NoUser -> Have(t, slot["me"])
         [] FormReply.session -> Have(t, <<"fresh", th[t].id>>)
         [] OTHER -> Go(t, "gate") /\ UNCHANGED <<verdict, users>>
    /\ UNCHANGED <<app, memos, mail, site, tally, running>>

\* The session that is kept, or a new user over httpx.
Register(t) ==
    /\ At(t, "register")
    /\ CASE th[t].id = "me" /\ slot["me"] # NoUser -> Have(t, slot["me"])
         [] FormReply.session /\ ~(th[t].id = "me" /\ slot["me"] # NoUser) -> Have(t, <<"fresh", th[t].id>>)
         [] OTHER -> Go(t, "gate") /\ UNCHANGED <<verdict, users>>
    /\ UNCHANGED <<app, memos, mail, site, tally, running>>

\* _email_account: a second identity only when the first has a session, and a
\* flow only when the signup announced a mail or a browser may find a gate.
Gate(t) ==
    LET id == th[t].id
    IN  /\ At(t, "gate")
        /\ CASE id # "me" /\ slot["me"] = NoUser /\ th[t].s = "me" /\ th[t].back # "gate" ->
                    th' = [th EXCEPT ![t].pc = "flow", ![t].s = "me", ![t].back = "gate"]
             [] id # "me" /\ slot["me"] = NoUser /\ th[t].back = "gate" -> Go(t, "spa")
             [] OTHER -> IF ~result[id].done /\ (FormReply.announced \/ app.browser)
                         THEN th' = [th EXCEPT ![t].pc = "flow", ![t].s = id, ![t].back = "session"]
                         ELSE Go(t, "session")
        /\ UNCHANGED <<app, memos, mail, site, tally, loop>>

Session(t) == /\ At(t, "session")
              /\ IF slot[th[t].id] # NoUser THEN Have(t, slot[th[t].id])
                                           ELSE Go(t, "spa") /\ UNCHANGED <<verdict, users>>
              /\ UNCHANGED <<app, memos, mail, site, tally, running>>

\* The browser, on an app with an auth surface.
LaunchUser(t) == /\ At(t, "spa")
                 /\ IF app.browser /\ app.entry THEN Launch(t, th[t].id, "user")
                    ELSE /\ Go(t, "user")
                         /\ UNCHANGED <<store, launches, transit, exists>>
                 /\ UNCHANGED <<app, reg, acct, slot, result, inbox, missed, verified, used, flows, loop>>

\* The browser's user, a new one at the managed backend, or no session.
User(t) == /\ At(t, "user")
           /\ Have(t, CASE store[th[t].id] = "session" -> <<"browser", th[t].id>>
                        [] store[th[t].id] # "session" /\ app.baas = "session" -> <<"baas", th[t].id>>
                        [] OTHER -> NoUser)
           /\ UNCHANGED <<app, memos, mail, site, tally, running>>

-----------------------------------------------------------------------------
Step(t) == \/ CheckReg(t) \/ Signup(t) \/ LaunchFlow(t) \/ BrowserLane(t) \/ Gateway(t)
           \/ Flow(t) \/ Observe(t) \/ Resend(t) \/ SecondLeg(t) \/ Follow(t) \/ Capture(t) \/ Store(t)
           \/ Judge(t) \/ Recover(t) \/ AwaitReset(t) \/ OpenReset(t) \/ ResetLockout(t)
           \/ Register(t) \/ Gate(t) \/ Session(t) \/ LaunchUser(t) \/ User(t)

Next == \/ StartProbe \/ Abandon \/ PrimeEnds
        \/ \E t \in Threads : Step(t)
        \/ \E s \in Ids, m \in {"confirm", "reset"} : Deliver(s, m)

\* Every call has a timeout, so as long as some thread has something to do, one
\* goes on, and so does the battery.  Nothing is assumed of the deadline or of
\* the mail server.
Fairness == WF_vars(StartProbe \/ PrimeEnds \/ \E t \in Threads : Step(t))

Spec == Init /\ [][Next]_vars /\ Fairness

-----------------------------------------------------------------------------
Person == {"nobody", "crawl", "flow", "fresh", "browser", "baas"} \X Ids
Observation == [done : BOOLEAN, attempted : BOOLEAN, gated : BOOLEAN, atSignup : BOOLEAN, announced : BOOLEAN,
                arrived : BOOLEAN, late : BOOLEAN, ctl : BOOLEAN, acted : BOOLEAN, session : BOOLEAN]

Registration == [lane : {"absent", "none", "httpx", "browser", "browser_session", "baas", "baas_session", "firebase_session"},
                 submitted : BOOLEAN, session : BOOLEAN, announced : BOOLEAN, ctl : BOOLEAN]

DataTyped ==
    /\ reg \in [Ids -> Registration]
    /\ acct \in [Ids -> {"none", "open", "closed"}]
    /\ store \in [Ids -> {"absent", "null", "pending", "session"}]
    /\ slot \in [Ids -> Person]
    /\ result \in [Ids -> Observation]
    /\ inbox \in [Ids -> {"none", "confirm", "reset"}]
    /\ transit \in [Ids -> SUBSET {"confirm", "reset"}] /\ missed \in [Ids -> SUBSET {"confirm", "reset"}]
    /\ exists \in [Ids -> BOOLEAN] /\ verified \in [Ids -> BOOLEAN] /\ used \in [Ids -> BOOLEAN]

TypeOK ==
    /\ DataTyped
    /\ running \in 0 .. Len(Battery)
    /\ \A t \in Threads : th[t].tries \in 0 .. Tries - 1 /\ th[t].out \in Observation

Said(v) == \E p \in Probes : verdict[p] = v
Hung    == {p \in Probes : verdict[p] = "hung"}

\* The app says of a signup that a mail will come.  Of the app, not of reg["me"]: an
\* abandoned thread may store its own registration over the one that was judged.
Promises == FormReply.announced \/ MagicReply.announced \/ app.spa \in {"announce", "both"} \/ app.baas = "pending"

\* qa-email-001 accuses an app of a lockout only when it promised a mail to our
\* address and sent none, or none that came in time, first or resent.
LockoutIsReal == Said("lockout") \/ Said("broken promise") => Promises /\ (app.mails => "confirm" \in missed["me"])

\* qa-email-002 accuses an app of a dead confirmation only when opening the link
\* and logging in really leads nowhere.  A flow that ran twice, because a probe
\* was abandoned inside it, may open a link again that works only once.
InertIsReal == Said("inert") => app.link = "inert" \/ (app.once /\ Hung # {})

\* qa-reset-001 accuses an app of a recovery lockout only when the app has an
\* account with our address, which an app that hides its users needs.  The session
\* of the crawl is of another address and passes for such an account.
ResetLockoutIsReal == Said("no reset mail") => app.crawled \/ (exists["me"] /\ (app.resets => "reset" \in missed["me"]))

\* qa-reset-001 reports a dead recovery link only of an app that has the account and
\* whose link in the reset mail is dead.  The reset is polled for by the tag of the
\* signup, and where the confirmation mail is found in its place, the link of that
\* one is judged: it may be inert, or work once and be spent.
DeadLinkIsReal == Said("dead link") => /\ app.forgot = "site" /\ exists["me"]
                                       /\ \/ ~app.alive
                                          \/ (app.mails \/ app.resends) /\ (app.link = "inert" \/ (app.once /\ used["me"]))

\* The verdicts of the mail flows hold up against the app whatever mail was
\* late, lost or resent, and whichever thread came first to the memo.
VerdictsAreReal == LockoutIsReal /\ InertIsReal /\ ResetLockoutIsReal /\ DeadLinkIsReal

\* The two users of a cross-user probe are two, and neither is the one that
\* every other probe acts as (_two_accounts, and register's exception).
PairIsTwo == \A p \in Probes : verdict[p] = "tested" /\ Battery[p] = "pair" =>
                 /\ users[p][1] # users[p][2]
                 /\ slot["me"] \notin {users[p][1], users[p][2]}

\* An app whose confirmation leads nowhere costs its polls once: nobody polls for
\* the pair before the first identity has a session (_email_account).
OnePollForABrokenApp == \A s \in {"a", "b"} : flows[s] > 0 => slot["me"] # NoUser

\* However many probes need a user, an identity costs Tries launches, and as
\* many again for each thread that was abandoned (_browser_register_once).
LaunchesBounded == \A s \in Ids : launches[s] <= Tries * (1 + Cardinality(Hung))

\* The identities that the probe threads share stay what register() promised of
\* each, and cost no more browser launches and polls than one run of it may.
IdentitiesHold == TypeOK /\ PairIsTwo /\ OnePollForABrokenApp /\ LaunchesBounded

\* The battery comes to its end, whatever the app answers.
BatteryEnds == <>(running = Len(Battery) /\ (Battery # <<>> => verdict[running] # "none"))

-----------------------------------------------------------------------------
(* The inductive invariant of the proofs in AccountsProofs.                  *)

Places   == {"idle", "reg", "signup", "launch", "launched", "gateway", "end", "flow", "poll", "follow", "resend", "second",
             "capture", "store", "judge", "recover", "wait", "open", "no reset mail", "register", "gate", "session", "spa", "user"}
Backs    == {"idle", "end", "recover", "poll", "judge", "gate", "session"}
Verdicts == {"none", "hung", "na", "clean", "broken promise", "lockout", "late", "no resend", "inert", "raised",
             "no reset mail", "dead link", "tested"}
Thread   == [pc : Places, id : Ids, s : Ids, back : Backs, ret : Backs, tries : 0 .. Tries - 1, out : Observation,
             got : Seq(Person)]

LoopTyped == /\ th \in [Threads -> Thread]
             /\ running \in 0 .. Len(Battery) /\ verdict \in [Probes -> Verdicts] /\ users \in [Probes -> Seq(Person)]
             /\ launches \in [Ids -> Nat] /\ flows \in [Ids -> Nat]
             /\ app \in Apps

\* What works is the battery's probe, or was left behind; the prime is over when the battery starts.
LiveInv == /\ \A t \in Threads : th[t].pc # "idle" => (t = running /\ (t = 0 \/ verdict[t] = "none")) \/ t \in Hung
           /\ \A p \in Probes : p > running => verdict[p] = "none"

\* Nobody, or a user of this identity.
Of(user, s) == user = NoUser \/ user[2] = s

\* Two users that a cross-user probe is right to test with.
Apart(pair) == pair[1] # NoUser /\ pair[2] # NoUser /\ pair[1][2] = "a" /\ pair[2][2] = "b"

\* A session is kept for the identity it was won for; the first of a pair waits for the second.
PeopleInv ==
    /\ \A s \in Ids : Of(slot[s], s)
    /\ \A t \in Probes : Battery[t] = "pair" /\ th[t].pc # "idle" =>
           th[t].id = "a" \/ (th[t].id = "b" /\ \E u \in Person : th[t].got = <<u>> /\ Of(u, "a"))
    /\ \A p \in Probes : Battery[p] = "pair" /\ verdict[p] = "tested" => Apart(users[p])

\* A second identity is polled for once the first has a session.
SecondInv == /\ \A t \in Threads : th[t].s # "me" => slot["me"] # NoUser
             /\ OnePollForABrokenApp

\* The threads in the middle of their launches for an identity, and the launches each has left.
Target(t) == IF th[t].pc = "launch" THEN th[t].s ELSE th[t].id
Mid(s)    == {t \in Threads : th[t].tries > 0 /\ Target(t) = s}
Left(s)   == {l \in Threads \X (1 .. Tries) : l[1] \in Mid(s) /\ l[2] > th[l[1]].tries}

\* Until the memo is there every launch is of a thread that is in the middle of them; none
\* starts to launch afterwards.
LaunchInv ==
    /\ \A t \in Threads : th[t].tries > 0 => th[t].pc = "launch" \/ (th[t].pc = "spa" /\ app.browser /\ app.entry)
    /\ \A t \in Threads : th[t].pc = "launched" => store[th[t].s] # "absent"
    /\ \A s \in Ids : /\ launches[s] + Cardinality(Left(s)) <= Tries * (1 + Cardinality(Hung))
                      /\ store[s] = "absent" => launches[s] + Cardinality(Left(s)) <= Tries * Cardinality(Mid(s))

AccountsInv == TypeOK /\ LoopTyped /\ LiveInv /\ PeopleInv /\ SecondInv /\ LaunchInv

-----------------------------------------------------------------------------
(* What the three verdicts of the mail flow rest on.                         *)

\* A mail of that kind is on its way to s, or one came.
Mailed(s, m) == inbox[s] # "none" \/ m \in transit[s]

\* The app promised a mail, and a poll for it gave up although it was sent, if it was.
Excused(s) == Promises /\ (app.mails => "confirm" \in missed[s])
Accuses(o) == ~o.arrived /\ (o.gated \/ (o.atSignup /\ o.announced))

\* What is memoised of an identity: who signed up has an account, who was promised a
\* mail was sent one if the app sends any, and an accusation is excused.
Memo(s) ==
    /\ reg[s].submitted \/ reg[s].lane \notin {"absent", "none"} \/ acct[s] # "none" \/ store[s] \in {"pending", "session"}
         => exists[s]
    /\ slot[s] # NoUser => exists[s] \/ app.crawled
    /\ reg[s].announced => Promises
    /\ (reg[s].announced \/ store[s] \in {"pending", "session"}) /\ app.mails => Mailed(s, "confirm")
    /\ Accuses(result[s]) => Excused(s)

\* A reset was asked for an account, and the mail of it is on its way or missed.
ResetSent   == app.crawled \/ (exists["me"] /\ (app.resets => Mailed("me", "reset")))
ResetMissed == app.crawled \/ (exists["me"] /\ (app.resets => "reset" \in missed["me"]))

\* What thread t, in state x, has observed.
Mail(x) ==
    /\ x.pc \notin {"resend", "second", "follow", "capture", "store"} => x.out = Nothing
    /\ Accuses(x.out) => Excused(x.s)
    /\ x.pc \in {"resend", "second", "follow"} \/ x.out.session => exists[x.s]
    /\ x.out.acted => x.pc \in {"capture", "store"}
    /\ x.pc = "follow" => inbox[x.s] # "none"
    /\ x.pc = "wait" => ResetSent
    /\ x.pc = "open" => inbox["me"] # "none"
    /\ x.pc = "no reset mail" => ResetMissed

\* Who judges the confirmation, and who asks for a reset; a flow goes back to who ran it.
Kind(x, t) ==
    /\ x.ret # "poll" /\ (x.pc = "flow" => x.back # "poll")
    /\ "judge" \in {x.pc, x.back, x.ret} => t \in Probes /\ Battery[t] \in {"never", "inert"}
    /\ "recover" \in {x.pc, x.back, x.ret} => t \in Probes /\ Battery[t] = "reset"

MailInv == \A t \in Threads : Mail(th[t]) /\ Kind(th[t], t)
MemoInv == \A s \in Ids : Memo(s)

\* No mail of a reset comes before the first probe that asks for one.
NoReset  == \A p \in Probes : Battery[p] = "reset" => p > running
ResetInv == NoReset => \A s \in Ids : inbox[s] # "reset" /\ "reset" \notin transit[s]

\* With no thread abandoned, a link is opened once; if it is, or works each time, what opening
\* it came to is the app's doing.
Flowing(x)   == \/ x.pc \in {"poll", "resend", "second", "follow"}
                \/ x.pc \in {"reg", "signup", "launch", "launched", "gateway"} /\ x.back = "poll"
Followed(s)  == result[s].done \/ \E t \in Threads : th[t].pc \in {"capture", "store"} /\ th[t].s = s
Honest(o)    == o.gated /\ o.arrived /\ o.acted /\ ~o.session => app.link = "inert"
OnceInv      == Hung = {} => /\ \A t \in Threads : Flowing(th[t]) => ~used[th[t].s]
                             /\ \A s \in Ids : used[s] => Followed(s)
Works        == Hung = {} \/ ~app.once
HonestInv    == Works /\ NoReset => /\ \A s \in Ids : Honest(result[s])
                                    /\ \A t \in Threads : Honest(th[t].out)

\* Who gets a mail has an account, and gets a confirmation only of an app that sends any.
Due(s, m) == exists[s] /\ (m = "confirm" => app.mails \/ app.resends)
SentInv   == \A s \in Ids : /\ inbox[s] # "none" => Due(s, inbox[s])
                            /\ \A m \in transit[s] : Due(s, m)

VerdictInv == MemoInv /\ MailInv /\ ResetInv /\ OnceInv /\ HonestInv
=============================================================================
