----------------------------- MODULE MCAccounts -----------------------------
(* Instances of Accounts for TLC.                                           *)
EXTENDS Accounts

\* An app that mails nothing and has no signup, and what is different elsewhere.
Plain == [form |-> "no", magic |-> "no", spa |-> "no", baas |-> "no", entry |-> TRUE, crawled |-> FALSE,
          mails |-> FALSE, resends |-> FALSE, ctl |-> FALSE, link |-> "inert", once |-> FALSE,
          forgot |-> "none", resets |-> FALSE, alive |-> FALSE, browser |-> TRUE]

Mailing(a)  == {[a EXCEPT !.mails = TRUE, !.resends = TRUE, !.ctl = TRUE, !.link = "login", !.once = TRUE]}
               \cup {[a EXCEPT !.mails = TRUE, !.link = l] : l \in {"inert", "code"}}
Recovery(a) == {[a EXCEPT !.forgot = f, !.resets = r, !.alive = r] : f \in {"site", "gateway"}, r \in BOOLEAN}

\* Signups over httpx, in the browser and at a managed backend; open or gated;
\* with and without a mail, a resend control, a working link, a reset.
Variety ==
    LET form(f) == [Plain EXCEPT !.form = f]
        spa(b)  == [Plain EXCEPT !.form = "silent", !.spa = b]
        baas(b) == [Plain EXCEPT !.baas = b]
        gated   == {form("announce"), [Plain EXCEPT !.magic = "announce"], spa("announce"), baas("pending")}
        open    == {form("silent"), form("session"), form("both"), spa("flaky"), spa("session"), spa("both"), spa("pending"),
                    baas("session"), baas("firebase")}
        shy     == {[Plain EXCEPT !.entry = FALSE, !.forgot = "site", !.resets = TRUE], [form("announce") EXCEPT !.entry = FALSE],
                    [form("announce") EXCEPT !.crawled = TRUE, !.mails = TRUE, !.link = "login"],
                    [Plain EXCEPT !.crawled = TRUE, !.forgot = "site"]}
        httpx   == {[a EXCEPT !.browser = FALSE] : a \in {spa("session"), form("announce"), baas("session")}}
        had     == {[a EXCEPT !.mails = TRUE, !.link = "login"] : a \in {form("announce"), form("both"), baas("session"), spa("both")}}
    IN  {Plain} \cup gated \cup open \cup shy \cup httpx \cup UNION {Mailing(a) : a \in gated \cup {form("silent")}}
        \cup UNION {Recovery(a) : a \in had}
        \cup {[form("announce") EXCEPT !.mails = TRUE, !.link = "login", !.once = TRUE, !.forgot = "site", !.resets = TRUE,
               !.alive = r] : r \in BOOLEAN}

Whole == <<"never", "inert", "authed", "reset", "pair">>
=============================================================================
