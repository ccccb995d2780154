------------------------------- MODULE MCCrawl -------------------------------
(* Sites for Crawl: an app at the root of its host, one below a path of a host *)
(* it shares, a single-page app whose host answers every path, an app that is  *)
(* drawn on a canvas, and a page of a host whose root is dead.               *)
EXTENDS Crawl, TLC

Nothing == [links |-> {}, forms |-> {}, cta |-> FALSE]
Text    == [links |-> <<>>, srcs |-> {}, forms |-> {}, cta |-> FALSE, html |-> TRUE, status |-> 200,
            shell |-> FALSE, painted |-> Nothing]
Absent  == [Text EXCEPT !.html = FALSE, !.status = 404]
Api(n)  == [Text EXCEPT !.html = FALSE, !.status = n]

Js      == <<"app.js">>
Items   == <<"api", "items">>
Orders  == <<"api", "orders">>
SignOut == <<"api", "logout">>
Braces     == <<"api", "{x}">>
Login   == [act |-> <<>>, bare |-> TRUE, kind |-> "login"]
Change  == [act |-> <<"me">>, bare |-> FALSE, kind |-> "change"]
Query   == [act |-> <<>>, bare |-> TRUE, kind |-> "search"]
Away    == [act |-> <<"site", "other">>, bare |-> FALSE, kind |-> "search"]

Row(from, m, p) == [Found(from, m, p) EXCEPT !.takes = TRUE]

Plain == [start |-> <<>>, pages |-> <<>> :> Text, missing |-> Absent, catchAll |-> FALSE, spec |-> {}, hints |-> {},
          bundle |-> Js, calls |-> {}, literals |-> {}, usual |-> {Items, Orders}, searches |-> {}, explains |-> {},
          called |-> {}, queried |-> {}, doors |-> {}, sees |-> {}, imagines |-> {}, canvas |-> "none", thin |-> FALSE,
          render |-> TRUE, auth |-> FALSE, perceives |-> FALSE]

\* Links that are met at two depths, a spec with a logout and a template, a door.
Shop == [Plain EXCEPT
    !.pages = <<>> :> [Text EXCEPT !.links = <<<<"y">>, <<"x">>, <<"logout">>>>, !.srcs = {Js}, !.cta = TRUE]
           @@ <<"x">> :> [Text EXCEPT !.links = <<<<"z">>>>, !.forms = {Query}]
           @@ <<"y">> :> [Text EXCEPT !.links = <<<<"x">>, <<>>>>, !.painted = [Nothing EXCEPT !.forms = {Change}]]
           @@ <<"z">> :> [Text EXCEPT !.links = <<<<"deep">>>>] @@ <<"deep">> :> Text
           @@ <<"login">> :> [Text EXCEPT !.painted = [Nothing EXCEPT !.forms = {Login}, !.links = {<<"y">>}]]
           @@ <<"home">> :> [Text EXCEPT !.painted = [Nothing EXCEPT !.forms = {Query}]]
           @@ Items :> Api(200) @@ Orders :> Api(405) @@ SignOut :> Api(200),
    !.spec = {Row("crawl", "get", Items), Found("crawl", "get", SignOut), Found("crawl", "get", Braces)},
    !.calls = {Items, Orders}, !.literals = {Orders, <<"api", "gone">>, Braces}, !.hints = {Row("llm", "get", <<"x">>)},
    !.queried = {<<"x">>}, !.searches = {[of |-> Items, at |-> Append(Items, "search")]}, !.explains = {Orders},
    !.called = {Found("observed", "post", Orders), Found("observed", "get", <<"x">>)},
    !.sees = {Row("perceived", "get", Items), Found("perceived", "get", <<"ghost">>)}, !.imagines = {[act |-> <<"y">>, kind |-> "login"]}]

\* The spec and the bundle are the host's.
Below == [Plain EXCEPT
    !.start = <<"site", "app">>,
    !.pages = <<>> :> Text
           @@ <<"site", "app">> :> [Text EXCEPT !.links = <<<<"site", "app", "x">>, <<"site", "other">>>>, !.cta = TRUE,
                                               !.srcs = {<<"site", "app", "app.js">>}]
           @@ <<"site", "app", "x">> :> [Text EXCEPT !.links = <<<<"site", "app">>>>, !.forms = {Query, Away}]
           @@ <<"site", "other">> :> Text @@ <<"login">> :> [Text EXCEPT !.painted = [Nothing EXCEPT !.forms = {Login}]]
           @@ (<<"site", "app">> \o Items) :> Api(401) @@ Orders :> Api(200),
    !.bundle = <<"site", "app", "app.js">>, !.calls = {Orders}, !.literals = {Items, Orders},
    !.spec = {Row("crawl", "get", <<"site", "other">>), Found("crawl", "post", <<"site", "app", "x">>)},
    !.searches = {[of |-> <<"site", "app">> \o Items, at |-> <<"site", "app">> \o Items \o <<"search">>]},
    !.called = {Found("observed", "get", <<"site", "other">>), Found("observed", "get", <<"site", "app">> \o Items)},
    !.sees = {Found("perceived", "get", <<"site", "other">>)}]

\* Every path is the shell; what is painted there depends on the path.
Spa(form, thin) == [Plain EXCEPT
    !.catchAll = TRUE, !.thin = thin,
    !.pages = <<>> :> [Text EXCEPT !.shell = TRUE, !.srcs = IF thin THEN {} ELSE {Js},
                                   !.painted = [Nothing EXCEPT !.forms = form, !.links = IF thin THEN {} ELSE {<<"x">>}]]
           @@ <<"x">> :> [Text EXCEPT !.shell = TRUE, !.painted = [Nothing EXCEPT !.forms = {Change}]]
           @@ <<"gate">> :> [Text EXCEPT !.shell = TRUE, !.painted = [Nothing EXCEPT !.forms = {Login, Change}]]
           @@ Items :> Api(200) @@ Js :> Api(200),
    !.missing = Text, !.usual = IF thin THEN {} ELSE {Items, Orders}, !.literals = {Items}, !.doors = {<<"gate">>}]

Canvas(s) == [Plain EXCEPT !.canvas = s, !.pages = <<>> :> [Text EXCEPT !.cta = TRUE]]

\* A page of a host whose root is dead, or is not.
Entry(n) == [Plain EXCEPT !.start = <<"demo">>, !.canvas = "none",
    !.pages = <<>> :> [Text EXCEPT !.status = n] @@ <<"demo">> :> [Text EXCEPT !.forms = {Query}, !.srcs = {Js}, !.links = <<<<"a">>, <<"b">>, <<"c">>, <<"d">>, <<"e">>>>]
           @@ Js :> Api(200) @@ <<"signup">> :> [Text EXCEPT !.painted = [Nothing EXCEPT !.forms = {Login}]],
    !.doors = {<<"signup">>}, !.hints = {Found("llm", "post", Orders)}]

Words == STRING

MCSites == {[s EXCEPT !.render = r, !.auth = a, !.perceives = p] :
              s \in {Shop, Below, Spa({Login}, TRUE), Spa({}, TRUE), Spa({Query}, FALSE), Spa({}, FALSE),
                     Canvas("error"), Canvas("rendered"), Entry(404), Entry(200)},
              r \in BOOLEAN, a \in BOOLEAN, p \in BOOLEAN}
=============================================================================
