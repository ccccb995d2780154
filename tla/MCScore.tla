------------------------------- MODULE MCScore -------------------------------
(* Instances of Score for TLC: excerpts of the catalog at its real prices    *)
(* (in tenths), and a small frozen curve.                                    *)
EXTENDS Score

Plain == [bundle |-> "security", category |-> "", group |-> NoGroup,
          penalty |-> 0, range |-> <<>>, rungs |-> {}, overrides |-> {},
          quiet |-> FALSE, targets |-> 0, tax |-> 0, gate |-> FALSE,
          browser |-> FALSE]

Headers == [Plain EXCEPT !.category = "security-headers", !.penalty = 30,
                         !.range = <<30, 30>>, !.targets = 2]
Csp == [Plain EXCEPT !.category = "security-headers", !.penalty = 50,
                     !.range = <<50, 50>>, !.targets = 1, !.tax = 240]
Xss == [Plain EXCEPT !.category = "xss", !.penalty = 400,
                     !.range = <<400, 850>>,
                     !.gate = TRUE, !.browser = TRUE]
Sqli == [Plain EXCEPT !.category = "sql-injection", !.penalty = 900,
                      !.range = <<900, 980>>, !.rungs = {980},
                      !.group = "sqli-auth-bypass", !.gate = TRUE]
SqliToo == [Sqli EXCEPT !.rungs = {}]
Lcp == [Plain EXCEPT !.bundle = "performance", !.category = "load",
                     !.penalty = 100, !.overrides = {127}, !.quiet = TRUE]
Size == [Lcp EXCEPT !.overrides = {31}, !.quiet = FALSE]

Excerpt == <<Headers, Csp, Xss, Sqli, SqliToo, Lcp, Size>>

SmallCurve ==
    [dist |-> << <<0, 0, 0, -900, -2>>, <<127, 0, 127, -1400, -3>>,
                 <<480, 0, 480, -1400, -3>>, <<907, 1, 610, -1400, -4>> >>,
     axes |-> [security    |-> << <<0, 0>>, <<25, 30>>, <<50, 78>>,
                                  <<75, 400>>, <<100, 907>> >>,
               performance |-> << <<0, 3>>, <<50, 57>>, <<100, 127>> >>]]
=============================================================================
