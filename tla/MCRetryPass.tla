---------------------------- MODULE MCRetryPass ----------------------------
(* Instances of RetryPass for TLC.                                          *)
EXTENDS RetryPass

\* Five challenged apps.
FiveUrls    == <<"a", "b", "c", "d", "e">>
FiveBlocked == <<{1}, {1}, {1}, {1}, {1}>>
FiveStages  == <<"limited", "late", "late", "late", "late">>

\* Two challenged apps, the second with a second record that has more blocked
\* probes, and a challenged repo.
MixedUrls    == <<"a", NoUrl, "b", "b">>
MixedBlocked == <<{2}, {1}, {1}, {1, 2}>>
MixedStages  == <<"limited", "late", "late", "limited">>

\* One challenged app.
OneUrl     == <<"a">>
OneBlocked == <<{1, 2}>>
OneStage   == <<"late">>
=============================================================================
