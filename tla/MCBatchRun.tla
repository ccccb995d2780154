----------------------------- MODULE MCBatchRun -----------------------------
(* Instances of BatchRun for TLC.                                           *)
EXTENDS BatchRun

\* One submission with a repo and a live url, and another one's live url.
ThreeSource  == <<"repo", "url", "url">>
ThreeTarget  == <<"repo a", "url a", "url b">>
ThreeProject == <<"a", "a", "b">>
=============================================================================
