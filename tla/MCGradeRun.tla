----------------------------- MODULE MCGradeRun -----------------------------
(* An instance of GradeRun for TLC.                                         *)
EXTENDS GradeRun

\* run() is called in every way, but always for Lighthouse: a call without it is
\* a call whose Lighthouse fails.
MCOptions == [recon : BOOLEAN, email : BOOLEAN, source : BOOLEAN,
              lighthouse : {TRUE}]
=============================================================================
