---------------------------- MODULE MCGradeChild ----------------------------
(* Instances of GradeChild for TLC.                                         *)
EXTENDS GradeChild

\* Grades of one commit, one after the other, or live urls at once.
Batches == {[g \in Grades |-> k] : k \in {"repo", "url"}}
=============================================================================
