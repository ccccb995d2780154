---------------------------- MODULE GradePromise ----------------------------
(***************************************************************************)
(* What one grade promises its caller: it takes the target, publishes at   *)
(* most one verdict, which accounts for the whole catalog or for nothing   *)
(* but the surface, and gives the target back after the verdict is fixed.  *)
(* A caller that has an account made by email is promised less: what meets *)
(* a challenge before any probe runs leaves the rest of the catalog out.   *)
(***************************************************************************)
CONSTANTS Catalog, Nothing

VARIABLES verdict,   \* the verdict, once published
          open,      \* the target is still held, or may be
          mailed     \* an account is made by email before the probes run

SurfaceOnly == [measured |-> {}, blocked |-> {}]

Splits == {[measured |-> m, blocked |-> Catalog \ m] : m \in SUBSET Catalog}

\* No probe is booked twice, but some may not be booked at all.
Loose == {v \in [measured : SUBSET Catalog, blocked : SUBSET Catalog] :
              v.measured \cap v.blocked = {}}

Init == verdict = Nothing /\ open = TRUE /\ mailed \in BOOLEAN

Publish == /\ open
           /\ verdict = Nothing
           /\ \/ verdict' \in Splits \cup {SurfaceOnly}
              \/ mailed /\ verdict' \in Loose
           /\ UNCHANGED <<open, mailed>>

Release == /\ open
           /\ open' = FALSE
           /\ UNCHANGED <<verdict, mailed>>

Next == Publish \/ Release

\* What is never done, and what is done in the end.
Safety == Init /\ [][Next]_<<verdict, open, mailed>>

Spec == Safety /\ WF_<<verdict, open, mailed>>(Next)
=============================================================================
