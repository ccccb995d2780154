-------------------------------- MODULE Slots --------------------------------
(***************************************************************************)
(* What the Lighthouse lock promises (pipeline.py, _lighthouse_lock: "a     *)
(* counting semaphore over N flock files"): at most Lanes clients are       *)
(* inside at once, and a client that dies is not inside any more.           *)
(***************************************************************************)
EXTENDS Integers, FiniteSets

CONSTANT Clients

VARIABLES lanes,  \* how many clients may be inside; fixed at the start
          inside

Init == /\ lanes \in Nat \ {0}
        /\ inside = {}

Enter(c) == /\ c \notin inside
            /\ Cardinality(inside) < lanes
            /\ inside' = inside \cup {c}
            /\ UNCHANGED lanes

Leave(c) == /\ c \in inside
            /\ inside' = inside \ {c}
            /\ UNCHANGED lanes

Next == \E c \in Clients : Enter(c) \/ Leave(c)

Spec == Init /\ [][Next]_<<lanes, inside>>
=============================================================================
