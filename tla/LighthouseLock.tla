--------------------------- MODULE LighthouseLock ---------------------------
(***************************************************************************)
(* The lock of pipeline._lighthouse_lock, which the grade workers of a host *)
(* take around a Lighthouse trace.  There is a file per lane.  A worker     *)
(* opens them all, tries an exclusive flock on each in turn without         *)
(* blocking, sleeps a quarter of a second when all are taken and starts     *)
(* over.  Nobody queues, and the system drops the flock of a process that   *)
(* dies.                                                                    *)
(***************************************************************************)
EXTENDS Integers, FiniteSets

CONSTANTS
    Grades,   \* the grades of the host, by the order in which they start
    Slots,    \* the values SLOPTIC_LIGHTHOUSE_SLOTS may have on the host
    Nobody    \* no grade holds the lane

ASSUME LockAssumption == /\ Slots \subseteq Nat \ {0}
                         /\ Nobody \notin Grades

VARIABLES
    spot,     \* where a worker is: "out", "scan", "asleep", "in"
    lane,     \* the file a worker tries next, or holds
    owner     \* the system's table: who holds the flock of each file

lockVars == <<spot, lane, owner>>

\* The lock files.
Lanes == Cardinality(DOMAIN owner)

LockInit == /\ spot = [g \in Grades |-> "out"]
            /\ lane = [g \in Grades |-> 1]
            /\ \E n \in Slots : owner = [l \in 1 .. n |-> Nobody]

Open(g) == /\ spot[g] = "out"
           /\ spot' = [spot EXCEPT ![g] = "scan"]
           /\ lane' = [lane EXCEPT ![g] = 1]
           /\ UNCHANGED owner

\* Mutant: a failed flock of the last file is not told from a granted one.
BugTry(g) ==
    /\ spot[g] = "scan"
    /\ \/ /\ owner[lane[g]] = Nobody \/ lane[g] = Lanes
          /\ owner' = [owner EXCEPT ![lane[g]] = g]
          /\ spot' = [spot EXCEPT ![g] = "in"]
          /\ UNCHANGED lane
       \/ /\ owner[lane[g]] # Nobody /\ lane[g] < Lanes
          /\ lane' = [lane EXCEPT ![g] = @ + 1]
          /\ UNCHANGED <<spot, owner>>

\* flock(LOCK_EX | LOCK_NB) on one file: granted, or on to the next.
Try(g) ==
    /\ spot[g] = "scan"
    /\ \/ /\ owner[lane[g]] = Nobody
          /\ owner' = [owner EXCEPT ![lane[g]] = g]
          /\ spot' = [spot EXCEPT ![g] = "in"]
          /\ UNCHANGED lane
       \/ /\ owner[lane[g]] # Nobody /\ lane[g] < Lanes
          /\ lane' = [lane EXCEPT ![g] = @ + 1]
          /\ UNCHANGED <<spot, owner>>
       \/ /\ owner[lane[g]] # Nobody /\ lane[g] = Lanes
          /\ spot' = [spot EXCEPT ![g] = "asleep"]
          /\ UNCHANGED <<lane, owner>>

Wake(g) == /\ spot[g] = "asleep"
           /\ spot' = [spot EXCEPT ![g] = "scan"]
           /\ lane' = [lane EXCEPT ![g] = 1]
           /\ UNCHANGED owner

Freed(g) == [l \in DOMAIN owner |-> IF owner[l] = g THEN Nobody ELSE owner[l]]

\* The finally block unlocks the held file and closes them all.
Close(g) == /\ spot[g] = "in"
            /\ spot' = [spot EXCEPT ![g] = "out"]
            /\ owner' = Freed(g)
            /\ UNCHANGED lane

\* Mutant: the lock is a file that its owner must remove.
BugDrop(g) == UNCHANGED lockVars

\* The process is gone, wherever it was.
Drop(g) == /\ spot' = [spot EXCEPT ![g] = "out"]
           /\ owner' = Freed(g)
           /\ UNCHANGED lane

LockTypeOK == /\ spot \in [Grades -> {"out", "scan", "asleep", "in"}]
              /\ lane \in [Grades -> 1 .. Lanes]
              /\ \E n \in Slots : owner \in [1 .. n -> Grades \cup {Nobody}]

\* The workers inside, and the abstract semaphore they must implement.
Holders   == {g \in Grades : spot[g] = "in"}
Semaphore == INSTANCE Slots WITH Clients <- Grades, lanes <- Lanes, inside <- Holders

\* The lock is a counting semaphore, through sleeps, races for a freed lane and
\* workers that are killed while they hold, wait or look (_lighthouse_lock).
LockIsSemaphore == Semaphore!Spec

\* The inductive invariant of the refinement: the flock table and the workers
\* agree on who is inside, and with which file.
LockInv == /\ \A g \in Grades : spot[g] = "in" => owner[lane[g]] = g
           /\ \A l \in DOMAIN owner : owner[l] # Nobody => spot[owner[l]] = "in" /\ lane[owner[l]] = l
=============================================================================
