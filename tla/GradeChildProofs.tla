-------------------------- MODULE GradeChildProofs --------------------------
(***************************************************************************)
(* Theorems about the grades of one host: for any number of them, any mix  *)
(* of repos and urls, any number of lanes, attempts and kills.             *)
(***************************************************************************)
EXTENDS GradeChild, TLAPS, FunctionTheorems, FiniteSetTheorems

USE DEF planning, disk, mainVars, lockVars, Set

-----------------------------------------------------------------------------
(* The Lighthouse lock.                                                    *)

\* There is a lane per lock file.
LEMMA LanesCount ==
    ASSUME NEW n \in Slots, owner \in [1 .. n -> Grades \cup {Nobody}]
    PROVE  /\ Lanes = n /\ n \in Nat \ {0}
           /\ IsFiniteSet(1 .. n) /\ DOMAIN owner = 1 .. n
<1>1. n \in Nat \ {0}
  BY LockAssumption DEF LockAssumption
<1>2. IsFiniteSet(1 .. n) /\ Cardinality(1 .. n) = n
  BY <1>1, FS_Interval
<1>3. DOMAIN owner = 1 .. n
  OBVIOUS
<1> QED BY <1>1, <1>2, <1>3 DEF Lanes

\* What happens to the lock, whoever does it.
LockStep(g) == Open(g) \/ Try(g) \/ Wake(g) \/ Close(g) \/ Drop(g)

\* Every step of a grade does one thing to the lock or nothing.
LEMMA StepsOfLock ==
    ASSUME Next
    PROVE  UNCHANGED lockVars \/ \E g \in Grades : LockStep(g)
<1>1. PICK g \in Grades : Deploy(g) \/ Parent(g) \/ Worker(g) \/ Outside(g)
  BY DEF Next
<1>2. CASE Deploy(g)
  BY <1>2 DEF Deploy, CheckUrl, Clone, Plan, Clean, Build, DeployFails, BuildRaises, Freeze, Deployed
<1>3. CASE Parent(g)
  BY <1>3 DEF Parent, Fork, Settle, Expire, HardKill, RecordRow, Teardown, LockStep
<1>4. CASE Worker(g)
  BY <1>4 DEF Worker, Discover, ToTrace, NoTrace, Look, EndTrace, Answer, Raise, Vanish, LockStep
<1>5. CASE Outside(g)
  BY <1>5 DEF Outside, Start, Interrupt, KilledByDriver, LockStep
<1> QED BY <1>1, <1>2, <1>3, <1>4, <1>5

\* The lock files stay; a worker tries and holds one of them, and a lane has
\* the owner that is inside with it.
LEMMA LockStepInv ==
    ASSUME LockTypeOK, LockInv, NEW g \in Grades, LockStep(g)
    PROVE  LockTypeOK' /\ LockInv' /\ Lanes' = Lanes
<1>1. PICK n \in Slots : owner \in [1 .. n -> Grades \cup {Nobody}]
  BY DEF LockTypeOK
<1>2. /\ Lanes = n /\ n \in Nat \ {0} /\ DOMAIN owner = 1 .. n
      /\ spot \in [Grades -> {"out", "scan", "asleep", "in"}]
      /\ lane \in [Grades -> 1 .. n]
  BY <1>1, LanesCount DEF LockTypeOK
<1>3. Nobody \notin Grades
  BY LockAssumption DEF LockAssumption
<1>4. owner' \in [1 .. n -> Grades \cup {Nobody}]
  BY <1>1, <1>2 DEF LockStep, Open, Try, Wake, Close, Drop, Freed
<1>5. Lanes' = n
  <2>1. DOMAIN owner' = DOMAIN owner BY <1>2, <1>4
  <2> QED BY <1>2, <2>1 DEF Lanes
<1>6. /\ spot' \in [Grades -> {"out", "scan", "asleep", "in"}]
      /\ lane' \in [Grades -> 1 .. n]
  BY <1>2 DEF LockStep, Open, Try, Wake, Close, Drop
<1>7. LockTypeOK'
  BY <1>4, <1>5, <1>6 DEF LockTypeOK
<1>8. LockInv'
  <2> USE DEF LockInv
  <2>1. CASE Open(g) \/ Wake(g)
    BY <1>1, <1>2, <1>3, <2>1 DEF Open, Wake
  <2>2. CASE Try(g)
    BY <1>1, <1>2, <1>3, <2>2 DEF Try
  <2>3. CASE Close(g) \/ Drop(g)
    BY <1>1, <1>2, <1>3, <2>3 DEF Close, Drop, Freed
  <2> QED BY <2>1, <2>2, <2>3 DEF LockStep
<1> QED BY <1>2, <1>5, <1>7, <1>8

\* A free lane means that fewer workers are inside than there are lanes.
LEMMA RoomInside ==
    ASSUME LockTypeOK, LockInv, NEW l \in DOMAIN owner, owner[l] = Nobody
    PROVE  Cardinality(Holders) < Lanes
<1>1. PICK n \in Slots : owner \in [1 .. n -> Grades \cup {Nobody}]
  BY DEF LockTypeOK
<1>2. /\ Lanes = n /\ n \in Nat \ {0} /\ DOMAIN owner = 1 .. n /\ IsFiniteSet(1 .. n)
      /\ lane \in [Grades -> 1 .. n]
  BY <1>1, LanesCount DEF LockTypeOK
<1>3. Nobody \notin Grades
  BY LockAssumption DEF LockAssumption
<1> DEFINE taken == (1 .. n) \ {l}
           hold  == [g \in Holders |-> lane[g]]
<1>4. \A g \in Holders : g \in Grades /\ owner[lane[g]] = g
  BY DEF Holders, LockInv
<1>5. hold \in Injection(Holders, taken)
  <2>1. hold \in [Holders -> taken]
    BY <1>2, <1>3, <1>4
  <2>2. \A g, h \in Holders : hold[g] = hold[h] => g = h
    BY <1>4
  <2> QED BY <2>1, <2>2 DEF Injection, IsInjective
<1>6. IsFiniteSet(taken) /\ Cardinality(taken) = n - 1
  <2>1. Cardinality(1 .. n) = n
    BY <1>2, FS_Interval
  <2> QED BY <1>2, <2>1, FS_RemoveElement
<1> HIDE DEF hold, taken
<1>7. IsFiniteSet(Holders) /\ Cardinality(Holders) <= Cardinality(taken)
  BY <1>5, <1>6, FS_Injection
<1>8. Cardinality(Holders) \in Nat
  BY <1>7, FS_CardinalityType
<1> QED BY <1>2, <1>6, <1>7, <1>8

\* The flock table agrees with the workers in every state.
LEMMA GradeLockInv == Spec => [](LockTypeOK /\ LockInv)
<1>1. Init => LockTypeOK /\ LockInv
  <2> SUFFICES ASSUME Init PROVE LockTypeOK /\ LockInv OBVIOUS
  <2>1. PICK n \in Slots : owner = [l \in 1 .. n |-> Nobody]
    BY DEF Init, LockInit
  <2>2. Lanes = n /\ n \in Nat \ {0}
    BY <2>1, LanesCount
  <2>3. spot = [g \in Grades |-> "out"] /\ lane = [g \in Grades |-> 1]
    BY DEF Init, LockInit
  <2> QED BY <2>1, <2>2, <2>3 DEF LockTypeOK, LockInv
<1>2. (LockTypeOK /\ LockInv) /\ [Next]_vars => (LockTypeOK /\ LockInv)'
  <2> SUFFICES ASSUME LockTypeOK, LockInv, [Next]_vars PROVE LockTypeOK' /\ LockInv'
    OBVIOUS
  <2>1. CASE UNCHANGED lockVars
    BY <2>1 DEF LockTypeOK, LockInv, Lanes
  <2>2. CASE \E g \in Grades : LockStep(g)
    BY <2>2, LockStepInv
  <2> QED BY <2>1, <2>2, StepsOfLock DEF vars
<1> QED BY <1>1, <1>2, PTL DEF Spec

\* The lock is a counting semaphore, whatever the lanes and the workers, and
\* wherever a worker sleeps, is killed or hangs: every step of a grade enters,
\* leaves or does nothing to it.
THEOREM LockRefinesSlots == Spec => LockIsSemaphore
<1>1. Init => Semaphore!Init
  <2> SUFFICES ASSUME Init PROVE Semaphore!Init OBVIOUS
  <2>1. PICK n \in Slots : owner = [l \in 1 .. n |-> Nobody]
    BY DEF Init, LockInit
  <2>2. Lanes \in Nat \ {0}
    BY <2>1, LanesCount
  <2>3. Holders = {}
    BY DEF Init, LockInit, Holders
  <2> QED BY <2>2, <2>3 DEF Semaphore!Init
<1>2. LockTypeOK /\ LockInv /\ [Next]_vars => [Semaphore!Next]_<<Lanes, Holders>>
  <2> SUFFICES ASSUME LockTypeOK, LockInv, [Next]_vars
               PROVE  [Semaphore!Next]_<<Lanes, Holders>>
    OBVIOUS
  <2>1. CASE UNCHANGED lockVars
    BY <2>1 DEF Lanes, Holders
  <2>2. CASE \E g \in Grades : LockStep(g)
    <3>1. PICK g \in Grades : LockStep(g)
      BY <2>2
    <3>2. Lanes' = Lanes
      BY <3>1, LockStepInv
    <3>3. spot \in [Grades -> {"out", "scan", "asleep", "in"}]
      BY DEF LockTypeOK
    <3>4. CASE Open(g) \/ Wake(g)
      <4>1. Holders' = Holders
        BY <3>3, <3>4 DEF Open, Wake, Holders
      <4> QED BY <3>2, <4>1
    <3>5. CASE Try(g)
      <4>1. CASE spot' = [spot EXCEPT ![g] = "in"] /\ spot[g] = "scan" /\ owner[lane[g]] = Nobody
        <5>1. Holders' = Holders \cup {g} /\ g \notin Holders
          BY <3>3, <4>1 DEF Holders
        <5>2. PICK n \in Slots : owner \in [1 .. n -> Grades \cup {Nobody}]
          BY DEF LockTypeOK
        <5>3. lane[g] \in DOMAIN owner
          BY <5>2, LanesCount DEF LockTypeOK
        <5>4. Cardinality(Holders) < Lanes
          BY <4>1, <5>3, RoomInside
        <5>5. Semaphore!Cardinality(Holders) = Cardinality(Holders)
          BY DEF Semaphore!Cardinality, Cardinality
        <5> QED BY <3>2, <5>1, <5>4, <5>5 DEF Semaphore!Next, Semaphore!Enter
      <4>2. CASE spot' = spot \/ (spot[g] = "scan" /\ spot' = [spot EXCEPT ![g] = "asleep"])
        <5>1. Holders' = Holders
          BY <3>3, <4>2 DEF Holders
        <5> QED BY <3>2, <5>1
      <4> QED BY <3>5, <4>1, <4>2 DEF Try
    <3>6. CASE Close(g) \/ Drop(g)
      <4>1. Holders' = Holders \ {g}
        BY <3>3, <3>6 DEF Close, Drop, Holders
      <4>2. CASE g \in Holders
        BY <3>2, <4>1, <4>2 DEF Semaphore!Next, Semaphore!Leave
      <4>3. CASE g \notin Holders
        <5>1. Holders' = Holders BY <4>1, <4>3
        <5> QED BY <3>2, <5>1
      <4> QED BY <4>2, <4>3
    <3> QED BY <3>1, <3>4, <3>5, <3>6 DEF LockStep
  <2> QED BY <2>1, <2>2, StepsOfLock DEF vars
<1> QED BY <1>1, <1>2, GradeLockInv, PTL DEF Spec, LockIsSemaphore, Semaphore!Spec

-----------------------------------------------------------------------------
(* Types.                                                                  *)

Spots == {"new", "check", "clone", "plan", "clean", "build", "freeze", "up", "fork",
          "read", "expired", "record", "teardown", "over", "killed"}

\* What a step does to the counters: it counts an attempt or a kill below its
\* bound, starts over, or leaves them.
LEMMA StepCounts ==
    ASSUME Next
    PROVE  /\ \/ attempt' = attempt
              \/ \E g \in Grades : \/ attempt' = [attempt EXCEPT ![g] = 0]
                                   \/ attempt' = [attempt EXCEPT ![g] = 1]
                                   \/ attempt[g] < Attempts /\ attempt' = [attempt EXCEPT ![g] = attempt[g] + 1]
           /\ kills' = kills \/ (kills < Kills /\ kills' = kills + 1)
<1>1. PICK g \in Grades : Deploy(g) \/ Parent(g) \/ Worker(g) \/ Outside(g)
  BY DEF Next
<1>2. CASE Deploy(g)
  <2>1. CASE DeployFails(g)
    BY <2>1 DEF DeployFails
  <2>2. CASE ~DeployFails(g)
    BY <1>2, <2>2 DEF Deploy, CheckUrl, Clone, Plan, Clean, Build, BuildRaises, Freeze, Deployed
  <2> QED BY <2>1, <2>2
<1>3. CASE Parent(g)
  BY <1>3 DEF Parent, Fork, Settle, Expire, HardKill, RecordRow, Teardown, Forget
<1>4. CASE Worker(g)
  BY <1>4 DEF Worker, Discover, ToTrace, NoTrace, Look, EndTrace, Answer, Raise, Vanish
<1>5. CASE Outside(g)
  BY <1>5 DEF Outside, Start, Interrupt, KilledByDriver, Forget
<1> QED BY <1>1, <1>2, <1>3, <1>4, <1>5

\* The part of TypeOK with numbers in it.
CountsOK == attempt \in [Grades -> 0 .. Attempts] /\ kills \in 0 .. Kills

\* The counters stay within their bounds.
LEMMA CountsStep ==
    ASSUME CountsOK, [Next]_vars
    PROVE  CountsOK'
<1> USE ChildAssumption DEF ChildAssumption, CountsOK
<1>1. CASE UNCHANGED vars
  BY <1>1 DEF vars
<1>2. CASE Next
  <2>1. kills' \in 0 .. Kills
    BY <1>2, StepCounts
  <2>2. attempt' \in [Grades -> 0 .. Attempts]
    <3>1. CASE attempt' = attempt
      BY <3>1
    <3>2. ASSUME NEW g \in Grades, attempt' = [attempt EXCEPT ![g] = 0] \/ attempt' = [attempt EXCEPT ![g] = 1]
          PROVE  attempt' \in [Grades -> 0 .. Attempts]
      BY <3>2
    <3>3. ASSUME NEW g \in Grades, attempt[g] < Attempts, attempt' = [attempt EXCEPT ![g] = attempt[g] + 1]
          PROVE  attempt' \in [Grades -> 0 .. Attempts]
      <4>1. attempt[g] + 1 \in 0 .. Attempts BY <3>3
      <4> QED BY <3>3, <4>1
    <3> QED BY <1>2, <3>1, <3>2, <3>3, StepCounts
  <2> QED BY <2>1, <2>2
<1> QED BY <1>1, <1>2

\* The rest of TypeOK.
PartsOK == /\ kind \in Kinds
           /\ main \in [Grades -> Spots]
           /\ plan \in [Grades -> Plans \cup {NoPlan}]
           /\ frozen \in [Grades -> [plan : Plans \cup {NoPlan}, surf : Plans \cup {NoPlan}]]
           /\ rec \in [Grades -> Record]
           /\ up \in Grades \cup {NoApp}
           /\ planFile \in Plans \cup {NoPlan, Torn}
           /\ surfFile \in Plans \cup {NoPlan, Torn}
           /\ worked \subseteq Plans
           /\ worker \in [Grades -> {"none", "discover", "gates", "trace", "probes", "gone"}]
           /\ answer \in [Grades -> {"", "ok", "err"}]
           /\ rows \subseteq Grades \X {"", "clone", "build", "grade"}
           /\ \A g \in Grades : main[g] \in {"clean", "build", "freeze"} => plan[g] \in Plans

\* What main() writes into a row leaves a row.
LEMMA RowTyping ==
    ASSUME NEW r \in Record
    PROVE  /\ Blank \in Record
           /\ [r EXCEPT !.skipped = TRUE] \in Record
           /\ [r EXCEPT !.chal = TRUE, !.error = "waf"] \in Record
           /\ [r EXCEPT !.dead = TRUE, !.error = "dead"] \in Record
           /\ [r EXCEPT !.deployed = TRUE] \in Record
           /\ [r EXCEPT !.deployed = TRUE, !.error = "", !.timeout = ""] \in Record
           /\ [r EXCEPT !.graded = TRUE] \in Record
           /\ [r EXCEPT !.error = "grade"] \in Record
           /\ [r EXCEPT !.deployed = FALSE, !.dead = TRUE, !.error = "dead"] \in Record
           /\ [r EXCEPT !.timeout = "grade", !.error = "grade"] \in Record
           /\ \A t \in {"", "clone"} : [r EXCEPT !.error = "clone", !.timeout = t] \in Record
           /\ \A why \in {"build", "health"}, slow \in BOOLEAN :
                  [r EXCEPT !.error = why, !.timeout = IF slow THEN "build" ELSE r.timeout] \in Record
<1>1. Blank \in Record
  BY DEF Blank, Record
<1>2. /\ [r EXCEPT !.skipped = TRUE] \in Record
      /\ [r EXCEPT !.chal = TRUE, !.error = "waf"] \in Record
      /\ [r EXCEPT !.dead = TRUE, !.error = "dead"] \in Record
      /\ [r EXCEPT !.deployed = TRUE] \in Record
      /\ [r EXCEPT !.deployed = TRUE, !.error = "", !.timeout = ""] \in Record
      /\ [r EXCEPT !.graded = TRUE] \in Record
      /\ [r EXCEPT !.error = "grade"] \in Record
      /\ [r EXCEPT !.deployed = FALSE, !.dead = TRUE, !.error = "dead"] \in Record
      /\ [r EXCEPT !.timeout = "grade", !.error = "grade"] \in Record
  BY DEF Record
<1>3. \A t \in {"", "clone"} : [r EXCEPT !.error = "clone", !.timeout = t] \in Record
  BY DEF Record
<1>4. \A why \in {"build", "health"}, slow \in BOOLEAN :
          [r EXCEPT !.error = why, !.timeout = IF slow THEN "build" ELSE r.timeout] \in Record
  BY DEF Record
<1> QED BY <1>1, <1>2, <1>3, <1>4

\* The rows under construction stay rows.
LEMMA RecStep ==
    ASSUME rec \in [Grades -> Record], Next
    PROVE  rec' \in [Grades -> Record]
<1>1. PICK g \in Grades : Deploy(g) \/ Parent(g) \/ Worker(g) \/ Outside(g)
  BY DEF Next
<1>2. rec[g] \in Record
  BY <1>1
<1>3. \A r \in Record : [rec EXCEPT ![g] = r] \in [Grades -> Record]
  BY <1>1
<1>4. CASE Deploy(g)
  <2>1. CheckUrl(g) => rec' \in [Grades -> Record] BY <1>2, <1>3, RowTyping DEF CheckUrl
  <2>2. Clone(g) => rec' \in [Grades -> Record] BY <1>2, <1>3, RowTyping DEF Clone
  <2>3. Plan(g) => rec' \in [Grades -> Record]
    <3>1. [rec EXCEPT ![g] = [rec[g] EXCEPT !.skipped = TRUE]] \in [Grades -> Record]
      BY <1>2, <1>3, RowTyping
    <3> QED BY <3>1 DEF Plan
  <2>4. Clean(g) \/ Build(g) \/ BuildRaises(g) \/ Freeze(g) => rec' \in [Grades -> Record]
    BY DEF Clean, Build, BuildRaises, Freeze
  <2>5. DeployFails(g) => rec' \in [Grades -> Record]
    <3> SUFFICES ASSUME DeployFails(g) PROVE rec' \in [Grades -> Record] OBVIOUS
    <3>1. PICK why \in {"build", "health"}, slow \in BOOLEAN :
              rec' = [rec EXCEPT ![g] = [rec[g] EXCEPT !.error = why, !.timeout = IF slow THEN "build" ELSE rec[g].timeout]]
      BY DEF DeployFails
    <3>2. [rec[g] EXCEPT !.error = why, !.timeout = IF slow THEN "build" ELSE rec[g].timeout] \in Record
      BY <1>2, RowTyping
    <3> QED BY <1>3, <3>1, <3>2
  <2>6. Deployed(g) => rec' \in [Grades -> Record] BY <1>2, <1>3, RowTyping DEF Deployed
  <2> QED BY <1>4, <2>1, <2>2, <2>3, <2>4, <2>5, <2>6, Zenon DEF Deploy
<1>5. CASE Parent(g)
  <2>1. Fork(g) \/ Expire(g) \/ RecordRow(g) => rec' \in [Grades -> Record] BY DEF Fork, Expire, RecordRow
  <2>2. Settle(g) => rec' \in [Grades -> Record]
    <3>1. /\ [rec[g] EXCEPT !.graded = TRUE] \in Record
          /\ [rec[g] EXCEPT !.error = "grade"] \in Record
          /\ [rec[g] EXCEPT !.deployed = FALSE, !.dead = TRUE, !.error = "dead"] \in Record
      BY <1>2, RowTyping
    <3> QED BY <1>3, <3>1, Zenon DEF Settle
  <2>3. HardKill(g) => rec' \in [Grades -> Record] BY <1>2, <1>3, RowTyping DEF HardKill
  <2>4. Teardown(g) => rec' \in [Grades -> Record] BY <1>2, <1>3, RowTyping DEF Teardown, Forget
  <2> QED BY <1>5, <2>1, <2>2, <2>3, <2>4, Zenon DEF Parent
<1>6. CASE Worker(g)
  BY <1>6 DEF Worker, Discover, ToTrace, NoTrace, Look, EndTrace, Answer, Raise, Vanish
<1>7. CASE Outside(g)
  <2>1. Start(g) \/ Interrupt(g) => rec' \in [Grades -> Record] BY DEF Start, Interrupt
  <2>2. KilledByDriver(g) => rec' \in [Grades -> Record] BY <1>2, <1>3, RowTyping DEF KilledByDriver, Forget
  <2> QED BY <1>7, <2>1, <2>2, Zenon DEF Outside
<1> QED BY <1>1, <1>4, <1>5, <1>6, <1>7

\* Everything but the counters and the lock keeps its type, and what is built
\* was planned.
LEMMA PartsStep ==
    ASSUME PartsOK, [Next]_vars
    PROVE  PartsOK'
<1>0. rec' \in [Grades -> Record]
  BY RecStep DEF PartsOK, vars
<1> USE DEF PartsOK, Spots
<1>1. ASSUME NEW g \in Grades, Deploy(g) PROVE PartsOK'
  <2>1. CASE CheckUrl(g) BY <1>0, <2>1 DEF CheckUrl
  <2>2. CASE Clone(g)
    <3> DEFINE f == [plan |-> Loaded(planFile), surf |-> Loaded(surfFile)]
    <3>1. Loaded(planFile) \in Plans \cup {NoPlan} /\ Loaded(surfFile) \in Plans \cup {NoPlan}
      BY DEF Loaded
    <3>2. f \in [plan : Plans \cup {NoPlan}, surf : Plans \cup {NoPlan}]
      BY <3>1
    <3>3. frozen' = frozen \/ frozen' = [frozen EXCEPT ![g] = f]
      BY <2>2 DEF Clone
    <3> HIDE DEF f
    <3>4. frozen' \in [Grades -> [plan : Plans \cup {NoPlan}, surf : Plans \cup {NoPlan}]]
      BY <3>2, <3>3
    <3> QED BY <1>0, <2>2, <3>4 DEF Clone
  <2>3. CASE Plan(g)
    <3>1. main[g] = "plan" /\ \/ main' = [main EXCEPT ![g] = "record"] /\ plan' = plan
                              \/ main' = [main EXCEPT ![g] = "clean"]
                                 /\ \E p \in Plans : plan' = [plan EXCEPT ![g] = p]
      <4>1. frozen[g].plan \in Plans \cup {NoPlan} OBVIOUS
      <4> QED BY <2>3, <4>1 DEF Plan
    <3>2. UNCHANGED <<kind, frozen, up, disk, worker, answer, rows>>
      BY <2>3 DEF Plan
    <3>3. main' \in [Grades -> Spots] /\ plan' \in [Grades -> Plans \cup {NoPlan}]
      BY <3>1
    <3>4. \A h \in Grades : main'[h] \in {"clean", "build", "freeze"} => plan'[h] \in Plans
      BY <3>1
    <3> QED BY <1>0, <3>2, <3>3, <3>4
  <2>4. CASE Clean(g) BY <1>0, <2>4 DEF Clean
  <2>5. CASE Build(g) BY <1>0, <2>5 DEF Build
  <2>6. CASE DeployFails(g)
    <3>1. /\ main' = [main EXCEPT ![g] = "plan"] \/ main' = [main EXCEPT ![g] = "record"]
          /\ up' = NoApp
          /\ UNCHANGED <<kind, plan, frozen, disk, worker, answer, rows>>
      BY <2>6 DEF DeployFails
    <3> QED BY <1>0, <3>1
  <2>7. CASE BuildRaises(g) BY <1>0, <2>7 DEF BuildRaises
  <2>8. CASE Freeze(g) BY <1>0, <2>8 DEF Freeze
  <2>9. CASE Deployed(g) BY <1>0, <2>9 DEF Deployed
  <2> QED BY <1>1, <2>1, <2>2, <2>3, <2>4, <2>5, <2>6, <2>7, <2>8, <2>9 DEF Deploy
<1>2. ASSUME NEW g \in Grades, Parent(g) PROVE PartsOK'
  <2>1. CASE Fork(g) BY <1>0, <2>1 DEF Fork
  <2>2. CASE Settle(g) BY <1>0, <2>2 DEF Settle
  <2>3. CASE Expire(g) BY <1>0, <2>3 DEF Expire
  <2>4. CASE HardKill(g) BY <1>0, <2>4 DEF HardKill, CutShort
  <2>5. CASE RecordRow(g)
    <3>1. <<g, rec[g].timeout>> \in Grades \X {"", "clone", "build", "grade"}
      <4>1. rec[g] \in Record OBVIOUS
      <4> QED BY <4>1 DEF Record
    <3> QED BY <1>0, <2>5, <3>1 DEF RecordRow
  <2>6. CASE Teardown(g) BY <1>0, <2>6 DEF Teardown, Forget
  <2> QED BY <1>2, <2>1, <2>2, <2>3, <2>4, <2>5, <2>6 DEF Parent
<1>3. ASSUME NEW g \in Grades, Worker(g) PROVE PartsOK'
  <2>1. CASE Discover(g)
    <3>1. surfFile' \in Plans \cup {NoPlan, Torn}
      BY <2>1 DEF Discover
    <3> QED BY <1>0, <2>1, <3>1 DEF Discover
  <2>2. CASE ToTrace(g) \/ NoTrace(g) \/ Look(g) \/ EndTrace(g)
    BY <1>0, <2>2 DEF ToTrace, NoTrace, Look, EndTrace
  <2>3. CASE Answer(g) BY <1>0, <2>3 DEF Answer, Deliver
  <2>4. CASE Raise(g) BY <1>0, <2>4 DEF Raise
  <2>5. CASE Vanish(g) BY <1>0, <2>5 DEF Vanish, CutShort
  <2> QED BY <1>3, <2>1, <2>2, <2>3, <2>4, <2>5 DEF Worker
<1>4. ASSUME NEW g \in Grades, Outside(g) PROVE PartsOK'
  <2>1. CASE Start(g) BY <1>0, <2>1 DEF Start
  <2>2. CASE Interrupt(g) BY <1>0, <2>2 DEF Interrupt, CutShort
  <2>3. CASE KilledByDriver(g) BY <1>0, <2>3 DEF KilledByDriver, Forget
  <2> QED BY <1>4, <2>1, <2>2, <2>3 DEF Outside
<1>5. CASE UNCHANGED vars BY <1>0, <1>5 DEF vars
<1> QED BY <1>1, <1>2, <1>3, <1>4, <1>5 DEF Next

\* A host starts with well-typed grades.
LEMMA PartsInit ==
    ASSUME Init
    PROVE  PartsOK
<1>1. Blank \in Record
  BY DEF Blank, Record
<1> QED BY <1>1 DEF Init, PartsOK, Spots

\* Every variable of the grades of a host keeps its type.
THEOREM ChildTyping == Spec => []TypeOK
<1>1. Init => CountsOK /\ PartsOK
  <2> SUFFICES ASSUME Init PROVE CountsOK /\ PartsOK OBVIOUS
  <2>1. CountsOK
    <3>1. attempt = [g \in Grades |-> 0] /\ kills = 0 BY DEF Init
    <3> QED BY <3>1, ChildAssumption DEF CountsOK, ChildAssumption
  <2> QED BY <2>1, PartsInit
<1>2. (CountsOK /\ PartsOK) /\ [Next]_vars => (CountsOK /\ PartsOK)'
  BY CountsStep, PartsStep
<1>3. LockTypeOK /\ CountsOK /\ PartsOK => TypeOK
  BY DEF CountsOK, PartsOK, TypeOK, Spots
<1> QED BY <1>1, <1>2, <1>3, GradeLockInv, PTL DEF Spec

-----------------------------------------------------------------------------
(* Rows.                                                                   *)

\* A step is one grade's: the others keep their place, row and worker.
LEMMA OthersKeep ==
    ASSUME TypeOK, NEW g \in Grades, Deploy(g) \/ Parent(g) \/ Worker(g) \/ Outside(g),
           NEW h \in Grades, h # g
    PROVE  /\ main'[h] = main[h] /\ rec'[h] = rec[h] /\ worker'[h] = worker[h]
           /\ plan'[h] = plan[h] /\ frozen'[h] = frozen[h]
           /\ RowsOf(h)' = RowsOf(h)
<1>1. /\ main \in [Grades -> Spots] /\ rec \in [Grades -> Record]
      /\ worker \in [Grades -> {"none", "discover", "gates", "trace", "probes", "gone"}]
      /\ plan \in [Grades -> Plans \cup {NoPlan}]
      /\ frozen \in [Grades -> [plan : Plans \cup {NoPlan}, surf : Plans \cup {NoPlan}]]
  BY DEF TypeOK, Spots
<1>2. main'[h] = main[h]
  <2>1. main' = main \/ \E m : main' = [main EXCEPT ![g] = m]
    BY DEF Deploy, CheckUrl, Clone, Plan, Clean, Build, DeployFails, BuildRaises, Freeze, Deployed,
           Parent, Fork, Settle, Expire, HardKill, RecordRow, Teardown,
           Worker, Discover, ToTrace, NoTrace, Look, EndTrace, Answer, Raise, Vanish,
           Outside, Start, Interrupt, KilledByDriver
  <2> QED BY <1>1, <2>1
<1>3. rec'[h] = rec[h]
  <2>1. rec' = rec \/ \E r : rec' = [rec EXCEPT ![g] = r]
    BY DEF Deploy, CheckUrl, Clone, Plan, Clean, Build, DeployFails, BuildRaises, Freeze, Deployed,
           Parent, Fork, Settle, Expire, HardKill, RecordRow, Teardown, Forget,
           Worker, Discover, ToTrace, NoTrace, Look, EndTrace, Answer, Raise, Vanish,
           Outside, Start, Interrupt, KilledByDriver
  <2> QED BY <1>1, <2>1
<1>4. worker'[h] = worker[h]
  <2>1. worker' = worker \/ \E w : worker' = [worker EXCEPT ![g] = w]
    BY DEF Deploy, CheckUrl, Clone, Plan, Clean, Build, DeployFails, BuildRaises, Freeze, Deployed,
           Parent, Fork, Settle, Expire, HardKill, RecordRow, Teardown,
           Worker, Discover, ToTrace, NoTrace, Look, EndTrace, Answer, Raise, Vanish,
           Outside, Start, Interrupt, KilledByDriver
  <2> QED BY <1>1, <2>1
<1>5. plan'[h] = plan[h]
  <2>1. plan' = plan \/ \E p : plan' = [plan EXCEPT ![g] = p]
    BY DEF Deploy, CheckUrl, Clone, Plan, Clean, Build, DeployFails, BuildRaises, Freeze, Deployed,
           Parent, Fork, Settle, Expire, HardKill, RecordRow, Teardown, Forget,
           Worker, Discover, ToTrace, NoTrace, Look, EndTrace, Answer, Raise, Vanish,
           Outside, Start, Interrupt, KilledByDriver
  <2> QED BY <1>1, <2>1
<1>6. frozen'[h] = frozen[h]
  <2>1. frozen' = frozen \/ \E f : frozen' = [frozen EXCEPT ![g] = f]
    BY DEF Deploy, CheckUrl, Clone, Plan, Clean, Build, DeployFails, BuildRaises, Freeze, Deployed,
           Parent, Fork, Settle, Expire, HardKill, RecordRow, Teardown, Forget,
           Worker, Discover, ToTrace, NoTrace, Look, EndTrace, Answer, Raise, Vanish,
           Outside, Start, Interrupt, KilledByDriver
  <2> QED BY <1>1, <2>1
<1>7. RowsOf(h)' = RowsOf(h)
  <2>1. rows' = rows \/ \E t : rows' = rows \cup {<<g, t>>}
    BY DEF Deploy, CheckUrl, Clone, Plan, Clean, Build, DeployFails, BuildRaises, Freeze, Deployed,
           Parent, Fork, Settle, Expire, HardKill, RecordRow, Teardown,
           Worker, Discover, ToTrace, NoTrace, Look, EndTrace, Answer, Raise, Vanish,
           Outside, Start, Interrupt, KilledByDriver
  <2> QED BY <2>1 DEF RowsOf
<1> QED BY <1>2, <1>3, <1>4, <1>5, <1>6, <1>7

\* What main() writes tells one story, and only a killed worker ran out of time.
LEMMA RowStories ==
    ASSUME NEW r \in Record
    PROVE  /\ r = Blank => /\ Unreached(r) /\ Coherent([r EXCEPT !.skipped = TRUE])
                           /\ Coherent([r EXCEPT !.chal = TRUE, !.error = "waf"])
                           /\ Coherent([r EXCEPT !.dead = TRUE, !.error = "dead"])
                           /\ Reached([r EXCEPT !.deployed = TRUE])
           /\ Unreached(r) => /\ Coherent(r) /\ Coherent([r EXCEPT !.skipped = TRUE])
                              /\ Reached([r EXCEPT !.deployed = TRUE, !.error = "", !.timeout = ""])
           /\ Unreached(r) => \A t \in {"", "clone"} : Unreached([r EXCEPT !.error = "clone", !.timeout = t])
           /\ Unreached(r) => \A why \in {"build", "health"}, slow \in BOOLEAN :
                  Unreached([r EXCEPT !.error = why, !.timeout = IF slow THEN "build" ELSE r.timeout])
           /\ Reached(r) => /\ Coherent(r) /\ Coherent([r EXCEPT !.graded = TRUE])
                            /\ Coherent([r EXCEPT !.error = "grade"])
                            /\ Coherent([r EXCEPT !.deployed = FALSE, !.dead = TRUE, !.error = "dead"])
                            /\ Coherent([r EXCEPT !.timeout = "grade", !.error = "grade"])
<1> USE DEF Record, Reached, Unreached, Coherent
<1>1. r = Blank => /\ Unreached(r) /\ Coherent([r EXCEPT !.skipped = TRUE])
                   /\ Coherent([r EXCEPT !.chal = TRUE, !.error = "waf"])
                   /\ Coherent([r EXCEPT !.dead = TRUE, !.error = "dead"])
                   /\ Reached([r EXCEPT !.deployed = TRUE])
  <2> HIDE DEF Record, Reached, Unreached, Coherent
  <2>0. /\ ~Blank.deployed /\ ~Blank.graded /\ ~Blank.skipped /\ ~Blank.chal /\ ~Blank.dead
        /\ Blank.error = "" /\ Blank.timeout = ""
    BY DEF Blank
  <2>1. r = Blank => /\ ~r.deployed /\ ~r.graded /\ ~r.skipped /\ ~r.chal /\ ~r.dead
                     /\ r.error = "" /\ r.timeout = ""
    BY <2>0, Zenon
  <2> USE DEF Record, Reached, Unreached, Coherent
  <2>2. r = Blank => Unreached(r) /\ Coherent([r EXCEPT !.skipped = TRUE])
    BY <2>1
  <2>4. r = Blank => Coherent([r EXCEPT !.chal = TRUE, !.error = "waf"])
    BY <2>1
  <2>5. r = Blank => Coherent([r EXCEPT !.dead = TRUE, !.error = "dead"])
    BY <2>1
  <2>3. r = Blank => Reached([r EXCEPT !.deployed = TRUE])
    BY <2>1
  <2> QED BY <2>2, <2>3, <2>4, <2>5, Zenon
<1>2. Unreached(r) => /\ Coherent(r) /\ Coherent([r EXCEPT !.skipped = TRUE])
                      /\ Reached([r EXCEPT !.deployed = TRUE, !.error = "", !.timeout = ""])
  OBVIOUS
<1>3. Unreached(r) => \A t \in {"", "clone"} : Unreached([r EXCEPT !.error = "clone", !.timeout = t])
  OBVIOUS
<1>4. Unreached(r) => \A why \in {"build", "health"}, slow \in BOOLEAN :
          Unreached([r EXCEPT !.error = why, !.timeout = IF slow THEN "build" ELSE r.timeout])
  OBVIOUS
<1>5. Reached(r) => /\ Coherent(r) /\ Coherent([r EXCEPT !.graded = TRUE])
                    /\ Coherent([r EXCEPT !.error = "grade"])
                    /\ Coherent([r EXCEPT !.deployed = FALSE, !.dead = TRUE, !.error = "dead"])
                    /\ Coherent([r EXCEPT !.timeout = "grade", !.error = "grade"])
  OBVIOUS
<1> HIDE DEF Record, Reached, Unreached, Coherent
<1> QED BY <1>1, <1>2, <1>3, <1>4, <1>5

\* A row with another field set says nothing about the time of the grade.
LEMMA RowTimes ==
    ASSUME NEW r \in Record, r.timeout # "grade"
    PROVE  /\ Blank.timeout # "grade"
           /\ [r EXCEPT !.skipped = TRUE].timeout # "grade"
           /\ [r EXCEPT !.chal = TRUE, !.error = "waf"].timeout # "grade"
           /\ [r EXCEPT !.dead = TRUE, !.error = "dead"].timeout # "grade"
           /\ [r EXCEPT !.deployed = TRUE].timeout # "grade"
           /\ [r EXCEPT !.deployed = TRUE, !.error = "", !.timeout = ""].timeout # "grade"
           /\ [r EXCEPT !.graded = TRUE].timeout # "grade"
           /\ [r EXCEPT !.error = "grade"].timeout # "grade"
           /\ [r EXCEPT !.deployed = FALSE, !.dead = TRUE, !.error = "dead"].timeout # "grade"
           /\ \A t \in {"", "clone"} : [r EXCEPT !.error = "clone", !.timeout = t].timeout # "grade"
           /\ \A why \in {"build", "health"}, slow \in BOOLEAN :
                  [r EXCEPT !.error = why, !.timeout = IF slow THEN "build" ELSE r.timeout].timeout # "grade"
<1>1. /\ Blank.timeout # "grade"
      /\ [r EXCEPT !.skipped = TRUE].timeout # "grade"
      /\ [r EXCEPT !.chal = TRUE, !.error = "waf"].timeout # "grade"
      /\ [r EXCEPT !.dead = TRUE, !.error = "dead"].timeout # "grade"
      /\ [r EXCEPT !.deployed = TRUE].timeout # "grade"
      /\ [r EXCEPT !.deployed = TRUE, !.error = "", !.timeout = ""].timeout # "grade"
      /\ [r EXCEPT !.graded = TRUE].timeout # "grade"
      /\ [r EXCEPT !.error = "grade"].timeout # "grade"
      /\ [r EXCEPT !.deployed = FALSE, !.dead = TRUE, !.error = "dead"].timeout # "grade"
  BY DEF Blank, Record
<1>2. \A t \in {"", "clone"} : [r EXCEPT !.error = "clone", !.timeout = t].timeout # "grade"
  BY DEF Record
<1>3. \A why \in {"build", "health"}, slow \in BOOLEAN :
          [r EXCEPT !.error = why, !.timeout = IF slow THEN "build" ELSE r.timeout].timeout # "grade"
  BY DEF Record
<1> QED BY <1>1, <1>2, <1>3

\* A step leaves the row of its grade fit for the place it goes to.
LEMMA OwnFits ==
    ASSUME TypeOK, RecInv, NEW g \in Grades, Deploy(g) \/ Parent(g) \/ Worker(g) \/ Outside(g)
    PROVE  Fits(main'[g], rec'[g])
<1>1. main \in [Grades -> Spots] /\ rec \in [Grades -> Record] /\ rec[g] \in Record
  BY DEF TypeOK, Spots
<1>2. Fits(main[g], rec[g])
  BY DEF RecInv
<1> USE <1>1, <1>2 DEF Fits
<1>3. CASE Deploy(g)
  <2>1. CheckUrl(g) => Fits(main'[g], rec'[g])
    <3> SUFFICES ASSUME CheckUrl(g) PROVE Fits(main'[g], rec'[g]) OBVIOUS
    <3>1. rec[g] = Blank BY DEF CheckUrl
    <3>2. \/ main'[g] = "record" /\ rec'[g] = [rec[g] EXCEPT !.skipped = TRUE]
          \/ main'[g] = "record" /\ rec'[g] = [rec[g] EXCEPT !.chal = TRUE, !.error = "waf"]
          \/ main'[g] = "record" /\ rec'[g] = [rec[g] EXCEPT !.dead = TRUE, !.error = "dead"]
          \/ main'[g] = "fork" /\ rec'[g] = [rec[g] EXCEPT !.deployed = TRUE]
      BY DEF CheckUrl
    <3> QED BY <3>1, <3>2, RowStories, Zenon
  <2>2. Clone(g) => Fits(main'[g], rec'[g])
    <3> SUFFICES ASSUME Clone(g) PROVE Fits(main'[g], rec'[g]) OBVIOUS
    <3>1. rec[g] = Blank BY DEF Clone
    <3>2. \/ main'[g] = "plan" /\ rec'[g] = rec[g]
          \/ /\ main'[g] = "record"
             /\ \E t \in {"", "clone"} : rec'[g] = [rec[g] EXCEPT !.error = "clone", !.timeout = t]
      BY DEF Clone
    <3>3. main'[g] = "record" => Unreached(rec'[g])
      BY <3>1, <3>2, RowStories
    <3>4. rec'[g] \in Record
      BY <3>2, RowTyping
    <3> QED BY <3>1, <3>2, <3>3, <3>4, RowStories, Zenon
  <2>3. Plan(g) => Fits(main'[g], rec'[g])
    <3> SUFFICES ASSUME Plan(g) PROVE Fits(main'[g], rec'[g]) OBVIOUS
    <3>1. Unreached(rec[g]) BY DEF Plan
    <3>2. \/ main'[g] = "clean" /\ rec'[g] = rec[g]
          \/ main'[g] = "record" /\ rec'[g] = rec[g]
          \/ main'[g] = "record" /\ rec'[g] = [rec[g] EXCEPT !.skipped = TRUE]
      BY DEF Plan
    <3> QED BY <3>1, <3>2, RowStories, Zenon
  <2>4. Clean(g) \/ Build(g) \/ BuildRaises(g) \/ Freeze(g) => Fits(main'[g], rec'[g])
    BY RowStories DEF Clean, Build, BuildRaises, Freeze
  <2>5. DeployFails(g) => Fits(main'[g], rec'[g])
    <3> SUFFICES ASSUME DeployFails(g) PROVE Fits(main'[g], rec'[g]) OBVIOUS
    <3>1. PICK why \in {"build", "health"}, slow \in BOOLEAN :
              rec' = [rec EXCEPT ![g] = [rec[g] EXCEPT !.error = why, !.timeout = IF slow THEN "build" ELSE rec[g].timeout]]
      BY DEF DeployFails
    <3>2. main[g] = "build" /\ main'[g] \in {"plan", "record"}
      BY DEF DeployFails
    <3>3. rec'[g] = [rec[g] EXCEPT !.error = why, !.timeout = IF slow THEN "build" ELSE rec[g].timeout]
      BY <3>1
    <3>4. Unreached(rec[g])
      BY <3>2
    <3>5. Unreached(rec'[g])
      <4>1. Unreached([rec[g] EXCEPT !.error = why, !.timeout = IF slow THEN "build" ELSE rec[g].timeout])
        BY <3>4, RowStories
      <4> QED BY <3>3, <4>1
    <3>6. rec'[g] \in Record
      <4>1. [rec[g] EXCEPT !.error = why, !.timeout = IF slow THEN "build" ELSE rec[g].timeout] \in Record
        BY RowTyping
      <4> QED BY <3>3, <4>1
    <3> QED BY <3>2, <3>5, <3>6, RowStories
  <2>6. Deployed(g) => Fits(main'[g], rec'[g])
    <3> SUFFICES ASSUME Deployed(g) PROVE Fits(main'[g], rec'[g]) OBVIOUS
    <3>1. Unreached(rec[g]) BY DEF Deployed
    <3>2. main'[g] = "fork" /\ rec'[g] = [rec[g] EXCEPT !.deployed = TRUE, !.error = "", !.timeout = ""]
      BY DEF Deployed
    <3> QED BY <3>1, <3>2, RowStories, Zenon
  <2> QED BY <1>3, <2>1, <2>2, <2>3, <2>4, <2>5, <2>6, Zenon DEF Deploy
<1>4. CASE Parent(g)
  <2>1. Fork(g) \/ Expire(g) \/ RecordRow(g) => Fits(main'[g], rec'[g]) BY DEF Fork, Expire, RecordRow
  <2>2. Settle(g) \/ HardKill(g) => Fits(main'[g], rec'[g])
    <3> SUFFICES ASSUME Settle(g) \/ HardKill(g) PROVE Fits(main'[g], rec'[g]) OBVIOUS
    <3>1. Reached(rec[g]) BY DEF Settle, HardKill
    <3>2. /\ main'[g] = "record"
          /\ \/ rec'[g] = [rec[g] EXCEPT !.graded = TRUE]
             \/ rec'[g] = [rec[g] EXCEPT !.error = "grade"]
             \/ rec'[g] = [rec[g] EXCEPT !.deployed = FALSE, !.dead = TRUE, !.error = "dead"]
             \/ rec'[g] = [rec[g] EXCEPT !.timeout = "grade", !.error = "grade"]
      BY DEF Settle, HardKill
    <3> QED BY <3>1, <3>2, RowStories, Zenon
  <2>3. Teardown(g) => Fits(main'[g], rec'[g]) BY DEF Teardown, Forget
  <2> QED BY <1>4, <2>1, <2>2, <2>3, Zenon DEF Parent
<1>5. CASE Worker(g)
  BY <1>5 DEF Worker, Discover, ToTrace, NoTrace, Look, EndTrace, Answer, Raise, Vanish
<1>6. CASE Outside(g)
  <2>1. Start(g) => Fits(main'[g], rec'[g]) BY DEF Start
  <2>2. Interrupt(g) => Fits(main'[g], rec'[g])
    <3> SUFFICES ASSUME Interrupt(g) PROVE Fits(main'[g], rec'[g]) OBVIOUS
    <3>1. main'[g] = "record" /\ rec'[g] = rec[g] /\ main[g] \in {"clone", "plan", "build", "read"}
      BY DEF Interrupt
    <3> QED BY <3>1, RowStories
  <2>3. KilledByDriver(g) => Fits(main'[g], rec'[g]) BY DEF KilledByDriver, Forget
  <2> QED BY <1>6, <2>1, <2>2, <2>3, Zenon DEF Outside
<1> QED BY <1>3, <1>4, <1>5, <1>6

\* A step books what it owes: a row and no second one, and a worker that ran
\* out of time is gone when its row says so.
LEMMA OwnRecorded ==
    ASSUME TypeOK, RecInv, RowInv, NEW g \in Grades, Deploy(g) \/ Parent(g) \/ Worker(g) \/ Outside(g)
    PROVE  Recorded(g)'
<1>1. /\ main \in [Grades -> Spots] /\ rec \in [Grades -> Record] /\ rec[g] \in Record
      /\ worker \in [Grades -> {"none", "discover", "gates", "trace", "probes", "gone"}]
  BY DEF TypeOK, Spots
<1>2. Recorded(g) /\ Fits(main[g], rec[g])
  BY DEF RowInv, RecInv
<1>3. CASE RecordRow(g)
  <2>1. RowsOf(g) = {} /\ main'[g] = "teardown" /\ rows' = rows \cup {<<g, rec[g].timeout>>}
    BY <1>1, <1>2, <1>3 DEF RecordRow, Recorded
  <2>2. RowsOf(g)' = {<<g, rec[g].timeout>>}
    BY <2>1 DEF RowsOf
  <2>3. <<g, "grade">> \in rows' => rec[g].timeout = "grade"
    BY <2>1, <2>2 DEF RowsOf
  <2>4. rec' = rec /\ worker' = worker /\ main[g] = "record"
    BY <1>3 DEF RecordRow
  <2> QED BY <1>2, <2>1, <2>2, <2>3, <2>4 DEF Recorded
<1>4. CASE ~RecordRow(g)
  <2>1. rows' = rows
    BY <1>4 DEF Deploy, CheckUrl, Clone, Plan, Clean, Build, DeployFails, BuildRaises, Freeze, Deployed,
                Parent, Fork, Settle, Expire, HardKill, Teardown,
                Worker, Discover, ToTrace, NoTrace, Look, EndTrace, Answer, Raise, Vanish,
                Outside, Start, Interrupt, KilledByDriver
  <2>2. \/ main'[g] = main[g]
        \/ main'[g] = "killed"
        \/ main[g] = "teardown" /\ main'[g] = "over"
        \/ main[g] \notin {"teardown", "over", "killed"} /\ main'[g] \notin {"teardown", "over", "killed"}
    BY <1>1, <1>4 DEF Deploy, CheckUrl, Clone, Plan, Clean, Build, DeployFails, BuildRaises, Freeze, Deployed,
                Parent, Fork, Settle, Expire, HardKill, Teardown, Running,
                Worker, Discover, ToTrace, NoTrace, Look, EndTrace, Answer, Raise, Vanish,
                Outside, Start, Interrupt, KilledByDriver, Spots
  <2>3. worker[g] = "gone" /\ main[g] # "fork" => worker'[g] = "gone"
    BY <1>1, <1>4 DEF Deploy, CheckUrl, Clone, Plan, Clean, Build, DeployFails, BuildRaises, Freeze, Deployed,
                Parent, Fork, Settle, Expire, HardKill, Teardown, Alive,
                Worker, Discover, ToTrace, NoTrace, Look, EndTrace, Answer, Raise, Vanish,
                Outside, Start, Interrupt, KilledByDriver
  <2>4. \/ rec'[g].timeout # "grade"
        \/ rec'[g].timeout = rec[g].timeout /\ main'[g] = main[g]
        \/ main'[g] = "record" /\ worker'[g] = "gone"
    <3>1. CASE HardKill(g)
      BY <1>1, <3>1 DEF HardKill
    <3>2. CASE main'[g] = main[g] /\ rec' = rec
      BY <3>2
    <3>3. CASE ~HardKill(g) /\ ~(main'[g] = main[g] /\ rec' = rec) /\ main[g] \notin {"record", "teardown"}
      <4>1. rec[g].timeout # "grade"
        BY <1>2, <3>3 DEF Recorded
      <4>2. CASE DeployFails(g)
        <5>1. PICK why \in {"build", "health"}, slow \in BOOLEAN :
                rec' = [rec EXCEPT ![g] = [rec[g] EXCEPT !.error = why, !.timeout = IF slow THEN "build" ELSE rec[g].timeout]]
          BY <4>2 DEF DeployFails
        <5>2. rec'[g] = [rec[g] EXCEPT !.error = why, !.timeout = IF slow THEN "build" ELSE rec[g].timeout]
          BY <1>1, <5>1
        <5>3. [rec[g] EXCEPT !.error = why, !.timeout = IF slow THEN "build" ELSE rec[g].timeout].timeout # "grade"
          BY <1>1, <4>1, RowTimes
        <5> QED BY <5>2, <5>3
      <4>3. CASE Clone(g)
        <5>1. rec'[g] = rec[g] \/ \E t \in {"", "clone"} : rec'[g] = [rec[g] EXCEPT !.error = "clone", !.timeout = t]
          BY <1>1, <4>3 DEF Clone
        <5> QED BY <1>1, <4>1, <5>1, RowTimes, Zenon
      <4>4. CASE ~DeployFails(g) /\ ~Clone(g)
        <5>1. \/ rec'[g] = rec[g] \/ rec'[g] = Blank
              \/ rec'[g] = [rec[g] EXCEPT !.skipped = TRUE]
              \/ rec'[g] = [rec[g] EXCEPT !.chal = TRUE, !.error = "waf"]
              \/ rec'[g] = [rec[g] EXCEPT !.dead = TRUE, !.error = "dead"]
              \/ rec'[g] = [rec[g] EXCEPT !.deployed = TRUE]
              \/ rec'[g] = [rec[g] EXCEPT !.deployed = TRUE, !.error = "", !.timeout = ""]
              \/ rec'[g] = [rec[g] EXCEPT !.graded = TRUE]
              \/ rec'[g] = [rec[g] EXCEPT !.error = "grade"]
              \/ rec'[g] = [rec[g] EXCEPT !.deployed = FALSE, !.dead = TRUE, !.error = "dead"]
          BY <1>1, <1>4, <3>3, <4>4
          DEF Deploy, CheckUrl, Plan, Clean, Build, BuildRaises, Freeze, Deployed,
              Parent, Fork, Settle, Expire, Teardown, Forget,
              Worker, Discover, ToTrace, NoTrace, Look, EndTrace, Answer, Raise, Vanish,
              Outside, Start, Interrupt, KilledByDriver
        <5> QED BY <1>1, <4>1, <5>1, RowTimes, Zenon
      <4> QED BY <4>2, <4>3, <4>4
    <3>4. CASE main[g] \in {"record", "teardown"} /\ ~(main'[g] = main[g] /\ rec' = rec)
      <4>1. rec'[g] = Blank
        BY <1>1, <1>4, <3>4
        DEF Deploy, CheckUrl, Clone, Plan, Clean, Build, DeployFails, BuildRaises, Freeze, Deployed,
            Parent, Fork, Settle, Expire, HardKill, Teardown, Forget,
            Worker, Discover, ToTrace, NoTrace, Look, EndTrace, Answer, Raise, Vanish,
            Outside, Start, Interrupt, KilledByDriver
      <4>2. Blank.timeout # "grade"
        BY DEF Blank
      <4> QED BY <4>1, <4>2, Zenon
    <3> QED BY <3>1, <3>2, <3>3, <3>4
  <2>5. RowsOf(g)' = RowsOf(g)
    BY <2>1 DEF RowsOf
  <2>6. <<g, "grade">> \in rows => main[g] \in {"teardown", "over", "killed"}
    BY <1>2 DEF Recorded, RowsOf
  <2> QED BY <1>2, <2>1, <2>2, <2>3, <2>4, <2>5, <2>6 DEF Recorded
<1> QED BY <1>3, <1>4

\* The books of the other grades stay as they are.
LEMMA OthersRecorded ==
    ASSUME TypeOK, RowInv, NEW g \in Grades, Deploy(g) \/ Parent(g) \/ Worker(g) \/ Outside(g),
           NEW h \in Grades, h # g
    PROVE  Recorded(h)'
<1>1. /\ main'[h] = main[h] /\ rec'[h] = rec[h] /\ worker'[h] = worker[h]
      /\ RowsOf(h)' = RowsOf(h)
  BY OthersKeep
<1>2. <<h, "grade">> \in rows' => <<h, "grade">> \in rows
  BY <1>1 DEF RowsOf
<1>3. \A r : RowsOf(h) = {r} => r \in rows'
  BY <1>1 DEF RowsOf
<1>4. Recorded(h)
  BY DEF RowInv
<1> QED BY <1>1, <1>2, <1>3, <1>4 DEF Recorded

\* What the rows say, and what they are going to say, in every state.
LEMMA ChildRowInv == Spec => [](RecInv /\ RowInv)
<1>1. Init => RecInv /\ RowInv
  <2> SUFFICES ASSUME Init, NEW g \in Grades PROVE Fits(main[g], rec[g]) /\ Recorded(g)
    BY DEF RecInv, RowInv
  <2>1. main[g] = "new" /\ rec[g] = Blank /\ rows = {}
    BY DEF Init
  <2>2. Blank.timeout # "grade"
    BY DEF Blank
  <2> QED BY <2>1, <2>2 DEF Fits, Recorded, RowsOf
<1>2. TypeOK /\ (RecInv /\ RowInv) /\ [Next]_vars => (RecInv /\ RowInv)'
  <2> SUFFICES ASSUME TypeOK, RecInv, RowInv, [Next]_vars PROVE RecInv' /\ RowInv'
    OBVIOUS
  <2>1. CASE UNCHANGED vars
    BY <2>1 DEF vars, RecInv, RowInv, Recorded, RowsOf
  <2>2. CASE Next
    <3>1. PICK g \in Grades : Deploy(g) \/ Parent(g) \/ Worker(g) \/ Outside(g)
      BY <2>2 DEF Next
    <3>2. ASSUME NEW h \in Grades PROVE Fits(main'[h], rec'[h]) /\ Recorded(h)'
      <4>1. CASE h = g
        BY <3>1, <4>1, OwnFits, OwnRecorded
      <4>2. CASE h # g
        <5>1. Fits(main[h], rec[h]) BY DEF RecInv
        <5>2. Fits(main'[h], rec'[h])
          BY <3>1, <4>2, <5>1, OthersKeep
        <5> QED BY <3>1, <4>2, <5>2, OthersRecorded
      <4> QED BY <4>1, <4>2
    <3> QED BY <3>2 DEF RecInv, RowInv
  <2> QED BY <2>1, <2>2
<1> QED BY <1>1, <1>2, ChildTyping, PTL DEF Spec

\* A main() that was not killed leaves one row, which tells one story; a row
\* that says the grade ran out of time is of a worker that is gone: for any
\* batch, any lanes, and wherever a grade is killed, interrupted or hangs.
THEOREM ChildRowsAreTrue == Spec => []RowsAreTrue
<1>1. RecInv /\ RowInv => RowsAreWhole
  <2> SUFFICES ASSUME RecInv, RowInv, NEW g \in Grades
               PROVE  /\ main[g] = "over" => Cardinality(RowsOf(g)) = 1
                      /\ main[g] = "teardown" => Coherent(rec[g])
    BY DEF RowsAreWhole
  <2>1. main[g] = "over" => \E r \in rows : RowsOf(g) = {r}
    BY DEF RowInv, Recorded
  <2>2. \A r : Cardinality({r}) = 1
    BY FS_Singleton
  <2>3. main[g] = "teardown" => Coherent(rec[g])
    BY DEF RecInv, Fits
  <2> QED BY <2>1, <2>2, <2>3
<1>2. RowInv => TimeoutIsQuiet
  BY DEF RowInv, Recorded, TimeoutIsQuiet, Alive
<1>3. TypeOK /\ RecInv /\ RowInv => RowsAreTrue
  BY <1>1, <1>2, Zenon DEF RowsAreTrue
<1> QED BY <1>3, ChildTyping, ChildRowInv, PTL

-----------------------------------------------------------------------------
(* The frozen plan.                                                        *)

\* What a step does to the frozen plan, to the plans that worked, and to who is
\* running.
LEMMA StepsOfPlan ==
    ASSUME TypeOK, NEW g \in Grades, Deploy(g) \/ Parent(g) \/ Worker(g) \/ Outside(g)
    PROVE  /\ kind' = kind /\ worked \subseteq worked'
           /\ planFile' = planFile \/ Freeze(g) \/ (main[g] = "freeze" /\ planFile' = Torn)
           /\ Running(g)' => Running(g) \/ Start(g)
<1>1. kind' = kind
  BY DEF Deploy, CheckUrl, Clone, Plan, Clean, Build, DeployFails, BuildRaises, Freeze, Deployed,
         Parent, Fork, Settle, Expire, HardKill, RecordRow, Teardown,
         Worker, Discover, ToTrace, NoTrace, Look, EndTrace, Answer, Raise, Vanish,
         Outside, Start, Interrupt, KilledByDriver
<1>2. worked \subseteq worked'
  BY DEF Deploy, CheckUrl, Clone, Plan, Clean, Build, DeployFails, BuildRaises, Freeze, Deployed,
         Parent, Fork, Settle, Expire, HardKill, RecordRow, Teardown,
         Worker, Discover, ToTrace, NoTrace, Look, EndTrace, Answer, Raise, Vanish,
         Outside, Start, Interrupt, KilledByDriver
<1>3. planFile' = planFile \/ Freeze(g) \/ (main[g] = "freeze" /\ planFile' = Torn)
  BY DEF Deploy, CheckUrl, Clone, Plan, Clean, Build, DeployFails, BuildRaises, Deployed,
         Parent, Fork, Settle, Expire, HardKill, RecordRow, Teardown,
         Worker, Discover, ToTrace, NoTrace, Look, EndTrace, Answer, Raise, Vanish,
         Outside, Start, Interrupt, KilledByDriver
<1>4. main \in [Grades -> Spots]
  BY DEF TypeOK, Spots
<1>5. Running(g)' => Running(g) \/ Start(g)
  BY <1>4 DEF Deploy, CheckUrl, Clone, Plan, Clean, Build, DeployFails, BuildRaises, Freeze, Deployed,
         Parent, Fork, Settle, Expire, HardKill, RecordRow, Teardown, Running,
         Worker, Discover, ToTrace, NoTrace, Look, EndTrace, Answer, Raise, Vanish,
         Outside, Interrupt, KilledByDriver
<1> QED BY <1>1, <1>2, <1>3, <1>5

\* Each step of a grade leaves its planning sound.
LEMMA OwnPlanning ==
    ASSUME TypeOK, PartsOK, PlanInv, NEW g \in Grades, Deploy(g) \/ Parent(g) \/ Worker(g) \/ Outside(g)
    PROVE  Planning(g)'
<1>1. /\ main \in [Grades -> Spots] /\ plan \in [Grades -> Plans \cup {NoPlan}]
      /\ frozen \in [Grades -> [plan : Plans \cup {NoPlan}, surf : Plans \cup {NoPlan}]]
      /\ kind \in [Grades -> {"repo", "url"}]
  BY ChildAssumption DEF TypeOK, Spots, ChildAssumption
<1>2. Planning(g)
  BY DEF PlanInv
<1>3. Torn \notin Plans /\ NoPlan \notin Plans
  BY ChildAssumption DEF ChildAssumption
<1> USE <1>1, <1>2, <1>3 DEF Planning
<1>4. CASE Deploy(g)
  <2>1. CheckUrl(g) => Planning(g)' BY DEF CheckUrl
  <2>2. Clone(g) => Planning(g)'
    <3> SUFFICES ASSUME Clone(g) PROVE Planning(g)' OBVIOUS
    <3>1. main[g] = "clone" /\ kind' = kind /\ planFile' = planFile
      BY DEF Clone
    <3>2. \/ main'[g] = "record"
          \/ main'[g] = "plan" /\ frozen'[g].plan = Loaded(planFile)
      BY DEF Clone
    <3>3. planFile \in Plans => Loaded(planFile) # NoPlan
      BY DEF Loaded
    <3> QED BY <3>1, <3>2, <3>3
  <2>3. Plan(g) => Planning(g)' BY DEF Plan
  <2>4. Clean(g) \/ BuildRaises(g) => Planning(g)' BY DEF Clean, BuildRaises
  <2>5. Build(g) => Planning(g)' BY DEF Build
  <2>6. DeployFails(g) => Planning(g)' BY DEF DeployFails
  <2>7. Freeze(g) \/ Deployed(g) => Planning(g)' BY DEF Freeze, Deployed
  <2> QED BY <1>4, <2>1, <2>2, <2>3, <2>4, <2>5, <2>6, <2>7, Zenon DEF Deploy
<1>5. CASE Parent(g)
  BY <1>5 DEF Parent, Fork, Settle, Expire, HardKill, RecordRow, Teardown
<1>6. CASE Worker(g)
  BY <1>6 DEF Worker, Discover, ToTrace, NoTrace, Look, EndTrace, Answer, Raise, Vanish
<1>7. CASE Outside(g)
  BY <1>7 DEF Outside, Start, Interrupt, KilledByDriver
<1> QED BY <1>4, <1>5, <1>6, <1>7

\* No grade is planning on a plan that another freezes behind its back.
LEMMA ChildPlanInv == Spec => [](PartsOK /\ PlanInv)
<1>1. Init => PartsOK /\ PlanInv
  <2> SUFFICES ASSUME Init PROVE PartsOK /\ PlanInv OBVIOUS
  <2>1. NoPlan \notin Plans
    BY ChildAssumption DEF ChildAssumption
  <2>2. PlanInv
    BY <2>1 DEF Init, PlanInv, OneRepo, Planning, Running
  <2> QED BY <2>2, PartsInit
<1>2. TypeOK /\ (PartsOK /\ PlanInv) /\ [Next]_vars => (PartsOK /\ PlanInv)'
  <2> SUFFICES ASSUME TypeOK, PartsOK, PlanInv, [Next]_vars PROVE PartsOK' /\ PlanInv'
    OBVIOUS
  <2>1. CASE UNCHANGED vars
    BY <2>1, PartsStep DEF vars, PlanInv, OneRepo, Planning, Running
  <2>2. CASE Next
    <3>1. PICK g \in Grades : Deploy(g) \/ Parent(g) \/ Worker(g) \/ Outside(g)
      BY <2>2 DEF Next
    <3>2. /\ kind' = kind /\ worked \subseteq worked'
          /\ planFile' = planFile \/ Freeze(g) \/ (main[g] = "freeze" /\ planFile' = Torn)
          /\ Running(g)' => Running(g) \/ Start(g)
      BY <3>1, StepsOfPlan
    <3>3. \A h \in Grades : h # g => /\ main'[h] = main[h] /\ plan'[h] = plan[h]
                                     /\ frozen'[h] = frozen[h]
      BY <3>1, OthersKeep
    <3>4. OneRepo'
      <4> SUFFICES ASSUME NEW a \in Grades, NEW b \in Grades, Running(a)', Running(b)', a # b,
                          kind[a] = "repo", kind[b] = "repo"
                   PROVE  FALSE
        BY <3>2 DEF OneRepo
      <4>1. \A h \in Grades : h # g => (Running(h)' <=> Running(h))
        BY <3>3 DEF Running
      <4>2. CASE ~Start(g)
        BY <3>2, <4>1, <4>2 DEF PlanInv, OneRepo
      <4>3. CASE Start(g)
        BY <4>1, <4>3 DEF Start, PlanInv, OneRepo
      <4> QED BY <4>2, <4>3
    <3>5. ASSUME NEW h \in Grades, h # g PROVE Planning(h)'
      <4>1. Planning(h) /\ Planning(g)
        BY DEF PlanInv
      <4>2. main[g] = "freeze" => main[h] \notin {"clone", "plan", "clean", "build", "freeze", "up"}
        BY <3>5, <4>1 DEF PlanInv, OneRepo, Planning, Running
      <4>3. planFile' = planFile \/ main[g] = "freeze"
        BY <3>2 DEF Freeze
      <4> QED BY <3>2, <3>3, <3>5, <4>1, <4>2, <4>3 DEF Planning
    <3>6. planFile' \in Plans => planFile' \in worked'
      <4>1. Freeze(g) => planFile' \in worked'
        BY <3>2 DEF Freeze, PlanInv, Planning
      <4>2. Torn \notin Plans
        BY ChildAssumption DEF ChildAssumption
      <4> QED BY <3>2, <4>1, <4>2 DEF PlanInv
    <3>7. Planning(g)'
      BY <3>1, OwnPlanning
    <3> QED BY <3>4, <3>5, <3>6, <3>7, PartsStep DEF PlanInv
  <2> QED BY <2>1, <2>2
<1> QED BY <1>1, <1>2, ChildTyping, PTL DEF Spec

\* A plan is frozen only once it came up, and then no step, and no kill in the
\* middle of one, puts another in its place.
THEOREM ChildFrozenPlan == Spec => FrozenPlanHolds
<1>1. TypeOK /\ PlanInv /\ PlanInv' /\ [Next]_vars
      => [/\ planFile \in Plans => planFile' = planFile
          /\ planFile' \in Plans => planFile' \in worked']_vars
  <2> SUFFICES ASSUME TypeOK, PlanInv, PlanInv', Next, planFile \in Plans
               PROVE  planFile' = planFile
    BY DEF PlanInv
  <2>1. PICK g \in Grades : Deploy(g) \/ Parent(g) \/ Worker(g) \/ Outside(g)
    BY DEF Next
  <2>2. planFile' = planFile \/ main[g] = "freeze"
    BY <2>1, StepsOfPlan DEF Freeze
  <2>3. main[g] # "freeze"
    BY DEF PlanInv, Planning
  <2> QED BY <2>2, <2>3
<1> QED BY <1>1, ChildTyping, ChildPlanInv, PTL DEF Spec, FrozenPlanHolds
=============================================================================
