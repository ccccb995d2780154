----------------------------- MODULE GradeChild -----------------------------
(***************************************************************************)
(* deploy_and_grade.py: the grades of one host.                            *)
(*                                                                         *)
(* main() takes a repo or a live url.  A repo is cloned, planned by an LLM *)
(* (or by the plan frozen for its commit), built and run in containers with *)
(* fixed names, with a new plan for each failed attempt.  grade() forks a  *)
(* worker in a session of its own, waits for its answer in a queue, and    *)
(* kills its process group at the deadline.  Whatever happens, the finally *)
(* block appends one row.  The worker waits for its turn on the host's     *)
(* Lighthouse lock, and freezes the surface it discovered for the commit.  *)
(* All repo grades here are of one commit.                                 *)
(***************************************************************************)
EXTENDS LighthouseLock

CONSTANTS
    Kinds,          \* the batches: functions from Grades to {"repo", "url"}
    Plans,          \* what the LLM may plan for the commit
    NoPlan,         \* no plan, or a cache file that is missing
    Torn,           \* a cache file that a kill cut short
    Attempts,       \* --attempts
    RetryTimeouts,  \* --retry-timeouts
    Kills           \* bound: how many grades the driver's wall clock kills

ASSUME ChildAssumption == /\ Grades \subseteq Nat
                          /\ Kinds \subseteq [Grades -> {"repo", "url"}]
                          /\ NoPlan \notin Plans /\ Torn \notin Plans \cup {NoPlan}
                          /\ Attempts \in Nat \ {0}
                          /\ RetryTimeouts \in BOOLEAN
                          /\ Kills \in Nat

VARIABLES
    kind,      \* the batch of this behaviour
    main,      \* where main() is, for each grade
    attempt,   \* the attempt of the deploy loop
    plan,      \* the plan of this attempt
    frozen,    \* the plan and the surface main() loaded for the commit
    rec,       \* the row under construction
    up,        \* whose app container is up
    planFile,  \* the frozen plan of the commit on disk
    surfFile,  \* its frozen surface: the plan it was discovered on
    worked,    \* history: the plans that came up
    worker,    \* the grade worker
    answer,    \* the answer in the queue from the worker to main()
    rows,      \* the rows appended: whose, and their timeout field
    kills      \* how many grades were killed from outside

planning == <<attempt, plan, frozen>>
disk     == <<planFile, surfFile, worked>>
mainVars == <<main, planning, rec, up, disk>>
vars     == <<kind, mainVars, worker, answer, rows, kills, lockVars>>

NoApp  == 0

\* The fields of a row that later readers decide on.
Blank == [deployed |-> FALSE, graded |-> FALSE, skipped |-> FALSE, chal |-> FALSE,
          dead |-> FALSE, error |-> "", timeout |-> ""]
Record == [deployed : BOOLEAN, graded : BOOLEAN, skipped : BOOLEAN, chal : BOOLEAN, dead : BOOLEAN,
           error : {"", "clone", "build", "health", "waf", "dead", "grade"},
           timeout : {"", "clone", "build", "grade"}]

Init == /\ kind \in Kinds
        /\ main = [g \in Grades |-> "new"]
        /\ attempt = [g \in Grades |-> 0]
        /\ plan = [g \in Grades |-> NoPlan]
        /\ frozen = [g \in Grades |-> [plan |-> NoPlan, surf |-> NoPlan]]
        /\ rec = [g \in Grades |-> Blank]
        /\ up = NoApp
        /\ planFile = NoPlan /\ surfFile = NoPlan /\ worked = {}
        /\ worker = [g \in Grades |-> "none"]
        /\ answer = [g \in Grades |-> ""]
        /\ rows = {}
        /\ kills = 0
        /\ LockInit

\* What main() held is gone with its process.
Forget(g) == /\ attempt' = [attempt EXCEPT ![g] = 0]
             /\ plan' = [plan EXCEPT ![g] = NoPlan]
             /\ frozen' = [frozen EXCEPT ![g] = [plan |-> NoPlan, surf |-> NoPlan]]
             /\ rec' = [rec EXCEPT ![g] = Blank]
             /\ answer' = [answer EXCEPT ![g] = ""]

Running(g) == main[g] \notin {"new", "over", "killed"}
Set(f, g, v) == [f EXCEPT ![g] = v]

-----------------------------------------------------------------------------
(* main() up to the grade.                                                 *)

\* run_batch starts the repo grades one at a time, the url grades together.
Start(g) == /\ main[g] = "new"
            /\ \A h \in Grades : h < g => main[h] # "new"
            /\ kind[g] = "repo" => \A h \in Grades : ~Running(h)
            /\ main' = Set(main, g, IF kind[g] = "repo" THEN "clone" ELSE "check")
            /\ UNCHANGED <<kind, planning, rec, up, disk, worker, answer, rows, kills, lockVars>>

\* A live url: off target, blocked by its edge, dead, or worth a grade.
CheckUrl(g) ==
    /\ main[g] = "check"
    /\ \/ /\ rec' = Set(rec, g, [rec[g] EXCEPT !.skipped = TRUE])
          /\ main' = Set(main, g, "record")
       \/ /\ rec' = Set(rec, g, [rec[g] EXCEPT !.chal = TRUE, !.error = "waf"])
          /\ main' = Set(main, g, "record")
       \/ /\ rec' = Set(rec, g, [rec[g] EXCEPT !.dead = TRUE, !.error = "dead"])
          /\ main' = Set(main, g, "record")
       \/ /\ rec' = Set(rec, g, [rec[g] EXCEPT !.deployed = TRUE])
          /\ main' = Set(main, g, "fork")
    /\ UNCHANGED <<kind, planning, up, disk, worker, answer, rows, kills, lockVars>>

Loaded(file) == IF file = Torn THEN NoPlan ELSE file

Clone(g) ==
    /\ main[g] = "clone"
    /\ \/ /\ main' = Set(main, g, "plan")
          /\ attempt' = Set(attempt, g, 1)
          /\ frozen' = Set(frozen, g, [plan |-> Loaded(planFile), surf |-> Loaded(surfFile)])
          /\ UNCHANGED rec
       \/ /\ main' = Set(main, g, "record")
          /\ \E t \in {"", "clone"} : rec' = Set(rec, g, [rec[g] EXCEPT !.error = "clone", !.timeout = t])
          /\ UNCHANGED <<attempt, frozen>>
    /\ UNCHANGED <<kind, plan, up, disk, worker, answer, rows, kills, lockVars>>

\* Mutant: the plan is frozen as soon as the LLM gave it.
BugPlan(g) ==
    /\ main[g] = "plan"
    /\ \E p \in IF attempt[g] = 1 /\ frozen[g].plan # NoPlan THEN {frozen[g].plan} ELSE Plans :
           /\ plan' = Set(plan, g, p)
           /\ planFile' = IF frozen[g].plan = NoPlan THEN p ELSE planFile
    /\ main' = Set(main, g, "clean")
    /\ UNCHANGED <<kind, attempt, frozen, rec, up, surfFile, worked, worker, answer, rows, kills, lockVars>>

\* The frozen plan on the first attempt, the LLM's otherwise; the LLM may
\* fail (sys.exit) or find that there is no web app to grade.
Plan(g) ==
    /\ main[g] = "plan"
    /\ LET cached == attempt[g] = 1 /\ frozen[g].plan # NoPlan
       IN  \/ /\ \E p \in IF cached THEN {frozen[g].plan} ELSE Plans : plan' = Set(plan, g, p)
              /\ main' = Set(main, g, "clean")
              /\ UNCHANGED rec
           \/ /\ ~cached
              /\ main' = Set(main, g, "record")
              /\ rec' \in {rec, Set(rec, g, [rec[g] EXCEPT !.skipped = TRUE])}
              /\ UNCHANGED plan
    /\ UNCHANGED <<kind, attempt, frozen, up, disk, worker, answer, rows, kills, lockVars>>

\* execute() removes what an earlier attempt or a killed run left.
Clean(g) == /\ main[g] = "clean"
            /\ main' = Set(main, g, "build")
            /\ up' = NoApp
            /\ UNCHANGED <<kind, planning, rec, disk, worker, answer, rows, kills, lockVars>>

Build(g) == /\ main[g] = "build"
            /\ main' = Set(main, g, IF frozen[g].plan = NoPlan THEN "freeze" ELSE "up")
            /\ up' = g
            /\ worked' = worked \cup {plan[g]}
            /\ UNCHANGED <<kind, planning, rec, planFile, surfFile, worker, answer, rows, kills, lockVars>>

\* The build, the sidecar, the run or the health check fails: the next
\* attempt, unless it was the last or the build took too long.
DeployFails(g) ==
    /\ main[g] = "build"
    /\ up' = NoApp
    /\ \E why \in {"build", "health"}, slow \in BOOLEAN :
          /\ slow => why = "build"
          /\ rec' = Set(rec, g, [rec[g] EXCEPT !.error = why, !.timeout = IF slow THEN "build" ELSE @])
          /\ IF attempt[g] < Attempts /\ (slow => RetryTimeouts)
             THEN /\ attempt' = Set(attempt, g, attempt[g] + 1)
                  /\ main' = Set(main, g, "plan")
             ELSE /\ main' = Set(main, g, "record")
                  /\ UNCHANGED attempt
    /\ UNCHANGED <<kind, plan, frozen, disk, worker, answer, rows, kills, lockVars>>

\* Another exception (a docker call that hangs) leaves the loop at once.
BuildRaises(g) == /\ main[g] = "build"
                  /\ main' = Set(main, g, "record")
                  /\ up' \in {NoApp, g}
                  /\ UNCHANGED <<kind, planning, rec, disk, worker, answer, rows, kills, lockVars>>

\* store_cached_plan.
Freeze(g) == /\ main[g] = "freeze"
             /\ main' = Set(main, g, "up")
             /\ planFile' = plan[g]
             /\ UNCHANGED <<kind, planning, rec, up, surfFile, worked, worker, answer, rows, kills, lockVars>>

Deployed(g) == /\ main[g] = "up"
               /\ main' = Set(main, g, "fork")
               /\ rec' = Set(rec, g, [rec[g] EXCEPT !.deployed = TRUE, !.error = "", !.timeout = ""])
               /\ UNCHANGED <<kind, planning, up, disk, worker, answer, rows, kills, lockVars>>

-----------------------------------------------------------------------------
(* The worker.  It hangs by taking no step.                                *)

\* grade() forks the worker, which crawls or takes the frozen surface.
Fork(g) == /\ main[g] = "fork"
           /\ main' = Set(main, g, "read")
           /\ worker' = Set(worker, g, IF frozen[g].surf = NoPlan THEN "discover" ELSE "gates")
           /\ UNCHANGED <<kind, planning, rec, up, disk, answer, rows, kills, lockVars>>

\* The crawl is done; a repo grade freezes the surface of the app that is up.
Discover(g) == /\ worker[g] = "discover"
               /\ worker' = Set(worker, g, "gates")
               /\ surfFile' = IF kind[g] = "repo" /\ up # NoApp THEN plan[up] ELSE surfFile
               /\ UNCHANGED <<kind, main, planning, rec, up, planFile, worked, answer, rows, kills, lockVars>>

\* Past the gates: the battery needs a Lighthouse trace, or does not.
ToTrace(g) == /\ worker[g] = "gates"
              /\ worker' = Set(worker, g, "trace")
              /\ Open(g)
              /\ UNCHANGED <<kind, mainVars, answer, rows, kills>>

NoTrace(g) == /\ worker[g] = "gates"
              /\ worker' = Set(worker, g, "probes")
              /\ UNCHANGED <<kind, mainVars, answer, rows, kills, lockVars>>

Look(g) == /\ worker[g] = "trace"
           /\ Try(g) \/ Wake(g)
           /\ UNCHANGED <<kind, mainVars, worker, answer, rows, kills>>

\* The traces end, measured or not: every one of them has a timeout.
EndTrace(g) == /\ worker[g] = "trace"
               /\ Close(g)
               /\ worker' = Set(worker, g, "probes")
               /\ UNCHANGED <<kind, mainVars, answer, rows, kills>>

Alive(g) == worker[g] \in {"discover", "gates", "trace", "probes"}

\* An answer reaches the queue; nobody reads it when main() was killed.
Deliver(g, a) == answer' = IF Running(g) THEN [answer EXCEPT ![g] = a] ELSE answer

\* The report of a full battery, or of a gate that ends the grade early.
Answer(g) == /\ worker[g] \in {"gates", "probes"}
             /\ worker' = Set(worker, g, "gone")
             /\ Deliver(g, "ok")
             /\ UNCHANGED <<kind, mainVars, rows, kills, lockVars>>

\* Any exception, which also leaves the lock.
Raise(g) == /\ Alive(g)
            /\ worker' = Set(worker, g, "gone")
            /\ answer' = Set(answer, g, "err")
            /\ IF worker[g] = "trace" THEN Drop(g) ELSE UNCHANGED lockVars
            /\ UNCHANGED <<kind, mainVars, rows, kills>>

\* A surface that was being written when its writer died.
CutShort(g) == {surfFile} \cup IF kind[g] = "repo" /\ worker[g] = "discover" THEN {Torn} ELSE {}

\* The system kills the worker alone.
Vanish(g) == /\ Alive(g)
             /\ worker' = Set(worker, g, "gone")
             /\ Drop(g)
             /\ surfFile' \in CutShort(g)
             /\ UNCHANGED <<kind, main, planning, rec, up, planFile, worked, answer, rows, kills>>

-----------------------------------------------------------------------------
(* grade() in the parent, and the end of main().                           *)

\* The answer: a report, or an error that may mean the live app went down.
Settle(g) == /\ main[g] = "read"
             /\ answer[g] # ""
             /\ main' = Set(main, g, "record")
             /\ IF answer[g] = "ok"
                THEN rec' = Set(rec, g, [rec[g] EXCEPT !.graded = TRUE])
                ELSE \/ rec' = Set(rec, g, [rec[g] EXCEPT !.error = "grade"])
                     \/ /\ kind[g] = "url"
                        /\ rec' = Set(rec, g, [rec[g] EXCEPT !.deployed = FALSE, !.dead = TRUE, !.error = "dead"])
             /\ UNCHANGED <<kind, planning, up, disk, worker, answer, rows, kills, lockVars>>

\* The deadline: q.get finds no answer (what it finds before is progress,
\* which only words the message).
Expire(g) == /\ main[g] = "read"
             /\ answer[g] = ""
             /\ main' = Set(main, g, "expired")
             /\ UNCHANGED <<kind, planning, rec, up, disk, worker, answer, rows, kills, lockVars>>

\* Mutant: the worker is left to end by itself.
BugHardKill(g) ==
    /\ main[g] = "expired"
    /\ main' = Set(main, g, "record")
    /\ rec' = Set(rec, g, [rec[g] EXCEPT !.timeout = "grade", !.error = "grade"])
    /\ UNCHANGED <<kind, planning, up, disk, worker, answer, rows, kills, lockVars>>

\* _hard_kill_group: whatever the worker still sends is lost.  A surface it
\* was writing is cut short.
HardKill(g) ==
    /\ main[g] = "expired"
    /\ main' = Set(main, g, "record")
    /\ rec' = Set(rec, g, [rec[g] EXCEPT !.timeout = "grade", !.error = "grade"])
    /\ worker' = Set(worker, g, "gone")
    /\ Drop(g)
    /\ surfFile' \in CutShort(g)
    /\ UNCHANGED <<kind, planning, up, planFile, worked, answer, rows, kills>>

\* Ctrl-C on a grade that is watched; at the answer it is a hard kill like the other.
Interrupt(g) ==
    /\ main[g] \in {"clone", "plan", "build", "read"}
    /\ main' = Set(main, g, "record")
    /\ IF main[g] = "read" THEN worker' = Set(worker, g, "gone") /\ Drop(g) /\ surfFile' \in CutShort(g)
                           ELSE UNCHANGED <<worker, lockVars, surfFile>>
    /\ UNCHANGED <<kind, planning, rec, up, planFile, worked, answer, rows, kills>>

\* The finally block: append the row, then tear down.
RecordRow(g) == /\ main[g] = "record"
                /\ main' = Set(main, g, "teardown")
                /\ rows' = rows \cup {<<g, rec[g].timeout>>}
                /\ UNCHANGED <<kind, planning, rec, up, disk, worker, answer, kills, lockVars>>

Teardown(g) == /\ main[g] = "teardown"
               /\ main' = Set(main, g, "over")
               /\ up' = IF kind[g] = "repo" THEN NoApp ELSE up
               /\ Forget(g)
               /\ UNCHANGED <<kind, disk, worker, rows, kills, lockVars>>

\* run_batch's wall clock: the process group of main() dies, not the worker,
\* which has a session of its own; the containers are removed after it.
KilledByDriver(g) ==
    /\ Running(g)
    /\ kills < Kills
    /\ kills' = kills + 1
    /\ main' = Set(main, g, "killed")
    /\ planFile' \in {planFile} \cup IF main[g] = "freeze" THEN {Torn} ELSE {}
    /\ up' = IF kind[g] = "repo" THEN NoApp ELSE up
    /\ Forget(g)
    /\ UNCHANGED <<kind, surfFile, worked, worker, rows, lockVars>>

Deploy(g)  == CheckUrl(g) \/ Clone(g) \/ Plan(g) \/ Clean(g) \/ Build(g) \/ DeployFails(g)
              \/ BuildRaises(g) \/ Freeze(g) \/ Deployed(g)
Parent(g)  == Fork(g) \/ Settle(g) \/ Expire(g) \/ HardKill(g)
              \/ RecordRow(g) \/ Teardown(g)
Worker(g)  == Discover(g) \/ ToTrace(g) \/ NoTrace(g) \/ Look(g) \/ EndTrace(g)
              \/ Answer(g) \/ Raise(g) \/ Vanish(g)
Outside(g) == Start(g) \/ Interrupt(g) \/ KilledByDriver(g)

Next == \E g \in Grades : Deploy(g) \/ Parent(g) \/ Worker(g) \/ Outside(g)

\* The parent goes on by itself (its deadline is its own timer), and a trace
\* that started ends (its subprocess has a timeout).  A worker may hang
\* anywhere else, and the driver may never start another grade.
Spec == /\ Init /\ [][Next]_vars
        /\ \A g \in Grades : WF_vars(Deploy(g) \/ Parent(g)) /\ WF_vars(EndTrace(g))

-----------------------------------------------------------------------------
TypeOK == /\ LockTypeOK
          /\ kind \in Kinds
          /\ main \in [Grades -> {"new", "check", "clone", "plan", "clean", "build", "freeze", "up", "fork",
                                  "read", "expired", "record", "teardown", "over", "killed"}]
          /\ attempt \in [Grades -> 0 .. Attempts]
          /\ plan \in [Grades -> Plans \cup {NoPlan}]
          /\ frozen \in [Grades -> [plan : Plans \cup {NoPlan}, surf : Plans \cup {NoPlan}]]
          /\ rec \in [Grades -> Record]
          /\ up \in Grades \cup {NoApp}
          /\ planFile \in Plans \cup {NoPlan, Torn}
          /\ surfFile \in Plans \cup {NoPlan, Torn}
          /\ worked \subseteq Plans
          /\ worker \in [Grades -> {"none", "discover", "gates", "trace", "probes", "gone"}]
          /\ answer \in [Grades -> {"", "ok", "err"}]
          /\ rows \subseteq Grades \X {"", "clone", "build", "grade"}
          /\ kills \in 0 .. Kills

\* A row that says the grade ran out of time is of a worker that is gone: its
\* late answer can not be recorded too, and it sends the target no more
\* traffic (deploy_and_grade.grade, _hard_kill_group).
TimeoutIsQuiet == \A g \in Grades : <<g, "grade">> \in rows => ~Alive(g)

RowsOf(g) == {r \in rows : r[1] = g}

\* A row tells one story: a grade that went through, or a target that was not
\* reached, never parts of both.
Coherent(r) == /\ r.graded => r.deployed /\ r.error = "" /\ r.timeout = ""
               /\ r.dead \/ r.chal \/ r.skipped => ~r.deployed /\ ~r.graded

\* A main() that was not killed leaves one row.  A graded row carries no error
\* of an earlier attempt, and a target that was not reached is not said to be
\* deployed (the finally block, and the pops after a deploy that worked).
RowsAreWhole ==
    \A g \in Grades :
        /\ main[g] = "over" => Cardinality(RowsOf(g)) = 1
        /\ main[g] = "teardown" => Coherent(rec[g])

\* What one grade leaves in the results file is its own, whole and final: one
\* row, of an attempt that is over (deploy_and_grade main's finally block).
RowsAreTrue == TypeOK /\ RowsAreWhole /\ TimeoutIsQuiet

\* A plan is frozen for a commit only once it came up, and then it stays: no
\* kill in the middle of the write and no later grade puts another there
\* (store_cached_plan: "Same commit -> same frozen plan").
FrozenPlanHolds == [][/\ planFile \in Plans => planFile' = planFile
                      /\ planFile' \in Plans => planFile' \in worked']_vars

\* Every grade that started is recorded or was killed, however its worker
\* hangs, dies or waits for a lane.
EventuallyRecorded == \A g \in Grades : Running(g) ~> main[g] \in {"over", "killed"}

\* No lane is stranded: not by a worker that dies in its trace, and not by one
\* whose parent was killed (_lighthouse_lock: "no stranded slots").
LanesComeFree == \A g \in Grades : spot[g] = "in" ~> spot[g] # "in"

\* Nothing a grade holds outlives it: it ends in a row or in a kill, and the
\* lane it took comes free, at whichever point its worker or its parent died.
NothingStrands == EventuallyRecorded /\ LanesComeFree

-----------------------------------------------------------------------------
(* The inductive invariants of the proofs in GradeChildProofs.              *)

\* What a row may say, by where main() is: nothing before the target answered,
\* and no failure while the grade runs.
Reached(r)   == r.deployed /\ ~r.graded /\ ~r.skipped /\ ~r.chal /\ ~r.dead /\ r.error = "" /\ r.timeout = ""
Unreached(r) == ~r.deployed /\ ~r.graded /\ ~r.skipped /\ ~r.chal /\ ~r.dead

Fits(m, r) ==
    /\ m \in {"new", "check", "clone", "over", "killed"} => r = Blank
    /\ m \in {"plan", "clean", "build", "freeze", "up"} => Unreached(r)
    /\ m \in {"fork", "read", "expired"} => Reached(r)
    /\ m \in {"record", "teardown"} => Coherent(r)

RecInv == \A g \in Grades : Fits(main[g], rec[g])

\* Only a finished main() has a row, and then one; a row, or a row to come,
\* that says the grade ran out of time is of a worker that was killed.
Recorded(g) ==
    /\ main[g] \in {"teardown", "over"} => \E r \in rows : RowsOf(g) = {r}
    /\ main[g] \notin {"teardown", "over", "killed"} => RowsOf(g) = {}
    /\ rec[g].timeout = "grade" => main[g] \in {"record", "teardown"} /\ worker[g] = "gone"
    /\ <<g, "grade">> \in rows => worker[g] = "gone"

RowInv == \A g \in Grades : Recorded(g)

\* One repo grade runs at a time: while it plans without a frozen plan, no
\* other grade freezes one, and what it freezes has come up.
OneRepo == \A g, h \in Grades :
               Running(g) /\ Running(h) /\ kind[g] = "repo" /\ kind[h] = "repo" => g = h

Planning(g) ==
    /\ main[g] \in {"clone", "plan", "clean", "build", "freeze", "up"} => kind[g] = "repo"
    /\ main[g] \in {"plan", "clean", "build", "freeze"} /\ frozen[g].plan = NoPlan => planFile \notin Plans
    /\ main[g] = "freeze" => frozen[g].plan = NoPlan /\ plan[g] \in worked

PlanInv == /\ OneRepo
           /\ \A g \in Grades : Planning(g)
           /\ planFile \in Plans => planFile \in worked
=============================================================================
