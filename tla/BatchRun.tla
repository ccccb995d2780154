------------------------------ MODULE BatchRun ------------------------------
(***************************************************************************)
(* The batch driver, run_batch.py, and the processes it starts.            *)
(*                                                                         *)
(* Each job is graded by a deploy_and_grade child in a session of its own; *)
(* the child appends its record to the shared results file and then tears  *)
(* down.  While it grades, a worker forked from it (which moved to another *)
(* session) sends the traffic.  The driver runs the repo jobs one by one   *)
(* and the url jobs in a pool, kills a child at its wall-clock limit and   *)
(* records a wedge for it.  Ctrl-C may come at any moment, and the batch   *)
(* may be started again on the same results file.                          *)
(***************************************************************************)
EXTENDS Integers, FiniteSets

CONSTANTS
    J,          \* the number of planned jobs, in the order they run
    Source,     \* "repo" or "url"
    Target,     \* the repo or live url of a job
    Project,    \* the submission a job belongs to
    Conc,       \* --concurrency
    Modes,      \* the resume modes the operator uses
    MaxRuns,    \* bound: how often the batch is started
    Interrupts  \* bound: the operator may press Ctrl-C once in each of the
                \* first Interrupts runs

Jobs     == 1 .. J
RepoJobs == {j \in Jobs : Source[j] = "repo"}
UrlJobs  == {j \in Jobs : Source[j] = "url"}

ASSUME BatchAssumption == /\ J \in Nat \ {0}
                          /\ Source \in [Jobs -> {"repo", "url"}]
                          /\ DOMAIN Target = Jobs
                          /\ DOMAIN Project = Jobs
                          /\ Conc \in Nat \ {0}
                          /\ Modes \subseteq {"default", "no_repeat_repo", "whatsoever"}
                          /\ MaxRuns \in Nat \ {0}
                          /\ Interrupts \in Nat

VARIABLES
    run,         \* which start of the batch this is
    phase,       \* "repo", "url", "stopping" (pool drains after Ctrl-C), "over"
    plan,        \* the jobs of this run
    at,          \* how far _run_job is with each job
    child,       \* the deploy_and_grade process of each job
    worker,      \* the jobs of this run with a grade worker running
    results,     \* the rows of the results file
    interrupted, \* Ctrl-C was pressed in this run
    left         \* jobs with a child that works on with nobody watching

vars  == <<run, phase, plan, at, child, worker, results, interrupted,
           left>>
main  == <<run, phase, plan, interrupted>>

Kinds == {"graded", "skipped", "failed", "wedge"}
\* "by" is the run whose child or driver wrote the row, 0 for a child left over.
Rows  == [job : Jobs, by : 0 .. MaxRuns, kind : Kinds]

Row(j, by, kind) == [job |-> j, by |-> by, kind |-> kind]

\* _results_index: the targets with any record, with a grade or an
\* out-of-scope verdict, and the projects with any record.
Attempted == {Target[r.job] : r \in results}

\* Mutant: a target's state is that of its wedge row, if it has one.
BugDone == {Target[r.job] : r \in {s \in results :
                /\ s.kind \in {"graded", "skipped"}
                /\ \A w \in results : w.job = s.job => w.kind # "wedge"}}

Done      == {Target[r.job] : r \in {s \in results : s.kind \in {"graded", "skipped"}}}
Touched   == {Project[r.job] : r \in results}

\* _pending: the jobs that still need to run under a resume mode.
Pending(mode) ==
    {j \in Jobs :
        CASE mode = "whatsoever" -> Target[j] \notin Attempted /\ Project[j] \notin Touched
          [] mode = "no_repeat_repo" /\ Source[j] = "repo" -> Target[j] \notin Attempted
          [] OTHER -> Target[j] \notin Done}

Steps  == {"todo", "popen", "active", "killing", "over"}
States == {"none", "working", "recorded", "exited", "died", "killed"}

Init == /\ run = 1
        /\ phase = "repo"
        /\ plan = Jobs
        /\ at = [j \in Jobs |-> "todo"]
        /\ child = [j \in Jobs |-> "none"]
        /\ worker = {}
        /\ results = {}
        /\ interrupted = FALSE
        /\ left = {}

Alive(j)   == child[j] \in {"working", "recorded"}
Running(S) == {j \in S : at[j] \in {"popen", "active", "killing"}}
Todo(S)    == {j \in S \cap plan : at[j] = "todo"}
First(S)   == {j \in S : \A i \in S : j <= i}

-----------------------------------------------------------------------------
(* _run_job, in the main thread (repo jobs, or url jobs when Conc = 1) or  *)
(* in a worker of the pool.                                                *)

\* The job at the head of the phase's queue; "stopping" drains the url queue.
NextUp == CASE phase = "repo" -> First(Todo(RepoJobs))
            [] phase \in {"url", "stopping"} -> First(Todo(UrlJobs))
            [] OTHER -> {}

\* A free thread waits out the throttle and starts the child: it runs, and
\* is not registered in _active yet.
Start(j) == /\ j \in NextUp
            /\ Cardinality(Running(Jobs)) < (IF phase = "repo" THEN 1 ELSE Conc)
            /\ at' = [at EXCEPT ![j] = "popen"]
            /\ child' = [child EXCEPT ![j] = "working"]
            /\ UNCHANGED <<main, worker, results, left>>

Register(j) == /\ at[j] = "popen"
               /\ at' = [at EXCEPT ![j] = "active"]
               /\ UNCHANGED <<main, child, worker, results, left>>

\* Mutant: only a child that ended by itself is taken for ended.
BugReturn(j) == /\ at[j] = "active"
                /\ child[j] \in {"exited", "died"}
                /\ at' = [at EXCEPT ![j] = "over"]
                /\ UNCHANGED <<main, child, worker, results, left>>

\* The child ended, by itself or killed by another thread.
Return(j) == /\ at[j] = "active"
             /\ child[j] \in {"exited", "died", "killed"}
             /\ at' = [at EXCEPT ![j] = "over"]
             /\ UNCHANGED <<main, child, worker, results, left>>

\* Mutant: the child is given up but not killed.
BugTimeout(j) == /\ at[j] = "active"
                 /\ Alive(j)
                 /\ at' = [at EXCEPT ![j] = "killing"]
                 /\ UNCHANGED <<main, child, worker, results, left>>

\* --app-timeout: the child's process group is killed, which does not hold
\* the grade worker, a session of its own.
Timeout(j) == /\ at[j] = "active"
              /\ Alive(j)
              /\ at' = [at EXCEPT ![j] = "killing"]
              /\ child' = [child EXCEPT ![j] = "killed"]
              /\ UNCHANGED <<main, worker, results, left>>

\* Mutant: the row carries the reason in the place of the verdict.
BugRecordReason(j) == /\ at[j] = "killing"
                      /\ at' = [at EXCEPT ![j] = "over"]
                      /\ results' = results \cup {Row(j, run, "timeout")}
                      /\ UNCHANGED <<main, child, worker, left>>

RecordWedge(j) == /\ at[j] = "killing"
                  /\ at' = [at EXCEPT ![j] = "over"]
                  /\ results' = results \cup {Row(j, run, "wedge")}
                  /\ UNCHANGED <<main, child, worker, left>>

-----------------------------------------------------------------------------
(* The child: deploy_and_grade.                                            *)

\* grade() forks the worker that does the grading.
Fork(j) == /\ child[j] = "working"
           /\ j \notin worker
           /\ worker' = worker \cup {j}
           /\ UNCHANGED <<main, at, child, results, left>>

\* The worker settled, or was killed at its own budget, or there was none:
\* the finally block appends the record, then tears down.
Record(j) == /\ child[j] = "working"
             /\ child' = [child EXCEPT ![j] = "recorded"]
             /\ worker' = worker \ {j}
             /\ \E k \in IF j \in worker THEN {"graded", "failed"} ELSE {"skipped", "failed"} :
                   results' = results \cup {Row(j, run, k)}
             /\ UNCHANGED <<main, at, left>>

Exit(j) == /\ child[j] = "recorded"
           /\ child' = [child EXCEPT ![j] = "exited"]
           /\ UNCHANGED <<main, at, worker, results, left>>

\* The child is gone without a record (killed by the system, or it failed
\* before its try block).
Die(j) == /\ child[j] = "working"
          /\ child' = [child EXCEPT ![j] = "died"]
          /\ UNCHANGED <<main, at, worker, results, left>>

\* A worker whose child is gone runs its course.
StrayEnds(j) == /\ j \in worker
                /\ child[j] \in {"died", "killed"}
                /\ worker' = worker \ {j}
                /\ UNCHANGED <<main, at, child, results, left>>

\* A child nobody watches records, or dies.
LeftRecords(j) == /\ j \in left
                  /\ left' = left \ {j}
                  /\ \E k \in {"graded", "skipped", "failed"} :
                        results' = results \cup {Row(j, 0, k)}
                  /\ UNCHANGED <<main, at, child, worker>>

LeftDies(j) == /\ j \in left
               /\ left' = left \ {j}
               /\ UNCHANGED <<main, at, child, worker, results>>

-----------------------------------------------------------------------------
(* main().                                                                 *)

\* Mutant: the url phase does not wait for the last repo job.
BugNextPhase == /\ \/ phase = "repo" /\ Todo(RepoJobs) = {} /\ phase' = "url"
                   \/ /\ phase \in {"url", "stopping"}
                      /\ Todo(UrlJobs) = {} /\ Running(Jobs) = {}
                      /\ phase' = "over"
                /\ UNCHANGED <<run, plan, interrupted, at, child, worker, results, left>>

NextPhase == /\ Running(Jobs) = {}
             /\ \/ phase = "repo" /\ Todo(RepoJobs) = {} /\ phase' = "url"
                \/ phase \in {"url", "stopping"} /\ Todo(UrlJobs) = {} /\ phase' = "over"
             /\ UNCHANGED <<run, plan, interrupted, at, child, worker, results, left>>

CanInterrupt == run <= Interrupts /\ ~interrupted

\* Ctrl-C in the main thread's own job: _run_job forgets the child on the
\* way out, _kill_all_active finds nothing, and the child works on.
InterruptSerial ==
    LET abandoned == {j \in Running(Jobs) : child[j] = "working"}
    IN  /\ CanInterrupt
        /\ phase = "repo" \/ (phase = "url" /\ Conc = 1)
        /\ interrupted' = TRUE
        /\ phase' = "over"
        /\ at' = [j \in Jobs |-> IF j \in Running(Jobs) THEN "over" ELSE at[j]]
        /\ child' = [j \in Jobs |-> IF j \in abandoned THEN "none" ELSE child[j]]
        /\ worker' = worker \ abandoned
        /\ left' = left \cup abandoned
        /\ UNCHANGED <<run, plan, results>>

\* Ctrl-C while the pool runs: the registered children are killed, and the
\* pool's shutdown waits for its queue.
InterruptPool ==
    LET struck == {j \in Jobs : at[j] = "active" /\ Alive(j)}
    IN  /\ CanInterrupt
        /\ phase = "url" /\ Conc > 1
        /\ interrupted' = TRUE
        /\ phase' = "stopping"
        /\ child' = [j \in Jobs |-> IF j \in struck THEN "killed" ELSE child[j]]
        /\ UNCHANGED <<run, plan, at, worker, results, left>>

\* The operator starts the batch again on the same results file.  What is
\* left of the tear-downs and stray workers of the last run is forgotten.
Rerun(mode) == /\ phase = "over"
               /\ run < MaxRuns
               /\ run' = run + 1
               /\ phase' = "repo"
               /\ plan' = Pending(mode)
               /\ at' = [j \in Jobs |-> "todo"]
               /\ child' = [j \in Jobs |-> "none"]
               /\ worker' = {}
               /\ interrupted' = FALSE
               /\ UNCHANGED <<results, left>>

Driver == \/ NextPhase
          \/ \E j \in Jobs : \/ Start(j) \/ Register(j)
                             \/ Return(j) \/ Timeout(j) \/ RecordWedge(j)
Child  == \E j \in Jobs : Fork(j) \/ Record(j) \/ Exit(j) \/ Die(j)
Loose  == \E j \in Jobs : LeftRecords(j) \/ LeftDies(j) \/ StrayEnds(j)
Next   == \/ Driver \/ Child \/ Loose
          \/ InterruptSerial \/ InterruptPool
          \/ \E mode \in Modes : Rerun(mode)

\* Only the driver is fair: a child may hang for ever, its wall-clock limit
\* is the driver's own timer.
Spec == Init /\ [][Next]_vars /\ WF_vars(Driver)

-----------------------------------------------------------------------------
TypeOK == /\ run \in 1 .. MaxRuns
          /\ phase \in {"repo", "url", "stopping", "over"}
          /\ plan \subseteq Jobs
          /\ at \in [Jobs -> Steps]
          /\ child \in [Jobs -> States]
          /\ worker \subseteq Jobs
          /\ results \subseteq Rows
          /\ interrupted \in BOOLEAN
          /\ left \subseteq Jobs

\* Of one run, a repo's child (fixed container names) is alive alone.
SerialDeploys == \A j \in RepoJobs, i \in Jobs :
                     Alive(j) /\ Alive(i) /\ at[j] # "over" => i = j

\* A wedge row is only written of a child that is dead.
WedgeIsDead == \A r \in results : r.kind = "wedge" /\ r.by = run => child[r.job] = "killed"

\* When a batch ends undisturbed every job it planned has left a row, except
\* those whose child was gone without one.
EveryJobAccounted ==
    phase = "over" /\ ~interrupted =>
        \A j \in plan : child[j] = "died" \/ \E r \in results : r.job = j /\ r.by = run

\* Across runs and resume modes a target is graded once by a watched child:
\* a wedge row next to its grade never makes a graded target run again.
GradedOnce ==
    \A r, s \in results :
        r.kind = "graded" /\ s.kind = "graded" /\ s.job = r.job /\ r.by # 0 /\ s.by # 0 => s = r

\* run_batch's one promise to its results file over throttles, wall-clock
\* kills, Ctrl-C and resumes: each planned job leaves a row, and none is graded twice.
EachJobOnce == EveryJobAccounted /\ GradedOnce

\* A run ends, however its children hang and whenever Ctrl-C comes.
EventuallyOver == phase # "over" ~> phase = "over"

-----------------------------------------------------------------------------
(* The inductive invariants of the proofs in BatchRunProofs.                *)

\* A job that was not started has no child, one on the way to its wedge row
\* has a dead child, and no row is of a later run.
WedgeInv == /\ \A j \in Jobs : at[j] = "todo" => child[j] = "none"
            /\ \A j \in Jobs : at[j] = "killing" => child[j] = "killed"
            /\ \A r \in results : r.by <= run
            /\ WedgeIsDead

\* The repo phase has one job at a time, and no repo job outlives it; a job
\* that is given up only has a live child after Ctrl-C.
SerialInv == /\ phase = "repo" => \A i, j \in Running(Jobs) : i = j
             /\ phase # "repo" => Running(Jobs) \cap RepoJobs = {}
             /\ phase = "over" => Running(Jobs) = {}
             /\ \A j \in Jobs : at[j] = "over" /\ Alive(j) => phase = "over"

HasRow(j) == \E r \in results : r.job = j /\ r.by = run

\* Within an undisturbed run a child that finished has its row, only the
\* wall-clock limit kills, and a phase is only left when its queue is empty.
RowInv == /\ \A j \in Jobs : child[j] \in {"recorded", "exited"} => HasRow(j)
          /\ ~interrupted =>
               /\ \A j \in Jobs : child[j] = "killed" => at[j] = "killing" \/ HasRow(j)
               /\ \A j \in Jobs : at[j] = "over" => child[j] = "died" \/ HasRow(j)
               /\ phase # "repo" => Todo(RepoJobs) = {}
               /\ phase = "over" => Todo(UrlJobs) = {}

\* A grade of this run was made by a child that is past its record, and a job
\* graded in an earlier run is not planned again.
OnceInv == /\ \A j \in Jobs : child[j] # "none" => j \in plan
           /\ \A r \in results : r.kind = "graded" /\ r.by = run
                                 => child[r.job] \in {"recorded", "exited", "killed"}
           /\ \A r \in results : r.kind = "graded" /\ r.by # 0 /\ r.by < run
                                 => r.job \notin plan
           /\ GradedOnce
=============================================================================
