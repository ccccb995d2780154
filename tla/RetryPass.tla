----------------------------- MODULE RetryPass -----------------------------
(***************************************************************************)
(* The retry pass of retry_blocked.py over one results file.               *)
(*                                                                         *)
(* Records of the main run that have a url and blocked probes become jobs, *)
(* one per url.  A pool of workers re-grades the blocked probes of each job; the   *)
(* collector keeps the answers and watches for an IP-level block, on which *)
(* the jobs not yet started are skipped.  The answers are written to the   *)
(* retry file, and folded with the main records into the merged file.      *)
(* The script may be killed at any point, run again, or told to re-fold    *)
(* an earlier retry file (--remerge).                                      *)
(***************************************************************************)
EXTENDS Integers, FiniteSets, Sequences

CONSTANTS
    R,           \* the number of records in the results file
    UrlOf,       \* the url of each record, NoUrl for a repo's
    NoUrl,
    Blocked,     \* its blocked_probes
    Stage,       \* its challenge_stage
    Probes,      \* the probe ids
    Pad,         \* the benign pad (--pad-benign), empty by default
    Workers,     \* --concurrency
    Sample,      \* --ip-block-sample, 0 disables the breaker
    MaxPasses,   \* bound: how often the script is started
    NoRecord     \* a job has no retry record

Records == 1 .. R
Stages  == {"", "entry", "limited", "late"}

ASSUME RecordsAssumption == /\ R \in Nat
                            /\ Blocked \in [Records -> SUBSET Probes]
                            /\ Stage \in [Records -> Stages]
                            /\ DOMAIN UrlOf = Records
                            /\ Pad \subseteq Probes
ASSUME PoolAssumption == /\ Workers \in Nat \ {0}
                         /\ Sample \in Nat
                         /\ MaxPasses \in Nat \ {0}

\* A record that is folded: a repo's is only copied.
Retried(r) == Blocked[r] # {} /\ UrlOf[r] # NoUrl

\* _load_jobs: a job is the first blocked record of its url.
Jobs == {r \in Records : /\ Retried(r)
                         /\ \A s \in 1 .. r - 1 : ~(Blocked[s] # {} /\ UrlOf[s] = UrlOf[r])}

VARIABLES
    pass,        \* how often the script was started
    phase,       \* where main() is; "dead" when it was killed
    job,         \* the progress of each submitted job
    answer,      \* the retry record a finished job read back
    arrived,     \* finished futures the collector has not seen, oldest first
    statuses,    \* the WAF verdicts in completion order
    abort,       \* the breaker's event
    retryFile,   \* <results>.retry.jsonl: the record of each job
    mergedFile,  \* <results>.merged.jsonl
    tested,      \* history: the probes a retry of the job measured, ever
    measured,    \* history: those the last pass measured
    unbooked,    \* history: the probes a retry neither measured nor booked, ever
    lapsed,      \* history: those of the last pass
    late         \* history: grades of this pass launched after the abort

vars  == <<pass, phase, job, answer, arrived, statuses, abort, retryFile,
           mergedFile, tested, measured, unbooked, lapsed, late>>
pool  == <<job, answer, arrived>>
files == <<retryFile, mergedFile>>
history == <<tested, measured, unbooked, lapsed>>

\* What deploy_and_grade records for a subset grade.  "ran" is not in the
\* file: it says which of the blocked probes the grade measured.
Answer == [graded : BOOLEAN, chal : BOOLEAN, ran : SUBSET Probes, blocked : SUBSET Probes]
Merged == [blocked : SUBSET Probes, recovered : SUBSET Probes, stage : Stages]

Progress == {"queued", "throttled", "grading", "finished", "skipped", "collected"}

Failed    == [graded |-> FALSE, chal |-> FALSE, ran |-> {}, blocked |-> {}]
Preflight == [graded |-> FALSE, chal |-> TRUE, ran |-> {}, blocked |-> {}]

\* The bot_challenge of a record, "" without one; it is only read when the retry
\* recovered nothing.
Record(j, signal, ran, booked) ==
    [graded |-> TRUE, chal |-> signal # "" /\ Blocked[j] \subseteq booked, ran |-> ran, blocked |-> booked]

\* A subset grade books what it did not run, pad probes included.
Graded(j) == {Record(j, signal, ran, (Blocked[j] \ ran) \cup pad) :
                  signal \in {"", "waf"}, ran \in SUBSET Blocked[j], pad \in SUBSET (Pad \ Blocked[j])}

\* A grade that met a shell page ends before the first probe and books none.  One
\* that a challenge under "?" stopped, which is not in the catalog, books what hung
\* and none of the probes it did not come to.
Lapsed(j) == {Record(j, "", {}, {})}
             \cup {a \in {Record(j, "waf", ran, hung) :
                             ran \in SUBSET Blocked[j], hung \in SUBSET (Blocked[j] \cup Pad)} :
                     a.ran \cap a.blocked = {}}

Answers(j) == {NoRecord, Failed, Preflight} \cup Graded(j) \cup Lapsed(j)

\* main() returns at once when nothing was blocked.
Opening == IF Jobs = {} THEN "done" ELSE "grade"

Fresh == /\ phase = Opening
         /\ job = [j \in Jobs |-> "queued"]
         /\ answer = [j \in Jobs |-> NoRecord]
         /\ arrived = <<>>
         /\ statuses = <<>>
         /\ abort = FALSE
         /\ late = 0

Init == /\ Fresh
        /\ pass = 1
        /\ retryFile = [j \in Jobs |-> NoRecord]
        /\ mergedFile = <<>>
        /\ tested = [j \in Jobs |-> {}]
        /\ measured = [j \in Jobs |-> {}]
        /\ unbooked = [j \in Jobs |-> {}]
        /\ lapsed = [j \in Jobs |-> {}]

-----------------------------------------------------------------------------
(* A worker of the pool: _retry_one.                                       *)

Busy    == {j \in Jobs : job[j] \in {"throttled", "grading"}}
Waiting == {j \in Jobs : job[j] = "throttled"}

\* Mutant: a skipped job never becomes a finished future.
BugTakeLost(j) ==
    /\ phase = "grade"
    /\ job[j] = "queued"
    /\ \A i \in Jobs : i < j => job[i] # "queued"
    /\ Cardinality(Busy) < Workers
    /\ job' = [job EXCEPT ![j] = IF abort THEN "skipped" ELSE "throttled"]
    /\ UNCHANGED <<pass, phase, answer, arrived, statuses, abort, files, history, late>>

\* Mutant: the breaker is not looked at before a job starts.
BugTake(j) == /\ phase = "grade"
              /\ job[j] = "queued"
              /\ \A i \in Jobs : i < j => job[i] # "queued"
              /\ Cardinality(Busy) < Workers
              /\ job' = [job EXCEPT ![j] = "throttled"]
              /\ UNCHANGED <<pass, phase, answer, arrived, statuses, abort, files, history, late>>

\* A free worker takes the next job: it is skipped when the breaker tripped,
\* and waits for its turn in _throttle otherwise.
Take(j) == /\ phase = "grade"
           /\ job[j] = "queued"
           /\ \A i \in Jobs : i < j => job[i] # "queued"
           /\ Cardinality(Busy) < Workers
           /\ \/ /\ abort
                 /\ job' = [job EXCEPT ![j] = "skipped"]
                 /\ arrived' = Append(arrived, j)
              \/ /\ ~abort
                 /\ job' = [job EXCEPT ![j] = "throttled"]
                 /\ UNCHANGED arrived
           /\ UNCHANGED <<pass, phase, answer, statuses, abort, files, history, late>>

\* The throttle lets the job go: the grade's process starts.
Launch(j) == /\ phase = "grade"
             /\ job[j] = "throttled"
             /\ job' = [job EXCEPT ![j] = "grading"]
             /\ late' = IF abort THEN late + 1 ELSE late
             /\ UNCHANGED <<pass, phase, answer, arrived, statuses, abort, files, history>>

Ran(a) == IF a = NoRecord THEN {} ELSE a.ran

\* What a grade was given and neither measured nor booked.
Unbooked(a, j) == IF a = NoRecord THEN {}
                  ELSE IF a.graded THEN Blocked[j] \ (a.ran \cup a.blocked) ELSE {}

\* The grade ends, or is killed at its timeout, and its record is read back.
Finish(j) == /\ phase = "grade"
             /\ job[j] = "grading"
             /\ job' = [job EXCEPT ![j] = "finished"]
             /\ arrived' = Append(arrived, j)
             /\ \E a \in Answers(j) :
                   /\ answer' = [answer EXCEPT ![j] = a]
                   /\ tested' = [tested EXCEPT ![j] = @ \cup Ran(a)]
                   /\ measured' = [measured EXCEPT ![j] = Ran(a)]
                   /\ unbooked' = [unbooked EXCEPT ![j] = @ \cup Unbooked(a, j)]
                   /\ lapsed' = [lapsed EXCEPT ![j] = Unbooked(a, j)]
             /\ UNCHANGED <<pass, phase, statuses, abort, files, late>>

-----------------------------------------------------------------------------
(* The collector: main().                                                  *)

\* Mutant: one challenge too few is enough.
BugLooksLikeIpBlock(s) ==
    /\ Sample > 0
    /\ Len(s) >= Sample - 1
    /\ \A i \in 1 .. Len(s) : i > Len(s) - Sample => s[i] = "none"

\* The last Sample WAF verdicts recovered nothing.
LooksLikeIpBlock(s) ==
    /\ Sample > 0
    /\ Len(s) >= Sample
    /\ \A i \in 1 .. Len(s) : i > Len(s) - Sample => s[i] = "none"

StillBlocked(a, blocked) == a.blocked \cap blocked

\* _status, as far as the breaker reads it: a verdict of the WAF or none.
Status(a, blocked) ==
    IF a = NoRecord THEN "dnf"
    ELSE IF ~a.graded THEN IF a.chal THEN "none" ELSE "dnf"
    ELSE IF StillBlocked(a, blocked) # blocked THEN "recovered"
    ELSE IF a.chal THEN "none" ELSE "neutral"

\* as_completed hands over the next finished future.
Collect == /\ phase = "grade"
           /\ arrived # <<>>
           /\ LET j == Head(arrived)
                  s == Status(answer[j], Blocked[j])
              IN  /\ job' = [job EXCEPT ![j] = "collected"]
                  /\ statuses' = IF job[j] = "finished" /\ s \in {"none", "recovered"}
                                 THEN Append(statuses, s) ELSE statuses
                  /\ abort' = (abort \/ (job[j] = "finished" /\ LooksLikeIpBlock(statuses')))
           /\ arrived' = Tail(arrived)
           /\ UNCHANGED <<pass, phase, answer, files, history, late>>

\* Mutant: a failed retry is taken for one that left nothing blocked.
BugMerge(r, a) ==
    LET still == StillBlocked(a, Blocked[r])
    IN  [blocked |-> still, recovered |-> Blocked[r] \ still, stage |-> Stage[r]]

Merge(r, a) ==
    LET still == IF a.graded THEN StillBlocked(a, Blocked[r]) ELSE Blocked[r]
    IN  [blocked |-> still, recovered |-> Blocked[r] \ still, stage |-> Stage[r]]

\* What the process holds in memory is gone with it.
Forget == /\ job' = [j \in Jobs |-> "queued"]
          /\ answer' = [j \in Jobs |-> NoRecord]
          /\ arrived' = <<>>
          /\ statuses' = <<>>
          /\ abort' = FALSE
          /\ late' = 0

JobOf(r) == CHOOSE j \in Jobs : UrlOf[j] = UrlOf[r]

\* Mutant: the records that need no retry are not copied.
BugFolded(collected) ==
    [r \in Jobs |->
        IF collected[JobOf(r)] # NoRecord
        THEN Merge(r, collected[JobOf(r)])
        ELSE [blocked |-> Blocked[r], recovered |-> {}, stage |-> Stage[r]]]

\* _fold_and_summary: every blocked record of a retried url is folded, the others
\* are copied.
Folded(collected) ==
    [r \in Records |->
        IF Retried(r) /\ collected[JobOf(r)] # NoRecord
        THEN Merge(r, collected[JobOf(r)])
        ELSE [blocked |-> Blocked[r], recovered |-> {}, stage |-> Stage[r]]]

\* Mutant: the retry file is opened for append: it keeps the records of an
\* earlier pass, and the later one of an app is not what the fold used.
BugPersist == /\ phase = "grade"
              /\ \A j \in Jobs : job[j] = "collected"
              /\ phase' = "done"
              /\ retryFile' = [j \in Jobs |-> IF answer[j] = NoRecord THEN retryFile[j] ELSE answer[j]]
              /\ mergedFile' = Folded(answer)
              /\ Forget
              /\ UNCHANGED <<pass, history>>

Persist == /\ phase = "grade"
           /\ \A j \in Jobs : job[j] = "collected"
           /\ phase' = "fold"
           /\ retryFile' = answer
           /\ UNCHANGED <<pass, pool, statuses, abort, mergedFile, history, late>>

Fold == /\ phase = "fold"
        /\ phase' = "done"
        /\ mergedFile' = Folded(answer)
        /\ Forget
        /\ UNCHANGED <<pass, retryFile, history>>

-----------------------------------------------------------------------------
(* The script as the operator runs it.                                     *)

\* Killed while it grades: no file has been opened.
KilledGrading == /\ phase = "grade"
                 /\ phase' = "dead"
                 /\ Forget
                 /\ UNCHANGED <<pass, files, history>>

\* Killed while it writes the retry file: some records are missing.
KilledPersisting == /\ phase = "grade"
                    /\ \A j \in Jobs : job[j] = "collected"
                    /\ phase' = "dead"
                    /\ \E w \in SUBSET Jobs :
                          retryFile' = [j \in Jobs |-> IF j \in w THEN answer[j] ELSE NoRecord]
                    /\ Forget
                    /\ UNCHANGED <<pass, mergedFile, history>>

\* Killed while it writes the merged file: the last lines are missing.
KilledFolding == /\ phase = "fold"
                 /\ phase' = "dead"
                 /\ \E n \in 0 .. R - 1 : mergedFile' = [r \in 1 .. n |-> Folded(answer)[r]]
                 /\ Forget
                 /\ UNCHANGED <<pass, retryFile, history>>

\* --remerge: re-fold the retry file.
Remerge == /\ phase \in {"done", "dead"}
           /\ \E j \in Jobs : retryFile[j] # NoRecord
           /\ mergedFile' = Folded(retryFile)
           /\ UNCHANGED <<pass, phase, pool, statuses, abort, retryFile, history, late>>

Rerun == /\ phase \in {"done", "dead"}
         /\ pass < MaxPasses
         /\ pass' = pass + 1
         /\ phase' = Opening
         /\ measured' = [j \in Jobs |-> {}]
         /\ lapsed' = [j \in Jobs |-> {}]
         /\ Forget
         /\ UNCHANGED <<files, tested, unbooked>>

Killed == KilledGrading \/ KilledPersisting \/ KilledFolding
Step   == (\E j \in Jobs : Take(j) \/ Launch(j) \/ Finish(j)) \/ Collect \/ Persist \/ Fold
Next   == Step \/ Killed \/ Remerge \/ Rerun

\* The pool and the collector run on; every grade has a timeout.
Spec == Init /\ [][Next]_vars /\ WF_vars(Step)

-----------------------------------------------------------------------------
\* The merged file has a line per record, unless its writing was cut short.
MergedFileOK == \E n \in 0 .. R : mergedFile \in [1 .. n -> Merged]

TypeOK == /\ pass \in 1 .. MaxPasses
          /\ phase \in {"grade", "fold", "done", "dead"}
          /\ job \in [Jobs -> Progress]
          /\ answer \in [Jobs -> Answer \cup {NoRecord}]
          /\ arrived \in Seq(Jobs)
          /\ statuses \in Seq({"none", "recovered"})
          /\ abort \in BOOLEAN
          /\ retryFile \in [Jobs -> Answer \cup {NoRecord}]
          /\ MergedFileOK
          /\ tested \in [Jobs -> SUBSET Probes]
          /\ measured \in [Jobs -> SUBSET Probes]
          /\ unbooked \in [Jobs -> SUBSET Probes]
          /\ lapsed \in [Jobs -> SUBSET Probes]
          /\ late \in Nat

\* Every probe the merged file clears was run by a retry of that url: merge of
\* retry_blocked.py says of them "ran in the retry (clean OR fired)".
ClearedRan == \A r \in DOMAIN mergedFile :
                  mergedFile[r].recovered # {} => mergedFile[r].recovered \subseteq tested[JobOf(r)]

\* The probes of a record that its job, an earlier record of the url, lacks.
Unasked(r) == Blocked[r] \ Blocked[JobOf(r)]

\* A failed, skipped or lost retry, a kill, a re-fold of an older retry file never
\* clear a block.  A probe the merged file clears was measured by a retry of that
\* url, with two exceptions: a retry that graded neither ran nor booked it (it met
\* a shell page, or stopped under "?"), or the retry was not asked for it (it was
\* made for an earlier record of the url).
RecoveredRan ==
    \A r \in DOMAIN mergedFile : mergedFile[r].recovered # {} =>
        mergedFile[r].recovered \subseteq tested[JobOf(r)] \cup unbooked[JobOf(r)] \cup Unasked(r)

\* The breaker, the pool and the failed grades lose or invent no answer: what a
\* pass that ran to its end measured is what the merged file clears, and with it
\* only what a grade of the pass neither ran nor booked.
MergedIsExact == phase = "done" =>
    \A r \in Jobs : /\ mergedFile[r].recovered = measured[r] \cup lapsed[r]
                    /\ mergedFile[r].blocked = Blocked[r] \ mergedFile[r].recovered

\* The apps of this pass that were challenged and gave nothing back.
Evidence == {j \in Jobs : job[j] = "collected" /\ Status(answer[j], Blocked[j]) = "none"}

\* The breaker gives up only on evidence: when a job was skipped, at least
\* Sample apps of this pass were challenged and gave nothing back.
SkipsNeedEvidence ==
    (\E j \in Jobs : job[j] = "skipped") => Cardinality(Evidence) >= Sample

\* main() of retry_blocked.py: the collector's breaker stops only a pass the
\* edge has stopped answering, and whatever it and the pool drop or reorder,
\* the merged file clears what the retries of the pass measured, or left unbooked,
\* and nothing else.
PoolIsExact == SkipsNeedEvidence /\ MergedIsExact

\* After the breaker trips, only workers already past the check launch.
LateLaunchesBounded == late <= Workers

\* Between two passes the merged file never changes: --remerge of a pass
\* that ended gives back the file the pass wrote.
RemergeChangesNothing == [][phase = "done" /\ pass' = pass => mergedFile' = mergedFile]_vars

\* A pass that is not killed folds what it has, breaker or not.
EventuallyFolded == phase = "grade" ~> phase \in {"done", "dead"}

-----------------------------------------------------------------------------
(* The inductive invariants of the proofs in RetryPassProofs.               *)

\* The verdicts the breaker has counted that recovered nothing.
Nones == {i \in 1 .. Len(statuses) : statuses[i] = "none"}

\* Every verdict the breaker counted is some app's, no app is counted twice, and
\* only a tripped breaker skips.
EvidenceInv == /\ Cardinality(Nones) <= Cardinality(Evidence)
               /\ abort => Cardinality(Evidence) >= Sample
               /\ (\E j \in Jobs : job[j] = "skipped") => abort

\* The probes the fold clears for an answer.
Unblocks(a, j) == IF a = NoRecord THEN {}
                  ELSE IF a.graded THEN Blocked[j] \ a.blocked ELSE {}

\* The merged file a pass leaves is the fold of the retry file it leaves.
FilesInv == /\ phase = "fold" => retryFile = answer
            /\ phase = "done" /\ Jobs # {} => mergedFile = Folded(retryFile)

\* An answer unblocks what its grade measured or left unbooked, in the collector's
\* memory and in the retry file.
ExactInv ==
    /\ \A j \in Jobs : job[j] \in {"queued", "throttled", "grading"} => answer[j] = NoRecord
    /\ phase \in {"grade", "fold"} => \A j \in Jobs : Unblocks(answer[j], j) = measured[j] \cup lapsed[j]
    /\ phase = "done" => \A j \in Jobs : Unblocks(retryFile[j], j) = measured[j] \cup lapsed[j]
=============================================================================
