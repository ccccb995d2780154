-------------------------- MODULE RetryPassProofs --------------------------
(***************************************************************************)
(* Theorems about every retry pass: whatever the results file, the number  *)
(* of workers, the breaker's sample and the number of passes.              *)
(***************************************************************************)
EXTENDS RetryPass, TLAPS, FiniteSetTheorems, WellFoundedInduction

USE DEF pool, files, history

\* Every blocked record of a url has a job, the first blocked record of that url.
LEMMA JobExists ==
    ASSUME NEW r \in Records, Retried(r)
    PROVE  /\ JobOf(r) \in Jobs
           /\ UrlOf[JobOf(r)] = UrlOf[r]
<1> DEFINE Same == {s \in Records : Blocked[s] # {} /\ UrlOf[s] = UrlOf[r]}
<1>1. Same \subseteq Nat /\ Same # {}
  BY RecordsAssumption DEF RecordsAssumption, Records, Retried
<1> HIDE DEF Same
<1>2. PICK j \in Same : \A s \in Same : <<s, j>> \notin OpToRel(<, Nat)
  BY <1>1, NatLessThanWellFounded, WFMin
<1>3. \A s \in Same : ~(s < j)
  BY <1>1, <1>2 DEF OpToRel
<1>4. j \in Jobs /\ UrlOf[j] = UrlOf[r]
  BY <1>3, RecordsAssumption DEF Same, Jobs, Retried, Records, RecordsAssumption
<1> QED BY <1>4 DEF JobOf

\* A process that starts, or has ended, holds well-typed memory.
LEMMA ForgetTyping ==
    ASSUME Forget
    PROVE  /\ job' \in [Jobs -> Progress]
           /\ answer' \in [Jobs -> Answer \cup {NoRecord}]
           /\ arrived' \in Seq(Jobs)
           /\ statuses' \in Seq({"none", "recovered"})
           /\ abort' \in BOOLEAN
           /\ late' \in Nat
<1>1. job' \in [Jobs -> Progress] /\ answer' \in [Jobs -> Answer \cup {NoRecord}]
  BY DEF Forget, Progress
<1>2. arrived' \in Seq(Jobs) /\ statuses' \in Seq({"none", "recovered"})
  BY DEF Forget
<1>3. abort' \in BOOLEAN BY Zenon DEF Forget
<1>4. late' \in Nat BY DEF Forget
<1> QED BY <1>1, <1>2, <1>3, <1>4

\* A full grade of a job is one of its records.
LEMMA GradedIsRecord ==
    ASSUME NEW j, NEW a \in Graded(j)
    PROVE  \E b \in {"", "waf"}, ran \in SUBSET Blocked[j], pad \in SUBSET (Pad \ Blocked[j]) :
               a = Record(j, b, ran, (Blocked[j] \ ran) \cup pad)
BY SMT DEF Graded, Record

\* What a grade of a job may read back is a retry record or none.
LEMMA AnswersTyping ==
    ASSUME NEW j \in Jobs
    PROVE  Answers(j) \subseteq Answer \cup {NoRecord}
<1> USE RecordsAssumption DEF RecordsAssumption
<1>1. Blocked[j] \subseteq Probes
  BY DEF Jobs
<1>2. ASSUME NEW chal, NEW ran \in SUBSET Probes, NEW booked \in SUBSET Probes
      PROVE  Record(j, chal, ran, booked) \in Answer
  <2>1. (chal # "" /\ Blocked[j] \subseteq booked) \in BOOLEAN
    OBVIOUS
  <2> QED BY <2>1, Zenon DEF Record, Answer
<1>3. Graded(j) \cup Lapsed(j) \subseteq Answer
  <2>1. ASSUME NEW ran \in SUBSET Blocked[j], NEW pad \in SUBSET (Blocked[j] \cup Pad)
        PROVE  /\ ran \in SUBSET Probes
               /\ pad \in SUBSET Probes
               /\ (Blocked[j] \ ran) \cup pad \in SUBSET Probes
    BY <1>1
  <2>2. ASSUME NEW a \in Graded(j) PROVE a \in Answer
    <3>1. PICK b \in {"", "waf"}, ran \in SUBSET Blocked[j], pad \in SUBSET (Pad \ Blocked[j]) :
              a = Record(j, b, ran, (Blocked[j] \ ran) \cup pad)
      BY GradedIsRecord
    <3>2. pad \in SUBSET (Blocked[j] \cup Pad)
      OBVIOUS
    <3> QED BY <1>2, <2>1, <3>1, <3>2
  <2>3. ASSUME NEW a \in Lapsed(j) PROVE a \in Answer
    <3>1. CASE a = Record(j, "", {}, {})
      BY <1>2, <3>1
    <3>2. CASE a # Record(j, "", {}, {})
      <4>1. PICK ran \in SUBSET Blocked[j], hung \in SUBSET (Blocked[j] \cup Pad) :
                a = Record(j, "waf", ran, hung)
        BY <3>2, SMT DEF Lapsed, Record
      <4> QED BY <1>2, <2>1, <4>1
    <3> QED BY <3>1, <3>2
  <2> QED BY <2>2, <2>3
<1>4. Failed \in Answer /\ Preflight \in Answer
  BY DEF Failed, Preflight, Answer
<1> QED BY <1>3, <1>4 DEF Answers

\* Folding keeps one record per line of the results file.
LEMMA FoldedTyping ==
    ASSUME NEW c \in [Jobs -> Answer \cup {NoRecord}]
    PROVE  Folded(c) \in [Records -> Merged]
<1> USE RecordsAssumption DEF RecordsAssumption
<1> SUFFICES ASSUME NEW r \in Records PROVE Folded(c)[r] \in Merged
  BY DEF Folded
<1>1. Blocked[r] \subseteq Probes /\ Stage[r] \in Stages
  OBVIOUS
<1>2. CASE Retried(r) /\ c[JobOf(r)] # NoRecord
  <2>1. c[JobOf(r)] \in Answer BY <1>2, JobExists
  <2>2. Merge(r, c[JobOf(r)]) \in Merged
    <3> DEFINE a == c[JobOf(r)]
               still == IF a.graded THEN StillBlocked(a, Blocked[r]) ELSE Blocked[r]
    <3>1. still \in SUBSET Probes BY <1>1 DEF StillBlocked
    <3>2. Merge(r, a) = [blocked |-> still, recovered |-> Blocked[r] \ still, stage |-> Stage[r]]
      BY DEF Merge
    <3> HIDE DEF still, a
    <3> QED BY <3>1, <3>2, <1>1 DEF Merged, a
  <2> QED BY <1>2, <2>2 DEF Folded
<1>3. CASE ~(Retried(r) /\ c[JobOf(r)] # NoRecord)
  BY <1>1, <1>3 DEF Folded, Merged
<1> QED BY <1>2, <1>3

\* Every variable of a retry pass keeps its type.
THEOREM RetryTyping == Spec => []TypeOK
<1> USE RecordsAssumption, PoolAssumption DEF RecordsAssumption, PoolAssumption
<1>1. Init => TypeOK
  <2> SUFFICES ASSUME Init PROVE TypeOK OBVIOUS
  <2>1. MergedFileOK
    <3>1. mergedFile \in [1 .. 0 -> Merged] /\ 0 \in 0 .. R
      BY DEF Init
    <3> QED BY <3>1 DEF MergedFileOK
  <2>2. /\ job \in [Jobs -> Progress]
        /\ answer \in [Jobs -> Answer \cup {NoRecord}]
        /\ retryFile \in [Jobs -> Answer \cup {NoRecord}]
        /\ tested \in [Jobs -> SUBSET Probes]
        /\ measured \in [Jobs -> SUBSET Probes]
        /\ unbooked \in [Jobs -> SUBSET Probes]
        /\ lapsed \in [Jobs -> SUBSET Probes]
    BY DEF Init, Fresh, Progress
  <2>3. arrived \in Seq(Jobs) /\ statuses \in Seq({"none", "recovered"})
    BY DEF Init, Fresh
  <2>4. pass \in 1 .. MaxPasses /\ phase \in {"grade", "done"} /\ abort = FALSE /\ late = 0
    BY DEF Init, Fresh, Opening
  <2> QED BY <2>1, <2>2, <2>3, <2>4 DEF TypeOK
<1>2. TypeOK /\ [Next]_vars => TypeOK'
  <2> SUFFICES ASSUME TypeOK, [Next]_vars PROVE TypeOK'
    OBVIOUS
  <2> USE DEF TypeOK, Progress
  <2>0. /\ mergedFile' = mergedFile => MergedFileOK'
        /\ \A n \in 0 .. R : mergedFile' \in [1 .. n -> Merged] => MergedFileOK'
    BY DEF MergedFileOK
  <2>1. ASSUME NEW j \in Jobs, Take(j) PROVE TypeOK'
    <3>1. arrived' \in Seq(Jobs)
      <4>1. arrived \in Seq(Jobs) OBVIOUS
      <4>2. arrived' = arrived \/ arrived' = Append(arrived, j) BY <2>1 DEF Take
      <4> HIDE DEF TypeOK
      <4> QED BY <4>1, <4>2
    <3>2. job' \in [Jobs -> Progress] BY <2>1 DEF Take
    <3> QED BY <2>0, <2>1, <3>1, <3>2 DEF Take
  <2>2. ASSUME NEW j \in Jobs, Launch(j) PROVE TypeOK' BY <2>0, <2>2 DEF Launch
  <2>3. ASSUME NEW j \in Jobs, Finish(j) PROVE TypeOK'
    <3>1. PICK a \in Answers(j) :
             /\ answer' = [answer EXCEPT ![j] = a]
             /\ tested' = [tested EXCEPT ![j] = @ \cup Ran(a)]
             /\ measured' = [measured EXCEPT ![j] = Ran(a)]
             /\ unbooked' = [unbooked EXCEPT ![j] = @ \cup Unbooked(a, j)]
             /\ lapsed' = [lapsed EXCEPT ![j] = Unbooked(a, j)]
      BY <2>3 DEF Finish
    <3>2. a \in Answer \cup {NoRecord} BY AnswersTyping
    <3>3. Ran(a) \subseteq Probes /\ Unbooked(a, j) \subseteq Probes
      <4>1. Blocked[j] \subseteq Probes BY DEF Jobs
      <4> QED BY <3>2, <4>1 DEF Answer, Ran, Unbooked
    <3>4. /\ tested' \in [Jobs -> SUBSET Probes] /\ measured' \in [Jobs -> SUBSET Probes]
          /\ unbooked' \in [Jobs -> SUBSET Probes] /\ lapsed' \in [Jobs -> SUBSET Probes]
      BY <3>1, <3>3
    <3>5. answer' \in [Jobs -> Answer \cup {NoRecord}] BY <3>1, <3>2
    <3> QED BY <2>0, <2>3, <3>4, <3>5 DEF Finish
  <2>4. CASE Collect
    <3> DEFINE j == Head(arrived)
               s == Status(answer[j], Blocked[j])
    <3>1. j \in Jobs BY <2>4 DEF Collect
    <3>2. job' = [job EXCEPT ![j] = "collected"] /\ arrived' = Tail(arrived)
      BY <2>4 DEF Collect
    <3>3. statuses' = IF job[j] = "finished" /\ s \in {"none", "recovered"}
                      THEN Append(statuses, s) ELSE statuses
      BY <2>4 DEF Collect
    <3>4. abort' = (abort \/ (job[j] = "finished" /\ LooksLikeIpBlock(statuses')))
      BY <2>4 DEF Collect
    <3>5. arrived' \in Seq(Jobs) BY <2>4, <3>2 DEF Collect
    <3> HIDE DEF s, j
    <3>6. statuses' \in Seq({"none", "recovered"}) BY <3>3
    <3>7. abort' \in BOOLEAN BY <3>4
    <3>8. job' \in [Jobs -> Progress] BY <3>1, <3>2
    <3> QED BY <2>0, <2>4, <3>5, <3>6, <3>7, <3>8 DEF Collect
  <2>5. CASE Persist BY <2>0, <2>5 DEF Persist
  <2>6. CASE Fold
    <3>1. Folded(answer) \in [1 .. R -> Merged] BY FoldedTyping DEF Records
    <3>2. R \in 0 .. R /\ mergedFile' \in [1 .. R -> Merged]
      BY <2>6, <3>1 DEF Fold
    <3>3. MergedFileOK' BY <3>2 DEF MergedFileOK
    <3> QED BY <2>0, <2>6, <3>3, ForgetTyping DEF Fold
  <2>7. CASE KilledGrading BY <2>0, <2>7, ForgetTyping DEF KilledGrading
  <2>8. CASE KilledPersisting BY <2>0, <2>8, ForgetTyping DEF KilledPersisting
  <2>9. CASE KilledFolding
    <3>1. Folded(answer) \in [1 .. R -> Merged] BY FoldedTyping DEF Records
    <3>2. PICK n \in 0 .. R - 1 : mergedFile' = [r \in 1 .. n |-> Folded(answer)[r]]
      BY <2>9 DEF KilledFolding
    <3>3. n \in 0 .. R /\ mergedFile' \in [1 .. n -> Merged] BY <3>1, <3>2
    <3>4. MergedFileOK' BY <3>3 DEF MergedFileOK
    <3> QED BY <2>0, <2>9, <3>4, ForgetTyping DEF KilledFolding
  <2>10. CASE Remerge
    <3>1. Folded(retryFile) \in [1 .. R -> Merged] BY FoldedTyping DEF Records
    <3>2. R \in 0 .. R /\ mergedFile' \in [1 .. R -> Merged]
      BY <2>10, <3>1 DEF Remerge
    <3>3. MergedFileOK' BY <3>2 DEF MergedFileOK
    <3> HIDE DEF MergedFileOK, Progress
    <3> QED BY <2>10, <3>3 DEF Remerge
  <2>11. CASE Rerun
    <3>1. pass' \in 1 .. MaxPasses /\ phase' \in {"grade", "done"}
      BY <2>11 DEF Rerun, Opening
    <3> QED BY <2>0, <2>11, <3>1, ForgetTyping DEF Rerun
  <2>12. CASE UNCHANGED vars BY <2>0, <2>12 DEF vars
  <2> QED
    BY <2>1, <2>2, <2>3, <2>4, <2>5, <2>6, <2>7, <2>8, <2>9, <2>10, <2>11, <2>12
    DEF Next, Step, Killed
<1> QED BY <1>1, <1>2, PTL DEF Spec

-----------------------------------------------------------------------------
(* No false clear.                                                         *)

\* A retry record is of a retry of this job: what it says it ran was measured, and
\* what it neither ran nor booked is known.
Honest(a, j, seen, lost) ==
    a # NoRecord => a.ran \subseteq seen /\ Unbooked(a, j) \subseteq lost

Cleared(file, seen, lost) ==
    \A r \in DOMAIN file : file[r].recovered # {} =>
        /\ JobOf(r) \in Jobs
        /\ file[r].recovered \subseteq seen[JobOf(r)] \cup lost[JobOf(r)] \cup Unasked(r)

\* The answers of this pass and the retry file on disk, whichever pass wrote
\* it, are honest, and the merged file clears only what they account for.
RecoveryInv ==
    /\ \A j \in Jobs : /\ Honest(answer[j], j, tested[j], unbooked[j])
                       /\ Honest(retryFile[j], j, tested[j], unbooked[j])
    /\ Cleared(mergedFile, tested, unbooked)

\* Folding honest answers clears only what they account for.
LEMMA FoldedRan ==
    ASSUME NEW c \in [Jobs -> Answer \cup {NoRecord}],
           NEW seen \in [Jobs -> SUBSET Probes], NEW lost \in [Jobs -> SUBSET Probes],
           \A j \in Jobs : Honest(c[j], j, seen[j], lost[j])
    PROVE  Cleared(Folded(c), seen, lost)
<1> SUFFICES ASSUME NEW r \in Records, Folded(c)[r].recovered # {}
             PROVE  /\ JobOf(r) \in Jobs
                    /\ Folded(c)[r].recovered \subseteq seen[JobOf(r)] \cup lost[JobOf(r)] \cup Unasked(r)
  BY DEF Cleared, Folded
<1>1. Retried(r) /\ c[JobOf(r)] # NoRecord
  BY DEF Folded
<1>2. JobOf(r) \in Jobs
  BY <1>1, JobExists
<1> DEFINE a == c[JobOf(r)]
<1>3. Folded(c)[r] = Merge(r, a)
  BY <1>1 DEF Folded
<1>4. a.graded
  BY <1>3 DEF Merge
<1>5. Folded(c)[r].recovered = Blocked[r] \ (a.blocked \cap Blocked[r])
  BY <1>3, <1>4 DEF Merge, StillBlocked
<1>6. a.ran \subseteq seen[JobOf(r)] /\ Unbooked(a, JobOf(r)) \subseteq lost[JobOf(r)]
  BY <1>1, <1>2 DEF Honest
<1>7. Unbooked(a, JobOf(r)) = Blocked[JobOf(r)] \ (a.ran \cup a.blocked)
  BY <1>1, <1>4 DEF Unbooked
<1> HIDE DEF a
<1> QED BY <1>2, <1>5, <1>6, <1>7 DEF Unasked

\* Measuring more keeps what was cleared.
LEMMA MoreMeasured ==
    ASSUME NEW old \in [Jobs -> SUBSET Probes], NEW new \in [Jobs -> SUBSET Probes],
           NEW gone \in [Jobs -> SUBSET Probes], NEW lost \in [Jobs -> SUBSET Probes],
           \A j \in Jobs : old[j] \subseteq new[j] /\ gone[j] \subseteq lost[j]
    PROVE  \A file : Cleared(file, old, gone) => Cleared(file, new, lost)
BY DEF Cleared

\* A process that starts, or has ended, holds no answer.
LEMMA ForgetHonest ==
    ASSUME Forget
    PROVE  \A j \in Jobs : Honest(answer'[j], j, tested'[j], unbooked'[j])
BY DEF Forget, Honest

\* In every pass, kill and re-fold, a probe the merged file clears was measured by
\* a retry, or a retry that graded left it unbooked or was not asked for it.
THEOREM RetryRecoversWhatRan == Spec => []RecoveredRan
<1>1. Init => RecoveryInv
  BY DEF Init, Fresh, RecoveryInv, Honest, Cleared
<1>2. TypeOK /\ TypeOK' /\ RecoveryInv /\ [Next]_vars => RecoveryInv'
  <2> SUFFICES ASSUME TypeOK, TypeOK', RecoveryInv, [Next]_vars PROVE RecoveryInv'
    OBVIOUS
  <2>0. /\ answer \in [Jobs -> Answer \cup {NoRecord}]
        /\ retryFile \in [Jobs -> Answer \cup {NoRecord}]
        /\ tested \in [Jobs -> SUBSET Probes]
        /\ tested' \in [Jobs -> SUBSET Probes]
        /\ unbooked \in [Jobs -> SUBSET Probes]
        /\ unbooked' \in [Jobs -> SUBSET Probes]
    BY DEF TypeOK
  <2> USE DEF RecoveryInv
  <2>1. ASSUME NEW j \in Jobs, Take(j) PROVE RecoveryInv' BY <2>1 DEF Take
  <2>2. ASSUME NEW j \in Jobs, Launch(j) PROVE RecoveryInv' BY <2>2 DEF Launch
  <2>3. ASSUME NEW j \in Jobs, Finish(j) PROVE RecoveryInv'
    <3>1. PICK a \in Answers(j) :
             /\ answer' = [answer EXCEPT ![j] = a]
             /\ tested' = [tested EXCEPT ![j] = @ \cup Ran(a)]
             /\ unbooked' = [unbooked EXCEPT ![j] = @ \cup Unbooked(a, j)]
      BY <2>3 DEF Finish
    <3>2. \A i \in Jobs : tested[i] \subseteq tested'[i] /\ unbooked[i] \subseteq unbooked'[i]
      BY <2>0, <3>1
    <3>3. Honest(a, j, tested'[j], unbooked'[j])
      <4>1. Ran(a) \subseteq tested'[j] /\ Unbooked(a, j) \subseteq unbooked'[j]
        BY <2>0, <3>1
      <4> QED BY <4>1 DEF Honest, Ran
    <3>4. ASSUME NEW i \in Jobs PROVE Honest(answer'[i], i, tested'[i], unbooked'[i])
      <4>1. CASE i = j BY <2>0, <3>1, <3>3, <4>1
      <4>2. CASE i # j
        <5>1. answer'[i] = answer[i] /\ tested'[i] = tested[i] /\ unbooked'[i] = unbooked[i]
          BY <2>0, <3>1, <4>2
        <5> QED BY <5>1
      <4> QED BY <4>1, <4>2
    <3>5. ASSUME NEW i \in Jobs PROVE Honest(retryFile[i], i, tested'[i], unbooked'[i])
      BY <3>2 DEF Honest
    <3>6. Cleared(mergedFile, tested', unbooked')
      BY <2>0, <3>2, MoreMeasured
    <3> QED BY <2>3, <3>4, <3>5, <3>6 DEF Finish
  <2>4. CASE Collect BY <2>4 DEF Collect
  <2>5. CASE Persist BY <2>5 DEF Persist
  <2>6. CASE Fold
    <3>1. Cleared(Folded(answer), tested, unbooked) BY <2>0, FoldedRan
    <3> QED BY <2>6, <3>1, ForgetHonest DEF Fold
  <2>7. CASE KilledGrading BY <2>7, ForgetHonest DEF KilledGrading
  <2>8. CASE KilledPersisting
    <3>1. \A j \in Jobs : retryFile'[j] = answer[j] \/ retryFile'[j] = NoRecord
      BY <2>8 DEF KilledPersisting
    <3> QED BY <2>8, <3>1, ForgetHonest DEF KilledPersisting, Honest
  <2>9. CASE KilledFolding
    <3>1. Cleared(Folded(answer), tested, unbooked) BY <2>0, FoldedRan
    <3>2. PICK n \in 0 .. R - 1 : mergedFile' = [r \in 1 .. n |-> Folded(answer)[r]]
      BY <2>9 DEF KilledFolding
    <3>3. \A r \in 1 .. n : r \in DOMAIN Folded(answer)
      BY RecordsAssumption DEF RecordsAssumption, Folded, Records
    <3>4. Cleared(mergedFile', tested, unbooked) BY <3>1, <3>2, <3>3 DEF Cleared
    <3> QED BY <2>9, <3>4, ForgetHonest DEF KilledFolding
  <2>10. CASE Remerge
    <3>1. Cleared(Folded(retryFile), tested, unbooked) BY <2>0, FoldedRan
    <3> QED BY <2>10, <3>1 DEF Remerge
  <2>11. CASE Rerun BY <2>11, ForgetHonest DEF Rerun
  <2>12. CASE UNCHANGED vars BY <2>12 DEF vars
  <2> QED
    BY <2>1, <2>2, <2>3, <2>4, <2>5, <2>6, <2>7, <2>8, <2>9, <2>10, <2>11, <2>12
    DEF Next, Step, Killed
<1>3. RecoveryInv => RecoveredRan
  BY DEF RecoveryInv, Cleared, RecoveredRan
<1> QED BY <1>1, <1>2, <1>3, RetryTyping, PTL DEF Spec

-----------------------------------------------------------------------------
(* Launches after the abort.                                               *)

\* The pool never runs more than its workers; once the breaker tripped, the
\* throttled jobs are all that is left to launch.
PoolInv == /\ Cardinality(Busy) <= Workers
           /\ ~abort => late = 0
           /\ abort => late + Cardinality(Waiting) <= Workers

LEMMA PoolFinite ==
    /\ IsFiniteSet(Busy) /\ Cardinality(Busy) \in Nat
    /\ IsFiniteSet(Waiting) /\ Cardinality(Waiting) \in Nat
    /\ Cardinality(Waiting) <= Cardinality(Busy)
<1>1. IsFiniteSet(1 .. R)
  BY FS_Interval, RecordsAssumption DEF RecordsAssumption
<1>2. Busy \subseteq 1 .. R /\ Waiting \subseteq Busy
  BY DEF Busy, Waiting, Jobs, Records
<1>3. IsFiniteSet(Busy)
  BY <1>1, <1>2, FS_Subset
<1>4. IsFiniteSet(Waiting) /\ Cardinality(Waiting) <= Cardinality(Busy)
  BY <1>2, <1>3, FS_Subset
<1> QED BY <1>3, <1>4, FS_CardinalityType

\* A step that leaves the busy and the waiting jobs alone, or retires some.
LEMMA PoolKept ==
    ASSUME PoolInv, TypeOK, Busy' \subseteq Busy, Waiting' = Waiting,
           late' = late, abort' = abort
    PROVE  PoolInv'
<1>1. IsFiniteSet(Busy') /\ Cardinality(Busy') <= Cardinality(Busy)
  BY PoolFinite, FS_Subset
<1>2. Cardinality(Busy') \in Nat
  BY <1>1, FS_CardinalityType
<1>3. late \in Nat /\ Workers \in Nat
  BY PoolAssumption DEF PoolAssumption, TypeOK
<1> QED BY <1>1, <1>2, <1>3, PoolFinite DEF PoolInv

\* A process that starts, or has ended, has no worker busy.
LEMMA ForgetPool ==
    ASSUME Forget
    PROVE  PoolInv'
<1>1. job' = [j \in Jobs |-> "queued"] /\ abort' = FALSE /\ late' = 0
  BY DEF Forget
<1>2. Busy' = {} BY <1>1 DEF Busy
<1> QED BY <1>1, <1>2, PoolAssumption, FS_EmptySet DEF PoolInv, PoolAssumption

\* After the breaker trips, only workers already past the check launch.
THEOREM RetryLateBounded == Spec => []LateLaunchesBounded
<1> USE PoolAssumption DEF PoolAssumption
<1>1. Init => PoolInv
  <2> SUFFICES ASSUME Init PROVE PoolInv OBVIOUS
  <2>1. Busy = {} /\ Waiting = {} BY DEF Init, Fresh, Busy, Waiting
  <2> QED BY <2>1, FS_EmptySet DEF Init, Fresh, PoolInv
<1>2. TypeOK /\ PoolInv /\ [Next]_vars => PoolInv'
  <2> SUFFICES ASSUME TypeOK, PoolInv, [Next]_vars PROVE PoolInv'
    OBVIOUS
  <2>0. job \in [Jobs -> Progress] /\ abort \in BOOLEAN /\ late \in Nat
    BY DEF TypeOK
  <2>1. ASSUME NEW j \in Jobs, Take(j) PROVE PoolInv'
    <3>1. late' = late /\ abort' = abort /\ Cardinality(Busy) < Workers /\ job[j] = "queued"
      BY <2>1 DEF Take
    <3>2. CASE abort
      <4>1. job' = [job EXCEPT ![j] = "skipped"] BY <2>1, <3>2 DEF Take
      <4>2. Busy' = Busy /\ Waiting' = Waiting BY <2>0, <3>1, <4>1 DEF Busy, Waiting
      <4> QED BY <3>1, <4>2, PoolKept
    <3>3. CASE ~abort
      <4>1. job' = [job EXCEPT ![j] = "throttled"] BY <2>1, <3>3 DEF Take
      <4>2. Busy' = Busy \cup {j} /\ j \notin Busy BY <2>0, <3>1, <4>1 DEF Busy
      <4>3. Cardinality(Busy') = Cardinality(Busy) + 1
        <5>1. Cardinality(Busy \cup {j}) = Cardinality(Busy) + 1
          BY <4>2, PoolFinite, FS_AddElement, Zenon
        <5> QED BY <4>2, <5>1
      <4>4. Cardinality(Busy') \in Nat
        BY <4>2, PoolFinite, FS_AddElement, FS_CardinalityType
      <4>5. Cardinality(Busy') <= Workers
        BY <3>1, <4>3, <4>4, PoolFinite
      <4> QED BY <3>1, <3>3, <4>5 DEF PoolInv
    <3> QED BY <3>2, <3>3
  <2>2. ASSUME NEW j \in Jobs, Launch(j) PROVE PoolInv'
    <3>1. /\ job[j] = "throttled" /\ job' = [job EXCEPT ![j] = "grading"]
          /\ abort' = abort /\ late' = IF abort THEN late + 1 ELSE late
      BY <2>2 DEF Launch
    <3>2. Busy' = Busy /\ Waiting' = Waiting \ {j} /\ j \in Waiting
      BY <2>0, <3>1 DEF Busy, Waiting
    <3>3. Cardinality(Waiting') = Cardinality(Waiting) - 1
      BY <3>2, PoolFinite, FS_RemoveElement
    <3> QED BY <2>0, <3>1, <3>2, <3>3, PoolFinite DEF PoolInv
  <2>3. ASSUME NEW j \in Jobs, Finish(j) PROVE PoolInv'
    <3>1. job[j] = "grading" /\ job' = [job EXCEPT ![j] = "finished"] /\ late' = late /\ abort' = abort
      BY <2>3 DEF Finish
    <3>2. Busy' \subseteq Busy /\ Waiting' = Waiting
      BY <2>0, <3>1 DEF Busy, Waiting
    <3> QED BY <3>1, <3>2, PoolKept
  <2>4. CASE Collect
    <3> DEFINE j == Head(arrived)
    <3>1. job' = [job EXCEPT ![j] = "collected"] /\ late' = late
      BY <2>4 DEF Collect
    <3>2. abort' = (abort \/ (job[j] = "finished" /\ LooksLikeIpBlock(statuses')))
      BY <2>4 DEF Collect
    <3>3. Busy' \subseteq Busy /\ Waiting' \subseteq Waiting
      BY <2>0, <3>1 DEF Busy, Waiting
    <3>4. IsFiniteSet(Busy') /\ Cardinality(Busy') <= Cardinality(Busy) /\ Cardinality(Busy') \in Nat
      BY <3>3, PoolFinite, FS_Subset, FS_CardinalityType
    <3>5. Cardinality(Waiting') <= Cardinality(Waiting) /\ Cardinality(Waiting') \in Nat
      BY <3>3, PoolFinite, FS_Subset, FS_CardinalityType
    <3>6. abort => abort' BY <2>0, <3>2
    <3> HIDE DEF j
    <3> QED BY <2>0, <3>1, <3>4, <3>5, <3>6, PoolFinite DEF PoolInv
  <2>5. CASE Persist BY <2>5 DEF Persist, PoolInv, Busy, Waiting
  <2>6. CASE Fold BY <2>6, ForgetPool DEF Fold
  <2>7. CASE KilledGrading BY <2>7, ForgetPool DEF KilledGrading
  <2>8. CASE KilledPersisting BY <2>8, ForgetPool DEF KilledPersisting
  <2>9. CASE KilledFolding BY <2>9, ForgetPool DEF KilledFolding
  <2>10. CASE Remerge BY <2>10 DEF Remerge, PoolInv, Busy, Waiting
  <2>11. CASE Rerun BY <2>11, ForgetPool DEF Rerun
  <2>12. CASE UNCHANGED vars BY <2>12 DEF vars, PoolInv, Busy, Waiting
  <2> QED
    BY <2>1, <2>2, <2>3, <2>4, <2>5, <2>6, <2>7, <2>8, <2>9, <2>10, <2>11, <2>12
    DEF Next, Step, Killed
<1>3. TypeOK /\ PoolInv => LateLaunchesBounded
  BY PoolFinite DEF PoolInv, LateLaunchesBounded, TypeOK
<1> QED BY <1>1, <1>2, <1>3, RetryTyping, PTL DEF Spec

-----------------------------------------------------------------------------
(* The breaker's evidence.                                                 *)

\* Whatever the jobs are about, they are finitely many.
LEMMA EvidenceSpace == IsFiniteSet(Jobs) /\ Evidence' \subseteq Jobs
<1>1. IsFiniteSet(1 .. R)
  BY FS_Interval, RecordsAssumption DEF RecordsAssumption
<1>2. Jobs \subseteq 1 .. R
  BY DEF Jobs, Records
<1> QED BY <1>1, <1>2, FS_Subset DEF Evidence

\* The counted verdicts and the apps they are about are finitely many.
LEMMA EvidenceFinite ==
    ASSUME TypeOK
    PROVE  /\ IsFiniteSet(Evidence) /\ Cardinality(Evidence) \in Nat
           /\ IsFiniteSet(Nones) /\ Cardinality(Nones) \in Nat
<1>1. IsFiniteSet(1 .. R)
  BY FS_Interval, RecordsAssumption DEF RecordsAssumption
<1>2. Evidence \subseteq 1 .. R
  BY DEF Evidence, Jobs, Records
<1>3. Len(statuses) \in Nat
  BY DEF TypeOK
<1>4. IsFiniteSet(1 .. Len(statuses)) /\ Nones \subseteq 1 .. Len(statuses)
  BY <1>3, FS_Interval DEF Nones
<1> QED BY <1>1, <1>2, <1>4, FS_Subset, FS_CardinalityType

\* What looks like an IP block is Sample verdicts that recovered nothing.
LEMMA BlockIsEvidence ==
    ASSUME NEW s \in Seq({"none", "recovered"}), LooksLikeIpBlock(s)
    PROVE  Sample <= Cardinality({i \in 1 .. Len(s) : s[i] = "none"})
<1> DEFINE last  == Len(s) - Sample + 1 .. Len(s)
           nones == {i \in 1 .. Len(s) : s[i] = "none"}
<1>1. Len(s) \in Nat /\ Sample \in Nat /\ Sample <= Len(s)
  BY PoolAssumption DEF PoolAssumption, LooksLikeIpBlock
<1>2. last \subseteq nones
  BY <1>1 DEF LooksLikeIpBlock
<1>3. Cardinality(last) = Sample
  BY <1>1, FS_Interval
<1>4. IsFiniteSet(1 .. Len(s)) /\ nones \subseteq 1 .. Len(s)
  BY <1>1, FS_Interval
<1>5. IsFiniteSet(nones)
  BY <1>4, FS_Subset
<1> HIDE DEF last, nones
<1>6. Cardinality(last) <= Cardinality(nones)
  BY <1>2, <1>5, FS_Subset
<1> QED BY <1>3, <1>6 DEF nones

\* A step that counts no verdict and takes no evidence away.
LEMMA EvidenceKept ==
    ASSUME TypeOK, TypeOK', EvidenceInv, Evidence \subseteq Evidence',
           statuses' = statuses, abort' = abort,
           \A j \in Jobs : job'[j] = "skipped" => job[j] = "skipped" \/ abort
    PROVE  EvidenceInv'
<1>1. Nones' = Nones
  BY DEF Nones
<1>2. IsFiniteSet(Evidence') /\ Cardinality(Evidence') \in Nat
  BY EvidenceSpace, FS_Subset, FS_CardinalityType
<1>3. Cardinality(Evidence) <= Cardinality(Evidence')
  BY <1>2, FS_Subset
<1>4. Sample \in Nat /\ abort \in BOOLEAN
  BY PoolAssumption DEF PoolAssumption, TypeOK
<1>5. Cardinality(Nones') <= Cardinality(Evidence')
  BY <1>1, <1>2, <1>3, EvidenceFinite DEF EvidenceInv
<1>6. abort' => Cardinality(Evidence') >= Sample
  BY <1>2, <1>3, <1>4, EvidenceFinite DEF EvidenceInv
<1>7. (\E j \in Jobs : job'[j] = "skipped") => abort'
  BY DEF EvidenceInv
<1> QED BY <1>5, <1>6, <1>7 DEF EvidenceInv

\* A process that starts, or has ended, has counted and skipped nothing.
LEMMA ForgetEvidence ==
    ASSUME Forget
    PROVE  EvidenceInv'
<1>1. statuses' = <<>> /\ abort' = FALSE /\ job' = [j \in Jobs |-> "queued"]
  BY Zenon DEF Forget
<1>2. Nones' = {}
  BY <1>1 DEF Nones
<1>3. Evidence' = {}
  BY <1>1 DEF Evidence
<1>4. Cardinality(Nones') = 0 /\ Cardinality(Evidence') = 0
  BY <1>2, <1>3, FS_EmptySet
<1>5. ~\E j \in Jobs : job'[j] = "skipped"
  BY <1>1
<1> QED BY <1>1, <1>4, <1>5 DEF EvidenceInv

\* A verdict is counted once, with the app it is about.
LEMMA CollectEvidence ==
    ASSUME TypeOK, TypeOK', EvidenceInv, Collect
    PROVE  EvidenceInv'
<1> DEFINE j == Head(arrived)
           s == Status(answer[j], Blocked[j])
<1>0. /\ job \in [Jobs -> Progress] /\ statuses \in Seq({"none", "recovered"})
      /\ statuses' \in Seq({"none", "recovered"}) /\ abort \in BOOLEAN
      /\ Sample \in Nat
  BY PoolAssumption DEF TypeOK, PoolAssumption
<1>1. j \in Jobs
  BY DEF Collect, TypeOK
<1>2. /\ job' = [job EXCEPT ![j] = "collected"] /\ answer' = answer
      /\ statuses' = IF job[j] = "finished" /\ s \in {"none", "recovered"}
                     THEN Append(statuses, s) ELSE statuses
      /\ abort' = (abort \/ (job[j] = "finished" /\ LooksLikeIpBlock(statuses')))
  BY DEF Collect
<1> HIDE DEF j
<1>3. Evidence \subseteq Evidence' /\ (s = "none" => j \in Evidence')
  BY <1>0, <1>1, <1>2 DEF Evidence
<1>4. job[j] = "finished" => j \notin Evidence
  BY DEF Evidence
<1> HIDE DEF s
<1>5. /\ IsFiniteSet(Evidence') /\ Cardinality(Evidence') \in Nat
      /\ Cardinality(Evidence) <= Cardinality(Evidence')
  BY <1>3, EvidenceSpace, FS_Subset, FS_CardinalityType
<1>6. Cardinality(Nones') <= Cardinality(Evidence')
  <2>1. CASE job[j] = "finished" /\ s = "none"
    <3>1. Nones' = Nones \cup {Len(statuses) + 1} /\ Len(statuses) + 1 \notin Nones
      BY <1>0, <1>2, <2>1 DEF Nones
    <3>2. Cardinality(Nones') = Cardinality(Nones) + 1
      BY <3>1, EvidenceFinite, FS_AddElement
    <3>3. IsFiniteSet(Evidence \cup {j}) /\ Cardinality(Evidence \cup {j}) = Cardinality(Evidence) + 1
      BY <1>4, <2>1, EvidenceFinite, FS_AddElement
    <3>4. Evidence \cup {j} \subseteq Evidence'
      BY <1>3, <2>1
    <3>5. Cardinality(Evidence \cup {j}) <= Cardinality(Evidence')
      BY <1>5, <3>4, FS_Subset
    <3> QED BY <1>5, <3>2, <3>3, <3>5, EvidenceFinite DEF EvidenceInv
  <2>2. CASE ~(job[j] = "finished" /\ s = "none")
    <3>1. Nones' = Nones
      <4>1. statuses' = statuses \/ statuses' = Append(statuses, "recovered")
        BY <1>2, <2>2
      <4> QED BY <1>0, <4>1 DEF Nones
    <3> QED BY <1>5, <3>1, EvidenceFinite DEF EvidenceInv
  <2> QED BY <2>1, <2>2
<1>7. abort' => Cardinality(Evidence') >= Sample
  <2>1. CASE abort
    BY <1>0, <1>5, <2>1, EvidenceFinite DEF EvidenceInv
  <2>2. CASE LooksLikeIpBlock(statuses')
    <3>1. Sample <= Cardinality(Nones')
      BY <1>0, <2>2, BlockIsEvidence DEF Nones
    <3>2. Cardinality(Nones') \in Nat
      <4>1. Len(statuses') \in Nat /\ Nones' \subseteq 1 .. Len(statuses')
        BY <1>0 DEF Nones
      <4>2. IsFiniteSet(1 .. Len(statuses'))
        BY <4>1, FS_Interval
      <4> QED BY <4>1, <4>2, FS_Subset, FS_CardinalityType
    <3> QED BY <1>0, <1>5, <1>6, <3>1, <3>2
  <2> QED BY <1>2, <2>1, <2>2
<1>8. (\E i \in Jobs : job'[i] = "skipped") => abort'
  BY <1>0, <1>1, <1>2 DEF EvidenceInv
<1> QED BY <1>6, <1>7, <1>8 DEF EvidenceInv

\* The breaker's evidence is kept in every step of every pass.
LEMMA RetryEvidenceInv == Spec => []EvidenceInv
<1>1. Init => EvidenceInv
  <2> SUFFICES ASSUME Init PROVE EvidenceInv OBVIOUS
  <2>1. statuses = <<>> /\ abort = FALSE /\ job = [j \in Jobs |-> "queued"]
    BY Zenon DEF Init, Fresh
  <2>2. Nones = {} /\ Evidence = {} /\ ~\E j \in Jobs : job[j] = "skipped"
    BY <2>1 DEF Nones, Evidence
  <2> QED BY <2>1, <2>2, FS_EmptySet DEF EvidenceInv
<1>2. TypeOK /\ TypeOK' /\ EvidenceInv /\ [Next]_vars => EvidenceInv'
  <2> SUFFICES ASSUME TypeOK, TypeOK', EvidenceInv, [Next]_vars PROVE EvidenceInv'
    OBVIOUS
  <2>0. job \in [Jobs -> Progress] /\ answer \in [Jobs -> Answer \cup {NoRecord}] /\ abort \in BOOLEAN
    BY DEF TypeOK
  <2>1. ASSUME NEW j \in Jobs, Take(j) PROVE EvidenceInv'
    <3>1. /\ job[j] = "queued" /\ answer' = answer /\ statuses' = statuses /\ abort' = abort
          /\ \E p \in {"skipped", "throttled"} : /\ job' = [job EXCEPT ![j] = p]
                                                 /\ p = "skipped" => abort
      BY <2>1 DEF Take
    <3>2. Evidence \subseteq Evidence' BY <2>0, <3>1 DEF Evidence
    <3>3. \A i \in Jobs : job'[i] = "skipped" => job[i] = "skipped" \/ abort BY <2>0, <3>1
    <3> QED BY <3>1, <3>2, <3>3, EvidenceKept
  <2>2. ASSUME NEW j \in Jobs, Launch(j) PROVE EvidenceInv'
    <3>1. /\ job[j] = "throttled" /\ answer' = answer /\ statuses' = statuses /\ abort' = abort
          /\ job' = [job EXCEPT ![j] = "grading"]
      BY <2>2 DEF Launch
    <3>2. Evidence \subseteq Evidence' BY <2>0, <3>1 DEF Evidence
    <3> QED BY <2>0, <3>1, <3>2, EvidenceKept
  <2>3. ASSUME NEW j \in Jobs, Finish(j) PROVE EvidenceInv'
    <3>1. /\ job[j] = "grading" /\ statuses' = statuses /\ abort' = abort
          /\ job' = [job EXCEPT ![j] = "finished"]
          /\ \E a \in Answers(j) : answer' = [answer EXCEPT ![j] = a]
      BY <2>3 DEF Finish
    <3>2. \A i \in Jobs : job[i] = "collected" => job'[i] = job[i] /\ answer'[i] = answer[i]
      BY <2>0, <3>1
    <3>3. Evidence \subseteq Evidence' BY <3>2 DEF Evidence
    <3> QED BY <2>0, <3>1, <3>3, EvidenceKept
  <2>4. CASE Collect BY <2>4, CollectEvidence
  <2>5. CASE Persist BY <2>5 DEF Persist, EvidenceInv, Evidence, Nones
  <2>6. CASE Fold BY <2>6, ForgetEvidence DEF Fold
  <2>7. CASE KilledGrading BY <2>7, ForgetEvidence DEF KilledGrading
  <2>8. CASE KilledPersisting BY <2>8, ForgetEvidence DEF KilledPersisting
  <2>9. CASE KilledFolding BY <2>9, ForgetEvidence DEF KilledFolding
  <2>10. CASE Remerge BY <2>10 DEF Remerge, EvidenceInv, Evidence, Nones
  <2>11. CASE Rerun BY <2>11, ForgetEvidence DEF Rerun
  <2>12. CASE UNCHANGED vars BY <2>12 DEF vars, EvidenceInv, Evidence, Nones
  <2> QED
    BY <2>1, <2>2, <2>3, <2>4, <2>5, <2>6, <2>7, <2>8, <2>9, <2>10, <2>11, <2>12
    DEF Next, Step, Killed
<1> QED BY <1>1, <1>2, RetryTyping, PTL DEF Spec

-----------------------------------------------------------------------------
(* The files of a pass.                                                    *)

\* The files are related as they are in every step, whatever a grade books.
LEMMA RetryFilesInv == Spec => []FilesInv
<1>1. Init => FilesInv
  BY DEF Init, Fresh, Opening, FilesInv
<1>2. FilesInv /\ [Next]_vars => FilesInv'
  <2> SUFFICES ASSUME FilesInv, [Next]_vars PROVE FilesInv'
    OBVIOUS
  <2> USE DEF FilesInv
  <2>1. ASSUME NEW j \in Jobs, Take(j) PROVE FilesInv' BY <2>1 DEF Take
  <2>2. ASSUME NEW j \in Jobs, Launch(j) PROVE FilesInv' BY <2>2 DEF Launch
  <2>3. ASSUME NEW j \in Jobs, Finish(j) PROVE FilesInv' BY <2>3 DEF Finish
  <2>4. CASE Collect BY <2>4 DEF Collect
  <2>5. CASE Persist BY <2>5 DEF Persist
  <2>6. CASE Fold BY <2>6 DEF Fold
  <2>7. CASE KilledGrading BY <2>7 DEF KilledGrading
  <2>8. CASE KilledPersisting BY <2>8 DEF KilledPersisting
  <2>9. CASE KilledFolding BY <2>9 DEF KilledFolding
  <2>10. CASE Remerge BY <2>10 DEF Remerge
  <2>11. CASE Rerun BY <2>11 DEF Rerun, Opening
  <2>12. CASE UNCHANGED vars BY <2>12 DEF vars
  <2> QED
    BY <2>1, <2>2, <2>3, <2>4, <2>5, <2>6, <2>7, <2>8, <2>9, <2>10, <2>11, <2>12
    DEF Next, Step, Killed
<1> QED BY <1>1, <1>2, PTL DEF Spec

\* Re-folding the retry file of a pass that ended gives back the merged file
\* that pass wrote: the last of them, whatever was killed before it.
THEOREM RetryRemerge == Spec => RemergeChangesNothing
<1>1. FilesInv /\ [Next]_vars => [phase = "done" /\ pass' = pass => mergedFile' = mergedFile]_vars
  <2> SUFFICES ASSUME FilesInv, Next, phase = "done", pass' = pass
               PROVE  mergedFile' = mergedFile
    OBVIOUS
  <2>1. CASE Step
    BY <2>1 DEF Step, Take, Launch, Finish, Collect, Persist, Fold
  <2>2. CASE Killed
    BY <2>2 DEF Killed, KilledGrading, KilledPersisting, KilledFolding
  <2>3. CASE Remerge
    BY <2>3 DEF Remerge, FilesInv
  <2>4. CASE Rerun
    BY <2>4 DEF Rerun
  <2> QED BY <2>1, <2>2, <2>3, <2>4 DEF Next
<1> QED BY <1>1, RetryFilesInv, PTL DEF Spec, RemergeChangesNothing

-----------------------------------------------------------------------------
(* What a pass that ran to its end measured is what it clears.             *)

\* A job is the job of its url.
LEMMA JobIsOwn ==
    ASSUME NEW j \in Jobs
    PROVE  JobOf(j) = j
<1>1. j \in Records /\ Retried(j) /\ Jobs \subseteq Records
  BY DEF Jobs
<1>2. JobOf(j) \in Jobs /\ UrlOf[JobOf(j)] = UrlOf[j]
  BY <1>1, JobExists
<1>3. \A i \in Jobs : UrlOf[i] = UrlOf[j] => ~(i < j) /\ ~(j < i)
  BY RecordsAssumption DEF Jobs, Retried, Records, RecordsAssumption
<1>4. JobOf(j) \in Nat /\ j \in Nat
  <2>1. Records \subseteq Nat
    BY RecordsAssumption DEF Records, RecordsAssumption
  <2> QED BY <1>1, <1>2, <2>1
<1> QED BY <1>2, <1>3, <1>4

\* A grade unblocks what it measured and what it left unbooked, and no more.
LEMMA AnswerUnblocks ==
    ASSUME NEW j \in Jobs, NEW a \in Answers(j)
    PROVE  Unblocks(a, j) = Ran(a) \cup Unbooked(a, j)
<1>1. CASE a \in {NoRecord, Failed, Preflight}
  BY <1>1 DEF Unblocks, Ran, Unbooked, Failed, Preflight
<1>2. ASSUME NEW chal, NEW ran \in SUBSET Blocked[j], NEW booked,
             a = Record(j, chal, ran, booked), a # NoRecord, ran \cap booked = {}
      PROVE  Unblocks(a, j) = Ran(a) \cup Unbooked(a, j)
  <2>1. a.graded /\ a.ran = ran /\ a.blocked = booked
    <3>1. \A b : LET d == [graded |-> TRUE, chal |-> b, ran |-> ran, blocked |-> booked]
                 IN  d.graded /\ d.ran = ran /\ d.blocked = booked
      OBVIOUS
    <3> QED BY <1>2, <3>1, Zenon DEF Record
  <2>2. Unblocks(a, j) = Blocked[j] \ booked
    BY <1>2, <2>1 DEF Unblocks
  <2>3. Ran(a) = ran /\ Unbooked(a, j) = Blocked[j] \ (ran \cup booked)
    BY <1>2, <2>1 DEF Ran, Unbooked
  <2> QED BY <1>2, <2>2, <2>3
<1>3. CASE a \in Graded(j) /\ a # NoRecord
  <2>1. PICK b \in {"", "waf"}, ran \in SUBSET Blocked[j], pad \in SUBSET (Pad \ Blocked[j]) :
            a = Record(j, b, ran, (Blocked[j] \ ran) \cup pad)
    BY <1>3, GradedIsRecord
  <2>2. ran \cap ((Blocked[j] \ ran) \cup pad) = {}
    OBVIOUS
  <2> QED BY <1>2, <1>3, <2>1, <2>2
<1>4. CASE a \in Lapsed(j) /\ a # NoRecord
  <2>1. CASE a = Record(j, "", {}, {})
    <3>1. {} \in SUBSET Blocked[j] /\ {} \cap {} = {}
      OBVIOUS
    <3> QED BY <1>2, <1>4, <2>1, <3>1, Zenon
  <2>2. CASE a # Record(j, "", {}, {})
    <3>1. PICK ran \in SUBSET Blocked[j], hung \in SUBSET (Blocked[j] \cup Pad) :
              a = Record(j, "waf", ran, hung) /\ a.ran \cap a.blocked = {}
      BY <1>4, <2>2, SMT DEF Lapsed, Record
    <3>2. ran \cap hung = {}
      BY <3>1 DEF Record
    <3> QED BY <1>2, <1>4, <3>1, <3>2
  <2> QED BY <2>1, <2>2
<1> QED BY <1>1, <1>3, <1>4 DEF Answers

\* The fold clears what the answer of a job unblocks.
LEMMA FoldedExact ==
    ASSUME NEW c \in [Jobs -> Answer \cup {NoRecord}], NEW j \in Jobs
    PROVE  /\ Folded(c)[j].recovered = Unblocks(c[j], j)
           /\ Folded(c)[j].blocked = Blocked[j] \ Unblocks(c[j], j)
<1>1. j \in Records /\ Retried(j) /\ JobOf(j) = j
  BY JobIsOwn DEF Jobs
<1>2. CASE c[j] = NoRecord
  BY <1>1, <1>2 DEF Folded, Unblocks
<1>3. CASE c[j] # NoRecord
  <2>1. Folded(c)[j] = Merge(j, c[j])
    BY <1>1, <1>3 DEF Folded
  <2>2. c[j].graded \in BOOLEAN
    BY <1>3 DEF Answer
  <2> QED BY <1>3, <2>1, <2>2 DEF Merge, Unblocks, StillBlocked
<1> QED BY <1>2, <1>3

\* A process that starts, or has ended, holds no answer.
LEMMA ForgetAnswers ==
    ASSUME Forget
    PROVE  /\ \A j \in Jobs : answer'[j] = NoRecord
           /\ \A j \in Jobs : Unblocks(answer'[j], j) = {}
BY DEF Forget, Unblocks

\* In every step an answer unblocks what its grade measured or left unbooked.
LEMMA RetryExactInv == Spec => []ExactInv
<1>1. Init => ExactInv
  BY DEF Init, Fresh, Opening, ExactInv, Unblocks
<1>2. TypeOK /\ FilesInv /\ ExactInv /\ [Next]_vars => ExactInv'
  <2> SUFFICES ASSUME TypeOK, FilesInv, ExactInv, [Next]_vars PROVE ExactInv'
    OBVIOUS
  <2>0. /\ job \in [Jobs -> Progress] /\ answer \in [Jobs -> Answer \cup {NoRecord}]
        /\ measured \in [Jobs -> SUBSET Probes]
        /\ lapsed \in [Jobs -> SUBSET Probes]
    BY DEF TypeOK
  <2> USE DEF ExactInv
  <2>1. ASSUME NEW j \in Jobs, Take(j) PROVE ExactInv' BY <2>0, <2>1 DEF Take
  <2>2. ASSUME NEW j \in Jobs, Launch(j) PROVE ExactInv' BY <2>0, <2>2 DEF Launch
  <2>3. ASSUME NEW j \in Jobs, Finish(j) PROVE ExactInv'
    <3>1. PICK a \in Answers(j) : /\ answer' = [answer EXCEPT ![j] = a]
                                  /\ measured' = [measured EXCEPT ![j] = Ran(a)]
                                  /\ lapsed' = [lapsed EXCEPT ![j] = Unbooked(a, j)]
      BY <2>3 DEF Finish
    <3>2. /\ phase = "grade" /\ phase' = "grade" /\ job[j] = "grading"
          /\ job' = [job EXCEPT ![j] = "finished"]
      BY <2>3 DEF Finish
    <3>4. Unblocks(answer'[j], j) = measured'[j] \cup lapsed'[j]
      BY <2>0, <3>1, AnswerUnblocks
    <3>5. \A i \in Jobs : i # j => /\ answer'[i] = answer[i] /\ measured'[i] = measured[i]
                                   /\ lapsed'[i] = lapsed[i] /\ job'[i] = job[i]
      BY <2>0, <3>1, <3>2
    <3>6. \A i \in Jobs : Unblocks(answer'[i], i) = measured'[i] \cup lapsed'[i]
      BY <3>2, <3>4, <3>5
    <3>7. \A i \in Jobs : job'[i] \in {"queued", "throttled", "grading"} => answer'[i] = NoRecord
      BY <2>0, <3>2, <3>5
    <3> QED BY <3>2, <3>6, <3>7
  <2>4. CASE Collect BY <2>0, <2>4 DEF Collect
  <2>5. CASE Persist BY <2>5 DEF Persist
  <2>6. CASE Fold BY <2>6, ForgetAnswers DEF Fold, FilesInv
  <2>7. CASE KilledGrading BY <2>7, ForgetAnswers DEF KilledGrading
  <2>8. CASE KilledPersisting BY <2>8, ForgetAnswers DEF KilledPersisting
  <2>9. CASE KilledFolding BY <2>9, ForgetAnswers DEF KilledFolding
  <2>10. CASE Remerge BY <2>10 DEF Remerge
  <2>11. CASE Rerun
    <3>1. Jobs # {} => phase' = "grade"
      BY <2>11 DEF Rerun, Opening
    <3>2. \A j \in Jobs : measured'[j] = {} /\ lapsed'[j] = {}
      BY <2>11 DEF Rerun
    <3>3. Forget
      BY <2>11 DEF Rerun
    <3> QED BY <3>1, <3>2, <3>3, ForgetAnswers
  <2>12. CASE UNCHANGED vars BY <2>12 DEF vars
  <2> QED
    BY <2>1, <2>2, <2>3, <2>4, <2>5, <2>6, <2>7, <2>8, <2>9, <2>10, <2>11, <2>12
    DEF Next, Step, Killed
<1> QED BY <1>1, <1>2, RetryTyping, RetryFilesInv, PTL DEF Spec

\* The breaker stops only a pass that the edge has stopped answering; and a pass
\* that ran to its end clears what its retries measured or left unbooked, no less
\* and no more.
THEOREM RetryPoolExact == Spec => []PoolIsExact
<1>1. EvidenceInv => SkipsNeedEvidence
  BY DEF EvidenceInv, Evidence, SkipsNeedEvidence
<1>2. TypeOK /\ FilesInv /\ ExactInv => MergedIsExact
  <2> SUFFICES ASSUME TypeOK, FilesInv, ExactInv, phase = "done", NEW r \in Jobs
               PROVE  /\ mergedFile[r].recovered = measured[r] \cup lapsed[r]
                      /\ mergedFile[r].blocked = Blocked[r] \ mergedFile[r].recovered
    BY DEF MergedIsExact
  <2>1. mergedFile = Folded(retryFile) /\ Unblocks(retryFile[r], r) = measured[r] \cup lapsed[r]
    BY DEF FilesInv, ExactInv
  <2>2. retryFile \in [Jobs -> Answer \cup {NoRecord}]
    BY DEF TypeOK
  <2> QED BY <2>1, <2>2, FoldedExact
<1>3. TypeOK /\ FilesInv /\ ExactInv /\ EvidenceInv => PoolIsExact
  BY <1>1, <1>2, Zenon DEF PoolIsExact
<1> QED BY <1>3, RetryTyping, RetryFilesInv, RetryExactInv, RetryEvidenceInv, PTL DEF Spec
=============================================================================
