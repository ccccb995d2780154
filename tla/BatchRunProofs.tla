--------------------------- MODULE BatchRunProofs ---------------------------
(***************************************************************************)
(* Theorems about every batch: whatever the jobs, the concurrency, the     *)
(* resume modes, the number of runs and the moments of kills and Ctrl-C.   *)
(***************************************************************************)
EXTENDS BatchRun, TLAPS, FiniteSetTheorems

USE DEF main

\* A row is well typed when its parts are.
LEMMA RowTyping ==
    ASSUME NEW j \in Jobs, NEW by \in 0 .. MaxRuns, NEW k \in Kinds
    PROVE  Row(j, by, k) \in Rows
BY DEF Row, Rows

\* Every variable of a batch has its type.
THEOREM BatchTyping == Spec => []TypeOK
<1>1. Init => TypeOK
  <2> SUFFICES ASSUME Init PROVE TypeOK OBVIOUS
  <2>1. run \in 1 .. MaxRuns /\ interrupted \in BOOLEAN
    <3>1. run \in 1 .. MaxRuns BY BatchAssumption DEF BatchAssumption, Init
    <3>2. interrupted \in BOOLEAN BY Zenon DEF Init
    <3> QED BY <3>1, <3>2
  <2>2. at \in [Jobs -> Steps] /\ child \in [Jobs -> States]
    BY DEF Init, Steps, States
  <2> QED BY <2>1, <2>2 DEF Init, TypeOK
<1>2. TypeOK /\ [Next]_vars => TypeOK'
  <2> SUFFICES ASSUME TypeOK, [Next]_vars PROVE TypeOK'
    OBVIOUS
  <2> USE DEF TypeOK
  <2>0. run \in 0 .. MaxRuns /\ 0 \in 0 .. MaxRuns
    BY BatchAssumption DEF BatchAssumption
  <2>1. ASSUME NEW j \in Jobs, Start(j) PROVE TypeOK'
    BY <2>1 DEF Start, Steps, States
  <2>2. ASSUME NEW j \in Jobs, Register(j) PROVE TypeOK'
    BY <2>2 DEF Register, Steps
  <2>3. ASSUME NEW j \in Jobs, Return(j) PROVE TypeOK'
    BY <2>3 DEF Return, Steps
  <2>4. ASSUME NEW j \in Jobs, Timeout(j) PROVE TypeOK'
    BY <2>4 DEF Timeout, Steps, States
  <2>5. ASSUME NEW j \in Jobs, RecordWedge(j) PROVE TypeOK'
    <3>1. Row(j, run, "wedge") \in Rows BY <2>0, RowTyping DEF Kinds
    <3> QED BY <2>5, <3>1 DEF RecordWedge, Steps
  <2>6. ASSUME NEW j \in Jobs, Fork(j) PROVE TypeOK'
    BY <2>6 DEF Fork
  <2>7. ASSUME NEW j \in Jobs, Record(j) PROVE TypeOK'
    <3>1. PICK k \in {"graded", "skipped", "failed"} : results' = results \cup {Row(j, run, k)}
      BY <2>7 DEF Record
    <3>2. Row(j, run, k) \in Rows BY <2>0, RowTyping DEF Kinds
    <3> QED BY <2>7, <3>1, <3>2 DEF Record, States
  <2>8. ASSUME NEW j \in Jobs, Exit(j) PROVE TypeOK'
    BY <2>8 DEF Exit, States
  <2>9. ASSUME NEW j \in Jobs, Die(j) PROVE TypeOK'
    BY <2>9 DEF Die, States
  <2>10. ASSUME NEW j \in Jobs, StrayEnds(j) PROVE TypeOK'
    BY <2>10 DEF StrayEnds
  <2>11. ASSUME NEW j \in Jobs, LeftRecords(j) PROVE TypeOK'
    <3>1. PICK k \in {"graded", "skipped", "failed"} : results' = results \cup {Row(j, 0, k)}
      BY <2>11 DEF LeftRecords
    <3>2. Row(j, 0, k) \in Rows BY <2>0, RowTyping DEF Kinds
    <3> QED BY <2>11, <3>1, <3>2 DEF LeftRecords
  <2>12. ASSUME NEW j \in Jobs, LeftDies(j) PROVE TypeOK'
    BY <2>12 DEF LeftDies
  <2>13. CASE NextPhase BY <2>13 DEF NextPhase
  <2>14. CASE InterruptSerial
    <3>1. at' \in [Jobs -> Steps] BY <2>14 DEF InterruptSerial, Steps
    <3>2. child' \in [Jobs -> States] BY <2>14 DEF InterruptSerial, States
    <3>3. interrupted' \in BOOLEAN BY <2>14 DEF InterruptSerial
    <3>4. worker' \subseteq Jobs /\ left' \subseteq Jobs
      BY <2>14 DEF InterruptSerial, Running
    <3> QED BY <2>14, <3>1, <3>2, <3>3, <3>4 DEF InterruptSerial
  <2>15. CASE InterruptPool
    <3>1. child' \in [Jobs -> States] BY <2>15 DEF InterruptPool, States
    <3>2. interrupted' \in BOOLEAN BY <2>15 DEF InterruptPool
    <3> QED BY <2>15, <3>1, <3>2 DEF InterruptPool
  <2>16. ASSUME NEW mode \in Modes, Rerun(mode) PROVE TypeOK'
    <3>1. plan' \subseteq Jobs BY <2>16 DEF Rerun, Pending
    <3>2. run' \in 1 .. MaxRuns BY <2>16, BatchAssumption DEF Rerun, BatchAssumption
    <3>3. interrupted' \in BOOLEAN BY <2>16 DEF Rerun
    <3>4. at' \in [Jobs -> Steps] /\ child' \in [Jobs -> States]
      BY <2>16 DEF Rerun, Steps, States
    <3> QED BY <2>16, <3>1, <3>2, <3>3, <3>4 DEF Rerun
  <2>17. CASE UNCHANGED vars BY <2>17 DEF vars
  <2> QED
    BY <2>1, <2>2, <2>3, <2>4, <2>5, <2>6, <2>7, <2>8, <2>9, <2>10, <2>11,
       <2>12, <2>13, <2>14, <2>15, <2>16, <2>17
    DEF Next, Driver, Child, Loose
<1> QED BY <1>1, <1>2, PTL DEF Spec

-----------------------------------------------------------------------------
(* The wedge rows.                                                         *)

\* A child that is dead stays dead while the run lasts, no row is of a later
\* run, and a job on its way to a wedge row has a dead child.
LEMMA BatchWedgeInv == Spec => []WedgeInv
<1>1. Init => WedgeInv
  BY DEF Init, WedgeInv, WedgeIsDead
<1>2. TypeOK /\ WedgeInv /\ [Next]_vars => WedgeInv'
  <2> SUFFICES ASSUME TypeOK, WedgeInv, [Next]_vars PROVE WedgeInv'
    OBVIOUS
  <2>0. /\ at \in [Jobs -> Steps] /\ child \in [Jobs -> States]
        /\ results \subseteq Rows /\ run \in 1 .. MaxRuns
    BY DEF TypeOK
  <2> USE DEF WedgeInv, WedgeIsDead
  <2>1. ASSUME NEW j \in Jobs, Start(j) PROVE WedgeInv'
    <3>1. child[j] = "none"
      BY <2>0, <2>1 DEF Start, NextUp, First, Todo
    <3> QED BY <2>0, <2>1, <3>1 DEF Start, Rows
  <2>2. ASSUME NEW j \in Jobs, Register(j) PROVE WedgeInv'
    BY <2>0, <2>2 DEF Register
  <2>3. ASSUME NEW j \in Jobs, Return(j) PROVE WedgeInv'
    BY <2>0, <2>3 DEF Return
  <2>4. ASSUME NEW j \in Jobs, Timeout(j) PROVE WedgeInv'
    BY <2>0, <2>4 DEF Timeout, Rows
  <2>5. ASSUME NEW j \in Jobs, RecordWedge(j) PROVE WedgeInv'
    <3>1. child[j] = "killed" /\ child' = child /\ run' = run BY <2>5 DEF RecordWedge
    <3> QED BY <2>0, <2>5, <3>1 DEF RecordWedge, Row
  <2>6. ASSUME NEW j \in Jobs, Fork(j) \/ StrayEnds(j) \/ LeftDies(j) PROVE WedgeInv'
    BY <2>6 DEF Fork, StrayEnds, LeftDies
  <2>7. ASSUME NEW j \in Jobs, Record(j) PROVE WedgeInv'
    <3>1. PICK k \in {"graded", "skipped", "failed"} : results' = results \cup {Row(j, run, k)}
      BY <2>7 DEF Record
    <3>2. child' = [child EXCEPT ![j] = "recorded"] /\ child[j] = "working" /\ at' = at /\ run' = run
      BY <2>7 DEF Record
    <3> QED BY <2>0, <3>1, <3>2 DEF Row, Rows
  <2>8. ASSUME NEW j \in Jobs, Exit(j) PROVE WedgeInv'
    BY <2>0, <2>8 DEF Exit, Rows
  <2>9. ASSUME NEW j \in Jobs, Die(j) PROVE WedgeInv'
    BY <2>0, <2>9 DEF Die, Rows
  <2>10. ASSUME NEW j \in Jobs, LeftRecords(j) PROVE WedgeInv'
    <3>1. PICK k \in {"graded", "skipped", "failed"} : results' = results \cup {Row(j, 0, k)}
      BY <2>10 DEF LeftRecords
    <3> QED BY <2>0, <2>10, <3>1 DEF LeftRecords, Row
  <2>11. CASE NextPhase BY <2>11 DEF NextPhase
  <2>12. CASE InterruptSerial
    <3>1. \A j \in Jobs : child[j] = "killed" => child'[j] = "killed"
      BY <2>0, <2>12 DEF InterruptSerial
    <3>2. \A j \in Jobs : at'[j] # "killing"
      BY <2>0, <2>12 DEF InterruptSerial, Running
    <3> QED BY <2>0, <2>12, <3>1, <3>2 DEF InterruptSerial, Rows
  <2>13. CASE InterruptPool
    <3>1. \A j \in Jobs : child[j] = "killed" => child'[j] = "killed"
      BY <2>0, <2>13 DEF InterruptPool
    <3> QED BY <2>0, <2>13, <3>1 DEF InterruptPool, Rows
  <2>14. ASSUME NEW mode \in Modes, Rerun(mode) PROVE WedgeInv'
    <3>1. \A r \in results : r.by <= run /\ r.by \in 0 .. MaxRuns BY <2>0 DEF Rows
    <3> QED BY <2>0, <2>14, <3>1, BatchAssumption DEF Rerun, BatchAssumption
  <2>15. CASE UNCHANGED vars BY <2>15 DEF vars
  <2> QED
    BY <2>1, <2>2, <2>3, <2>4, <2>5, <2>6, <2>7, <2>8, <2>9, <2>10, <2>11,
       <2>12, <2>13, <2>14, <2>15
    DEF Next, Driver, Child, Loose
<1> QED BY <1>1, <1>2, BatchTyping, PTL DEF Spec

\* A wedge row is only ever written of a child that is dead.
THEOREM BatchWedgeIsDead == Spec => []WedgeIsDead
<1>1. WedgeInv => WedgeIsDead
  BY DEF WedgeInv
<1> QED BY <1>1, BatchWedgeInv, PTL

-----------------------------------------------------------------------------
(* One deployment at a time.                                               *)

\* A step that starts no job and stays in its phase keeps the queue serial.
LEMMA NoneStarted ==
    ASSUME SerialInv, phase' = phase,
           Running(Jobs)' \subseteq Running(Jobs),
           \A j \in Jobs : at'[j] = "over" /\ Alive(j)' => phase = "over"
    PROVE  SerialInv'
BY DEF SerialInv

\* A step of a child, or of what an earlier run left, moves no job.
LEMMA NoneMoved ==
    ASSUME SerialInv, phase' = phase, at' = at,
           \A j \in Jobs : Alive(j)' => Alive(j)
    PROVE  SerialInv'
BY DEF SerialInv, Running

\* The repo phase starts a job only when none runs, and ends when none does.
LEMMA BatchSerialInv == Spec => []SerialInv
<1>1. Init => SerialInv
  BY DEF Init, SerialInv, Running
<1>2. TypeOK /\ WedgeInv /\ SerialInv /\ [Next]_vars => SerialInv'
  <2> SUFFICES ASSUME TypeOK, WedgeInv, SerialInv, [Next]_vars PROVE SerialInv'
    OBVIOUS
  <2>0. at \in [Jobs -> Steps] /\ child \in [Jobs -> States]
    BY DEF TypeOK
  <2>1. ASSUME NEW j \in Jobs, Start(j) PROVE SerialInv'
    <3>1. Running(Jobs)' = Running(Jobs) \cup {j}
      BY <2>0, <2>1 DEF Start, Running
    <3>2. /\ phase' = phase /\ phase # "over"
          /\ \A i \in Jobs : at'[i] = "over" => at[i] = "over" /\ child'[i] = child[i]
      BY <2>0, <2>1 DEF Start, NextUp
    <3>3. CASE phase = "repo"
      <4>1. Cardinality(Running(Jobs)) < 1 BY <2>1, <3>3 DEF Start
      <4>2. IsFiniteSet(Running(Jobs))
        <5>1. IsFiniteSet(Jobs) BY FS_Interval, BatchAssumption DEF BatchAssumption, Jobs
        <5> QED BY <5>1, FS_Subset DEF Running
      <4>3. Cardinality(Running(Jobs)) = 0 BY <4>1, <4>2, FS_CardinalityType
      <4>4. Running(Jobs) = {} BY <4>2, <4>3, FS_EmptySet
      <4> QED BY <3>1, <3>2, <3>3, <4>4 DEF SerialInv, Alive
    <3>4. CASE phase # "repo"
      <4>1. j \in UrlJobs BY <2>1, <3>4 DEF Start, NextUp, First, Todo
      <4>2. j \notin RepoJobs BY <4>1 DEF UrlJobs, RepoJobs
      <4> QED BY <3>1, <3>2, <3>4, <4>2 DEF SerialInv, Alive
    <3> QED BY <3>3, <3>4
  <2>2. ASSUME NEW j \in Jobs, Register(j) PROVE SerialInv'
    BY <2>0, <2>2, NoneStarted DEF Register, Running, Alive, SerialInv
  <2>3. ASSUME NEW j \in Jobs, Return(j) PROVE SerialInv'
    BY <2>0, <2>3, NoneStarted DEF Return, Running, Alive, SerialInv
  <2>4. ASSUME NEW j \in Jobs, Timeout(j) PROVE SerialInv'
    BY <2>0, <2>4, NoneStarted DEF Timeout, Running, Alive, SerialInv
  <2>5. ASSUME NEW j \in Jobs, RecordWedge(j) PROVE SerialInv'
    <3>1. child[j] = "killed" BY <2>5 DEF RecordWedge, WedgeInv
    <3> QED BY <2>0, <2>5, <3>1, NoneStarted DEF RecordWedge, Running, Alive, SerialInv
  <2>6. ASSUME NEW j \in Jobs, Fork(j) \/ StrayEnds(j) \/ LeftRecords(j) \/ LeftDies(j)
        PROVE SerialInv'
    BY <2>6, NoneMoved DEF Fork, StrayEnds, LeftRecords, LeftDies, Alive
  <2>7. ASSUME NEW j \in Jobs, Record(j) \/ Exit(j) \/ Die(j) PROVE SerialInv'
    BY <2>0, <2>7, NoneMoved DEF Record, Exit, Die, Alive
  <2>8. CASE NextPhase
    <3>1. Running(Jobs) = {} /\ at' = at /\ child' = child
      BY <2>8 DEF NextPhase
    <3> QED BY <2>8, <3>1 DEF NextPhase, SerialInv, Running, Alive
  <2>9. CASE InterruptSerial
    <3>1. Running(Jobs)' = {} BY <2>0, <2>9 DEF InterruptSerial, Running
    <3>2. phase' = "over" BY <2>9 DEF InterruptSerial
    <3> QED BY <3>1, <3>2 DEF SerialInv
  <2>10. CASE InterruptPool
    <3>1. at' = at /\ phase # "repo" /\ phase' # "repo" BY <2>10 DEF InterruptPool
    <3>2. phase # "over" /\ phase' # "over" /\ \A j \in Jobs : Alive(j)' => Alive(j)
      BY <2>0, <2>10 DEF InterruptPool, Alive
    <3> QED BY <3>1, <3>2 DEF SerialInv, Running
  <2>11. ASSUME NEW mode \in Modes, Rerun(mode) PROVE SerialInv'
    BY <2>11 DEF Rerun, SerialInv, Running, Alive
  <2>12. CASE UNCHANGED vars BY <2>12, NoneMoved DEF vars, Alive
  <2> QED
    BY <2>1, <2>2, <2>3, <2>4, <2>5, <2>6, <2>7, <2>8, <2>9, <2>10, <2>11, <2>12
    DEF Next, Driver, Child, Loose
<1> QED BY <1>1, <1>2, BatchTyping, BatchWedgeInv, PTL DEF Spec

\* While a repo job's child is alive no other watched child is.
THEOREM BatchSerialDeploys == Spec => []SerialDeploys
<1>1. TypeOK /\ WedgeInv /\ SerialInv => SerialDeploys
  <2> SUFFICES ASSUME TypeOK, WedgeInv, SerialInv, NEW j \in RepoJobs, NEW i \in Jobs,
                      Alive(j), Alive(i), at[j] # "over"
               PROVE  i = j
    BY DEF SerialDeploys
  <2>1. at[i] \in Steps /\ at[j] \in Steps /\ j \in Jobs BY DEF TypeOK, RepoJobs
  <2>2. j \in Running(Jobs)
    BY <2>1 DEF WedgeInv, SerialInv, Alive, Running, Steps
  <2>3. phase = "repo" BY <2>2 DEF SerialInv
  <2>4. i \in Running(Jobs)
    BY <2>1, <2>3 DEF WedgeInv, SerialInv, Alive, Running, Steps
  <2> QED BY <2>2, <2>3, <2>4 DEF SerialInv
<1> QED BY <1>1, BatchTyping, BatchWedgeInv, BatchSerialInv, PTL

-----------------------------------------------------------------------------
(* Every planned job leaves a row, and none is graded twice.               *)

\* A row, once written, is there for the rest of its run.
LEMMA RowsStay ==
    ASSUME NEW j \in Jobs, results \subseteq results', run' = run, HasRow(j)
    PROVE  HasRow(j)'
BY DEF HasRow

\* Adding a row of this run for a job gives the job its row.
LEMMA RowAdded ==
    ASSUME NEW j \in Jobs, NEW k, results' = results \cup {Row(j, run, k)}, run' = run
    PROVE  HasRow(j)'
<1>1. Row(j, run, k).job = j /\ Row(j, run, k).by = run
  BY DEF Row
<1> QED BY <1>1 DEF HasRow

\* The parts of RowInv that look at one job, which a step can only disturb for
\* the job it is about.
JobRow(j) == /\ child[j] \in {"recorded", "exited"} => HasRow(j)
             /\ ~interrupted =>
                  /\ child[j] = "killed" => at[j] = "killing" \/ HasRow(j)
                  /\ at[j] = "over" => child[j] = "died" \/ HasRow(j)

\* The queues of the phases that are behind the run are empty.
QueuesDone == ~interrupted => /\ phase # "repo" => Todo(RepoJobs) = {}
                              /\ phase = "over" => Todo(UrlJobs) = {}

\* RowInv is those two together.
LEMMA RowInvSplit == RowInv <=> (\A j \in Jobs : JobRow(j)) /\ QueuesDone
BY DEF RowInv, JobRow, QueuesDone

\* A job whose step and child stay as they are keeps what RowInv says of it.
LEMMA JobRowStays ==
    ASSUME NEW j \in Jobs, JobRow(j), at'[j] = at[j], child'[j] = child[j],
           results \subseteq results', UNCHANGED <<run, interrupted>>
    PROVE  JobRow(j)'
BY RowsStay DEF JobRow

\* A step that queues no job and stays in its phase keeps the queues done.
LEMMA QueuesStay ==
    ASSUME QueuesDone, UNCHANGED <<phase, plan, interrupted>>,
           \A j \in Jobs : at'[j] = "todo" => at[j] = "todo"
    PROVE  QueuesDone'
<1>1. \A S \in SUBSET Jobs : Todo(S)' \subseteq Todo(S)
  BY DEF Todo
<1>2. RepoJobs \subseteq Jobs /\ UrlJobs \subseteq Jobs
      /\ RepoJobs' = RepoJobs /\ UrlJobs' = UrlJobs
  BY DEF RepoJobs, UrlJobs
<1> QED BY <1>1, <1>2 DEF QueuesDone, Todo

\* A finished child has its row, and a run that was not interrupted drains its
\* queues, step by step.
LEMMA BatchRowInv == Spec => []RowInv
<1>1. Init => RowInv
  <2> SUFFICES ASSUME Init PROVE RowInv
    OBVIOUS
  <2> QED BY DEF Init, RowInv
<1>2. TypeOK /\ RowInv /\ [Next]_vars => RowInv'
  <2> SUFFICES ASSUME TypeOK, RowInv, [Next]_vars
               PROVE  (\A j \in Jobs : JobRow(j))' /\ QueuesDone'
    BY RowInvSplit DEF RowInv, JobRow, QueuesDone
  <2>0. /\ at \in [Jobs -> Steps] /\ child \in [Jobs -> States]
        /\ \A j \in Jobs : JobRow(j)
        /\ QueuesDone /\ interrupted \in BOOLEAN
    BY RowInvSplit DEF TypeOK
  <2>1. ASSUME NEW j \in Jobs, Start(j) \/ Register(j) \/ Return(j) \/ Timeout(j)
                               \/ RecordWedge(j) \/ Record(j) \/ Exit(j) \/ Die(j)
        PROVE  (\A i \in Jobs : JobRow(i))' /\ QueuesDone'
    <3>1. /\ results \subseteq results' /\ UNCHANGED <<run, interrupted, phase, plan>>
          /\ \A i \in Jobs : at'[i] = "todo" => at[i] = "todo"
      BY <2>0, <2>1 DEF Start, Register, Return, Timeout, RecordWedge, Record,
         Exit, Die
    <3>2. ASSUME NEW i \in Jobs, i # j PROVE JobRow(i)'
      <4>1. at'[i] = at[i] /\ child'[i] = child[i]
        BY <2>0, <2>1, <3>2 DEF Start, Register, Return, Timeout, RecordWedge,
           Record, Exit, Die
      <4> QED BY <2>0, <3>1, <4>1, JobRowStays
    <3>3. JobRow(j)'
      <4>1. CASE Start(j)
        BY <2>0, <4>1 DEF Start, JobRow
      <4>2. CASE Register(j)
        BY <2>0, <3>1, <4>2, RowsStay DEF Register, JobRow
      <4>3. CASE Return(j)
        BY <2>0, <3>1, <4>3, RowsStay DEF Return, JobRow
      <4>4. CASE Timeout(j)
        BY <2>0, <4>4 DEF Timeout, JobRow
      <4>5. CASE RecordWedge(j)
        <5>1. HasRow(j)'
          BY <4>5, RowAdded DEF RecordWedge
        <5> QED BY <5>1 DEF JobRow
      <4>6. CASE Record(j)
        <5>1. HasRow(j)'
          BY <4>6, RowAdded DEF Record
        <5> QED BY <5>1 DEF JobRow
      <4>7. CASE Exit(j)
        <5>1. HasRow(j)'
          BY <2>0, <3>1, <4>7, RowsStay DEF Exit, JobRow
        <5> QED BY <5>1 DEF JobRow
      <4>8. CASE Die(j)
        BY <2>0, <3>1, <4>8, RowsStay DEF Die, JobRow
      <4> QED BY <2>1, <4>1, <4>2, <4>3, <4>4, <4>5, <4>6, <4>7, <4>8
    <3>4. QueuesDone'
      BY <2>0, <3>1, QueuesStay
    <3> QED BY <3>2, <3>3, <3>4
  <2>2. ASSUME NEW j \in Jobs, Fork(j) \/ StrayEnds(j) \/ LeftRecords(j) \/ LeftDies(j)
        PROVE  (\A i \in Jobs : JobRow(i))' /\ QueuesDone'
    <3>1. results \subseteq results' /\ UNCHANGED <<main, at, child>>
      BY <2>2 DEF Fork, StrayEnds, LeftRecords, LeftDies
    <3> QED BY <2>0, <3>1, JobRowStays, QueuesStay
  <2>3. CASE NextPhase
    <3>1. (\A i \in Jobs : JobRow(i))'
      BY <2>0, <2>3, JobRowStays DEF NextPhase
    <3>2. QueuesDone'
      BY <2>0, <2>3 DEF NextPhase, QueuesDone, Todo, RepoJobs, UrlJobs
    <3> QED BY <3>1, <3>2
  <2>4. CASE InterruptSerial
    <3>1. interrupted' /\ UNCHANGED <<run, results>>
      BY <2>4 DEF InterruptSerial
    <3>2. \A i \in Jobs : child'[i] \in {"none", child[i]}
      BY <2>0, <2>4 DEF InterruptSerial
    <3> QED BY <2>0, <3>1, <3>2, RowsStay DEF JobRow, QueuesDone
  <2>5. CASE InterruptPool
    <3>1. interrupted' /\ UNCHANGED <<run, results>>
      BY <2>5 DEF InterruptPool
    <3>2. \A i \in Jobs : child'[i] \in {"killed", child[i]}
      BY <2>0, <2>5 DEF InterruptPool
    <3> QED BY <2>0, <3>1, <3>2, RowsStay DEF JobRow, QueuesDone
  <2>6. ASSUME NEW mode \in Modes, Rerun(mode)
        PROVE  (\A i \in Jobs : JobRow(i))' /\ QueuesDone'
    BY <2>6 DEF Rerun, JobRow, QueuesDone
  <2>7. CASE UNCHANGED vars
    BY <2>0, <2>7, JobRowStays, QueuesStay DEF vars
  <2> QED
    BY <2>1, <2>2, <2>3, <2>4, <2>5, <2>6, <2>7
    DEF Next, Driver, Child, Loose
<1> QED BY <1>1, <1>2, BatchTyping, PTL DEF Spec

\* A step that writes no grade keeps a job from being graded twice, as long as
\* no child is set back.
LEMMA NoneGraded ==
    ASSUME OnceInv, UNCHANGED <<run, plan>>, results \subseteq Rows,
           \A r \in results' : r.kind = "graded" /\ r.by # 0 => r \in results,
           run \in 1 .. MaxRuns,
           \A j \in Jobs : /\ child'[j] # "none" => j \in plan
                           /\ child[j] \in {"recorded", "exited", "killed"}
                              => child'[j] \in {"recorded", "exited", "killed"}
    PROVE  OnceInv'
<1>1. run # 0
  BY BatchAssumption DEF BatchAssumption
<1>2. \A r \in results : r.job \in Jobs
  BY DEF Rows
<1> QED BY <1>1, <1>2 DEF OnceInv, GradedOnce

\* A job that is planned has no grade by a watched child of an earlier run: no
\* resume mode plans a target that has a grade.
LEMMA GradedIsNotPending ==
    ASSUME NEW mode \in Modes, NEW r \in results, r.kind = "graded"
    PROVE  r.job \notin Pending(mode)
<1>1. Target[r.job] \in Done /\ Target[r.job] \in Attempted
  BY DEF Done, Attempted
<1> QED BY <1>1 DEF Pending

\* No step grades a job that a watched child has graded.
LEMMA BatchOnceInv == Spec => []OnceInv
<1>1. Init => OnceInv
  BY DEF Init, OnceInv, GradedOnce
<1>2. TypeOK /\ WedgeInv /\ OnceInv /\ [Next]_vars => OnceInv'
  <2> SUFFICES ASSUME TypeOK, WedgeInv, OnceInv, [Next]_vars PROVE OnceInv'
    OBVIOUS
  <2>0. /\ at \in [Jobs -> Steps] /\ child \in [Jobs -> States]
        /\ results \subseteq Rows /\ run \in 1 .. MaxRuns /\ run # 0
        /\ \A j \in Jobs : child[j] # "none" => j \in plan
    BY BatchAssumption DEF TypeOK, OnceInv, BatchAssumption
  <2>1. ASSUME NEW j \in Jobs, Start(j) PROVE OnceInv'
    <3>1. j \in plan /\ child[j] = "none"
      BY <2>1 DEF Start, NextUp, First, Todo, WedgeInv
    <3> QED BY <2>0, <2>1, <3>1, NoneGraded DEF Start
  <2>2. ASSUME NEW j \in Jobs,
               Register(j) \/ Return(j) \/ Timeout(j) \/ Fork(j) \/ Exit(j)
               \/ Die(j) \/ StrayEnds(j) \/ LeftDies(j)
        PROVE  OnceInv'
    <3>1. UNCHANGED <<run, plan, results>>
      BY <2>2 DEF Register, Return, Timeout, Fork, Exit, Die, StrayEnds, LeftDies
    <3>2. \A i \in Jobs :
             /\ child'[i] # "none" => child[i] # "none"
             /\ child[i] \in {"recorded", "exited", "killed"}
                => child'[i] \in {"recorded", "exited", "killed"}
      BY <2>0, <2>2
      DEF Register, Return, Timeout, Fork, Exit, Die, StrayEnds, LeftDies, Alive
    <3> QED BY <2>0, <3>1, <3>2, NoneGraded
  <2>3. ASSUME NEW j \in Jobs, RecordWedge(j) PROVE OnceInv'
    <3>1. Row(j, run, "wedge").kind = "wedge"
      BY DEF Row
    <3> QED BY <2>0, <2>3, <3>1, NoneGraded DEF RecordWedge
  <2>4. ASSUME NEW j \in Jobs, LeftRecords(j) PROVE OnceInv'
    <3>1. \A k : Row(j, 0, k).by = 0
      BY DEF Row
    <3> QED BY <2>0, <2>4, <3>1, NoneGraded DEF LeftRecords
  <2>5. ASSUME NEW j \in Jobs, Record(j) PROVE OnceInv'
    <3>1. PICK k \in {"graded", "skipped", "failed"} :
             results' = results \cup {Row(j, run, k)}
      BY <2>5 DEF Record
    <3>2. /\ UNCHANGED <<run, plan>> /\ child[j] = "working" /\ j \in plan
          /\ child' = [child EXCEPT ![j] = "recorded"]
      BY <2>0, <2>5 DEF Record
    <3>3. /\ Row(j, run, k).job = j /\ Row(j, run, k).by = run
          /\ Row(j, run, k).kind = k
      BY DEF Row
    <3>4. \A r \in results : r.job \in Jobs /\ r.by \in 0 .. MaxRuns
                             /\ r.by <= run
      BY <2>0 DEF Rows, WedgeInv
    <3>5. ASSUME NEW r \in results, r.kind = "graded", r.by # 0
          PROVE  r.job # j
      <4>1. CASE r.by = run
        BY <3>2, <3>5, <4>1 DEF OnceInv
      <4>2. CASE r.by < run
        BY <3>2, <3>5, <4>2 DEF OnceInv
      <4> QED BY <2>0, <3>4, <4>1, <4>2
    <3>6. GradedOnce'
      BY <3>1, <3>3, <3>5 DEF OnceInv, GradedOnce
    <3>7. \A i \in Jobs : child'[i] # "none" => i \in plan'
      BY <2>0, <3>2
    <3>8. \A r \in results' : r.kind = "graded" /\ r.by = run'
                              => child'[r.job] \in {"recorded", "exited", "killed"}
      BY <2>0, <3>1, <3>2, <3>3, <3>4 DEF OnceInv
    <3>9. \A r \in results' : r.kind = "graded" /\ r.by # 0 /\ r.by < run'
                              => r.job \notin plan'
      BY <2>0, <3>1, <3>2, <3>3 DEF OnceInv
    <3> QED BY <3>6, <3>7, <3>8, <3>9 DEF OnceInv
  <2>6. CASE NextPhase
    BY <2>0, <2>6, NoneGraded DEF NextPhase
  <2>7. CASE InterruptSerial
    <3>1. \A i \in Jobs :
             /\ child'[i] # "none" => child[i] # "none"
             /\ child[i] \in {"recorded", "exited", "killed"} => child'[i] = child[i]
      BY <2>0, <2>7 DEF InterruptSerial
    <3>2. UNCHANGED <<run, plan, results>>
      BY <2>7 DEF InterruptSerial
    <3> QED BY <2>0, <3>1, <3>2, NoneGraded
  <2>8. CASE InterruptPool
    <3>1. \A i \in Jobs :
             /\ child'[i] # "none" => child[i] # "none"
             /\ child[i] \in {"recorded", "exited", "killed"}
                => child'[i] \in {"recorded", "exited", "killed"}
      BY <2>0, <2>8 DEF InterruptPool, Alive
    <3>2. UNCHANGED <<run, plan, results>>
      BY <2>8 DEF InterruptPool
    <3> QED BY <2>0, <3>1, <3>2, NoneGraded
  <2>9. ASSUME NEW mode \in Modes, Rerun(mode) PROVE OnceInv'
    <3>1. UNCHANGED results /\ run' = run + 1 /\ plan' = Pending(mode)
          /\ \A j \in Jobs : child'[j] = "none"
      BY <2>9 DEF Rerun
    <3>2. \A r \in results : r.by \in Int /\ r.by < run'
      BY <2>0, <3>1, BatchAssumption DEF Rows, WedgeInv, BatchAssumption
    <3>3. \A r \in results' : r.kind = "graded" => r.job \notin plan'
      BY <3>1, GradedIsNotPending
    <3>4. GradedOnce'
      BY <3>1 DEF OnceInv, GradedOnce
    <3> QED BY <2>0, <3>1, <3>2, <3>3, <3>4 DEF OnceInv
  <2>10. CASE UNCHANGED vars
    BY <2>0, <2>10, NoneGraded DEF vars
  <2> QED
    BY <2>1, <2>2, <2>3, <2>4, <2>5, <2>6, <2>7, <2>8, <2>9, <2>10
    DEF Next, Driver, Child, Loose
<1> QED BY <1>1, <1>2, BatchTyping, BatchWedgeInv, PTL DEF Spec

\* The jobs of a run that is over were all given up or driven to their end.
LEMMA OverIsDone ==
    ASSUME TypeOK, SerialInv, RowInv, phase = "over", ~interrupted, NEW j \in plan
    PROVE  at[j] = "over"
<1>1. j \in Jobs /\ j \in RepoJobs \cup UrlJobs
  BY BatchAssumption DEF BatchAssumption, TypeOK, RepoJobs, UrlJobs
<1>2. at[j] \in Steps
  BY <1>1 DEF TypeOK
<1>3. at[j] # "todo"
  BY <1>1 DEF RowInv, Todo
<1>4. at[j] \notin {"popen", "active", "killing"}
  BY <1>1 DEF SerialInv, Running
<1> QED BY <1>2, <1>3, <1>4 DEF Steps

\* Over any number of runs, whatever is killed, interrupted or resumed: a batch
\* that ends undisturbed has a row for every job it planned (but those whose
\* child was gone without one), and no watched child grades a job again.
THEOREM BatchEachJobOnce == Spec => []EachJobOnce
<1>1. TypeOK /\ SerialInv /\ RowInv => EveryJobAccounted
  <2> SUFFICES ASSUME TypeOK, SerialInv, RowInv, phase = "over", ~interrupted,
                      NEW j \in plan
               PROVE  child[j] = "died" \/ HasRow(j)
    BY DEF EveryJobAccounted, HasRow
  <2> QED BY OverIsDone DEF RowInv, TypeOK
<1>2. OnceInv => GradedOnce
  BY DEF OnceInv
<1> QED
  BY <1>1, <1>2, BatchTyping, BatchSerialInv, BatchRowInv, BatchOnceInv, PTL
  DEF EachJobOnce
=============================================================================
