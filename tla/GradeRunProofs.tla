--------------------------- MODULE GradeRunProofs ---------------------------
(***************************************************************************)
(* Theorems about every grade: whatever the length of the catalog, the     *)
(* browser and Lighthouse probes in it, the edge and the arguments.        *)
(***************************************************************************)
EXTENDS GradeRun, FiniteSetTheorems, TLAPS

USE DEF target, ledger, verdict, history, weather, holder, Hear

\* A Report built by run() is a report.
LEMMA ReportTyping ==
    ASSUME TypeOK,
           NEW stage \in {"", "entry", "limited", "late"},
           NEW kept \in SUBSET Probes, NEW source \in BOOLEAN,
           NEW blocked \in SUBSET Probes
    PROVE  Report(stage, kept, source, blocked) \in Reports
<1>1. /\ (stage # "") \in BOOLEAN
      /\ (stage = "entry" \/ phase = "finalize") \in BOOLEAN
  OBVIOUS
<1>2. onsetProbe \in None .. N
  BY DEF TypeOK
<1> QED
  BY <1>1, <1>2, Zenon DEF Report, Reports

\* Recording a response leaves a probe id, "?" or None in the holder.
LEMMA RecordedTyping ==
    ASSUME onset \in None .. N, NEW resp, NEW id \in 0 .. N
    PROVE  Recorded(resp, id) \in None .. N
BY CatalogAssumption DEF CatalogAssumption, Recorded, None

\* A grade starts well typed.
LEMMA GradeInitTyped == Init => TypeOK
<1> SUFFICES ASSUME Init PROVE TypeOK
  OBVIOUS
<1>1. phase \in Phases /\ phase # "probe"
  BY DEF Init, Phases
<1>2. onset \in None .. N /\ onsetProbe \in None .. N /\ tag \in 0 .. N
  BY CatalogAssumption DEF CatalogAssumption, Init, None, Untagged
<1> QED BY <1>1, <1>2 DEF Init, TypeOK

\* Every variable of a grade keeps its type.
THEOREM GradeTyping == Spec => []TypeOK
<1> USE CatalogAssumption DEF CatalogAssumption
<1>1. Init => TypeOK
  BY GradeInitTyped
<1>2. TypeOK /\ [Next]_vars => TypeOK'
  <2> SUFFICES ASSUME TypeOK, [Next]_vars PROVE TypeOK'
    OBVIOUS
  <2> USE DEF TypeOK, Phases
  <2>0. tag \in 0 .. N /\ \A p \in Probes : p \in 0 .. N BY DEF Probes
  <2>1. CASE Deploy BY <2>1 DEF Deploy
  <2>2. CASE DeployFails BY <2>2 DEF DeployFails
  <2>3. CASE Discover
    <3>1. Report("", {}, FALSE, {}) \in Reports BY ReportTyping
    <3> QED BY <2>3, <3>1 DEF Discover, Publish
  <2>4. CASE DiscoverFails BY <2>4 DEF DiscoverFails
  <2>5. CASE EntryWithheld
    <3>1. Report("entry", {}, FALSE, Probes) \in Reports BY ReportTyping
    <3> QED BY <2>5, <3>1, <2>0, RecordedTyping DEF EntryWithheld, Publish
  <2>6. CASE EntryPasses
    <3>1. Report("", {}, FALSE, {}) \in Reports BY ReportTyping
    <3> QED BY <2>6, <3>1 DEF EntryPasses, Publish
  <2>7. CASE Prime BY <2>7, <2>0, RecordedTyping DEF Prime
  <2>8. CASE Lighthouse
    <3>1. Marked(page) \in BOOLEAN BY DEF Marked
    <3>2. opts.lighthouse \in BOOLEAN BY OptionsAssumption DEF OptionsAssumption, TypeOK
    <3> QED BY <2>8, <3>1, <3>2 DEF Lighthouse
  <2>9. CASE StartProbe BY <2>0, <2>9 DEF StartProbe, Probes
  <2>10. CASE LoopDone BY <2>10 DEF LoopDone
  <2>11. CASE ProbeRequest 
    BY <2>11, <2>0, RecordedTyping DEF ProbeRequest
  <2>12. CASE FinishProbe BY <2>0, <2>12 DEF FinishProbe
  <2>13. CASE HangProbe BY <2>0, <2>13 DEF HangProbe
  <2>14. CASE CheckOnset BY <2>14 DEF CheckOnset
  <2>15. CASE AppWide BY <2>15 DEF AppWide
  <2>16. CASE PerPathBlock BY <2>16 DEF PerPathBlock, None
  <2>17. CASE Classify 
    BY <2>17, <2>0, RecordedTyping DEF Classify
  <2>18. CASE ReadOnset BY <2>18 DEF ReadOnset
  <2>19. CASE EndCheck
    <3>1. Marked(page) \in BOOLEAN BY DEF Marked
    <3> QED BY <2>19, <3>1, <2>0, RecordedTyping DEF EndCheck
  <2>20. CASE Finalize
    <3>1. Stage \in {"", "limited", "late"} BY DEF Stage
    <3>2. Kept(Cut) \subseteq Probes /\ BlockedFrom(Cut) \subseteq Probes
      BY DEF Kept, BlockedFrom
    <3>3. opts.source \in BOOLEAN BY OptionsAssumption DEF OptionsAssumption, TypeOK
    <3>4. hung \subseteq Probes /\ outcomes \subseteq Probes
      OBVIOUS
    <3>5. Report(Stage, Kept(Cut), FALSE, BlockedFrom(Cut) \cup hung) \in Reports
      <4>1. BlockedFrom(Cut) \cup hung \in SUBSET Probes
        BY <3>2, <3>4
      <4> HIDE DEF TypeOK
      <4> QED BY <4>1, <3>1, <3>2, ReportTyping
    <3>6. Report(Stage, outcomes, opts.source, hung) \in Reports
      <4> HIDE DEF TypeOK
      <4> QED BY <3>1, <3>3, <3>4, ReportTyping
    <3>7. report' \in Reports
      BY <2>20, <3>5, <3>6 DEF Finalize, Publish
    <3> QED BY <2>20, <3>7 DEF Finalize, Publish
  <2>21. CASE Teardown BY <2>21 DEF Teardown
  <2>22. CASE WallUp BY <2>22 DEF WallUp
  <2>23. CASE WallDown BY <2>23 DEF WallDown
  <2>24. CASE \E s \in Probes : StrayRequest(s)
    BY <2>24, <2>0, RecordedTyping DEF StrayRequest
  <2>25. CASE \E s \in Probes : StrayDies(s) BY <2>25 DEF StrayDies
  <2>26. CASE UNCHANGED vars BY <2>26 DEF vars
  <2> QED
    BY <2>1, <2>2, <2>3, <2>4, <2>5, <2>6, <2>7, <2>8, <2>9, <2>10, <2>11,
       <2>12, <2>13, <2>14, <2>15, <2>16, <2>17, <2>18, <2>19, <2>20, <2>21,
       <2>22, <2>23, <2>24, <2>25, <2>26
    DEF Next, Main, Before, Loop, After, Env
<1> QED BY <1>1, <1>2, PTL DEF Spec

-----------------------------------------------------------------------------
(* Every catalog probe is measured or blocked, and never both.             *)

\* A recorded id is "?", the id recorded before, or the recording thread's.
LEMMA RecordedBound ==
    ASSUME TypeOK, onset <= tag, NEW resp, NEW id \in 0 .. N, id <= tag
    PROVE  /\ Recorded(resp, id) <= tag
           /\ onset # None => Recorded(resp, id) # None
BY DEF Recorded

\* The cut at an onset a probe recorded splits the catalog in two.
LEMMA CutPartitions ==
    ASSUME TypeOK, Ledger, phase = "finalize", onsetProbe \in Probes
    PROVE  Partition(Kept(Cut), BlockedFrom(Cut) \cup hung)
<1>1. Cut = onsetProbe /\ onsetProbe \in 1 .. N /\ onsetProbe <= tag
  BY CatalogAssumption
     DEF CatalogAssumption, Cut, Untagged, Probes, Ledger
<1>2. tag \in 0 .. N /\ outcomes \cup hung = 1 .. tag /\ outcomes \cap hung = {}
  BY DEF TypeOK, Ledger
<1>3. ASSUME NEW p \in Probes
      PROVE  p \in Kept(Cut) \/ p \in BlockedFrom(Cut) \cup hung
  <2>1. CASE p >= Cut BY <2>1 DEF BlockedFrom
  <2>2. CASE p < Cut
    <3>1. p \in 1 .. tag
      BY <2>2, <1>1, <1>2, CatalogAssumption DEF CatalogAssumption, Probes
    <3> QED BY <3>1, <2>2, <1>2 DEF Kept
  <2>3. p \in Int /\ Cut \in Int BY <1>1 DEF Probes
  <2> QED BY <2>1, <2>2, <2>3
<1>4. Kept(Cut) \cap (BlockedFrom(Cut) \cup hung) = {}
  BY <1>1, <1>2 DEF Kept, BlockedFrom, Probes
<1>5. Kept(Cut) \subseteq Probes /\ BlockedFrom(Cut) \subseteq Probes
      /\ hung \subseteq Probes
  BY DEF TypeOK, Kept, BlockedFrom
<1> QED BY <1>3, <1>4, <1>5 DEF Partition

\* A loop that was not cut short has an outcome or a hung mark for every probe.
LEMMA WholePartitions ==
    ASSUME TypeOK, Ledger, Halted, phase = "finalize", onsetProbe = None
    PROVE  Partition(outcomes, hung)
BY DEF TypeOK, Ledger, Halted, Partition, Probes

\* The Report Finalize builds accounts for the catalog.
LEMMA FinalizeAccounts ==
    ASSUME TypeOK, Ledger, Halted, Finalize
    PROVE  Accounted'
<1>1. phase = "finalize"
  BY DEF Finalize
<1>2. CASE onsetProbe = None
  <2>1. report' = Report(Stage, outcomes, opts.source, hung)
    BY <1>2 DEF Finalize, Publish
  <2>2. report'.kept = outcomes /\ report'.blocked = hung
    BY <2>1 DEF Report
  <2> QED BY <2>2, <1>1, <1>2, WholePartitions DEF Accounted, Partition
<1>3. CASE onsetProbe # None
  <2>1. report' = Report(Stage, Kept(Cut), FALSE, BlockedFrom(Cut) \cup hung)
    BY <1>3 DEF Finalize, Publish
  <2>2. /\ report'.kept = Kept(Cut)
        /\ report'.blocked = BlockedFrom(Cut) \cup hung
        /\ report'.onset = onsetProbe
    BY <2>1 DEF Report
  <2>3. onsetProbe # Untagged => onsetProbe \in Probes
    BY <1>3, CatalogAssumption
       DEF CatalogAssumption, TypeOK, None, Untagged, Probes
  <2> QED BY <2>2, <2>3, <1>1, CutPartitions DEF Accounted, Partition
<1> QED BY <1>2, <1>3

\* Every other Report that is published accounts for it too, or claims nothing.
LEMMA EarlyReportsAccount ==
    ASSUME TypeOK, Discover \/ EntryWithheld \/ EntryPasses, Accounted
    PROVE  Accounted'
<1>1. CASE report' = Report("", {}, FALSE, {})
  BY <1>1 DEF Discover, EntryWithheld, EntryPasses, Accounted, Graded, Report
<1>2. CASE report' = Report("entry", {}, FALSE, Probes)
  BY <1>2 DEF Accounted, Graded, Partition, Report
<1>3. CASE UNCHANGED report
  BY <1>3 DEF Accounted, Graded, Partition
<1> QED
  BY <1>1, <1>2, <1>3 DEF Discover, EntryWithheld, EntryPasses, Publish

\* Ledger, Halted and Accounted strengthen each other to an invariant.
LEMMA AccountStep ==
    ASSUME AccountInv, TypeOK', [Next]_vars
    PROVE  AccountInv'
<1> USE DEF AccountInv
<1>0. /\ tag \in Int /\ tag \in 0 .. N /\ onset \in Int /\ onsetProbe \in Int
      /\ N \in Nat
  BY CatalogAssumption DEF CatalogAssumption, TypeOK, None, Probes
<1>1. CASE UNCHANGED report /\ Next
  <2>1. Accounted'
    BY <1>1 DEF Accounted, Graded, Partition
  <2>2. CASE Before
    <3>1. CASE Deploy \/ DeployFails \/ DiscoverFails \/ Lighthouse
      BY <2>1, <3>1, <1>0
      DEF Deploy, DeployFails, DiscoverFails, Lighthouse, Ledger, Halted
    <3>2. CASE Discover
      BY <2>1, <3>2, <1>0 DEF Discover, Publish, Ledger, Halted
    <3>3. CASE EntryWithheld
      BY <2>1, <3>3, <1>0, RecordedBound
      DEF EntryWithheld, Publish, Ledger, Halted
    <3>4. CASE EntryPasses
      BY <2>1, <3>4, <1>0 DEF EntryPasses, Publish, Ledger, Halted
    <3>5. CASE Prime
      BY <2>1, <3>5, <1>0, RecordedBound DEF Prime, Ledger, Halted
    <3> QED BY <2>2, <3>1, <3>2, <3>3, <3>4, <3>5 DEF Before
  <2>3. CASE StartProbe
    BY <2>1, <2>3, <1>0 DEF StartProbe, Ledger, Halted
  <2>4. CASE LoopDone
    BY <2>1, <2>4, <1>0 DEF LoopDone, Ledger, Halted
  <2>5. CASE ProbeRequest
    BY <2>1, <2>5, <1>0, RecordedBound DEF ProbeRequest, Ledger, Halted
  <2>6. CASE FinishProbe
    BY <2>1, <2>6, <1>0 DEF FinishProbe, Ledger, Halted, TypeOK, Probes
  <2>7. CASE HangProbe
    BY <2>1, <2>7, <1>0 DEF HangProbe, Ledger, Halted, TypeOK, Probes
  <2>8. CASE CheckOnset
    BY <2>1, <2>8, <1>0 DEF CheckOnset, Ledger, Halted
  <2>9. CASE AppWide
    BY <2>1, <2>9, <1>0 DEF AppWide, Ledger, Halted
  <2>10. CASE PerPathBlock
    BY <2>1, <2>10, <1>0 DEF PerPathBlock, Ledger, Halted, None
  <2>11. CASE Classify
    BY <2>1, <2>11, <1>0, RecordedBound DEF Classify, Ledger, Halted
  <2>12. CASE ReadOnset
    BY <2>1, <2>12, <1>0 DEF ReadOnset, Ledger, Halted
  <2>13. CASE EndCheck
    BY <2>1, <2>13, <1>0, RecordedBound DEF EndCheck, Ledger, Halted
  <2>14. CASE Finalize
    BY <2>1, <2>14, <1>0 DEF Finalize, Publish, Ledger, Halted
  <2>15. CASE Teardown
    BY <2>1, <2>15, <1>0 DEF Teardown, Ledger, Halted
  <2>16. CASE WallUp \/ WallDown
    BY <2>1, <2>16, <1>0 DEF WallUp, WallDown, Ledger, Halted
  <2>17. ASSUME NEW s \in Probes, StrayRequest(s) PROVE AccountInv'
    <3>1. s <= tag /\ s \in 0 .. N
      BY <2>17, <1>0 DEF StrayRequest, TypeOK, Ledger, Probes
    <3> QED
      BY <2>1, <2>17, <3>1, <1>0, RecordedBound
      DEF StrayRequest, Ledger, Halted
  <2>18. ASSUME NEW s \in Probes, StrayDies(s) PROVE AccountInv'
    BY <2>1, <2>18, <1>0 DEF StrayDies, Ledger, Halted
  <2> QED
    BY <2>2, <2>3, <2>4, <2>5, <2>6, <2>7, <2>8, <2>9, <2>10, <2>11, <2>12,
       <2>13, <2>14, <2>15, <2>16, <2>17, <2>18, <1>1
    DEF Next, Main, Loop, After, Env
<1>2. CASE Finalize
  <2>1. Accounted' BY <1>2, FinalizeAccounts
  <2> QED
    BY <2>1, <1>2, <1>0 DEF Finalize, Publish, Ledger, Halted
<1>3. CASE Discover \/ EntryWithheld \/ EntryPasses
  <2>1. Accounted' BY <1>3, EarlyReportsAccount
  <2>2. CASE Discover
    BY <2>1, <2>2, <1>0 DEF Discover, Publish, Ledger, Halted
  <2>3. CASE EntryWithheld
    BY <2>1, <2>3, <1>0, RecordedBound
    DEF EntryWithheld, Publish, Ledger, Halted
  <2>4. CASE EntryPasses
    BY <2>1, <2>4, <1>0 DEF EntryPasses, Publish, Ledger, Halted
  <2> QED BY <1>3, <2>2, <2>3, <2>4
<1>4. CASE UNCHANGED vars
  BY <1>4 DEF vars, Ledger, Halted, Accounted, Graded, Partition
<1>5. Next => \/ UNCHANGED report
              \/ Finalize \/ Discover \/ EntryWithheld \/ EntryPasses
  BY DEF Next, Main, Before, Loop, After, Env, Deploy, DeployFails,
         DiscoverFails, Prime, Lighthouse, StartProbe, LoopDone, ProbeRequest,
         FinishProbe, HangProbe, CheckOnset, AppWide, PerPathBlock, Classify,
         ReadOnset, EndCheck, Teardown, WallUp, WallDown, StrayRequest,
         StrayDies
<1> QED BY <1>1, <1>2, <1>3, <1>4, <1>5

\* A grade starts with its books in order.
LEMMA GradeInitAccounts == Init => AccountInv
<1> SUFFICES ASSUME Init PROVE AccountInv
  OBVIOUS
<1>1. TypeOK
  BY GradeInitTyped
<1>2. Ledger /\ Halted
  BY DEF Init, Ledger, Halted, None, Untagged
<1>3. Accounted
  BY DEF Init, Accounted, Graded
<1> QED BY <1>1, <1>2, <1>3 DEF AccountInv

\* Every probe of the catalog is on the record exactly once, as measured or as
\* blocked, unless the onset was recorded before any probe was tagged.
THEOREM GradeAccounted == Spec => []Accounted
<1>1. Init => AccountInv
  BY GradeInitAccounts
<1>2. AccountInv /\ TypeOK' /\ [Next]_vars => AccountInv'
  BY AccountStep
<1>3. AccountInv => Accounted
  BY DEF AccountInv
<1> QED BY <1>1, <1>2, <1>3, GradeTyping, PTL DEF Spec

-----------------------------------------------------------------------------
(* No HTTP probe's outcome is scored when it met a lasting challenge.      *)

\* A recorded onset stays recorded, and a watched page leaves one.
LEMMA RecordedSet ==
    ASSUME NEW resp, NEW id \in 0 .. N
    PROVE  /\ onset # None => Recorded(resp, id) # None
           /\ resp = "challenge" => Recorded(resp, id) # None
BY DEF Recorded, Watched, None

\* The Report Finalize builds has no HTTP outcome of a wall.
LEMMA FinalizeDropsWalls ==
    ASSUME AccountInv, EvidenceInv, Finalize
    PROVE  NoHttpOutcomeOfAWall'
<1>1. phase = "finalize" /\ UNCHANGED dirty
  BY DEF Finalize
<1>2. CASE fickle \/ dirty \subseteq Browser \cup LhProbes
  BY <1>1, <1>2 DEF NoHttpOutcomeOfAWall, Finalize
<1>3. CASE ~(fickle \/ dirty \subseteq Browser \cup LhProbes)
  <2>1. onsetProbe # None /\ dirty \subseteq Browser \cup LhProbes \cup {tag}
    BY <1>1, <1>3 DEF EvidenceInv, WallInv
  <2>2. report' = Report(Stage, Kept(Cut), FALSE, BlockedFrom(Cut) \cup hung)
    BY <2>1 DEF Finalize, Publish
  <2>3. report'.kept = Kept(Cut) /\ report'.onset = onsetProbe
    BY <2>2 DEF Report
  <2>4. onsetProbe # Untagged => tag \notin Kept(Cut)
    BY <1>1, CatalogAssumption
    DEF CatalogAssumption, Kept, Cut, AccountInv, Ledger, TypeOK, None
  <2> QED BY <2>1, <2>3, <2>4, <1>1 DEF NoHttpOutcomeOfAWall
<1> QED BY <1>2, <1>3

\* The wall that an HTTP probe met is still up when the onset is confirmed.
LEMMA EvidenceStep ==
    ASSUME AccountInv, TypeOK', EvidenceInv, [Next]_vars
    PROVE  EvidenceInv'
<1> USE DEF EvidenceInv
<1>0. /\ page \in {"app", "challenge", "interstitial"} /\ tag \in 0 .. N
      /\ phase = "probe" => tag \in Probes
      /\ fickle \in BOOLEAN
  BY CatalogAssumption, EdgeAssumption
  DEF CatalogAssumption, EdgeAssumption, AccountInv, TypeOK, Probes
<1>00. /\ Next => (fickle => fickle')
       /\ Next => (~fickle' => page' # "interstitial")
  BY <1>0 DEF Next, Main, Before, Loop, After, Env, Deploy, DeployFails, Discover,
     DiscoverFails, EntryWithheld, EntryPasses, Prime, Lighthouse, StartProbe,
     LoopDone, ProbeRequest, FinishProbe, HangProbe, CheckOnset, AppWide,
     PerPathBlock, Classify, ReadOnset, EndCheck, Finalize, Teardown, WallUp,
     WallDown, StrayRequest, StrayDies, Publish
<1>1. CASE Next /\ UNCHANGED report
  <2>1. Next /\ phase \in {"teardown", "done"}
        => UNCHANGED dirty /\ phase' \in {"teardown", "done"}
    BY DEF Next, Main, Before, Loop, After, Env, Deploy, DeployFails, Discover,
       DiscoverFails, EntryWithheld, EntryPasses, Prime, Lighthouse, StartProbe,
       LoopDone, ProbeRequest, FinishProbe, HangProbe, CheckOnset, AppWide,
       PerPathBlock, Classify, ReadOnset, EndCheck, Finalize, Teardown, WallUp,
       WallDown, StrayRequest, StrayDies
  <2>2. NoHttpOutcomeOfAWall' /\ Published'
    BY <1>00, <1>1, <2>1 DEF NoHttpOutcomeOfAWall, Graded, Published
  <2>r. (fickle => fickle') /\ (~fickle' => page' # "interstitial")
    BY <1>00, <1>1
  <2> USE <2>r
  <2> SUFFICES ASSUME ~fickle PROVE EvidenceInv'
    BY <2>2 DEF WallInv
  <2>3. CASE phase \in {"teardown", "done"}
    BY <1>1, <2>1, <2>2, <2>3 DEF WallInv
  <2>4. CASE Before
    <3>1. UNCHANGED dirty
          /\ phase \in {"deploy", "discover", "entry", "prime", "lighthouse"}
      BY <2>4 DEF Before, Deploy, DeployFails, Discover, DiscoverFails,
         EntryWithheld, EntryPasses, Prime, Lighthouse
    <3> QED BY <3>1, <2>2 DEF WallInv
  <2>5. CASE StartProbe
    BY <2>2, <2>5 DEF StartProbe, WallInv
  <2>6. CASE LoopDone
    BY <2>2, <2>6 DEF LoopDone, WallInv
  <2>7. CASE ProbeRequest
    <3>1. CASE ~Marked(page)
      <4>1. onset # None => onset' # None
        BY <2>7, <1>0, RecordedSet DEF ProbeRequest
      <4> QED BY <2>2, <2>7, <3>1, <4>1 DEF ProbeRequest, WallInv
    <3>2. CASE Marked(page) /\ tag \in Browser
      BY <2>2, <2>7, <3>2 DEF ProbeRequest, WallInv
    <3>3. CASE Marked(page) /\ tag \notin Browser
      <4>1. page = "challenge" /\ Responses = {"challenge"}
        BY <1>0, <3>3 DEF Marked, Responses
      <4>2. onset' # None
        BY <2>7, <3>3, <4>1, <1>0, RecordedSet DEF ProbeRequest
      <4> QED BY <2>2, <2>7, <3>3, <4>1, <4>2 DEF ProbeRequest, WallInv
    <3> QED BY <3>1, <3>2, <3>3 DEF Marked
  <2>8. CASE FinishProbe
    BY <2>2, <2>8 DEF FinishProbe, WallInv
  <2>9. CASE HangProbe
    BY <2>2, <2>9 DEF HangProbe, WallInv
  <2>10. CASE CheckOnset
    BY <2>2, <2>10 DEF CheckOnset, WallInv
  <2>11. CASE AppWide
    BY <2>2, <2>11 DEF AppWide, WallInv
  <2>12. CASE PerPathBlock
    BY <2>2, <2>12 DEF PerPathBlock, WallInv, Marked
  <2>13. CASE Classify
    BY <2>2, <2>13, <1>0, RecordedSet DEF Classify, WallInv
  <2>14. CASE ReadOnset
    BY <2>2, <2>14 DEF ReadOnset, WallInv
  <2>15. CASE EndCheck
    BY <2>2, <2>15 DEF EndCheck, WallInv
  <2>16. CASE Finalize
    BY <2>2, <2>16 DEF Finalize, Publish, WallInv
  <2>17. CASE Teardown
    BY <2>2, <2>17 DEF Teardown, WallInv
  <2>18. CASE WallUp
    BY <2>2, <2>18 DEF WallUp, WallInv
  <2>19. CASE WallDown
    BY <2>2, <2>19 DEF WallDown, WallInv
  <2>20. ASSUME NEW s \in Probes, StrayRequest(s) PROVE EvidenceInv'
    <3>1. s \in 0 .. N
      BY CatalogAssumption DEF CatalogAssumption, Probes
    <3> QED BY <2>2, <2>20, <3>1, RecordedSet DEF StrayRequest, WallInv
  <2>21. ASSUME NEW s \in Probes, StrayDies(s) PROVE EvidenceInv'
    BY <2>2, <2>21 DEF StrayDies, WallInv
  <2> QED
    BY <1>1, <2>4, <2>5, <2>6, <2>7, <2>8, <2>9, <2>10, <2>11, <2>12, <2>13,
       <2>14, <2>15, <2>16, <2>17, <2>18, <2>19, <2>20, <2>21
    DEF Next, Main, Loop, After, Env
<1>2. CASE Finalize
  <2>1. NoHttpOutcomeOfAWall'
    BY <1>2, FinalizeDropsWalls
  <2>2. ~fickle' => page' # "interstitial"
    BY <1>00, <1>2 DEF Next, Main, After
  <2> QED BY <2>1, <2>2, <1>2 DEF Finalize, Publish, WallInv, Published
<1>3. CASE Discover \/ EntryWithheld \/ EntryPasses
  <2>1. CASE UNCHANGED report
    BY <2>1, <1>1, <1>3 DEF Next, Main, Before
  <2>2. CASE report' \in {Report("", {}, FALSE, {}),
                         Report("entry", {}, FALSE, Probes)}
    <3>1. report'.kept = {}
      <4>1. Report("", {}, FALSE, {}).kept = {}
        BY DEF Report
      <4>2. Report("entry", {}, FALSE, Probes).kept = {}
        BY DEF Report
      <4> QED BY <2>2, <4>1, <4>2
    <3>2. phase' = "teardown"
          \/ report' = report
      BY <1>3 DEF Discover, EntryWithheld, EntryPasses, Publish
    <3>3. ~fickle' => page' # "interstitial"
      BY <1>00, <1>3 DEF Next, Main, Before
    <3> QED
      BY <1>1, <1>3, <3>1, <3>2, <3>3
      DEF NoHttpOutcomeOfAWall, Published, WallInv, Next, Main, Before
  <2> QED
    BY <1>3, <2>1, <2>2 DEF Discover, EntryWithheld, EntryPasses, Publish
<1>4. CASE UNCHANGED vars
  BY <1>4 DEF vars, WallInv, Published, NoHttpOutcomeOfAWall, Graded
<1>5. Next => \/ UNCHANGED report
              \/ Finalize \/ Discover \/ EntryWithheld \/ EntryPasses
  BY DEF Next, Main, Before, Loop, After, Env, Deploy, DeployFails,
         DiscoverFails, Prime, Lighthouse, StartProbe, LoopDone, ProbeRequest,
         FinishProbe, HangProbe, CheckOnset, AppWide, PerPathBlock, Classify,
         ReadOnset, EndCheck, Teardown, WallUp, WallDown, StrayRequest,
         StrayDies
<1> QED BY <1>1, <1>2, <1>3, <1>4, <1>5

\* Unless the edge takes a challenge down again or puts one up that is not watched
\* for, no outcome of an HTTP probe that met one is ever scored, however probes
\* and threads interleave.
THEOREM GradeScoresNoWall == Spec => []NoHttpOutcomeOfAWall
<1>1. Init => AccountInv /\ EvidenceInv
  <2> SUFFICES ASSUME Init PROVE AccountInv /\ EvidenceInv
    OBVIOUS
  <2>1. AccountInv
    BY GradeInitAccounts
  <2>2. EvidenceInv
    BY DEF Init, EvidenceInv, WallInv, Published, NoHttpOutcomeOfAWall, Graded
  <2> QED BY <2>1, <2>2
<1>2. AccountInv /\ TypeOK' /\ [Next]_vars => AccountInv'
  BY AccountStep
<1>3. AccountInv /\ EvidenceInv /\ TypeOK' /\ [Next]_vars => EvidenceInv'
  BY EvidenceStep
<1>4. EvidenceInv => NoHttpOutcomeOfAWall
  BY DEF EvidenceInv
<1> QED BY <1>1, <1>2, <1>3, <1>4, GradeTyping, PTL DEF Spec

-----------------------------------------------------------------------------
(* The onset recorder.                                                     *)

\* A response leaves the place of the onset where it was, or at the probe that run()
\* is at.
LEMMA HearHere ==
    ASSUME NEW resp, NEW id, Hear(resp, id)
    PROVE  UNCHANGED holder \/ heard' = tag
OBVIOUS

\* A thread that is heard at a place run() does not leave keeps the onset in reach.
LEMMA HearStep ==
    ASSUME TypeOK, OnsetInv, NEW resp, NEW id, Hear(resp, id), UNCHANGED tag,
           \/ phase' = phase
           \/ phase' \notin {"deploy", "discover", "entry", "prime", "pick"} /\ tag = 0
           \/ phase' \notin {"deploy", "discover", "entry", "prime", "lighthouse", "pick"}
    PROVE  OnsetInv'
<1>1. tag \in Int /\ heard \in Int
  BY DEF TypeOK, Probes
<1>2. CASE UNCHANGED holder
  BY <1>1, <1>2 DEF OnsetInv
<1>3. CASE heard' = tag
  BY <1>1, <1>3 DEF OnsetInv
<1> QED BY <1>2, <1>3, HearHere

\* run() goes on by one probe at most from where the onset was recorded.
LEMMA OnsetStep ==
    ASSUME TypeOK, Halted, OnsetInv, [Next]_vars
    PROVE  OnsetInv'
<1>1. tag \in Int /\ heard \in Int /\ heard >= 0
  BY DEF TypeOK, Probes
<1>2. CASE Deploy \/ DeployFails \/ Discover \/ DiscoverFails \/ EntryPasses
  BY <1>1, <1>2 DEF Deploy, DeployFails, Discover, DiscoverFails, EntryPasses, Publish, OnsetInv
<1>3. CASE EntryWithheld
  <2>1. Hear(page, tag) /\ UNCHANGED tag /\ phase' = "teardown"
    BY <1>3 DEF EntryWithheld, Publish
  <2> QED BY <2>1, HearStep
<1>4. CASE Prime
  <2>1. UNCHANGED tag /\ phase' = "lighthouse" /\ tag = 0
    BY <1>4 DEF Prime, OnsetInv
  <2>2. CASE UNCHANGED holder
    BY <1>1, <2>1, <2>2 DEF OnsetInv
  <2>3. CASE \E resp \in Responses : Hear(resp, tag)
    BY <2>1, <2>3, HearStep
  <2> QED BY <1>4, <2>2, <2>3 DEF Prime
<1>5. CASE Lighthouse
  BY <1>1, <1>5 DEF Lighthouse, OnsetInv
<1>6. CASE StartProbe
  BY <1>1, <1>6 DEF StartProbe, OnsetInv
<1>7. CASE LoopDone \/ FinishProbe \/ HangProbe
  BY <1>1, <1>7 DEF LoopDone, FinishProbe, HangProbe, OnsetInv
<1>8. CASE ProbeRequest
  <2>1. UNCHANGED <<tag, phase>>
    BY <1>8 DEF ProbeRequest
  <2>2. CASE UNCHANGED holder
    BY <1>1, <2>1, <2>2 DEF OnsetInv
  <2>3. CASE \E resp \in Responses : Hear(resp, tag)
    BY <2>1, <2>3, HearStep
  <2> QED BY <1>8, <2>2, <2>3 DEF ProbeRequest
<1>9. CASE CheckOnset \/ AppWide \/ ReadOnset \/ Finalize \/ Teardown
  BY <1>1, <1>9 DEF CheckOnset, AppWide, ReadOnset, Finalize, Teardown, Publish, OnsetInv
<1>10. CASE PerPathBlock
  BY <1>1, <1>10 DEF PerPathBlock, OnsetInv
<1>11. CASE Classify \/ EndCheck
  <2>1. UNCHANGED tag /\ phase' \in {"read", "finalize"}
    BY <1>11 DEF Classify, EndCheck
  <2>2. CASE UNCHANGED holder
    BY <1>1, <2>1, <2>2 DEF OnsetInv
  <2>3. CASE Hear(page, tag)
    BY <2>1, <2>3, HearStep
  <2> QED BY <1>11, <2>2, <2>3 DEF Classify, EndCheck
<1>12. CASE WallUp \/ WallDown
  BY <1>1, <1>12 DEF WallUp, WallDown, OnsetInv
<1>13. ASSUME NEW s \in Probes, StrayRequest(s) PROVE OnsetInv'
  <2>1. UNCHANGED <<tag, phase>> /\ \E resp \in Responses : Hear(resp, s)
    BY <1>13 DEF StrayRequest
  <2> QED BY <2>1, HearStep
<1>14. ASSUME NEW s \in Probes, StrayDies(s) PROVE OnsetInv'
  BY <1>1, <1>14 DEF StrayDies, OnsetInv
<1>15. CASE UNCHANGED vars
  BY <1>1, <1>15 DEF vars, OnsetInv
<1> QED
  BY <1>2, <1>3, <1>4, <1>5, <1>6, <1>7, <1>8, <1>9, <1>10, <1>11, <1>12,
     <1>13, <1>14, <1>15
  DEF Next, Main, Before, Loop, After, Env

\* Whatever thread meets a challenge, and whenever, at most one more probe starts
\* before run() stops or finds the origin open.
THEOREM GradeStopsAtOnset == Spec => []StopsAtOnset
<1>1. Init => AccountInv /\ OnsetInv
  <2> SUFFICES ASSUME Init PROVE AccountInv /\ OnsetInv
    OBVIOUS
  <2>1. OnsetInv
    BY DEF Init, OnsetInv, Untagged
  <2> QED BY <2>1, GradeInitAccounts
<1>2. AccountInv /\ TypeOK' /\ [Next]_vars => AccountInv'
  BY AccountStep
<1>3. AccountInv /\ OnsetInv /\ [Next]_vars => OnsetInv'
  BY OnsetStep DEF AccountInv
<1>4. OnsetInv => StopsAtOnset
  BY DEF OnsetInv, StopsAtOnset
<1> QED BY <1>1, <1>2, <1>3, <1>4, GradeTyping, PTL DEF Spec

-----------------------------------------------------------------------------
(* Blocks of single paths.                                                 *)

\* A response that is not a watched challenge records nothing.
LEMMA RecordedNothing ==
    ASSUME NEW id PROVE Recorded("app", id) = onset
BY DEF Recorded, Watched

\* A step that leaves the grade without a cloud or an abandoned thread started
\* without one.
LEMMA InnocentBefore ==
    ASSUME TypeOK, [Next]_vars, hung' = {}, ~clouded'
    PROVE  hung = {} /\ ~clouded /\ strays = {}
<1>1. Next => hung \subseteq hung'
  BY DEF Next, Main, Before, Loop, After, Env, Deploy, DeployFails, Discover,
     DiscoverFails, EntryWithheld, EntryPasses, Prime, Lighthouse, StartProbe,
     LoopDone, ProbeRequest, FinishProbe, HangProbe, CheckOnset, AppWide,
     PerPathBlock, Classify, ReadOnset, EndCheck, Finalize, Teardown, WallUp,
     WallDown, StrayRequest, StrayDies
<1>2. Next => clouded' = clouded \/ clouded' = TRUE
  BY DEF Next, Main, Before, Loop, After, Env, Deploy, DeployFails, Discover,
     DiscoverFails, EntryWithheld, EntryPasses, Prime, Lighthouse, StartProbe,
     LoopDone, ProbeRequest, FinishProbe, HangProbe, CheckOnset, AppWide,
     PerPathBlock, Classify, ReadOnset, EndCheck, Finalize, Teardown, WallUp,
     WallDown, StrayRequest, StrayDies
<1>3. UNCHANGED vars => UNCHANGED <<hung, clouded>>
  BY DEF vars
<1>4. strays \subseteq hung
  BY DEF TypeOK
<1> QED BY <1>1, <1>2, <1>3, <1>4

\* The loop ends on a whole catalog of outcomes, and the Report says so.
LEMMA FinalizeInnocent ==
    ASSUME AccountInv, hung = {}, onsetProbe = None, ~endChal, Finalize
    PROVE  ~report'.bot /\ report'.kept = Probes
<1>1. phase = "finalize" /\ report' = Report(Stage, outcomes, opts.source, hung)
  BY DEF Finalize, Publish
<1>2. Stage = ""
  BY DEF Stage
<1>3. report'.kept = outcomes /\ report'.bot = (Stage # "")
  BY <1>1 DEF Report
<1>4. Partition(outcomes, hung)
  BY <1>1, WholePartitions DEF AccountInv
<1> QED BY <1>2, <1>3, <1>4 DEF Partition

\* Blocks of single paths are cleared before the loop is left.
LEMMA InnocentStep ==
    ASSUME AccountInv, InnocentInv, [Next]_vars
    PROVE  InnocentInv'
<1> DEFINE Early == {"deploy", "discover", "entry", "prime", "lighthouse"}
<1> DEFINE Late  == {"classify", "read", "endcheck", "finalize"}
<1>1. (phase \in Early => tag = 0)'
  BY DEF InnocentInv, vars, Next, Main, Before, Loop, After, Env, Deploy,
     DeployFails, Discover, DiscoverFails, EntryWithheld, EntryPasses, Prime,
     Lighthouse, StartProbe, LoopDone, ProbeRequest, FinishProbe, HangProbe,
     CheckOnset, AppWide, PerPathBlock, Classify, ReadOnset, EndCheck,
     Finalize, Teardown, WallUp, WallDown, StrayRequest, StrayDies, Publish
<1>2. SUFFICES ASSUME hung' = {}, ~clouded'
               PROVE  /\ page' = "app" /\ onsetProbe' = None /\ ~endChal'
                      /\ (phase' = "pick" /\ tag' > 0) => onset' = None
                      /\ phase' \in Late => onset' = None
                      /\ PerPathInnocent'
  BY <1>1 DEF InnocentInv
<1>3. hung = {} /\ ~clouded /\ strays = {}
  BY <1>2, InnocentBefore DEF AccountInv
<1>4. /\ page = "app" /\ ~Marked(page) /\ onsetProbe = None /\ ~endChal
      /\ (phase = "pick" /\ tag > 0) => onset = None
      /\ phase \in Late => onset = None
      /\ report # NoReport => ~report.bot /\ (report.battery => report.kept = Probes)
  BY <1>3 DEF InnocentInv, PerPathInnocent, Marked
<1>5. /\ N \in Nat \ {0} /\ tag \in 0 .. N /\ tag \in Int
      /\ phase = "probe" => tag > 0
  BY CatalogAssumption DEF CatalogAssumption, AccountInv, TypeOK, Probes
<1> HIDE DEF Late, Early
<1>6. CASE Before
  <2>1. UNCHANGED <<page, onsetProbe, endChal, tag>> /\ tag = 0 /\ phase' \notin Late
    BY <1>6
    DEF Before, Deploy, DeployFails, Discover, DiscoverFails, EntryWithheld,
        EntryPasses, Prime, Lighthouse, Publish, InnocentInv, Late
  <2>2. Report("", {}, FALSE, {}).bot = FALSE
        /\ (phase # "finalize" => ~Report("", {}, FALSE, {}).battery)
    BY DEF Report
  <2>3. PerPathInnocent'
    BY <1>4, <1>6, <2>2
    DEF PerPathInnocent, Before, Deploy, DeployFails, Discover, DiscoverFails,
        EntryWithheld, EntryPasses, Prime, Lighthouse, Publish
  <2> QED BY <1>4, <2>1, <2>3
<1>7. CASE Next /\ UNCHANGED report
  <2>1. PerPathInnocent'
    BY <1>4, <1>7 DEF PerPathInnocent
  <2>2. CASE StartProbe \/ LoopDone
    BY <1>4, <1>5, <2>1, <2>2 DEF StartProbe, LoopDone, Late
  <2>3. CASE ProbeRequest
    BY <1>4, <2>1, <2>3 DEF ProbeRequest, Late
  <2>4. CASE FinishProbe \/ CheckOnset
    BY <1>4, <2>1, <2>4 DEF FinishProbe, CheckOnset, Late
  <2>5. CASE HangProbe \/ AppWide
    BY <1>2, <2>5 DEF HangProbe, AppWide
  <2>6. CASE PerPathBlock
    BY <1>4, <2>1, <2>6 DEF PerPathBlock, Late
  <2>7. CASE Classify \/ EndCheck
    BY <1>4, <2>1, <2>7, RecordedNothing DEF Classify, EndCheck, Late
  <2>8. CASE ReadOnset
    BY <1>4, <2>1, <2>8 DEF ReadOnset, Late
  <2>9. CASE Teardown
    BY <1>4, <2>1, <2>9 DEF Teardown, Late
  <2>10. CASE Env
    BY <1>2, <1>3, <1>4, <2>1, <2>10
    DEF Env, WallUp, WallDown, StrayRequest, StrayDies
  <2>11. CASE Finalize
    BY <1>4, <2>1, <2>11 DEF Finalize, Publish, Late
  <2> QED
    BY <1>6, <1>7, <2>2, <2>3, <2>4, <2>5, <2>6, <2>7, <2>8, <2>9, <2>10, <2>11
    DEF Next, Main, Loop, After
<1>8. CASE Finalize
  <2>1. ~report'.bot /\ report'.kept = Probes
    BY <1>3, <1>4, <1>8, FinalizeInnocent
  <2>2. UNCHANGED <<page, onsetProbe, endChal>> /\ phase' = "teardown"
    BY <1>8 DEF Finalize, Publish
  <2> QED BY <1>4, <2>1, <2>2 DEF PerPathInnocent, Late
<1>9. CASE UNCHANGED vars
  BY <1>4, <1>9 DEF vars, PerPathInnocent
<1>10. Next => UNCHANGED report \/ Finalize \/ Before
  BY DEF Next, Main, Loop, After, Env, StartProbe, LoopDone, ProbeRequest,
         FinishProbe, HangProbe, CheckOnset, AppWide, PerPathBlock, Classify,
         ReadOnset, EndCheck, Teardown, WallUp, WallDown, StrayRequest,
         StrayDies
<1> QED BY <1>6, <1>7, <1>8, <1>9, <1>10

\* While the origin answers and no thread is abandoned, blocks of single paths
\* neither mark a record nor cut it, whatever order they come in.
THEOREM GradePerPathInnocent == Spec => []PerPathInnocent
<1>1. Init => AccountInv /\ InnocentInv
  <2> SUFFICES ASSUME Init PROVE AccountInv /\ InnocentInv
    OBVIOUS
  <2>1. InnocentInv
    BY DEF Init, InnocentInv, PerPathInnocent, None, Untagged
  <2> QED BY <2>1, GradeInitAccounts
<1>2. AccountInv /\ TypeOK' /\ [Next]_vars => AccountInv'
  BY AccountStep
<1>3. AccountInv /\ InnocentInv /\ [Next]_vars => InnocentInv'
  BY InnocentStep
<1>4. InnocentInv => PerPathInnocent
  BY DEF InnocentInv, PerPathInnocent
<1> QED BY <1>1, <1>2, <1>3, <1>4, GradeTyping, PTL DEF Spec

-----------------------------------------------------------------------------
(* A ranked record stands on enough of the catalog.                        *)

\* Multiplication keeps the order of the naturals.
LEMMA Products ==
    ASSUME NEW a \in Nat, NEW b \in Nat, NEW k \in Nat
    PROVE  /\ a * k \in Nat /\ k * a \in Nat /\ a * k = k * a
           /\ a <= b => k * a <= k * b
<1>1. a * k \in Nat /\ k * a \in Nat /\ a * k = k * a
  OBVIOUS
<1>2. a <= b => k * a <= k * b
  <2> SUFFICES ASSUME a <= b PROVE k * a <= k * b
    OBVIOUS
  <2>1. b - a \in Nat
    OBVIOUS
  <2>2. k * (b - a) \in Nat
    BY <2>1
  <2>3. k * b = k * a + k * (b - a)
    OBVIOUS
  <2>4. k * a \in Int /\ k * b \in Int
    OBVIOUS
  <2> QED BY <2>2, <2>3, <2>4
<1> QED BY <1>1, <1>2

\* A fraction of a catalog is no more than the catalog.
LEMMA FractionOfAll == FracNum * N <= FracDen * N
<1>1. N \in Nat /\ FracNum \in Nat /\ FracDen \in Nat /\ FracNum <= FracDen
  BY CatalogAssumption, FractionAssumption
  DEF CatalogAssumption, FractionAssumption
<1>2. N * FracNum <= N * FracDen
  BY <1>1, Products
<1>3. N * FracNum = FracNum * N /\ N * FracDen = FracDen * N
  BY <1>1, Products
<1> QED BY <1>2, <1>3

\* A set of probes that has the first k of them has at least k members.
LEMMA FirstProbes ==
    ASSUME NEW k \in 0 .. N, NEW S \in SUBSET Probes, 1 .. k \subseteq S
    PROVE  IsFiniteSet(S) /\ Cardinality(S) \in Nat /\ Cardinality(S) >= k
<1>1. N \in Nat /\ k \in Nat
  BY CatalogAssumption DEF CatalogAssumption
<1>2. IsFiniteSet(Probes)
  BY <1>1, FS_Interval DEF Probes
<1>3. IsFiniteSet(S) /\ Cardinality(S) \in Nat
  BY <1>2, FS_Subset, FS_CardinalityType
<1>4. IsFiniteSet(1 .. k) /\ Cardinality(1 .. k) = k
  BY <1>1, FS_Interval
<1>5. Cardinality(1 .. k) <= Cardinality(S)
  BY <1>3, FS_Subset
<1> QED BY <1>1, <1>3, <1>4, <1>5

\* The record Finalize builds is of a battery that ran up to the cut, or all through.
LEMMA FinalizeMeasures ==
    ASSUME AccountInv, Finalize
    PROVE  RankableIsMostlyRun'
<1> DEFINE Ranked == report'.stage \in {"", "late"}
<1> SUFFICES ASSUME report'.onset # Untagged, Ranked
             PROVE  FracDen * Cardinality(report'.kept \cup GivenUp(report')) >= FracNum * N
  BY DEF RankableIsMostlyRun, Finalize, GivenUp
<1> HIDE DEF Ranked
<1>1. phase = "finalize" /\ TypeOK /\ Ledger /\ Halted
  BY DEF Finalize, AccountInv
<1>2. /\ N \in Nat /\ FracNum \in Nat /\ FracDen \in Nat /\ tag \in 0 .. N
      /\ onsetProbe \in Int /\ onsetProbe <= tag
      /\ onsetProbe \notin {None, Untagged} => onsetProbe \in 1 .. N
  BY <1>1, CatalogAssumption, FractionAssumption
  DEF CatalogAssumption, FractionAssumption, TypeOK, Ledger, None, Untagged
<1>3. /\ outcomes \cup hung = 1 .. tag
      /\ outcomes \subseteq Probes /\ hung \subseteq Probes
  BY <1>1 DEF TypeOK, Ledger
<1>4. ASSUME NEW S \in SUBSET Probes, NEW k \in 0 .. N, 1 .. k \subseteq S,
             report'.kept \cup GivenUp(report') = S, FracNum * N <= FracDen * k
      PROVE  FracDen * Cardinality(report'.kept \cup GivenUp(report')) >= FracNum * N
  <2>1. Cardinality(S) >= k /\ Cardinality(S) \in Nat /\ k \in Nat
    BY <1>2, <1>4, FirstProbes
  <2>2. /\ FracDen * k <= FracDen * Cardinality(S) /\ FracDen * k \in Nat
        /\ FracDen * Cardinality(S) \in Nat /\ FracNum * N \in Nat
    BY <1>2, <2>1, Products
  <2>3. FracDen * Cardinality(S) >= FracNum * N
    BY <1>4, <2>2
  <2> QED BY <1>4, <2>3
<1>5. CASE onsetProbe = None
  <2>1. report' = Report(Stage, outcomes, opts.source, hung)
    BY <1>5 DEF Finalize, Publish
  <2>2. report'.kept \cup GivenUp(report') = outcomes \cup hung
    <3>1. report'.kept = outcomes /\ report'.onset = None
      BY <1>5, <2>1 DEF Report
    <3> QED BY <3>1 DEF GivenUp
  <2>3. tag = N
    BY <1>1, <1>5 DEF Halted
  <2>4. outcomes \cup hung \in SUBSET Probes /\ 1 .. N \subseteq outcomes \cup hung
    BY <1>3, <2>3
  <2>5. N \in 0 .. N
    BY <1>2
  <2> QED BY <1>4, <2>2, <2>4, <2>5, FractionOfAll
<1>6. CASE onsetProbe # None
  <2>1. report' = Report(Stage, Kept(Cut), FALSE, BlockedFrom(Cut) \cup hung)
    BY <1>6 DEF Finalize, Publish
  <2>2. report'.kept = Kept(Cut) /\ report'.stage = Stage
        /\ onsetProbe # Untagged
    BY <2>1 DEF Report
  <2>3. onsetProbe \in 1 .. N
    BY <1>2, <1>6, <2>2
  <2>4. Cut = onsetProbe
    BY <2>2 DEF Cut
  <2>5. Cut - 1 \in 0 .. N /\ Cut - 1 \in Nat /\ Cut <= tag /\ Cut \in Int
    BY <1>2, <2>3, <2>4
  <2>6. ~((Cut - 1) * FracDen < FracNum * N)
    BY <1>6, <2>2, Zenon DEF Stage, Ranked
  <2>7. /\ FracDen * (Cut - 1) = (Cut - 1) * FracDen
        /\ (Cut - 1) * FracDen \in Nat /\ FracNum * N \in Nat
    BY <1>2, <2>5, Products
  <2>8. FracNum * N <= FracDen * (Cut - 1)
    BY <2>6, <2>7
  <2>9. Kept(Cut) \cup GivenUp(report') \in SUBSET Probes
    BY <1>3 DEF Kept, GivenUp
  <2>10. ASSUME NEW p \in 1 .. (Cut - 1) PROVE p \in Kept(Cut) \cup GivenUp(report')
    <3>1. p \in 1 .. tag /\ p < Cut
      BY <1>2, <2>5
    <3>2. report'.onset = Cut
      BY <2>1, <2>4 DEF Report
    <3> QED BY <1>3, <3>1, <3>2 DEF Kept, GivenUp
  <2> QED BY <1>4, <2>2, <2>5, <2>8, <2>9, <2>10
<1> QED BY <1>5, <1>6

\* Nothing hangs, and no Report changes, once a Report is out.
LEMMA MeasuredStep ==
    ASSUME AccountInv, MeasuredInv, [Next]_vars
    PROVE  MeasuredInv'
<1> USE DEF MeasuredInv
<1>1. CASE Finalize
  <2>1. RankableIsMostlyRun'
    BY <1>1, FinalizeMeasures
  <2> QED BY <2>1, <1>1 DEF Finalize, Publish, Published
<1>2. CASE Next /\ UNCHANGED <<report, hung>>
  <2>1. Published'
    BY <1>2 DEF Published, Next, Main, Before, Loop, After, Env, Deploy,
       DeployFails, Discover, DiscoverFails, EntryWithheld, EntryPasses, Prime,
       Lighthouse, StartProbe, LoopDone, ProbeRequest, FinishProbe, HangProbe,
       CheckOnset, AppWide, PerPathBlock, Classify, ReadOnset, EndCheck,
       Finalize, Teardown, WallUp, WallDown, StrayRequest, StrayDies
  <2>2. RankableIsMostlyRun'
    BY <1>2 DEF RankableIsMostlyRun, GivenUp, Graded
  <2> QED BY <2>1, <2>2
<1>3. CASE HangProbe
  BY <1>3 DEF HangProbe, Published, RankableIsMostlyRun, GivenUp, Graded
<1>4. CASE Discover \/ EntryPasses \/ EntryWithheld
  <2>1. phase' = "teardown" \/ report' = report
    BY <1>4 DEF Discover, EntryPasses, EntryWithheld, Publish
  <2>2. Report("entry", {}, FALSE, Probes).stage = "entry"
        /\ (phase # "finalize" => ~Report("", {}, FALSE, {}).battery)
    BY DEF Report
  <2>3. CASE UNCHANGED report
    BY <1>2, <1>4, <2>3
    DEF Discover, EntryPasses, EntryWithheld, Next, Main, Before
  <2>4. CASE report' # report
    BY <1>4, <2>1, <2>2, <2>4
    DEF Discover, EntryPasses, EntryWithheld, Publish, Published,
        RankableIsMostlyRun, GivenUp, Graded
  <2> QED BY <2>3, <2>4
<1>5. CASE UNCHANGED vars
  BY <1>5 DEF vars, Published, RankableIsMostlyRun, GivenUp, Graded
<1>6. Next => \/ UNCHANGED <<report, hung>>
              \/ Finalize \/ HangProbe \/ Discover \/ EntryPasses \/ EntryWithheld
  BY DEF Next, Main, Before, Loop, After, Env, Deploy, DeployFails,
         DiscoverFails, Prime, Lighthouse, StartProbe, LoopDone, ProbeRequest,
         FinishProbe, CheckOnset, AppWide, PerPathBlock, Classify, ReadOnset,
         EndCheck, Teardown, WallUp, WallDown, StrayRequest, StrayDies
<1> QED BY <1>1, <1>2, <1>3, <1>4, <1>5, <1>6

\* A record that the benchmark ranks is of a battery that ran, to an outcome or to
\* a deadline, at least _MIN_VALID_FRACTION of the catalog before the cut.
THEOREM GradeRankable == Spec => []RankableIsMostlyRun
<1>1. Init => AccountInv /\ MeasuredInv
  <2> SUFFICES ASSUME Init PROVE AccountInv /\ MeasuredInv
    OBVIOUS
  <2>1. MeasuredInv
    BY DEF Init, MeasuredInv, Published, RankableIsMostlyRun, GivenUp, Graded
  <2> QED BY <2>1, GradeInitAccounts
<1>2. AccountInv /\ TypeOK' /\ [Next]_vars => AccountInv'
  BY AccountStep
<1>3. AccountInv /\ MeasuredInv /\ [Next]_vars => MeasuredInv'
  BY MeasuredStep
<1>4. MeasuredInv => RankableIsMostlyRun
  BY DEF MeasuredInv
<1> QED BY <1>1, <1>2, <1>3, <1>4, GradeTyping, PTL DEF Spec

-----------------------------------------------------------------------------
(* A grade implements GradePromise, step by step.                          *)

\* Without an email account, an onset of the battery is some probe's.
LEMMA TaggedStep ==
    ASSUME AccountInv, TaggedInv, [Next]_vars
    PROVE  TaggedInv'
<1>0. UNCHANGED opts
  BY DEF vars, Next, Main, Before, Loop, After, Env, Deploy, DeployFails, Discover,
     DiscoverFails, EntryWithheld, EntryPasses, Prime, Lighthouse, StartProbe,
     LoopDone, ProbeRequest, FinishProbe, HangProbe, CheckOnset, AppWide,
     PerPathBlock, Classify, ReadOnset, EndCheck, Finalize, Teardown, WallUp,
     WallDown, StrayRequest, StrayDies
<1> SUFFICES ASSUME ~opts.email PROVE TaggedInv'
  BY <1>0 DEF TaggedInv
<1>1. /\ ~opts.email /\ N \in Nat \ {0} /\ onset \in Int /\ tag \in 0 .. N
      /\ phase = "probe" => tag > 0
  BY CatalogAssumption
  DEF CatalogAssumption, AccountInv, TypeOK, Probes, None
<1>2. \A resp, id : Recorded(resp, id) \in {onset, id}
  BY DEF Recorded
<1> USE DEF TaggedInv
<1>3. CASE Before
  BY <1>1, <1>3
  DEF Before, Deploy, DeployFails, Discover, DiscoverFails, EntryWithheld,
      EntryPasses, Prime, Lighthouse, Publish
<1>4. CASE StartProbe \/ LoopDone \/ FinishProbe \/ HangProbe \/ CheckOnset
           \/ AppWide \/ ReadOnset \/ Finalize \/ Teardown
  BY <1>4 DEF StartProbe, LoopDone, FinishProbe, HangProbe, CheckOnset, AppWide,
     ReadOnset, Finalize, Teardown, Publish
<1>5. CASE ProbeRequest
  BY <1>1, <1>2, <1>5 DEF ProbeRequest, Untagged
<1>6. CASE PerPathBlock
  BY <1>6 DEF PerPathBlock, None, Untagged
<1>7. CASE Classify
  <2>1. onset # None \/ tag = N
    BY <1>7 DEF Classify, AccountInv, Halted
  <2>2. onset' = onset \/ (onset = None /\ onset' = tag)
    BY <1>7 DEF Classify, Recorded
  <2> QED BY <1>1, <1>7, <2>1, <2>2 DEF Classify, Untagged
<1>8. CASE EndCheck
  <2>1. tag = N
    BY <1>8 DEF EndCheck, AccountInv, Halted
  <2> QED BY <1>1, <1>2, <1>8, <2>1 DEF EndCheck, Untagged
<1>9. CASE WallUp \/ WallDown
  BY <1>9 DEF WallUp, WallDown
<1>10. ASSUME NEW s \in Probes, StrayRequest(s) \/ StrayDies(s) PROVE TaggedInv'
  <2>1. s # Untagged
    BY <1>1 DEF Probes, Untagged
  <2> QED BY <1>2, <1>10, <2>1 DEF StrayRequest, StrayDies
<1>11. CASE UNCHANGED vars
  BY <1>11 DEF vars
<1> QED
  BY <1>3, <1>4, <1>5, <1>6, <1>7, <1>8, <1>9, <1>10, <1>11
  DEF Next, Main, Loop, After, Env

\* A partition of the catalog is one of the promised verdicts.
LEMMA PartitionIsSplit ==
    ASSUME NEW kept \in SUBSET Probes, NEW blocked \in SUBSET Probes,
           Partition(kept, blocked)
    PROVE  [measured |-> kept, blocked |-> blocked] \in Promise!Splits
<1>1. blocked = Probes \ kept
  BY DEF Partition
<1> QED BY <1>1 DEF Promise!Splits

\* Cut at an onset without a probe, a Report still books no probe twice.
LEMMA FinalizeBooksOnce ==
    ASSUME TypeOK, Ledger, Finalize, onsetProbe = Untagged
    PROVE  report'.kept \cap report'.blocked = {}
<1>1. report' = Report(Stage, Kept(Cut), FALSE, BlockedFrom(Cut) \cup hung)
  BY DEF Finalize, Publish, None, Untagged
<1>2. report'.kept = Kept(Cut) /\ report'.blocked = BlockedFrom(Cut) \cup hung
  BY <1>1 DEF Report
<1>3. Cut \in Int
  BY CatalogAssumption DEF CatalogAssumption, Cut
<1> QED BY <1>2, <1>3 DEF Kept, BlockedFrom, Ledger, Probes

\* The record a grade publishes is a promised verdict.
LEMMA PublishedIsPromised ==
    ASSUME TypeOK, Ledger, TypeOK', Accounted', TaggedInv, Next,
           report' # report, report' # NoReport
    PROVE  [measured |-> report'.kept, blocked |-> report'.blocked]
           \in Promise!Splits \cup {Promise!SurfaceOnly} \cup (IF opts.email THEN Promise!Loose ELSE {})
<1>1. report'.kept \in SUBSET Probes /\ report'.blocked \in SUBSET Probes
  BY DEF TypeOK, Reports
<1>2. CASE Finalize
  <2>1. phase = "finalize" /\ (opts.email \/ onsetProbe # Untagged)
    BY <1>2 DEF Finalize, TaggedInv
  <2>2. report'.onset = onsetProbe /\ report'.battery
    <3>1. \A stage, kept, source, blocked :
             /\ Report(stage, kept, source, blocked).onset = onsetProbe
             /\ Report(stage, kept, source, blocked).battery
      BY <2>1 DEF Report
    <3> QED BY <1>2, <3>1, Zenon DEF Finalize, Publish
  <2>3. CASE onsetProbe # Untagged
    <3>1. Partition(report'.kept, report'.blocked)
      BY <2>1, <2>2, <2>3 DEF Accounted, Graded, Partition
    <3> QED BY <1>1, <3>1, PartitionIsSplit
  <2>4. CASE onsetProbe = Untagged
    <3>1. report'.kept \cap report'.blocked = {}
      BY <1>2, <2>4, FinalizeBooksOnce
    <3>2. [measured |-> report'.kept, blocked |-> report'.blocked] \in Promise!Loose
      BY <1>1, <3>1 DEF Promise!Loose
    <3> QED BY <2>1, <2>4, <3>2
  <2> QED BY <2>3, <2>4
<1>3. CASE report' = Report("", {}, FALSE, {})
  BY <1>3 DEF Report, Promise!SurfaceOnly
<1>4. CASE report' = Report("entry", {}, FALSE, Probes)
  <2>1. report'.kept = {} /\ report'.blocked = Probes
    BY <1>4 DEF Report
  <2> QED BY <1>1, <2>1, PartitionIsSplit DEF Partition
<1>5. \/ Finalize \/ report' = Report("", {}, FALSE, {})
      \/ report' = Report("entry", {}, FALSE, Probes)
  BY DEF Next, Main, Before, Loop, After, Env, Deploy, DeployFails, Discover,
     DiscoverFails, EntryWithheld, EntryPasses, Prime, Lighthouse, StartProbe,
     LoopDone, ProbeRequest, FinishProbe, HangProbe, CheckOnset, AppWide,
     PerPathBlock, Classify, ReadOnset, EndCheck, Teardown, WallUp, WallDown,
     StrayRequest, StrayDies, Publish
<1> QED BY <1>2, <1>3, <1>4, <1>5

\* The verdict and the hold on the target that the refinement maps to.
Verdict == IF report = NoReport THEN NoReport
           ELSE [measured |-> report.kept, blocked |-> report.blocked]
Held    == phase # "done" \/ deployed

\* Only the teardown gives the target back, and nothing changes after it.
LEMMA HeldUntilTeardown ==
    ASSUME Next, ~Teardown
    PROVE  \/ Held /\ Held'
           \/ UNCHANGED <<Held, report>>
<1> USE DEF Held
<1>1. CASE Before
  BY <1>1 DEF Before, Deploy, DeployFails, Discover, DiscoverFails,
     EntryWithheld, EntryPasses, Prime, Lighthouse, Publish
<1>2. CASE Loop
  BY <1>2 DEF Loop, StartProbe, LoopDone, ProbeRequest, FinishProbe, HangProbe,
     CheckOnset, AppWide, PerPathBlock
<1>3. CASE Classify \/ ReadOnset \/ EndCheck \/ Finalize
  BY <1>3 DEF Classify, ReadOnset, EndCheck, Finalize, Publish
<1>4. CASE Env
  BY <1>4 DEF Env, WallUp, WallDown, StrayRequest, StrayDies
<1> QED BY <1>1, <1>2, <1>3, <1>4 DEF Next, Main, After

\* Every step of a grade publishes, releases, or changes nothing promised.
LEMMA PromiseStep ==
    ASSUME TypeOK, Ledger, TypeOK', Accounted', Published, TaggedInv, [Next]_vars
    PROVE  [Promise!Next]_<<Verdict, Held, opts.email>>
<1>0. UNCHANGED opts
  BY DEF vars, Next, Main, Before, Loop, After, Env, Deploy, DeployFails, Discover,
     DiscoverFails, EntryWithheld, EntryPasses, Prime, Lighthouse, StartProbe,
     LoopDone, ProbeRequest, FinishProbe, HangProbe, CheckOnset, AppWide,
     PerPathBlock, Classify, ReadOnset, EndCheck, Finalize, Teardown, WallUp,
     WallDown, StrayRequest, StrayDies
<1>1. CASE UNCHANGED vars
  BY <1>1 DEF vars, Verdict, Held
<1>2. CASE Teardown
  <2>1. UNCHANGED report /\ Held /\ ~Held'
    BY <1>2 DEF Teardown, Held
  <2> QED BY <1>0, <2>1 DEF Promise!Next, Promise!Release, Verdict, Held
<1>3. CASE Next /\ ~Teardown /\ UNCHANGED report
  <2>1. UNCHANGED Verdict
    BY <1>3 DEF Verdict
  <2>2. UNCHANGED Held
    BY <1>3, HeldUntilTeardown DEF Held
  <2> QED BY <1>0, <2>1, <2>2
<1>4. CASE Next /\ ~Teardown /\ report' # report
  <2>1. report = NoReport
    BY <1>4 DEF Published, Next, Main, Before, Loop, After, Env, Deploy,
       DeployFails, Discover, DiscoverFails, EntryWithheld, EntryPasses, Prime,
       Lighthouse, StartProbe, LoopDone, ProbeRequest, FinishProbe, HangProbe,
       CheckOnset, AppWide, PerPathBlock, Classify, ReadOnset, EndCheck,
       Finalize, WallUp, WallDown, StrayRequest, StrayDies
  <2>2. Held /\ Held'
    BY <1>4, HeldUntilTeardown
  <2>3. Verdict = NoReport
        /\ Verdict' = [measured |-> report'.kept, blocked |-> report'.blocked]
    BY <1>4, <2>1 DEF Verdict
  <2>4. Verdict' \in Promise!Splits \cup {Promise!SurfaceOnly} \cup (IF opts.email THEN Promise!Loose ELSE {})
    BY <1>4, <2>1, <2>3, PublishedIsPromised
  <2> QED BY <1>0, <2>2, <2>3, <2>4 DEF Promise!Next, Promise!Publish, Verdict, Held
<1> QED BY <1>1, <1>2, <1>3, <1>4

\* The grade does nothing GradePromise does not allow: one verdict that splits the
\* catalog or claims none of it (that books no probe twice, when an account is made
\* by email), published while the target is held, and a target given back once and
\* for good.
THEOREM GradeRefinesPromise == Spec => Promise!Safety
<1>1. Init => AccountInv /\ MeasuredInv /\ TaggedInv /\ Promise!Init
  <2> SUFFICES ASSUME Init
               PROVE  AccountInv /\ MeasuredInv /\ TaggedInv /\ Promise!Init
    OBVIOUS
  <2>1. MeasuredInv
    BY DEF Init, MeasuredInv, Published, RankableIsMostlyRun, GivenUp, Graded
  <2>2. TaggedInv
    BY DEF Init, TaggedInv, None, Untagged
  <2>3. Promise!Init
    BY OptionsAssumption DEF OptionsAssumption, Init, Promise!Init
  <2> QED BY <2>1, <2>2, <2>3, GradeInitAccounts
<1>2. AccountInv /\ TypeOK' /\ [Next]_vars => AccountInv'
  BY AccountStep
<1>3. AccountInv /\ MeasuredInv /\ [Next]_vars => MeasuredInv'
  BY MeasuredStep
<1>4. AccountInv /\ TaggedInv /\ [Next]_vars => TaggedInv'
  BY TaggedStep
<1>5. /\ AccountInv /\ TypeOK' /\ AccountInv' /\ MeasuredInv /\ TaggedInv /\ [Next]_vars
      => [Promise!Next]_<<Verdict, Held, opts.email>>
  BY PromiseStep DEF AccountInv, MeasuredInv
<1> QED
  BY <1>1, <1>2, <1>3, <1>4, <1>5, GradeTyping, PTL
  DEF Spec, Promise!Safety, Verdict, Held
=============================================================================
