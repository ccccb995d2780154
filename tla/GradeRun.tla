------------------------------ MODULE GradeRun ------------------------------
(***************************************************************************)
(* One grade: pipeline.run with the challenge-onset recorder of net.py.    *)
(*                                                                         *)
(* The grader deploys the app, crawls it, runs the catalog of probes in    *)
(* order, watches every httpx response for a bot challenge, and publishes  *)
(* one Report.  The app's edge may start to answer with a challenge at any *)
(* moment, and a probe that outlives its deadline is abandoned: its thread *)
(* keeps sending requests, tagged with its own probe id, until it dies.    *)
(*                                                                         *)
(* A probe is its position in the sorted catalog (cat_index + 1).          *)
(***************************************************************************)
EXTENDS Integers, FiniteSets

CONSTANTS
    N,            \* len(catalog)
    Browser,      \* the probes that require "browser": run inline, no httpx
    LhProbes,     \* the probes that read ctx.lighthouse
    FracNum,      \* _MIN_VALID_FRACTION = FracNum / FracDen
    FracDen,
    Walls,        \* the challenge pages the edge may put up
    PerPath,      \* TRUE: single paths may be blocked while the origin is open
    NetErrors,    \* TRUE: a fetch of the origin may raise
    Options,      \* the calls of run(): [recon, email, source, lighthouse]
    NoReport      \* run() has returned no Report

Probes == 1 .. N

ASSUME CatalogAssumption == /\ N \in Nat \ {0}
                            /\ Browser \subseteq Probes
                            /\ LhProbes \subseteq Probes
ASSUME FractionAssumption == /\ FracNum \in Nat
                             /\ FracDen \in Nat \ {0}
                             /\ FracNum <= FracDen
\* "challenge": carries the mitigation header or a 403/429/503 with a marker;
\* "interstitial": a marker page served with status 200 (a sleeping app).
ASSUME EdgeAssumption == /\ Walls \subseteq {"challenge", "interstitial"}
                         /\ PerPath \in BOOLEAN
                         /\ NetErrors \in BOOLEAN
ASSUME OptionsAssumption ==
    Options \subseteq [recon : BOOLEAN, email : BOOLEAN,
                       source : BOOLEAN, lighthouse : BOOLEAN]

None     == -1        \* _OnsetHolder.probe is None
Untagged == 0         \* the id "?" a request is recorded under with no probe

VARIABLES
    opts,       \* the arguments of run()
    phase,      \* where run() is
    deployed,   \* the deployer holds a running app
    page,       \* what the edge serves at the origin: "app" or a wall
    shell,      \* profile.render_state is error, stuck or empty
    tag,        \* the main thread's _trace_probe
    onset,      \* _OnsetHolder.probe
    outcomes,   \* the probes that have an outcome in the outcomes list
    hung,       \* hung_probes
    strays,     \* abandoned probe threads that are still alive
    onsetProbe, \* the local onset_probe, read after the loop
    endChal,    \* the local end_challenged
    report,     \* the Report, once returned
    dirty,      \* history: probes whose evidence came from a wall
    lhDirty,    \* history: the Lighthouse audit was taken of a wall
    clouded,    \* history: the origin was ever a wall, or a look at it raised
    fickle,     \* history: a wall came down, or one that no hook watches was up
    heard       \* history: the probe the main thread was at when onset was set

vars == <<opts, phase, deployed, page, shell, tag, onset, outcomes, hung,
          strays, onsetProbe, endChal, report, dirty, lhDirty, clouded, fickle, heard>>

target  == <<opts, deployed, page, shell>>
ledger  == <<outcomes, hung, strays>>
verdict == <<onsetProbe, endChal, report>>
weather == <<clouded, fickle>>
history == <<dirty, lhDirty, clouded, fickle>>
holder  == <<onset, heard>>

Phases == {"deploy", "discover", "entry", "prime", "lighthouse", "pick",
           "probe", "check", "confirm", "classify", "read", "endcheck",
           "finalize", "teardown", "done"}

\* is_bot_challenge: a mitigation header or an interstitial marker.
Marked(resp) == resp # "app"

\* _watch_challenge on a response: header, or challenge status and marker.
Watched(resp) == resp = "challenge"

\* _OnsetHolder.record called by the response hook: the first writer wins.
Recorded(resp, id) == IF onset = None /\ Watched(resp) THEN id ELSE onset

\* The hook sees a response of a thread that is tagged id.
Hear(resp, id) == /\ onset' = Recorded(resp, id)
                  /\ heard' = IF onset' = onset THEN heard ELSE tag

\* What a request to some path may be answered with.
Responses == IF page = "app"
             THEN IF PerPath THEN {"app", "challenge"} ELSE {"app"}
             ELSE {page}

Init == /\ opts \in Options
        /\ phase = "deploy"
        /\ deployed = FALSE
        /\ page \in {"app"} \cup Walls
        /\ shell = FALSE
        /\ tag = Untagged
        /\ onset = None
        /\ outcomes = {}
        /\ hung = {}
        /\ strays = {}
        /\ onsetProbe = None
        /\ endChal = FALSE
        /\ report = NoReport
        /\ dirty = {}
        /\ lhDirty = FALSE
        /\ clouded = (page # "app")
        /\ fickle = (page = "interstitial")
        /\ heard = Untagged

-----------------------------------------------------------------------------
(* Deployment, crawl and the gates in front of the battery.                *)

Report(stage, kept, source, blocked) ==
    [stage |-> stage, bot |-> stage # "", onset |-> onsetProbe,
     kept |-> kept, source |-> source, blocked |-> blocked,
     battery |-> stage = "entry" \/ phase = "finalize"]

Reports == [stage : {"", "entry", "limited", "late"}, bot : BOOLEAN,
            onset : None .. N, kept : SUBSET Probes, source : BOOLEAN,
            blocked : SUBSET Probes, battery : BOOLEAN]

Publish(r) == /\ report' = r
              /\ phase' = "teardown"

Deploy == /\ phase = "deploy"
          /\ deployed' = TRUE
          /\ phase' = "discover"
          /\ UNCHANGED <<opts, page, shell, tag, holder, ledger, verdict,
                         history>>

\* deploy() raises, perhaps with the app half up; finally still tears down.
DeployFails == /\ phase = "deploy"
               /\ deployed' \in BOOLEAN
               /\ phase' = "teardown"
               /\ UNCHANGED <<opts, page, shell, tag, holder, ledger, verdict,
                              history>>

\* The crawl runs before start_trace: its requests are never recorded.
Discover == /\ phase = "discover"
            /\ shell' \in BOOLEAN
            /\ IF opts.recon
               THEN Publish(Report("", {}, FALSE, {}))
               ELSE phase' = "entry" /\ UNCHANGED report
            /\ UNCHANGED <<opts, deployed, page, tag, holder, ledger,
                           onsetProbe, endChal, history>>

\* The login or the crawl raises, or the surface is above _MAX_SURFACE_ROUTES.
DiscoverFails == /\ phase = "discover"
                 /\ phase' = "teardown"
                 /\ UNCHANGED <<target, tag, holder, ledger, verdict, history>>

\* The entry gate fetches the origin; a challenge there withholds the grade.
EntryWithheld == /\ phase = "entry"
                 /\ Marked(page)
                 /\ Hear(page, tag)
                 /\ Publish(Report("entry", {}, FALSE, Probes))
                 /\ UNCHANGED <<target, tag, ledger, onsetProbe, endChal,
                                history>>

\* The origin is open, or the fetch raised and the gate is passed over.
EntryPasses == /\ phase = "entry"
               /\ Marked(page) => NetErrors
               /\ IF shell
                  THEN Publish(Report("", {}, FALSE, {}))
                  ELSE phase' = "prime" /\ UNCHANGED report
               /\ UNCHANGED <<target, tag, holder, ledger, onsetProbe,
                              endChal, history>>

\* _prime_email registers through hooked clients before any probe is tagged.
Prime == /\ phase = "prime"
         /\ IF opts.email
            THEN \E resp \in Responses : Hear(resp, tag)
            ELSE UNCHANGED holder
         /\ phase' = "lighthouse"
         /\ UNCHANGED <<target, tag, ledger, verdict, history>>

\* Lighthouse drives its own Chrome: no response hook sees what it was served.
Lighthouse == /\ phase = "lighthouse"
              /\ \/ lhDirty' = (opts.lighthouse /\ Marked(page))
                 \/ UNCHANGED lhDirty                            \* PSIError
              /\ phase' = "pick"
              /\ UNCHANGED <<target, tag, holder, ledger, verdict, dirty, weather>>

-----------------------------------------------------------------------------
(* The probe loop.                                                         *)

\* Mutant: the loop runs one probe past the catalog.
BugStartProbe == /\ phase = "pick"
                 /\ tag <= N
                 /\ tag' = tag + 1
                 /\ phase' = "probe"
                 /\ UNCHANGED <<target, holder, ledger, verdict, history>>

StartProbe == /\ phase = "pick"
              /\ tag < N
              /\ tag' = tag + 1                           \* set_trace_probe
              /\ phase' = "probe"
              /\ UNCHANGED <<target, holder, ledger, verdict, history>>

LoopDone == /\ phase = "pick"
            /\ tag = N
            /\ phase' = "classify"
            /\ UNCHANGED <<target, tag, holder, ledger, verdict, history>>

\* One request of the running probe.  Playwright's responses are not hooked.
ProbeRequest ==
    /\ phase = "probe"
    /\ IF tag \in Browser
       THEN UNCHANGED holder
       ELSE \E resp \in Responses : Hear(resp, tag)
    /\ dirty' = IF Marked(page) THEN dirty \cup {tag} ELSE dirty
    /\ UNCHANGED <<target, phase, tag, ledger, verdict, lhDirty, weather>>

\* The probe returns (an exception is degraded to one N/A outcome).
FinishProbe ==
    /\ phase = "probe"
    /\ outcomes' = outcomes \cup {tag}
    /\ dirty' = IF tag \in LhProbes /\ lhDirty THEN dirty \cup {tag} ELSE dirty
    /\ phase' = "check"
    /\ UNCHANGED <<target, tag, holder, hung, strays, verdict, lhDirty,
                   weather>>

\* Mutant: an abandoned probe is not booked in hung_probes.
BugHangProbe ==
    /\ phase = "probe"
    /\ tag \notin Browser
    /\ strays' = strays \cup {tag}
    /\ phase' = "check"
    /\ UNCHANGED <<target, tag, holder, outcomes, hung, verdict, history>>

\* _run_bounded gives up on the probe; its daemon thread lives on.
HangProbe ==
    /\ phase = "probe"
    /\ tag \notin Browser
    /\ hung' = hung \cup {tag}
    /\ strays' = strays \cup {tag}
    /\ phase' = "check"
    /\ UNCHANGED <<target, tag, holder, outcomes, verdict, history>>

\* Mutant: the loop only looks for an onset of the probe that has just ended.
BugOwnOnset ==
    /\ phase = "check"
    /\ phase' = IF onset # tag THEN "pick" ELSE "confirm"
    /\ UNCHANGED <<target, tag, holder, ledger, verdict, history>>

\* Mutant: the loop halts on any onset, without a look at the origin.
BugCheckOnset ==
    /\ phase = "check"
    /\ phase' = IF onset = None THEN "pick" ELSE "classify"
    /\ UNCHANGED <<target, tag, holder, ledger, verdict, history>>

CheckOnset ==
    /\ phase = "check"
    /\ phase' = IF onset = None THEN "pick" ELSE "confirm"
    /\ UNCHANGED <<target, tag, holder, ledger, verdict, history>>

\* _app_wide_challenge: the origin is challenged, or cannot be fetched.
AppWide ==
    /\ phase = "confirm"
    /\ Marked(page) \/ NetErrors
    /\ clouded' = TRUE
    /\ phase' = "classify"
    /\ UNCHANGED <<target, tag, holder, ledger, verdict, dirty, lhDirty, fickle>>

\* Mutant: the onset is reset whatever the origin answers.
BugPerPathBlock ==
    /\ phase = "confirm"
    /\ onset' = None
    /\ phase' = "pick"
    /\ UNCHANGED <<target, tag, heard, ledger, verdict, history>>

\* The origin is open: reset_challenge_onset, and the battery goes on.  No
\* thread writes the holder between the fetch and the reset: it is taken.
PerPathBlock ==
    /\ phase = "confirm"
    /\ ~Marked(page)
    /\ onset' = None
    /\ phase' = "pick"
    /\ UNCHANGED <<target, tag, heard, ledger, verdict, history>>

-----------------------------------------------------------------------------
(* After the loop.                                                         *)

\* classify_live fetches the origin with the hooked client, still tagged with
\* the last probe; a fetch that raises may leave the onset alone.
Classify ==
    /\ phase = "classify"
    /\ \/ Hear(page, tag)
       \/ NetErrors /\ UNCHANGED holder
    /\ phase' = "read"
    /\ UNCHANGED <<target, tag, ledger, verdict, history>>

ReadOnset ==
    /\ phase = "read"
    /\ onsetProbe' = onset
    /\ phase' = IF onset = None THEN "endcheck" ELSE "finalize"
    /\ UNCHANGED <<target, tag, holder, ledger, endChal, report, history>>

\* The last look at the origin; an exception reads as not challenged.
EndCheck ==
    /\ phase = "endcheck"
    /\ \/ endChal' = Marked(page) /\ Hear(page, tag)
       \/ NetErrors /\ endChal' = FALSE /\ UNCHANGED holder
    /\ phase' = "finalize"
    /\ UNCHANGED <<target, tag, ledger, onsetProbe, report, history>>

\* cat_index.get(onset_probe, total) + 1: "?" is not in the catalog.
Cut == IF onsetProbe = Untagged THEN N + 1 ELSE onsetProbe

Kept(cut) == {p \in outcomes : p < cut}

\* Mutant: the probe that tripped the edge is not booked as blocked.
BugBlockedFrom(cut) == {p \in Probes : p > cut}

BlockedFrom(cut) == {p \in Probes : p >= cut}

\* Mutant: the keepable fraction is not enforced.
BugStage == IF onsetProbe # None \/ endChal THEN "late" ELSE ""

Stage == IF onsetProbe # None
         THEN IF (Cut - 1) * FracDen < FracNum * N THEN "limited" ELSE "late"
         ELSE IF endChal THEN "late" ELSE ""

\* The source scan is no catalog probe: its index is total, never below a cut.
Finalize ==
    /\ phase = "finalize"
    /\ IF onsetProbe # None
       THEN Publish(Report(Stage, Kept(Cut), FALSE, BlockedFrom(Cut) \cup hung))
       ELSE Publish(Report(Stage, outcomes, opts.source, hung))
    /\ UNCHANGED <<target, tag, holder, ledger, onsetProbe, endChal, history>>

Teardown ==
    /\ phase = "teardown"
    /\ deployed' = FALSE
    /\ phase' = "done"
    /\ UNCHANGED <<opts, page, shell, tag, holder, ledger, verdict, history>>

-----------------------------------------------------------------------------
(* The edge and the abandoned threads.                                     *)

WallUp == /\ page = "app"
          /\ page' \in Walls
          /\ clouded' = TRUE
          /\ fickle' = (fickle \/ page' = "interstitial")
          /\ UNCHANGED <<opts, phase, deployed, shell, tag, holder, ledger,
                         verdict, dirty, lhDirty>>

WallDown == /\ page # "app"
            /\ page' = "app"
            /\ fickle' = TRUE
            /\ UNCHANGED <<opts, phase, deployed, shell, tag, holder, ledger,
                           verdict, dirty, lhDirty, clouded>>

StrayRequest(s) ==
    /\ s \in strays
    /\ \E resp \in Responses : Hear(resp, s)
    /\ UNCHANGED <<target, phase, tag, ledger, verdict, history>>

StrayDies(s) ==
    /\ s \in strays
    /\ strays' = strays \ {s}
    /\ UNCHANGED <<target, phase, tag, holder, outcomes, hung, verdict,
                   history>>

-----------------------------------------------------------------------------
Before == Deploy \/ DeployFails \/ Discover \/ DiscoverFails \/ EntryWithheld
          \/ EntryPasses \/ Prime \/ Lighthouse
Loop   == StartProbe \/ LoopDone \/ ProbeRequest \/ FinishProbe \/ HangProbe
          \/ CheckOnset \/ AppWide \/ PerPathBlock
After  == Classify \/ ReadOnset \/ EndCheck \/ Finalize \/ Teardown
Main   == Before \/ Loop \/ After
Env    == WallUp \/ WallDown \/ \E s \in Probes : StrayRequest(s) \/ StrayDies(s)

Next == Main \/ Env

Spec == Init /\ [][Next]_vars

\* The grader's own thread is scheduled; nothing is assumed of the edge or of
\* an abandoned thread.
FairSpec == Spec /\ WF_vars(Main)

-----------------------------------------------------------------------------
(* What a grade promises.                                                  *)

\* Every variable has its type.
TypeOK == /\ opts \in Options
          /\ phase \in Phases
          /\ deployed \in BOOLEAN
          /\ page \in {"app"} \cup Walls
          /\ shell \in BOOLEAN
          /\ tag \in (IF phase = "probe" THEN Probes ELSE 0 .. N)
          /\ onset \in None .. N
          /\ outcomes \subseteq Probes
          /\ hung \subseteq Probes
          /\ strays \subseteq hung
          /\ onsetProbe \in None .. N
          /\ endChal \in BOOLEAN
          /\ report \in Reports \cup {NoReport}
          /\ dirty \subseteq Probes
          /\ lhDirty \in BOOLEAN
          /\ clouded \in BOOLEAN
          /\ fickle \in BOOLEAN
          /\ heard \in 0 .. N

Graded == report # NoReport /\ report.battery

Partition(kept, blocked) == /\ kept \cup blocked = Probes
                            /\ kept \cap blocked = {}

\* Every catalog probe is on the record exactly once, as measured or as blocked,
\* whatever hung, whoever recorded the onset and wherever the loop stopped; the
\* one exception is an onset recorded before any probe was tagged.
Accounted == (Graded /\ report.onset # Untagged)
             => Partition(report.kept, report.blocked)

\* The probes that hung before the cut of a record, or at all if it was not cut.
GivenUp(r) == {p \in hung : r.onset = None \/ p < r.onset}

\* A record the benchmark ranks (no challenge, or a "late" one) is of a battery
\* that got through at least _MIN_VALID_FRACTION of the catalog: each of those
\* probes has an outcome on the record or was given up at its deadline.  run()
\* counts the latter as well, so it is no bound on what was measured.
RankableIsMostlyRun ==
    (Graded /\ report.onset # Untagged /\ report.stage \in {"", "late"})
    => FracDen * Cardinality(report.kept \cup GivenUp(report)) >= FracNum * N

\* No outcome of an HTTP probe that met a challenge is scored: the cut falls at or
\* before every such probe.  Excepted are grades whose edge took a challenge down
\* again, or put one up that the response hook does not watch for.
NoHttpOutcomeOfAWall ==
    (Graded /\ report.onset # Untagged /\ ~fickle)
    => report.kept \cap dirty \subseteq Browser \cup LhProbes

\* While the origin answers, never challenged, and no thread is abandoned,
\* blocks of single paths never mark the record or cut it.
PerPathInnocent == (report # NoReport /\ hung = {} /\ ~clouded)
                   => ~report.bot /\ (report.battery => report.kept = Probes)

\* Once any thread, running or abandoned, recorded a challenge, at most one more
\* probe starts before run() stops or finds the origin open and clears it.
StopsAtOnset == onset # None => tag <= heard + 1

-----------------------------------------------------------------------------
(* The inductive invariants of the proofs in GradeRunProofs.                *)

\* The probes run() is done with are the first tag ones, or all but the one
\* that runs; each of them has an outcome or hung, never both.
Ledger == /\ outcomes \cap hung = {}
          /\ outcomes \cup hung = 1 .. (IF phase = "probe" THEN tag - 1 ELSE tag)
          /\ onset <= tag
          /\ onsetProbe <= tag

\* The loop is only left early with an onset, and the onset stays.
Halted == /\ phase = "confirm" => onset # None
          /\ phase \in {"classify", "read"} => (onset # None \/ tag = N)
          /\ phase = "endcheck" => tag = N
          /\ phase = "finalize" => (onsetProbe # None \/ tag = N)

\* A Report ends the run: nothing but the teardown follows it.
Published == report # NoReport => phase \in {"teardown", "done"}

AccountInv == TypeOK /\ Ledger /\ Halted /\ Accounted

\* An HTTP probe that met a lasting challenge is the last one that ran, and the
\* onset it recorded, or found recorded, is on its way to the cut.
WallInv ==
    \/ fickle
    \/ dirty \subseteq Browser \cup LhProbes
    \/ phase \in {"teardown", "done"}
    \/ /\ dirty \subseteq Browser \cup LhProbes \cup {tag}
       /\ page = "challenge"
       /\ phase \in {"probe", "check", "confirm", "classify", "read", "finalize"}
       /\ onset # None
       /\ phase = "finalize" => onsetProbe # None

EvidenceInv == /\ WallInv
               /\ Published
               /\ NoHttpOutcomeOfAWall
               /\ ~fickle => page # "interstitial"

\* run() is where it was when the onset was recorded, or one probe on: it is only
\* between two probes that a challenge is not looked at before the next one.
OnsetInv ==
    /\ phase \in {"deploy", "discover", "entry", "prime", "lighthouse"} => tag = 0
    /\ heard <= tag
    /\ onset # None => tag <= heard + 1
    /\ (onset # None /\ phase = "pick") => tag = heard

\* A Report stands on what hung while it was being made: nothing hangs later.
MeasuredInv == Published /\ RankableIsMostlyRun

\* Without a cloud or an abandoned thread the origin is open, so the blocks of
\* single paths are cleared between two probes; only a block met while the email
\* account was made waits in the holder, for the first probe to clear it.
InnocentInv ==
    /\ phase \in {"deploy", "discover", "entry", "prime", "lighthouse"} => tag = 0
    /\ (hung = {} /\ ~clouded)
       => /\ page = "app"
          /\ onsetProbe = None /\ ~endChal
          /\ (phase = "pick" /\ tag > 0) => onset = None
          /\ phase \in {"classify", "read", "endcheck", "finalize"} => onset = None
          /\ PerPathInnocent

\* With no email account to make, every onset of the battery has a probe's id.
TaggedInv == (~opts.email /\ phase \notin {"teardown", "done"})
             => Untagged \notin {onset, onsetProbe}

\* The steps of one grade, seen as a GradePromise.
Promise == INSTANCE GradePromise WITH
    Catalog <- Probes,
    Nothing <- NoReport,
    verdict <- IF report = NoReport THEN NoReport
               ELSE [measured |-> report.kept, blocked |-> report.blocked],
    open    <- phase # "done" \/ deployed,
    mailed  <- opts.email

\* The grade keeps the promise GradePromise states: one verdict that accounts
\* for the catalog (or, with an email account to make, books no probe twice),
\* fixed before teardown, and however it goes the app is taken down for good.
KeepsThePromise == Promise!Spec
=============================================================================
