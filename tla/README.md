# Sloptic in TLA+

Sloptic takes a hackathon project (a repository it deploys, or a live URL), crawls it, runs a catalog of about a
hundred black-box probes against it and publishes a penalty score, the *slop score*, with a record of what was
measured and what was not. Scripts around it grade thousands of projects on one machine, keep one JSON line per
grade, retry what a bot challenge blocked, and rank a record on a frozen curve of earlier grades.

What a probe matches in one answer is text matching and well served by unit tests. What tests hardly reach is the
rest: a web edge that starts to challenge in the middle of a grade, probe threads that outlive their deadline, one
lost answer in the middle of a differential verdict, a pool whose threads end in any order, children that hang in
their teardown, kills between two files, records merged from two grades, and the arithmetic that turns findings into
a rank. This directory models that part, checks it with TLC and proves the most important safety properties of the components
that hold state with TLAPS.

## Inventory

| Part | Source | State | Operations | What is hard | What makes it correct |
|---|---|---|---|---|---|
| Grade pipeline | `sloptic/pipeline.py` (`run`) | outcomes, hung probes, onset, report | deploy, discover, entry gate, email prime, Lighthouse, probe loop, finalize, teardown | abandoned threads, an edge that challenges at any request | each probe measured or blocked, never a clean verdict read off a challenge page, the app torn down |
| Challenge recorder | `sloptic/net.py` | onset holder, trace tag, tallies | record, read, reset | many writers, one reader that clears | the battery stops within one probe of a challenge, whoever met it |
| Probe execution | `pipeline.py` (`_run_probe`, `_run_bounded`), `browser.py` (`_browser_guarded`) | evidence buffer, cookie jar, threads, lane timers | start, wait, give up, collect | buffers shared with abandoned threads, timers that fire late | an outcome rests on the probe's own evidence |
| Crawl and discovery | `discovery.py`, `openapi.py`, `jsmine.py` | frontier, forms, endpoints, session, profile | fetch, spec, bundle, hints, render, observe, verify guesses, perceive, guard, assemble | nine sources of surface over a lossy transport, catch-all hosts, sub-path apps | in bounds; what the profile names is there, once; "empty" only when it is |
| Injection probes | `probes.py` | targets, tally, pool | gate, fan out, reproduce | pool threads, budgets, garbled answers, catch-all hosts | fires only on what runs the payload, loses no hit |
| Echo probes, out-of-band collector | `probes.py`, `oob.py` | payload rounds, tokens | create, read back, upload, await a callback | late callbacks, overwritten files, several shapes of one answer | what was sent came back |
| Record probes | `probes.py` | two sessions, pairs, bursts | own, cross, stranger; create and read back; race; load | several identities, lost answers, real races | a second user really read it; a write is really gone |
| Backend and file probes | `probes.py` | keys, tables, files in flight | anonymous and signed-in reads, buckets, bulk, filter, stray files | two backends, a catch-all host, policies per user | policies never fire, exposures in reach do |
| Limit probes | `probes.py`, `auth.py` | attempts, hops, memo of the shell | login burst, bypass, csrf, links, crash, host header, pages | edges that answer for the app, one lost comparison | what it takes to invent a defect |
| Browser lanes | `browser.py`, `probes.py` | page, watchdog | drive a page, look, judge | conclusions from what is *not* seen; a lane killed at any step | a verdict is of a page that was seen |
| Render worker | `browser.py` (`render_routes`) | pipe, worker, browser below it | stream, poll, kill | deadline, poll and death race the messages | what was read is kept, the tree is killed |
| Sessions and email | `pipeline.py`, `auth.py`, `email_verify.py`, `probes.py`, `browser.py` | memoised registrations, mailboxes, browser signup | register, prime, verify, reset, resend; walk to a form | check-then-store across threads, late mails, one signup to spend | an accusation is true; identities stay what they are |
| Grade of one project | `scripts/deploy_and_grade.py` | frozen plan and surface, child process, row | clone, plan, build, grade in a child, record | a child that dies, hangs or answers at its deadline | one row per attempt, frozen plans really worked |
| Lighthouse lock | `pipeline.py` (213-250) | N lock files | acquire, release | several processes, no queue, owners that die | a counting semaphore; no lane stranded |
| Retry pass | `scripts/retry_blocked.py` | job queue, breaker, retry and merged file | plan, throttle, grade, collect, merge, fold | records of two grades merged; kills between files | a failed or lost retry clears no block |
| Batch driver | `scripts/run_batch.py` | active children, job list, resume mode | plan, start, time out, kill, Ctrl-C, resume | child and parent both append; Ctrl-C in any thread | wedge means dead; one deployment at a time; nothing graded twice |
| Scoring | `aggregate.py`, `schema.py` | none | escalate, group, decay, contributions, axes | rounding, ties, prices that depend on other findings | one ledger, and fixing a fault never hurts |
| Ranking | `scripts/benchmark.py`, `eligibility.py` | frozen curve | rank, report | tie-break keys, interpolation | fixing a fault never ranks worse |
| Ingest, results file | `devpost.py`, `scripts/devpost_repos.py`, `jsonl.py` | append-only cache and files | fetch, walk, scrape, load, append | blocks that look like an end, torn lines, restarts | an answer is whole, or says that it is not |
| Deployers | `deploy.py` | processes, containers, ports | deploy, health, teardown | a port taken in between, half-started apps | the app that was started is graded, and is gone afterwards |
| Egress guard | `egress.py`, `scope.py`, `safety.py` | scope of a context | check, exempt | a context variable that threads do not inherit | no request outside the scope |
| Run cache and command line | `cli.py`, `runcache.py`, `ingest.py`, `ruler.py` | cached reports | fingerprint, load, save | edits between load and key | a cached grade is of the same rules and app |
| Catalog, static scans, reports, gapbench, reference apps | see `PROJECT.json` | none across calls | | none of the above | |

How they meet: `cli.py` and `deploy_and_grade.py` (one child per project, started by `run_batch.py` or
`retry_blocked.py`) call a deployer and `pipeline.run`; that crawls, registers users, takes a Lighthouse lane and runs
each probe in a bounded thread; a probe may run a browser lane, the render worker or the collector; every client
passes the egress guard and the challenge recorder. A grade ends in a row of a results file. Retry pass, ranking and
the resume index read rows.

The hazards, each at its line and with the properties aimed at it, are in `PROJECT.json`.

## Modules

| Module | Models | Checked through |
|---|---|---|
| `GradeRun` | one grade, from `deploy()` to `teardown()`, with recorder, edge and abandoned threads | `MCGradeRun`, proved about in `GradeRunProofs` |
| `GradePromise` | what a grade promises its caller: at most one verdict, which accounts for the catalog, fixed before the target is given back | instantiated by `GradeRun` (`KeepsThePromise`), proved in `GradeRunProofs` |
| `RetryPass` | one results file and the retry script over it: pool, breaker, collector, two output files, kills, re-runs, `--remerge` | `MCRetryPass`, `RetryPassProofs` |
| `BatchRun` | the batch driver with its children and their grade workers, Ctrl-C, re-runs in every resume mode | `MCBatchRun`, `BatchRunProofs` |
| `Score` | the outcomes a probe can produce, the price of a finding, `aggregate.py`, and `rank()` on a frozen curve | `MCScore` |
| `Crawl` | `discover()` from the first page to the profile, with its guards, its guesses and the model that looks at pages | `MCCrawl`, `CrawlProofs` |
| `GradeChild` | `deploy_and_grade.main`: gate, clone, attempt loop over frozen and fresh plans, the forked grade with its deadline, the row; EXTENDS `LighthouseLock` | `MCGradeChild`, `GradeChildProofs` |
| `LighthouseLock`, `Slots` | the lock files, and the counting semaphore they implement | `MCGradeChild`, `GradeChildProofs` |
| `Accounts` | memoised registrations, the lanes of a signup, mails, and the probes and abandoned threads that share them | `MCAccounts`, `AccountsProofs` |
| `Injection`, `Echo`, `Records`, `Backend`, `Limits`, `Pages` | six families of probes, each probe on every app of a small family | `MCProbes`, `ProbesProofs` |
| `Ingest`, `ProbeThreads`, `Render`, `Signup`, `Deploy`, `RunCache` | what a grade stands on, one service at a time | `MCServices`, `ServicesProofs` |

`MCProbes` and `MCServices` are compositions over shared variables: the app, site or battery chosen at the start says
which module's actions run, so one state graph holds the graphs of all of them side by side.

The modules meet at the record. `GradeRun` and `Score` share the probe loop and look at different halves of it:
`GradeRun` keeps which probes have outcomes and who saw a challenge, `Score` keeps what the outcomes say and cost. What
an outcome of a single probe rests on is the subject of the six probe modules; what happens when its thread is left
behind, of `ProbeThreads`. The answers that `RetryPass` reads back are the shapes of the reports `GradeRun` publishes;
a `BatchRun` child's `Record` is the end of one `GradeChild`, whose worker is one `GradeRun`.

### GradeRun and pipeline.run

A probe is its position in the sorted catalog, `cat_index + 1`; `None = -1` and `Untagged = 0` are the holder's
empty value and the id `?`. `phase` is where the main thread is, cut where another thread or the edge can act:

| Action | Code (`pipeline.py`) |
|---|---|
| `Deploy`, `DeployFails` | 525-526; `deploy()` may raise with the app half up |
| `Discover`, `DiscoverFails` | login, crawl, surface gate (530-572); a recon call returns here |
| `EntryWithheld`, `EntryPasses` | entry challenge gate and shell-page gate (573-608) |
| `Prime`, `Lighthouse` | email registration under no probe tag (609-615); audit in a browser no hook watches (616-641) |
| `StartProbe`, `ProbeRequest`, `FinishProbe`, `HangProbe` | one turn of the loop (650-679) with `_run_bounded` |
| `CheckOnset`, `AppWide`, `PerPathBlock` | `challenge_onset()`, the look at the origin, and its two ends (680-686) |
| `Classify`, `ReadOnset`, `EndCheck` | the three steps between loop and record (689-697), in the order that matters |
| `Finalize`, `Teardown` | cut, stage and books (699-750); `finally` (751-752) |
| `WallUp`, `WallDown`, `StrayRequest`, `StrayDies` | the edge, and the threads `_run_bounded` gave up on |

What a request returns is one of `"app"`, `"challenge"` (header, or challenge status with a marker: the hook sees it)
and `"interstitial"` (a marker page with status 200: `is_bot_challenge` knows it, the hook does not). `Hear` is the hook: it
records an onset and notes where the main thread was. `dirty`, `lhDirty`, `clouded` (the origin was ever a wall),
`fickle` (a wall came down again, or one that no hook watches was up) and `heard` are history variables for the properties; no guard reads them.
`GradePromise` is told at the start whether an email account is made (`mailed`), because then the code may book less (see below).

### RetryPass and retry_blocked.py

A record is its line in the results file; a job is the first blocked record of a url (`_load_jobs`);
a record without a url, a repo's, is copied and never retried. A job goes
queued, throttled, grading, finished (or skipped), collected: `Take` is the breaker check at the top of
`_retry_one`, `Launch` the end of `_throttle`, `Finish` the end of the child with its record read back, `Collect` one
turn of the `as_completed` loop with `_status`, the window and the breaker. `Persist` and `Fold` write the two files;
the three `Killed...` actions stop the script before, between and inside them. `Answers` are the records a child may leave: none, failed, stopped at the first
look, `Graded` (what did not run is booked) and `Lapsed` (a shell page, or a stop under `?`: nothing is booked). `tested`, `measured`, `unbooked` and `lapsed` are history: what retries of
the job really measured, ever and in the last pass, and what they neither measured nor booked. A file with nothing blocked is done at once (`Opening`). The clocks of the throttle are gone, its order is kept.

### BatchRun and run_batch.py

`at` is how far `_run_job` is (todo, popen, active, killing, over), `child` the state of its `deploy_and_grade`
process, `worker` the grade worker the child forks into another session, `left` the children nobody watches any more.
`Timeout` and `RecordWedge` are two steps, because the child can be reaped and Ctrl-C can arrive between them.
`InterruptSerial` and `InterruptPool` differ as the code does: in a serial phase the exception unwinds through
`_run_job`, whose `finally` takes the child out of `_active` before `_kill_all_active` runs. A row of the results file
is `[job, by, kind]`, where `by` is the run that wrote it; `Pending` is the resume index and its three modes.

### Score and its sources

Money is exact: a penalty is a number of tenths of a point, a damped term a number of tenths over `5 ^ Depth` because
the decay is 3/5. The denominator is odd, so no term lies half way between two tenths and the rounding mode of
Python's `round()` cannot matter; `RoundHalfEven` is used where it can, in percentiles. The model has no float error:
the branch of `_largest_remainder` that takes tenths back exists for float error only and is unreachable here.
The dampers are stated as what they compute: `Counts` is "the dearest of its group, the first on a tie", `RankOf` the
position in the stable sort of a category. `Terms` is the list both `_damped_total` and `contributions` compute.

### Crawl and discovery.py

A site is a set of pages, each with its status, its links, forms, chunks and what only a browser shows of it. `pc` is
the part of `discover()` that runs next: the walk, what is read beside it (spec, bundle, hints, queries of links), a registration, the two
calls of the render worker, the app's own calls, the endpoints mined from the bundle, conventional ones, the search, the
model that perceives forms, the guards, and the doors. A request may be lost at any step. A row of `endpoints` carries
the source it is credited to.

### GradeChild, LighthouseLock and Slots

`GradeChild` has one `main()` per grade with its worker, the shared files of a commit (`planFile`, `surfFile`, which may
be `Torn`) and the rows. `HardKill` is `_hard_kill_group`, `KilledByDriver` the wall clock of `run_batch`. The worker's
Lighthouse step goes through `LighthouseLock`: `Open`, `Try` (one lane file), `Wake`, `Close`, and `Drop` when it dies, with `owner` the
system's table of flocks. `LockIsSemaphore` says that the lock implements `Slots`, whose state is the set of holders.

### Accounts and Signup

`Accounts` runs a battery of five probes that need users. A thread is a sequence of the steps of `_Ctx.register`,
`_email_account`, `_browser_register_once` and the probes' flows, cut wherever it reads or stores a memo, so that an
abandoned thread can act in between. Mails are in `transit` until the poll that waits for them gives up.
`Signup` is one `register_in_browser`: the homepage, the app's links, its button, guessed routes; then the wizard and the form that
mails a link; then what is read back as a session, and `verify_in_browser`. `mem.page` is what is on the screen, which after a lost
navigation may be the page before or the new one. The time limit and the lane's watchdog may fire between any two steps.

### The probes

Each family has `app` (the target in every character a verdict depends on), `at` (the step of the probe), `mem` (what
the probe holds), `faults` and `verdict`. A step is one request or one round of requests that cannot be told apart.
A *fault* is an answer that is not the app's: lost, or of something in front of it.

* `Injection`: SQL, command, template and file probes: `Baseline` with its gates, the pool (`Fan`, `First`, `Ended`,
  `PoolEnds`), where the first hit stops the submitting, `Fire` with its reproducing rounds, the timing pass (`Time`).
* `Echo`: reflected and stored script, uploads (`Variants` over `Dirs` within `UploadBudget`), callbacks
  (`Token`, `Await`), the metadata page, and other languages' text (`Plain`, `Script`, `Weigh`).
* `Records`: cross-user reads of records, collections and backends, create-then-read in a list, by id and in the
  browser, bursts whose creates interleave inside the app, load.
* `Backend`: the backend a bundle embeds, its tables and buckets for nobody and for a user, schemas, bulk records,
  a filter, stray files fetched by a pool.
* `Limits`: login bursts, gates opened by a header, csrf, links and redirect hops, crash, error pages, constraints, bombs, host headers and single pages; the
  shell of a catch-all host is asked for once (`_catch_all_sig`).
* `Pages`: the browser lanes, one step per look, press or navigation; `Wedge` and `Fire` are a stuck renderer and the
  watchdog that kills it.

### The services

* `Ingest`: three-way fetches (`ok`, `absent`, `blocked`) with their retries, the gallery walk, the scraper, `event_links`
  and `event_meta`, over a cache file whose writer may be killed in the middle of a line.
* `ProbeThreads`: the loop, its threads and those given up, the evidence buffer found when it is written, the scope
  a context carries, the lanes and their timers.
* `Render`: worker, pipe and parent: `Poll`, `Lapse`, `IsAlive`, `Recv`, `Late`, `GiveUp`, then `List` and `Strike`.
* `Deploy`: three deployers from the free port to the teardown, with a window of tries and a port another program takes.
* `RunCache`: files with versions and times, a clock that stands still between edits, the fingerprint and the cached report.

## Runs

All bounds are the constants of the `.cfg` files; nothing else is capped. Ten runs pass; two show a disagreement.

| Run | Instance | What it shows |
|---|---|---|
| `grade` | 4 probes (one in a browser, one reading Lighthouse), challenges watched for or not that may relent, blocked paths, network errors, all options | the catalog is accounted for; every behaviour implements `GradePromise`, release of the app included; at most one probe starts after a challenge is met; nothing an HTTP probe saw of a lasting, watched challenge is scored; the fraction of the catalog that ran before a cut that is ranked; single blocked paths alone neither mark nor cut a grade |
| `retry_pool` | 5 challenged apps, 2 workers, window of 2 | `PoolIsExact`: the merged file clears exactly what was measured or left unbooked, and jobs are skipped only on evidence; late launches are bounded |
| `retry_passes` | 4 records (two of one url, one of a repo), 2 probes, a padding probe, 2 passes, kills anywhere | `RecoveredRan`: a cleared probe was measured, left unbooked by a grade, or not asked for; a re-fold gives the same file; a pass ends |
| `retry_lapse` | 1 record, one retry | finding: a retry that measured nothing, on a shell page or stopped under `?`, clears the block |
| `batch` | 1 repo and 2 URLs (one of the repo's project), 2 at a time, 2 runs in any modes, Ctrl-C in the first | `EachJobOnce`: every planned job leaves a row and no target is graded twice by a watched child; one deployment at a time; wedge means dead; the run ends |
| `score` | 7 probes at their real prices, fan-out over 2 routes, a variant group, an escalation, two bundles, a curve of 4 apps | `NumbersAgree`: contributions, axes, worst case and order give one reading; `FixingNeverHurts`: neither score nor rank |
| `crawl` | 10 sites with and without browser, account and perception, 2 lost requests | `StaysInBounds`, `SurfaceIsSound`, and that it ends with every page in reach asked for |
| `crawl_logout` | the same | finding: the crawl requests logout paths that a spec or a bundle names |
| `probes` | some fifty probes on small families of apps | `AccusedIsGuilty`, `NothingSeenIsLost`, `CleanIsEarned`, and that each decides |
| `host` | 2 grades, repos of one commit in turn or urls at once, 2 lanes, torn files, one kill | `RowsAreTrue`, `FrozenPlanHolds`, `LockIsSemaphore` (refinement of `Slots`), `NothingStrands` |
| `accounts` | 5 probes on some forty apps, one abandoned probe, mails that may never come, recovery links that are dead | `VerdictsAreReal`, `IdentitiesHold`, `BatteryEnds` |
| `services` | one of six services on small families | `AnswersAreWhole`, `KeepsToItsOwn`, `NothingStaysBehind`, `Ends` |

Some properties are conjunctions of named parts, one part per component or per reading; each part is a definition of its own
with its meaning above it. What they say:

* `PoolIsExact`, `EachJobOnce`, `NumbersAgree`, `FixingNeverHurts`: see the table and the modules.
* `StaysInBounds`: no more than `MaxPages` pages are asked for (`InBudget`), endpoints are in the app (`Confined`), a refused form
  does not come back (`RefusedStaysOut`). `Ends` of the crawl: it comes to its profile, and the pages it asked for are exactly those
  within depth unless the page limit cut (`WithinReach`). `SurfaceIsSound`: guesses were verified and added once, a
  source that only points is credited with what no other found, and "empty" only with nothing left after the guards.
* `AccusedIsGuilty`: a fired verdict means the defect is there, or names exactly how many coincident faults invent it (for
  example: a csrf finding needs a lost comparison page, a lane that concludes from absence needs one lost look, a public record is reported as
  leaked when an edge refuses it to the anonymous reader).
  `NothingSeenIsLost`: without faults and within budget a defect in reach fires. `CleanIsEarned`: a clean verdict means that
  something was tried and answered; the exceptions the code makes are written out in each module's `CleanWas...`.
* `RowsAreTrue`: one row per finished grade, of an attempt that is over, carrying no error of an earlier attempt, and no timeout row of a live worker.
  `FrozenPlanHolds`: a plan is stored only when it came up, and stays. `NothingStrands`: every grade is recorded or killed, every lane comes free.
* `VerdictsAreReal`: no lockout, dead confirmation, reset that never comes or dead recovery link is reported that the app is not guilty of,
  with two exceptions: a link that works once and was opened twice because a probe was abandoned in the flow, and a recovery judged by a
  confirmation mail that was found in place of the reset.
  `IdentitiesHold`: a pair is two users, neither of them the shared one; a broken app is polled once; launches are bounded per identity.
* `AnswersAreWhole`: a block is no end of a gallery, only what was read is remembered, a fault-free scrape finds all, an event is called
  missing only after its page or the search answered 404, every route read before the wedge is kept, a reachable signup is reached and what is said of it is so, a cache hit is fresh for what the key covers.
  `KeepsToItsOwn`: evidence, scope, watchdog, signup form and port belong to whom they should, with the windows in which they do not written out.
  `NothingStaysBehind`: browsers below a killed worker, apps after their grade.

Why these sizes are enough to mean something:

* *Grade.* A cut needs a probe before it, one at it and one after it; the fraction 0.6 of four probes puts its boundary
  between the second and the third, so both sides occur; a probe that hung in front counts as run, as the code counts it. One browser probe and one that
  reads Lighthouse are the two exceptions `NoHttpOutcomeOfAWall` makes. Any number of probes can be abandoned.
* *Retry.* Two workers with a window of two make the breaker trip while one worker sits in the throttle and another
  grades, and leave jobs in the queue to be skipped. A url with one record, one with two whose blocked probes differ, and a repo reach every
  branch of the fold; two passes reach an old retry file under a new merged file.
* *Batch.* A repo and two URLs give both phases, a pool with two children and a queue behind it; two runs give every resume mode
  over graded, failed and wedge rows of one target, and a child left over by Ctrl-C that writes into the second run.
* *Score.* The excerpt has at most two counting findings from different probes in a category but three firings, so
  ranks 0 to 2 occur; `Depth = 3` leaves room. Prices are those of the catalog files.
* *Crawl.* Five pages and depth two let the page limit and the depth limit cut independently. The ten sites are an app at the root and
  below a prefix, single-page apps with and without doors and with a catch-all host, a painted canvas, and entries that are missing or bare. Two
  losses fall on two different parts of one crawl, on a page and on the question for the host's shell, say.
* *Probes.* A pool of 2 threads with a cap of 12 requests has a hit beside a miss, a hit behind the cap and a submit that is cut; upload budget,
  variants and directories are the code's own numbers. One fault per probe (`Faults = 1`) separates robust verdicts from fragile ones;
  comparisons and lanes get one more, because their retry asks once more. The theorems hold for any number.
* *Host.* Two grades are the least that share a commit and compete for lanes; with one lane they exclude each other, with two they do not; two attempts
  meet a frozen plan and a fresh one, one kill falls anywhere.
* *Accounts.* Two identities of a pair and the shared one, two launch tries, one abandoned thread that lives on beside its successors.
* *Services.* Two pages and two tries have a block at the first and the last try of each; probe deadline 2 under lane deadline 3
  is the order of 120 s and 180 s; three probes have one left behind, one running and one to come; three routes have one before, at and after the wedge;
  three tries of a health window; two edits around one hit; two lost pages, clicks or mails of a signup.

Deadlock checking is off because every modelled system stops: a grade is over, a script has ended, a probe has decided.

Every property of a passing run has a mutant (`Bug...`, before the definition it changes) under which that run fails.

### Fairness

* `GradeRun`: weak fairness of the main thread, `WF(Main)`. The edge and the abandoned threads are not fair. Inside a
  probe this is justified by `_run_bounded`: `HangProbe` stays enabled, so a probe that only sends requests is
  eventually given up.
* `RetryPass`: weak fairness of pool and collector together. A child grade has a timeout, so `Finish` always comes.
* `BatchRun`: weak fairness of the driver only. A child may hang for ever: its wall clock is the driver's timer.
* `Crawl`, the probe families, `Deploy`, `Ingest`, `RunCache`, `Signup`: weak fairness of the sequential program; every request, render and page
  operation has a timeout, every loop is counted. Faults, other programs, time limits and edits are not fair.
* `GradeChild`: weak fairness of each parent (`main()` and its deadline) and of the end of a trace, whose subprocess has a timeout.
  A worker may hang anywhere else, and nobody is obliged to start another grade. This is why no starvation freedom of the lock is
  claimed: it has no queue.
* `Accounts`: weak fairness of the battery and of the threads together; neither the deadline nor the mail server is fair.
* `ProbeThreads`: weak fairness of the loop, of the clock and of each thread that is not stuck. `Render`: of the worker unless wedged,
  of the parent's waiting and reading, and of the clock.
* `Score` states no liveness.

## Proofs

TLC checks the instances above; the following hold for every value of the constants that meets the named assumptions. Every invariant below was
first checked by TLC on the runs of its module. "Itself" means that the property is inductive.

| Theorem | Says | Inductive invariant, and why it is needed |
|---|---|---|
| `GradeTyping` | `Spec => []TypeOK` | itself; `ReportTyping` gives the type of what each exit publishes |
| `GradeAccounted` | each catalog probe is measured or blocked, exactly once | `AccountInv`: `Ledger` (the probes behind the loop have an outcome or hung, never both, and no onset is ahead of the loop) and `Halted` (the loop is left early only with an onset, which stays until it is read). Without the second, the step to `Finalize` could meet an early exit with nothing to cut |
| `GradeScoresNoWall` | unless a challenge relents or is not watched for (`fickle`), no outcome of an HTTP probe that met one is scored | `EvidenceInv`: an HTTP probe that met a challenge is the last one that ran, and its onset, or an earlier one, is on its way to the cut |
| `GradeRankable` | a ranked record is of a battery that ran, to an outcome or a deadline, at least the keepable fraction of the catalog before the cut | `MeasuredInv`: a report ends the grade, so what hung when it was made is all that ever hangs; `StageCounts` turns the comparison of numbers in `Stage` into one of cardinalities |
| `GradePerPathInnocent` | blocks of single paths neither mark nor cut a grade | `InnocentInv`: while the origin is open the holder is empty between two probes, and after the loop. An onset recorded during the email prime is the one exception, until the first probe clears it |
| `GradeStopsAtOnset` | whichever thread meets a challenge, at most one more probe starts before the loop stops or finds the origin open | `OnsetInv`: an onset that is there between two probes is of the probe that ended, so only one that is recorded between its look and the next start is carried into the next probe |
| `GradeRefinesPromise` | `Spec => Promise!Safety`: initial states to initial states, each step to a step of `GradePromise` or a stutter | `AccountInv`, `MeasuredInv`, and `TaggedInv` (with no email account to make, every onset of the battery has a probe's number). A challenge met while the account is made is recorded as `?`, and the code then books nothing as blocked (see below): `GradePromise` allows such a grade to account for less, and only such a grade |
| `RetryTyping` | type correctness | itself; `FoldedTyping` for the merged file, which may be a prefix |
| `RetryRecoversWhatRan` | a cleared probe was measured by a retry of that url, or a grade that lapsed left it unbooked, or the retry was made for an earlier record of the url and not asked for it | `RecoveryInv`: the answers in memory and on disk are honest about `tested` and `unbooked`, so every fold of them is |
| `RetryPoolExact` | a finished pass clears exactly what its retries measured or left unbooked, and skips only on evidence | `ExactInv`: an answer, in memory and then on disk, unblocks exactly what its grade measured or lapsed over, however the collector reorders the pool; `EvidenceInv`: each verdict the window counted as "none" is the block of another job, so a tripped breaker has `Sample` of them |
| `RetryRemerge` | `RemergeChangesNothing`, an action property | `FilesInv`: the merged file of a finished pass is the fold of the retry file |
| `RetryLateBounded` | grades launched after the breaker tripped are at most `Workers` | `PoolInv`: at most `Workers` are busy, and those launched late were already waiting when it tripped, so late and waiting together never exceed `Workers` |
| `BatchTyping` | type correctness | itself |
| `BatchWedgeIsDead` | a wedge row is only written of a dead child | `WedgeInv`: a job on its way to a wedge row has a killed child, a job not started has none, and no row is of a later run |
| `BatchSerialDeploys` | a repo's child is alive alone | `SerialInv`: the repo phase runs one job, none outlives it, and a job given up has a live child only after Ctrl-C |
| `BatchEachJobOnce` | every planned job leaves a row, no target is graded twice by watched children | `RowInv`: a child past its record has its row, and an undisturbed run leaves a phase only when its queue is empty; `OnceInv`: a graded row of this run is of a child past its record, one of an earlier run is of a job not planned again |
| `LockRefinesSlots` | `Spec => LockIsSemaphore`: any number of grades over any number of lane files implement `Slots` | `LockInv`: the table of flocks and the workers agree on who is inside and with which file. It gives the room `Slots` asks for (`RoomInside`: holders are injected into lanes) and that a dead worker frees its own lane and no other. Fairness is not part of it: `Slots` promises none |
| `ChildTyping` | type correctness of `GradeChild` | itself, in two halves: the counters, then everything else |
| `ChildRowsAreTrue` | one row per finished grade, of an attempt that is over, no timeout row of a live worker | `RecInv`: the record in memory fits the step (`Fits`: blank, not reached, reached, or coherent), so an error of an earlier attempt is gone when a later one comes up; `RowInv`: exactly the finished grades have a row. `OthersKeep` says once what a step of one grade leaves alone in another |
| `ChildFrozenPlan` | `FrozenPlanHolds`, an action property | `PlanInv`: repo grades run one at a time (`OneRepo`, the driver's serial phase), so a grade that saw no frozen plan is the only one that can store one, and what it stores has come up |
| `ServicesLeaveNothing` | `NothingStaysBehind`: the browser below a render worker dies with it, no app or image outlives its teardown | `TreeInv` of `Render`: a worker that has not launched, or has closed, has no browser, and one that a strike does not know of was launched behind the list. `LeftInv` of `Deploy`: which app may exist at which step, and that a container in it has a name `teardown` can remove |
| `ServicesKeepToTheirOwn` | `KeepsToItsOwn`: evidence, scope, watchdog, signup form, origin and port belong to whom they should | `ThreadsInv` of `ProbeThreads`: who runs is awaited or left behind, so nobody else writes to the shared buffers; a lane is never older than its probe, so the timer of a thread that is neither left behind nor runs in the loop never fires, because `ProbeDeadline < LaneDeadline`. `FormInv` of `Signup`: typing a password ends the walk, and routes are guessed only where the homepage showed a way in. `OriginInv` and `OursInv` of `Deploy`: what was lost before the deployer asked in clear, and which program answered |
| `ServicesAnswerWhole` | `AnswersAreWhole`: walks, caches, scrapes, renders, signups and cached grades say what is there, and all of it | `IngestInv`: `StoreInv` (a line is whole, torn or glued to a torn one; a key that was saved is in a whole line or a torn line accounts for it, so `saved` exceeds the whole lines by at most the `tears`; what is held of a key is the site's, unless an interstitial passed for an empty page), `PlaceInv` (the items in hand are of the page in hand) and `OutInv` (nothing before the place was left out: taken, or sharing a link with one that was). `LinksInv` and `MetaInv` say the same of anchors and search pages. `StreamInv` of `Render`: the pipe holds what was sent and not read, in its order (`PipeInv`), and what waits has waited since this tick. `SignupInv` of `Signup`: what is said is said at the end (`SaidInv`), and what was walked past had no form (`ReachInv`). `CacheInv` of `RunCache`: a key vouches for what was loaded as long as its times are the latest (`Vouches`) |
| `ServicesTyping` | `Spec => []TypeOK` of `MCServices` | the invariants above, and `KeptInv` of `ProbeThreads`: a probe behind the loop has ended or was left behind, and what it noted is still there when it ends |
| `ProbesAccuseTheGuilty` | `AccusedIsGuilty`: no probe fires at an app that does not do what it is accused of, up to the faults each oracle stands | `ProbesInv`, one invariant per family. `InjectionInv`: how far an oracle comes on an innocent field with the faults there were (a time oracle needs one lost control and as many late answers as rounds), what a pool thread holds is of its own field (`Placed`), and `DoseInv`, `GateInv` of the gates. `EchoInv`: what was read back was met (`Met`). `RecordInv`: what a burst or a second user saw was there, or an answer was lost (`RaceMet`, `CrossMet`). `BackendInv`: what a key, a table or a file showed. `LimitInv`: a catch-all host passes no gate (`Passed`, `ShellInv`), what a login round counted, and `LoopInv`: the routes that were seen lead to each other one after the other, so that a route met again closes a circle and a walk that is too long is a chain. `LaneInv`: what a lane has met of the page, and which of its steps a watchdog took (`Missed`) |
| `ProbesCleanIsEarned` | `CleanIsEarned`: clean and not applicable say what was looked at | `ProbesInv`: a payload is counted only behind an open gate, a value only when it was seen, and a backend has answered before its step is left |
| `AccountsIdentities` | `IdentitiesHold`: types, the two users of a pair, no polls for the pair before the first identity works, launches bounded by `Tries * (1 + hung)` | `LiveInv`: a thread that works is the battery's or was left behind, so there are at most `1 + hung` of them. `PeopleInv`: a kept session is of its own identity, and the second of a pair carries a user of the first. `SecondInv`: a thread is at the second identity only behind a session of the first. `LaunchInv` pays for launches in advance: until the memo is there, the launches made and those that threads in the middle of theirs have `Left` are at most `Tries` for each of them; the bound by itself does not say what threads of several abandoned probes can still launch |
| `AccountsVerdicts` | `VerdictsAreReal`: who is accused of a lockout, a dead confirmation, a reset that never comes or a dead recovery link did it, with the two exceptions above | `VerdictInv`, beside the invariant of `AccountsIdentities`. `MemoInv`: who signed up has an account, who was promised a mail was sent one if the app sends any, and an accusing observation in the memo is excused by a poll that gave up. `MailInv`: the same of what a thread has observed and not stored yet, of the reset it waits for, and which probe a flow goes back to. `ResetInv` and `OnceInv`: up to the first reset probe no reset mail exists, and with nobody abandoned a link is opened by one flow, which leaves it to the memo; so `HonestInv`, a link that led nowhere is the app's doing. For the recovery link `SentInv`: who has a mail has an account, and a confirmation comes only of an app that sends any. Needs the order of the battery (see below) |
| `CrawlStaysInBounds` | `StaysInBounds`: the page budget, endpoints in the app, refused forms stay out | `WalkInv`: the queue holds paths of the app, so what is visited and what is named by the pages is too. `RouteInv`: up to the guards every known path is in the app or is a usual door of one segment at the host's root; a search is only put beside a collection, which has two segments, so it stays in the app. `FormInv`: a form that was seen is there or was refused, so the search for a door behind the guards brings back none that was |
| `CrawlSurfaceSound` | `SurfaceIsSound`: types, guesses answered and no second row, credit is unique, "empty" means bare | `EndpointInv`: the properties of the rows as one predicate `Sound` of a set of endpoints, kept by the four things a step does to them: a pass that changes inputs, credit or baseline (`PassSound`), a merge (`MergeSources`, `PerceivedSound`), a union with rows that are new (`JoinSound`), a filter (`SubSound`). It needs that no row of a model is there before the model looks, and for "empty" `FormInv` up to the last step |

The assumptions on constants are `CatalogAssumption`, `FractionAssumption`, `EdgeAssumption` and `OptionsAssumption` of `GradeRun`, and one of
each of `RetryPass`, `BatchRun`, `Crawl` (`IsSite`: what a site may be), `GradeChild`, `Accounts`, `MCProbes` and `MCServices` (whose probes, services, sites and apps are the families written there, while deadlines, windows, budgets
and numbers of faults are arbitrary); TLC evaluates them on every run of these modules. `AccountsAssumption` says that the probes of the
confirmation come before those of the reset, as `catalog.py` 61 sorts them by path. The code relies on it: after a reset mail, which stays the
latest one, a confirmation would be judged by the wrong link, and TLC finds the dead confirmation that nobody is guilty of in a battery
in the other order.

Only model-checked: all liveness (`NothingStrands`, `EventuallyFolded`, every `Ends`, the fairness of `GradePromise`), because neither fairness
nor ENABLED is in the prover's reach. All of `Score`: its sums are folds over sequences and need induction over data. `WithinReach` of `Crawl` (part of its `Ends`), whose `Near` is a recursive function. `NothingSeenIsLost` and the
types of `MCProbes`, because no proof has been written.

## Where code and documents disagree

Two runs refute what a comment says.

`crawl_logout`: links, form actions and observed calls are held to "a logout link
must never be crawled or probed" (`discovery.py` 148), but an endpoint of a served spec, of a bundle or of the plan only
passes the scope and template filters, and is requested with the operator's headers.

`retry_lapse`: `merge` says of the probes it clears that they "ran in the retry (clean OR fired)" (`retry_blocked.py` 126), and `_graded`
that a failed retry "never spuriously clears the block" (114). A retry that meets a shell page returns before the first probe and books
nothing (`pipeline.py` 606-608); one that is stopped under `?` books none of the tail it did not run (709-711). Both count as graded, and
the whole block is cleared. `RecoveredRan` and `PoolIsExact` name this as their exception.

Others were met while modelling. They are noted here because no promise is broken, because a property states them as an exception, or because
a run of its own would not be worth it.

*Grade.*
* The email prime runs before any probe is tagged, so a challenge there is recorded as `?`: the loop breaks at the first
  probe, `cat_index.get("?", total)` is `total`, nothing is cut and nothing is booked as blocked (`pipeline.py` 709,
  `schema.py` 196 and 206). `Accounted` excepts it.
* A marker page with status 200 (a sleeping app) is seen by the entry gate but by no hook; probes that run on it are
  scored (`net.py` 71, against `pipeline.py` 374). `NoHttpOutcomeOfAWall` is stated for pages the hook sees.
* An edge that relents between a challenged probe and the look at the origin has its onset reset, and the outcomes read
  off the challenge stay. The code has no state that could tell; `fickle` marks such a grade in the model.
* An abandoned thread that meets a blocked path after the last check leaves an onset that is read without a look at the
  origin, and cuts the record. `PerPathInnocent` is stated without such threads.
* A challenge that starts at `classify_live` or is recorded by an abandoned thread counts against an earlier probe; the
  tail it drops was measured on the app. The keepable fraction is taken of the index of the onset, so a probe that hung before it counts, though the
  comment says "too few probes saw the real app" (`pipeline.py` 702-703); `RankableIsMostlyRun` counts as the code does. A cut grade also loses the static source scan, which is in no catalog position.
* A browser probe's requests are not hooked: a cut made by the next HTTP probe keeps what it saw.

*Retry pass.*
* Both files are opened anew in each pass: what an earlier pass recovered is booked as blocked again.
* The fold matches by url: with two records of one url the first one's tail is retried and the second one's is cleared;
  `RecoveredRan` excepts what was not asked for.
* `challenge_stage` is copied, so a limited battery stays limited after a full recovery (`eligibility.py` 37-38 says otherwise).
* After the breaker trips, workers that passed its check still start their grade: `LateLaunchesBounded` is the bound.

*Batch and host.*
* Ctrl-C in a serial phase takes the child out of `_active` before `_kill_all_active` runs (`run_batch.py` 375, 177), so it
  grades on; and after Ctrl-C the pool still starts every queued job.
* The grade worker calls `setsid` (`deploy_and_grade.py` 896), so it outlives the kill of its child's group (`run_batch.py` 44-48 say the descendants die).
* A child that hangs in its teardown has a graded row and a wedge row; the resume index copes. A job that fails inside the driver leaves no
  row, though `_run_job`'s doc string says it does; `EveryJobAccounted` makes that exception.
* A frozen plan that fails for a passing reason is re-planned on every later grade and never replaced; it is stored before
  the grade although `store_cached_plan` says "(deployed + graded)".
* `timeout="build"` stays in the row when a later attempt fails otherwise. With `--grade-timeout 0` a worker that vanished without an answer is waited for for ever.
* The timeout of the Lighthouse subprocess kills only `npx`. A torn answer of a local Lighthouse raises past `except PSIError`.

*Scoring.*
* The "worst case" fires each probe once at its catalog price, while a real grade fires a declarative probe once per route and
  lifts prices by evidence; the score can exceed it (`benchmark.py` 169, 198; `tests/test_benchmark.py` 127). `NominalPotentialCovers` says when it does not.
* `rank()` does not read `incomplete_axes` (`benchmark.py` 486, `schema.py` 207-209): an axis whose probes were all blocked ranks as cleanest.
* Axis subtotals are rounded one by one and sum to the score only up to rounding, though `schema.py` 190 says they sum to it.

*Crawl.*
* Forms of mined auth routes skip the password-change filter and the phantom drop; a perceived change form is not in `seen_forms` and can return.
* `merge_perceived` has no scope filter; its "rather than duplicating" fails for search endpoints. Conventional doors are rendered at the host's root even for a sub-path target.
* One lost answer to the catch-all question keeps all phantom surface; a lost page is never asked again.
* A thin single-page app whose only form is on the shell route of a catch-all host is called "empty", although
  `tests/test_empty_shell.py` says that captured surface spares it.

*Accounts and signup.*
* The reset poll uses the signup's tag, so a late confirmation mail can count as the reset mail, and its link, which may be inert or spent, is then
  judged as the recovery link (`DeadLinkIsReal` names it). The evidence buffer and the memos are shared with
  abandoned threads: check-then-store can run the flow twice ("run once per app"), which opens a one-time link again. The session of the crawl, kept as the account's, lets the reset check
  run where no account has our address, so `ResetLockoutIsReal` excepts a crawled app.
* A login form behind a link or a guessed route is submitted as if it were a signup, and ends the walk, though `register_in_browser` says "never login";
  a homepage whose login stands beside a "Sign up" button passes for a signup, is filled, and the press of the button counts as submitting it;
  the signup button may lead to another host's form, which `_signup_hrefs` is careful not to follow. The button is looked for on the last page of the walk, not on the homepage.
* "no visible password field … at any of 8 conventional signup routes" is said even when the routes were not walked, because the
  homepage was lost or the time was over; a browser that was killed says it too. The wizard walks nine routes without that gate and without the time limit. `LAST_STAGE` is one dictionary for all threads.
* A cookie of the first visit counts as a session, so an app that mails a confirmation and sets one is not seen as pending.

*Probes.*
* `international_input_breaks` re-uses its sentinel: a list that shows the oldest entry first makes it abstain although it promises a
  read-back (`tests/test_encoding.py` 16 keeps only the newest).
* With seven directories a budget of 40 sends 5 of the 10 upload variants. `api_sqli` counts as tested before the pool has run, so a cap at the baseline reads clean; the tally is not synchronised.
* `race_resource_ids` fires when all creates return one id although its doc string demands a partial collision; `idor_horizontal` has no anonymous gate.
* One anonymous read that an edge refuses (401, 403) passes for the app's own gate in every comparison of two users, of records, lists, backends and
  browsers, and makes a public record look like a broken authorization: `CrossReadIsReal` states it and counts the fault. A refusal to the second
  user reads clean in `idor_horizontal`; `path_traversal` waives its controls when they are lost.
* Schema, source-map and host-header checks read clean when nothing ever answered; with two backends one that was reached suffices.
* The shell of a catch-all host is memoised when lost: one lost request turns the phantom gate off for the whole grade.
* A 403 of an edge counts as a rejected login, its 429 as throttling; a blocked baseline of a public route fires the bypass check; a lost comparison page fires csrf;
  a blocked empty submission fires the constraint check; one timeout fires the decompression check although it is called provable.
* The browser lanes for dom-xss, console, accessibility and dead controls return clean without a browser, although a comment calls that inconclusive;
  lost looks make the stale, silent, back and deep lanes accuse; a lost page of the second user reads clean although the doc string says "never a false clean".
* "one lane's watchdog never touches another's" (`_browser_guarded`), but an abandoned thread's lane (deadline 120 s under a lane's 180 s) runs
  beside its successors and its kill covers all descendants. The interception of `silent_failure_on_action` continues every request past the egress filter.

*Render, deployers, run cache, ingest.*
* At the deadline messages that are in the pipe are dropped, with the sinks; a worker that stops by its own clock is always later than its parent, so its
  sinks are always lost; a worker that dies inside a message raises `OSError`, which loses everything streamed. The "hard wall" `_CRAWL_RENDER_BUDGET` is used by nobody.
* The read timeout equals the health window, so one lost answer sends a live https target to http, although a comment says that a blip recovers on https.
  A container that docker created and could not start, because of the port or anything else, is never removed; an image tag is shared by directories of one base name.
* The run cache says that editing "the app, a probe, or the catalog re-grades", but its fingerprint names four files, a directory's mtime does not see nested
  edits, the catalog counts by its newest whole second, `--email-*` and `--network` are not in the key, and code is loaded before the key is made.
* `event_meta` says that a miss is corroborated by the event's own page (`devpost.py` 360-364), but a 404 of the search passes for "not found" at once
  (372-374), and an event whose page is live is then said not to exist. `AbsenceWasAnswered` is stated as the code does it.
* `submissions` ends silently at 25 pages. An unmarked interstitial is remembered as an empty page; a torn line swallows the next row.

## Not modelled

* What a probe looks for, and how a form, a page or a mail is recognised: text matching without state across calls. The
  models take what is recognised as given (a page *is* a login, a field *does* run a payload).
* The catalog (data), static scans (`secretscan`, `depscan`, `baas`, `provenance`, `provider_validate`, `platform_id`: pure functions of text), the classification
  of addresses in the egress guard, `surface_metrics`.
* `request_counts`, the trace, the platform label, the captured session: written once, read by no decision of the grade.
* Building a curve, the performance normalisation (inert until a curve carries its parameters), the reporting bundle, statistics, charts, the report
  card and gapbench: they read finished records, and nothing reads what they write.
* Gathering submissions in `run_batch`, console output, argument parsing, unpacking of archives, prompts and answers of the planning model.
* Axe, Lighthouse and timing lanes are one evaluation each; what they measure is taken as an outcome by `Score`.
* In `BatchRun` and `RetryPass` rows are atomic; a line torn by a kill is modelled in `Ingest`. Tear-downs and stray workers of one
  batch run are forgotten when the next one starts.

## Plan

The components with state are modelled; the grade, the retry pass, the batch, the crawl, the grade of one project, the lock, the probes, the services and the identities of a grade are proved about.
What is left to prove, in this order:

1. `NothingSeenIsLost` of the probe families: what an oracle saw reaches the verdict.
2. The types of `MCProbes`.

Runs stay as many as there are questions: where a new one is needed, a weaker one gives way.
