------------------------------- MODULE RunCache -------------------------------
(***************************************************************************)
(* The run cache (runcache.py, cli.py): a grade is kept under a key that is made  *)
(* of the flags and of when files were last changed, and served again as long as  *)
(* the key comes out the same.                                             *)
(***************************************************************************)
EXTENDS Integers

CONSTANTS
    Apps,  \* what is graded: a file, a directory or a target; the flags of its runs
    Edits, \* bound: changes of files
    Runs   \* bound: runs of the command

VARIABLES
    app,   \* what is graded
    at,    \* of the command: idle, keyed, grading, save, end
    mem,   \* the run: its flags, the code and rules it loaded, its key, the report it serves and whence
    aux,   \* the files: version and time of each; the clock, the cache; history: only plain changes, runs
    faults \* history: changes

vars == <<app, at, mem, aux, faults>>

\* A module that the fingerprint names (there are four), two rules of the catalog, the app.
Loaded == {"probes", "ruleA", "ruleB"}
Files  == Loaded \cup {"source"}

NoReport == [versions |-> [x \in Files |-> 0], browser |-> FALSE]

Init == /\ app \in Apps
        /\ at = "idle" /\ faults = 0
        /\ mem = [browser |-> FALSE, loaded |-> [x \in Loaded |-> 0], key |-> <<>>,
                  report |-> NoReport, cached |-> FALSE]
        /\ aux = [version |-> [x \in Files |-> 1], time |-> [x \in Files |-> 1], clock |-> 1,
                  kept |-> {}, plain |-> TRUE, runs |-> 0]

-----------------------------------------------------------------------------
\* The catalog counts by its last change, a directory by what is added to it or removed.
Latest == IF aux.time["ruleA"] > aux.time["ruleB"] THEN aux.time["ruleA"] ELSE aux.time["ruleB"]

\* _code_fingerprint: whole seconds.
Fingerprint(code) == <<code, Latest>>

Key(browser) == <<browser, Fingerprint(aux.time["probes"]), IF app.is = "file" THEN aux.time["source"] ELSE 0>>

\* A plain change leaves a time that no file had, and not between loading and the key.
Plain(x, t) == (\A y \in Files : t > aux.time[y]) /\ (x \in Loaded => at # "keyed")

\* A change leaves the time it is made at, or that of an older copy which is put back.
Edit(x, t) == /\ faults < Edits /\ at # "end"
              /\ faults' = faults + 1
              /\ aux' = [aux EXCEPT !.version[x] = @ + 1, !.time[x] = t, !.plain = @ /\ Plain(x, t)]
              /\ UNCHANGED <<app, at, mem>>

\* Seconds matter as long as changes come.
Tick == /\ aux.clock <= Edits /\ faults < Edits
        /\ aux' = [aux EXCEPT !.clock = @ + 1]
        /\ UNCHANGED <<app, at, mem, faults>>

-----------------------------------------------------------------------------
\* The code is imported and the catalog read; the key is made after it.
Import == /\ at = "idle" /\ aux.runs < Runs
          /\ \E browser \in BOOLEAN :
                mem' = [mem EXCEPT !.browser = browser, !.loaded = [x \in Loaded |-> aux.version[x]]]
          /\ at' = "keyed" /\ aux' = [aux EXCEPT !.runs = @ + 1]
          /\ UNCHANGED <<app, faults>>

Serve(report, cached, pc) == at' = pc /\ mem' = [mem EXCEPT !.key = Key(mem.browser), !.report = report, !.cached = cached]

\* load: an entry that cannot be read is none; --refresh does not look.
Load == /\ at = "keyed"
        /\ \/ \E entry \in aux.kept : entry.whole /\ entry.key = Key(mem.browser) /\ Serve(entry.report, TRUE, "end")
           \/ Serve(NoReport, FALSE, "grading")
              /\ (app.refresh \/ \A entry \in aux.kept : entry.key # Key(mem.browser) \/ ~entry.whole)
        /\ UNCHANGED <<app, aux, faults>>

Grade == /\ at = "grading"
         /\ at' = "save"
         /\ mem' = [mem EXCEPT !.report = [versions |-> [x \in Files |-> IF x \in Loaded THEN mem.loaded[x] ELSE aux.version[x]],
                                           browser |-> mem.browser]]
         /\ UNCHANGED <<app, aux, faults>>

\* A plain write: a command that is killed leaves half of it.
Save == /\ at = "save"
        /\ at' = "end"
        /\ \E whole \in BOOLEAN :
              aux' = [aux EXCEPT !.kept = {e \in @ : e.key # mem.key} \cup {[key |-> mem.key, whole |-> whole, report |-> mem.report]}]
        /\ UNCHANGED <<app, mem, faults>>

Again == /\ at = "end" /\ aux.runs < Runs
         /\ at' = "idle" /\ mem' = [mem EXCEPT !.browser = FALSE, !.loaded = [x \in Loaded |-> 0],
                                              !.report = NoReport, !.key = <<>>, !.cached = FALSE]
         /\ UNCHANGED <<app, aux, faults>>

-----------------------------------------------------------------------------
Steps == Import \/ Load \/ Grade \/ Save \/ Again

Next == Steps \/ Tick \/ \E x \in Files : Edit(x, aux.clock) \/ (x = "ruleA" /\ Edit(x, 0))

Spec == Init /\ [][Next]_vars /\ WF_vars(Steps)

-----------------------------------------------------------------------------
Covered == {"probes", "ruleA", "ruleB"} \cup (IF app.is = "file" THEN {"source"} ELSE {})

\* A grade that is served again was made with the rules, the named modules and the file that
\* are there now, as long as every change took a second of its own.
HitIsFresh == mem.cached =>
                 /\ mem.report.browser = mem.browser
                 /\ aux.plain => \A x \in Covered : mem.report.versions[x] = aux.version[x]

Ends == <>[](at = "end")

TypeOK == /\ at \in {"idle", "keyed", "grading", "save", "end"}
          /\ aux.clock \in 1 .. Edits + 1 /\ aux.runs \in 0 .. Runs /\ faults \in 0 .. Edits
          /\ mem.cached => at = "end" /\ \E e \in aux.kept : e.report = mem.report
          /\ \A e, f \in aux.kept : e.key = f.key => e = f

-----------------------------------------------------------------------------
(* The inductive invariant of the proof in ServicesProofs.                   *)

Reports == [versions : [Files -> Nat], browser : BOOLEAN]
Keys    == BOOLEAN \X (Nat \X Nat) \X Nat
Entries == [key : Keys, whole : BOOLEAN, report : Reports]
Held    == /\ app.is \in {"file", "directory"}
           /\ mem \in [browser : BOOLEAN, loaded : [Loaded -> Nat], key : Keys \cup {<<>>}, report : Reports, cached : BOOLEAN]
           /\ aux \in [version : [Files -> Nat], time : [Files -> Nat], clock : Nat, kept : SUBSET Entries, plain : BOOLEAN,
                       runs : Nat]

\* A key is of times that have been; where they are still the latest, what was loaded is still
\* there, and the file that was graded.
Dates(key, loaded) ==
    /\ key[2][1] <= aux.time["probes"] /\ (key[2][1] = aux.time["probes"] => loaded["probes"] = aux.version["probes"])
    /\ key[2][2] <= Latest
    /\ key[2][2] = Latest => \A x \in {"ruleA", "ruleB"} : loaded[x] = aux.version[x]
Seen(key, versions) ==
    app.is = "file" => /\ key[3] <= aux.time["source"]
                       /\ key[3] = aux.time["source"] => versions["source"] = aux.version["source"]
Vouches(key, report) == /\ key[1] = report.browser
                        /\ aux.plain => Dates(key, report.versions) /\ Seen(key, report.versions)

\* Between reading the catalog and making the key no change is plain.
FreshInv == /\ \A e \in aux.kept : Vouches(e.key, e.report)
            /\ at = "keyed" /\ aux.plain => \A x \in Loaded : mem.loaded[x] = aux.version[x]
            /\ at \in {"grading", "save"} => mem.key \in Keys /\ mem.key[1] = mem.browser
            /\ at = "grading" /\ aux.plain => Dates(mem.key, mem.loaded) /\ (app.is = "file" => mem.key[3] <= aux.time["source"])
            /\ at = "save" => Vouches(mem.key, mem.report)

CacheInv == Held /\ TypeOK /\ FreshInv /\ HitIsFresh
=============================================================================
