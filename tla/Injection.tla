------------------------------ MODULE Injection ------------------------------
(***************************************************************************)
(* The injection probes of probes.py: SQL, shell commands, templates and    *)
(* files.  Each walks its targets; on a target that is live and open it     *)
(* fans its payloads out over a pool of threads that share one tally of     *)
(* requests, and stops at the first payload whose oracle is convinced.      *)
(* What remains is timed, one request after the other.                      *)
(*                                                                         *)
(* The app is honest, or noisy, or has a sink; a request may be lost or     *)
(* answered with something else, once in a while.                           *)
(***************************************************************************)
EXTENDS Integers, Sequences, FiniteSets

CONSTANTS
    Apps,      \* the apps and the probe that is run on each, see MCProbes
    Pool,      \* _INJECT_POOL
    Attempts,  \* max_attempts
    DeepSlots, \* _DEEP_SLOTS
    Faults     \* bound: requests that are lost or garbled

VARIABLES
    app,    \* its probe, and its targets: gate, voice, JSON or not, a sink for each field; max_requests
    at,     \* where the probe is
    mem,    \* what it holds
    th,     \* the threads of the pool
    sent,   \* the tally of its requests
    faults, \* history: faults so far
    verdict

vars == <<app, at, mem, th, sent, faults, verdict>>

NoSpec == <<0, 0>>
Thread(pc, spec) == [pc |-> pc, spec |-> spec, r |-> 0]
Free   == Thread("free", NoSpec)

Init == /\ app \in Apps
        /\ at = "target"
        /\ mem = [n |-> 1, benign |-> 0, budget |-> Attempts, tested |-> FALSE, queue |-> <<>>, deep |-> <<>>,
                  trial |-> 1, hit |-> NoSpec, advisory |-> FALSE]
        /\ th = [w \in 1 .. Pool |-> Free]
        /\ sent = 0 /\ faults = 0 /\ verdict = "none"

Target   == app.targets[mem.n]
Capped   == sent >= app.cap
Idle     == \A w \in 1 .. Pool : th[w].pc = "free"

-----------------------------------------------------------------------------
(* What the app answers: [sig, size], where sig says that the text shows what *)
(* the oracle looks for, and size 3 stands for another status.              *)

Quoted == {"quote1", "quote2", "true", "false"}

\* A noisy target's text follows its input: every input, or what looks quoted,
\* by its own order of sizes, or anew on each call.
Sizes(t, ask, last) ==
    CASE t.voice = "echo"                      -> {IF ask \in {"base", "A"} THEN 0 ELSE 1}
      [] t.voice = "places" /\ ask \in Quoted  -> {IF ask = "false" THEN 2 ELSE 1}
      [] t.voice = "search" /\ ask \in Quoted  -> {IF ask = "true" THEN 2 ELSE 1}
      [] t.voice = "moody" /\ ask \in Quoted   -> 0 .. 2 \ {last}
      [] OTHER                                 -> {0}

\* The payload that the sink of a field answers to: 1 and 2 the two shapes of a
\* payload, 3 a boolean, 4 a sleep.
Reaches(sink, spec, ask) ==
    CASE app.probe = "sqli" -> (ask = "quote2" /\ sink \in {1, 2}) \/ (ask = "quote1" /\ sink = 1)
      [] app.probe = "cmd"  -> sink = spec[2] /\ ask = IF sink = 1 THEN "sha" ELSE "md5"
      [] OTHER             -> sink = spec[2] /\ ask \in {"run", "read"}

Answers(t, spec, ask, last) ==
    LET sink == t.sinks[spec[1]]
    IN  {[sig |-> Reaches(sink, spec, ask) \/ t.voice = "errs",
          size |-> IF app.probe = "sqli" /\ sink = 3 /\ ask = "true" THEN 2 ELSE z] : z \in Sizes(t, ask, last)}

\* A garbled answer shows anything but the digest of a random salt.
Garbled == [sig : IF app.probe \in {"cmd", "ssti"} THEN {FALSE} ELSE BOOLEAN, size : {0, 2, 3}]
Lost    == [sig |-> FALSE, size |-> -1]

\* The tally counts responses, and a request that is lost has none.
Reply(replies, ans) == /\ sent' = IF ans = Lost THEN sent ELSE sent + 1
                       /\ \/ ans \in replies /\ faults' = faults
                          \/ ans \in Garbled \cup {Lost} /\ faults < Faults /\ faults' = faults + 1
Replies == Garbled \cup {Lost} \cup [sig : BOOLEAN, size : 0 .. 2]

-----------------------------------------------------------------------------
(* The walk over the targets, and the gates on each.                       *)

Skip == at' = "target" /\ mem' = [mem EXCEPT !.n = @ + 1]

\* The next target, unless the requests (or, for commands, the attempts) are used up.
Take == /\ at = "target"
        /\ at' = IF mem.n > Len(app.targets) \/ Capped \/ (app.probe = "cmd" /\ mem.budget = 0)
                 THEN "deep" ELSE "base"
        /\ UNCHANGED <<app, mem, th, sent, faults, verdict>>

\* The gates of a baseline that came: a login, an error that was there before, a
\* vendor behind a proxy, a stream.
GatesOf == CASE app.probe = "sqli" -> {"login", "sick", "proxy", "stream"}
             [] app.probe = "cmd"  -> {"login", "sick", "proxy"}
             [] OTHER              -> {"login"}

Baseline == /\ at = "base"
            /\ \E ans \in Replies :
                 /\ Reply({[sig |-> Target.gate = "sick", size |-> 0]}, ans)
                 /\ IF ans = Lost \/ Target.gate \in GatesOf \/ (ans.sig /\ "sick" \in GatesOf)
                    THEN Skip
                    ELSE /\ mem' = [mem EXCEPT !.benign = ans.size]
                         /\ at' = IF app.probe = "ssti" \/ (app.probe = "lfi" /\ Target.json) THEN "specs" ELSE "live"
            /\ UNCHANGED <<app, th, verdict>>

\* _endpoint_is_live: a path that cannot exist must answer something else.
Live == /\ at = "live"
        /\ \E ans \in Replies :
             /\ Reply({[sig |-> FALSE, size |-> IF Target.gate = "phantom" THEN mem.benign ELSE 3 - mem.benign]}, ans)
             /\ IF ans.size = mem.benign THEN Skip ELSE at' = "specs" /\ mem' = mem
        /\ UNCHANGED <<app, th, verdict>>

\* Fields by payloads, within the budget of attempts.
Specs == LET all == [i \in 1 .. Len(Target.sinks) * 2 |-> <<(i + 1) \div 2, 2 - (i % 2)>>]
         IN  IF app.probe = "sqli" THEN [i \in 1 .. Len(Target.sinks) |-> <<i, 1>>] ELSE all

\* Mutant: what does not fit in the budget is queued.
BugFan == /\ at = "specs"
          /\ IF mem.budget = 0
             THEN at' = "deep" /\ mem' = mem
             ELSE /\ at' = "pool"
                  /\ mem' = [mem EXCEPT !.queue = Specs, !.budget = @ - Len(Specs), !.tested = TRUE]
          /\ UNCHANGED <<app, th, sent, faults, verdict>>

Fan == LET specs == SubSeq(Specs, 1, IF mem.budget < Len(Specs) THEN mem.budget ELSE Len(Specs))
       IN  /\ at = "specs"
           /\ IF mem.budget = 0
              THEN at' = "deep" /\ mem' = mem
              ELSE /\ at' = "pool"
                   /\ mem' = [mem EXCEPT !.queue = specs, !.budget = @ - Len(specs), !.tested = TRUE]
           /\ UNCHANGED <<app, th, sent, faults, verdict>>

-----------------------------------------------------------------------------
(* _fan_out_first, and the oracle of one payload in one thread.            *)

First == CASE app.probe = "sqli" -> "quote1"
           [] app.probe = "cmd"  -> "sha"
           [] app.probe = "ssti" -> "run"
           [] OTHER              -> "read"

Refill(w) == /\ at = "pool" /\ th[w].pc = "free" /\ mem.queue # <<>> /\ mem.hit = NoSpec /\ ~Capped
             /\ th' = [th EXCEPT ![w] = Thread(First, Head(mem.queue))]
             /\ mem' = [mem EXCEPT !.queue = Tail(@)]
             /\ UNCHANGED <<app, at, sent, faults, verdict>>

Diverges(a, b) == a # b
Split(t, f)    == Diverges(t, f) /\ (t = 3 \/ f = 3 \/ t > f)

Text(pc) == CASE pc \in {"true", "trueAgain", "trueMore"} -> "true"
              [] pc \in {"false", "falseMore"}             -> "false"
              [] pc \in {"noise1", "noise2"}                -> "A"
              [] pc = "again1" -> "quote1"
              [] pc = "again2" -> "quote2"
              [] pc = "readAgain" -> "read"
              [] OTHER -> pc

\* _tech_error: a quote shows the error, plain text does not, the quote does again.
ErrorThen(pc, ans) ==
    CASE pc = "quote1" -> IF ans.sig THEN "noise1" ELSE "quote2"
      [] pc = "quote2" -> IF ans.sig THEN "noise2" ELSE "A"
      [] pc = "noise1" -> IF ans.sig THEN "A" ELSE "again1"
      [] pc = "noise2" -> IF ans.sig THEN "A" ELSE "again2"
      [] OTHER         -> IF ans.sig THEN "hit" ELSE "A"

\* _tech_boolean: two plain words alike, TRUE reproduces, FALSE is the baseline,
\* TRUE dominates FALSE, twice.
BooleanThen(pc, r, z) ==
    CASE pc = "A"          -> "B"
      [] pc = "B"          -> IF Diverges(r, z) THEN "miss" ELSE "true"
      [] pc = "true"       -> "trueAgain"
      [] pc = "trueAgain" -> IF Diverges(r, z) THEN "miss" ELSE "false"
      [] pc = "false"      -> IF ~Diverges(z, mem.benign) /\ Split(r, z) THEN "trueMore" ELSE "miss"
      [] pc = "trueMore"  -> "falseMore"
      [] OTHER             -> IF Split(r, z) THEN "hit" ELSE "miss"

\* The hash of a salt in the answer is proof (_cmd_send, _ssti_send).
HashThen(pc, ans) == IF ans.sig THEN "hit" ELSE IF pc = "sha" THEN "md5" ELSE "miss"

\* _lfi_send: the file shows, the bare name does not, the file shows again; the
\* two controls are waived when they get no answer.
FileThen(pc, ans) ==
    CASE pc = "read"   -> IF ans.sig THEN "canary" ELSE "miss"
      [] pc = "canary" -> IF ans.sig THEN "miss" ELSE IF ans = Lost THEN "hit" ELSE "readAgain"
      [] OTHER         -> IF ans.sig \/ ans = Lost THEN "hit" ELSE "miss"

Then(pc, r, ans) ==
    CASE app.probe = "lfi"  -> FileThen(pc, ans)
      [] app.probe \in {"cmd", "ssti"} -> HashThen(pc, ans)
      [] OTHER ->
             IF ans = Lost THEN "miss"
             ELSE IF pc \in {"quote1", "quote2", "noise1", "noise2", "again1", "again2"} THEN ErrorThen(pc, ans)
                                                                                        ELSE BooleanThen(pc, r, ans.size)

Ended == {"free", "hit", "miss"}

Ask(w) ==
    LET pc   == th[w].pc
        ask  == Text(pc)
    IN  /\ pc \notin Ended
        /\ \E ans \in Replies :
             /\ Reply(Answers(Target, th[w].spec, ask, th[w].r), ans)
             /\ th' = [th EXCEPT ![w].pc = Then(pc, th[w].r, ans),
                                 ![w].r = IF pc \in {"A", "true", "trueMore"} THEN ans.size ELSE @]
        /\ UNCHANGED <<app, at, mem, verdict>>

\* A future is done: the first hit ends the submitting.
Collect(w) == /\ at = "pool" /\ th[w].pc \in {"hit", "miss"}
              /\ th' = [th EXCEPT ![w] = Free]
              /\ mem' = IF th[w].pc = "hit" THEN [mem EXCEPT !.hit = th[w].spec] ELSE mem
              /\ at' = IF th[w].pc = "hit" THEN "drain" ELSE at
              /\ UNCHANGED <<app, sent, faults, verdict>>

\* After a hit, what did not start is cancelled, what runs is waited for.
Drop(w) == /\ at = "drain" /\ th[w].pc \in {First, "hit", "miss"}
           /\ th' = [th EXCEPT ![w] = Free]
           /\ UNCHANGED <<app, at, mem, sent, faults, verdict>>

\* No hit: the fields wait for the timing pass, and the next target is due.
PoolEnds == LET fields == [i \in 1 .. Len(Target.sinks) |-> <<mem.n, i>>]
                timed  == app.probe = "sqli" \/ (app.probe = "cmd" /\ ~Target.json)
            IN  /\ at = "pool" /\ Idle /\ (mem.queue = <<>> \/ Capped)
                /\ mem' = [mem EXCEPT !.n = @ + 1, !.queue = <<>>,
                                      !.deep = IF timed THEN SubSeq(@ \o fields, 1, IF Len(@ \o fields) < DeepSlots
                                                                                    THEN Len(@ \o fields) ELSE DeepSlots)
                                               ELSE @]
                /\ at' = "target"
                /\ UNCHANGED <<app, th, sent, faults, verdict>>

Fire == /\ at = "drain" /\ Idle
        /\ at' = "end" /\ verdict' = "fired"
        /\ UNCHANGED <<app, mem, th, sent, faults>>

-----------------------------------------------------------------------------
(* The timing pass: _tech_time, _cmd_time_scales.                          *)

Conclude == IF mem.tested THEN "clean" ELSE "na"

\* A trial is a long sleep and a short one, and their difference follows the
\* dose.  Both trials must.  For SQL the outcome is advice and no verdict.
Time == /\ at = "deep"
        /\ IF mem.deep = <<>> \/ Capped
           THEN at' = "end" /\ verdict' = Conclude /\ UNCHANGED <<mem, sent, faults>>
           ELSE LET sleeps == app.targets[Head(mem.deep)[1]].sinks[Head(mem.deep)[2]] = 4
                IN  \E scales \in BOOLEAN :
                      /\ sent' = sent + 2
                      /\ \/ scales = sleeps /\ faults' = faults
                         \/ scales # sleeps /\ faults < Faults /\ faults' = faults + 1
                      /\ CASE ~scales ->
                                /\ mem' = [mem EXCEPT !.deep = Tail(@), !.trial = 1]
                                /\ UNCHANGED <<at, verdict>>
                           [] scales /\ mem.trial = 1 ->
                                /\ mem' = [mem EXCEPT !.trial = 2]
                                /\ UNCHANGED <<at, verdict>>
                           [] scales /\ mem.trial = 2 /\ app.probe = "cmd" ->
                                /\ mem' = [mem EXCEPT !.hit = Head(mem.deep)]
                                /\ at' = "end" /\ verdict' = "fired"
                           [] OTHER ->
                                /\ mem' = [mem EXCEPT !.advisory = TRUE, !.deep = Tail(@), !.trial = 1]
                                /\ UNCHANGED <<at, verdict>>
        /\ UNCHANGED <<app, th>>

Next == \/ Take \/ Baseline \/ Live \/ Fan
        \/ \E w \in 1 .. Pool : Refill(w) \/ Ask(w) \/ Collect(w) \/ Drop(w)
        \/ PoolEnds \/ Fire \/ Time

\* Every request has a timeout.
Spec == Init /\ [][Next]_vars /\ WF_vars(Next)

-----------------------------------------------------------------------------
Sinks(t) == CASE app.probe = "sqli" -> {i \in 1 .. Len(t.sinks) : t.sinks[i] \in {1, 2, 3}}
              [] app.probe = "cmd"  -> {i \in 1 .. Len(t.sinks) : t.sinks[i] \in {1, 2} \/ (t.sinks[i] = 4 /\ ~t.json)}
              [] OTHER              -> {i \in 1 .. Len(t.sinks) : t.sinks[i] \in {1, 2}}

\* An injection is reported on a field that has the sink.  On a plain app each
\* oracle survives a request that is lost or answered out of character
\* (_tech_error, _tech_boolean, _lfi_send, _cmd_time_scales); on one whose text
\* follows its input the controls hold when every answer is in character.
FiredIsReal == verdict = "fired" /\ (faults = 0 \/ (faults = 1 /\ Target.voice = "still")) =>
                   IF mem.trial = 2 THEN app.targets[mem.hit[1]].sinks[mem.hit[2]] = 4
                                    ELSE mem.hit[1] \in Sinks(Target)

\* No thread's hit is lost: when nothing was lost or garbled and nothing ran out,
\* a probe that reports nothing met no open target with a sink (_fan_out_first).
NoHitIsLost == verdict \in {"clean", "na"} /\ faults = 0 /\ ~Capped /\ mem.budget > 0 =>
                   \A n \in 1 .. Len(app.targets) :
                       app.targets[n].gate = "open" /\ app.targets[n].voice = "still" => Sinks(app.targets[n]) = {}

\* A probe that is at its cap sends no more than what each thread still has to ask
\* for the payload in its hands, or the two questions about a target
\* (_request_capped).
CapHolds == LET questions == CASE app.probe = "sqli" -> 11 [] app.probe = "lfi" -> 3 [] OTHER -> 2
            IN  sent < app.cap + Pool * questions

\* The pool of threads (_fan_out_first).
PoolIsSound == NoHitIsLost /\ CapHolds

\* Not applicable is said only when no payload was tried, and clean only when a
\* target was open to them: a host that answers every path alike is no target.
UntestedIsNotClean == /\ verdict = "na" => ~mem.tested
                      /\ verdict = "clean" /\ faults = 0 /\ app.probe # "ssti" =>
                             \E n \in 1 .. Len(app.targets) : app.targets[n].gate \notin {"phantom", "login"}

\* However the threads interleave, the probe comes to a verdict.
Decides == <>(verdict # "none")

TypeOK == /\ at \in {"target", "base", "live", "specs", "pool", "drain", "deep", "end"}
          /\ mem.budget \in 0 .. Attempts /\ mem.n \in 1 .. Len(app.targets) + 1
          /\ Len(mem.deep) <= DeepSlots
          /\ \A w \in 1 .. Pool : th[w].pc = "free" <=> th[w].spec = NoSpec
          /\ verdict \in {"none", "fired", "clean", "na"} /\ (verdict = "none" <=> at # "end")
          /\ faults \in 0 .. Faults

-----------------------------------------------------------------------------
(* The inductive invariant of the proofs in ProbesProofs.                    *)

\* The payloads for a target: a field, and the shape of it.  What is asked with one.
Shots(t)  == (1 .. Len(t.sinks)) \X {1, 2}
Questions == CASE app.probe = "lfi" -> {"read", "canary", "readAgain"}
               [] app.probe \in {"cmd", "ssti"} -> {"sha", "md5", "run"}
               [] OTHER -> {"quote1", "quote2", "noise1", "noise2", "again1", "again2", "A", "B", "true", "trueAgain",
                            "false", "trueMore", "falseMore"}
Threads   == [1 .. Pool -> [pc : Ended \cup Questions, spec : Nat \X Nat, r : Int]]

\* The apps: a JSON target that leaks a file is not alone with gates.
Held ==
    /\ at # "end" => verdict = "none"
    /\ faults \in Nat /\ Len(app.targets) \in Nat /\ app.probe \in {"sqli", "cmd", "ssti", "lfi"}
    /\ \A n \in 1 .. Len(app.targets) :
           /\ Len(app.targets[n].sinks) \in Nat
           /\ app.probe \in {"cmd", "ssti"} => app.targets[n].voice # "errs"
           /\ app.probe = "lfi" /\ app.targets[n].json =>
                  \E m \in 1 .. Len(app.targets) : app.targets[m].gate \notin {"phantom", "login"}

\* What the probe holds on the way.
Holds(m) == /\ DOMAIN m = {"n", "benign", "budget", "tested", "queue", "deep", "trial", "hit", "advisory"}
            /\ m.n \in Nat \ {0} /\ m.budget \in Nat /\ m.trial \in {1, 2} /\ m.tested \in BOOLEAN

\* Where the probe is: threads work in the pool, on payloads for the target.
Placed ==
    /\ at \in {"base", "live", "specs", "pool", "drain"} => mem.n <= Len(app.targets)
    /\ at \notin {"pool", "drain"} => Idle
    /\ at # "deep" => mem.trial = 1
    /\ at = "pool" => mem.queue \in Seq(Shots(Target))
    /\ at \in {"pool", "drain"} => \A w \in 1 .. Pool : th[w].pc # "free" => th[w].spec \in Shots(Target)

\* The oracles are held to account for this target: nothing was lost, or once, on a plain one.
Fair == faults = 0 \/ (faults = 1 /\ Target.voice = "still")

\* A field without the sink, and how far an oracle comes on it.
Innocent(x) == x.spec[1] \notin Sinks(Target)
Unmoved(x) ==
    /\ x.pc \notin {"hit", "trueMore", "falseMore"}
    /\ x.pc \in {"noise1", "noise2", "canary"} => faults = 1 \/ Target.voice = "errs"
    /\ x.pc \in {"again1", "again2", "readAgain"} => faults = 1
    /\ x.pc = "B" => faults = 1 \/ x.r = 0
    /\ x.pc \in {"true", "trueAgain", "false"} => Target.voice # "echo"
    /\ x.pc = "trueAgain" => faults = 1 \/ x.r = 0 \/ Target.voice \in {"places", "search", "moody"}
    /\ x.pc = "false" => Target.voice # "moody" /\ (x.r = 0 \/ Target.voice \in {"places", "search"})

\* No thread is convinced of a field without the sink.
OracleInv ==
    /\ at \in {"live", "specs", "pool", "drain"} /\ faults = 0 => mem.benign = 0
    /\ at \in {"pool", "drain"} /\ Fair => \A w \in 1 .. Pool : th[w].pc # "free" /\ Innocent(th[w]) => Unmoved(th[w])
    /\ at = "drain" /\ Fair => mem.hit[1] \in Sinks(Target)

\* A field whose first trial followed the dose sleeps, or a trial was garbled.
DoseInv == at = "deep" /\ mem.trial = 2 =>
               faults >= 1 \/ app.targets[Head(mem.deep)[1]].sinks[Head(mem.deep)[2]] = 4

\* A payload is tried on a target that passed its gates.
GateInv == faults = 0 /\ app.probe # "ssti" =>
               /\ at = "live" => Target.gate # "login"
               /\ at = "specs" \/ mem.tested => \E n \in 1 .. Len(app.targets) : app.targets[n].gate \notin {"phantom", "login"}

Met == Holds(mem) /\ th \in Threads /\ Placed /\ OracleInv /\ DoseInv /\ GateInv

InjectionInv == Held /\ (at # "end" => Met) /\ FiredIsReal /\ UntestedIsNotClean
=============================================================================
