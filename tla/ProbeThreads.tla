----------------------------- MODULE ProbeThreads -----------------------------
(***************************************************************************)
(* The threads of one grade: the loop of pipeline.run gives each probe its     *)
(* time (_run_bounded) and leaves the thread of one that overruns it behind;   *)
(* probes that need a browser run in the loop's own thread; a lane's watchdog   *)
(* kills every browser of the process.  What the probes share is the evidence  *)
(* buffer, the cookie jar and the processes; what each thread has of its own is *)
(* its copy of the context, with the scope of the grade.                    *)
(***************************************************************************)
EXTENDS Integers, Sequences, FiniteSets

CONSTANTS
    Apps,          \* the batteries: a kind for each probe, which of them stall, the scope
    ProbeDeadline, \* _PROBE_DEADLINE_S
    LaneDeadline,  \* _BROWSER_LANE_DEADLINE
    MaxProbes      \* bound: probes of a battery

VARIABLES
    app, \* the battery
    at,  \* of the loop: next, wait, end
    mem, \* the probe that runs, its age, those given up, the shared evidence and jar, the outcomes, the dials
    th   \* of each probe, its thread: where it is, its scope, its lane's age, timer and browser, who killed it

vars == <<app, at, mem, th>>

Probes == 1 .. Len(app.kinds)
Kind(i) == app.kinds[i]

Init == /\ app \in Apps
        /\ at = "next"
        /\ mem = [i |-> 1, age |-> 0, hung |-> {}, evidence |-> {}, jar |-> {}, kept |-> [i \in Probes |-> {}], dials |-> {}]
        /\ th = [i \in Probes |-> [pc |-> "none", scope |-> "none", lane |-> 0, timer |-> "off", browser |-> "none",
                                   by |-> 0, late |-> FALSE]]

Alive(i) == at # "end" /\ th[i].pc \notin {"none", "ended"}
Set(i, t) == th' = [th EXCEPT ![i] = t]

-----------------------------------------------------------------------------
(* The loop. *)

\* The context a thread or a pool's worker is started with.
Inherited(scope) == scope

Fresh == {}

\* _run_probe clears the client's cookies, and the predicate gets a new buffer.
Begin == /\ at = "next" /\ mem.i \in Probes
         /\ at' = "wait"
         /\ mem' = [mem EXCEPT !.age = 0, !.evidence = Fresh, !.jar = {}]
         /\ Set(mem.i, [th[mem.i] EXCEPT !.pc = "run", !.scope = Inherited(app.scope)])
         /\ UNCHANGED app

Advance(m) == [m EXCEPT !.i = @ + 1]

Collect == /\ at = "wait" /\ th[mem.i].pc = "ended"
           /\ at' = "next" /\ mem' = Advance(mem)
           /\ UNCHANGED <<app, th>>

\* The thread stays; a probe in the loop's own thread cannot be given up.
GiveUp == /\ at = "wait" /\ Kind(mem.i) # "inline" /\ mem.age = ProbeDeadline /\ th[mem.i].pc # "ended"
          /\ at' = "next" /\ mem' = [Advance(mem) EXCEPT !.hung = @ \cup {mem.i}]
          /\ UNCHANGED <<app, th>>

\* The grade's process ends, and its daemon threads with it.
End == /\ at = "next" /\ mem.i \notin Probes
       /\ at' = "end"
       /\ UNCHANGED <<app, mem, th>>

-----------------------------------------------------------------------------
(* A thread, in the loop's care or left behind. *)

\* A request of the shared client; a pool's workers dial too.
Request(i) == /\ Alive(i) /\ th[i].pc = "run"
              /\ mem' = [mem EXCEPT !.jar = @ \cup {i},
                                    !.dials = @ \cup {th[i].scope} \cup (IF Kind(i) = "pool" THEN {Inherited(th[i].scope)} ELSE {})]
              /\ Set(i, [th[i] EXCEPT !.pc = "asked"])
              /\ UNCHANGED <<app, at>>

\* The answer never comes: to a request that keeps trickling, to a call of a renderer that spins.
Stall(i) == /\ Alive(i) /\ i \in app.stalls
            /\ th[i].pc = "lane" \/ (th[i].pc = "asked" /\ Kind(i) # "inline")
            /\ Set(i, [th[i] EXCEPT !.pc = IF @ = "lane" THEN "wedged" ELSE "stuck"])
            /\ UNCHANGED <<app, at, mem>>

Launch(i) == /\ Alive(i) /\ th[i].pc = "asked" /\ Kind(i) \in {"lane", "inline"}
             /\ Set(i, [th[i] EXCEPT !.pc = "lane", !.timer = "armed", !.browser = "up"])
             /\ UNCHANGED <<app, at, mem>>

\* Mutant: the timer is not cancelled.
BugCancelled(timer) == timer

\* timer.cancel: one that fires already goes on.
Cancelled(timer) == IF timer = "armed" THEN "off" ELSE timer

\* The lane returns, or its browser is dead and the call raises.
LaneEnds(i) == /\ Alive(i) /\ (th[i].pc = "lane" \/ (th[i].pc = "wedged" /\ th[i].browser = "killed"))
               /\ Set(i, [th[i] EXCEPT !.pc = "looked", !.timer = Cancelled(@), !.browser = "none"])
               /\ UNCHANGED <<app, at, mem>>

\* ctx.evidence is looked up when it is written to.
Note(i) == /\ Alive(i) /\ th[i].pc = (IF Kind(i) \in {"lane", "inline"} THEN "looked" ELSE "asked")
           /\ mem' = [mem EXCEPT !.evidence = @ \cup {i}]
           /\ Set(i, [th[i] EXCEPT !.pc = "noted"])
           /\ UNCHANGED <<app, at>>

\* The outcome of a thread that was given up is not heard.
Finish(i) == /\ Alive(i) /\ th[i].pc = "noted"
             /\ mem' = IF i \in mem.hung THEN mem ELSE [mem EXCEPT !.kept[i] = mem.evidence \cup mem.jar]
             /\ Set(i, [th[i] EXCEPT !.pc = "ended"])
             /\ UNCHANGED <<app, at>>

-----------------------------------------------------------------------------
(* Time, in parts of a deadline; a timer that is due fires before it goes on. *)

Due(i) == th[i].timer = "armed" /\ th[i].lane = LaneDeadline

Fire(i) == /\ at # "end" /\ Due(i)
           /\ Set(i, [th[i] EXCEPT !.timer = "firing", !.late = TRUE])
           /\ UNCHANGED <<app, at, mem>>

\* Every browser below the process.
Kill(i) == /\ at # "end" /\ th[i].timer = "firing"
           /\ th' = [j \in Probes |-> LET t == IF j = i THEN [th[j] EXCEPT !.timer = "off"] ELSE th[j]
                                      IN  IF t.browser = "up" THEN [t EXCEPT !.browser = "killed", !.by = i] ELSE t]
           /\ UNCHANGED <<app, at, mem>>

Overdue == at = "wait" /\ Kind(mem.i) # "inline" /\ mem.age = ProbeDeadline

Tick == /\ at # "end" /\ ~Overdue /\ \A i \in Probes : ~Due(i)
        /\ mem' = [mem EXCEPT !.age = IF @ < ProbeDeadline THEN @ + 1 ELSE @]
        /\ th' = [i \in Probes |-> IF th[i].timer = "armed" THEN [th[i] EXCEPT !.lane = @ + 1] ELSE th[i]]
        /\ UNCHANGED <<app, at>>

Loops   == Begin \/ Collect \/ GiveUp \/ End
Advances(i) == Request(i) \/ Launch(i) \/ LaneEnds(i) \/ Note(i) \/ Finish(i) \/ Fire(i) \/ Kill(i)

Next == Loops \/ Tick \/ \E i \in Probes : Advances(i) \/ Stall(i)

\* Threads that are not stuck run, timers fire, time passes, the loop takes what is there.
Fair == /\ WF_vars(Loops) /\ WF_vars(Tick)
        /\ \A i \in 1 .. MaxProbes : WF_vars(i \in Probes /\ Advances(i))

Spec == Init /\ [][Next]_vars /\ Fair

-----------------------------------------------------------------------------
\* What an outcome rests on, its evidence and the session of its requests, is of its
\* own probe, or of one that was left behind and still ran.
OutcomeIsOwn == \A i \in Probes : mem.kept[i] \subseteq {i} \cup mem.hung

InTime(i, j) == th[j].late /\ (j = i \/ j \in mem.hung \/ Kind(j) = "inline")

\* A browser dies by a watchdog whose lane has run its time: its own, that of a
\* thread left behind, or one of a lane in the loop that ended while it fired.
KilledInTime == \A i \in Probes : th[i].by # 0 => InTime(i, th[i].by)

\* A thread dials within the scope of its grade, and so does each worker it starts.
ScopeIsKept == mem.dials \subseteq {app.scope}

\* One stuck probe costs its time, not the grade.
Ends == <>(at = "end")

TypeOK == /\ at \in {"next", "wait", "end"}
          /\ mem.i \in 1 .. Len(app.kinds) + 1 /\ mem.age \in 0 .. ProbeDeadline /\ mem.hung \subseteq 1 .. mem.i - 1
          /\ \A i \in Probes : th[i].lane \in 0 .. LaneDeadline /\ (th[i].browser = "up" => th[i].pc \in {"lane", "wedged"})
          /\ at = "end" => \A i \in Probes \ mem.hung : i \in mem.kept[i]

-----------------------------------------------------------------------------
(* The inductive invariants of the proofs in ServicesProofs.                 *)

Memories == [i : Nat \ {0}, age : 0 .. ProbeDeadline, hung : SUBSET Probes, evidence : SUBSET Probes,
             jar : SUBSET Probes, kept : [Probes -> SUBSET Probes], dials : SUBSET {app.scope}]

Threads == [pc : {"none", "run", "asked", "stuck", "lane", "wedged", "looked", "noted", "ended"},
            scope : {"none", app.scope}, lane : Nat, timer : {"off", "armed", "firing"},
            browser : {"none", "up", "killed"}, by : {0} \cup Probes, late : BOOLEAN]

Shaped == mem \in Memories /\ th \in [Probes -> Threads]

\* The loop waits for this thread.
Awaited(i) == at = "wait" /\ i = mem.i

\* Who runs is awaited or left behind, in the scope of the grade.
RunInv == \A i \in Probes : /\ th[i].pc \notin {"none", "ended"} => Awaited(i) \/ i \in mem.hung
                            /\ th[i].pc # "none" => th[i].scope = app.scope
                            /\ i >= mem.i /\ ~Awaited(i) => th[i].pc = "none"

\* Nobody else writes to what the probes share.
OwnInv == /\ at = "wait" => mem.i \in Probes /\ mem.evidence \cup mem.jar \subseteq {mem.i} \cup mem.hung
          /\ OutcomeIsOwn

\* A timer is armed while its lane runs.  That of a thread which was neither left behind nor
\* runs in the loop never fires: the lane is no older than the probe, which is given up first.
Timed(i, t) ==
    /\ t.pc \in {"none", "run", "asked"} => t.timer = "off" /\ t.lane = 0
    /\ t.timer = "armed" => t.pc \in {"lane", "wedged"}
    /\ t.timer = "firing" => t.late
    /\ i \notin mem.hung /\ Kind(i) # "inline" => t.timer # "firing" /\ (t.timer = "armed" => t.lane <= mem.age)

LaneInv == (\A i \in Probes : Timed(i, th[i])) /\ KilledInTime

ThreadsInv == Len(app.kinds) \in Nat /\ Shaped /\ RunInv /\ OwnInv /\ LaneInv

\* A probe that the loop has passed and did not leave behind has ended, and its outcome was kept.
KeptInv == \A i \in Probes \ mem.hung : /\ i < mem.i => th[i].pc = "ended"
                                        /\ th[i].pc = "noted" => i \in mem.evidence \cup mem.jar
                                        /\ th[i].pc = "ended" => i \in mem.kept[i]
=============================================================================
