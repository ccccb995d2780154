--------------------------- MODULE ServicesProofs ---------------------------
(***************************************************************************)
(* Proofs about the services around a grade: the deployers, the render      *)
(* worker, the threads of a battery, the signup in the browser, the run     *)
(* cache and the ingest.  Each service is proved to keep its own invariant, *)
(* whatever it is asked for; the theorems put them together for MCServices. *)
(***************************************************************************)
EXTENDS MCServices, SequenceTheorems, FiniteSetTheorems, WellFoundedInduction, TLAPS

\* What the bounds are, service by service.
LEMMA Bounds == /\ Window \in Nat \ {0} /\ TotalTimeout \in Nat
                /\ ProbeDeadline \in Nat /\ LaneDeadline \in Nat /\ ProbeDeadline < LaneDeadline
                /\ Faults \in Nat
  BY ServicesAssumption DEF ServicesAssumption

-----------------------------------------------------------------------------
(* The deployers (Deploy). *)

\* The deployer's clock stops at the window.
LEMMA LaterInWindow == ASSUME mem.age \in 0 .. Window, NEW n \in {1, Window} PROVE D!Later(n) \in 0 .. Window /\ D!Later(n) # 0
  BY Bounds DEF D!Later

\* What the deployer settles on, and that it asks again, in its records.
LEMMA UpShape ==
    ASSUME D!Shaped, NEW base \in {"http", "https", "port"}, NEW by \in {"target", "app", "other"}, D!Up(base, by)
    PROVE  /\ at' = "up" /\ mem'.base = base /\ mem'.by = by
           /\ mem'.age = mem.age /\ mem'.known = mem.known /\ mem'.refused = mem.refused
           /\ mem' \in D!Memories
<1>1. mem' = [mem EXCEPT !.base = base, !.by = by] BY DEF D!Up
<1> QED BY <1>1 DEF D!Up, D!Shaped, D!Memories

\* That it asks again leaves in the records what it had settled.
LEMMA AgainShape ==
    ASSUME D!Shaped, NEW age \in 0 .. Window, NEW refused \in BOOLEAN,
           mem' = [mem EXCEPT !.age = age, !.refused = refused]
    PROVE  /\ mem'.age = age /\ mem'.refused = refused
           /\ mem'.base = mem.base /\ mem'.by = mem.by /\ mem'.known = mem.known
           /\ mem' \in D!Memories
  BY DEF D!Shaped, D!Memories

\* The target answers: it is graded by the scheme it was reached with.
LEMMA TargetUp ==
    ASSUME D!DeployInv, app.kind = "remote", at = "ask", app' = app, aux' \in D!Worlds, aux'.app = aux.app,
           faults' = faults, NEW base \in {"http", "https"}, D!Up(base, "target"),
           app.submitted = "http" => base = (IF app.http = "upgrade" THEN "https" ELSE "http"),
           base = "http" /\ app.submitted = "https" => app.http # "upgrade" /\ (aux'.lost \/ app.https \in {"dead", "silent"})
    PROVE  D!DeployInv'
<1> USE DEF D!DeployInv
<1>1. /\ at' = "up" /\ mem'.base = base /\ mem'.by = "target" /\ mem' \in D!Memories
  BY UpShape
<1>2. D!Deployable' /\ D!Shaped' BY <1>1 DEF D!Deployable, D!Shaped, D!Answers
<1>3. D!LeftInv' BY <1>1 DEF D!LeftInv
<1>4. D!OriginInv' BY <1>1 DEF D!OriginInv, D!OriginIsTheirs
<1>5. D!OursInv' BY <1>1 DEF D!OursInv, D!LeftInv
<1> QED BY <1>2, <1>3, <1>4, <1>5

\* It did not, or its answer was lost: the deployer asks again, or the window is over.
LEMMA TargetAgain ==
    ASSUME D!DeployInv, app.kind = "remote", at = "ask", at' = at, app' = app,
           NEW age \in 0 .. Window, age # 0, NEW refused \in BOOLEAN, mem' = [mem EXCEPT !.age = age, !.refused = refused],
           NEW lost \in BOOLEAN, aux' = [aux EXCEPT !.lost = lost], faults' \in Nat,
           refused => lost \/ app[app.submitted] \in {"dead", "silent"},
           faults' = 0 => app[app.submitted] \notin D!Answers
    PROVE  D!DeployInv'
<1> USE DEF D!DeployInv
<1>1. /\ mem'.age = age /\ mem'.refused = refused /\ mem'.base = mem.base /\ mem'.by = mem.by /\ mem' \in D!Memories
  BY AgainShape
<1>2. aux' \in D!Worlds /\ aux'.lost = lost /\ aux'.app = aux.app /\ aux'.ended = aux.ended
  BY DEF D!Shaped, D!Worlds
<1>3. D!Deployable' /\ D!Shaped' BY <1>1, <1>2 DEF D!Deployable, D!Shaped, D!Answers
<1>4. D!LeftInv' BY <1>1, <1>2 DEF D!LeftInv
<1>5. D!OriginInv' BY <1>1, <1>2 DEF D!OriginInv, D!OriginIsTheirs
<1>6. D!OursInv' BY <1>1, <1>2 DEF D!OursInv
<1> QED BY <1>3, <1>4, <1>5, <1>6

\* Asking a target: it answers, it does not, or its answer is lost.
LEMMA AskStep == ASSUME D!DeployInv, app.kind = "remote", D!Ask PROVE D!DeployInv'
<1> USE DEF D!DeployInv
<1> DEFINE is == app[app.submitted]
<1>0. /\ at = "ask" /\ app' = app /\ mem.age \in 0 .. Window /\ faults \in Nat
      /\ mem.age < Window /\ aux \in D!Worlds
  BY DEF D!Ask, D!Shaped, D!Memories
<1>1. /\ app.submitted \in {"http", "https"} /\ {app.http, app.https} \subseteq D!Answers \cup {"5xx", "dead", "silent"}
  BY DEF D!Deployable
<1>2. /\ app.submitted = "http" => is = app.http
      /\ app.submitted = "https" => is = app.https
  OBVIOUS
<1>3. CASE faults' = faults /\ is \in D!Answers /\ D!Up(D!Settled(app.submitted, is), "target") /\ aux' = aux
  <2>1. D!Settled(app.submitted, is) \in {"http", "https"} BY <1>1 DEF D!Settled
  <2>2. app.submitted = "http" => D!Settled(app.submitted, is) = (IF app.http = "upgrade" THEN "https" ELSE "http")
    BY <1>2 DEF D!Settled
  <2>3. app.submitted = "https" => D!Settled(app.submitted, is) = "https" BY DEF D!Settled
  <2> QED BY <1>0, <1>3, <2>1, <2>2, <2>3, TargetUp
<1>4. CASE /\ faults' = faults /\ is \notin D!Answers /\ aux' = [aux EXCEPT !.lost = FALSE]
           /\ at' = at
           /\ mem' = [mem EXCEPT !.age = D!Later(IF is = "silent" THEN Window ELSE 1), !.refused = is # "5xx"]
  <2>1. D!Later(IF is = "silent" THEN Window ELSE 1) \in 0 .. Window \ {0} BY <1>0, LaterInWindow
  <2>2. is # "5xx" => is \in {"dead", "silent"} BY <1>1, <1>2, <1>4
  <2> QED BY <1>0, <1>4, <2>1, <2>2, TargetAgain
<1>5. CASE /\ faults' = faults + 1 /\ aux' = [aux EXCEPT !.lost = TRUE] /\ at' = at
           /\ \E n \in {1, Window} : mem' = [mem EXCEPT !.age = D!Later(n), !.refused = TRUE]
  <2>1. PICK n \in {1, Window} : mem' = [mem EXCEPT !.age = D!Later(n), !.refused = TRUE] BY <1>5
  <2>2. D!Later(n) \in 0 .. Window \ {0} BY <1>0, LaterInWindow
  <2>3. faults' \in Nat /\ faults' # 0 BY <1>0, <1>5
  <2> QED BY <1>0, <1>5, <2>1, <2>2, <2>3, TargetAgain
<1> QED BY <1>3, <1>4, <1>5 DEF D!Ask, D!Fault

\* The window is over: once more in clear, or nothing was reached.
LEMMA AskInClearStep == ASSUME D!DeployInv, app.kind = "remote", D!AskInClear PROVE D!DeployInv'
<1> USE DEF D!DeployInv
<1>0. /\ at = "ask" /\ app' = app /\ aux' = aux /\ mem.age = Window /\ mem.age # 0 /\ faults \in Nat /\ aux \in D!Worlds
      /\ mem.base = "none" /\ mem.refused \in BOOLEAN
  BY Bounds DEF D!AskInClear, D!Shaped, D!OriginInv, D!Memories
<1>1. /\ app.submitted \in {"http", "https"} /\ {app.http, app.https} \subseteq D!Answers \cup {"5xx", "dead", "silent"}
  BY DEF D!Deployable
<1>2. CASE /\ mem.refused /\ app.submitted = "https" /\ faults' = faults /\ app.http \in D!Answers
           /\ D!Up(D!Settled("http", app.http), "target")
  <2>1. /\ D!Settled("http", app.http) \in {"http", "https"}
        /\ D!Settled("http", app.http) = "http" => app.http # "upgrade"
    BY DEF D!Settled
  <2>2. aux.lost \/ app.https \in {"dead", "silent"} BY <1>0, <1>2 DEF D!OriginInv
  <2> QED BY <1>0, <1>2, <2>1, <2>2, TargetUp
<1>3. CASE /\ D!Raise /\ faults' \in Nat /\ (faults' = 0 => faults = 0)
  <2>1. at' = "teardown" /\ mem' = mem BY <1>3 DEF D!Raise
  <2>2. D!Deployable' /\ D!Shaped' BY <1>0, <1>3, <2>1 DEF D!Deployable, D!Shaped, D!Answers
  <2>3. D!LeftInv' BY <1>0, <2>1 DEF D!LeftInv
  <2>4. D!OriginInv'
    <3>1. faults' = 0 => app[app.submitted] \notin D!Answers BY <1>0, <1>3 DEF D!OriginInv
    <3> QED BY <1>0, <2>1, <3>1 DEF D!OriginInv, D!OriginIsTheirs
  <2>5. D!OursInv' BY <1>0, <2>1 DEF D!OursInv
  <2> QED BY <2>2, <2>3, <2>4, <2>5
<1>4. faults + 1 \in Nat /\ faults + 1 # 0 BY <1>0
<1> QED BY <1>0, <1>2, <1>3, <1>4 DEF D!AskInClear, D!Fault

\* The steps of a deployer that starts an app, and of the app and the port.
LEMMA StartedStep ==
    ASSUME D!DeployInv, app.kind # "remote", app' = app, mem' \in D!Memories, aux' \in D!Worlds, faults' \in Nat,
           mem'.by = "other" => app.kind = "process",
           at' # "ask",
           aux'.app \in {"starting", "up", "exited"} => mem'.known \/ app.kind = "process",
           aux'.app = "created" => app.kind = "container" /\ faults' > 0,
           aux'.port = "other" => faults' > 0,
           at' \in {"build", "port", "start"} => aux'.app = "none" /\ aux'.port # "app",
           at' = "end" => aux'.app \notin {"starting", "up", "exited"} /\ ~aux'.image,
           at' \in {"get", "up"} /\ aux'.app = "exited" => aux'.ended = mem'.age
    PROVE  D!DeployInv'
<1> USE DEF D!DeployInv
<1>1. D!Deployable' /\ D!Shaped' BY DEF D!Deployable, D!Shaped, D!Answers
<1>2. D!LeftInv' BY DEF D!LeftInv, D!Ours
<1>3. D!OriginInv' BY DEF D!OriginInv, D!OriginIsTheirs
<1>4. D!OursInv' BY DEF D!OursInv
<1> QED BY <1>1, <1>2, <1>3, <1>4

\* The last steps of a deployer that asked a target.
LEMMA TargetOver ==
    ASSUME D!DeployInv, app.kind = "remote", app' = app, mem' = mem, faults' = faults,
           at \in {"up", "teardown"}, at' \in {"teardown", "end"}, at' = "teardown" => at = "up" /\ mem.base # "none",
           aux' \in D!Worlds, aux'.app = "none", aux'.lost = aux.lost, at' = "end" => ~aux'.image
    PROVE  D!DeployInv'
<1> USE DEF D!DeployInv
<1>1. D!Deployable' /\ D!Shaped' BY DEF D!Deployable, D!Shaped, D!Answers
<1>2. D!LeftInv' BY DEF D!LeftInv
<1>3. D!OriginInv'
  <2>1. aux.lost \in BOOLEAN /\ aux'.lost \in BOOLEAN BY DEF D!Shaped, D!Worlds
  <2>2. at = "teardown" /\ mem.base = "none" /\ faults = 0 => app[app.submitted] \notin D!Answers
    BY DEF D!OriginInv, D!OriginIsTheirs
  <2>3. /\ mem.base \in {"none", "http", "https"}
        /\ mem.base # "none" /\ app.submitted = "http" => mem.base = (IF app.http = "upgrade" THEN "https" ELSE "http")
        /\ mem.base = "http" /\ app.submitted = "https" => app.http # "upgrade" /\ (aux.lost \/ app.https \in {"dead", "silent"})
    BY DEF D!OriginInv, D!OriginIsTheirs
  <2> QED BY <2>1, <2>2, <2>3 DEF D!OriginInv, D!OriginIsTheirs
<1>4. D!OursInv' BY DEF D!OursInv
<1> QED BY <1>1, <1>2, <1>3, <1>4

\* What is done to bring an app up, and what the app does.
LEMMA AppSteps ==
    ASSUME D!DeployInv, D!Build \/ D!FreePort \/ D!RunFails \/ D!Start \/ D!Address \/ D!Boot \/ D!Taken
    PROVE  D!DeployInv'
<1> USE DEF D!DeployInv
<1>0. /\ mem \in D!Memories /\ aux \in D!Worlds /\ faults \in Nat /\ faults + 1 \in Nat
      /\ app.kind \in {"remote", "process", "container"}
  BY DEF D!Shaped, D!Deployable
<1>1. /\ mem.by = "other" => app.kind = "process"
      /\ at \in {"get", "up"} /\ aux.app = "exited" => aux.ended = mem.age
      /\ aux.app \in {"starting", "up", "exited"} => mem.known \/ app.kind = "process"
      /\ aux.app = "created" => app.kind = "container" /\ faults > 0
      /\ app.kind # "remote" /\ aux.port = "other" => faults > 0
      /\ at = "end" => aux.app \notin {"starting", "up", "exited"} /\ ~aux.image
      /\ at \in {"build", "port", "start"} => aux.app = "none" /\ aux.port # "app"
  BY DEF D!OursInv, D!LeftInv, D!Ours
<1>2. /\ at \in {"build", "port", "start", "address", "check", "get"} => app.kind # "remote"
      /\ aux.app = "starting" => app.kind # "remote" /\ at # "start"
      /\ app.kind # "remote" => at # "ask"
  BY DEF D!LeftInv
<1>3. CASE D!Build
  <2>1. /\ app.kind # "remote" /\ app' = app /\ mem' = mem /\ faults' = faults /\ at' \in {"port", "teardown"}
        /\ at = "build"
    BY <1>2, <1>3 DEF D!Build, D!Raise
  <2>2. aux' \in D!Worlds /\ aux'.app = aux.app /\ aux'.ended = aux.ended /\ aux'.port = aux.port
    BY <1>0, <1>3 DEF D!Build, D!Worlds
  <2> QED BY <1>0, <1>1, <2>1, <2>2, StartedStep
<1>4. CASE D!FreePort
  <2>1. /\ app.kind # "remote" /\ app' = app /\ mem' = mem /\ aux' = aux /\ faults' = faults /\ at = "port" /\ at' = "start"
    BY <1>2, <1>4 DEF D!FreePort
  <2> QED BY <1>0, <1>1, <2>1, StartedStep
<1>9. CASE D!RunFails
  <2>1. /\ app.kind = "container" /\ app' = app /\ mem' = mem /\ at = "start" /\ at' = "teardown"
    BY <1>9 DEF D!RunFails, D!Raise
  <2>2. CASE D!Published /\ aux.port # "free" /\ aux' = [aux EXCEPT !.app = "created"] /\ faults' = faults
    <3>1. aux' \in D!Worlds /\ aux'.app = "created" /\ aux'.port = aux.port BY <1>0, <2>2 DEF D!Worlds
    <3>2. aux.port = "other" BY <1>0, <1>1, <2>1, <2>2 DEF D!Worlds
    <3> QED BY <1>0, <1>1, <2>1, <2>2, <3>1, <3>2, StartedStep
  <2>3. ASSUME D!Fault, NEW left \in {"none", "created"}, aux' = [aux EXCEPT !.app = left] PROVE D!DeployInv'
    <3>1. aux' \in D!Worlds /\ aux'.app = left /\ aux'.port = aux.port BY <1>0, <2>3 DEF D!Worlds
    <3>2. faults' \in Nat /\ faults' > 0 BY <1>0, <2>3 DEF D!Fault
    <3> QED BY <1>0, <1>1, <2>1, <2>3, <3>1, <3>2, StartedStep
  <2> QED BY <1>9, <2>2, <2>3 DEF D!RunFails
<1>5. CASE D!Start
  <2>1. /\ app.kind # "remote" /\ app' = app /\ faults' = faults /\ at = "start" /\ at' \in {"address", "check"}
    BY <1>2, <1>5 DEF D!Start
  <2>2. /\ mem' = [mem EXCEPT !.known = app.kind = "container"]
        /\ aux' = [aux EXCEPT !.app = "starting", !.port = IF D!Published THEN "app" ELSE @]
    BY <1>5 DEF D!Start
  <2>3. mem' \in D!Memories /\ mem'.by = mem.by
    BY <1>0, <2>2 DEF D!Memories
  <2>4. app.kind = "container" => mem'.known
    BY <1>0, <2>2 DEF D!Memories
  <2>5. aux' \in D!Worlds /\ aux'.app = "starting" /\ aux'.port \in {"app", aux.port} BY <1>0, <2>2 DEF D!Worlds
  <2> QED BY <1>0, <1>1, <2>1, <2>3, <2>4, <2>5, StartedStep
<1>6. CASE D!Address
  <2>1. /\ app.kind # "remote" /\ app' = app /\ mem' = mem /\ aux' = aux /\ faults' = faults
        /\ at' \in {"teardown", "check"}
    BY <1>2, <1>6 DEF D!Address, D!Raise
  <2> QED BY <1>0, <1>1, <2>1, StartedStep
<1>7. CASE D!Boot
  <2>1. /\ app.kind # "remote" /\ app' = app /\ mem' = mem /\ at' = at /\ faults' = faults
        /\ aux.app = "starting" /\ at # "start"
    BY <1>2, <1>7 DEF D!Boot
  <2>2. CASE aux' = [aux EXCEPT !.app = "exited", !.ended = mem.age]
    <3>1. aux' \in D!Worlds /\ aux'.app = "exited" /\ aux'.ended = mem.age /\ aux'.port = aux.port
      BY <1>0, <2>2 DEF D!Worlds, D!Memories
    <3> QED BY <1>0, <1>1, <1>2, <2>1, <3>1, StartedStep
  <2>3. ASSUME NEW port \in {aux.port, "app"}, aux' = [aux EXCEPT !.app = "up", !.port = port] PROVE D!DeployInv'
    <3>1. aux' \in D!Worlds /\ aux'.app = "up" /\ aux'.port = port BY <1>0, <2>3 DEF D!Worlds
    <3> QED BY <1>0, <1>1, <1>2, <2>1, <3>1, StartedStep
  <2>4. \/ aux' = [aux EXCEPT !.app = "exited", !.ended = mem.age]
        \/ \E port \in {aux.port, "app"} : aux' = [aux EXCEPT !.app = "up", !.port = port]
    BY <1>7 DEF D!Boot
  <2> QED BY <2>2, <2>3, <2>4
<1>8. CASE D!Taken
  <2>1. /\ app.kind # "remote" /\ app' = app /\ mem' = mem /\ at' = at /\ at # "ask" /\ at # "end"
    BY <1>2, <1>8, Zenon DEF D!Taken
  <2>2. faults' = faults + 1 BY <1>8, Zenon DEF D!Taken, D!Fault
  <2>3. aux' \in D!Worlds /\ aux'.app = aux.app /\ aux'.ended = aux.ended /\ aux'.port = "other"
    BY <1>0, <1>8 DEF D!Taken, D!Worlds
  <2> QED BY <1>0, <1>1, <2>1, <2>2, <2>3, StartedStep
<1> QED BY <1>3, <1>4, <1>5, <1>6, <1>7, <1>8, <1>9

\* Waiting for the app, and taking it down.
LEMMA WaitSteps ==
    ASSUME D!DeployInv, D!Check \/ D!Get \/ D!Expire \/ D!Graded \/ D!Teardown
    PROVE  D!DeployInv'
<1> USE DEF D!DeployInv
<1>0. /\ mem \in D!Memories /\ aux \in D!Worlds /\ faults \in Nat /\ faults + 1 \in Nat
      /\ app.kind \in {"remote", "process", "container"}
  BY DEF D!Shaped, D!Deployable
<1>1. /\ mem.by = "other" => app.kind = "process"
      /\ at \in {"get", "up"} /\ aux.app = "exited" => aux.ended = mem.age
      /\ aux.app \in {"starting", "up", "exited"} => mem.known \/ app.kind = "process"
      /\ aux.app = "created" => app.kind = "container" /\ faults > 0
      /\ app.kind # "remote" /\ aux.port = "other" => faults > 0
      /\ at = "end" => aux.app \notin {"starting", "up", "exited"} /\ ~aux.image
  BY DEF D!OursInv, D!LeftInv, D!Ours
<1>2. /\ at \in {"check", "get"} => app.kind # "remote"
      /\ app.kind = "remote" => aux.app = "none"
  BY DEF D!LeftInv
<1>3. CASE D!Check
  <2>1. /\ app.kind # "remote" /\ app' = app /\ mem' = mem /\ aux' = aux /\ faults' = faults
        /\ at' \in {"teardown", "get"} /\ (at' = "get" => aux.app # "exited")
    BY <1>2, <1>3 DEF D!Check, D!Raise, D!Gone
  <2> QED BY <1>0, <1>1, <2>1, StartedStep
<1>4. CASE D!Get
  <2>1. app.kind # "remote" /\ app' = app /\ aux' = aux /\ at = "get" BY <1>2, <1>4 DEF D!Get
  <2>2. ASSUME faults' = faults, NEW by \in {"app", "other"}, D!Up("port", by),
               by = "other" => app.kind = "process"
        PROVE  D!DeployInv'
    <3>1. at' = "up" /\ mem' \in D!Memories /\ mem'.by = by /\ mem'.age = mem.age /\ mem'.known = mem.known
      BY <2>2, UpShape
    <3> QED BY <1>0, <1>1, <2>1, <2>2, <3>1, StartedStep
  <2>3. ASSUME faults' \in Nat, faults' >= faults, at' = "check", mem' = [mem EXCEPT !.age = D!Later(1)] PROVE D!DeployInv'
    <3>1. D!Later(1) \in 0 .. Window BY <1>0, LaterInWindow DEF D!Memories
    <3>2. mem' \in D!Memories /\ mem'.by = mem.by /\ mem'.known = mem.known
      BY <1>0, <2>3, <3>1 DEF D!Memories
    <3> QED BY <1>0, <1>1, <2>1, <2>3, <3>2, StartedStep
  <2> QED BY <1>0, <1>4, <2>2, <2>3 DEF D!Get, D!Fault
<1>5. CASE D!Expire
  <2>1. /\ app.kind # "remote" /\ app' = app /\ mem' = mem /\ aux' = aux /\ faults' = faults /\ at' = "teardown"
    BY <1>2, <1>5 DEF D!Expire, D!Raise
  <2> QED BY <1>0, <1>1, <2>1, StartedStep
<1>6. CASE D!Graded
  <2>1. /\ app' = app /\ mem' = mem /\ aux' = aux /\ faults' = faults /\ at = "up" /\ at' = "teardown"
    BY <1>6 DEF D!Graded
  <2>2. CASE app.kind # "remote" BY <1>0, <1>1, <2>1, <2>2, StartedStep
  <2>3. CASE app.kind = "remote"
    <3>1. mem.base # "none" BY <2>1, <2>3 DEF D!OriginInv
    <3> QED BY <1>0, <1>1, <1>2, <2>1, <2>3, <3>1, TargetOver
  <2> QED BY <2>2, <2>3
<1>7. CASE D!Teardown
  <2>1. /\ app' = app /\ mem' = mem /\ faults' = faults /\ at = "teardown" /\ at' = "end"
    BY <1>7 DEF D!Teardown
  <2>2. /\ aux' = [aux EXCEPT !.app = IF D!Ours /\ aux.app # "none" THEN "gone" ELSE aux.app, !.image = FALSE]
    BY <1>7 DEF D!Teardown
  <2>3. /\ aux' \in D!Worlds /\ aux'.image = FALSE /\ aux'.lost = aux.lost
        /\ aux'.app = (IF D!Ours /\ aux.app # "none" THEN "gone" ELSE aux.app)
    BY <1>0, <2>2 DEF D!Worlds
  <2>4. aux'.app \notin {"starting", "up", "exited"} /\ (aux'.app = "created" => app.kind = "container" /\ faults > 0)
    BY <1>1, <2>3 DEF D!Ours
  <2>7. aux'.port = aux.port BY <1>0, <2>2 DEF D!Worlds
  <2>5. CASE app.kind # "remote" BY <1>0, <1>1, <2>1, <2>3, <2>4, <2>5, <2>7, StartedStep
  <2>6. CASE app.kind = "remote" BY <1>0, <1>2, <2>1, <2>3, <2>6, TargetOver
  <2> QED BY <2>5, <2>6
<1> QED BY <1>3, <1>4, <1>5, <1>6, <1>7

\* No step of a deployer breaks what is proved of it.
LEMMA DeployStep == ASSUME D!DeployInv, D!Next PROVE D!DeployInv'
<1>1. at = "ask" => app.kind = "remote" BY DEF D!DeployInv, D!LeftInv
<1>2. CASE D!Ask BY <1>1, <1>2, AskStep DEF D!Ask
<1>3. CASE D!AskInClear BY <1>1, <1>3, AskInClearStep DEF D!AskInClear
<1> QED BY <1>2, <1>3, AppSteps, WaitSteps DEF D!Next, D!Steps

\* A deployer starts with nothing of the app.
LEMMA DeployInit == ASSUME D!Init, D!Deployable PROVE D!DeployInv
<1>1. /\ at = CASE app.kind = "remote" -> "ask" [] app.kind = "process" -> "port" [] app.kind = "container" -> "build"
      /\ mem = [age |-> 0, refused |-> FALSE, base |-> "none", by |-> "none", known |-> FALSE]
      /\ aux = [app |-> "none", port |-> "free", image |-> FALSE, lost |-> FALSE, ended |-> 0]
      /\ faults = 0 /\ 0 \in 0 .. Window
  BY Bounds DEF D!Init
<1>2. D!Shaped BY <1>1 DEF D!Shaped, D!Memories, D!Worlds
<1>3. /\ app.kind = "remote" => at = "ask"
      /\ app.kind # "remote" => at \in {"port", "build"}
  BY <1>1 DEF D!Deployable
<1>4. D!LeftInv BY <1>1, <1>3 DEF D!LeftInv
<1>5. D!OriginInv BY <1>1, <1>3 DEF D!OriginInv, D!OriginIsTheirs
<1>6. D!OursInv BY <1>1, <1>3 DEF D!OursInv
<1> QED BY <1>2, <1>4, <1>5, <1>6 DEF D!DeployInv

\* The types of a deployer: its records are those of the invariant, an origin is there with who
\* answered for it, and no more faults happen than may.
LEMMA DeployTypes == ASSUME D!DeployInv, D!DeployInv', D!TypeOK, D!Next PROVE D!TypeOK'
<1> DEFINE Places == {"ask", "build", "port", "start", "address", "check", "get", "up", "teardown", "end"}
<1>0. /\ at \in Places /\ faults \in 0 .. Faults /\ (mem.base = "none" <=> mem.by = "none") /\ Faults \in Nat
      /\ {"age", "refused", "base", "by", "known"} = DOMAIN mem
  BY Bounds DEF D!TypeOK, D!DeployInv, D!Shaped, D!Memories
<1>1. /\ mem'.age \in 0 .. Window /\ aux'.app \in {"none", "created", "starting", "up", "exited", "gone"}
      /\ aux'.port \in {"free", "app", "other"}
  BY DEF D!DeployInv, D!Shaped, D!Memories, D!Worlds
<1>2. faults' = faults \/ D!Fault
  BY DEF D!Next, D!Steps, D!Ask, D!AskInClear, D!Build, D!FreePort, D!RunFails, D!Start, D!Address, D!Check, D!Get, D!Expire,
         D!Graded, D!Teardown, D!Boot, D!Taken
<1>3. faults' \in 0 .. Faults BY <1>0, <1>2 DEF D!Fault
<1>4. at' \in Places
  BY <1>0 DEF D!Next, D!Steps, D!Ask, D!AskInClear, D!Build, D!FreePort, D!RunFails, D!Start, D!Address, D!Check, D!Get, D!Expire,
         D!Graded, D!Teardown, D!Boot, D!Taken, D!Raise, D!Up
<1>5. \/ mem' = mem
      \/ \E age, refused : mem' = [mem EXCEPT !.age = age, !.refused = refused]
      \/ \E age : mem' = [mem EXCEPT !.age = age]
      \/ \E known : mem' = [mem EXCEPT !.known = known]
      \/ \E base \in {"http", "https", "port"}, by \in {"target", "app", "other"} : D!Up(base, by)
  <2>1. CASE D!Ask
    <3>1. D!Settled(app.submitted, app[app.submitted]) \in {"http", "https"}
      BY <2>1 DEF D!Settled, D!DeployInv, D!Deployable, D!LeftInv, D!Ask
    <3> QED BY <2>1, <3>1 DEF D!Ask
  <2>2. CASE D!AskInClear
    <3>1. D!Settled("http", app.http) \in {"http", "https"} BY DEF D!Settled
    <3> QED BY <2>2, <3>1 DEF D!AskInClear, D!Raise
  <2>3. CASE D!Get BY <2>3 DEF D!Get
  <2>4. CASE D!Start BY <2>4 DEF D!Start, D!Raise
  <2>5. CASE ~(D!Ask \/ D!AskInClear \/ D!Get \/ D!Start)
    BY <2>5 DEF D!Next, D!Steps, D!Build, D!FreePort, D!RunFails, D!Address, D!Check, D!Expire, D!Graded, D!Teardown, D!Boot, D!Taken, D!Raise
  <2> QED BY <2>1, <2>2, <2>3, <2>4, <2>5
<1>6. mem'.base = "none" <=> mem'.by = "none" BY <1>0, <1>5 DEF D!Up
<1> QED BY <1>1, <1>3, <1>4, <1>6 DEF D!TypeOK

\* A deployer starts with nothing settled.
LEMMA DeployTyped == ASSUME D!Init, D!Deployable PROVE D!TypeOK
<1>1. /\ at = CASE app.kind = "remote" -> "ask" [] app.kind = "process" -> "port" [] app.kind = "container" -> "build"
      /\ mem.age = 0 /\ mem.base = "none" /\ mem.by = "none" /\ aux.app = "none" /\ aux.port = "free" /\ faults = 0
      /\ 0 \in 0 .. Window /\ 0 \in 0 .. Faults
  BY Bounds DEF D!Init
<1>2. at \in {"ask", "port", "build"} BY <1>1 DEF D!Deployable
<1> QED BY <1>1, <1>2 DEF D!TypeOK

\* What the run checks of a deployer follows.
LEMMA DeployKeeps == ASSUME D!DeployInv PROVE D!NothingLeft /\ D!OriginIsTheirs /\ D!GradedIsOurs
<1> USE DEF D!DeployInv
<1>1. D!NothingLeft BY DEF D!NothingLeft, D!LeftInv, D!Shaped, D!Worlds
<1>2. D!GradedIsOurs BY DEF D!GradedIsOurs, D!OursInv
<1> QED BY <1>1, <1>2 DEF D!OriginInv

-----------------------------------------------------------------------------
(* The render worker and its parent (Render). *)

\* No step of worker or parent leaves a browser that nobody kills.
LEMMA RenderStep == ASSUME R!TreeInv, R!Next PROVE R!TreeInv'
<1> DEFINE Kept == aux'.browser = aux.browser /\ aux'.crashed = aux.crashed /\ aux'.missed = aux.missed
<1>1. ASSUME {"pc", "browser", "crashed", "missed"} \subseteq DOMAIN aux', "listed" \in DOMAIN mem',
             {aux'.crashed, aux'.missed} \subseteq BOOLEAN,
             aux'.pc \in {"start", "last"} => aux'.browser # "up",
             aux'.pc \in {"exited", "killed"} /\ aux'.browser = "up" => aux'.crashed \/ aux'.missed,
             at' = "strike" /\ aux'.browser = "up" => "browser" \in mem'.listed \/ aux'.missed,
             at' = "end" /\ aux'.browser = "up" => aux'.crashed \/ aux'.missed
      PROVE  R!TreeInv'
  BY <1>1 DEF R!TreeInv, R!TreeIsKilled
<1>2. /\ {"pc", "browser", "crashed", "missed"} \subseteq DOMAIN aux /\ "listed" \in DOMAIN mem
      /\ aux.crashed \in BOOLEAN /\ aux.missed \in BOOLEAN
      /\ aux.pc \in {"start", "last"} => aux.browser # "up"
      /\ aux.pc \in {"exited", "killed"} /\ aux.browser = "up" => aux.crashed \/ aux.missed
      /\ at = "strike" /\ aux.browser = "up" => "browser" \in mem.listed \/ aux.missed
      /\ at = "end" /\ aux.browser = "up" => aux.crashed \/ aux.missed
  BY DEF R!TreeInv, R!TreeIsKilled
<1>3. CASE R!Launch
  <2>1. /\ at # "end" /\ at' = at /\ mem' = mem /\ aux.pc = "start"
        /\ \/ aux' = [aux EXCEPT !.pc = "render", !.since = mem.age, !.browser = "up", !.missed = (at = "strike")]
           \/ aux' = [aux EXCEPT !.pc = "last"]
    BY <1>3 DEF R!Launch, R!Work
  <2> QED BY <1>1, <1>2, <2>1
<1>4. CASE R!Written \/ R!CloseBrowser
  <2>1. /\ at # "end" /\ at' = at /\ mem' = mem BY <1>4 DEF R!Written, R!CloseBrowser, R!Work
  <2>2. CASE R!CloseBrowser
    <3>1. aux' = [aux EXCEPT !.pc = "last", !.browser = "none"] BY <2>2 DEF R!CloseBrowser
    <3> QED BY <1>1, <1>2, <2>1, <3>1
  <2>3. CASE R!Written /\ aux.pc = "last"
    <3>1. aux' = [aux EXCEPT !.pc = "exited", !.pipe = Append(aux.pipe, "done")] BY <2>3 DEF R!Written
    <3> QED BY <1>1, <1>2, <2>1, <2>3, <3>1
  <2>4. CASE R!Written /\ aux.pc = "write"
    <3>1. /\ {"pc", "browser", "crashed", "missed"} \subseteq DOMAIN aux' /\ aux'.pc = "render" /\ Kept
      BY <1>2, <2>4 DEF R!Written
    <3> QED BY <1>1, <1>2, <2>1, <3>1
  <2> QED BY <1>4, <2>2, <2>3, <2>4 DEF R!Written
<1>5. CASE R!Paint
  <2>1. /\ at # "end" /\ at' = at /\ mem' = mem /\ aux.pc = "render" BY <1>5 DEF R!Paint, R!Work
  <2>2. /\ {"pc", "browser", "crashed", "missed"} \subseteq DOMAIN aux' /\ aux'.pc \in {"write", "render", "wedged"} /\ Kept
    BY <1>2, <1>5 DEF R!Paint
  <2> QED BY <1>1, <1>2, <2>1, <2>2
<1>6. CASE R!Crash
  <2>1. /\ at' = at /\ mem' = mem /\ at # "end" /\ aux' = [aux EXCEPT !.pc = "exited", !.crashed = TRUE] BY <1>6 DEF R!Crash
  <2> QED BY <1>1, <1>2, <2>1
<1>7. CASE R!List
  <2>1. CASE R!Alive
    <3>1. /\ at' = "strike" /\ aux' = aux /\ mem' = [mem EXCEPT !.listed = R!Tree] BY <1>7, <2>1 DEF R!List
    <3>2. aux.browser = "up" => "browser" \in R!Tree BY DEF R!Tree
    <3>3. "listed" \in DOMAIN mem' /\ mem'.listed = R!Tree BY <1>2, <3>1
    <3> QED BY <1>1, <1>2, <3>1, <3>2, <3>3
  <2>2. CASE ~R!Alive
    <3>1. at' = "end" /\ aux' = aux /\ mem' = mem BY <1>7, <2>2 DEF R!List
    <3>2. aux.pc \in {"exited", "killed"} BY <2>2 DEF R!Alive
    <3> QED BY <1>1, <1>2, <3>1, <3>2
  <2> QED BY <2>1, <2>2
<1>8. CASE R!Strike
  <2>1. /\ at = "strike" /\ at' = "end" /\ mem' = mem
        /\ aux' = [aux EXCEPT !.pc = IF aux.pc = "exited" THEN aux.pc ELSE "killed",
                              !.browser = IF "browser" \in mem.listed THEN "none" ELSE aux.browser]
    BY <1>8 DEF R!Strike
  <2>2. /\ {"pc", "browser", "crashed", "missed"} \subseteq DOMAIN aux' /\ aux'.pc \in {"exited", "killed"}
        /\ aux'.browser = (IF "browser" \in mem.listed THEN "none" ELSE aux.browser)
        /\ aux'.crashed = aux.crashed /\ aux'.missed = aux.missed
    BY <1>2, <2>1
  <2> QED BY <1>1, <1>2, <2>1, <2>2
<1>9. CASE R!Poll \/ R!Lapse \/ R!IsAlive \/ R!Recv \/ R!GiveUp \/ R!Tick
  <2>1. at' \notin {"strike", "end"}
    BY <1>9 DEF R!Poll, R!Lapse, R!IsAlive, R!Recv, R!GiveUp, R!Tick, R!Leave
  <2>2. "listed" \in DOMAIN mem' 
    BY <1>2, <1>9 DEF R!Poll, R!Lapse, R!IsAlive, R!Recv, R!GiveUp, R!Tick, R!Leave
  <2>3. {"pc", "browser", "crashed", "missed"} \subseteq DOMAIN aux' /\ aux'.pc = aux.pc /\ Kept
    BY <1>2, <1>9 DEF R!Poll, R!Lapse, R!IsAlive, R!Recv, R!GiveUp, R!Tick
  <2> QED BY <1>1, <1>2, <2>1, <2>2, <2>3
<1> QED BY <1>3, <1>4, <1>5, <1>6, <1>7, <1>8, <1>9, Zenon DEF R!Next, R!Works, R!Waits, R!Reads

\* The parent starts with nothing below it.
LEMMA RenderInit == ASSUME R!Init PROVE R!TreeInv
<1>1. /\ at = "poll"
      /\ mem = [age |-> 0, out |-> <<>>, sinks |-> FALSE, how |-> "none", listed |-> {}]
      /\ aux = [pc |-> "start", since |-> 0, idx |-> 1, pipe |-> <<>>, browser |-> "none",
                sent |-> <<>>, age |-> <<>>, lapsed |-> 0, crashed |-> FALSE, missed |-> FALSE]
  BY DEF R!Init
<1> QED BY <1>1 DEF R!TreeInv, R!TreeIsKilled

-----------------------------------------------------------------------------
(* The threads of a battery (ProbeThreads). *)

\* What the steps of one thread have in common: it runs, it keeps its scope, and it leaves the
\* loop and the other threads alone.
LEMMA OneThread ==
    ASSUME T!ThreadsInv, app' = app, at' = at,
           mem' \in T!Memories, mem'.i = mem.i, mem'.age = mem.age, mem'.hung = mem.hung,
           at = "wait" => mem'.evidence \cup mem'.jar \subseteq {mem.i} \cup mem.hung,
           \A k \in T!Probes : mem'.kept[k] \subseteq {k} \cup mem.hung,
           NEW i \in T!Probes, NEW t \in T!Threads, T!Set(i, t),
           aux[i].pc \notin {"none", "ended"}, t.pc # "none", t.scope = aux[i].scope,
           t.by = aux[i].by, aux[i].late => t.late, T!Timed(i, t)
    PROVE  T!ThreadsInv'
<1> USE DEF T!ThreadsInv
<1>0. T!Probes' = T!Probes /\ T!Memories' = T!Memories /\ T!Threads' = T!Threads /\ \A k : T!Kind(k)' = T!Kind(k)
  BY DEF T!Probes, T!Memories, T!Threads, T!Kind
<1>1. aux \in [T!Probes -> T!Threads] /\ aux' = [aux EXCEPT ![i] = t] BY DEF T!Shaped, T!Set
<1>2. aux'[i] = t /\ \A k \in T!Probes : k # i => aux'[k] = aux[k]
  BY <1>1
<1>3. T!Shaped' BY <1>0, <1>1 DEF T!Shaped
<1>4. T!RunInv' BY <1>0, <1>2 DEF T!RunInv, T!Awaited
<1>5. T!OwnInv' BY <1>0 DEF T!OwnInv, T!OutcomeIsOwn
<1>6. \A k \in T!Probes : T!Timed(k, aux[k])' BY <1>0, <1>2 DEF T!LaneInv, T!Timed
<1>7. T!KilledInTime'
  <2> SUFFICES ASSUME NEW k \in T!Probes, aux'[k].by # 0 PROVE T!InTime(k, aux[k].by)'
    BY <1>0 DEF T!KilledInTime
  <2>1. aux'[k].by = aux[k].by BY <1>2
  <2>2. PICK j \in T!Probes : j = aux[k].by BY <1>1, <2>1 DEF T!Threads
  <2>3. T!InTime(k, j) BY <2>1, <2>2 DEF T!LaneInv, T!KilledInTime
  <2>4. aux'[j].late BY <1>2, <2>3 DEF T!InTime
  <2> QED BY <1>0, <2>1, <2>2, <2>3, <2>4 DEF T!InTime
<1> QED BY <1>0, <1>3, <1>4, <1>5, <1>6, <1>7 DEF T!LaneInv

\* What the records of the loop and of a thread hold.
LEMMA ThreadFacts ==
    ASSUME T!ThreadsInv
    PROVE  /\ mem \in T!Memories /\ aux \in [T!Probes -> T!Threads] /\ T!Probes \subseteq Nat \ {0}
           /\ \A i \in T!Probes : /\ aux[i] \in T!Threads
                                  /\ T!Timed(i, aux[i])
                                  /\ aux[i].pc \notin {"none", "ended"} => (at = "wait" /\ i = mem.i) \/ i \in mem.hung
                                  /\ aux[i].pc # "none" => aux[i].scope = app.scope
           /\ at = "wait" => mem.i \in T!Probes /\ mem.evidence \cup mem.jar \subseteq {mem.i} \cup mem.hung
           /\ \A i \in T!Probes : mem.kept[i] \subseteq {i} \cup mem.hung
  BY DEF T!ThreadsInv, T!Shaped, T!LaneInv, T!RunInv, T!OwnInv, T!OutcomeIsOwn, T!Awaited, T!Probes

\* What one thread does, other than a kill, breaks nothing of the others.
LEMMA ThreadSteps ==
    ASSUME T!ThreadsInv, NEW i \in T!Probes, T!Advances(i) \/ T!Stall(i), ~T!Kill(i)
    PROVE  T!ThreadsInv'
<1>0. /\ mem \in T!Memories /\ aux \in [T!Probes -> T!Threads]
      /\ aux[i] \in T!Threads /\ T!Timed(i, aux[i])
      /\ aux[i].pc \notin {"none", "ended"} => (at = "wait" /\ i = mem.i) \/ i \in mem.hung
      /\ aux[i].pc # "none" => aux[i].scope = app.scope
      /\ at = "wait" => mem.i \in T!Probes /\ mem.evidence \cup mem.jar \subseteq {mem.i} \cup mem.hung
      /\ \A k \in T!Probes : mem.kept[k] \subseteq {k} \cup mem.hung
  BY ThreadFacts
<1>1. CASE T!Request(i)
  <2>1. /\ app' = app /\ at' = at /\ aux[i].pc = "run" /\ T!Set(i, [aux[i] EXCEPT !.pc = "asked"])
    BY <1>1 DEF T!Request
  <2>2. mem' = [mem EXCEPT !.jar = mem.jar \cup {i},
                           !.dials = mem.dials \cup {aux[i].scope} \cup (IF T!Kind(i) = "pool" THEN {T!Inherited(aux[i].scope)} ELSE {})]
    BY <1>1 DEF T!Request
  <2>3. /\ mem' \in T!Memories /\ mem'.i = mem.i /\ mem'.age = mem.age /\ mem'.hung = mem.hung
        /\ mem'.evidence = mem.evidence /\ mem'.jar = mem.jar \cup {i} /\ mem'.kept = mem.kept
    <3> DEFINE dials == mem.dials \cup {aux[i].scope} \cup (IF T!Kind(i) = "pool" THEN {T!Inherited(aux[i].scope)} ELSE {})
    <3>1. dials \subseteq {app.scope} BY <1>0, <2>1 DEF T!Memories, T!Inherited
    <3>2. mem' = [mem EXCEPT !.jar = mem.jar \cup {i}, !.dials = dials] BY <2>2
    <3> HIDE DEF dials
    <3>3. mem.jar \cup {i} \subseteq T!Probes BY <1>0 DEF T!Memories
    <3> QED BY <1>0, <3>1, <3>2, <3>3 DEF T!Memories
  <2> DEFINE t == [aux[i] EXCEPT !.pc = "asked"]
  <2>4. /\ t \in T!Threads /\ t.pc = "asked" /\ t.scope = aux[i].scope /\ t.by = aux[i].by
        /\ t.late = aux[i].late /\ t.timer = aux[i].timer /\ t.lane = aux[i].lane
    BY <1>0 DEF T!Threads
  <2>5. T!Timed(i, t) BY <1>0, <2>1, <2>4 DEF T!Timed
  <2> HIDE DEF t
  <2> QED BY <1>0, <2>1, <2>3, <2>4, <2>5, OneThread DEF t
<1>2. CASE T!Stall(i)
  <2> DEFINE t == [aux[i] EXCEPT !.pc = IF aux[i].pc = "lane" THEN "wedged" ELSE "stuck"]
  <2>1. /\ app' = app /\ at' = at /\ mem' = mem /\ T!Set(i, t) /\ aux[i].pc \in {"lane", "asked"}
    BY <1>2 DEF T!Stall
  <2>2. /\ t \in T!Threads /\ t.pc = (IF aux[i].pc = "lane" THEN "wedged" ELSE "stuck") /\ t.scope = aux[i].scope
        /\ t.by = aux[i].by /\ t.late = aux[i].late /\ t.timer = aux[i].timer /\ t.lane = aux[i].lane
    BY <1>0 DEF T!Threads
  <2>3. T!Timed(i, t) BY <1>0, <2>1, <2>2 DEF T!Timed
  <2> HIDE DEF t
  <2> QED BY <1>0, <2>1, <2>2, <2>3, OneThread
<1>3. CASE T!Launch(i)
  <2> DEFINE t == [aux[i] EXCEPT !.pc = "lane", !.timer = "armed", !.browser = "up"]
  <2>1. /\ app' = app /\ at' = at /\ mem' = mem /\ T!Set(i, t) /\ aux[i].pc = "asked"
    BY <1>3 DEF T!Launch
  <2>2. /\ t \in T!Threads /\ t.pc = "lane" /\ t.scope = aux[i].scope
        /\ t.by = aux[i].by /\ t.late = aux[i].late /\ t.timer = "armed" /\ t.lane = aux[i].lane
    BY <1>0 DEF T!Threads
  <2>3. aux[i].lane = 0 /\ 0 <= mem.age BY <1>0, <2>1 DEF T!Timed, T!Memories
  <2>4. T!Timed(i, t) BY <2>2, <2>3 DEF T!Timed
  <2> HIDE DEF t
  <2> QED BY <1>0, <2>1, <2>2, <2>4, OneThread
<1>4. CASE T!LaneEnds(i)
  <2> DEFINE t == [aux[i] EXCEPT !.pc = "looked", !.timer = T!Cancelled(aux[i].timer), !.browser = "none"]
  <2>1. /\ app' = app /\ at' = at /\ mem' = mem /\ T!Set(i, t) /\ aux[i].pc \in {"lane", "wedged"}
    BY <1>4 DEF T!LaneEnds
  <2>2. T!Cancelled(aux[i].timer) \in {"off", "firing"} /\ (T!Cancelled(aux[i].timer) = "firing" => aux[i].timer = "firing")
    BY <1>0 DEF T!Cancelled, T!Threads
  <2>3. /\ t \in T!Threads /\ t.pc = "looked" /\ t.scope = aux[i].scope
        /\ t.by = aux[i].by /\ t.late = aux[i].late /\ t.timer = T!Cancelled(aux[i].timer) /\ t.lane = aux[i].lane
    BY <1>0, <2>2 DEF T!Threads
  <2>4. T!Timed(i, t) BY <1>0, <2>2, <2>3 DEF T!Timed
  <2> HIDE DEF t
  <2> QED BY <1>0, <2>1, <2>3, <2>4, OneThread
<1>5. CASE T!Note(i) \/ T!Finish(i)
  <2> DEFINE t(pc) == [aux[i] EXCEPT !.pc = pc]
  <2>1. ASSUME NEW pc \in {"noted", "ended"}, aux[i].pc \notin {"none", "run"},
               aux[i].pc \in {"asked", "looked", "noted"}
        PROVE  /\ t(pc) \in T!Threads /\ t(pc).pc = pc /\ t(pc).scope = aux[i].scope /\ t(pc).by = aux[i].by
               /\ t(pc).late = aux[i].late /\ T!Timed(i, t(pc))
    <3>1. /\ t(pc) \in T!Threads /\ t(pc).pc = pc /\ t(pc).scope = aux[i].scope /\ t(pc).by = aux[i].by
          /\ t(pc).late = aux[i].late /\ t(pc).timer = aux[i].timer /\ t(pc).lane = aux[i].lane
      BY <1>0, <2>1 DEF T!Threads
    <3>2. aux[i].timer # "armed" BY <1>0, <2>1 DEF T!Timed
    <3> HIDE DEF t
    <3>3. T!Timed(i, t(pc)) BY <1>0, <2>1, <3>1, <3>2 DEF T!Timed
    <3> QED BY <3>1, <3>3
  <2>2. CASE T!Note(i)
    <3>1. /\ app' = app /\ at' = at /\ aux[i].pc \in {"asked", "looked"} /\ T!Set(i, t("noted"))
          /\ mem' = [mem EXCEPT !.evidence = mem.evidence \cup {i}]
      BY <2>2 DEF T!Note
    <3>2. /\ mem' \in T!Memories /\ mem'.i = mem.i /\ mem'.age = mem.age /\ mem'.hung = mem.hung
          /\ mem'.evidence = mem.evidence \cup {i} /\ mem'.jar = mem.jar /\ mem'.kept = mem.kept
      BY <1>0, <3>1 DEF T!Memories
    <3> HIDE DEF t
    <3> QED BY <1>0, <2>1, <3>1, <3>2, OneThread
  <2>3. CASE T!Finish(i)
    <3>1. /\ app' = app /\ at' = at /\ aux[i].pc = "noted" /\ T!Set(i, t("ended")) /\ at # "end"
          /\ mem' = IF i \in mem.hung THEN mem ELSE [mem EXCEPT !.kept[i] = mem.evidence \cup mem.jar]
      BY <2>3 DEF T!Finish, T!Alive
    <3>2. /\ mem' \in T!Memories /\ mem'.i = mem.i /\ mem'.age = mem.age /\ mem'.hung = mem.hung
          /\ mem'.evidence = mem.evidence /\ mem'.jar = mem.jar
          /\ mem'.kept = IF i \in mem.hung THEN mem.kept ELSE [mem.kept EXCEPT ![i] = mem.evidence \cup mem.jar]
      BY <1>0, <3>1 DEF T!Memories
    <3>3. \A k \in T!Probes : mem'.kept[k] \subseteq {k} \cup mem.hung
      BY <1>0, <3>1, <3>2 DEF T!Memories
    <3> HIDE DEF t
    <3> QED BY <1>0, <2>1, <3>1, <3>2, <3>3, OneThread
  <2> QED BY <1>5, <2>2, <2>3
<1>6. CASE T!Fire(i)
  <2> DEFINE t == [aux[i] EXCEPT !.timer = "firing", !.late = TRUE]
  <2>1. /\ app' = app /\ at' = at /\ mem' = mem /\ T!Set(i, t) /\ aux[i].timer = "armed" /\ aux[i].lane = LaneDeadline
    BY <1>6 DEF T!Fire, T!Due
  <2>2. /\ t \in T!Threads /\ t.pc = aux[i].pc /\ t.scope = aux[i].scope /\ t.by = aux[i].by /\ t.late = TRUE
        /\ t.timer = "firing" /\ t.lane = aux[i].lane
    BY <1>0 DEF T!Threads
  <2>3. aux[i].pc \in {"lane", "wedged"} BY <1>0, <2>1 DEF T!Timed
  <2>4. i \in mem.hung \/ T!Kind(i) = "inline"
    <3>1. mem.age \in 0 .. ProbeDeadline BY <1>0 DEF T!Memories
    <3>2. ~(LaneDeadline <= mem.age) BY <3>1, Bounds
    <3> QED BY <1>0, <2>1, <3>2 DEF T!Timed
  <2>5. T!Timed(i, t) BY <2>2, <2>3, <2>4 DEF T!Timed
  <2> HIDE DEF t
  <2> QED BY <1>0, <2>1, <2>2, <2>3, <2>5, OneThread
<1> QED BY <1>1, <1>2, <1>3, <1>4, <1>5, <1>6 DEF T!Advances

\* A watchdog kills every browser.  It fires only for a thread that was left behind or runs in
\* the loop, so every browser that dies by it died in time.
LEMMA KillStep == ASSUME T!ThreadsInv, NEW i \in T!Probes, T!Kill(i) PROVE T!ThreadsInv'
<1> USE DEF T!ThreadsInv
<1>0. /\ mem \in T!Memories /\ aux \in [T!Probes -> T!Threads] /\ T!Probes \subseteq Nat \ {0}
      /\ \A k \in T!Probes : aux[k] \in T!Threads /\ T!Timed(k, aux[k])
  BY ThreadFacts
<1>1. app' = app /\ at' = at /\ mem' = mem /\ aux[i].timer = "firing" BY DEF T!Kill
<1>2. T!Probes' = T!Probes /\ T!Memories' = T!Memories /\ T!Threads' = T!Threads /\ \A k : T!Kind(k)' = T!Kind(k)
  BY <1>1 DEF T!Probes, T!Memories, T!Threads, T!Kind
<1>3. aux[i].late /\ (i \in mem.hung \/ T!Kind(i) = "inline") BY <1>0, <1>1 DEF T!Timed
<1>4. ASSUME NEW k \in T!Probes
      PROVE  /\ aux'[k] \in T!Threads /\ aux'[k].pc = aux[k].pc /\ aux'[k].scope = aux[k].scope
             /\ aux'[k].lane = aux[k].lane /\ aux'[k].late = aux[k].late
             /\ aux'[k].timer \in {aux[k].timer, "off"}
             /\ aux'[k].by \in {aux[k].by, i}
  <2> DEFINE t == IF k = i THEN [aux[k] EXCEPT !.timer = "off"] ELSE aux[k]
  <2>1. aux'[k] = IF t.browser = "up" THEN [t EXCEPT !.browser = "killed", !.by = i] ELSE t BY DEF T!Kill
  <2>2. /\ t \in T!Threads /\ t.pc = aux[k].pc /\ t.scope = aux[k].scope /\ t.lane = aux[k].lane
        /\ t.late = aux[k].late /\ t.by = aux[k].by /\ t.timer \in {aux[k].timer, "off"}
    BY <1>0 DEF T!Threads
  <2> HIDE DEF t
  <2>3. i \in {0} \cup T!Probes OBVIOUS
  <2>4. CASE t.browser = "up"
    <3>1. aux'[k] = [t EXCEPT !.browser = "killed", !.by = i] BY <2>1, <2>4
    <3> QED BY <2>2, <2>3, <3>1 DEF T!Threads
  <2>5. CASE t.browser # "up" BY <2>1, <2>2, <2>5
  <2> QED BY <2>4, <2>5
<1>5. aux' \in [T!Probes -> T!Threads]
  <2>1. aux' = [j \in T!Probes |-> aux'[j]] BY DEF T!Kill
  <2> QED BY <1>4, <2>1
<1>6. T!Shaped' BY <1>1, <1>2, <1>5 DEF T!Shaped
<1>7. T!RunInv' BY <1>1, <1>2, <1>4 DEF T!RunInv, T!Awaited
<1>8. T!OwnInv' BY <1>1, <1>2 DEF T!OwnInv, T!OutcomeIsOwn
<1>9. \A k \in T!Probes : T!Timed(k, aux[k])'
  <2> SUFFICES ASSUME NEW k \in T!Probes PROVE T!Timed(k, aux[k])' OBVIOUS
  <2>1. T!Timed(k, aux[k]) BY <1>0
  <2> QED BY <1>1, <1>2, <1>4, <2>1 DEF T!Timed
<1>10. T!KilledInTime'
  <2> SUFFICES ASSUME NEW k \in T!Probes, aux'[k].by # 0 PROVE T!InTime(k, aux[k].by)'
    BY <1>2 DEF T!KilledInTime
  <2>1. CASE aux'[k].by = i BY <1>1, <1>2, <1>3, <1>4, <2>1 DEF T!InTime
  <2>2. CASE aux'[k].by # i
    <3>1. aux'[k].by = aux[k].by BY <1>4, <2>2
    <3>2. PICK j \in T!Probes : j = aux[k].by BY <1>0, <3>1 DEF T!Threads
    <3>3. T!InTime(k, j) BY <3>1, <3>2 DEF T!LaneInv, T!KilledInTime
    <3>4. aux'[j].late BY <1>4, <3>3 DEF T!InTime
    <3> QED BY <1>1, <1>2, <3>1, <3>2, <3>3, <3>4 DEF T!InTime
  <2> QED BY <2>1, <2>2
<1> QED BY <1>1, <1>2, <1>6, <1>7, <1>8, <1>9, <1>10 DEF T!LaneInv

\* Time passes: the lane of a thread the loop waits for grows no older than the probe.
LEMMA TickStep == ASSUME T!ThreadsInv, T!Tick PROVE T!ThreadsInv'
<1> USE DEF T!ThreadsInv
<1>0. /\ mem \in T!Memories /\ aux \in [T!Probes -> T!Threads]
      /\ \A k \in T!Probes : aux[k] \in T!Threads /\ T!Timed(k, aux[k])
      /\ mem.age \in 0 .. ProbeDeadline /\ ProbeDeadline \in Nat
  BY ThreadFacts, Bounds DEF T!Memories
<1>1. app' = app /\ at' = at BY DEF T!Tick
<1>2. T!Probes' = T!Probes /\ T!Memories' = T!Memories /\ T!Threads' = T!Threads /\ \A k : T!Kind(k)' = T!Kind(k)
  BY <1>1 DEF T!Probes, T!Memories, T!Threads, T!Kind
<1>3. mem' = [mem EXCEPT !.age = IF mem.age < ProbeDeadline THEN mem.age + 1 ELSE mem.age] BY DEF T!Tick
<1>4. /\ mem' \in T!Memories /\ mem'.i = mem.i /\ mem'.hung = mem.hung /\ mem'.evidence = mem.evidence
      /\ mem'.jar = mem.jar /\ mem'.kept = mem.kept
      /\ mem'.age = (IF mem.age < ProbeDeadline THEN mem.age + 1 ELSE mem.age)
  BY <1>0, <1>3 DEF T!Memories
<1>5. ASSUME NEW k \in T!Probes
      PROVE  /\ aux'[k] \in T!Threads /\ aux'[k].pc = aux[k].pc /\ aux'[k].scope = aux[k].scope
             /\ aux'[k].late = aux[k].late /\ aux'[k].timer = aux[k].timer /\ aux'[k].by = aux[k].by
             /\ aux'[k].lane = (IF aux[k].timer = "armed" THEN aux[k].lane + 1 ELSE aux[k].lane)
  <2>1. aux'[k] = IF aux[k].timer = "armed" THEN [aux[k] EXCEPT !.lane = aux[k].lane + 1] ELSE aux[k] BY DEF T!Tick
  <2>2. CASE aux[k].timer = "armed" BY <1>0, <2>1, <2>2 DEF T!Threads
  <2>3. CASE aux[k].timer # "armed" BY <1>0, <2>1, <2>3
  <2> QED BY <2>2, <2>3
<1>6. aux' \in [T!Probes -> T!Threads]
  <2>1. aux' = [j \in T!Probes |-> aux'[j]] BY DEF T!Tick
  <2> QED BY <1>5, <2>1
<1>7. T!Shaped' BY <1>2, <1>4, <1>6 DEF T!Shaped
<1>8. T!RunInv' BY <1>1, <1>2, <1>4, <1>5 DEF T!RunInv, T!Awaited
<1>9. T!OwnInv' BY <1>1, <1>2, <1>4 DEF T!OwnInv, T!OutcomeIsOwn
<1>10. ASSUME NEW k \in T!Probes PROVE T!Timed(k, aux[k])'
  <2>1. T!Timed(k, aux[k]) BY <1>0
  <2>2. /\ aux[k].pc \in {"none", "run", "asked"} => aux'[k].timer = "off" /\ aux'[k].lane = 0
        /\ aux[k].timer = "armed" => aux[k].pc \in {"lane", "wedged"}
        /\ aux[k].timer = "firing" => aux[k].late
        /\ k \notin mem.hung /\ T!Kind(k) # "inline" => aux[k].timer # "firing"
    BY <1>5, <2>1 DEF T!Timed
  <2>3. ASSUME k \notin mem.hung, T!Kind(k) # "inline", aux[k].timer = "armed"
        PROVE  aux'[k].lane <= mem'.age
    <3>1. at = "wait" /\ k = mem.i BY <2>2, <2>3, ThreadFacts
    <3>2. mem.age # ProbeDeadline BY <2>3, <3>1 DEF T!Tick, T!Overdue
    <3>3. aux[k].lane <= mem.age /\ aux[k].lane \in Nat BY <1>0, <2>1, <2>3 DEF T!Timed, T!Threads
    <3> QED BY <1>0, <1>4, <1>5, <2>3, <3>2, <3>3
  <2> QED BY <1>2, <1>4, <1>5, <2>2, <2>3 DEF T!Timed
<1>11. T!KilledInTime'
  <2> SUFFICES ASSUME NEW k \in T!Probes, aux'[k].by # 0 PROVE T!InTime(k, aux[k].by)'
    BY <1>2 DEF T!KilledInTime
  <2>1. aux'[k].by = aux[k].by BY <1>5
  <2>2. PICK j \in T!Probes : j = aux[k].by BY <1>0, <2>1 DEF T!Threads
  <2>3. T!InTime(k, j) BY <2>1, <2>2 DEF T!LaneInv, T!KilledInTime
  <2>4. aux'[j].late BY <1>5, <2>3 DEF T!InTime
  <2> QED BY <1>2, <1>4, <2>1, <2>2, <2>3, <2>4 DEF T!InTime
<1> QED BY <1>1, <1>2, <1>7, <1>8, <1>9, <1>10, <1>11 DEF T!LaneInv

\* The loop starts a probe, takes its outcome, gives it up, or ends.
LEMMA LoopSteps == ASSUME T!ThreadsInv, T!Loops PROVE T!ThreadsInv'
<1> USE DEF T!ThreadsInv
<1>0. /\ mem \in T!Memories /\ aux \in [T!Probes -> T!Threads] /\ T!Probes \subseteq Nat \ {0}
      /\ \A k \in T!Probes : aux[k] \in T!Threads /\ T!Timed(k, aux[k])
      /\ mem.i \in Nat \ {0}
      /\ T!RunInv /\ T!OwnInv /\ T!KilledInTime
  BY ThreadFacts DEF T!Memories, T!LaneInv
<1>1. app' = app BY DEF T!Loops, T!Begin, T!Collect, T!GiveUp, T!End
<1>2. T!Probes' = T!Probes /\ T!Memories' = T!Memories /\ T!Threads' = T!Threads /\ \A k : T!Kind(k)' = T!Kind(k)
  BY <1>1 DEF T!Probes, T!Memories, T!Threads, T!Kind
<1>3. CASE T!Begin
  <2> DEFINE t == [aux[mem.i] EXCEPT !.pc = "run", !.scope = app.scope]
  <2>1. /\ at = "next" /\ at' = "wait" /\ mem.i \in T!Probes /\ mem' = [mem EXCEPT !.age = 0, !.evidence = {}, !.jar = {}]
        /\ aux' = [aux EXCEPT ![mem.i] = t]
    BY <1>3 DEF T!Begin, T!Set, T!Inherited, T!Fresh
  <2>2. /\ mem' \in T!Memories /\ mem'.i = mem.i /\ mem'.hung = mem.hung /\ mem'.evidence = {}
        /\ mem'.jar = {} /\ mem'.kept = mem.kept /\ mem'.age = 0
    <3>1. 0 \in 0 .. ProbeDeadline /\ mem \in T!Memories BY <1>0, Bounds
    <3>2. mem' = [mem EXCEPT !.age = 0, !.evidence = {}, !.jar = {}] BY <2>1
    <3>3. {} \subseteq T!Probes OBVIOUS
    <3>4. mem' = [i |-> mem.i, age |-> 0, hung |-> mem.hung, evidence |-> {}, jar |-> {}, kept |-> mem.kept, dials |-> mem.dials]
      BY <3>1, <3>2 DEF T!Memories
    <3>5. mem.i \in Nat \ {0} /\ mem.hung \subseteq T!Probes /\ mem.kept \in [T!Probes -> SUBSET T!Probes] /\ mem.dials \subseteq {app.scope}
      BY <3>1 DEF T!Memories
    <3>6. mem' \in T!Memories BY <3>1, <3>3, <3>4, <3>5 DEF T!Memories
    <3> QED BY <3>4, <3>6
  <2>3. aux[mem.i].pc = "none" BY <1>0, <2>1 DEF T!RunInv, T!Awaited
  <2>4. /\ t \in T!Threads /\ t.pc = "run" /\ t.scope = app.scope /\ t.by = aux[mem.i].by /\ t.late = aux[mem.i].late
        /\ t.timer = aux[mem.i].timer /\ t.lane = aux[mem.i].lane
    <3>1. aux[mem.i] \in T!Threads BY <1>0, <2>1
    <3>2. app.scope \in {"none", app.scope} /\ "run" \in {"none", "run", "asked", "stuck", "lane", "wedged", "looked", "noted", "ended"}
      OBVIOUS
    <3> QED BY <3>1, <3>2 DEF T!Threads
  <2> HIDE DEF t
  <2>5. aux'[mem.i] = t /\ \A k \in T!Probes : k # mem.i => aux'[k] = aux[k] BY <1>0, <2>1
  <2>6. T!Shaped' BY <1>0, <1>2, <2>1, <2>2, <2>4 DEF T!Shaped
  <2>7. T!RunInv' BY <1>0, <1>1, <1>2, <2>1, <2>2, <2>4, <2>5 DEF T!RunInv, T!Awaited
  <2>8. T!OwnInv' BY <1>0, <1>2, <2>1, <2>2 DEF T!OwnInv, T!OutcomeIsOwn
  <2>9. ASSUME NEW k \in T!Probes PROVE T!Timed(k, aux[k])'
    <3>1. T!Timed(k, aux[k]) BY <1>0
    <3>2. CASE k = mem.i
      <4>1. t.timer = "off" /\ t.lane = 0 BY <2>3, <2>4, <3>1, <3>2 DEF T!Timed
      <4> QED BY <2>4, <2>5, <3>2, <4>1 DEF T!Timed
    <3>3. CASE k # mem.i
      <4>1. aux[k].timer = "armed" => k \in mem.hung BY <1>0, <2>1, <3>1 DEF T!Timed, T!RunInv, T!Awaited
      <4> QED BY <1>2, <2>2, <2>5, <3>1, <3>3, <4>1 DEF T!Timed
    <3> QED BY <3>2, <3>3
  <2>10. ASSUME NEW k \in T!Probes PROVE aux'[k].by = aux[k].by /\ aux'[k].late = aux[k].late
    BY <2>4, <2>5
  <2>11. T!KilledInTime'
    <3> SUFFICES ASSUME NEW k \in T!Probes, aux'[k].by # 0 PROVE T!InTime(k, aux[k].by)'
      BY <1>2 DEF T!KilledInTime
    <3>1. PICK j \in T!Probes : j = aux[k].by BY <1>0, <2>10 DEF T!Threads
    <3>2. T!InTime(k, j) BY <1>0, <2>10, <3>1 DEF T!KilledInTime
    <3> QED BY <1>2, <2>2, <2>10, <3>1, <3>2 DEF T!InTime
  <2> QED BY <1>1, <1>2, <2>6, <2>7, <2>8, <2>9, <2>11 DEF T!LaneInv
<1>4. CASE T!Collect \/ T!GiveUp \/ T!End
  <2>1. /\ aux' = aux /\ at' \in {"next", "end"}
        /\ mem' = mem \/ mem' = [mem EXCEPT !.i = mem.i + 1] \/ mem' = [mem EXCEPT !.i = mem.i + 1, !.hung = mem.hung \cup {mem.i}]
    BY <1>4 DEF T!Collect, T!GiveUp, T!End, T!Advance
  <2>2. /\ T!Collect => at = "wait" /\ aux[mem.i].pc = "ended" /\ mem' = [mem EXCEPT !.i = mem.i + 1]
        /\ T!GiveUp => at = "wait" /\ mem' = [mem EXCEPT !.i = mem.i + 1, !.hung = mem.hung \cup {mem.i}]
        /\ T!End => at = "next" /\ mem' = mem
    BY DEF T!Collect, T!GiveUp, T!End, T!Advance
  <2>3. at = "wait" => mem.i \in T!Probes BY <1>0 DEF T!OwnInv
  <2>4. /\ mem' \in T!Memories /\ mem'.evidence = mem.evidence /\ mem'.jar = mem.jar /\ mem'.kept = mem.kept
        /\ mem'.age = mem.age
        /\ mem.hung \subseteq mem'.hung /\ mem'.hung \subseteq mem.hung \cup {mem.i}
        /\ T!GiveUp => mem'.hung = mem.hung \cup {mem.i}
        /\ mem'.i \in {mem.i, mem.i + 1}
        /\ T!Collect \/ T!GiveUp => mem'.i = mem.i + 1
        /\ T!End => mem'.i = mem.i
    <3>1. CASE T!Collect
      <4>1. mem' = [mem EXCEPT !.i = mem.i + 1] /\ mem \in T!Memories /\ mem.i + 1 \in Nat \ {0}
        BY <1>0, <2>2, <3>1 DEF T!Memories
      <4>2. /\ mem' \in T!Memories /\ mem'.evidence = mem.evidence /\ mem'.jar = mem.jar /\ mem'.kept = mem.kept
            /\ mem'.age = mem.age /\ mem'.hung = mem.hung /\ mem'.i = mem.i + 1
        BY <4>1 DEF T!Memories
      <4>3. ~T!End BY <2>2, <3>1
      <4>4. ~T!GiveUp BY <2>2, <3>1 DEF T!GiveUp
      <4> QED BY <4>2, <4>3, <4>4
    <3>2. CASE T!GiveUp
      <4>1. /\ mem' = [mem EXCEPT !.i = mem.i + 1, !.hung = mem.hung \cup {mem.i}] /\ mem \in T!Memories
            /\ mem.i + 1 \in Nat \ {0} /\ mem.hung \cup {mem.i} \subseteq T!Probes
        BY <1>0, <2>2, <2>3, <3>2 DEF T!Memories
      <4>2. /\ mem' \in T!Memories /\ mem'.evidence = mem.evidence /\ mem'.jar = mem.jar /\ mem'.kept = mem.kept
            /\ mem'.age = mem.age /\ mem'.hung = mem.hung \cup {mem.i} /\ mem'.i = mem.i + 1
        BY <4>1 DEF T!Memories
      <4>3. ~T!End BY <2>2, <3>2
      <4> QED BY <4>2, <4>3
    <3>3. CASE T!End BY <1>0, <2>2, <3>3 DEF T!Memories, T!Collect, T!GiveUp, T!End
    <3> QED BY <1>4, <3>1, <3>2, <3>3
  <2>5. T!Shaped' BY <1>0, <1>2, <2>1, <2>4 DEF T!Shaped
  <2>6. ASSUME NEW k \in T!Probes, aux[k].pc \notin {"none", "ended"} PROVE k \in mem'.hung
    <3>1. (at = "wait" /\ k = mem.i) \/ k \in mem.hung BY <2>6, ThreadFacts
    <3> QED BY <1>4, <2>2, <2>4, <2>6, <3>1
  <2>7. ASSUME NEW k \in T!Probes, k >= mem'.i PROVE aux[k].pc = "none"
    <3>1. k >= mem.i /\ ~(at = "wait" /\ k = mem.i) BY <1>0, <1>4, <2>2, <2>4, <2>7
    <3> QED BY <1>0, <3>1 DEF T!RunInv, T!Awaited
  <2>8. T!RunInv' BY <1>0, <1>1, <1>2, <2>1, <2>6, <2>7 DEF T!RunInv, T!Awaited
  <2>9. T!OwnInv' BY <1>0, <1>2, <2>1, <2>4 DEF T!OwnInv, T!OutcomeIsOwn
  <2>10. \A k \in T!Probes : T!Timed(k, aux[k])' BY <1>0, <1>2, <2>1, <2>4 DEF T!Timed
  <2>11. T!KilledInTime' BY <1>0, <1>2, <2>1, <2>4 DEF T!KilledInTime, T!InTime
  <2> QED BY <1>1, <1>2, <2>5, <2>8, <2>9, <2>10, <2>11 DEF T!LaneInv
<1> QED BY <1>3, <1>4 DEF T!Loops

\* No step of a battery breaks what is proved of it.
LEMMA ThreadsStep == ASSUME T!ThreadsInv, T!Next PROVE T!ThreadsInv'
<1>1. ASSUME NEW i \in T!Probes, T!Advances(i) \/ T!Stall(i) PROVE T!ThreadsInv'
  BY <1>1, ThreadSteps, KillStep
<1> QED BY <1>1, LoopSteps, TickStep DEF T!Next

\* A battery starts with no thread.
LEMMA ThreadsInit == ASSUME T!Init, Len(app.kinds) \in Nat PROVE T!ThreadsInv
<1> DEFINE t == [pc |-> "none", scope |-> "none", lane |-> 0, timer |-> "off", browser |-> "none", by |-> 0, late |-> FALSE]
<1>1. /\ at = "next" /\ aux = [i \in T!Probes |-> t]
      /\ mem = [i |-> 1, age |-> 0, hung |-> {}, evidence |-> {}, jar |-> {}, kept |-> [i \in T!Probes |-> {}], dials |-> {}]
  BY DEF T!Init
<1>2. t \in T!Threads /\ t.pc = "none" /\ t.lane = 0 /\ t.timer = "off" /\ t.by = 0 BY DEF T!Threads
<1>3. mem \in T!Memories BY <1>1, Bounds DEF T!Memories
<1> HIDE DEF t
<1>4. T!Shaped BY <1>1, <1>2, <1>3 DEF T!Shaped
<1>5. T!RunInv BY <1>1, <1>2 DEF T!RunInv
<1>6. T!OwnInv BY <1>1 DEF T!OwnInv, T!OutcomeIsOwn
<1>7. T!LaneInv BY <1>1, <1>2 DEF T!LaneInv, T!Timed, T!KilledInTime
<1> QED BY <1>4, <1>5, <1>6, <1>7 DEF T!ThreadsInv

\* A thread keeps to its types: its lane is no older than the deadline, and a browser is up only in it.
LEMMA OneTyped ==
    ASSUME T!ThreadsInv, T!ThreadsInv', T!TypeOK, T!KeptInv, app' = app, at' = at, at # "end",
           mem'.i = mem.i, mem'.hung = mem.hung, mem.evidence \subseteq mem'.evidence, mem.jar \subseteq mem'.jar,
           NEW i \in T!Probes, NEW t, T!Set(i, t), aux[i].pc \notin {"none", "ended"},
           t.lane = aux[i].lane, t.browser = "up" => t.pc \in {"lane", "wedged"},
           \A k \in T!Probes : k # i => mem'.kept[k] = mem.kept[k],
           i \notin mem.hung => (t.pc = "noted" => i \in mem'.evidence \cup mem'.jar) /\ (t.pc = "ended" => i \in mem'.kept[i])
    PROVE  T!TypeOK' /\ T!KeptInv'
<1>0. T!Probes' = T!Probes BY DEF T!Probes
<1>1. aux'[i] = t /\ \A k \in T!Probes : k # i => aux'[k] = aux[k] BY ThreadFacts DEF T!Set
<1>2. mem'.age \in 0 .. ProbeDeadline BY DEF T!ThreadsInv, T!Shaped, T!Memories
<1>3. T!TypeOK' BY <1>0, <1>1, <1>2 DEF T!TypeOK
<1>4. T!KeptInv'
  <2> SUFFICES ASSUME NEW k \in T!Probes, k \notin mem.hung
               PROVE  /\ k < mem.i => aux'[k].pc = "ended"
                      /\ aux'[k].pc = "noted" => k \in mem'.evidence \cup mem'.jar
                      /\ aux'[k].pc = "ended" => k \in mem'.kept[k]
    BY <1>0 DEF T!KeptInv
  <2>1. CASE k = i BY <1>1, <2>1 DEF T!KeptInv
  <2>2. CASE k # i BY <1>1, <2>2 DEF T!KeptInv
  <2> QED BY <2>1, <2>2
<1> QED BY <1>3, <1>4

\* What one thread does keeps its types and what is kept of it.
LEMMA ThreadTypes ==
    ASSUME T!ThreadsInv, T!ThreadsInv', T!TypeOK, T!KeptInv, NEW i \in T!Probes, T!Advances(i) \/ T!Stall(i)
    PROVE  T!TypeOK' /\ T!KeptInv'
<1>0. /\ mem \in T!Memories /\ aux[i] \in T!Threads
      /\ aux[i].browser = "up" => aux[i].pc \in {"lane", "wedged"}
      /\ i \notin mem.hung => (aux[i].pc = "noted" => i \in mem.evidence \cup mem.jar)
  BY ThreadFacts DEF T!TypeOK, T!KeptInv
<1>1. CASE T!Request(i)
  <2>1. PICK jar, dials : mem' = [mem EXCEPT !.jar = jar, !.dials = dials] /\ jar = mem.jar \cup {i} BY <1>1 DEF T!Request
  <2>2. mem'.i = mem.i /\ mem'.hung = mem.hung /\ mem'.evidence = mem.evidence /\ mem'.jar = jar /\ mem'.kept = mem.kept
    BY <1>0, <2>1 DEF T!Memories
  <2>3. PICK t : t = [aux[i] EXCEPT !.pc = "asked"] OBVIOUS
  <2>4. t.pc = "asked" /\ t.lane = aux[i].lane /\ t.browser = aux[i].browser BY <1>0, <2>3 DEF T!Threads
  <2>5. app' = app /\ at' = at /\ at # "end" /\ aux[i].pc = "run" /\ T!Set(i, t) BY <1>1, <2>3 DEF T!Request, T!Alive
  <2> QED BY <1>0, <2>1, <2>2, <2>4, <2>5, OneTyped
<1>2. CASE T!Stall(i)
  <2>1. PICK pc : pc = IF aux[i].pc = "lane" THEN "wedged" ELSE "stuck" OBVIOUS
  <2>2. PICK t : t = [aux[i] EXCEPT !.pc = pc] OBVIOUS
  <2>3. t.pc = pc /\ t.lane = aux[i].lane /\ t.browser = aux[i].browser BY <1>0, <2>2 DEF T!Threads
  <2>4. app' = app /\ at' = at /\ at # "end" /\ mem' = mem /\ aux[i].pc \in {"lane", "asked"} /\ T!Set(i, t)
    BY <1>2, <2>1, <2>2 DEF T!Stall, T!Alive
  <2> QED BY <1>0, <2>1, <2>3, <2>4, OneTyped
<1>3. CASE T!Launch(i)
  <2>1. PICK t : t = [aux[i] EXCEPT !.pc = "lane", !.timer = "armed", !.browser = "up"] OBVIOUS
  <2>2. t.pc = "lane" /\ t.lane = aux[i].lane BY <1>0, <2>1 DEF T!Threads
  <2>3. app' = app /\ at' = at /\ at # "end" /\ mem' = mem /\ aux[i].pc = "asked" /\ T!Set(i, t)
    BY <1>3, <2>1 DEF T!Launch, T!Alive
  <2> QED BY <1>0, <2>2, <2>3, OneTyped
<1>4. CASE T!LaneEnds(i)
  <2>1. PICK timer : timer = T!Cancelled(aux[i].timer) OBVIOUS
  <2>2. PICK t : t = [aux[i] EXCEPT !.pc = "looked", !.timer = timer, !.browser = "none"] OBVIOUS
  <2>3. t.pc = "looked" /\ t.lane = aux[i].lane /\ t.browser = "none" BY <1>0, <2>2 DEF T!Threads
  <2>4. app' = app /\ at' = at /\ at # "end" /\ mem' = mem /\ aux[i].pc \in {"lane", "wedged"} /\ T!Set(i, t)
    BY <1>4, <2>1, <2>2 DEF T!LaneEnds, T!Alive
  <2> QED BY <1>0, <2>3, <2>4, OneTyped
<1>5. CASE T!Note(i)
  <2>1. PICK evidence : mem' = [mem EXCEPT !.evidence = evidence] /\ evidence = mem.evidence \cup {i} BY <1>5 DEF T!Note
  <2>2. mem'.i = mem.i /\ mem'.hung = mem.hung /\ mem'.evidence = evidence /\ mem'.jar = mem.jar /\ mem'.kept = mem.kept
    BY <1>0, <2>1 DEF T!Memories
  <2>3. PICK t : t = [aux[i] EXCEPT !.pc = "noted"] OBVIOUS
  <2>4. t.pc = "noted" /\ t.lane = aux[i].lane /\ t.browser = aux[i].browser BY <1>0, <2>3 DEF T!Threads
  <2>5. app' = app /\ at' = at /\ at # "end" /\ aux[i].pc \in {"asked", "looked"} /\ T!Set(i, t) BY <1>5, <2>3 DEF T!Note, T!Alive
  <2> QED BY <1>0, <2>1, <2>2, <2>4, <2>5, OneTyped
<1>6. CASE T!Finish(i)
  <2>1. PICK kept : kept = IF i \in mem.hung THEN mem.kept ELSE [mem.kept EXCEPT ![i] = mem.evidence \cup mem.jar] OBVIOUS
  <2>2. /\ mem'.i = mem.i /\ mem'.hung = mem.hung /\ mem'.evidence = mem.evidence /\ mem'.jar = mem.jar
        /\ \A k \in T!Probes : k # i => mem'.kept[k] = mem.kept[k]
        /\ i \notin mem.hung => mem'.kept[i] = mem.evidence \cup mem.jar
    <3>1. CASE i \in mem.hung
      <4>1. mem' = mem BY <1>6, <3>1 DEF T!Finish
      <4> QED BY <3>1, <4>1
    <3>2. CASE i \notin mem.hung
      <4>1. mem' = [mem EXCEPT !.kept = kept] BY <1>0, <1>6, <2>1, <3>2 DEF T!Finish, T!Memories
      <4>2. mem'.kept = kept /\ mem.kept \in [T!Probes -> SUBSET T!Probes] BY <1>0, <4>1 DEF T!Memories
      <4>3. mem'.i = mem.i /\ mem'.hung = mem.hung /\ mem'.evidence = mem.evidence /\ mem'.jar = mem.jar
        BY <1>0, <4>1 DEF T!Memories
      <4> QED BY <2>1, <3>2, <4>2, <4>3
    <3> QED BY <3>1, <3>2
  <2>3. PICK t : t = [aux[i] EXCEPT !.pc = "ended"] OBVIOUS
  <2>4. t.pc = "ended" /\ t.lane = aux[i].lane /\ t.browser = aux[i].browser BY <1>0, <2>3 DEF T!Threads
  <2>5. app' = app /\ at' = at /\ at # "end" /\ aux[i].pc = "noted" /\ T!Set(i, t) BY <1>6, <2>3 DEF T!Finish, T!Alive
  <2> QED BY <1>0, <2>2, <2>4, <2>5, OneTyped
<1>7. CASE T!Fire(i)
  <2>1. PICK t : t = [aux[i] EXCEPT !.timer = "firing", !.late = TRUE] OBVIOUS
  <2>2. t.pc = aux[i].pc /\ t.lane = aux[i].lane /\ t.browser = aux[i].browser BY <1>0, <2>1 DEF T!Threads
  <2>3. app' = app /\ at' = at /\ at # "end" /\ mem' = mem /\ aux[i].timer = "armed" /\ T!Set(i, t)
    BY <1>7, <2>1 DEF T!Fire, T!Due
  <2>4. aux[i].pc \in {"lane", "wedged"} BY <2>3, ThreadFacts DEF T!Timed
  <2> QED BY <1>0, <2>2, <2>3, <2>4, OneTyped
<1>8. CASE T!Kill(i)
  <2>1. app' = app /\ at' = at /\ at # "end" /\ mem' = mem /\ T!Probes' = T!Probes BY <1>8 DEF T!Kill, T!Probes
  <2>2. ASSUME NEW k \in T!Probes
        PROVE  aux'[k].pc = aux[k].pc /\ aux'[k].lane = aux[k].lane /\ aux'[k].browser # "up"
    <3>1. PICK t : t = IF k = i THEN [aux[k] EXCEPT !.timer = "off"] ELSE aux[k] OBVIOUS
    <3>2. aux'[k] = IF t.browser = "up" THEN [t EXCEPT !.browser = "killed", !.by = i] ELSE t BY <1>8, <3>1 DEF T!Kill
    <3>3. t \in T!Threads /\ t.pc = aux[k].pc /\ t.lane = aux[k].lane BY <3>1, ThreadFacts DEF T!Threads
    <3> QED BY <3>2, <3>3 DEF T!Threads
  <2>3. mem.age \in 0 .. ProbeDeadline BY <1>0 DEF T!Memories
  <2>4. T!TypeOK' BY <2>1, <2>2, <2>3 DEF T!TypeOK
  <2>5. T!KeptInv' BY <2>1, <2>2 DEF T!KeptInv
  <2> QED BY <2>4, <2>5
<1> QED BY <1>1, <1>2, <1>3, <1>4, <1>5, <1>6, <1>7, <1>8 DEF T!Advances

\* So does time, which waits for a timer that is due.
LEMMA TickTypes == ASSUME T!ThreadsInv, T!ThreadsInv', T!TypeOK, T!KeptInv, T!Tick PROVE T!TypeOK' /\ T!KeptInv'
<1>1. app' = app /\ at' = at /\ at # "end" /\ T!Probes' = T!Probes BY DEF T!Tick, T!Probes
<1>2. PICK age : mem' = [mem EXCEPT !.age = age] BY DEF T!Tick
<1>3. mem'.i = mem.i /\ mem'.hung = mem.hung /\ mem'.evidence = mem.evidence /\ mem'.jar = mem.jar /\ mem'.kept = mem.kept
  BY <1>2, ThreadFacts DEF T!Memories
<1>4. mem'.age \in 0 .. ProbeDeadline BY DEF T!ThreadsInv, T!Shaped, T!Memories
<1>5. ASSUME NEW k \in T!Probes
      PROVE  aux'[k].pc = aux[k].pc /\ aux'[k].browser = aux[k].browser /\ aux'[k].lane \in 0 .. LaneDeadline
  <2>1. aux[k] \in T!Threads /\ aux[k].lane \in 0 .. LaneDeadline BY ThreadFacts DEF T!TypeOK
  <2>2. CASE aux[k].timer = "armed"
    <3>1. aux'[k] = [aux[k] EXCEPT !.lane = aux[k].lane + 1] BY <2>2 DEF T!Tick
    <3>2. aux'[k].pc = aux[k].pc /\ aux'[k].browser = aux[k].browser /\ aux'[k].lane = aux[k].lane + 1
      BY <2>1, <3>1 DEF T!Threads
    <3>3. aux[k].lane # LaneDeadline BY <2>2 DEF T!Tick, T!Due
    <3>4. LaneDeadline \in Nat BY Bounds
    <3> QED BY <2>1, <3>2, <3>3, <3>4
  <2>3. CASE aux[k].timer # "armed"
    <3>1. aux'[k] = aux[k] BY <2>3 DEF T!Tick
    <3> QED BY <2>1, <3>1
  <2> QED BY <2>2, <2>3
<1>6. T!TypeOK' BY <1>1, <1>3, <1>4, <1>5 DEF T!TypeOK
<1>7. T!KeptInv' BY <1>1, <1>3, <1>5 DEF T!KeptInv
<1> QED BY <1>6, <1>7

\* And the loop, which goes on from a probe when it has ended or is left behind.
LEMMA LoopTypes == ASSUME T!ThreadsInv, T!ThreadsInv', T!TypeOK, T!KeptInv, T!Loops PROVE T!TypeOK' /\ T!KeptInv'
<1>0. /\ mem \in T!Memories /\ Len(app.kinds) \in Nat /\ T!Probes = 1 .. Len(app.kinds)
      /\ mem.i \in 1 .. Len(app.kinds) + 1 /\ mem.hung \subseteq 1 .. mem.i - 1
  BY ThreadFacts DEF T!TypeOK, T!ThreadsInv, T!Probes
<1>1. app' = app /\ T!Probes' = T!Probes BY DEF T!Loops, T!Begin, T!Collect, T!GiveUp, T!End, T!Probes
<1>2. mem'.age \in 0 .. ProbeDeadline BY DEF T!ThreadsInv, T!Shaped, T!Memories
<1>3. CASE T!Begin
  <2>1. mem' = [mem EXCEPT !.age = 0, !.evidence = T!Fresh, !.jar = {}] /\ at = "next" /\ at' = "wait" /\ mem.i \in T!Probes
    BY <1>3 DEF T!Begin
  <2>2. mem'.i = mem.i /\ mem'.hung = mem.hung /\ mem'.kept = mem.kept BY <1>0, <2>1 DEF T!Memories
  <2>3. PICK t : t = [aux[mem.i] EXCEPT !.pc = "run", !.scope = T!Inherited(app.scope)] OBVIOUS
  <2>4. T!Set(mem.i, t) BY <1>3, <2>3 DEF T!Begin
  <2>5. t.pc = "run" /\ t.lane = aux[mem.i].lane /\ t.browser = aux[mem.i].browser BY <2>1, <2>3, ThreadFacts DEF T!Threads
  <2>6. aux'[mem.i] = t /\ \A k \in T!Probes : k # mem.i => aux'[k] = aux[k] BY <2>1, <2>4, ThreadFacts DEF T!Set
  <2>7. aux[mem.i].pc = "none" BY <1>0, <2>1 DEF T!ThreadsInv, T!RunInv, T!Awaited
  <2>8. aux[mem.i].browser # "up" BY <2>1, <2>7 DEF T!TypeOK
  <2>9. T!TypeOK' BY <1>0, <1>1, <1>2, <2>1, <2>2, <2>5, <2>6, <2>8 DEF T!TypeOK
  <2>10. \A k \in T!Probes \ mem.hung : aux[k].pc # "noted" BY <2>1, ThreadFacts
  <2>11. ~(mem.i < mem.i) BY <1>0
  <2>12. T!KeptInv' BY <1>1, <2>1, <2>2, <2>5, <2>6, <2>10, <2>11 DEF T!KeptInv
  <2> QED BY <2>9, <2>12
<1>4. CASE T!Collect
  <2>1. at = "wait" /\ at' = "next" /\ aux' = aux /\ aux[mem.i].pc = "ended" /\ mem' = [mem EXCEPT !.i = mem.i + 1]
    BY <1>4 DEF T!Collect, T!Advance
  <2>2. /\ mem'.i = mem.i + 1 /\ mem'.hung = mem.hung /\ mem'.kept = mem.kept /\ mem'.evidence = mem.evidence /\ mem'.jar = mem.jar
    BY <1>0, <2>1 DEF T!Memories
  <2>3. mem.i \in T!Probes BY <2>1, ThreadFacts
  <2>4. mem'.i \in 1 .. Len(app.kinds) + 1 /\ mem'.hung \subseteq 1 .. mem'.i - 1 BY <1>0, <2>2, <2>3
  <2>5. T!TypeOK' BY <1>1, <1>2, <2>1, <2>4 DEF T!TypeOK
  <2>6. \A k \in T!Probes : k < mem'.i => k < mem.i \/ k = mem.i BY <1>0, <2>2
  <2>7. T!KeptInv' BY <1>1, <2>1, <2>2, <2>6 DEF T!KeptInv
  <2> QED BY <2>5, <2>7
<1>5. CASE T!GiveUp
  <2>1. PICK hung : hung = mem.hung \cup {mem.i} OBVIOUS
  <2>2. at = "wait" /\ at' = "next" /\ aux' = aux /\ mem' = [mem EXCEPT !.i = mem.i + 1, !.hung = hung]
    BY <1>5, <2>1 DEF T!GiveUp, T!Advance
  <2>3. /\ mem'.i = mem.i + 1 /\ mem'.hung = hung /\ mem'.kept = mem.kept /\ mem'.evidence = mem.evidence /\ mem'.jar = mem.jar
    BY <1>0, <2>2 DEF T!Memories
  <2>4. mem.i \in T!Probes BY <2>2, ThreadFacts
  <2>5. mem'.i \in 1 .. Len(app.kinds) + 1 /\ mem'.hung \subseteq 1 .. mem'.i - 1 BY <1>0, <2>1, <2>3, <2>4
  <2>6. T!TypeOK' BY <1>1, <1>2, <2>2, <2>5 DEF T!TypeOK
  <2>7. \A k \in T!Probes : k < mem'.i => k < mem.i \/ k \in hung BY <1>0, <2>1, <2>3
  <2>8. T!KeptInv' BY <1>1, <2>1, <2>2, <2>3, <2>7 DEF T!KeptInv
  <2> QED BY <2>6, <2>8
<1>6. CASE T!End
  <2>1. at' = "end" /\ aux' = aux /\ mem' = mem /\ mem.i \notin T!Probes BY <1>6 DEF T!End
  <2>2. \A k \in T!Probes : k < mem.i BY <1>0, <2>1
  <2>3. T!KeptInv' BY <1>1, <2>1 DEF T!KeptInv
  <2>4. T!TypeOK' BY <1>1, <1>2, <2>1, <2>2 DEF T!TypeOK, T!KeptInv
  <2> QED BY <2>3, <2>4
<1> QED BY <1>3, <1>4, <1>5, <1>6 DEF T!Loops

\* So no step of a battery breaks its types.
LEMMA BatteryTypes == ASSUME T!ThreadsInv, T!ThreadsInv', T!TypeOK, T!KeptInv, T!Next PROVE T!TypeOK' /\ T!KeptInv'
  BY ThreadTypes, TickTypes, LoopTypes DEF T!Next

\* A battery starts with its first probe.
LEMMA BatteryTyped == ASSUME T!Init, Len(app.kinds) \in Nat PROVE T!TypeOK /\ T!KeptInv
<1> DEFINE t == [pc |-> "none", scope |-> "none", lane |-> 0, timer |-> "off", browser |-> "none", by |-> 0, late |-> FALSE]
<1>1. /\ at = "next" /\ aux = [i \in T!Probes |-> t] /\ mem.i = 1 /\ mem.age = 0 /\ mem.hung = {}
      /\ 0 \in 0 .. ProbeDeadline /\ 0 \in 0 .. LaneDeadline
  BY Bounds DEF T!Init
<1>2. t.pc = "none" /\ t.lane = 0 /\ t.browser = "none" OBVIOUS
<1> HIDE DEF t
<1>3. \A k \in T!Probes : aux[k] = t /\ ~(k < 1) BY <1>1 DEF T!Probes
<1>4. 1 \in 1 .. Len(app.kinds) + 1 OBVIOUS
<1> QED BY <1>1, <1>2, <1>3, <1>4 DEF T!TypeOK, T!KeptInv

\* What the run checks of a battery follows.
LEMMA ThreadsKeep == ASSUME T!ThreadsInv PROVE T!OutcomeIsOwn /\ T!KilledInTime /\ T!ScopeIsKept
  BY DEF T!ThreadsInv, T!OwnInv, T!LaneInv, T!Shaped, T!Memories, T!ScopeIsKept

-----------------------------------------------------------------------------
(* The signup in the browser (Signup). *)

\* A step of the walk that types nothing.
LEMMA WalkOn ==
    ASSUME S!FormInv, app' = app,
           {"page", "walk", "fishes", "stage", "answer"} \subseteq DOMAIN mem',
           {"typed", "asked", "account", "mails", "late", "dead"} \subseteq DOMAIN aux',
           mem'.fishes \in BOOLEAN, mem'.fishes => S!HasAuth(app.home),
           aux'.typed = aux.typed, aux'.account = aux.account,
           (aux.typed = {} /\ aux.account = FALSE) \/ at' \in {"settle", "mail", "end"}
    PROVE  S!FormInv'
<1>1. S!HasAuth(app.home)' = S!HasAuth(app.home) BY DEF S!HasAuth, S!HasPassword, S!Registers
<1>2. \A t : S!Fitting(t)' = S!Fitting(t) BY <1>1 DEF S!Fitting
<1> QED BY <1>1, <1>2 DEF S!FormInv

\* A step that types the password: the walk ends there.
LEMMA Typed ==
    ASSUME S!FormInv, app' = app, at' = "settle",
           {"page", "walk", "fishes", "stage", "answer"} \subseteq DOMAIN mem', mem'.fishes = mem.fishes,
           {"typed", "asked", "account", "mails", "late", "dead"} \subseteq DOMAIN aux',
           NEW t, aux'.typed = {t}, S!Fitting(t)
    PROVE  S!FormInv'
<1>1. S!HasAuth(app.home)' = S!HasAuth(app.home) BY DEF S!HasAuth, S!HasPassword, S!Registers
<1>2. S!Fitting(t)' = S!Fitting(t) BY <1>1 DEF S!Fitting
<1> QED BY <1>1, <1>2 DEF S!FormInv

\* The password is typed into the form of a page.
LEMMA SubmittedFits ==
    ASSUME S!FormInv, app' = app, aux.typed = {}, NEW where, NEW page, S!Submitted(where, page),
           page.own = TRUE \/ where \in {"button", "route"},
           where = "home" => page.form = "signup" \/ page.cta,
           where = "route" => S!HasAuth(app.home)
    PROVE  S!FormInv'
<1> DEFINE t == [where |-> where, form |-> page.form, own |-> page.own, sent |-> ~page.cta]
<1>1. S!Fitting(t) BY DEF S!Fitting
<1>2. /\ at' = "settle" /\ mem' = [mem EXCEPT !.page = IF page.cta THEN app.button ELSE page]
  BY DEF S!Submitted, S!Go
<1>3. {"page", "walk", "fishes", "stage", "answer"} \subseteq DOMAIN mem' /\ mem'.fishes = mem.fishes
  BY <1>2 DEF S!FormInv
<1>4. {"typed", "asked", "account", "mails", "late", "dead"} \subseteq DOMAIN aux' /\ aux'.typed = aux.typed \cup {t}
  BY DEF S!Submitted, S!FormInv
<1>5. aux'.typed = {t} BY <1>4
<1> HIDE DEF t
<1> QED BY <1>1, <1>2, <1>3, <1>4, <1>5, Typed

\* Nothing is typed before the walk has ended.
LEMMA NothingTyped ==
    ASSUME S!FormInv, at \notin {"settle", "mail", "end"}
    PROVE  /\ aux.typed = {} /\ aux.account = FALSE /\ mem.fishes \in BOOLEAN /\ (mem.fishes => S!HasAuth(app.home))
           /\ {"page", "walk", "fishes", "stage", "answer"} \subseteq DOMAIN mem
           /\ {"typed", "asked", "account", "mails", "late", "dead"} \subseteq DOMAIN aux
  BY DEF S!FormInv

\* One page of a walk.
LEMMA VisitStep ==
    ASSUME S!FormInv, app' = app, aux.typed = {}, aux.account = FALSE,
           NEW where \in {"link", "button", "route"}, NEW page, NEW pc, NEW m, S!Visit(where, page, pc, m),
           {"page", "walk", "fishes", "stage", "answer"} \subseteq DOMAIN m, m.fishes = mem.fishes,
           where = "link" => page.own = TRUE,
           where = "route" => S!HasAuth(app.home)
    PROVE  S!FormInv'
<1>1. CASE S!Submitted(where, page) BY <1>1, SubmittedFits
<1>2. CASE aux' = aux /\ \E shown : mem' = [m EXCEPT !.page = shown]
  <2>1. PICK shown : mem' = [m EXCEPT !.page = shown] BY <1>2
  <2>2. {"page", "walk", "fishes", "stage", "answer"} \subseteq DOMAIN mem' /\ mem'.fishes = mem.fishes BY <2>1
  <2> QED BY <1>2, <2>2, WalkOn DEF S!FormInv
<1> QED BY <1>1, <1>2 DEF S!Visit, S!Missed, S!Go

\* The homepage: its form, or the way on from it.
LEMMA HomeStep == ASSUME S!FormInv, app.home.own = TRUE, S!Home PROVE S!FormInv'
<1>0. /\ app' = app /\ aux.typed = {} /\ aux.account = FALSE
      /\ {"page", "walk", "fishes", "stage", "answer"} \subseteq DOMAIN mem
      /\ {"typed", "asked", "account", "mails", "late", "dead"} \subseteq DOMAIN aux
      /\ mem.fishes \in BOOLEAN /\ (mem.fishes => S!HasAuth(app.home))
  BY NothingTyped DEF S!Home
<1>1. CASE S!LooksLikeSignup(app.home) /\ S!Submitted("home", app.home)
  BY <1>0, <1>1, SubmittedFits DEF S!LooksLikeSignup
<1>2. CASE aux' = aux /\ mem' = [mem EXCEPT !.page = app.home, !.fishes = S!HasAuth(app.home), !.walk = S!Links(app.home)]
  <2>1. S!HasAuth(app.home) \in BOOLEAN BY DEF S!HasAuth
  <2>2. {"page", "walk", "fishes", "stage", "answer"} \subseteq DOMAIN mem' /\ mem'.fishes = S!HasAuth(app.home) BY <1>0, <1>2
  <2> QED BY <1>0, <1>2, <2>1, <2>2, WalkOn
<1>3. CASE aux' = aux /\ \E shown : mem' = [mem EXCEPT !.page = shown, !.walk = S!Links(shown)]
  <2>1. PICK shown : mem' = [mem EXCEPT !.page = shown, !.walk = S!Links(shown)] BY <1>3
  <2>2. {"page", "walk", "fishes", "stage", "answer"} \subseteq DOMAIN mem' /\ mem'.fishes = mem.fishes BY <1>0, <2>1
  <2> QED BY <1>0, <1>3, <2>2, WalkOn
<1> QED BY <1>1, <1>2, <1>3 DEF S!Home, S!Go

\* The next lane, or the end of the wizard, is taken with nothing typed.
LEMMA OnToTheNext ==
    ASSUME S!FormInv, app' = app, aux' \in {aux, [aux EXCEPT !.asked = TRUE, !.mails = aux.mails \cup ({app.emails} \ {"nothing"})]},
           aux.typed = {}, aux.account = FALSE,
           \/ mem' = mem
           \/ \E walk : mem' = [mem EXCEPT !.walk = walk]
           \/ \E page : mem' = [mem EXCEPT !.page = page]
           \/ \E walk, page : mem' = [mem EXCEPT !.walk = walk, !.page = page]
           \/ \E stage : mem' = [mem EXCEPT !.stage = stage]
    PROVE  S!FormInv'
<1>1. {"page", "walk", "fishes", "stage", "answer"} \subseteq DOMAIN mem' /\ mem'.fishes = mem.fishes
  BY DEF S!FormInv
<1>2. {"typed", "asked", "account", "mails", "late", "dead"} \subseteq DOMAIN aux' /\ aux'.typed = aux.typed /\ aux'.account = aux.account
  BY DEF S!FormInv
<1>3. mem'.fishes \in BOOLEAN /\ (mem'.fishes => S!HasAuth(app.home)) BY <1>1 DEF S!FormInv
<1> QED BY <1>1, <1>2, <1>3, WalkOn

\* The pages behind the links, the button and the routes.
LEMMA WalkSteps == ASSUME S!FormInv, S!FollowLinks \/ S!ClickTrigger \/ S!FishRoutes PROVE S!FormInv'
<1>0. /\ app' = app /\ aux.typed = {} /\ aux.account = FALSE
      /\ {"page", "walk", "fishes", "stage", "answer"} \subseteq DOMAIN mem
      /\ mem.fishes \in BOOLEAN /\ (mem.fishes => S!HasAuth(app.home))
  BY NothingTyped DEF S!FollowLinks, S!ClickTrigger, S!FishRoutes
<1>1. CASE S!NextLane
  <2>1. aux' = aux /\ \E walk : mem' = [mem EXCEPT !.walk = walk] BY <1>1 DEF S!NextLane, S!Go
  <2> QED BY <1>0, <2>1, OnToTheNext
<1>2. CASE S!FollowLinks /\ ~S!NextLane
  <2>1. CASE aux' = aux /\ mem' = mem BY <1>0, <2>1, OnToTheNext
  <2>2. ASSUME NEW n, S!Own(n), S!Visit("link", mem.walk[n], "links", S!From(n + 1)) PROVE S!FormInv'
    <3>1. {"page", "walk", "fishes", "stage", "answer"} \subseteq DOMAIN S!From(n + 1) /\ S!From(n + 1).fishes = mem.fishes
      BY <1>0 DEF S!From
    <3>2. mem.walk[n].own = TRUE BY <2>2 DEF S!Own
    <3> QED BY <1>0, <2>2, <3>1, <3>2, VisitStep
  <2> QED BY <1>2, <2>1, <2>2 DEF S!FollowLinks, S!Go
<1>3. CASE S!ClickTrigger
  <2> DEFINE fish == [mem EXCEPT !.walk = app.routes]
  <2>1. {"page", "walk", "fishes", "stage", "answer"} \subseteq DOMAIN fish /\ fish.fishes = mem.fishes BY <1>0
  <2>2. (aux' = aux /\ mem' = fish) \/ S!Visit("button", app.button, "routes", fish) BY <1>3 DEF S!ClickTrigger, S!Go
  <2>3. CASE aux' = aux /\ mem' = fish BY <1>0, <2>3, OnToTheNext
  <2> HIDE DEF fish
  <2>4. CASE S!Visit("button", app.button, "routes", fish) BY <1>0, <2>1, <2>4, VisitStep
  <2> QED BY <2>2, <2>3, <2>4
<1>4. CASE S!FishRoutes /\ ~S!NextLane
  <2>1. mem.fishes /\ S!Visit("route", Head(mem.walk), "routes", S!Further) BY <1>4 DEF S!FishRoutes
  <2>2. {"page", "walk", "fishes", "stage", "answer"} \subseteq DOMAIN S!Further /\ S!Further.fishes = mem.fishes
    BY <1>0 DEF S!Further
  <2> QED BY <1>0, <2>1, <2>2, VisitStep
<1> QED BY <1>1, <1>2, <1>3, <1>4

\* Where only an address is asked for: its page, its code, its link.
LEMMA MailSteps ==
    ASSUME S!FormInv, S!ReachEmailStep \/ S!SendAddress \/ S!FetchCode \/ S!SubmitCode \/ S!AskForLink
    PROVE  S!FormInv'
<1>0. /\ app' = app /\ aux.typed = {} /\ aux.account = FALSE
      /\ {"page", "walk", "fishes", "stage", "answer"} \subseteq DOMAIN mem
      /\ {"typed", "asked", "account", "mails", "late", "dead"} \subseteq DOMAIN aux
  BY NothingTyped DEF S!ReachEmailStep, S!SendAddress, S!FetchCode, S!SubmitCode, S!AskForLink
<1>1. ASSUME aux' \in {aux, S!Asked},
             \/ mem' = mem
             \/ \E walk : mem' = [mem EXCEPT !.walk = walk]
             \/ \E page : mem' = [mem EXCEPT !.page = page]
             \/ \E walk, page : mem' = [mem EXCEPT !.walk = walk, !.page = page]
             \/ \E stage : mem' = [mem EXCEPT !.stage = stage]
      PROVE  S!FormInv'
  BY <1>0, <1>1, OnToTheNext DEF S!Asked
<1>2. S!DeadEnd => \E walk : mem' = [mem EXCEPT !.walk = walk] BY DEF S!DeadEnd, S!Go
<1>3. CASE S!ReachEmailStep
  <2>1. aux' = aux BY <1>3 DEF S!ReachEmailStep
  <2>2. S!DeadEnd \/ \E page : mem' = [S!Further EXCEPT !.page = page] BY <1>3 DEF S!ReachEmailStep, S!Go
  <2>3. CASE S!DeadEnd BY <1>1, <1>2, <2>1, <2>3
  <2>4. CASE \E page : mem' = [S!Further EXCEPT !.page = page] BY <1>1, <2>1, <2>4 DEF S!Further
  <2> QED BY <2>2, <2>3, <2>4
<1>4. CASE S!SendAddress BY <1>1, <1>2, <1>4 DEF S!SendAddress, S!Go
<1>5. CASE S!FetchCode BY <1>1, <1>2, <1>5 DEF S!FetchCode, S!Go
<1>6. CASE S!SubmitCode
  <2> DEFINE t == [where |-> "wizard", form |-> "signup", own |-> TRUE, sent |-> TRUE]
  <2>1. CASE aux' = aux /\ (S!DeadEnd \/ S!Go("settle", mem)) BY <1>1, <1>2, <2>1 DEF S!Go
  <2>2. CASE /\ S!Go("settle", mem)
             /\ aux' = [aux EXCEPT !.account = TRUE, !.typed = IF app.second THEN aux.typed \cup {t} ELSE aux.typed]
    <3>1. at' = "settle" /\ mem' = mem BY <2>2 DEF S!Go
    <3>2. S!Fitting(t) BY DEF S!Fitting
    <3> HIDE DEF t
    <3>3. /\ {"typed", "asked", "account", "mails", "late", "dead"} \subseteq DOMAIN aux'
          /\ aux'.typed = IF app.second THEN {t} ELSE {}
      BY <1>0, <2>2
    <3>4. CASE app.second BY <1>0, <3>1, <3>2, <3>3, <3>4, Typed
    <3>5. CASE ~app.second
      <4>1. S!HasAuth(app.home)' = S!HasAuth(app.home) BY <1>0 DEF S!HasAuth, S!HasPassword, S!Registers
      <4> QED BY <1>0, <3>1, <3>3, <3>5, <4>1 DEF S!FormInv
    <3> QED BY <3>4, <3>5
  <2> QED BY <1>6, <2>1, <2>2 DEF S!SubmitCode
<1>7. CASE S!AskForLink
  <2> DEFINE page == Head(mem.walk)
  <2>1. CASE aux' = aux /\ mem' = [mem EXCEPT !.stage = "unreached"] BY <1>1, <2>1
  <2>2. CASE aux' = S!Asked /\ mem' = [mem EXCEPT !.page = page] BY <1>1, <2>2
  <2>3. CASE aux' = aux /\ \E walk : mem' = [mem EXCEPT !.page = page, !.walk = walk]
    <3>1. PICK walk : mem' = [mem EXCEPT !.page = page, !.walk = walk] BY <2>3
    <3>2. mem' = [mem EXCEPT !.walk = walk, !.page = page] BY <3>1, <1>0
    <3> QED BY <1>1, <2>3, <3>2
  <2>4. CASE S!Missed("magic", page, S!Further)
    <3>1. aux' = aux /\ \E shown : mem' = [S!Further EXCEPT !.page = shown] BY <2>4 DEF S!Missed, S!Go
    <3> QED BY <1>1, <3>1 DEF S!Further
  <2> QED BY <1>7, <2>1, <2>2, <2>3, <2>4 DEF S!AskForLink, S!Go
<1> QED BY <1>3, <1>4, <1>5, <1>6, <1>7

\* After the form, and what time does to the lane.
LEMMA LastSteps ==
    ASSUME S!FormInv, S!Settle \/ S!Verify \/ S!Expire \/ S!Watchdog
    PROVE  S!FormInv'
<1>0. /\ {"page", "walk", "fishes", "stage", "answer"} \subseteq DOMAIN mem
      /\ {"typed", "asked", "account", "mails", "late", "dead"} \subseteq DOMAIN aux
      /\ mem.fishes \in BOOLEAN /\ (mem.fishes => S!HasAuth(app.home))
      /\ (aux.typed = {} /\ aux.account = FALSE) \/ at \in {"settle", "mail", "end"}
  BY DEF S!FormInv
<1>1. CASE S!Settle \/ S!Verify
  <2>1. app' = app /\ aux' = aux /\ at' \in {"mail", "end"}
    BY <1>1 DEF S!Settle, S!Verify, S!Go
  <2>2. {"page", "walk", "fishes", "stage", "answer"} \subseteq DOMAIN mem' /\ mem'.fishes = mem.fishes
    BY <1>0, <1>1 DEF S!Settle, S!Verify, S!Go
  <2> QED BY <1>0, <2>1, <2>2, WalkOn
<1>2. CASE S!Expire \/ S!Watchdog
  <2>1. app' = app /\ at' = at /\ mem' = mem /\ (aux' = [aux EXCEPT !.late = TRUE] \/ aux' = [aux EXCEPT !.dead = TRUE])
    BY <1>2 DEF S!Expire, S!Watchdog
  <2>2. /\ {"typed", "asked", "account", "mails", "late", "dead"} \subseteq DOMAIN aux'
        /\ aux'.typed = aux.typed /\ aux'.account = aux.account
    BY <1>0, <2>1
  <2> QED BY <1>0, <2>1, <2>2, WalkOn
<1> QED BY <1>1, <1>2

\* No step of a signup types a second password or in a form that is not of the app.
LEMMA SignupStep == ASSUME S!FormInv, app.home.own = TRUE, S!Next PROVE S!FormInv'
  BY HomeStep, WalkSteps, MailSteps, LastSteps DEF S!Next, S!Steps

\* A signup starts with nothing typed.
LEMMA SignupInit == ASSUME S!Init PROVE S!FormInv
<1>1. /\ mem = [page |-> S!Blank, walk |-> <<>>, fishes |-> FALSE, stage |-> "none", answer |-> "none"]
      /\ aux = [typed |-> {}, asked |-> FALSE, account |-> FALSE, mails |-> {}, late |-> FALSE, dead |-> FALSE]
  BY DEF S!Init
<1> QED BY <1>1 DEF S!FormInv

\* What the run checks of a signup follows.
LEMMA SignupKeeps == ASSUME S!FormInv PROVE S!OneOwnForm
<1>1. \A t, u \in aux.typed : t = u BY DEF S!FormInv
<1>2. \A t \in aux.typed : S!Fitting(t) BY DEF S!FormInv
<1>3. at = "magic" => aux.typed = {} /\ ~aux.account BY DEF S!FormInv
<1> QED BY <1>1, <1>2, <1>3 DEF S!OneOwnForm, S!Fitting

-----------------------------------------------------------------------------
(* The run cache (RunCache).                                               *)

\* The bounds of the run cache.
LEMMA CacheBounds == Edits \in Nat /\ Runs \in Nat
  BY ServicesAssumption DEF ServicesAssumption

\* Where nothing of the files or the cache changes, neither does what a key vouches for.
LEMMA VouchesOn ==
    ASSUME app' = app, aux'.version = aux.version, aux'.time = aux.time, aux'.plain = aux.plain
    PROVE  \A k, r : /\ C!Vouches(k, r)' <=> C!Vouches(k, r)
                     /\ C!Dates(k, r)' <=> C!Dates(k, r)
  BY DEF C!Vouches, C!Dates, C!Seen, C!Latest

\* The key that is made now, of what was loaded.
LEMMA KeyNow ==
    ASSUME C!Held, NEW browser \in BOOLEAN
    PROVE  /\ C!Key(browser) \in C!Keys
           /\ C!Key(browser)[1] = browser
           /\ C!Key(browser)[2][1] = aux.time["probes"] /\ C!Key(browser)[2][2] = C!Latest
           /\ app.is = "file" => C!Key(browser)[3] = aux.time["source"]
<1>1. aux.time \in [C!Files -> Nat] BY DEF C!Held
<1>2. /\ aux.time["probes"] \in Nat /\ aux.time["source"] \in Nat /\ aux.time["ruleA"] \in Nat /\ aux.time["ruleB"] \in Nat
  BY <1>1 DEF C!Files, C!Loaded
<1>3. C!Latest \in Nat BY <1>2 DEF C!Latest
<1>4. PICK s \in Nat : s = IF app.is = "file" THEN aux.time["source"] ELSE 0 BY <1>2
<1>5. C!Key(browser) = <<browser, <<aux.time["probes"], C!Latest>>, s>> BY <1>4 DEF C!Key, C!Fingerprint
<1> QED BY <1>2, <1>3, <1>4, <1>5 DEF C!Keys

\* A file changes: a plain change leaves a time that no file had.
LEMMA EditStep ==
    ASSUME C!CacheInv, NEW x \in C!Files, NEW t \in Nat, C!Edit(x, t)
    PROVE  C!CacheInv'
<1> USE DEF C!CacheInv
<1>1. /\ app' = app /\ at' = at /\ mem' = mem /\ at # "end" /\ faults < Edits /\ faults' = faults + 1
      /\ aux' = [aux EXCEPT !.version[x] = @ + 1, !.time[x] = t, !.plain = @ /\ C!Plain(x, t)]
  BY DEF C!Edit
<1>2. /\ aux.version \in [C!Files -> Nat] /\ aux.time \in [C!Files -> Nat] /\ aux.kept \in SUBSET C!Entries
      /\ aux.clock \in Nat /\ aux.runs \in Nat /\ aux.plain \in BOOLEAN
      /\ DOMAIN aux = {"version", "time", "clock", "kept", "plain", "runs"}
  BY DEF C!Held
<1>3. PICK p \in BOOLEAN : p = (aux.plain /\ C!Plain(x, t)) BY <1>2
<1>4. /\ aux'.version = [aux.version EXCEPT ![x] = @ + 1] /\ aux'.time = [aux.time EXCEPT ![x] = t]
      /\ aux'.clock = aux.clock /\ aux'.kept = aux.kept /\ aux'.runs = aux.runs /\ aux'.plain = p
      /\ DOMAIN aux' = DOMAIN aux
  BY <1>1, <1>2, <1>3
<1>5. C!Held' 
  <2>1. aux'.version \in [C!Files -> Nat] /\ aux'.time \in [C!Files -> Nat] BY <1>2, <1>4
  <2>2. mem' \in [browser : BOOLEAN, loaded : [C!Loaded -> Nat], key : C!Keys \cup {<<>>}, report : C!Reports, cached : BOOLEAN]
    BY <1>1 DEF C!Held
  <2>3. aux' \in [version : [C!Files -> Nat], time : [C!Files -> Nat], clock : Nat, kept : SUBSET C!Entries, plain : BOOLEAN,
                  runs : Nat]
    BY <1>1, <1>2, <2>1, <1>4
  <2> QED BY <1>1, <2>2, <2>3 DEF C!Held
<1>6. C!TypeOK' BY <1>1, <1>4, CacheBounds DEF C!TypeOK
<1>7. C!HitIsFresh' BY <1>1 DEF C!TypeOK, C!HitIsFresh
<1>8. ASSUME aux'.plain PROVE aux.plain /\ (\A y \in C!Files : t > aux.time[y]) /\ (x \in C!Loaded => at # "keyed")
  BY <1>3, <1>4, <1>8 DEF C!Plain
<1>9. ASSUME aux'.plain, NEW key \in C!Keys, NEW loaded \in [C!Files -> Nat] \cup [C!Loaded -> Nat], C!Dates(key, loaded)
      PROVE  C!Dates(key, loaded)'
  <2>0. key[2][1] \in Nat /\ key[2][2] \in Nat BY DEF C!Keys
  <2>1. \A y \in C!Files : aux.time[y] \in Nat /\ t > aux.time[y] BY <1>2, <1>8, <1>9
  <2>2. \A y \in C!Files \ {x} : aux'.time[y] = aux.time[y] /\ aux'.version[y] = aux.version[y] BY <1>2, <1>4
  <2>3. aux'.time[x] = t BY <1>2, <1>4
  <2> QED BY <1>9, <2>0, <2>1, <2>2, <2>3 DEF C!Dates, C!Latest, C!Files, C!Loaded
<1>10. ASSUME aux'.plain, NEW key \in C!Keys, NEW versions, C!Seen(key, versions) PROVE C!Seen(key, versions)'
  <2>0. key[3] \in Nat BY DEF C!Keys
  <2>1. \A y \in C!Files : aux.time[y] \in Nat /\ t > aux.time[y] BY <1>2, <1>8, <1>10
  <2>2. \A y \in C!Files \ {x} : aux'.time[y] = aux.time[y] /\ aux'.version[y] = aux.version[y] BY <1>2, <1>4
  <2>3. aux'.time[x] = t BY <1>2, <1>4
  <2> QED BY <1>1, <1>10, <2>0, <2>1, <2>2, <2>3 DEF C!Seen, C!Files
<1>11. ASSUME NEW key \in C!Keys, NEW report \in C!Reports, C!Vouches(key, report) PROVE C!Vouches(key, report)'
  <2>1. report.versions \in [C!Files -> Nat] BY DEF C!Reports
  <2> QED BY <1>8, <1>9, <1>10, <1>11, <2>1 DEF C!Vouches
<1>12. mem.report \in C!Reports /\ mem.loaded \in [C!Loaded -> Nat] BY DEF C!Held
<1>13. C!FreshInv'
  <2>1. (\A e \in aux.kept : C!Vouches(e.key, e.report))'
    <3>1. \A e \in aux.kept : e.key \in C!Keys /\ e.report \in C!Reports BY <1>2 DEF C!Entries
    <3> QED BY <1>4, <1>11, <3>1 DEF C!FreshInv
  <2>2. at' = "keyed" /\ aux'.plain => \A y \in C!Loaded : mem'.loaded[y] = aux'.version[y]
    <3> SUFFICES ASSUME at' = "keyed", aux'.plain, NEW y \in C!Loaded PROVE mem'.loaded[y] = aux'.version[y] OBVIOUS
    <3>1. y # x BY <1>1, <1>8
    <3>2. aux'.version[y] = aux.version[y] BY <1>2, <1>4, <3>1 DEF C!Files
    <3> QED BY <1>1, <1>8, <3>2 DEF C!FreshInv
  <2>3. at' \in {"grading", "save"} => mem'.key \in C!Keys /\ mem'.key[1] = mem'.browser BY <1>1 DEF C!FreshInv
  <2>4. ASSUME at' = "grading", aux'.plain
        PROVE  C!Dates(mem.key, mem.loaded)' /\ (app'.is = "file" => mem'.key[3] <= aux'.time["source"])
    <3>1. mem.key \in C!Keys /\ C!Dates(mem.key, mem.loaded) /\ (app.is = "file" => mem.key[3] <= aux.time["source"])
      BY <1>1, <1>8, <2>4 DEF C!FreshInv
    <3>2. C!Dates(mem.key, mem.loaded)' BY <1>1, <1>9, <1>12, <2>4, <3>1
    <3>3. aux'.time["source"] >= aux.time["source"] /\ aux.time["source"] \in Nat /\ aux'.time["source"] \in Nat
      BY <1>2, <1>4, <1>8, <2>4 DEF C!Files
    <3>4. mem.key[3] \in Nat BY <3>1 DEF C!Keys
    <3> QED BY <1>1, <3>1, <3>2, <3>3, <3>4
  <2>5. at' = "save" => C!Vouches(mem.key, mem.report)' BY <1>1, <1>11, <1>12 DEF C!FreshInv
  <2> QED BY <2>1, <2>2, <2>3, <2>4, <2>5 DEF C!FreshInv
<1> QED BY <1>5, <1>6, <1>7, <1>13

\* The clock, an import, and a new run: files and cache stay.
LEMMA IdleSteps ==
    ASSUME C!CacheInv, C!Tick \/ C!Import \/ C!Again
    PROVE  C!CacheInv'
<1> USE DEF C!CacheInv
<1>1. app' = app /\ faults' = faults /\ aux'.version = aux.version /\ aux'.time = aux.time /\ aux'.plain = aux.plain
      /\ aux'.kept = aux.kept
  BY DEF C!Tick, C!Import, C!Again, C!Held
<1>2. \A k, r : C!Vouches(k, r)' <=> C!Vouches(k, r) BY <1>1, VouchesOn
<1>3. (\A e \in aux.kept : C!Vouches(e.key, e.report))' BY <1>1, <1>2 DEF C!FreshInv
<1>4. CASE C!Tick
  <2>1. at' = at /\ mem' = mem /\ aux.clock <= Edits /\ aux' = [aux EXCEPT !.clock = @ + 1] BY <1>4 DEF C!Tick
  <2>2. C!Held'
    <3>1. PICK c \in Nat : c = aux.clock + 1 BY DEF C!Held
    <3>2. aux' = [aux EXCEPT !.clock = c] BY <2>1, <3>1
    <3>3. aux' \in [version : [C!Files -> Nat], time : [C!Files -> Nat], clock : Nat, kept : SUBSET C!Entries, plain : BOOLEAN,
                    runs : Nat]
      BY <3>2 DEF C!Held
    <3>4. mem' \in [browser : BOOLEAN, loaded : [C!Loaded -> Nat], key : C!Keys \cup {<<>>}, report : C!Reports, cached : BOOLEAN]
      BY <2>1 DEF C!Held
    <3> QED BY <1>1, <3>3, <3>4 DEF C!Held
  <2>3. aux'.clock = aux.clock + 1 /\ aux'.runs = aux.runs /\ aux.clock \in Nat BY <2>1 DEF C!Held
  <2>4. C!TypeOK' BY <1>1, <2>1, <2>3, CacheBounds DEF C!TypeOK
  <2>5. C!FreshInv' BY <1>1, <1>2, <1>3, <2>1, VouchesOn DEF C!FreshInv
  <2>6. C!HitIsFresh' BY <1>1, <2>1 DEF C!HitIsFresh, C!Covered
  <2> QED BY <2>2, <2>4, <2>5, <2>6
<1>5. CASE C!Import
  <2>1. PICK browser \in BOOLEAN : mem' = [mem EXCEPT !.browser = browser, !.loaded = [x \in C!Loaded |-> aux.version[x]]]
    BY <1>5 DEF C!Import
  <2>2. at = "idle" /\ at' = "keyed" /\ aux.runs < Runs /\ aux' = [aux EXCEPT !.runs = @ + 1] BY <1>5 DEF C!Import
  <2>3. ~mem.cached BY <2>2 DEF C!TypeOK
  <2>4. [x \in C!Loaded |-> aux.version[x]] \in [C!Loaded -> Nat] BY DEF C!Held, C!Files
  <2>5. PICK loaded \in [C!Loaded -> Nat] : loaded = [x \in C!Loaded |-> aux.version[x]] BY <2>4
  <2>6. mem' = [mem EXCEPT !.browser = browser, !.loaded = loaded] BY <2>1, <2>5
  <2>7. C!Held'
    <3>1. mem' \in [browser : BOOLEAN, loaded : [C!Loaded -> Nat], key : C!Keys \cup {<<>>}, report : C!Reports, cached : BOOLEAN]
      BY <2>6 DEF C!Held
    <3>2. aux' \in [version : [C!Files -> Nat], time : [C!Files -> Nat], clock : Nat, kept : SUBSET C!Entries, plain : BOOLEAN,
                    runs : Nat]
      <4>1. PICK r \in Nat : r = aux.runs + 1 BY DEF C!Held
      <4>2. aux' = [aux EXCEPT !.runs = r] BY <2>2, <4>1
      <4> QED BY <4>2 DEF C!Held
    <3> QED BY <1>1, <3>1, <3>2 DEF C!Held
  <2>8. mem'.loaded = loaded /\ mem'.cached = mem.cached /\ aux'.runs = aux.runs + 1 /\ aux'.clock = aux.clock /\ aux.runs \in Nat
    BY <2>2, <2>6 DEF C!Held
  <2>9. C!TypeOK' BY <1>1, <2>2, <2>3, <2>8, CacheBounds DEF C!TypeOK
  <2>10. C!FreshInv' BY <1>1, <1>3, <2>2, <2>5, <2>8 DEF C!FreshInv
  <2> QED BY <2>3, <2>7, <2>8, <2>9, <2>10 DEF C!HitIsFresh
<1>6. CASE C!Again
  <2>1. /\ at' = "idle" /\ aux' = aux
        /\ mem' = [mem EXCEPT !.browser = FALSE, !.loaded = [x \in C!Loaded |-> 0], !.report = C!NoReport, !.key = <<>>,
                              !.cached = FALSE]
    BY <1>6 DEF C!Again
  <2>2. [x \in C!Loaded |-> 0] \in [C!Loaded -> Nat] /\ C!NoReport \in C!Reports BY DEF C!NoReport, C!Reports
  <2>3. PICK loaded \in [C!Loaded -> Nat] : loaded = [x \in C!Loaded |-> 0] BY <2>2
  <2>4. mem' = [mem EXCEPT !.browser = FALSE, !.loaded = loaded, !.report = C!NoReport, !.key = <<>>, !.cached = FALSE]
    BY <2>1, <2>3
  <2>5. mem' \in [browser : BOOLEAN, loaded : [C!Loaded -> Nat], key : C!Keys \cup {<<>>}, report : C!Reports, cached : BOOLEAN]
        /\ mem'.cached = FALSE
    BY <2>2, <2>4 DEF C!Held
  <2>6. C!Held' BY <1>1, <2>1, <2>5 DEF C!Held
  <2>7. C!TypeOK' BY <1>1, <2>1, <2>5 DEF C!TypeOK
  <2>8. C!FreshInv' BY <1>3, <2>1 DEF C!FreshInv
  <2> QED BY <2>5, <2>6, <2>7, <2>8 DEF C!HitIsFresh
<1> QED BY <1>4, <1>5, <1>6

\* An entry is served or a grade is made, and kept.
LEMMA ServeSteps ==
    ASSUME C!CacheInv, C!Load \/ C!Grade \/ C!Save
    PROVE  C!CacheInv'
<1> USE DEF C!CacheInv
<1>1. app' = app /\ faults' = faults /\ aux'.version = aux.version /\ aux'.time = aux.time /\ aux'.plain = aux.plain
      /\ aux'.clock = aux.clock /\ aux'.runs = aux.runs
  BY DEF C!Load, C!Grade, C!Save, C!Held
<1>2. \A k, r : C!Vouches(k, r)' <=> C!Vouches(k, r)
  BY <1>1, VouchesOn
<1>3. aux.version \in [C!Files -> Nat] /\ aux.time \in [C!Files -> Nat] /\ aux.kept \subseteq C!Entries /\ mem.browser \in BOOLEAN
      /\ mem.loaded \in [C!Loaded -> Nat]
  BY DEF C!Held
<1>4. PICK key \in C!Keys : /\ key = C!Key(mem.browser) /\ key[1] = mem.browser
                            /\ key[2][1] = aux.time["probes"] /\ key[2][2] = C!Latest
                            /\ app.is = "file" => key[3] = aux.time["source"]
  BY <1>3, KeyNow
<1>5. CASE C!Load /\ C!Serve(C!NoReport, FALSE, "grading")
  <2>1. at = "keyed" /\ at' = "grading" /\ aux' = aux /\ mem' = [mem EXCEPT !.key = key, !.report = C!NoReport, !.cached = FALSE]
    BY <1>4, <1>5 DEF C!Load, C!Serve
  <2>2. C!NoReport \in C!Reports BY DEF C!NoReport, C!Reports
  <2>3. mem' \in [browser : BOOLEAN, loaded : [C!Loaded -> Nat], key : C!Keys \cup {<<>>}, report : C!Reports, cached : BOOLEAN]
        /\ mem'.cached = FALSE /\ mem'.key = key /\ mem'.loaded = mem.loaded /\ mem'.browser = mem.browser
    BY <2>1, <2>2 DEF C!Held
  <2>4. C!Held' BY <1>1, <2>1, <2>3 DEF C!Held
  <2>5. C!TypeOK' BY <1>1, <2>1, <2>3 DEF C!TypeOK
  <2>6. aux.plain => C!Dates(key, mem.loaded)
    <3>1. aux.time["probes"] \in Nat /\ C!Latest \in Nat BY <1>3 DEF C!Files, C!Loaded, C!Latest
    <3>2. aux.plain => \A x \in C!Loaded : mem.loaded[x] = aux.version[x] BY <2>1 DEF C!FreshInv
    <3> QED BY <1>4, <3>1, <3>2 DEF C!Dates, C!Loaded
  <2>7. aux.time["source"] \in Nat BY <1>3 DEF C!Files
  <2>8. (\A e \in aux.kept : C!Vouches(e.key, e.report))' BY <1>2, <2>1 DEF C!FreshInv
  <2>9. aux'.plain => C!Dates(mem.key, mem.loaded)'
    <3>1. C!Dates(key, mem.loaded)' <=> C!Dates(key, mem.loaded) BY <1>1, <2>3 DEF C!Dates, C!Latest
    <3> QED BY <1>1, <2>3, <2>6, <3>1
  <2>10. C!FreshInv' BY <1>1, <1>4, <2>1, <2>3, <2>7, <2>8, <2>9 DEF C!FreshInv
  <2> QED BY <2>3, <2>4, <2>5, <2>10 DEF C!HitIsFresh
<1>6. CASE C!Load /\ ~C!Serve(C!NoReport, FALSE, "grading")
  <2>1. PICK entry \in aux.kept : entry.key = key /\ C!Serve(entry.report, TRUE, "end") BY <1>4, <1>6 DEF C!Load
  <2>2. aux' = aux /\ at' = "end" /\ mem' = [mem EXCEPT !.key = key, !.report = entry.report, !.cached = TRUE]
    BY <1>4, <1>6, <2>1 DEF C!Load, C!Serve
  <2>3. entry.report \in C!Reports BY <1>3, <2>1 DEF C!Entries
  <2>4. mem' \in [browser : BOOLEAN, loaded : [C!Loaded -> Nat], key : C!Keys \cup {<<>>}, report : C!Reports, cached : BOOLEAN]
        /\ mem'.report = entry.report /\ mem'.browser = mem.browser
    BY <2>2, <2>3 DEF C!Held
  <2>5. C!Held' BY <1>1, <2>2, <2>4 DEF C!Held
  <2>6. C!TypeOK' BY <1>1, <2>1, <2>2, <2>4 DEF C!TypeOK
  <2>7. (\A e \in aux.kept : C!Vouches(e.key, e.report))' BY <1>2, <2>2 DEF C!FreshInv
  <2>8. C!FreshInv' BY <2>2, <2>7 DEF C!FreshInv
  <2>9. C!Vouches(key, entry.report) BY <2>1 DEF C!FreshInv
  <2>10. C!HitIsFresh'
    <3>1. entry.report.browser = mem.browser BY <1>4, <2>9 DEF C!Vouches
    <3>2. aux.plain => \A x \in C!Covered : entry.report.versions[x] = aux.version[x]
      BY <1>4, <2>9 DEF C!Vouches, C!Dates, C!Seen, C!Covered
    <3> QED BY <1>1, <2>4, <3>1, <3>2 DEF C!HitIsFresh, C!Covered
  <2> QED BY <2>5, <2>6, <2>8, <2>10
<1>7. CASE C!Grade
  <2> DEFINE versions == [x \in C!Files |-> IF x \in C!Loaded THEN mem.loaded[x] ELSE aux.version[x]]
             report   == [versions |-> versions, browser |-> mem.browser]
  <2>1. at = "grading" /\ at' = "save" /\ aux' = aux /\ mem' = [mem EXCEPT !.report = report] BY <1>7 DEF C!Grade
  <2>2. \A x \in C!Files : versions[x] \in Nat BY <1>3
  <2>3. report \in C!Reports BY <1>3, <2>2 DEF C!Reports
  <2>4. /\ \A x \in C!Loaded : versions[x] = mem.loaded[x]
        /\ versions["source"] = aux.version["source"]
    BY DEF C!Files, C!Loaded
  <2>5. report.versions = versions /\ report.browser = mem.browser OBVIOUS
  <2> HIDE DEF report, versions
  <2>6. mem' \in [browser : BOOLEAN, loaded : [C!Loaded -> Nat], key : C!Keys \cup {<<>>}, report : C!Reports, cached : BOOLEAN]
        /\ mem'.report = report /\ mem'.browser = mem.browser /\ mem'.key = mem.key /\ mem'.cached = mem.cached
    BY <2>1, <2>3 DEF C!Held
  <2>7. C!Held' BY <1>1, <2>1, <2>6 DEF C!Held
  <2>8. ~mem.cached BY <2>1 DEF C!TypeOK
  <2>9. C!TypeOK' BY <1>1, <2>1, <2>6, <2>8 DEF C!TypeOK
  <2>10. mem.key \in C!Keys /\ mem.key[1] = mem.browser BY <2>1 DEF C!FreshInv
  <2>11. C!Vouches(mem.key, report)
    <3>1. aux.plain => C!Dates(mem.key, versions) BY <2>1, <2>4 DEF C!FreshInv, C!Dates, C!Loaded
    <3>2. aux.plain => C!Seen(mem.key, versions) BY <2>1, <2>4 DEF C!FreshInv, C!Seen
    <3> QED BY <2>5, <2>10, <3>1, <3>2 DEF C!Vouches
  <2>12. C!Vouches(mem.key, mem.report)'
    <3>1. PICK k, r : k = mem.key /\ r = report OBVIOUS
    <3>2. C!Vouches(k, r)' BY <1>2, <2>1, <2>11, <3>1
    <3>3. mem'.key = k /\ mem'.report = r BY <2>6, <3>1
    <3> QED BY <3>2, <3>3 DEF C!Vouches, C!Dates, C!Seen, C!Latest
  <2>13. (\A e \in aux.kept : C!Vouches(e.key, e.report))' BY <1>2, <2>1 DEF C!FreshInv
  <2>14. C!FreshInv' BY <2>1, <2>6, <2>10, <2>12, <2>13 DEF C!FreshInv
  <2> QED BY <2>6, <2>7, <2>8, <2>9, <2>14 DEF C!HitIsFresh
<1>8. CASE C!Save
  <2>1. PICK whole \in BOOLEAN :
            aux' = [aux EXCEPT !.kept = {e \in @ : e.key # mem.key} \cup {[key |-> mem.key, whole |-> whole, report |-> mem.report]}]
    BY <1>8 DEF C!Save
  <2>2. at = "save" /\ at' = "end" /\ mem' = mem /\ faults' = faults /\ app' = app BY <1>8 DEF C!Save
  <2>3. PICK new : new = [key |-> mem.key, whole |-> whole, report |-> mem.report] OBVIOUS
  <2>4. PICK kept : kept = {e \in aux.kept : e.key # mem.key} \cup {new} OBVIOUS
  <2>5. mem.key \in C!Keys /\ mem.report \in C!Reports /\ C!Vouches(mem.key, mem.report) BY <2>2 DEF C!FreshInv, C!Held
  <2>6. new \in C!Entries /\ new.key = mem.key /\ new.report = mem.report BY <2>3, <2>5 DEF C!Entries
  <2>7. kept \in SUBSET C!Entries BY <1>3, <2>4, <2>6
  <2>8. aux' = [aux EXCEPT !.kept = kept] BY <2>1, <2>3, <2>4
  <2>9. /\ aux'.kept = kept /\ aux'.version = aux.version /\ aux'.time = aux.time /\ aux'.plain = aux.plain
        /\ aux'.clock = aux.clock /\ aux'.runs = aux.runs
        /\ aux' \in [version : [C!Files -> Nat], time : [C!Files -> Nat], clock : Nat, kept : SUBSET C!Entries, plain : BOOLEAN,
                      runs : Nat]
    BY <2>7, <2>8 DEF C!Held
  <2>10. C!Held' BY <2>2, <2>9 DEF C!Held
  <2>11. ~mem.cached BY <2>2 DEF C!TypeOK
  <2>12. \A e, f \in kept : e.key = f.key => e = f
    <3>1. \A e, f \in aux.kept : e.key = f.key => e = f BY DEF C!TypeOK
    <3> QED BY <2>4, <2>6, <3>1
  <2>13. C!TypeOK'
    <3>1. C!TypeOK BY DEF C!CacheInv
    <3> QED BY <2>2, <2>9, <2>11, <2>12, <3>1 DEF C!TypeOK
  <2>15. \A e \in kept : C!Vouches(e.key, e.report) BY <2>4, <2>5, <2>6 DEF C!FreshInv
  <2>16. (\A e \in aux.kept : C!Vouches(e.key, e.report))' BY <1>2, <2>9, <2>15
  <2>17. C!FreshInv' BY <2>2, <2>16 DEF C!FreshInv
  <2> QED BY <2>2, <2>10, <2>11, <2>13, <2>17 DEF C!HitIsFresh
<1> QED BY <1>5, <1>6, <1>7, <1>8

\* Every step of the run cache, and none.
LEMMA CacheStep == ASSUME C!CacheInv, C!Next PROVE C!CacheInv'
<1>1. CASE C!Tick \/ C!Import \/ C!Again BY <1>1, IdleSteps
<1>2. CASE C!Load \/ C!Grade \/ C!Save BY <1>2, ServeSteps
<1>3. CASE \E x \in C!Files : C!Edit(x, aux.clock) \/ (x = "ruleA" /\ C!Edit(x, 0))
  <2>1. aux.clock \in Nat /\ 0 \in Nat BY DEF C!CacheInv, C!Held
  <2> QED BY <1>3, <2>1, EditStep
<1> QED BY <1>1, <1>2, <1>3 DEF C!Next, C!Steps

\* What is proved of the cache is kept where nothing happens.
LEMMA CacheStutters == ASSUME C!CacheInv, UNCHANGED vars PROVE C!CacheInv'
<1>1. app' = app /\ at' = at /\ mem' = mem /\ aux' = aux /\ faults' = faults BY DEF vars
<1>2. C!Held' BY <1>1 DEF C!CacheInv, C!Held
<1>3. C!TypeOK' BY <1>1 DEF C!CacheInv, C!TypeOK
<1>4. C!FreshInv' BY <1>1 DEF C!CacheInv, C!FreshInv, C!Vouches, C!Dates, C!Seen, C!Latest
<1>5. C!HitIsFresh' BY <1>1 DEF C!CacheInv, C!HitIsFresh, C!Covered
<1> QED BY <1>2, <1>3, <1>4, <1>5 DEF C!CacheInv

\* The first run finds an empty cache.
LEMMA CacheInit == ASSUME C!Init PROVE C!CacheInv
<1>1. PICK none : none = [x \in C!Loaded |-> 0] OBVIOUS
<1>2. PICK one : one = [x \in C!Files |-> 1] OBVIOUS
<1>3. none \in [C!Loaded -> Nat] /\ one \in [C!Files -> Nat] BY <1>1, <1>2
<1>4. C!NoReport \in C!Reports BY DEF C!NoReport, C!Reports
<1>5. PICK report \in C!Reports : report = C!NoReport BY <1>4
<1>6. mem = [browser |-> FALSE, loaded |-> none, key |-> <<>>, report |-> report, cached |-> FALSE] BY <1>1, <1>5 DEF C!Init
<1>7. aux = [version |-> one, time |-> one, clock |-> 1, kept |-> {}, plain |-> TRUE, runs |-> 0] BY <1>2 DEF C!Init
<1>8. mem \in [browser : BOOLEAN, loaded : [C!Loaded -> Nat], key : C!Keys \cup {<<>>}, report : C!Reports, cached : BOOLEAN]
      /\ mem.cached = FALSE
  BY <1>3, <1>6
<1>9. aux \in [version : [C!Files -> Nat], time : [C!Files -> Nat], clock : Nat, kept : SUBSET C!Entries, plain : BOOLEAN,
               runs : Nat]
      /\ aux.clock = 1 /\ aux.runs = 0 /\ aux.kept = {}
  BY <1>3, <1>7
<1>10. app.is \in {"file", "directory"} BY DEF C!Init, Commands
<1>11. C!Held BY <1>8, <1>9, <1>10 DEF C!Held
<1>12. C!TypeOK BY <1>8, <1>9, CacheBounds DEF C!Init, C!TypeOK
<1>13. C!FreshInv BY <1>9 DEF C!Init, C!FreshInv
<1>14. C!HitIsFresh BY <1>8 DEF C!HitIsFresh
<1> QED BY <1>11, <1>12, <1>13, <1>14 DEF C!CacheInv

-----------------------------------------------------------------------------
(* What a render worker streams is kept (Render). *)

\* What is known of parent, worker and pipe.
LEMMA StreamTypes ==
    ASSUME R!StreamInv
    PROVE  /\ mem.out \in Seq(Nat) /\ aux.sent \in Seq(Nat) /\ aux.age \in Seq(Nat) /\ aux.pipe \in Seq(R!Messages)
           /\ Len(mem.out) \in Nat /\ Len(aux.sent) \in Nat /\ Len(aux.age) \in Nat /\ Len(aux.pipe) \in Nat
           /\ mem.age \in Nat /\ aux.idx \in Nat /\ aux.lapsed \in Nat /\ faults \in Nat
           /\ mem.age \in 0 .. TotalTimeout
           /\ R!Got = Len(mem.out) /\ R!Unread = Len(aux.sent) - Len(mem.out) /\ R!Unread \in Nat
           /\ R!Unread' = Len(aux'.sent) - Len(mem'.out) /\ R!Got' = Len(mem'.out)
           /\ DOMAIN mem = {"age", "out", "sinks", "how", "listed"}
           /\ DOMAIN aux = {"pc", "since", "idx", "pipe", "browser", "sent", "age", "lapsed", "crashed", "missed"}
<1> USE DEF R!StreamInv
<1>1. mem.out \in Seq(Nat) /\ mem.age \in 0 .. TotalTimeout /\ DOMAIN mem = {"age", "out", "sinks", "how", "listed"}
  BY DEF R!Parents, R!TypeOK
<1>2. /\ aux.sent \in Seq(Nat) /\ aux.age \in Seq(Nat) /\ aux.pipe \in Seq(R!Messages)
      /\ aux.idx \in Nat /\ aux.lapsed \in Nat
      /\ DOMAIN aux = {"pc", "since", "idx", "pipe", "browser", "sent", "age", "lapsed", "crashed", "missed"}
  BY DEF R!Workers
<1>3. /\ Len(mem.out) \in Nat /\ Len(aux.sent) \in Nat /\ Len(aux.age) \in Nat /\ Len(aux.pipe) \in Nat
  BY <1>1, <1>2
<1>4. R!Got = Len(mem.out) /\ R!Unread = Len(aux.sent) - Len(mem.out) BY DEF R!Got, R!Unread
<1>5. R!Unread' = Len(aux'.sent) - Len(mem'.out) /\ R!Got' = Len(mem'.out) BY DEF R!Got, R!Unread
<1>6. R!Unread \in Nat BY <1>3, <1>4 DEF R!PipeInv
<1>7. faults \in Nat /\ mem.age \in Nat BY <1>1 DEF R!TypeOK
<1> QED BY <1>1, <1>2, <1>3, <1>4, <1>5, <1>6, <1>7

\* The same of their lengths alone.
LEMMA StreamCounts ==
    ASSUME R!StreamInv
    PROVE  /\ Len(mem.out) \in Nat /\ Len(aux.sent) \in Nat /\ Len(aux.pipe) \in Nat
           /\ R!Got = Len(mem.out) /\ R!Unread = Len(aux.sent) - Len(mem.out)
           /\ Len(mem.out) <= Len(aux.sent) /\ Len(aux.age) = Len(aux.sent)
           /\ Len(aux.pipe) = R!Unread \/ Len(aux.pipe) = R!Unread + 1
           /\ R!Unread' = Len(aux'.sent) - Len(mem'.out) /\ R!Got' = Len(mem'.out)
<1>1. R!PipeInv BY DEF R!StreamInv
<1>2. /\ R!Got <= Len(aux.sent) /\ Len(aux.age) = Len(aux.sent)
      /\ Len(aux.pipe) = R!Unread \/ Len(aux.pipe) = R!Unread + 1
  BY <1>1 DEF R!PipeInv
<1> QED BY <1>2, StreamTypes

\* A step that sends and reads nothing.
LEMMA StreamRests ==
    ASSUME R!StreamInv, aux' \in R!Workers, mem' \in R!Parents, R!TypeOK',
           mem'.out = mem.out, aux'.pipe = aux.pipe, aux'.sent = aux.sent, aux'.age = aux.age,
           aux'.pc = "write" => aux.pc = "write",
           aux.pc \in {"write", "exited", "killed"} => aux'.pc \in {"write", "exited", "killed"},
           mem'.age = mem.age \/ R!Unread = 0, R!LeftInv'
    PROVE  R!StreamInv'
<1>1. /\ Len(mem.out) \in Nat /\ Len(aux.sent) \in Nat /\ R!Got' = R!Got /\ R!Unread' = R!Unread
      /\ R!Got = Len(mem.out) /\ R!Unread = Len(aux.sent) - Len(mem.out)
  BY StreamTypes
<1>2. R!PipeInv BY DEF R!StreamInv
<1>3. \A n \in R!Got' + 1 .. Len(aux'.sent) : aux'.age[n] >= mem'.age
  <2>0. R!Got' + 1 .. Len(aux'.sent) = R!Got + 1 .. Len(aux.sent) BY <1>1
  <2>1. CASE mem'.age = mem.age BY <1>2, <2>0, <2>1 DEF R!PipeInv
  <2>2. CASE R!Unread = 0
    <3>1. R!Got + 1 .. Len(aux.sent) = {} BY <1>1, <2>2
    <3> QED BY <2>0, <3>1
  <2> QED BY <2>1, <2>2
<1>4. R!PipeInv'
  <2>1. (R!Got <= Len(aux.sent) /\ \A n \in 1 .. R!Got : mem.out[n] = aux.sent[n])' BY <1>1, <1>2 DEF R!PipeInv
  <2>2. (Len(aux.pipe) \in {R!Unread, R!Unread + 1} /\ \A n \in 1 .. R!Unread : aux.pipe[n] = "route")'
    BY <1>1, <1>2 DEF R!PipeInv
  <2>3. (Len(aux.pipe) = R!Unread + 1 => aux.pipe[R!Unread + 1] # "route" /\ aux.pc \in {"write", "exited", "killed"})'
    BY <1>1, <1>2 DEF R!PipeInv
  <2>4. (aux.pc = "write" => Len(aux.pipe) = R!Unread + 1 /\ aux.pipe[R!Unread + 1] = "part")' BY <1>1, <1>2 DEF R!PipeInv
  <2>5. Len(aux'.age) = Len(aux'.sent) BY <1>2 DEF R!PipeInv
  <2> QED BY <1>3, <2>1, <2>2, <2>3, <2>4, <2>5 DEF R!PipeInv
<1> QED BY <1>4 DEF R!StreamInv

\* The worker renders, writes, and dies.
LEMMA StreamWorks == ASSUME R!StreamInv, R!Launch \/ R!Paint \/ R!Written \/ R!CloseBrowser \/ R!Crash PROVE R!StreamInv'
<1> USE DEF R!StreamInv
<1>0. at' = at /\ mem' = mem /\ app' = app BY DEF R!Launch, R!Paint, R!Written, R!CloseBrowser, R!Crash, R!Work
<1>1. faults' \in 0 .. Crashes /\ faults' >= faults
  <2>1. faults' = faults \/ (faults < Crashes /\ faults' = faults + 1)
    BY DEF R!Launch, R!Paint, R!Written, R!CloseBrowser, R!Crash, R!Work
  <2>2. faults \in 0 .. Crashes BY DEF R!TypeOK
  <2> QED BY <2>1, <2>2, ServicesAssumption DEF ServicesAssumption
<1>2. ASSUME aux' \in R!Workers, aux'.pipe = aux.pipe, aux'.sent = aux.sent, aux'.age = aux.age, aux'.lapsed = aux.lapsed,
             aux'.pc # "write", R!Alive, aux'.crashed = aux.crashed \/ faults' > 0,
             aux.pc = "write" => aux'.pc \in {"write", "exited", "killed"}
      PROVE  R!StreamInv'
  <2>1. R!TypeOK'
    <3>1. aux'.pc \in {"start", "render", "write", "wedged", "last", "exited", "killed"} BY <1>2 DEF R!Workers
    <3>2. aux'.crashed => faults' > 0
      <4>1. aux.crashed => faults > 0 BY DEF R!TypeOK
      <4>2. faults > 0 => faults' > 0 BY <1>1, StreamTypes
      <4> QED BY <1>2, <4>1, <4>2, Zenon
    <3> QED BY <1>0, <1>1, <1>2, <3>1, <3>2 DEF R!TypeOK
  <2>2. R!LeftInv' BY <1>0, <1>2, StreamTypes DEF R!LeftInv, R!Alive, R!Got
  <2> QED BY <1>0, <1>2, <2>1, <2>2, StreamRests DEF R!Alive
<1>3. CASE R!Launch
  <2>1. aux' = [aux EXCEPT !.pc = "render", !.since = mem.age, !.browser = "up", !.missed = (at = "strike")]
        \/ aux' = [aux EXCEPT !.pc = "last"]
    BY <1>3 DEF R!Launch
  <2>2. aux.pc = "start" /\ R!Alive BY <1>3 DEF R!Launch, R!Alive
  <2>3. PICK missed \in BOOLEAN : missed = (at = "strike") OBVIOUS
  <2>4. aux' = [aux EXCEPT !.pc = "render", !.since = mem.age, !.browser = "up", !.missed = missed]
        \/ aux' = [aux EXCEPT !.pc = "last"]
    BY <2>1, <2>3
  <2>5. /\ aux' \in R!Workers /\ aux'.pipe = aux.pipe /\ aux'.sent = aux.sent /\ aux'.age = aux.age /\ aux'.lapsed = aux.lapsed
        /\ aux'.crashed = aux.crashed /\ aux'.pc # "write"
    BY <2>4, StreamTypes DEF R!Workers
  <2> QED BY <1>2, <2>2, <2>5
<1>4. CASE R!CloseBrowser
  <2>1. aux' = [aux EXCEPT !.pc = "last", !.browser = "none"] /\ aux.pc = "render" /\ R!Alive BY <1>4 DEF R!CloseBrowser, R!Alive
  <2>2. /\ aux' \in R!Workers /\ aux'.pipe = aux.pipe /\ aux'.sent = aux.sent /\ aux'.age = aux.age /\ aux'.lapsed = aux.lapsed
        /\ aux'.crashed = aux.crashed /\ aux'.pc = "last"
    BY <2>1 DEF R!Workers
  <2> QED BY <1>2, <2>1, <2>2
<1>5. CASE R!Crash
  <2>1. aux' = [aux EXCEPT !.pc = "exited", !.crashed = TRUE] /\ R!Alive /\ faults' = faults + 1 BY <1>5 DEF R!Crash
  <2>2. /\ aux' \in R!Workers /\ aux'.pipe = aux.pipe /\ aux'.sent = aux.sent /\ aux'.age = aux.age /\ aux'.lapsed = aux.lapsed
        /\ aux'.pc = "exited"
    BY <2>1 DEF R!Workers
  <2>3. faults' > 0 BY <2>1, StreamTypes
  <2> QED BY <1>2, <2>1, <2>2, <2>3
<1>6. R!PipeInv /\ R!TypeOK /\ R!LeftInv OBVIOUS
<1>7. CASE R!Paint
  <2>1. aux.pc = "render" /\ R!Alive BY <1>7 DEF R!Paint, R!Alive
  <2>2. ASSUME aux' = [aux EXCEPT !.idx = @ + 1] \/ aux' = [aux EXCEPT !.pc = "wedged"] PROVE R!StreamInv'
    <3>1. PICK next \in Nat : next = aux.idx + 1 BY StreamTypes
    <3>2. aux' = [aux EXCEPT !.idx = next] \/ aux' = [aux EXCEPT !.pc = "wedged"] BY <2>2, <3>1
    <3>3. /\ aux' \in R!Workers /\ aux'.pipe = aux.pipe /\ aux'.sent = aux.sent /\ aux'.age = aux.age /\ aux'.lapsed = aux.lapsed
          /\ aux'.crashed = aux.crashed /\ aux'.pc \in {"render", "wedged"}
      BY <2>1, <3>2 DEF R!Workers
    <3> QED BY <1>2, <2>1, <3>3
  <2>3. ASSUME aux' = [aux EXCEPT !.pc = "write", !.pipe = Append(@, "part")] PROVE R!StreamInv'
    <3>1. PICK pipe : pipe = Append(aux.pipe, "part") OBVIOUS
    <3>2. /\ pipe \in Seq(R!Messages) /\ Len(pipe) = Len(aux.pipe) + 1 /\ pipe[Len(pipe)] = "part"
          /\ \A n \in 1 .. Len(aux.pipe) : pipe[n] = aux.pipe[n]
      BY <3>1, StreamTypes, AppendProperties DEF R!Messages
    <3>3. aux' = [aux EXCEPT !.pc = "write", !.pipe = pipe] BY <2>3, <3>1
    <3>4. /\ aux' \in R!Workers /\ aux'.pipe = pipe /\ aux'.sent = aux.sent /\ aux'.age = aux.age /\ aux'.lapsed = aux.lapsed
          /\ aux'.crashed = aux.crashed /\ aux'.pc = "write"
      BY <3>2, <3>3 DEF R!Workers
    <3>5. Len(aux.pipe) = R!Unread BY <1>6, <2>1, StreamTypes DEF R!PipeInv
    <3>6. R!Unread' = R!Unread /\ R!Got' = R!Got BY <1>0, <3>4, StreamTypes
    <3>7. Len(pipe) = R!Unread + 1 /\ \A n \in 1 .. R!Unread : pipe[n] = "route" BY <1>6, <3>2, <3>5, StreamTypes DEF R!PipeInv
    <3>8. R!PipeInv'
      <4>1. (R!Got <= Len(aux.sent) /\ \A n \in 1 .. R!Got : mem.out[n] = aux.sent[n])' BY <1>0, <1>6, <3>4, <3>6 DEF R!PipeInv
      <4>2. (\A n \in R!Got + 1 .. Len(aux.sent) : aux.age[n] >= mem.age)' BY <1>0, <1>6, <3>4, <3>6 DEF R!PipeInv
      <4>3. Len(aux'.age) = Len(aux'.sent) BY <1>6, <3>4 DEF R!PipeInv
      <4> QED BY <3>2, <3>4, <3>6, <3>7, <4>1, <4>2, <4>3 DEF R!PipeInv
    <3>9. R!TypeOK' BY <1>0, <1>1, <1>6, <1>7, <3>4 DEF R!TypeOK, R!Paint, R!Work
    <3>10. R!LeftInv' BY <1>0, <1>6, <2>1, <3>4, <3>6 DEF R!LeftInv
    <3> QED BY <1>0, <3>4, <3>8, <3>9, <3>10
  <2> QED BY <1>7, <2>2, <2>3 DEF R!Paint
<1>8. CASE R!Written /\ aux.pc = "last"
  <2>1. aux' = [aux EXCEPT !.pc = "exited", !.pipe = Append(@, "done")] /\ faults' = faults /\ R!Alive
    BY <1>8 DEF R!Written, R!Work, R!Alive
  <2>2. PICK pipe : pipe = Append(aux.pipe, "done") OBVIOUS
  <2>3. /\ pipe \in Seq(R!Messages) /\ Len(pipe) = Len(aux.pipe) + 1 /\ pipe[Len(pipe)] = "done"
        /\ \A n \in 1 .. Len(aux.pipe) : pipe[n] = aux.pipe[n]
    BY <2>2, StreamTypes, AppendProperties DEF R!Messages
  <2>4. aux' = [aux EXCEPT !.pc = "exited", !.pipe = pipe] BY <2>1, <2>2
  <2>5. /\ aux' \in R!Workers /\ aux'.pipe = pipe /\ aux'.sent = aux.sent /\ aux'.age = aux.age /\ aux'.lapsed = aux.lapsed
        /\ aux'.crashed = aux.crashed /\ aux'.pc = "exited"
    BY <2>3, <2>4 DEF R!Workers
  <2>6. Len(aux.pipe) = R!Unread BY <1>6, <1>8, StreamTypes DEF R!PipeInv
  <2>7. R!Unread' = R!Unread /\ R!Got' = R!Got BY <1>0, <2>5, StreamTypes
  <2>8. Len(pipe) = R!Unread + 1 /\ \A n \in 1 .. R!Unread : pipe[n] = "route" BY <1>6, <2>3, <2>6, StreamTypes DEF R!PipeInv
  <2>9. R!PipeInv'
    <3>1. (R!Got <= Len(aux.sent) /\ \A n \in 1 .. R!Got : mem.out[n] = aux.sent[n])' BY <1>0, <1>6, <2>5, <2>7 DEF R!PipeInv
    <3>2. (\A n \in R!Got + 1 .. Len(aux.sent) : aux.age[n] >= mem.age)' BY <1>0, <1>6, <2>5, <2>7 DEF R!PipeInv
    <3>3. Len(aux'.age) = Len(aux'.sent) BY <1>6, <2>5 DEF R!PipeInv
    <3> QED BY <2>3, <2>5, <2>7, <2>8, <3>1, <3>2, <3>3 DEF R!PipeInv
  <2>10. R!TypeOK' BY <1>0, <1>1, <1>6, <2>1, <2>5 DEF R!TypeOK
  <2>11. R!LeftInv' BY <1>0, <1>6, <2>1, <2>5, <2>7 DEF R!LeftInv
  <2> QED BY <1>0, <2>5, <2>9, <2>10, <2>11
<1>9. CASE R!Written /\ aux.pc = "write"
  <2>1. /\ aux' = [aux EXCEPT !.pc = "render", !.idx = @ + 1, !.pipe = Append(SubSeq(@, 1, Len(@) - 1), "route"),
                               !.sent = Append(@, aux.idx), !.age = Append(@, mem.age)]
        /\ faults' = faults /\ R!Alive
    BY <1>9 DEF R!Written, R!Work, R!Alive
  <2>2. PICK sent, age, pipe, next : /\ sent = Append(aux.sent, aux.idx) /\ age = Append(aux.age, mem.age)
                                     /\ pipe = Append(SubSeq(aux.pipe, 1, Len(aux.pipe) - 1), "route") /\ next = aux.idx + 1
    OBVIOUS
  <2>3. Len(aux.pipe) = R!Unread + 1 /\ Len(aux.age) = Len(aux.sent) BY <1>6, <1>9, StreamTypes DEF R!PipeInv
  <2>4. PICK front : front = SubSeq(aux.pipe, 1, R!Unread) OBVIOUS
  <2>5. front \in Seq(R!Messages) /\ Len(front) = R!Unread /\ \A n \in 1 .. R!Unread : front[n] = aux.pipe[n]
    <3>1. PICK m \in Nat : m = R!Unread BY StreamTypes
    <3>2. \A n \in 1 .. m : aux.pipe[n] \in R!Messages
      <4> SUFFICES ASSUME NEW n \in 1 .. m PROVE aux.pipe[n] \in R!Messages OBVIOUS
      <4>1. n \in 1 .. Len(aux.pipe) BY <2>3, <3>1, StreamTypes
      <4> QED BY <4>1, StreamTypes
    <3>3. /\ SubSeq(aux.pipe, 1, m) \in Seq(R!Messages)
          /\ Len(SubSeq(aux.pipe, 1, m)) = IF 1 <= m THEN m - 1 + 1 ELSE 0
          /\ \A i \in 1 .. m - 1 + 1 : SubSeq(aux.pipe, 1, m)[i] = aux.pipe[1 + i - 1]
      BY <3>2, SubSeqProperties
    <3>4. Len(SubSeq(aux.pipe, 1, m)) = m BY <3>3
    <3>5. \A i \in 1 .. m : SubSeq(aux.pipe, 1, m)[i] = aux.pipe[i] BY <3>3
    <3> QED BY <2>4, <3>1, <3>3, <3>4, <3>5
  <2>6. SubSeq(aux.pipe, 1, Len(aux.pipe) - 1) = front BY <2>3, <2>4, StreamTypes
  <2>7. /\ pipe \in Seq(R!Messages) /\ Len(pipe) = R!Unread + 1 /\ pipe[R!Unread + 1] = "route"
        /\ \A n \in 1 .. R!Unread : pipe[n] = aux.pipe[n]
    <3>1. pipe = Append(front, "route") BY <2>2, <2>6
    <3>2. "route" \in R!Messages BY DEF R!Messages
    <3>3. /\ pipe \in Seq(R!Messages) /\ Len(pipe) = Len(front) + 1 /\ pipe[Len(front) + 1] = "route"
          /\ \A n \in 1 .. Len(front) : pipe[n] = front[n]
      BY <2>5, <3>1, <3>2, AppendProperties
    <3> QED BY <2>5, <3>3
  <2>8. /\ sent \in Seq(Nat) /\ Len(sent) = Len(aux.sent) + 1 /\ \A n \in 1 .. Len(aux.sent) : sent[n] = aux.sent[n]
    BY <2>2, StreamTypes, AppendProperties
  <2>9. /\ age \in Seq(Nat) /\ Len(age) = Len(aux.age) + 1 /\ \A n \in 1 .. Len(aux.age) : age[n] = aux.age[n]
        /\ age[Len(aux.age) + 1] = mem.age
    BY <2>2, StreamTypes, AppendProperties
  <2>10. next \in Nat BY <2>2, StreamTypes
  <2>11. aux' = [aux EXCEPT !.pc = "render", !.idx = next, !.pipe = pipe, !.sent = sent, !.age = age] BY <2>1, <2>2
  <2>12. /\ aux' \in R!Workers /\ aux'.pipe = pipe /\ aux'.sent = sent /\ aux'.age = age /\ aux'.lapsed = aux.lapsed
         /\ aux'.crashed = aux.crashed /\ aux'.pc = "render"
    BY <2>7, <2>8, <2>9, <2>10, <2>11 DEF R!Workers
  <2>13. R!Got' = R!Got /\ R!Unread' = R!Unread + 1 BY <1>0, <2>8, <2>12, StreamTypes
  <2>14. R!PipeInv'
    <3>1. (R!Got <= Len(aux.sent) /\ \A n \in 1 .. R!Got : mem.out[n] = aux.sent[n])'
      <4>1. R!Got <= Len(aux.sent) /\ \A n \in 1 .. R!Got : mem.out[n] = aux.sent[n] BY <1>6 DEF R!PipeInv
      <4>2. \A n \in 1 .. R!Got : mem.out[n] = sent[n]
        <5> SUFFICES ASSUME NEW n \in 1 .. R!Got PROVE mem.out[n] = sent[n] OBVIOUS
        <5>1. n \in 1 .. Len(aux.sent) BY <4>1, StreamTypes
        <5> QED BY <2>8, <4>1, <5>1
      <4>3. R!Got <= Len(sent) BY <2>8, <4>1, StreamTypes
      <4> QED BY <1>0, <2>12, <2>13, <4>2, <4>3
    <3>2. \A n \in 1 .. R!Unread' : aux'.pipe[n] = "route"
      <4>1. \A n \in 1 .. R!Unread : aux.pipe[n] = "route" BY <1>6 DEF R!PipeInv
      <4> SUFFICES ASSUME NEW n \in 1 .. R!Unread + 1 PROVE pipe[n] = "route" BY <2>12, <2>13
      <4>2. CASE n = R!Unread + 1 BY <2>7, <4>2
      <4>3. CASE n # R!Unread + 1
        <5>1. n \in 1 .. R!Unread BY <4>3, StreamTypes
        <5> QED BY <2>7, <4>1, <5>1
      <4> QED BY <4>2, <4>3
    <3>3. \A n \in R!Got' + 1 .. Len(aux'.sent) : aux'.age[n] >= mem'.age
      <4>1. \A n \in R!Got + 1 .. Len(aux.sent) : aux.age[n] >= mem.age BY <1>6 DEF R!PipeInv
      <4> SUFFICES ASSUME NEW n \in R!Got + 1 .. Len(aux.sent) + 1 PROVE age[n] >= mem.age BY <1>0, <2>8, <2>12, <2>13
      <4>2. CASE n = Len(aux.sent) + 1 BY <2>3, <2>9, <4>2, StreamTypes
      <4>3. CASE n # Len(aux.sent) + 1
        <5>1. R!Got \in Nat /\ Len(aux.sent) \in Nat /\ Len(aux.age) = Len(aux.sent) BY <2>3, StreamTypes
        <5>2. n \in R!Got + 1 .. Len(aux.sent)
          <6> HIDE DEF R!StreamInv
          <6> QED BY <4>3, <5>1, SMTT(30)
        <5>3. n \in 1 .. Len(aux.age)
          <6> HIDE DEF R!StreamInv
          <6> QED BY <5>1, <5>2, SMTT(30)
        <5> QED BY <2>9, <4>1, <5>2, <5>3
      <4> QED BY <4>2, <4>3
    <3>4. Len(aux'.age) = Len(aux'.sent) /\ Len(aux'.pipe) = R!Unread' BY <2>3, <2>7, <2>8, <2>9, <2>12, <2>13
    <3> QED BY <2>12, <2>13, <3>1, <3>2, <3>3, <3>4, StreamTypes DEF R!PipeInv
  <2>15. R!TypeOK'
    <3>1. Len(aux'.age) = Len(aux'.sent) BY <2>3, <2>8, <2>9, <2>12
    <3> QED BY <1>0, <1>1, <1>6, <2>1, <2>12, <3>1 DEF R!TypeOK
  <2>16. R!LeftInv' BY <1>0, <1>6, <2>1, <2>12, <2>13 DEF R!LeftInv
  <2> QED BY <1>0, <2>12, <2>14, <2>15, <2>16
<1>10. R!Written => aux.pc \in {"write", "last"} BY DEF R!Written
<1> QED BY <1>3, <1>4, <1>5, <1>7, <1>8, <1>9, <1>10


\* The parent waits, gives up and kills; the clock goes on.
LEMMA StreamWaits ==
    ASSUME R!StreamInv, R!Poll \/ R!Lapse \/ R!IsAlive \/ R!GiveUp \/ R!List \/ R!Strike \/ R!Tick
    PROVE  R!StreamInv'
<1> USE DEF R!StreamInv
<1>0. faults' = faults /\ app' = app BY DEF R!Poll, R!Lapse, R!IsAlive, R!GiveUp, R!List, R!Strike, R!Tick
<1>1. R!TypeOK /\ R!LeftInv /\ R!PipeInv OBVIOUS
<1>2. CASE R!Poll \/ R!Lapse
  <2>1. mem' = mem /\ at = "poll" /\ at' \in {"recv", "lapsed"} BY <1>2 DEF R!Poll, R!Lapse
  <2>2. /\ aux' \in R!Workers /\ aux'.pipe = aux.pipe /\ aux'.sent = aux.sent /\ aux'.age = aux.age /\ aux'.pc = aux.pc
        /\ aux'.crashed = aux.crashed /\ (at' = "lapsed" => aux.pipe = <<>> /\ aux'.lapsed = Len(aux.sent))
    <3>1. CASE R!Poll BY <3>1 DEF R!Poll
    <3>2. CASE R!Lapse
      <4>1. PICK seen \in Nat : seen = Len(aux.sent) BY StreamTypes
      <4>2. aux' = [aux EXCEPT !.lapsed = seen] /\ aux.pipe = <<>> BY <3>2, <4>1 DEF R!Lapse, R!Lapses
      <4> QED BY <4>1, <4>2 DEF R!Workers
    <3> QED BY <1>2, <3>1, <3>2
  <2>3. R!TypeOK' BY <1>0, <1>1, <2>1, <2>2 DEF R!TypeOK
  <2>4. R!LeftInv'
    <3>1. mem.how = "none" BY <1>1, <2>1 DEF R!TypeOK
    <3>2. at' = "lapsed" => R!Got' >= aux'.lapsed
      <4> HAVE at' = "lapsed"
      <4>1. Len(aux.pipe) = 0 BY <2>2
      <4>2. R!Unread = 0 BY <4>1, StreamCounts
      <4> QED BY <2>1, <2>2, <4>2, StreamCounts
    <3> QED BY <2>1, <3>1, <3>2 DEF R!LeftInv
  <2> QED BY <2>1, <2>2, <2>3, <2>4, StreamRests
<1>3. CASE R!IsAlive
  <2>1. aux' = aux /\ at = "lapsed" /\ ((at' = "poll" /\ mem' = mem) \/ (at' = "kill" /\ mem' = [mem EXCEPT !.how = "gone"]))
    BY <1>3 DEF R!IsAlive, R!Leave
  <2>2. /\ mem' \in R!Parents /\ mem'.out = mem.out /\ mem'.age = mem.age
        /\ mem'.how \in {mem.how, "gone"} /\ (at' = "kill" <=> mem'.how = "gone") /\ at' \in {"poll", "kill"}
    BY <1>1, <2>1 DEF R!Parents, R!TypeOK
  <2>3. R!TypeOK' BY <1>0, <1>1, <2>1, <2>2 DEF R!TypeOK
  <2>4. R!LeftInv' BY <1>1, <2>1, <2>2 DEF R!LeftInv, R!Got, R!TypeOK
  <2> QED BY <2>1, <2>2, <2>3, <2>4, StreamRests
<1>4. CASE R!GiveUp
  <2>1. aux' = aux /\ at = "poll" /\ at' = "kill" /\ mem' = [mem EXCEPT !.how = "hung"] /\ mem.age >= TotalTimeout
    BY <1>4 DEF R!GiveUp, R!Leave, R!Late
  <2>2. mem' \in R!Parents /\ mem'.out = mem.out /\ mem'.age = mem.age /\ mem'.how = "hung" BY <2>1 DEF R!Parents
  <2>3. R!TypeOK' BY <1>0, <1>1, <2>1, <2>2 DEF R!TypeOK
  <2>4. R!LeftInv' BY <1>1, <2>1, <2>2 DEF R!LeftInv
  <2> QED BY <2>1, <2>2, <2>3, <2>4, StreamRests
<1>5. CASE R!List
  <2>1. aux' = aux /\ at = "kill" /\ at' \in {"strike", "end"} /\ (mem' = mem \/ mem' = [mem EXCEPT !.listed = R!Tree])
    BY <1>5 DEF R!List
  <2>2. R!Tree \subseteq {"worker", "browser"} BY DEF R!Tree
  <2>3. mem' \in R!Parents /\ mem'.out = mem.out /\ mem'.age = mem.age /\ mem'.how = mem.how BY <2>1, <2>2 DEF R!Parents
  <2>4. R!TypeOK' BY <1>0, <1>1, <2>1, <2>3 DEF R!TypeOK
  <2>5. R!LeftInv' BY <1>1, <2>1, <2>3 DEF R!LeftInv, R!Got, R!Alive
  <2> QED BY <2>1, <2>3, <2>4, <2>5, StreamRests
<1>6. CASE R!Strike
  <2>1. /\ mem' = mem /\ at = "strike" /\ at' = "end"
        /\ aux' = [aux EXCEPT !.pc = IF @ = "exited" THEN @ ELSE "killed",
                              !.browser = IF "browser" \in mem.listed THEN "none" ELSE @]
    BY <1>6 DEF R!Strike
  <2>2. PICK pc, browser : /\ pc = IF aux.pc = "exited" THEN aux.pc ELSE "killed"
                           /\ browser = IF "browser" \in mem.listed THEN "none" ELSE aux.browser
    OBVIOUS
  <2>3. pc \in {"exited", "killed"} /\ browser \in {"none", "up"} BY <2>2 DEF R!Workers
  <2>4. aux' = [aux EXCEPT !.pc = pc, !.browser = browser] BY <2>1, <2>2
  <2>5. /\ aux' \in R!Workers /\ aux'.pipe = aux.pipe /\ aux'.sent = aux.sent /\ aux'.age = aux.age /\ aux'.pc = pc
        /\ aux'.crashed = aux.crashed /\ aux'.lapsed = aux.lapsed
    BY <2>3, <2>4 DEF R!Workers
  <2>6. R!TypeOK' BY <1>0, <1>1, <2>1, <2>3, <2>5 DEF R!TypeOK
  <2>7. R!LeftInv' BY <1>1, <2>1, <2>3, <2>5 DEF R!LeftInv, R!Got, R!Alive
  <2> QED BY <2>1, <2>3, <2>5, <2>6, <2>7, StreamRests
<1>7. CASE R!Tick
  <2>1. /\ aux' = aux /\ at' = at /\ at \in {"poll", "lapsed", "recv"} /\ mem.age < TotalTimeout /\ R!Alive
        /\ mem' = [mem EXCEPT !.age = @ + 1] /\ aux.pipe = IF at = "recv" THEN <<"part">> ELSE <<>>
    BY <1>7 DEF R!Tick
  <2>2. PICK age \in Nat : age = mem.age + 1 BY StreamTypes
  <2>3. mem' \in R!Parents /\ mem'.out = mem.out /\ mem'.age = age /\ mem'.how = mem.how BY <2>1, <2>2 DEF R!Parents
  <2>4. age \in 0 .. TotalTimeout
    <3>1. mem.age \in Nat BY StreamTypes
    <3>2. TotalTimeout \in Nat BY ServicesAssumption DEF ServicesAssumption
    <3> QED BY <2>1, <2>2, <3>1, <3>2
  <2>5. R!Unread = 0
    <3>1. CASE at = "recv"
      <4>1. Len(aux.pipe) = 1 /\ aux.pipe[1] = "part" BY <2>1, <3>1
      <4>2. R!Unread = 0 \/ R!Unread = 1 BY <4>1, StreamCounts
      <4>3. R!Unread = 1 => aux.pipe[1] = "route" BY <1>1 DEF R!PipeInv
      <4> QED BY <4>1, <4>2, <4>3
    <3>2. CASE at # "recv"
      <4>1. Len(aux.pipe) = 0 BY <2>1, <3>2
      <4> QED BY <4>1, StreamCounts
    <3> QED BY <3>1, <3>2
  <2>6. R!TypeOK' BY <1>0, <1>1, <2>1, <2>3, <2>4 DEF R!TypeOK
  <2>7. R!LeftInv'
    <3>1. mem.how = "none" BY <1>1, <2>1 DEF R!TypeOK
    <3> QED BY <1>1, <2>1, <2>3, <3>1 DEF R!LeftInv, R!Got
  <2> QED BY <2>1, <2>3, <2>5, <2>6, <2>7, StreamRests
<1> QED BY <1>2, <1>3, <1>4, <1>5, <1>6, <1>7

\* The parent reads one message, or the end of the file.
LEMMA StreamReads == ASSUME R!StreamInv, R!Recv PROVE R!StreamInv'
<1> USE DEF R!StreamInv
<1>0. faults' = faults /\ app' = app /\ at = "recv" BY DEF R!Recv
<1>1. R!TypeOK /\ R!LeftInv /\ R!PipeInv OBVIOUS
<1>2. ASSUME NEW how \in {"eof", "raised"}, at' = "kill", mem' = [mem EXCEPT !.how = how], aux' = aux, ~R!Alive,
             how = "eof" => mem.out = aux.sent
      PROVE  R!StreamInv'
  <2>1. mem' \in R!Parents /\ mem'.out = mem.out /\ mem'.age = mem.age /\ mem'.how = how BY <1>2 DEF R!Parents
  <2>2. R!TypeOK' BY <1>0, <1>1, <1>2, <2>1 DEF R!TypeOK
  <2>3. R!LeftInv' BY <1>1, <1>2, <2>1 DEF R!LeftInv, R!Alive
  <2> QED BY <1>2, <2>1, <2>2, <2>3, StreamRests
<1>3. R!Unread = 0 => mem.out = aux.sent
  <2> HAVE R!Unread = 0
  <2>1. Len(mem.out) = Len(aux.sent) BY StreamTypes
  <2>2. \A n \in 1 .. Len(mem.out) : mem.out[n] = aux.sent[n] BY <1>1, StreamTypes DEF R!PipeInv
  <2> QED BY <2>1, <2>2, SeqEqual, StreamTypes
<1>4. CASE aux.pipe = <<>>
  <2>1. ~R!Alive /\ at' = "kill" /\ mem' = [mem EXCEPT !.how = "eof"] /\ aux' = aux BY <1>4 DEF R!Recv, R!Leave
  <2>2. Len(aux.pipe) = 0 BY <1>4
  <2>3. R!Unread = 0 BY <2>2, StreamCounts
  <2> QED BY <1>2, <1>3, <2>1, <2>3
<1>5. ASSUME aux.pipe # <<>> PROVE Len(aux.pipe) > 0 /\ Head(aux.pipe) = aux.pipe[1]
  BY <1>5, StreamTypes
<1>6. CASE aux.pipe # <<>> /\ Head(aux.pipe) = "part"
  <2>1. ~R!Alive /\ aux' = aux /\ at' = "kill" /\ \E how \in {"raised", "eof"} : mem' = [mem EXCEPT !.how = how]
    BY <1>6 DEF R!Recv, R!Leave
  <2>2. R!Unread = 0
    <3>1. aux.pipe[1] = "part" /\ Len(aux.pipe) > 0 BY <1>5, <1>6
    <3>2. \A n \in 1 .. R!Unread : aux.pipe[n] = "route" BY <1>1 DEF R!PipeInv
    <3>3. R!Unread \in Nat BY StreamTypes
    <3> QED BY <3>1, <3>2, <3>3
  <2> QED BY <1>2, <1>3, <2>1, <2>2
<1>7. CASE aux.pipe # <<>> /\ Head(aux.pipe) # "part"
  <2>1. PICK pipe : pipe = Tail(aux.pipe) OBVIOUS
  <2>2. /\ aux' = [aux EXCEPT !.pipe = pipe]
        /\ IF Head(aux.pipe) = "route"
           THEN at' = "poll" /\ mem' = [mem EXCEPT !.out = Append(@, aux.sent[Len(@) + 1])]
           ELSE at' = "kill" /\ mem' = [mem EXCEPT !.how = "done", !.sinks = TRUE]
    BY <1>7, <2>1 DEF R!Recv
  <2>3. /\ pipe \in Seq(R!Messages) /\ Len(pipe) = Len(aux.pipe) - 1
        /\ \A n \in 1 .. Len(pipe) : pipe[n] = aux.pipe[n + 1]
    BY <1>7, <2>1, StreamTypes, HeadTailProperties
  <2>4. /\ aux' \in R!Workers /\ aux'.pipe = pipe /\ aux'.sent = aux.sent /\ aux'.age = aux.age /\ aux'.pc = aux.pc
        /\ aux'.crashed = aux.crashed /\ aux'.lapsed = aux.lapsed
    BY <2>2, <2>3 DEF R!Workers
  <2>5. Len(aux.pipe) > 0 /\ Head(aux.pipe) = aux.pipe[1] /\ aux.pipe[1] # "part" BY <1>5, <1>7
  <2>6. CASE Head(aux.pipe) = "route"
    <3>1. R!Unread > 0
      <4> SUFFICES ASSUME R!Unread = 0 PROVE FALSE BY StreamTypes
      <4>1. Len(aux.pipe) = R!Unread + 1 BY <1>1, <2>5, StreamTypes DEF R!PipeInv
      <4>2. aux.pipe[R!Unread + 1] # "route" BY <1>1, <4>1 DEF R!PipeInv
      <4> QED BY <2>5, <2>6, <4>2
    <3>2. PICK out : out = Append(mem.out, aux.sent[Len(mem.out) + 1]) OBVIOUS
    <3>3. Len(mem.out) + 1 \in 1 .. Len(aux.sent) BY <3>1, StreamTypes
    <3>4. aux.sent[Len(mem.out) + 1] \in Nat BY <3>3, StreamTypes
    <3>5. /\ out \in Seq(Nat) /\ Len(out) = Len(mem.out) + 1 /\ \A n \in 1 .. Len(mem.out) : out[n] = mem.out[n]
          /\ out[Len(mem.out) + 1] = aux.sent[Len(mem.out) + 1]
      BY <3>2, <3>4, StreamTypes, AppendProperties
    <3>6. at' = "poll" /\ mem' = [mem EXCEPT !.out = out] BY <2>2, <2>6, <3>2
    <3>7. mem' \in R!Parents /\ mem'.out = out /\ mem'.age = mem.age /\ mem'.how = mem.how BY <3>5, <3>6 DEF R!Parents
    <3>8. R!Got' = R!Got + 1 /\ R!Unread' = R!Unread - 1 /\ Len(aux'.sent) = Len(aux.sent)
      <4>1. Len(aux'.sent) = Len(aux.sent) /\ Len(mem'.out) = Len(mem.out) + 1 BY <2>4, <3>5, <3>7
      <4> QED BY <4>1, StreamCounts
    <3>20. /\ R!Unread \in Nat /\ Len(aux.pipe) \in Nat /\ R!Unread' = R!Unread - 1 /\ Len(aux'.pipe) = Len(aux.pipe) - 1
           /\ Len(pipe) = Len(aux.pipe) - 1 /\ (Len(aux.pipe) = R!Unread \/ Len(aux.pipe) = R!Unread + 1)
      <4>1. R!Unread \in Nat /\ Len(aux.pipe) \in Nat BY StreamTypes
      <4>2. Len(aux.pipe) = R!Unread \/ Len(aux.pipe) = R!Unread + 1 BY StreamCounts
      <4> QED BY <2>3, <2>4, <3>8, <4>1, <4>2
    <3>9. (R!Got <= Len(aux.sent) /\ \A n \in 1 .. R!Got : mem.out[n] = aux.sent[n])'
      <4>1. R!Got' <= Len(aux'.sent) BY <3>3, <3>8, StreamTypes
      <4>2. \A n \in 1 .. Len(mem.out) : mem.out[n] = aux.sent[n] BY <1>1, StreamTypes DEF R!PipeInv
      <4>3. ASSUME NEW n \in 1 .. Len(mem.out) + 1 PROVE out[n] = aux.sent[n]
        <5>1. CASE n = Len(mem.out) + 1 BY <3>5, <5>1
        <5>2. CASE n # Len(mem.out) + 1
          <6>1. n \in 1 .. Len(mem.out) BY <5>2, StreamTypes
          <6> QED BY <3>5, <4>2, <6>1
        <5> QED BY <5>1, <5>2
      <4>4. R!Got' = Len(mem.out) + 1 BY <3>8, StreamTypes
      <4> QED BY <2>4, <3>7, <4>1, <4>3, <4>4
    <3>10. Len(aux'.pipe) \in {R!Unread', R!Unread' + 1}
      BY <3>20
    <3>11. ASSUME NEW n \in 1 .. R!Unread' PROVE aux'.pipe[n] = "route"
      <4>1. n \in 1 .. Len(pipe) /\ n + 1 \in 1 .. R!Unread BY <3>20
      <4>2. aux.pipe[n + 1] = "route" BY <1>1, <4>1 DEF R!PipeInv
      <4> QED BY <2>3, <2>4, <4>1, <4>2
    <3>12. ASSUME Len(aux'.pipe) = R!Unread' + 1
           PROVE  /\ aux.pipe[R!Unread + 1] # "route" /\ aux.pc \in {"write", "exited", "killed"}
                  /\ aux'.pipe[R!Unread' + 1] = aux.pipe[R!Unread + 1]
      <4>1. Len(aux.pipe) = R!Unread + 1 BY <3>20, <3>12
      <4>2. aux.pipe[R!Unread + 1] # "route" /\ aux.pc \in {"write", "exited", "killed"} BY <1>1, <4>1 DEF R!PipeInv
      <4>3. R!Unread \in 1 .. Len(pipe) BY <3>20, <3>1, <4>1
      <4>4. pipe[R!Unread] = aux.pipe[R!Unread + 1] BY <2>3, <4>3
      <4>5. R!Unread' + 1 = R!Unread BY <3>8, StreamCounts
      <4> QED BY <2>4, <4>2, <4>4, <4>5
    <3>13. (aux.pc = "write" => Len(aux.pipe) = R!Unread + 1 /\ aux.pipe[R!Unread + 1] = "part")'
      <4> HAVE aux'.pc = "write"
      <4>1. Len(aux.pipe) = R!Unread + 1 /\ aux.pipe[R!Unread + 1] = "part" BY <1>1, <2>4 DEF R!PipeInv
      <4>2. Len(aux'.pipe) = R!Unread' + 1 BY <2>3, <2>4, <3>8, <4>1, StreamCounts
      <4> QED BY <3>12, <4>1, <4>2
    <3>14. \A n \in R!Got' + 1 .. Len(aux'.sent) : aux'.age[n] >= mem'.age
      <4>1. \A n \in R!Got + 1 .. Len(aux.sent) : aux.age[n] >= mem.age BY <1>1 DEF R!PipeInv
      <4> SUFFICES ASSUME NEW n \in R!Got' + 1 .. Len(aux'.sent) PROVE aux'.age[n] >= mem'.age OBVIOUS
      <4>2. n \in R!Got + 1 .. Len(aux.sent) BY <3>8, StreamCounts
      <4> QED BY <2>4, <3>7, <4>1, <4>2
    <3>15. Len(aux'.age) = Len(aux'.sent) BY <1>1, <2>4 DEF R!PipeInv
    <3>16. R!PipeInv' BY <2>4, <3>9, <3>10, <3>11, <3>12, <3>13, <3>14, <3>15 DEF R!PipeInv
    <3>17. R!TypeOK' BY <1>0, <1>1, <2>4, <3>6, <3>7 DEF R!TypeOK
    <3>18. mem'.how = "none" BY <1>0, <1>1, <3>7 DEF R!TypeOK
    <3>19. R!LeftInv' BY <3>6, <3>18 DEF R!LeftInv
    <3> QED BY <2>4, <3>7, <3>16, <3>17, <3>19
  <2>7. CASE Head(aux.pipe) # "route"
    <3>1. at' = "kill" /\ mem' = [mem EXCEPT !.how = "done", !.sinks = TRUE] BY <2>2, <2>7
    <3>2. mem' \in R!Parents /\ mem'.out = mem.out /\ mem'.age = mem.age /\ mem'.how = "done" BY <3>1 DEF R!Parents
    <3>3. R!Unread = 0
      <4>1. R!Unread >= 1 => aux.pipe[1] = "route" BY <1>1, StreamTypes DEF R!PipeInv
      <4> QED BY <2>5, <2>7, <4>1, StreamTypes
    <3>4. Len(aux.pipe) = 1 BY <1>1, <2>5, <3>3, StreamTypes DEF R!PipeInv
    <3>5. aux.pc \in {"write", "exited", "killed"} BY <1>1, <3>3, <3>4 DEF R!PipeInv
    <3>6. aux.pc # "write" BY <1>1, <2>5, <3>3 DEF R!PipeInv
    <3>7. R!Got' = R!Got /\ R!Unread' = 0 /\ Len(aux'.pipe) = 0 BY <2>3, <2>4, <3>2, <3>3, <3>4, StreamTypes
    <3>8. R!PipeInv'
      <4>1. (R!Got <= Len(aux.sent) /\ \A n \in 1 .. R!Got : mem.out[n] = aux.sent[n])' BY <1>1, <2>4, <3>2, <3>7 DEF R!PipeInv
      <4>2. (\A n \in R!Got + 1 .. Len(aux.sent) : aux.age[n] >= mem.age)' BY <1>1, <2>4, <3>2, <3>7 DEF R!PipeInv
      <4>3. Len(aux'.age) = Len(aux'.sent) BY <1>1, <2>4 DEF R!PipeInv
      <4>4. 1 .. R!Unread' = {} BY <3>7
      <4> QED BY <2>4, <3>6, <3>7, <4>1, <4>2, <4>3, <4>4 DEF R!PipeInv
    <3>9. R!TypeOK' BY <1>0, <1>1, <2>4, <3>1, <3>2 DEF R!TypeOK
    <3>10. R!LeftInv' BY <1>3, <2>4, <3>1, <3>2, <3>3, <3>5, <3>6 DEF R!LeftInv, R!Alive
    <3> QED BY <2>4, <3>2, <3>8, <3>9, <3>10
  <2> QED BY <2>6, <2>7
<1> QED BY <1>4, <1>6, <1>7

\* No step of worker or parent breaks the order of the pipe.
LEMMA StreamStep == ASSUME R!StreamInv, R!Next PROVE R!StreamInv'
  BY StreamWorks, StreamWaits, StreamReads DEF R!Next, R!Works, R!Waits, R!Reads

\* Nor is it broken where nothing happens.
LEMMA StreamStutters == ASSUME R!StreamInv, UNCHANGED vars PROVE R!StreamInv'
  BY DEF vars, R!StreamInv, R!TypeOK, R!PipeInv, R!LeftInv, R!Got, R!Unread, R!Alive

\* A render starts with an empty pipe and an empty list.
LEMMA StreamInit == ASSUME R!Init PROVE R!StreamInv
<1> USE DEF R!Init
<1>1. mem \in R!Parents
  <2>1. <<>> \in Seq(Nat) OBVIOUS
  <2> QED BY <2>1 DEF R!Parents
<1>2. aux \in R!Workers
  <2>1. <<>> \in Seq(Nat) /\ <<>> \in Seq(R!Messages) OBVIOUS
  <2> QED BY <2>1 DEF R!Workers
<1>3. 0 \in 0 .. TotalTimeout /\ 0 \in 0 .. Crashes BY ServicesAssumption DEF ServicesAssumption
<1>4. /\ mem.how = "none" /\ mem.age = 0 /\ mem.out = <<>> /\ aux.pc = "start" /\ aux.sent = <<>> /\ aux.age = <<>>
      /\ aux.pipe = <<>> /\ ~aux.crashed
  OBVIOUS
<1>5. R!TypeOK BY <1>3, <1>4 DEF R!TypeOK
<1>6. R!PipeInv
  <2>1. R!Got = 0 /\ R!Unread = 0 /\ Len(aux.pipe) = 0 /\ Len(aux.sent) = 0 /\ Len(aux.age) = 0
    BY <1>4 DEF R!Got, R!Unread
  <2>2. 1 .. 0 = {} OBVIOUS
  <2> QED BY <1>4, <2>1, <2>2 DEF R!PipeInv
<1>7. R!LeftInv BY <1>4 DEF R!LeftInv
<1> QED BY <1>1, <1>2, <1>5, <1>6, <1>7 DEF R!StreamInv

\* What the parent has is what was sent first, and what it lacks came too late.
LEMMA StreamKeeps == ASSUME R!StreamInv PROVE R!StreamedIsKept
<1>1. R!PipeInv /\ R!LeftInv BY DEF R!StreamInv
<1>2. R!Got <= Len(aux.sent) /\ mem.out = SubSeq(aux.sent, 1, R!Got)
  <2>1. PICK m \in Nat : m = Len(mem.out) BY StreamTypes
  <2>2. m <= Len(aux.sent) /\ \A n \in 1 .. m : mem.out[n] = aux.sent[n] BY <1>1, <2>1, StreamTypes DEF R!PipeInv
  <2>3. \A n \in 1 .. m : mem.out[n] \in Nat /\ aux.sent[n] \in Nat
    <3> SUFFICES ASSUME NEW n \in 1 .. m PROVE mem.out[n] \in Nat /\ aux.sent[n] \in Nat OBVIOUS
    <3>1. mem.out \in Seq(Nat) /\ aux.sent \in Seq(Nat) /\ Len(aux.sent) \in Nat BY StreamTypes
    <3>2. n \in 1 .. Len(mem.out) /\ n \in 1 .. Len(aux.sent) BY <2>1, <2>2, <3>1
    <3> QED BY <3>1, <3>2
  <2>4. SubSeq(mem.out, 1, m) \in Seq(Nat) /\ SubSeq(aux.sent, 1, m) \in Seq(Nat)
    BY <2>3, SubSeqProperties
  <2>5. Len(SubSeq(mem.out, 1, m)) = m /\ Len(SubSeq(aux.sent, 1, m)) = m
    <3>1. Len(SubSeq(mem.out, 1, m)) = IF 1 <= m THEN m - 1 + 1 ELSE 0 BY <2>3, SubSeqProperties
    <3>2. Len(SubSeq(aux.sent, 1, m)) = IF 1 <= m THEN m - 1 + 1 ELSE 0 BY <2>3, SubSeqProperties
    <3> QED BY <3>1, <3>2
  <2>6. \A n \in 1 .. m : SubSeq(mem.out, 1, m)[n] = SubSeq(aux.sent, 1, m)[n]
    <3>1. \A i \in 1 .. m - 1 + 1 : SubSeq(mem.out, 1, m)[i] = mem.out[1 + i - 1] BY <2>3, SubSeqProperties
    <3>2. \A i \in 1 .. m - 1 + 1 : SubSeq(aux.sent, 1, m)[i] = aux.sent[1 + i - 1] BY <2>3, SubSeqProperties
    <3> QED BY <2>2, <3>1, <3>2
  <2>7. SubSeq(mem.out, 1, m) = SubSeq(aux.sent, 1, m) BY <2>4, <2>5, <2>6, SeqEqual
  <2> QED BY <2>1, <2>2, <2>7, StreamTypes
<1>3. mem.how = "hung" => \A n \in R!Got + 1 .. Len(aux.sent) : aux.age[n] >= TotalTimeout
  <2> SUFFICES ASSUME mem.how = "hung", NEW n \in R!Got + 1 .. Len(aux.sent) PROVE aux.age[n] >= TotalTimeout OBVIOUS
  <2>1. mem.age >= TotalTimeout /\ aux.age[n] >= mem.age BY <1>1 DEF R!PipeInv, R!LeftInv
  <2>2. n \in 1 .. Len(aux.age) BY StreamCounts
  <2>3. aux.age[n] \in Nat
    <3>1. aux.age \in Seq(Nat) BY StreamTypes
    <3> QED BY <2>2, <3>1
  <2>4. mem.age \in Nat BY StreamTypes
  <2>5. TotalTimeout \in Nat BY ServicesAssumption DEF ServicesAssumption
  <2> QED BY <2>1, <2>3, <2>4, <2>5
<1> QED BY <1>1, <1>2, <1>3 DEF R!StreamedIsKept, R!LeftInv

-----------------------------------------------------------------------------
(* What a signup reaches and says (Signup). *)

\* What is known of the browser and of the app's pages.
LEMMA SignupTypes ==
    ASSUME S!SignupInv
    PROVE  /\ {"page", "walk", "fishes", "stage", "answer"} \subseteq DOMAIN mem
           /\ {"typed", "asked", "account", "mails", "late", "dead"} \subseteq DOMAIN aux
           /\ mem.page \in S!Pages /\ mem.walk \in Seq(S!Pages) /\ Len(mem.walk) \in Nat
           /\ app.home \in S!Pages /\ app.button \in S!Pages
           /\ app.links \in Seq(S!Pages) /\ app.routes \in Seq(S!Pages) /\ app.logins \in Seq(S!Pages)
           /\ faults \in Nat /\ faults <= Faults /\ Faults \in Nat /\ aux.mails \subseteq {"code", "link"}
<1>1. S!FormInv /\ S!Site /\ S!SaidInv BY DEF S!SignupInv
<1>2. Faults \in Nat BY ServicesAssumption DEF ServicesAssumption
<1>3. faults \in 0 .. Faults /\ aux.mails \subseteq {"code", "link"} /\ mem.page \in S!Pages /\ mem.walk \in Seq(S!Pages)
  BY <1>1 DEF S!SaidInv, S!TypeOK
<1>4. /\ app.home \in S!Pages /\ app.button \in S!Pages
      /\ app.links \in Seq(S!Pages) /\ app.routes \in Seq(S!Pages) /\ app.logins \in Seq(S!Pages)
  BY <1>1 DEF S!Site
<1>5. /\ {"page", "walk", "fishes", "stage", "answer"} \subseteq DOMAIN mem
      /\ {"typed", "asked", "account", "mails", "late", "dead"} \subseteq DOMAIN aux
  BY <1>1 DEF S!FormInv
<1>6. faults \in Nat /\ faults <= Faults BY <1>2, <1>3
<1>7. Len(mem.walk) \in Nat BY <1>3
<1> QED BY <1>2, <1>3, <1>4, <1>5, <1>6, <1>7

\* A fault is counted, and in a browser that is alive nothing fails without one.
LEMMA SignupFaults ==
    ASSUME S!SignupInv, S!Fault \/ S!Fails \/ faults' = faults
    PROVE  /\ faults' \in 0 .. Faults /\ faults' \in Nat /\ (faults' = 0 => faults = 0)
           /\ faults' = 0 /\ ~aux.late => ~S!Fault /\ ~S!Fails /\ faults' = faults
<1>1. faults' = faults \/ (faults' = faults + 1 /\ faults < Faults) BY DEF S!Fault, S!Fails
<1>2. faults' \in 0 .. Faults /\ faults' \in Nat /\ (faults' = 0 => faults = 0 /\ faults' = faults) BY <1>1, SignupTypes
<1>3. faults' = 0 => ~S!Fault BY SignupTypes DEF S!Fault
<1>4. ~aux.late => ~aux.dead BY DEF S!SignupInv, S!SaidInv
<1>5. faults' = 0 /\ ~aux.late => ~S!Fails BY <1>3, <1>4 DEF S!Fails
<1> QED BY <1>2, <1>3, <1>5

\* A step up to the look at what was granted: nothing is said yet.
LEMMA SaidOn ==
    ASSUME S!SignupInv, app' = app,
           at' \in {"home", "links", "trigger", "routes", "reach", "send", "code", "second", "magic", "settle"},
           mem'.stage = "none", mem'.answer = "none", mem'.walk \in Seq(S!Pages), mem'.page \in S!Pages,
           faults' \in 0 .. Faults, aux'.mails \subseteq {"code", "link"},
           aux'.mails # {} => aux'.account \/ aux'.asked, aux'.dead => aux'.late,
           at' \in {"code", "second"} => aux'.asked, at' = "settle" => aux'.typed # {} \/ aux'.asked
    PROVE  S!SaidInv'
<1>1. S!TypeOK' BY DEF S!TypeOK
<1> QED BY <1>1 DEF S!SaidInv

\* What is said before the end.
LEMMA Unsaid ==
    ASSUME S!SignupInv
    PROVE  /\ at \notin {"mail", "end"} => mem.stage = "none" /\ mem.answer = "none"
           /\ aux.mails # {} => aux.account \/ aux.asked
           /\ aux.dead => aux.late
           /\ at \in {"code", "second"} => aux.asked
           /\ at \in {"settle", "mail"} => aux.typed # {} \/ aux.asked
  BY DEF S!SignupInv, S!SaidInv

\* An app does not change.
LEMMA SameSite == ASSUME app' = app PROVE (S!Reachable' <=> S!Reachable) /\ (S!HasAuth(app.home)' <=> S!HasAuth(app.home)) /\ (S!Site => S!Site')
<1>1. S!HasAuth(app.home)' <=> S!HasAuth(app.home) BY DEF S!HasAuth, S!HasPassword, S!Registers
<1>2. S!Reachable' <=> S!Reachable BY <1>1 DEF S!Reachable, S!Registers
<1>3. S!Site => S!Site' BY DEF S!Site, S!Pages
<1> QED BY <1>1, <1>2, <1>3

\* A password typed in a form that asks for one makes an account, unless it was a login form,
\* another's, or a button was pressed in its place.
LEMMA SubmittedStep ==
    ASSUME S!SignupInv, app' = app, faults' = faults, NEW where, NEW page \in S!Pages, S!HasPassword(page),
           S!Submitted(where, page), at \notin {"mail", "end"}
    PROVE  S!SaidInv' /\ S!ReachInv'
<1> DEFINE t == [where |-> where, form |-> page.form, own |-> page.own, sent |-> ~page.cta]
           sends == page.own /\ page.form \in S!Registers /\ ~page.cta
           shown == IF page.cta THEN app.button ELSE page
           typed == aux.typed \cup {t}
           account == aux.account \/ sends
           mails == IF sends /\ app.grants = "mail" THEN aux.mails \cup {"link"} ELSE aux.mails
<1>1. /\ at' = "settle" /\ mem' = [mem EXCEPT !.page = shown]
      /\ aux' = [aux EXCEPT !.typed = typed, !.account = account, !.mails = mails]
  BY DEF S!Submitted, S!Go
<1>2. shown \in S!Pages BY SignupTypes
<1>3. mails \subseteq {"code", "link"} /\ (mails # {} => account \/ aux.asked) BY SignupTypes, Unsaid
<1>4. t \in typed BY DEF typed
<1>5. account \/ t.form = "login" \/ ~t.own \/ ~t.sent BY DEF S!HasPassword, S!Pages, S!Registers
<1> HIDE DEF t, sends, shown, typed, account, mails
<1>6. /\ mem'.stage = "none" /\ mem'.answer = "none" /\ mem'.walk \in Seq(S!Pages) /\ mem'.page \in S!Pages
  BY <1>1, <1>2, SignupTypes, Unsaid
<1>7. aux'.typed = typed /\ aux'.account = account /\ aux'.mails = mails /\ aux'.asked = aux.asked /\ aux'.late = aux.late /\ aux'.dead = aux.dead
  BY <1>1, SignupTypes
<1>8. typed # {} BY <1>4
<1>9. faults' \in 0 .. Faults BY SignupFaults
<1>10. aux'.mails \subseteq {"code", "link"} /\ (aux'.mails # {} => aux'.account \/ aux'.asked) BY <1>3, <1>7
<1>11. aux'.dead => aux'.late BY <1>7, Unsaid
<1>12. S!SaidInv' BY <1>1, <1>6, <1>7, <1>8, <1>9, <1>10, <1>11, SaidOn
<1>13. aux'.account \/ S!Hijacked' BY <1>4, <1>5, <1>7 DEF S!Hijacked
<1> QED BY <1>1, <1>12, <1>13 DEF S!ReachInv

\* One page of a walk: a form with a password ends it, and a page that has none is left behind.
LEMMA VisitMoves ==
    ASSUME S!SignupInv, app' = app, NEW where, NEW page \in S!Pages, NEW pc \in {"links", "routes"}, NEW m,
           S!Visit(where, page, pc, m), at \notin {"mail", "end"},
           {"page", "walk", "fishes", "stage", "answer"} \subseteq DOMAIN m,
           m.stage = "none", m.answer = "none", m.walk \in Seq(S!Pages)
    PROVE  /\ S!SaidInv'
           /\ \/ S!ReachInv'
              \/ /\ at' = pc /\ aux' = aux /\ (faults' = 0 => faults = 0)
                 /\ mem'.walk = m.walk /\ mem'.fishes = m.fishes
                 /\ (faults' = 0 /\ ~aux.late => ~S!HasPassword(page))
<1>1. CASE S!Works /\ S!HasPassword(page) /\ S!Submitted(where, page) BY <1>1, SubmittedStep DEF S!Works
<1>2. ASSUME NEW shown \in S!Pages, at' = pc, mem' = [m EXCEPT !.page = shown], aux' = aux, S!Fails \/ faults' = faults,
             ~S!HasPassword(page) \/ S!Fails
      PROVE  /\ S!SaidInv' /\ (faults' = 0 => faults = 0) /\ mem'.walk = m.walk /\ mem'.fishes = m.fishes
             /\ (faults' = 0 /\ ~aux.late => ~S!HasPassword(page))
  <2>1. /\ mem'.stage = "none" /\ mem'.answer = "none" /\ mem'.walk = m.walk /\ mem'.page = shown /\ mem'.fishes = m.fishes
    BY <1>2
  <2>2. faults' \in 0 .. Faults /\ (faults' = 0 => faults = 0) /\ (faults' = 0 /\ ~aux.late => ~S!Fails) BY <1>2, SignupFaults
  <2>3. S!SaidInv' BY <1>2, <2>1, <2>2, SaidOn, SignupTypes, Unsaid
  <2> QED BY <1>2, <2>1, <2>2, <2>3
<1>3. CASE S!Works /\ ~S!HasPassword(page) /\ aux' = aux /\ S!Go(pc, [m EXCEPT !.page = page])
  BY <1>2, <1>3 DEF S!Works, S!Go
<1>4. CASE S!Missed(pc, page, m)
  <2>1. PICK shown \in {mem.page, page} : at' = pc /\ mem' = [m EXCEPT !.page = shown] BY <1>4 DEF S!Missed, S!Go
  <2>2. shown \in S!Pages BY SignupTypes
  <2> QED BY <1>2, <1>4, <2>1, <2>2 DEF S!Missed
<1> QED BY <1>1, <1>3, <1>4 DEF S!Visit

\* The homepage.
LEMMA SignupHome == ASSUME S!SignupInv, S!Home PROVE S!SaidInv' /\ S!ReachInv'
<1>0. app' = app /\ at = "home" /\ aux = aux BY DEF S!Home
<1>1. CASE S!Works /\ S!LooksLikeSignup(app.home) /\ S!HasPassword(app.home) /\ S!Submitted("home", app.home)
  BY <1>0, <1>1, SubmittedStep, SignupTypes DEF S!Works
<1>2. \A page \in S!Pages : S!Links(page) \in Seq(S!Pages)
  <2>1. <<>> \in Seq(S!Pages) OBVIOUS
  <2> QED BY <2>1, SignupTypes DEF S!Links
<1>3. CASE /\ S!Works /\ ~(S!LooksLikeSignup(app.home) /\ S!HasPassword(app.home)) /\ aux' = aux
           /\ S!Go("links", [mem EXCEPT !.page = app.home, !.fishes = S!HasAuth(app.home), !.walk = S!Links(app.home)])
  <2>1. PICK fishes, walk : fishes = S!HasAuth(app.home) /\ walk = S!Links(app.home) OBVIOUS
  <2>2. at' = "links" /\ mem' = [mem EXCEPT !.page = app.home, !.fishes = fishes, !.walk = walk] BY <1>3, <2>1 DEF S!Go
  <2>3. /\ mem'.page = app.home /\ mem'.fishes = fishes /\ mem'.walk = walk /\ mem'.stage = "none" /\ mem'.answer = "none"
    BY <1>0, <2>2, SignupTypes, Unsaid
  <2>4. walk = app.links /\ walk \in Seq(S!Pages) BY <2>1, SignupTypes DEF S!Links
  <2>5. faults' \in 0 .. Faults BY <1>3, SignupFaults DEF S!Works
  <2>6. S!SaidInv' BY <1>0, <1>3, <2>2, <2>3, <2>4, <2>5, SaidOn, SignupTypes, Unsaid
  <2>7. app.home.form # "signup" BY <1>3 DEF S!LooksLikeSignup, S!HasPassword, S!Registers
  <2>8. S!HasAuth(app.home)' <=> S!HasAuth(app.home) BY <1>0, SameSite
  <2>9. fishes <=> S!HasAuth(app.home)' BY <2>1, <2>8
  <2>10. \A n \in 1 .. Len(app.links) : S!Left(app.links[n])'
    <3> SUFFICES ASSUME NEW n \in 1 .. Len(app.links) PROVE S!Left(app.links[n])' OBVIOUS
    <3>1. n \in 1 .. Len(mem'.walk) /\ mem'.walk[n] = app'.links[n] BY <1>0, <2>3, <2>4
    <3> QED BY <3>1 DEF S!Left
  <2>11. app.links = <<>> => mem'.page = app.home /\ mem'.walk = <<>> BY <2>3, <2>4
  <2> QED BY <1>0, <2>2, <2>3, <2>6, <2>7, <2>9, <2>10, <2>11 DEF S!ReachInv
<1>4. CASE S!Fails /\ aux' = aux /\ \E shown \in {S!Blank, app.home} : S!Go("links", [mem EXCEPT !.page = shown, !.walk = S!Links(shown)])
  <2>1. PICK shown \in {S!Blank, app.home} : S!Go("links", [mem EXCEPT !.page = shown, !.walk = S!Links(shown)]) BY <1>4
  <2>2. shown \in S!Pages
    <3>1. S!Blank \in S!Pages BY DEF S!Blank, S!Pages
    <3> QED BY <3>1, SignupTypes
  <2>3. PICK walk \in Seq(S!Pages) : walk = S!Links(shown) BY <1>2, <2>2
  <2>4. at' = "links" /\ mem' = [mem EXCEPT !.page = shown, !.walk = walk] BY <2>1, <2>3 DEF S!Go
  <2>5. mem'.page = shown /\ mem'.walk = walk /\ mem'.stage = "none" /\ mem'.answer = "none" BY <1>0, <2>4, SignupTypes, Unsaid
  <2>6. faults' \in 0 .. Faults /\ ~(faults' = 0 /\ ~aux.late) BY <1>4, SignupFaults
  <2>7. S!SaidInv' BY <1>0, <1>4, <2>2, <2>4, <2>5, <2>6, SaidOn, SignupTypes, Unsaid
  <2> QED BY <1>4, <2>6, <2>7 DEF S!ReachInv
<1> QED BY <1>1, <1>3, <1>4 DEF S!Home

\* An address that is asked for.
LEMMA SignupAsked ==
    ASSUME S!SignupInv, aux' = S!Asked
    PROVE  /\ {"typed", "asked", "account", "mails", "late", "dead"} \subseteq DOMAIN aux'
           /\ aux'.mails \subseteq {"code", "link"} /\ aux'.asked /\ (aux'.late <=> aux.late) /\ (aux'.dead <=> aux.dead)
<1>1. PICK mails : mails = aux.mails \cup ({app.emails} \ {"nothing"}) OBVIOUS
<1>2. app.emails \in {"code", "link", "nothing"} BY DEF S!SignupInv, S!Site
<1>3. mails \subseteq {"code", "link"} BY <1>1, <1>2, SignupTypes
<1>4. aux' = [aux EXCEPT !.asked = TRUE, !.mails = mails] BY <1>1 DEF S!Asked
<1> QED BY <1>3, <1>4, SignupTypes

\* The next lane is taken without time, or where no page that was left had a form.
LEMMA SignupNextLane ==
    ASSUME S!SignupInv, app' = app, S!NextLane, at \in {"links", "routes"},
           faults = 0 /\ ~aux.late => ~S!Reachable
    PROVE  S!SaidInv' /\ S!ReachInv'
<1>1. PICK walk \in Seq(S!Pages), pc \in {"reach", "magic"} : at' = pc /\ mem' = [mem EXCEPT !.walk = walk]
  <2>1. <<app.home>> \o app.routes \in Seq(S!Pages) /\ <<app.home>> \o app.logins \in Seq(S!Pages)
    <3>1. <<app.home>> \in Seq(S!Pages) BY SignupTypes
    <3> QED BY <3>1, SignupTypes, ConcatProperties
  <2> QED BY <2>1 DEF S!NextLane, S!Go
<1>2. aux' = aux /\ faults' = faults BY DEF S!NextLane
<1>3. mem'.page = mem.page /\ mem'.walk = walk /\ mem'.stage = "none" /\ mem'.answer = "none" BY <1>1, SignupTypes, Unsaid
<1>4. faults' \in 0 .. Faults BY <1>2, SignupFaults
<1>5. S!SaidInv' BY <1>1, <1>2, <1>3, <1>4, SaidOn, SignupTypes, Unsaid
<1>6. S!Reachable' <=> S!Reachable BY SameSite
<1> QED BY <1>1, <1>2, <1>5, <1>6 DEF S!ReachInv

\* What is left of the pages in order.
LEMMA SignupRest ==
    ASSUME NEW walk \in Seq(S!Pages), NEW n \in 1 .. Len(walk)
    PROVE  /\ SubSeq(walk, n + 1, Len(walk)) \in Seq(S!Pages)
           /\ \A k \in 1 .. Len(walk) : k > n =>
                 \E j \in 1 .. Len(SubSeq(walk, n + 1, Len(walk))) : SubSeq(walk, n + 1, Len(walk))[j] = walk[k]
<1>1. PICK len \in Nat : len = Len(walk) OBVIOUS
<1>2. n \in 1 .. len /\ n + 1 \in Int /\ \A i \in n + 1 .. len : walk[i] \in S!Pages BY <1>1
<1>3. PICK rest : rest = SubSeq(walk, n + 1, len) OBVIOUS
<1>4. /\ rest \in Seq(S!Pages)
      /\ Len(rest) = IF n + 1 <= len THEN len - (n + 1) + 1 ELSE 0
      /\ \A i \in 1 .. len - (n + 1) + 1 : rest[i] = walk[n + 1 + i - 1]
  BY <1>2, <1>3, SubSeqProperties
<1>5. ASSUME NEW k \in 1 .. len, k > n PROVE \E j \in 1 .. Len(rest) : rest[j] = walk[k]
  <2>1. Len(rest) = len - n BY <1>2, <1>4, <1>5
  <2>2. PICK j \in 1 .. len - n : n + j = k
    <3>1. k - n \in 1 .. len - n /\ n + (k - n) = k BY <1>2, <1>5
    <3> QED BY <3>1
  <2>3. rest[j] = walk[n + 1 + j - 1] BY <1>2, <1>4, <2>2
  <2>4. n + 1 + j - 1 = k BY <1>2, <2>2
  <2> QED BY <2>1, <2>2, <2>3, <2>4
<1> QED BY <1>1, <1>3, <1>4, <1>5

\* Its own links: those before the one that is followed are another's.
LEMMA SignupLinks == ASSUME S!SignupInv, S!FollowLinks PROVE S!SaidInv' /\ S!ReachInv'
<1>0. app' = app /\ at = "links" /\ S!ReachInv BY DEF S!FollowLinks, S!SignupInv
<1>10. DOMAIN mem.walk = 1 .. Len(mem.walk) BY SignupTypes
<1>11. (S!Reachable' <=> S!Reachable) /\ (S!HasAuth(app.home)' <=> S!HasAuth(app.home)) BY <1>0, SameSite
<1>1. CASE /\ \A n \in DOMAIN mem.walk : ~S!Own(n)
           /\ faults' = faults /\ aux' = aux /\ S!Go("trigger", mem)
  <2>1. at' = "trigger" /\ mem' = mem BY <1>1 DEF S!Go
  <2>2. faults' \in 0 .. Faults BY <1>1, SignupFaults
  <2>3. S!SaidInv' BY <1>0, <1>1, <2>1, <2>2, SaidOn, SignupTypes, Unsaid
  <2>4. \A n \in 1 .. Len(app.links) : S!Left(app.links[n]) => ~app.links[n].own
    BY <1>1, <1>10 DEF S!Left, S!Own
  <2>5. faults = 0 /\ ~aux.late =>
          \A n \in 1 .. Len(app.links) : ~(app.links[n].own /\ app.links[n].form \in S!Registers)
    BY <1>0, <2>4 DEF S!ReachInv
  <2> QED BY <1>0, <1>1, <1>11, <2>1, <2>3, <2>5 DEF S!ReachInv, S!Registers
<1>2. ASSUME NEW n \in DOMAIN mem.walk, S!Own(n), \A k \in 1 .. n - 1 : ~S!Own(k), aux.late, S!NextLane
      PROVE  S!SaidInv' /\ S!ReachInv'
  BY <1>0, <1>2, SignupNextLane
<1>3. ASSUME NEW n \in DOMAIN mem.walk, S!Own(n), \A k \in 1 .. n - 1 : ~S!Own(k),
             S!Visit("link", mem.walk[n], "links", S!From(n + 1))
      PROVE  S!SaidInv' /\ S!ReachInv'
  <2>1. n \in 1 .. Len(mem.walk) /\ mem.walk[n] \in S!Pages BY <1>10, SignupTypes
  <2>2. PICK rest : rest = SubSeq(mem.walk, n + 1, Len(mem.walk)) OBVIOUS
  <2>3. rest \in Seq(S!Pages) /\ \A k \in 1 .. Len(mem.walk) : k > n => \E j \in 1 .. Len(rest) : rest[j] = mem.walk[k]
    BY <2>1, <2>2, SignupRest, SignupTypes
  <2>4. PICK m : m = S!From(n + 1) OBVIOUS
  <2>5. m = [mem EXCEPT !.walk = rest] BY <2>2, <2>4 DEF S!From
  <2>6. /\ {"page", "walk", "fishes", "stage", "answer"} \subseteq DOMAIN m /\ m.fishes = mem.fishes
        /\ m.stage = "none" /\ m.answer = "none" /\ m.walk = rest
    BY <1>0, <2>5, SignupTypes, Unsaid
  <2>7. S!Visit("link", mem.walk[n], "links", m) BY <1>3, <2>4
  <2>8. /\ S!SaidInv'
        /\ \/ S!ReachInv'
           \/ /\ at' = "links" /\ aux' = aux /\ (faults' = 0 => faults = 0)
              /\ mem'.walk = m.walk /\ mem'.fishes = m.fishes
              /\ (faults' = 0 /\ ~aux.late => ~S!HasPassword(mem.walk[n]))
    BY <1>0, <2>1, <2>3, <2>6, <2>7, VisitMoves
  <2>9. ASSUME at' = "links", aux' = aux, faults' = 0 => faults = 0, mem'.walk = rest, mem'.fishes = mem.fishes,
               faults' = 0 /\ ~aux.late => ~S!HasPassword(mem.walk[n])
        PROVE  S!ReachInv'
    <3> SUFFICES ASSUME faults' = 0, ~aux'.late PROVE S!ReachInv' BY DEF S!ReachInv
    <3>1. faults = 0 /\ ~aux.late /\ ~S!HasPassword(mem.walk[n]) BY <2>9
    <3>2. /\ mem.fishes <=> S!HasAuth(app.home)
          /\ app.home.form # "signup"
          /\ app.links = <<>> => mem.walk = <<>>
          /\ \A k \in 1 .. Len(app.links) : app.links[k].own /\ app.links[k].form \in S!Registers => S!Left(app.links[k])
      BY <1>0, <3>1 DEF S!ReachInv
    <3>3. app.links # <<>> BY <2>1, <3>2, SignupTypes
    <3>4. ASSUME NEW k \in 1 .. Len(app.links), app.links[k].own, app.links[k].form \in S!Registers
          PROVE  S!Left(app.links[k])'
      <4>1. PICK j \in 1 .. Len(mem.walk) : mem.walk[j] = app.links[k] BY <3>2, <3>4 DEF S!Left
      <4>2. ~(j < n)
        <5>1. j < n => j \in 1 .. n - 1 BY <2>1, SignupTypes
        <5>2. S!Own(j) BY <3>4, <4>1 DEF S!Own
        <5> QED BY <1>3, <5>1, <5>2
      <4>3. j # n BY <3>1, <3>4, <4>1 DEF S!HasPassword
      <4>4. j > n BY <2>1, <4>2, <4>3, SignupTypes
      <4>5. PICK i \in 1 .. Len(rest) : rest[i] = mem.walk[j] BY <2>3, <4>4
      <4> QED BY <1>0, <2>9, <4>1, <4>5 DEF S!Left
    <3> QED BY <1>0, <1>11, <2>9, <3>2, <3>3, <3>4 DEF S!ReachInv, S!Registers
  <2> QED BY <2>6, <2>8, <2>9
<1> QED BY <1>1, <1>2, <1>3 DEF S!FollowLinks

\* Its button: where nothing was linked, the browser is still on the homepage.
LEMMA SignupTrigger == ASSUME S!SignupInv, S!ClickTrigger PROVE S!SaidInv' /\ S!ReachInv'
<1>0. app' = app /\ at = "trigger" /\ S!ReachInv BY DEF S!ClickTrigger, S!SignupInv
<1>11. (S!Reachable' <=> S!Reachable) /\ (S!HasAuth(app.home)' <=> S!HasAuth(app.home)) BY <1>0, SameSite
<1>1. PICK fish : fish = [mem EXCEPT !.walk = app.routes] OBVIOUS
<1>2. /\ {"page", "walk", "fishes", "stage", "answer"} \subseteq DOMAIN fish /\ fish.fishes = mem.fishes
      /\ fish.stage = "none" /\ fish.answer = "none" /\ fish.walk = app.routes /\ fish.page = mem.page
  BY <1>0, <1>1, SignupTypes, Unsaid
<1>3. IF ~aux.late /\ mem.page.cta /\ ~aux.dead THEN S!Visit("button", app.button, "routes", fish)
      ELSE faults' = faults /\ aux' = aux /\ S!Go("routes", fish)
  BY <1>1 DEF S!ClickTrigger
<1>4. ASSUME at' = "routes", aux' = aux, faults' = 0 => faults = 0, mem'.walk = app.routes, mem'.fishes = mem.fishes,
             faults' = 0 /\ ~aux.late /\ app.links = <<>> /\ app.home.cta => app.button.form \notin S!Registers
      PROVE  S!ReachInv'
  <2> SUFFICES ASSUME faults' = 0, ~aux'.late PROVE S!ReachInv' BY DEF S!ReachInv
  <2>1. faults = 0 /\ ~aux.late BY <1>4
  <2>2. /\ mem.fishes <=> S!HasAuth(app.home)
        /\ app.home.form # "signup"
        /\ \A k \in 1 .. Len(app.links) : ~(app.links[k].own /\ app.links[k].form \in S!Registers)
    BY <1>0, <2>1 DEF S!ReachInv
  <2>3. ~(app.home.cta /\ app.links = <<>> /\ app.button.form \in S!Registers) BY <1>4, <2>1
  <2>4. \A n \in 1 .. Len(app.routes) : S!Left(app.routes[n])'
    <3> SUFFICES ASSUME NEW n \in 1 .. Len(app.routes) PROVE S!Left(app.routes[n])' OBVIOUS
    <3>1. n \in 1 .. Len(mem'.walk) /\ mem'.walk[n] = app'.routes[n] BY <1>0, <1>4
    <3> QED BY <3>1 DEF S!Left
  <2> QED BY <1>0, <1>4, <1>11, <2>2, <2>3, <2>4 DEF S!ReachInv, S!Registers
<1>5. CASE ~aux.late /\ mem.page.cta /\ ~aux.dead
  <2>1. /\ S!SaidInv'
        /\ \/ S!ReachInv'
           \/ /\ at' = "routes" /\ aux' = aux /\ (faults' = 0 => faults = 0)
              /\ mem'.walk = fish.walk /\ mem'.fishes = fish.fishes
              /\ (faults' = 0 /\ ~aux.late => ~S!HasPassword(app.button))
    BY <1>0, <1>2, <1>3, <1>5, SignupTypes, VisitMoves
  <2>2. ~S!HasPassword(app.button) => app.button.form \notin S!Registers BY DEF S!HasPassword
  <2> QED BY <1>2, <1>4, <2>1, <2>2
<1>6. CASE ~(~aux.late /\ mem.page.cta /\ ~aux.dead)
  <2>1. faults' = faults /\ aux' = aux /\ at' = "routes" /\ mem' = fish BY <1>3, <1>6 DEF S!Go
  <2>2. faults' \in 0 .. Faults BY <2>1, SignupFaults
  <2>3. S!SaidInv' BY <1>0, <1>2, <2>1, <2>2, SaidOn, SignupTypes, Unsaid
  <2>4. faults' = 0 /\ ~aux.late => ~(app.links = <<>> /\ app.home.cta)
    BY <1>0, <1>6, <2>1, Unsaid DEF S!ReachInv
  <2> QED BY <1>2, <1>4, <2>1, <2>3, <2>4
<1> QED BY <1>5, <1>6

\* The routes that apps often have.
LEMMA SignupRoutes == ASSUME S!SignupInv, S!FishRoutes PROVE S!SaidInv' /\ S!ReachInv'
<1>0. app' = app /\ at = "routes" /\ S!ReachInv BY DEF S!FishRoutes, S!SignupInv
<1>11. (S!Reachable' <=> S!Reachable) /\ (S!HasAuth(app.home)' <=> S!HasAuth(app.home)) BY <1>0, SameSite
<1>1. faults = 0 /\ ~aux.late =>
        /\ mem.fishes <=> S!HasAuth(app.home)
        /\ app.home.form # "signup"
        /\ \A k \in 1 .. Len(app.links) : ~(app.links[k].own /\ app.links[k].form \in S!Registers)
        /\ ~(app.home.cta /\ app.links = <<>> /\ app.button.form \in S!Registers)
        /\ \A n \in 1 .. Len(app.routes) : app.routes[n].form \in S!Registers => S!Left(app.routes[n])
  BY <1>0 DEF S!ReachInv
<1>2. CASE (~mem.fishes \/ mem.walk = <<>> \/ aux.late) /\ S!NextLane
  <2>1. faults = 0 /\ ~aux.late => ~S!Reachable
    <3> SUFFICES ASSUME faults = 0, ~aux.late, S!Reachable PROVE FALSE OBVIOUS
    <3>1. PICK n \in 1 .. Len(app.routes) : S!HasAuth(app.home) /\ app.routes[n].form \in S!Registers BY <1>1 DEF S!Reachable
    <3>2. mem.fishes /\ S!Left(app.routes[n]) BY <1>1, <3>1
    <3>3. mem.walk = <<>> BY <1>2, <3>2
    <3>4. Len(mem.walk) = 0 BY <3>3
    <3> QED BY <3>2, <3>4 DEF S!Left
  <2> QED BY <1>0, <1>2, <2>1, SignupNextLane
<1>3. CASE mem.walk # <<>> /\ ~aux.late /\ S!Visit("route", Head(mem.walk), "routes", S!Further)
  <2>1. PICK m, rest : m = S!Further /\ rest = Tail(mem.walk) OBVIOUS
  <2>2. /\ Head(mem.walk) = mem.walk[1] /\ mem.walk[1] \in S!Pages /\ rest \in Seq(S!Pages) /\ Len(rest) = Len(mem.walk) - 1
        /\ \A i \in 1 .. Len(rest) : rest[i] = mem.walk[i + 1]
    <3>1. Len(mem.walk) > 0 /\ Head(mem.walk) = mem.walk[1] /\ mem.walk[1] \in S!Pages BY <1>3, SignupTypes
    <3>2. /\ rest \in Seq(S!Pages) /\ Len(rest) = Len(mem.walk) - 1 /\ \A i \in 1 .. Len(rest) : rest[i] = mem.walk[i + 1]
      BY <1>3, <2>1, SignupTypes, HeadTailProperties
    <3> QED BY <3>1, <3>2
  <2>3. m = [mem EXCEPT !.walk = rest] BY <2>1 DEF S!Further
  <2>4. /\ {"page", "walk", "fishes", "stage", "answer"} \subseteq DOMAIN m /\ m.fishes = mem.fishes
        /\ m.stage = "none" /\ m.answer = "none" /\ m.walk = rest
    BY <1>0, <2>3, SignupTypes, Unsaid
  <2>5. S!Visit("route", mem.walk[1], "routes", m) BY <1>3, <2>1, <2>2
  <2>6. /\ S!SaidInv'
        /\ \/ S!ReachInv'
           \/ /\ at' = "routes" /\ aux' = aux /\ (faults' = 0 => faults = 0)
              /\ mem'.walk = m.walk /\ mem'.fishes = m.fishes
              /\ (faults' = 0 /\ ~aux.late => ~S!HasPassword(mem.walk[1]))
    BY <1>0, <2>2, <2>4, <2>5, VisitMoves
  <2>7. ASSUME at' = "routes", aux' = aux, faults' = 0 => faults = 0, mem'.walk = rest, mem'.fishes = mem.fishes,
               faults' = 0 /\ ~aux.late => ~S!HasPassword(mem.walk[1])
        PROVE  S!ReachInv'
    <3> SUFFICES ASSUME faults' = 0, ~aux'.late PROVE S!ReachInv' BY DEF S!ReachInv
    <3>1. faults = 0 /\ ~aux.late /\ ~S!HasPassword(mem.walk[1]) BY <2>7
    <3>2. ASSUME NEW n \in 1 .. Len(app.routes), app.routes[n].form \in S!Registers PROVE S!Left(app.routes[n])'
      <4>1. PICK j \in 1 .. Len(mem.walk) : mem.walk[j] = app.routes[n] BY <1>1, <3>1, <3>2 DEF S!Left
      <4>2. j # 1 BY <3>1, <3>2, <4>1 DEF S!HasPassword
      <4>3. PICK i \in 1 .. Len(rest) : i + 1 = j
        <5>1. j - 1 \in 1 .. Len(rest) /\ (j - 1) + 1 = j BY <2>2, <4>2, SignupTypes
        <5> QED BY <5>1
      <4>4. rest[i] = mem.walk[j] BY <2>2, <4>3
      <4> QED BY <1>0, <2>7, <4>1, <4>3, <4>4 DEF S!Left
    <3> QED BY <1>0, <1>1, <1>11, <2>7, <3>1, <3>2 DEF S!ReachInv, S!Registers
  <2> QED BY <2>4, <2>6, <2>7
<1> QED BY <1>2, <1>3 DEF S!FishRoutes

\* Behind the walk it is settled whether a form could be reached.
LEMMA SignupPast ==
    ASSUME S!SignupInv, app' = app, at \in {"reach", "send", "code", "second", "magic"},
           at' \in {"reach", "send", "code", "second", "magic", "settle", "mail", "end"},
           faults' = 0 => faults = 0, aux.late => aux'.late
    PROVE  S!ReachInv'
<1>1. S!Reachable' <=> S!Reachable BY SameSite
<1>2. faults = 0 /\ ~aux.late => ~S!Reachable BY DEF S!SignupInv, S!ReachInv
<1> QED BY <1>1, <1>2 DEF S!ReachInv

\* The end of the wizard.
LEMMA SignupDeadEnd ==
    ASSUME S!SignupInv, app' = app, at \in {"reach", "send", "code", "second"}, S!DeadEnd, faults' = faults \/ S!Fails,
           aux' \in {aux, S!Asked}
    PROVE  S!SaidInv' /\ S!ReachInv'
<1>1. PICK walk \in Seq(S!Pages) : at' = "magic" /\ mem' = [mem EXCEPT !.walk = walk]
  <2>1. <<app.home>> \o app.logins \in Seq(S!Pages)
    <3>1. <<app.home>> \in Seq(S!Pages) BY SignupTypes
    <3> QED BY <3>1, SignupTypes, ConcatProperties
  <2> QED BY <2>1 DEF S!DeadEnd, S!Go
<1>2. mem'.page = mem.page /\ mem'.walk = walk /\ mem'.stage = "none" /\ mem'.answer = "none" BY <1>1, SignupTypes, Unsaid
<1>3. faults' \in 0 .. Faults /\ (faults' = 0 => faults = 0) BY SignupFaults
<1>4. S!SaidInv' /\ (aux'.late <=> aux.late)
  <2>1. CASE aux' = aux BY <1>1, <1>2, <1>3, <2>1, SaidOn, SignupTypes, Unsaid
  <2>2. CASE aux' = S!Asked BY <1>1, <1>2, <1>3, <2>2, SignupAsked, SaidOn, SignupTypes, Unsaid
  <2> QED BY <2>1, <2>2
<1> QED BY <1>1, <1>3, <1>4, SignupPast

\* The first lane of the wizard looks for a form with an address.
LEMMA SignupReach == ASSUME S!SignupInv, S!ReachEmailStep PROVE S!SaidInv' /\ S!ReachInv'
<1>0. app' = app /\ at = "reach" /\ aux' = aux BY DEF S!ReachEmailStep
<1>1. CASE mem.walk = <<>> /\ faults' = faults /\ S!DeadEnd BY <1>0, <1>1, SignupDeadEnd
<1>2. CASE /\ mem.walk # <<>> /\ (faults' = faults \/ S!Fails)
           /\ \E shown \in {mem.page, Head(mem.walk)}, pc \in {"send", "reach"} : S!Go(pc, [S!Further EXCEPT !.page = shown])
  <2>1. PICK rest : rest = Tail(mem.walk) OBVIOUS
  <2>2. rest \in Seq(S!Pages) /\ Head(mem.walk) \in S!Pages BY <1>2, <2>1, SignupTypes, HeadTailProperties
  <2>3. PICK shown \in S!Pages, pc \in {"send", "reach"} : S!Go(pc, [S!Further EXCEPT !.page = shown]) BY <1>2, <2>2, SignupTypes
  <2>4. at' = pc /\ mem' = [mem EXCEPT !.walk = rest, !.page = shown] BY <2>1, <2>3 DEF S!Go, S!Further
  <2>5. mem'.page = shown /\ mem'.walk = rest /\ mem'.stage = "none" /\ mem'.answer = "none" BY <1>0, <2>4, SignupTypes, Unsaid
  <2>6. faults' \in 0 .. Faults /\ (faults' = 0 => faults = 0) BY <1>2, SignupFaults
  <2>7. S!SaidInv' BY <1>0, <2>2, <2>4, <2>5, <2>6, SaidOn, SignupTypes, Unsaid
  <2> QED BY <1>0, <2>4, <2>6, <2>7, SignupPast
<1> QED BY <1>1, <1>2 DEF S!ReachEmailStep, S!Works

\* The address, the code, the password.
LEMMA SignupWizard == ASSUME S!SignupInv, S!SendAddress \/ S!FetchCode \/ S!SubmitCode PROVE S!SaidInv' /\ S!ReachInv'
<1>0. app' = app /\ at \in {"send", "code", "second"} /\ (faults' = faults \/ S!Fails)
  BY DEF S!SendAddress, S!FetchCode, S!SubmitCode, S!Works
<1>1. faults' \in 0 .. Faults /\ (faults' = 0 => faults = 0) BY <1>0, SignupFaults
<1>2. CASE S!DeadEnd /\ aux' \in {aux, S!Asked} BY <1>0, <1>2, SignupDeadEnd
<1>3. ASSUME mem' = mem, at' \in {"code", "second", "settle"}, {"typed", "asked", "account", "mails", "late", "dead"} \subseteq DOMAIN aux',
             aux'.mails \subseteq {"code", "link"}, aux'.asked, aux'.late <=> aux.late, aux'.dead <=> aux.dead
      PROVE  S!SaidInv' /\ S!ReachInv'
  <2>1. S!SaidInv' BY <1>0, <1>1, <1>3, SaidOn, SignupTypes, Unsaid
  <2> QED BY <1>0, <1>1, <1>3, <2>1, SignupPast
<1>4. CASE S!SendAddress /\ ~S!DeadEnd
  <2>1. aux' = S!Asked /\ at' = "code" /\ mem' = mem BY <1>4 DEF S!SendAddress, S!Go
  <2> QED BY <1>3, <2>1, SignupAsked
<1>5. CASE S!FetchCode /\ ~S!DeadEnd
  <2>1. aux' = aux /\ at' = "second" /\ mem' = mem /\ at = "code" BY <1>5 DEF S!FetchCode, S!Go
  <2> QED BY <1>3, <2>1, SignupTypes, Unsaid
<1>6. CASE S!SubmitCode /\ ~S!DeadEnd
  <2>1. at = "second" /\ at' = "settle" /\ mem' = mem BY <1>6 DEF S!SubmitCode, S!Go
  <2>2. aux' = aux \/ \E typed : aux' = [aux EXCEPT !.account = TRUE, !.typed = typed] BY <1>6 DEF S!SubmitCode
  <2>3. /\ {"typed", "asked", "account", "mails", "late", "dead"} \subseteq DOMAIN aux'
        /\ aux'.mails = aux.mails /\ aux'.asked = aux.asked /\ aux'.late = aux.late /\ aux'.dead = aux.dead
    BY <2>2, SignupTypes
  <2>4. aux.asked BY <2>1, Unsaid
  <2> QED BY <1>3, <2>1, <2>3, <2>4, SignupTypes
<1>7. S!FetchCode \/ S!SubmitCode => aux' = aux \/ ~S!DeadEnd
  BY DEF S!FetchCode, S!SubmitCode, S!DeadEnd, S!Go
<1>8. S!SendAddress => aux' \in {aux, S!Asked} BY DEF S!SendAddress
<1> QED BY <1>2, <1>4, <1>5, <1>6, <1>7, <1>8

\* The form that mails a link.
LEMMA SignupMagic == ASSUME S!SignupInv, S!AskForLink PROVE S!SaidInv' /\ S!ReachInv'
<1>0. app' = app /\ at = "magic" BY DEF S!AskForLink
<1>1. CASE mem.walk = <<>>
  <2>1. faults' = faults /\ aux' = aux /\ at' = "end" /\ mem' = [mem EXCEPT !.stage = "unreached"]
    BY <1>1 DEF S!AskForLink, S!Go
  <2>2. /\ mem'.page = mem.page /\ mem'.walk = mem.walk /\ mem'.stage = "unreached" /\ mem'.answer = "none"
    BY <1>0, <2>1, SignupTypes, Unsaid
  <2>3. faults' \in 0 .. Faults /\ (faults' = 0 => faults = 0) BY <2>1, SignupFaults
  <2>4. aux.typed = {}
    <3>1. S!FormInv BY DEF S!SignupInv
    <3> QED BY <1>0, <3>1 DEF S!FormInv
  <2>5. S!TypeOK' BY <2>1, <2>2, <2>3, SignupTypes DEF S!TypeOK
  <2>6. S!SaidInv' BY <2>1, <2>2, <2>4, <2>5, SignupTypes, Unsaid DEF S!SaidInv
  <2> QED BY <1>0, <2>1, <2>3, <2>6, SignupPast
<1>2. CASE mem.walk # <<>>
  <2>1. PICK rest, page, first : /\ rest = Tail(mem.walk) /\ page = Head(mem.walk)
                                 /\ first = (Len(mem.walk) = 1 + Len(app.logins))
    OBVIOUS
  <2>2. rest \in Seq(S!Pages) /\ page \in S!Pages BY <1>2, <2>1, SignupTypes, HeadTailProperties
  <2>3. \/ S!Works /\ aux' = S!Asked /\ S!Go("settle", [mem EXCEPT !.page = page])
        \/ S!Works /\ aux' = aux /\ \E walk \in {<<>>, rest} : S!Go("magic", [mem EXCEPT !.page = page, !.walk = walk])
        \/ S!Missed("magic", page, S!Further)
    BY <1>2, <2>1 DEF S!AskForLink
  <2>4. CASE S!Works /\ aux' = S!Asked /\ S!Go("settle", [mem EXCEPT !.page = page])
    <3>1. faults' \in 0 .. Faults /\ (faults' = 0 => faults = 0) BY <2>4, SignupFaults DEF S!Works
    <3>2. at' = "settle" /\ mem'.page = page /\ mem'.walk = mem.walk /\ mem'.stage = "none" /\ mem'.answer = "none"
      BY <1>0, <2>4, SignupTypes, Unsaid DEF S!Go
    <3>3. S!SaidInv' BY <1>0, <2>2, <2>4, <3>1, <3>2, SaidOn, SignupAsked, SignupTypes, Unsaid
    <3> QED BY <1>0, <2>4, <3>1, <3>2, <3>3, SignupAsked, SignupPast
  <2>5. ASSUME NEW shown \in S!Pages, NEW walk \in Seq(S!Pages), aux' = aux, S!Fails \/ faults' = faults,
               at' = "magic", mem' = [mem EXCEPT !.page = shown, !.walk = walk]
        PROVE  S!SaidInv' /\ S!ReachInv'
    <3>1. faults' \in 0 .. Faults /\ (faults' = 0 => faults = 0) BY <2>5, SignupFaults
    <3>2. mem'.page = shown /\ mem'.walk = walk /\ mem'.stage = "none" /\ mem'.answer = "none"
      BY <1>0, <2>5, SignupTypes, Unsaid
    <3>3. S!SaidInv' BY <1>0, <2>5, <3>1, <3>2, SaidOn, SignupTypes, Unsaid
    <3> QED BY <1>0, <2>5, <3>1, <3>3, SignupPast
  <2>6. CASE S!Works /\ aux' = aux /\ \E walk \in {<<>>, rest} : S!Go("magic", [mem EXCEPT !.page = page, !.walk = walk])
    <3>1. <<>> \in Seq(S!Pages) OBVIOUS
    <3> QED BY <2>2, <2>5, <2>6, <3>1 DEF S!Works, S!Go
  <2>7. CASE S!Missed("magic", page, S!Further)
    <3>1. PICK shown \in {mem.page, page} : S!Go("magic", [S!Further EXCEPT !.page = shown]) /\ S!Fails /\ aux' = aux
      BY <2>7 DEF S!Missed
    <3>2. shown \in S!Pages BY <2>2, SignupTypes
    <3>3. at' = "magic" /\ mem' = [mem EXCEPT !.page = shown, !.walk = rest]
      <4>1. mem' = [[mem EXCEPT !.walk = rest] EXCEPT !.page = shown] BY <2>1, <3>1 DEF S!Go, S!Further
      <4>2. [[mem EXCEPT !.walk = rest] EXCEPT !.page = shown] = [mem EXCEPT !.page = shown, !.walk = rest] BY SignupTypes
      <4> QED BY <3>1, <4>1, <4>2 DEF S!Go
    <3> QED BY <2>2, <2>5, <3>1, <3>2, <3>3
  <2> QED BY <2>3, <2>4, <2>6, <2>7
<1> QED BY <1>1, <1>2

\* What was granted, and the link that was mailed.
LEMMA SignupSettles == ASSUME S!SignupInv, S!Settle \/ S!Verify PROVE S!SaidInv' /\ S!ReachInv'
<1>0. app' = app /\ aux' = aux /\ at \in {"settle", "mail"} BY DEF S!Settle, S!Verify
<1>1. PICK stage, answer, pc : stage = mem'.stage /\ answer = mem'.answer /\ pc = at' OBVIOUS
<1>2. mem'.page = mem.page /\ mem'.walk = mem.walk /\ pc \in {"mail", "end"}
  BY <1>1, SignupTypes DEF S!Settle, S!Verify, S!Go
<1>3. faults' \in 0 .. Faults /\ (faults' = 0 => faults = 0) /\ (S!Fault => faults' # 0)
  <2>1. S!Fault \/ faults' = faults BY DEF S!Settle, S!Verify, S!Works
  <2>2. S!Fault => faults' # 0 BY SignupTypes DEF S!Fault
  <2> QED BY <2>1, <2>2, SignupFaults
<1>4. (S!Granted' <=> S!Granted) /\ (S!Hijacked' <=> S!Hijacked) /\ (S!Reachable' <=> S!Reachable)
  BY <1>0, SameSite DEF S!Granted, S!Hijacked
<1>5. S!ReachInv'
  <2>1. S!ReachInv BY DEF S!SignupInv
  <2> QED BY <1>0, <1>1, <1>2, <1>3, <1>4, <2>1 DEF S!ReachInv
<1>6. /\ aux.typed # {} \/ aux.asked
      /\ (aux.mails # {} => aux.account \/ aux.asked) /\ (aux.dead => aux.late)
  BY <1>0, Unsaid
<1>7. ASSUME stage \in {"none", "ungranted", "raised"}, answer \in {"none", "pending", "session", "verified", "inert"},
             pc = "mail" => stage = "ungranted" /\ answer = "pending" /\ app.mode # "bare",
             stage = "ungranted" => ~app.visits /\ (faults' = 0 => ~S!Granted),
             answer = "session" => S!Granted \/ app.visits,
             answer = "verified" => app.mode # "bare" /\ (aux.account \/ aux.asked)
      PROVE  S!SaidInv' /\ S!ReachInv'
  <2>1. S!TypeOK' BY <1>0, <1>1, <1>2, <1>3, <1>7, SignupTypes DEF S!TypeOK
  <2>2. S!SaidInv' BY <1>0, <1>1, <1>2, <1>4, <1>6, <1>7, <2>1, SignupTypes DEF S!SaidInv
  <2> QED BY <1>5, <2>2
<1>8. CASE S!Settle
  <2>1. mem.stage = "none" /\ mem.answer = "none" BY <1>8, Unsaid DEF S!Settle
  <2>2. \/ S!Works /\ (S!Granted \/ app.visits) /\ S!Go("end", [mem EXCEPT !.answer = "session"])
        \/ S!Works /\ ~(S!Granted \/ app.visits) /\ app.mode = "bare" /\ S!Go("end", [mem EXCEPT !.stage = "ungranted"])
        \/ S!Works /\ ~(S!Granted \/ app.visits) /\ app.mode # "bare"
              /\ S!Go("mail", [[mem EXCEPT !.stage = "ungranted"] EXCEPT !.answer = "pending"])
        \/ S!Fault /\ ~app.visits /\ app.mode = "bare" /\ S!Go("end", [mem EXCEPT !.stage = "ungranted"])
        \/ S!Fault /\ ~app.visits /\ app.mode # "bare"
              /\ S!Go("mail", [[mem EXCEPT !.stage = "ungranted"] EXCEPT !.answer = "pending"])
        \/ S!Go("end", [mem EXCEPT !.stage = "raised"])
    BY <1>8 DEF S!Settle
  <2>3. CASE (S!Granted \/ app.visits) /\ S!Go("end", [mem EXCEPT !.answer = "session"])
    BY <1>1, <1>7, <2>1, <2>3, SignupTypes DEF S!Go
  <2>4. CASE S!Go("end", [mem EXCEPT !.stage = "ungranted"]) /\ ~app.visits /\ (S!Fault \/ ~S!Granted)
    BY <1>1, <1>3, <1>7, <2>1, <2>4, SignupTypes DEF S!Go
  <2>5. CASE S!Go("mail", [[mem EXCEPT !.stage = "ungranted"] EXCEPT !.answer = "pending"]) /\ app.mode # "bare" /\ ~app.visits /\ (S!Fault \/ ~S!Granted)
    BY <1>1, <1>3, <1>7, <2>1, <2>5, SignupTypes DEF S!Go
  <2>6. CASE S!Go("end", [mem EXCEPT !.stage = "raised"]) BY <1>1, <1>7, <2>1, <2>6, SignupTypes DEF S!Go
  <2> QED BY <2>2, <2>3, <2>4, <2>5, <2>6
<1>9. CASE S!Verify
  <2>1. /\ mem.stage = "ungranted" /\ mem.answer = "pending" /\ app.mode # "bare"
        /\ ~app.visits /\ (faults = 0 => ~S!Granted)
    BY <1>9 DEF S!SignupInv, S!SaidInv, S!Verify
  <2>2. at' = "end" /\ \/ "link" \in aux.mails /\ mem' = [mem EXCEPT !.answer = "verified"]
                       \/ mem' = [mem EXCEPT !.answer = "inert"]
                       \/ mem' = [mem EXCEPT !.answer = mem.answer]
    BY <1>9 DEF S!Verify, S!Go
  <2>3. mem'.stage = "ungranted" /\ mem'.answer \in {"pending", "verified", "inert"} /\ (mem'.answer = "verified" => "link" \in aux.mails)
    BY <2>1, <2>2, SignupTypes
  <2>4. "link" \in aux.mails => aux.account \/ aux.asked BY <1>6
  <2> QED BY <1>1, <1>3, <1>7, <2>1, <2>2, <2>3, <2>4
<1> QED BY <1>8, <1>9

\* The time of the walk, and the lane's watchdog.
LEMMA SignupTime == ASSUME S!SignupInv, S!Expire \/ S!Watchdog PROVE S!SaidInv' /\ S!ReachInv'
<1>0. app' = app /\ at' = at /\ mem' = mem /\ faults' = faults /\ at \notin {"mail", "end"} BY DEF S!Expire, S!Watchdog, S!InLane
<1>1. aux' = [aux EXCEPT !.late = TRUE] \/ (aux.late /\ aux' = [aux EXCEPT !.dead = TRUE]) BY DEF S!Expire, S!Watchdog
<1>2. aux'.late /\ aux'.typed = aux.typed /\ aux'.asked = aux.asked /\ aux'.account = aux.account /\ aux'.mails = aux.mails
  BY <1>1, SignupTypes
<1>3. S!TypeOK BY DEF S!SignupInv, S!SaidInv
<1>4. S!SaidInv' BY <1>0, <1>2, <1>3, SaidOn, SignupTypes, Unsaid DEF S!TypeOK
<1> QED BY <1>2, <1>4 DEF S!ReachInv

\* No step of a signup breaks what is proved of its form, its answers and its reach.
LEMMA SignupWholeStep == ASSUME S!SignupInv, app.home.own = TRUE, S!Next PROVE S!SignupInv'
<1>1. S!FormInv' BY SignupStep DEF S!SignupInv
<1>2. app' = app
  BY DEF S!Next, S!Steps, S!Home, S!FollowLinks, S!ClickTrigger, S!FishRoutes, S!ReachEmailStep, S!SendAddress,
         S!FetchCode, S!SubmitCode, S!AskForLink, S!Settle, S!Verify, S!Expire, S!Watchdog
<1>3. S!Site' BY <1>2, SameSite DEF S!SignupInv
<1>4. S!SaidInv' /\ S!ReachInv'
  BY SignupHome, SignupLinks, SignupTrigger, SignupRoutes, SignupReach, SignupWizard, SignupMagic, SignupSettles, SignupTime
     DEF S!Next, S!Steps
<1> QED BY <1>1, <1>3, <1>4 DEF S!SignupInv

\* Nor is it broken where nothing happens.
LEMMA SignupStutters == ASSUME S!SignupInv, UNCHANGED vars PROVE S!SignupInv'
<1> USE DEF vars
<1>1. S!FormInv' = S!FormInv BY DEF S!FormInv, S!HasAuth, S!HasPassword, S!Registers, S!Fitting
<1>2. S!Site' BY SameSite DEF S!SignupInv
<1>3. S!SaidInv' <=> S!SaidInv BY DEF S!SaidInv, S!TypeOK, S!Granted, S!Pages
<1>4. S!ReachInv' <=> S!ReachInv BY SameSite DEF S!ReachInv, S!Left, S!Hijacked, S!Registers
<1> QED BY <1>1, <1>2, <1>3, <1>4 DEF S!SignupInv

\* A signup starts with nothing typed, asked or said.
LEMMA SignupWholeInit == ASSUME S!Init, S!Site PROVE S!SignupInv
<1>1. S!FormInv BY SignupInit
<1>2. /\ at = "home" /\ faults = 0
      /\ mem = [page |-> S!Blank, walk |-> <<>>, fishes |-> FALSE, stage |-> "none", answer |-> "none"]
      /\ aux = [typed |-> {}, asked |-> FALSE, account |-> FALSE, mails |-> {}, late |-> FALSE, dead |-> FALSE]
  BY DEF S!Init
<1>3. 0 \in 0 .. Faults BY ServicesAssumption DEF ServicesAssumption
<1>4. S!TypeOK BY <1>2, <1>3 DEF S!TypeOK
<1>5. mem.walk \in Seq(S!Pages) /\ mem.page \in S!Pages
  <2>1. S!Blank \in S!Pages BY DEF S!Blank, S!Pages
  <2>2. <<>> \in Seq(S!Pages) OBVIOUS
  <2> QED BY <1>2, <2>1, <2>2
<1>6. S!SaidInv BY <1>2, <1>4, <1>5 DEF S!SaidInv
<1>7. S!ReachInv BY <1>2 DEF S!ReachInv
<1> QED BY <1>1, <1>6, <1>7 DEF S!SignupInv

\* What is said at the end is true.
LEMMA SignupIsSaid == ASSUME S!SignupInv PROVE S!SignupIsTrue
<1>1. S!SaidInv /\ S!ReachInv BY DEF S!SignupInv
<1>2. at = "end" /\ faults = 0 /\ ~aux.late /\ S!Reachable => aux.account \/ S!Hijacked BY <1>1 DEF S!ReachInv
<1> QED BY <1>1, <1>2 DEF S!SaidInv, S!SignupIsTrue

-----------------------------------------------------------------------------
(* The ingest and its cache (Ingest). *)

\* A set of naturals that has a bound has a largest one.
LEMMA Largest ==
    ASSUME NEW Some, NEW b \in Nat, Some \subseteq 0 .. b, Some # {}
    PROVE  \E n \in Some : \A m \in Some : m <= n
<1> DEFINE Below == {ss \in Nat \X Nat : ss[1] < ss[2]}
<1> DEFINE Gaps == {b - n : n \in Some}
<1>1. IsWellFoundedOn(Below, Nat) BY NatLessThanWellFounded DEF OpToRel
<1>2. \A n \in Some : n \in Nat /\ n <= b OBVIOUS
<1>3. \A n \in Some : b - n \in Nat BY <1>2
<1>4. Gaps \subseteq Nat BY <1>3
<1>5. Gaps # {} OBVIOUS
<1>6. \E x \in Gaps : \A y \in Gaps : ~ (<<y, x>> \in Below)
  <2> HIDE DEF Below, Gaps
  <2> QED BY <1>1, <1>4, <1>5, WFMin
<1>7. PICK x \in Gaps : \A y \in Gaps : ~ (<<y, x>> \in Below) BY <1>6
<1>8. \A y \in Gaps : ~ (y < x) BY <1>4, <1>7
<1>9. PICK n \in Some : x = b - n BY <1>7
<1>10. ASSUME NEW m \in Some PROVE m <= n
  <2>1. b - m \in Gaps OBVIOUS
  <2>2. ~ (b - m < b - n) BY <1>8, <1>9, <2>1
  <2> QED BY <1>2, <2>2
<1> QED BY <1>10

\* The sizes that the ingest counts are those of the library.
LEMMA IngestSizes == \A some : (I!IsFiniteSet(some) <=> IsFiniteSet(some)) /\ I!Cardinality(some) = Cardinality(some)
<1>1. \A some : I!IsFiniteSet(some) <=> IsFiniteSet(some) BY DEF I!IsFiniteSet, IsFiniteSet
<1>2. \A some : I!Cardinality(some) = Cardinality(some) BY DEF I!Cardinality, Cardinality
<1> QED BY <1>1, <1>2

\* The bounds of the ingest.
LEMMA IngestBounds == /\ Tries \in Nat \ {0} /\ MaxPages \in Nat \ {0} /\ Limit \in Nat \ {0}
                      /\ Restarts \in Nat \ {0} /\ Faults \in Nat
  BY ServicesAssumption DEF ServicesAssumption

\* A file is a sequence.
LEMMA LinedIsSeq == ASSUME NEW log, I!Lined(log) PROVE log \in Seq({log[n] : n \in 1 .. Len(log)})
<1> DEFINE N == Len(log)
<1> DEFINE lines == {log[n] : n \in 1 .. N}
<1>1. N \in Nat /\ log = [n \in 1 .. N |-> log[n]] BY DEF I!Lined
<1>2. \A n \in 1 .. N : log[n] \in lines OBVIOUS
<1> HIDE DEF lines, N
<1>3. log \in [1 .. N -> lines] BY <1>1, <1>2
<1>4. log \in Seq(lines) BY <1>1, <1>3, SeqDef
<1> QED BY <1>4 DEF lines, N

\* Whether the file ends in a torn line.
LEMMA TornIs ==
    ASSUME NEW log, I!Lined(log)
    PROVE  /\ Len(log) \in Nat
           /\ log # <<>> <=> Len(log) > 0
<1>1. log \in Seq({log[n] : n \in 1 .. Len(log)}) BY LinedIsSeq
<1>2. PICK A : log \in Seq(A) BY <1>1
<1> QED BY <1>2, LenProperties, EmptySeq

\* What an append leaves: one line more, or the torn one with the new line glued to it.
LEMMA Appends ==
    ASSUME I!Lined(aux.log), NEW k \in I!Keys, NEW v, NEW is \in {"whole", "torn"}, NEW log, log = I!Appended(I!Line(k, v, is)),
           NEW p, p = IF I!Torn THEN Len(aux.log) ELSE Len(aux.log) + 1
    PROVE  /\ p \in Nat \ {0} /\ I!Lined(log) /\ Len(log) = p
           /\ \A n \in 1 .. p - 1 : n \in 1 .. Len(aux.log) /\ log[n] = aux.log[n]
           /\ I!Torn => \A n \in 1 .. Len(aux.log) : n < p \/ aux.log[n].is = "torn"
           /\ ~I!Torn => p = Len(aux.log) + 1
           /\ log[p].k = k /\ log[p].is = IF is = "torn" THEN "torn" ELSE IF I!Torn THEN "glued" ELSE "whole"
           /\ log[p].is = "whole" => log[p].v = v
<1> DEFINE N == Len(aux.log)
<1>0. PICK old : old = aux.log OBVIOUS
<1>1. PICK A : old \in Seq(A) BY <1>0, LinedIsSeq
<1>2. N \in Nat /\ (old # <<>> <=> N > 0) /\ N = Len(old) BY <1>0, TornIs
<1>3. I!Torn <=> N > 0 /\ old[N].is = "torn" BY <1>0, <1>2 DEF I!Torn
<1>4. PICK line : line = I!Line(k, v, is) OBVIOUS
<1>5. line.k = k /\ line.v = v /\ line.is = is /\ line = [k |-> k, v |-> v, is |-> is] BY <1>4 DEF I!Line
<1>6. \A n \in 1 .. N : old[n].k \in I!Keys /\ old[n].is \in {"whole", "torn", "glued"} BY <1>0 DEF I!Lined
<1>7. CASE I!Torn
  <2>1. PICK w : w = [line EXCEPT !.is = IF @ = "torn" THEN "torn" ELSE "glued"] OBVIOUS
  <2>2. w.k = k /\ w.is = IF is = "torn" THEN "torn" ELSE "glued" BY <1>5, <2>1
  <2>3. PICK front : front = SubSeq(old, 1, N - 1) OBVIOUS
  <2>4. p = N /\ N > 0 BY <1>3, <1>7
  <2>5. old \in [1 .. N -> A] BY <1>1, <1>2, LenProperties
  <2>6. /\ front \in Seq(A) /\ Len(front) = N - 1
        /\ \A n \in 1 .. N - 1 : front[n] = old[n]
    <3>1. \A n \in 1 .. N - 1 : old[n] \in A BY <1>2, <2>5
    <3>2. /\ SubSeq(old, 1, N - 1) \in Seq(A) /\ Len(SubSeq(old, 1, N - 1)) = IF 1 <= N - 1 THEN (N - 1) - 1 + 1 ELSE 0
          /\ \A i \in 1 .. (N - 1) - 1 + 1 : SubSeq(old, 1, N - 1)[i] = old[1 + i - 1]
      BY <1>2, <3>1, SubSeqProperties
    <3> HIDE DEF N
    <3> QED BY <1>2, <2>3, <2>4, <3>2
  <2>7. log = Append(front, w) BY <1>0, <1>2, <1>3, <1>4, <1>7, <2>1, <2>3 DEF I!Appended, I!Torn
  <2>8. front \in Seq(A \cup {w}) BY <2>6, SeqMonotonic
  <2>9. /\ log \in Seq(A \cup {w}) /\ Len(log) = N /\ log[N] = w
        /\ \A n \in 1 .. N - 1 : log[n] = front[n]
    BY <1>2, <2>4, <2>6, <2>7, <2>8, AppendProperties
  <2>10. \A n \in 1 .. N - 1 : log[n] = old[n] BY <2>6, <2>9
  <2>11. log \in [1 .. N -> A \cup {w}] BY <2>9, LenProperties
  <2>12. log = [n \in 1 .. Len(log) |-> log[n]] BY <2>9, <2>11
  <2>13. \A n \in 1 .. N : log[n].k \in I!Keys /\ log[n].is \in {"whole", "torn", "glued"}
    BY <1>2, <1>6, <2>2, <2>9, <2>10
  <2>14. I!Lined(log) BY <1>2, <2>9, <2>12, <2>13 DEF I!Lined
  <2>15. log[p].is # "whole" BY <2>2, <2>4, <2>9
  <2>16. \A n \in 1 .. N : n < p \/ aux.log[n].is = "torn" BY <1>0, <1>2, <1>3, <1>7, <2>4
  <2> QED BY <1>0, <1>2, <1>7, <2>2, <2>4, <2>9, <2>10, <2>14, <2>15, <2>16
<1>8. CASE ~I!Torn
  <2>1. log = Append(old, line) BY <1>0, <1>4, <1>8 DEF I!Appended, I!Torn
  <2>2. old \in Seq(A \cup {line}) BY <1>1, SeqMonotonic
  <2>3. /\ log \in Seq(A \cup {line}) /\ Len(log) = N + 1 /\ log[N + 1] = line
        /\ \A n \in 1 .. N : log[n] = old[n]
    BY <1>2, <2>1, <2>2, AppendProperties
  <2>4. log \in [1 .. N + 1 -> A \cup {line}] BY <2>3, LenProperties
  <2>5. log = [n \in 1 .. Len(log) |-> log[n]] BY <2>3, <2>4
  <2>6. \A n \in 1 .. N + 1 : log[n].k \in I!Keys /\ log[n].is \in {"whole", "torn", "glued"}
    BY <1>2, <1>5, <1>6, <2>3
  <2>7. I!Lined(log) BY <1>2, <2>3, <2>5, <2>6 DEF I!Lined
  <2>8. p = N + 1 BY <1>8
  <2>9. \A n \in 1 .. p - 1 : n \in 1 .. Len(aux.log) /\ log[n] = aux.log[n] BY <1>0, <1>2, <2>3, <2>8
  <2> QED BY <1>0, <1>2, <1>5, <1>8, <2>3, <2>7, <2>8, <2>9
<1> QED BY <1>7, <1>8

\* The keys of the whole lines, and what a site answers to a key, read the site and the file only.
LEMMA StoreReads ==
    ASSUME app' = app, aux'.log = aux.log
    PROVE  /\ I!WholeLines' = I!WholeLines /\ I!Whole' = I!Whole /\ (I!Torn <=> I!Torn')
  BY DEF I!WholeLines, I!Whole, I!Torn

\* What the site has does not change.
LEMMA TruthOn ==
    ASSUME app' = app
    PROVE  /\ I!Keys' = I!Keys /\ I!Projects' = I!Projects /\ (I!Galleries <=> I!Galleries')
           /\ \A k : I!Truth(k)' = I!Truth(k)
           /\ \A log : I!Lined(log)' <=> I!Lined(log)
           /\ \A p : I!Project(p)' = I!Project(p)
           /\ \A n : I!Gallery(n)' = I!Gallery(n)
           /\ \A n : I!Before(n)' = I!Before(n)
           /\ I!Present' = I!Present
  BY DEF I!Keys, I!Projects, I!Galleries, I!Truth, I!Lined, I!Project, I!Gallery, I!Before, I!Present, I!Range

\* What held before an interstitial was read holds after it.
LEMMA HoldsOn ==
    ASSUME app' = app, aux.hollow => aux'.hollow
    PROVE  \A k, v : I!Holds(k, v) => I!Holds(k, v)'
  BY TruthOn DEF I!Holds

\* The same of the file, of a line of it and of an entry of the cache.
LEMMA LinedOn == ASSUME app' = app, NEW log, I!Lined(log), aux'.log = log PROVE I!Lined(aux.log)'
  BY DEF I!Lined, I!Keys, I!Projects

\* What is held of a line of the file is held after a step that keeps the line.
LEMMA LineHolds ==
    ASSUME app' = app, aux.hollow => aux'.hollow, NEW n, NEW k, NEW v, aux'.log[n].k = k, aux'.log[n].v = v,
           I!Holds(k, v) \/ I!Holds(k, v)'
    PROVE  I!Holds(aux.log[n].k, aux.log[n].v)'
<1>1. I!Holds(k, v)' BY HoldsOn
<1>2. v = I!Truth(k) \/ (aux'.hollow /\ v = <<>>) BY <1>1, TruthOn DEF I!Holds
<1> QED BY <1>2 DEF I!Holds, I!Truth, I!Gallery, I!Project

\* And what is held of an entry of the cache.
LEMMA CacheHolds ==
    ASSUME app' = app, aux.hollow => aux'.hollow, NEW k, NEW v, mem'.cache[k] = v, I!Holds(k, v) \/ I!Holds(k, v)'
    PROVE  I!Holds(k, mem.cache[k])'
<1>1. I!Holds(k, v)' BY HoldsOn
<1>2. v = I!Truth(k) \/ (aux'.hollow /\ v = <<>>) BY <1>1, TruthOn DEF I!Holds
<1> QED BY <1>2 DEF I!Holds, I!Truth, I!Gallery, I!Project

\* Where the file is left as it is, a true cache keeps the invariant of the store.
LEMMA StoreSame ==
    ASSUME I!StoreInv, app' = app, aux'.log = aux.log, aux'.saved = aux.saved, aux'.tears = aux.tears,
           aux.hollow => aux'.hollow,
           \A k \in DOMAIN mem'.cache : k \in I!Keys /\ I!Holds(k, mem.cache[k])',
           at' # "load" => I!Whole \subseteq DOMAIN mem'.cache
    PROVE  I!StoreInv'
<1> USE DEF I!StoreInv
<1>1. I!Lined(aux.log)' BY LinedOn
<1>2. I!IsFiniteSet(aux'.saved) BY DEF I!StoreInv
<1>3. ASSUME NEW n \in I!WholeLines' PROVE I!Holds(aux.log[n].k, aux.log[n].v)'
  <2>1. n \in I!WholeLines BY StoreReads
  <2>2. I!Holds(aux.log[n].k, aux.log[n].v) BY <2>1
  <2> QED BY <2>2, LineHolds
<1>4. I!Cardinality(aux'.saved \ I!Whole') + (IF I!Torn' THEN 1 ELSE 0) <= aux'.tears BY StoreReads
<1>5. \A k \in DOMAIN mem'.cache : k \in I!Keys' /\ I!Holds(k, mem.cache[k])'
  <2>1. I!Keys' = I!Keys BY TruthOn
  <2> QED BY <2>1
<1>6. at' # "load" => I!Whole' \subseteq DOMAIN mem'.cache BY StoreReads
<1> QED BY <1>1, <1>2, <1>3, <1>4, <1>5, <1>6

\* What a line that is appended does to the keys of the whole lines.
LEMMA WholeAfter ==
    ASSUME I!Lined(aux.log), NEW k \in I!Keys, NEW v, NEW is \in {"whole", "torn"}, app' = app,
           aux'.log = I!Appended(I!Line(k, v, is))
    PROVE  /\ I!Lined(aux'.log)
           /\ I!Torn' <=> is = "torn"
           /\ I!Whole' = IF is = "whole" /\ ~I!Torn THEN I!Whole \cup {k} ELSE I!Whole
           /\ \A n \in I!WholeLines' : \/ n \in I!WholeLines /\ aux'.log[n] = aux.log[n]
                                       \/ aux'.log[n].k = k /\ aux'.log[n].v = v /\ is = "whole"
<1>1. PICK log : log = aux'.log OBVIOUS
<1>2. PICK old : old = aux.log OBVIOUS
<1>3. PICK p : p = IF I!Torn THEN Len(old) ELSE Len(old) + 1 OBVIOUS
<1>4. /\ p \in Nat \ {0} /\ I!Lined(log) /\ Len(log) = p
      /\ \A n \in 1 .. p - 1 : n \in 1 .. Len(old) /\ log[n] = old[n]
      /\ I!Torn => \A n \in 1 .. Len(old) : n < p \/ old[n].is = "torn"
      /\ ~I!Torn => p = Len(old) + 1
      /\ log[p].k = k /\ log[p].is = IF is = "torn" THEN "torn" ELSE IF I!Torn THEN "glued" ELSE "whole"
      /\ log[p].is = "whole" => log[p].v = v
  BY <1>1, <1>2, <1>3, Appends
<1>5. I!WholeLines = {n \in 1 .. Len(old) : old[n].is = "whole"} BY <1>2 DEF I!WholeLines
<1>6. I!WholeLines' = {n \in 1 .. p : log[n].is = "whole"} BY <1>1, <1>4 DEF I!WholeLines
<1>7. I!Torn' <=> log # <<>> /\ log[p].is = "torn" BY <1>1, <1>4 DEF I!Torn
<1>8. log # <<>> BY <1>4, TornIs
<1>9. I!Torn' <=> is = "torn" BY <1>4, <1>7, <1>8
<1>10. Len(old) \in Nat BY <1>2, TornIs
<1>11. ASSUME NEW n \in I!WholeLines'
       PROVE  \/ n \in I!WholeLines /\ n < p /\ log[n] = old[n]
              \/ n = p /\ log[n].k = k /\ log[n].v = v /\ is = "whole" /\ ~I!Torn
  <2>1. n \in 1 .. p /\ log[n].is = "whole" BY <1>6
  <2>2. CASE n = p BY <1>4, <2>1, <2>2
  <2>3. CASE n # p
    <3>1. n \in 1 .. p - 1 BY <1>4, <2>1, <2>3
    <3>2. n \in 1 .. Len(old) /\ log[n] = old[n] BY <1>4, <3>1
    <3> QED BY <1>4, <1>5, <2>1, <3>1, <3>2
  <2> QED BY <2>2, <2>3
<1>12. ASSUME NEW n \in I!WholeLines PROVE n \in I!WholeLines' /\ log[n] = old[n]
  <2>1. n \in 1 .. Len(old) /\ old[n].is = "whole" BY <1>5
  <2>2. n < p BY <1>4, <1>10, <2>1
  <2>3. n \in 1 .. p - 1 BY <1>4, <1>10, <2>1, <2>2
  <2> QED BY <1>4, <1>6, <2>1, <2>3
<1>13. is = "whole" /\ ~I!Torn => p \in I!WholeLines' /\ log[p].k = k BY <1>4, <1>6
<1>14. I!Whole = {old[n].k : n \in I!WholeLines} /\ I!Whole' = {log[n].k : n \in I!WholeLines'} BY <1>1, <1>2 DEF I!Whole
<1> HIDE DEF I!WholeLines, I!Whole
<1>15. CASE is = "whole" /\ ~I!Torn
  <2>1. I!Whole' \subseteq I!Whole \cup {k} BY <1>11, <1>14
  <2>2. I!Whole \subseteq I!Whole' BY <1>12, <1>14
  <2>3. k \in I!Whole' BY <1>13, <1>14, <1>15
  <2>4. I!Whole' = I!Whole \cup {k} BY <2>1, <2>2, <2>3
  <2> QED BY <1>1, <1>2, <1>4, <1>9, <1>11, <1>15, <2>4
<1>16. CASE ~(is = "whole" /\ ~I!Torn)
  <2>1. I!Whole' \subseteq I!Whole BY <1>11, <1>14, <1>16
  <2>2. I!Whole \subseteq I!Whole' BY <1>12, <1>14
  <2> QED BY <1>1, <1>2, <1>4, <1>9, <1>11, <1>16, <2>1, <2>2
<1> QED BY <1>15, <1>16

\* What a put that returns does to them.
LEMMA WholePut ==
    ASSUME I!Lined(aux.log), NEW k \in I!Keys, NEW v, app' = app, aux'.log = I!Appended(I!Line(k, v, "whole"))
    PROVE  /\ I!Lined(aux'.log)
           /\ ~I!Torn'
           /\ I!Whole' = IF ~I!Torn THEN I!Whole \cup {k} ELSE I!Whole
           /\ \A n \in I!WholeLines' : \/ n \in I!WholeLines /\ aux'.log[n] = aux.log[n]
                                       \/ aux'.log[n].k = k /\ aux'.log[n].v = v
<1>1. PICK is \in {"whole", "torn"} : is = "whole" OBVIOUS
<1>2. aux'.log = I!Appended(I!Line(k, v, is)) BY <1>1
<1>3. I!Lined(aux'.log) BY <1>2, WholeAfter
<1>4. ~I!Torn' BY <1>1, <1>2, WholeAfter
<1>5. I!Whole' = IF ~I!Torn THEN I!Whole \cup {k} ELSE I!Whole BY <1>1, <1>2, WholeAfter
<1>6. \A n \in I!WholeLines' : \/ n \in I!WholeLines /\ aux'.log[n] = aux.log[n]
                               \/ aux'.log[n].k = k /\ aux'.log[n].v = v
  BY <1>1, <1>2, WholeAfter
<1> QED BY <1>3, <1>4, <1>5, <1>6

\* A put that returns: the key is in a whole line, or what it was glued to pays for it.
LEMMA StorePut ==
    ASSUME I!StoreInv, app' = app, aux.tears \in Nat, NEW k \in I!Keys, NEW v,
           aux'.log = I!Appended(I!Line(k, v, "whole")), aux'.saved = aux.saved \cup {k}, aux'.tears = aux.tears,
           aux.hollow => aux'.hollow, I!Holds(k, v)', at # "load", at' # "load",
           mem'.cache = [j \in DOMAIN mem.cache \cup {k} |-> IF j = k THEN v ELSE mem.cache[j]]
    PROVE  I!StoreInv'
<1>1. I!Lined(aux.log) /\ I!IsFiniteSet(aux.saved) BY DEF I!StoreInv
<1>2. /\ I!Lined(aux'.log) /\ ~I!Torn'
      /\ I!Whole' = IF ~I!Torn THEN I!Whole \cup {k} ELSE I!Whole
      /\ \A n \in I!WholeLines' : \/ n \in I!WholeLines /\ aux'.log[n] = aux.log[n]
                                  \/ aux'.log[n].k = k /\ aux'.log[n].v = v
  BY <1>1, WholePut
<1>3. I!Lined(aux.log)' BY <1>2, LinedOn
<1>4. ASSUME NEW n \in I!WholeLines' PROVE I!Holds(aux.log[n].k, aux.log[n].v)'
  <2>1. CASE n \in I!WholeLines /\ aux'.log[n] = aux.log[n]
    <3>1. I!Holds(aux.log[n].k, aux.log[n].v) BY <2>1 DEF I!StoreInv
    <3> QED BY <2>1, <3>1, LineHolds
  <2>2. CASE aux'.log[n].k = k /\ aux'.log[n].v = v BY <2>2, LineHolds
  <2> QED BY <1>2, <2>1, <2>2
<1>5. IsFiniteSet(aux.saved) BY <1>1, IngestSizes
<1>6. PICK lost : lost = aux.saved \ I!Whole OBVIOUS
<1>7. IsFiniteSet(lost) /\ Cardinality(lost) \in Nat
  <2>1. lost \in SUBSET aux.saved BY <1>6
  <2>2. IsFiniteSet(lost) BY <1>5, <2>1, FS_Subset
  <2> QED BY <2>2, FS_CardinalityType
<1>8. Cardinality(lost) + (IF I!Torn THEN 1 ELSE 0) <= aux.tears BY <1>6, IngestSizes DEF I!StoreInv
<1>9. PICK now : now = aux'.saved \ I!Whole' OBVIOUS
<1>10. IsFiniteSet(lost \cup {k}) /\ Cardinality(lost \cup {k}) <= Cardinality(lost) + 1
  <2>1. /\ IsFiniteSet(lost \cup {k})
        /\ Cardinality(lost \cup {k}) = IF k \in lost THEN Cardinality(lost) ELSE Cardinality(lost) + 1
    BY <1>7, FS_AddElement
  <2> QED BY <1>7, <2>1
<1>11. Cardinality(now) \in Nat /\ Cardinality(now) <= aux.tears
  <2>1. CASE I!Torn
    <3>1. now \in SUBSET (lost \cup {k}) BY <1>2, <1>6, <1>9, <2>1
    <3>2. IsFiniteSet(now) /\ Cardinality(now) <= Cardinality(lost \cup {k}) BY <1>10, <3>1, FS_Subset
    <3>3. Cardinality(now) \in Nat BY <3>2, FS_CardinalityType
    <3>4. Cardinality(lost \cup {k}) \in Nat BY <1>10, FS_CardinalityType
    <3> QED BY <1>7, <1>8, <1>10, <2>1, <3>2, <3>3, <3>4
  <2>2. CASE ~I!Torn
    <3>1. now \in SUBSET lost BY <1>2, <1>6, <1>9, <2>2
    <3>2. IsFiniteSet(now) /\ Cardinality(now) <= Cardinality(lost) BY <1>7, <3>1, FS_Subset
    <3>3. Cardinality(now) \in Nat BY <3>2, FS_CardinalityType
    <3> QED BY <1>7, <1>8, <2>2, <3>2, <3>3
  <2> QED BY <2>1, <2>2
<1>12. I!Cardinality(aux'.saved \ I!Whole') + (IF I!Torn' THEN 1 ELSE 0) <= aux'.tears
  BY <1>2, <1>9, <1>11, IngestSizes
<1>13. I!IsFiniteSet(aux'.saved)
  <2>1. IsFiniteSet(aux.saved \cup {k}) BY <1>5, FS_AddElement
  <2> QED BY <2>1, IngestSizes
<1>14. \A j \in DOMAIN mem'.cache : j \in I!Keys' /\ I!Holds(j, mem.cache[j])'
  <2> SUFFICES ASSUME NEW j \in DOMAIN mem'.cache PROVE j \in I!Keys' /\ I!Holds(j, mem.cache[j])' OBVIOUS
  <2>1. CASE j = k
    <3>1. mem'.cache[j] = v BY <2>1
    <3>2. I!Holds(j, v)' BY <2>1
    <3>3. I!Holds(j, mem.cache[j])' BY <3>1, <3>2, CacheHolds
    <3> QED BY <2>1, <3>3, TruthOn
  <2>2. CASE j # k
    <3>1. j \in DOMAIN mem.cache /\ mem'.cache[j] = mem.cache[j] BY <2>2
    <3>2. j \in I!Keys /\ I!Holds(j, mem.cache[j]) BY <3>1 DEF I!StoreInv
    <3>3. I!Holds(j, mem.cache[j])' BY <3>1, <3>2, CacheHolds
    <3> QED BY <3>2, <3>3, TruthOn
  <2> QED BY <2>1, <2>2
<1>15. I!Whole' \subseteq DOMAIN mem'.cache
  <2>1. I!Whole \subseteq DOMAIN mem.cache BY DEF I!StoreInv
  <2>2. DOMAIN mem'.cache = DOMAIN mem.cache \cup {k} OBVIOUS
  <2> QED BY <1>2, <2>1, <2>2
<1> QED BY <1>3, <1>4, <1>12, <1>13, <1>14, <1>15 DEF I!StoreInv

\* A put that is killed: one torn line more, and nothing that was whole is lost.
LEMMA StoreKilled ==
    ASSUME I!StoreInv, app' = app, aux.tears \in Nat, NEW k \in I!Keys, NEW v,
           aux'.log = I!Appended(I!Line(k, v, "torn")), aux'.saved = aux.saved, aux'.tears = aux.tears + 1,
           aux.hollow => aux'.hollow, at' = "load", mem'.cache = <<>>
    PROVE  I!StoreInv'
<1>1. I!Lined(aux.log) /\ I!IsFiniteSet(aux.saved) BY DEF I!StoreInv
<1>2. /\ I!Lined(aux'.log) /\ I!Torn' /\ I!Whole' = I!Whole
      /\ \A n \in I!WholeLines' : n \in I!WholeLines /\ aux'.log[n] = aux.log[n]
  BY <1>1, WholeAfter
<1>3. I!Lined(aux.log)' BY <1>2, LinedOn
<1>4. ASSUME NEW n \in I!WholeLines' PROVE I!Holds(aux.log[n].k, aux.log[n].v)'
  <2>1. n \in I!WholeLines /\ aux'.log[n] = aux.log[n] BY <1>2
  <2>2. I!Holds(aux.log[n].k, aux.log[n].v) BY <2>1 DEF I!StoreInv
  <2> QED BY <2>1, <2>2, LineHolds
<1>5. I!Cardinality(aux.saved \ I!Whole) \in Nat
  <2>1. IsFiniteSet(aux.saved) BY <1>1, IngestSizes
  <2>2. aux.saved \ I!Whole \in SUBSET aux.saved OBVIOUS
  <2>3. IsFiniteSet(aux.saved \ I!Whole) BY <2>1, <2>2, FS_Subset
  <2> QED BY <2>3, FS_CardinalityType, IngestSizes
<1>6. I!Cardinality(aux'.saved \ I!Whole') + (IF I!Torn' THEN 1 ELSE 0) <= aux'.tears
  <2>1. I!Cardinality(aux.saved \ I!Whole) + (IF I!Torn THEN 1 ELSE 0) <= aux.tears BY DEF I!StoreInv
  <2>2. I!Cardinality(aux.saved \ I!Whole) <= aux.tears BY <1>5, <2>1
  <2>3. I!Cardinality(aux.saved \ I!Whole) + 1 <= aux.tears + 1 BY <1>5, <2>2
  <2> QED BY <1>2, <2>3
<1>7. DOMAIN mem'.cache = {} OBVIOUS
<1> QED BY <1>1, <1>3, <1>4, <1>6, <1>7 DEF I!StoreInv

\* The site does not change, and neither does what it may be.
LEMMA SiteOn == ASSUME app' = app, I!Site PROVE I!Site'
<1>1. /\ (I!Galleries <=> I!Galleries') /\ I!Projects' = I!Projects
      /\ \A k : I!Truth(k)' = I!Truth(k)
      /\ \A log : I!Lined(log)' <=> I!Lined(log)
  BY TruthOn
<1>2. app'.asks \in {"walk", "scrape", "links", "meta"} BY DEF I!Site
<1>3. I!Galleries' => /\ (app.gallery \in Seq(Seq(I!Projects) \ {<<>>}) /\ Len(app.links) \in Nat)'
                      /\ (\A p \in I!Projects : app.links[p] = <<>> \/ I!Range(app.links[p]) # {})'
                      /\ (app.beyond \in [is : {"ok", "absent"}, has : {<<>>}])'
  <2> SUFFICES ASSUME I!Galleries PROVE /\ (app.gallery \in Seq(Seq(I!Projects) \ {<<>>}) /\ Len(app.links) \in Nat)'
                                        /\ (\A p \in I!Projects : app.links[p] = <<>> \/ I!Range(app.links[p]) # {})'
                                        /\ (app.beyond \in [is : {"ok", "absent"}, has : {<<>>}])'
    BY <1>1
  <2>1. (app.gallery \in Seq(Seq(I!Projects) \ {<<>>}))' BY <1>1 DEF I!Site
  <2>2. Len(app'.links) \in Nat BY DEF I!Site
  <2>3. (\A p \in I!Projects : app.links[p] = <<>> \/ I!Range(app.links[p]) # {})' BY <1>1 DEF I!Site
  <2>4. (app.beyond \in [is : {"ok", "absent"}, has : {<<>>}])' BY DEF I!Site
  <2> QED BY <2>1, <2>2, <2>3, <2>4
<1>4. I!Galleries' => I!Lined(app.legacy)' BY <1>1 DEF I!Site, I!Lined, I!Keys
<1>5. I!Galleries' => (\A n \in 1 .. Len(app.legacy) : app.legacy[n].is = "whole" /\ app.legacy[n].v = I!Truth(app.legacy[n].k))'
  BY <1>1 DEF I!Site, I!Truth, I!Gallery, I!Project
<1>6. ~I!Galleries' => app'.legacy = <<>> BY <1>1 DEF I!Site
<1>7. (app.asks = "links" => Len(app.pages) \in Nat /\ \A n \in 1 .. Len(app.pages) : app.pages[n].is \in {"ok", "absent"})'
  BY DEF I!Site
<1>8. (app.asks = "meta" => Len(app.api) \in Nat /\ app.event.is \in {"ok", "absent"}
                            /\ \A n \in 1 .. Len(app.api) : app.api[n].is = "absent" \/ (app.api[n].is = "ok" /\ I!Searched(app.api[n].has)))'
  BY DEF I!Site
<1> QED BY <1>2, <1>3, <1>4, <1>5, <1>6, <1>7, <1>8 DEF I!Site

\* What a step of the gallery keeps is what the invariant asks of it.
LEMMA GalleryKeeps ==
    ASSUME I!Site, I!Galleries, app' = app, I!TypeOK', I!Shaped', I!StoreInv', I!PlaceInv', I!OutInv'
    PROVE  I!IngestInv'
<1>1. I!Site' BY SiteOn
<1>2. I!Galleries' BY TruthOn
<1>3. I!LinksInv' /\ I!MetaInv' BY <1>2 DEF I!LinksInv, I!MetaInv, I!Galleries
<1> QED BY <1>1, <1>2, <1>3 DEF I!IngestInv

\* A page more, and the submissions before it.
LEMMA BeforeNext ==
    ASSUME NEW n \in Nat \ {0}
    PROVE  I!Before(n + 1) = I!Before(n) \cup I!Range(app.gallery[n])
<1>1. 1 .. (n + 1) - 1 = (1 .. n - 1) \cup {n} OBVIOUS
<1> QED BY <1>1 DEF I!Before

\* No page is before the first.
LEMMA BeforeFirst == I!Before(1) = {}
<1>1. 1 .. 1 - 1 = {} OBVIOUS
<1> QED BY <1>1 DEF I!Before

\* The pages that may be turned are the submissions that are present.
LEMMA PresentBefore ==
    ASSUME NEW n \in Nat \ {0}, Len(app.gallery) \in Nat
    PROVE  /\ n > MaxPages \/ n > Len(app.gallery) => I!Present \subseteq I!Before(n)
           /\ n <= MaxPages /\ n <= Len(app.gallery) => I!Range(app.gallery[n]) \subseteq I!Present
<1>1. PICK m : m = IF Len(app.gallery) < MaxPages THEN Len(app.gallery) ELSE MaxPages OBVIOUS
<1>2. m \in Nat BY <1>1, IngestBounds
<1>3. I!Present = UNION {I!Range(app.gallery[i]) : i \in 1 .. m} BY <1>1 DEF I!Present
<1>4. I!Before(n) = UNION {I!Range(app.gallery[i]) : i \in 1 .. n - 1} BY DEF I!Before
<1>5. ASSUME n > MaxPages \/ n > Len(app.gallery) PROVE I!Present \subseteq I!Before(n)
  <2>1. 1 .. m \subseteq 1 .. n - 1 BY <1>1, <1>2, <1>5, IngestBounds
  <2> QED BY <1>3, <1>4, <2>1
<1>6. ASSUME n <= MaxPages /\ n <= Len(app.gallery) PROVE I!Range(app.gallery[n]) \subseteq I!Present
  <2>1. n \in 1 .. m BY <1>1, <1>2, <1>6, IngestBounds
  <2> QED BY <1>3, <2>1
<1> QED BY <1>5, <1>6

\* What was given out stays given out.
LEMMA TakenOn ==
    ASSUME app' = app, mem.out \subseteq mem'.out
    PROVE  \A p : I!Taken(p) => I!Taken(p)'
<1> SUFFICES ASSUME NEW p, I!Taken(p) PROVE I!Taken(p)' OBVIOUS
<1>1. I!Project(p)' = I!Project(p) BY TruthOn
<1> QED BY <1>1 DEF I!Taken, I!Shared, I!Range

\* What the site of a gallery is.
LEMMA GalleryIs ==
    ASSUME I!Site, I!Galleries
    PROVE  /\ Len(app.gallery) \in Nat /\ app.beyond.is \in {"ok", "absent"} /\ app.beyond.has = <<>>
           /\ \A n \in 1 .. Len(app.gallery) : app.gallery[n] \in Seq(I!Projects) /\ app.gallery[n] # <<>>
<1>1. PICK G : G = Seq(I!Projects) \ {<<>>} OBVIOUS
<1>2. app.gallery \in Seq(G) BY <1>1 DEF I!Site
<1>3. Len(app.gallery) \in Nat /\ \A n \in 1 .. Len(app.gallery) : app.gallery[n] \in G BY <1>2, LenProperties, ElementOfSeq
<1>4. app.beyond.is \in {"ok", "absent"} /\ app.beyond.has = <<>> BY DEF I!Site
<1> QED BY <1>1, <1>3, <1>4

\* A page is turned: its submissions are next, or where it has none the gallery is at its end.
LEMMA Turned ==
    ASSUME I!Site, I!Galleries, I!TypeOK, I!Shaped, I!PlaceInv, I!OutInv, app' = app, at = "gallery", mem.page <= MaxPages,
           NEW items, I!Holds(<<"page", mem.page>>, items)' \/ I!Holds(<<"page", mem.page>>, items), aux.hollow => aux'.hollow,
           mem'.out = mem.out, mem'.page = mem.page, mem'.items = items, mem'.clean => mem.clean,
           mem'.status = IF items = <<>> THEN "ended" ELSE mem.status,
           at' = IF mem'.status # "none" THEN "end" ELSE IF items # <<>> THEN "project" ELSE "gallery",
           mem.clean \in BOOLEAN, mem'.clean \in BOOLEAN, aux'.hollow \in BOOLEAN
    PROVE  I!PlaceInv' /\ I!OutInv'
<1>1. mem.status = "none" /\ mem.page \in Nat \ {0} /\ mem.page <= Len(app.gallery) + 1
  BY IngestBounds DEF I!TypeOK, I!PlaceInv, I!Galleries
<1>2. PICK n : n = mem.page OBVIOUS
<1>3. items = I!Gallery(n).has \/ (aux'.hollow /\ items = <<>>)
  <2>1. PICK k : k = <<"page", n>> OBVIOUS
  <2>2. k[1] = "page" /\ k[2] = n BY <2>1
  <2>3. I!Holds(k, items)' BY <1>2, <2>1, HoldsOn
  <2>4. items = I!Truth(k) \/ (aux'.hollow /\ items = <<>>) BY <2>3, TruthOn DEF I!Holds
  <2> QED BY <2>2, <2>4 DEF I!Truth
<1>4. /\ Len(app.gallery) \in Nat /\ app.beyond.has = <<>>
      /\ \A i \in 1 .. Len(app.gallery) : app.gallery[i] \in Seq(I!Projects) /\ app.gallery[i] # <<>>
  BY GalleryIs
<1>5. n <= Len(app.gallery) => I!Gallery(n).has = app.gallery[n] BY DEF I!Gallery, I!Page
<1>6. ~(n <= Len(app.gallery)) => I!Gallery(n).has = <<>> BY <1>4 DEF I!Gallery
<1>7. /\ I!IsFiniteSet(mem'.out)
      /\ app.asks = "walk" /\ ~aux.hollow => \A q \in mem.out : \E p \in I!Present : q = <<p, I!Project(p).has>>
      /\ app.asks = "scrape" => /\ \A q, r \in mem.out : q # r => ~I!Shared(q[2], r[2])
                                /\ I!Cardinality(mem.out) <= Limit /\ (I!Cardinality(mem.out) # Limit)
      /\ ~aux.hollow /\ (app.asks = "walk" \/ mem.clean) => \A p \in I!Before(n) : I!Taken(p)
  BY <1>2 DEF I!OutInv
<1>8. \A p : I!Taken(p) => I!Taken(p)' BY TakenOn
<1>9. mem'.status \in {"none", "ended"} BY <1>1
<1>10. /\ I!Before(mem.page + 1)' = I!Before(n + 1) /\ I!Present' = I!Present
       /\ \A p : I!Project(p)' = I!Project(p)
  <2>1. \A i : I!Before(i)' = I!Before(i) BY TruthOn
  <2>2. I!Before(mem.page + 1)' = I!Before(n + 1) BY <1>2 DEF I!Before, I!Range
  <2> QED BY <2>2, TruthOn
<1>11. \A p \in I!Present' : p \in I!Present BY <1>10
<1>12. /\ (app.asks = "walk" /\ ~aux.hollow => \A q \in mem.out : \E p \in I!Present : q = <<p, I!Project(p).has>>)'
  BY <1>7, <1>10
<1>13. (app.asks = "scrape" => /\ \A q, r \in mem.out : q # r => ~I!Shared(q[2], r[2])
                               /\ I!Cardinality(mem.out) <= Limit /\ (I!Cardinality(mem.out) = Limit => at = "end")
                               /\ mem.status \in {"none", "ended"})'
  BY <1>7, <1>9
<1>14. CASE items = <<>>
  <2>1. at' = "end" /\ mem'.status = "ended" BY <1>14
  <2>2. I!PlaceInv' BY <2>1 DEF I!PlaceInv
  <2>3. ASSUME ~aux'.hollow, app.asks = "walk" \/ mem'.clean, NEW p \in I!Present PROVE I!Taken(p)'
    <3>1. ~aux.hollow /\ (app.asks = "walk" \/ mem.clean) BY <2>3
    <3>2. n > Len(app.gallery) BY <1>1, <1>2, <1>3, <1>4, <1>5, <1>14, <2>3
    <3>3. p \in I!Before(n) BY <1>1, <1>2, <1>4, <3>2, PresentBefore
    <3> QED BY <1>7, <1>8, <3>1, <3>3
  <2>4. (~aux.hollow /\ (app.asks = "walk" \/ mem.clean) =>
              /\ at \in {"load", "gallery"} => \A p \in I!Before(mem.page) : I!Taken(p)
              /\ at = "project" => \A p \in I!Before(mem.page + 1) : I!Taken(p) \/ p \in I!Range(mem.items)
              /\ mem.status = "ended" => \/ app.asks = "scrape" /\ I!Cardinality(mem.out) = Limit
                                         \/ \A p \in I!Present : I!Taken(p))'
    BY <1>10, <2>1, <2>3
  <2>5. I!IsFiniteSet(mem.out)' BY <1>7, IngestSizes DEF I!IsFiniteSet
  <2> QED BY <1>12, <1>13, <2>2, <2>4, <2>5 DEF I!OutInv
<1>15. CASE items # <<>>
  <2>1. at' = "project" /\ mem'.status = "none" BY <1>1, <1>15
  <2>2. items = app.gallery[n] /\ n \in 1 .. Len(app.gallery) BY <1>1, <1>2, <1>3, <1>4, <1>5, <1>6, <1>15
  <2>3. items \in Seq(I!Projects') BY <1>4, <2>2, TruthOn
  <2>4. I!Range(mem.items)' = I!Range(items) /\ I!Range(app.gallery[mem.page])' = I!Range(items)
    BY <1>2, <2>2 DEF I!Range
  <2>5. I!PlaceInv' BY <1>1, <1>2, <1>15, <2>1, <2>2, <2>3, <2>4 DEF I!PlaceInv
  <2>6. ASSUME ~aux'.hollow, app.asks = "walk" \/ mem'.clean, NEW p \in I!Before(n + 1) PROVE I!Taken(p)' \/ p \in I!Range(items)
    <3>1. ~aux.hollow /\ (app.asks = "walk" \/ mem.clean) BY <2>6
    <3>2. p \in I!Before(n) \/ p \in I!Range(items) BY <1>1, <1>2, <2>2, <2>6, BeforeNext
    <3> QED BY <1>7, <1>8, <3>1, <3>2
  <2>7. (~aux.hollow /\ (app.asks = "walk" \/ mem.clean) =>
              /\ at \in {"load", "gallery"} => \A p \in I!Before(mem.page) : I!Taken(p)
              /\ at = "project" => \A p \in I!Before(mem.page + 1) : I!Taken(p) \/ p \in I!Range(mem.items)
              /\ mem.status = "ended" => \/ app.asks = "scrape" /\ I!Cardinality(mem.out) = Limit
                                         \/ \A p \in I!Present : I!Taken(p))'
    BY <1>10, <2>1, <2>4, <2>6
  <2>8. I!IsFiniteSet(mem.out)' BY <1>7, IngestSizes DEF I!IsFiniteSet
  <2> QED BY <1>12, <1>13, <2>5, <2>7, <2>8 DEF I!OutInv
<1> QED BY <1>14, <1>15

\* What is given out of a project: it is kept, or it links nothing, or something that was kept.
LEMMA KeptIs ==
    ASSUME NEW m, NEW p, NEW links
    PROVE  /\ m.out \subseteq I!Kept(m, p, links) /\ I!Kept(m, p, links) \subseteq m.out \cup {<<p, links>>}
           /\ app.asks # "scrape" => <<p, links>> \in I!Kept(m, p, links)
           /\ app.asks = "scrape" => /\ \/ links = <<>> \/ \E q \in m.out : I!Shared(q[2], links)
                                        \/ <<p, links>> \in I!Kept(m, p, links)
                                     /\ \/ I!Kept(m, p, links) = m.out
                                        \/ /\ I!Kept(m, p, links) = m.out \cup {<<p, links>>}
                                           /\ \A q \in m.out : ~I!Shared(q[2], links)
  BY DEF I!Kept

\* Sharing a link goes both ways.
LEMMA SharedBoth == \A a, b : I!Shared(a, b) <=> I!Shared(b, a)
  BY DEF I!Shared

\* The first of the projects on a page is given out.
LEMMA GivenOut ==
    ASSUME I!Site, I!Galleries, I!TypeOK, I!Shaped, I!PlaceInv, I!OutInv, app' = app, at = "project",
           NEW links, links = I!Project(Head(mem.items)).has \/ aux'.hollow \/ (app.asks = "scrape" /\ ~mem'.clean),
           aux.hollow => aux'.hollow, mem'.clean => mem.clean, mem.clean \in BOOLEAN, mem'.clean \in BOOLEAN, aux'.hollow \in BOOLEAN,
           mem'.out = I!Kept(mem, Head(mem.items), links), mem'.items = Tail(mem.items),
           mem'.page = IF Tail(mem.items) = <<>> THEN mem.page + 1 ELSE mem.page,
           mem'.status = IF app.asks = "scrape" /\ I!Cardinality(mem'.out) >= Limit THEN "ended" ELSE mem.status,
           at' = IF mem'.status # "none" THEN "end" ELSE IF mem'.items # <<>> THEN "project" ELSE "gallery"
    PROVE  I!PlaceInv' /\ I!OutInv'
<1>1. /\ mem.status = "none" /\ mem.page \in Nat \ {0} /\ mem.page <= Len(app.gallery) /\ mem.page <= MaxPages
      /\ mem.items \in Seq(I!Projects) /\ mem.items # <<>> /\ I!Range(mem.items) \subseteq I!Range(app.gallery[mem.page])
  <2>1. mem.status = "none" /\ mem.page \in 1 .. MaxPages + 1 BY DEF I!TypeOK, I!Galleries
  <2>2. /\ mem.items \in Seq(I!Projects) /\ mem.items # <<>> /\ mem.page <= MaxPages /\ mem.page <= Len(app.gallery)
        /\ I!Range(mem.items) \subseteq I!Range(app.gallery[mem.page])
    BY DEF I!PlaceInv
  <2> QED BY <2>1, <2>2, IngestBounds
<1>2. PICK n : n = mem.page OBVIOUS
<1>3. PICK p : p = Head(mem.items) OBVIOUS
<1>4. PICK items : items = mem.items OBVIOUS
<1>5. PICK rest : rest = Tail(items) OBVIOUS
<1>6. Len(app.gallery) \in Nat BY GalleryIs
<1>7. /\ p \in I!Projects /\ rest \in Seq(I!Projects) /\ p \in I!Range(items)
      /\ I!Range(rest) \subseteq I!Range(items) /\ \A x \in I!Range(items) : x = p \/ x \in I!Range(rest)
  <2>1. items \in Seq(I!Projects) /\ items # <<>> BY <1>1, <1>4
  <2>2. Len(items) \in Nat \ {0} /\ DOMAIN items = 1 .. Len(items) BY <2>1, EmptySeq, LenProperties
  <2>3. p = items[1] BY <1>3, <1>4
  <2>4. /\ p \in I!Projects /\ rest \in Seq(I!Projects) /\ Len(rest) = Len(items) - 1
        /\ \A i \in 1 .. Len(rest) : rest[i] = items[i + 1]
    BY <1>3, <1>4, <1>5, <2>1, HeadTailProperties
  <2>5. DOMAIN rest = 1 .. Len(rest) BY <2>4, LenProperties
  <2>6. I!Range(items) = {items[i] : i \in 1 .. Len(items)} BY <2>2 DEF I!Range
  <2>7. I!Range(rest) = {rest[i] : i \in 1 .. Len(rest)} BY <2>5 DEF I!Range
  <2>8. 1 \in 1 .. Len(items) BY <2>2
  <2>9. p \in I!Range(items) BY <2>3, <2>6, <2>8
  <2>10. I!Range(rest) \subseteq I!Range(items)
    <3>1. \A i \in 1 .. Len(rest) : i + 1 \in 1 .. Len(items) BY <2>2, <2>4
    <3> QED BY <2>4, <2>6, <2>7, <3>1
  <2>11. ASSUME NEW x \in I!Range(items) PROVE x = p \/ x \in I!Range(rest)
    <3>1. PICK i \in 1 .. Len(items) : x = items[i] BY <2>6
    <3>2. CASE i = 1 BY <2>3, <3>1, <3>2
    <3>3. CASE i # 1
      <4>1. i - 1 \in 1 .. Len(rest) /\ (i - 1) + 1 = i BY <2>2, <2>4, <3>1, <3>3
      <4>2. rest[i - 1] = items[i] BY <2>4, <4>1
      <4> QED BY <2>7, <3>1, <4>1, <4>2
    <3> QED BY <3>2, <3>3
  <2> QED BY <2>4, <2>9, <2>10, <2>11
<1>8. p \in I!Present BY <1>1, <1>2, <1>4, <1>6, <1>7, PresentBefore
<1>9. PICK out : out = mem.out OBVIOUS
<1>10. PICK now : now = mem'.out OBVIOUS
<1>11. /\ I!IsFiniteSet(out)
       /\ app.asks = "walk" /\ ~aux.hollow => \A q \in out : \E x \in I!Present : q = <<x, I!Project(x).has>>
       /\ app.asks = "scrape" => /\ \A q, r \in out : q # r => ~I!Shared(q[2], r[2])
                                 /\ I!Cardinality(out) <= Limit /\ (I!Cardinality(out) # Limit)
       /\ ~aux.hollow /\ (app.asks = "walk" \/ mem.clean) => \A x \in I!Before(n + 1) : I!Taken(x) \/ x \in I!Range(items)
  BY <1>2, <1>4, <1>9 DEF I!OutInv
<1>12. /\ out \subseteq now /\ now \subseteq out \cup {<<p, links>>}
       /\ app.asks # "scrape" => <<p, links>> \in now
       /\ app.asks = "scrape" => /\ links = <<>> \/ (\E q \in out : I!Shared(q[2], links)) \/ <<p, links>> \in now
                                 /\ now = out \/ (now = out \cup {<<p, links>>} /\ \A q \in out : ~I!Shared(q[2], links))
  BY <1>3, <1>9, <1>10, KeptIs
<1>13. \A x : I!Taken(x) => I!Taken(x)' BY <1>9, <1>10, <1>12, TakenOn
<1>14. IsFiniteSet(now) /\ Cardinality(now) \in Nat /\ (app.asks = "scrape" => Cardinality(now) <= Limit)
  <2>1. IsFiniteSet(out) /\ Cardinality(out) \in Nat BY <1>11, IngestSizes, FS_CardinalityType
  <2>2. PICK one : one = <<p, links>> OBVIOUS
  <2>3. IsFiniteSet(out \cup {one}) /\ Cardinality(out \cup {one}) <= Cardinality(out) + 1
    <3>1. /\ IsFiniteSet(out \cup {one})
          /\ Cardinality(out \cup {one}) = IF one \in out THEN Cardinality(out) ELSE Cardinality(out) + 1
      BY <2>1, FS_AddElement
    <3> QED BY <2>1, <3>1
  <2>4. now \in SUBSET (out \cup {one}) BY <1>12, <2>2
  <2>5. IsFiniteSet(now) /\ Cardinality(now) <= Cardinality(out \cup {one}) BY <2>3, <2>4, FS_Subset
  <2>6. Cardinality(now) \in Nat /\ Cardinality(out \cup {one}) \in Nat BY <2>3, <2>5, FS_CardinalityType
  <2>7. app.asks = "scrape" => Cardinality(out) <= Limit /\ Cardinality(out) # Limit BY <1>11, IngestSizes
  <2>8. app.asks = "scrape" => Cardinality(now) <= Limit BY <2>1, <2>3, <2>5, <2>6, <2>7, IngestBounds
  <2> QED BY <2>5, <2>6, <2>8
<1>15. /\ mem'.status = IF app.asks = "scrape" /\ Cardinality(now) = Limit THEN "ended" ELSE "none"
       /\ mem'.items = rest /\ mem'.page = (IF rest = <<>> THEN n + 1 ELSE n)
       /\ at' = IF mem'.status # "none" THEN "end" ELSE IF rest # <<>> THEN "project" ELSE "gallery"
  <2>1. I!Cardinality(mem'.out) = Cardinality(now) BY <1>10, IngestSizes
  <2>2. app.asks = "scrape" => (Cardinality(now) >= Limit <=> Cardinality(now) = Limit) BY <1>14, IngestBounds
  <2>3. mem'.status = IF app.asks = "scrape" /\ Cardinality(now) = Limit THEN "ended" ELSE "none" BY <1>1, <2>1, <2>2
  <2> QED BY <1>2, <1>4, <1>5, <2>3
<1>16. /\ I!Present' = I!Present /\ I!Projects' = I!Projects /\ \A x : I!Project(x)' = I!Project(x)
       /\ \A i : I!Before(i)' = I!Before(i)
  BY TruthOn
<1>17. ~aux'.hollow /\ (app.asks = "walk" \/ mem'.clean) => I!Taken(p)'
  <2> SUFFICES ASSUME ~aux'.hollow, app.asks = "walk" \/ mem'.clean PROVE I!Taken(p)' OBVIOUS
  <2>1. app.asks = "walk" \/ app.asks = "scrape" BY DEF I!Galleries
  <2>2. links = I!Project(p).has BY <1>3, <2>1
  <2>3. CASE app.asks = "walk"
    <3>1. <<p, I!Project(p).has>> \in now BY <1>12, <2>2, <2>3
    <3> QED BY <1>10, <1>16, <2>3, <3>1 DEF I!Taken
  <2>4. CASE app.asks = "scrape"
    <3>1. links = <<>> \/ (\E q \in out : I!Shared(q[2], links)) \/ <<p, links>> \in now BY <1>12, <2>4
    <3>2. links = <<>> \/ I!Range(links) # {}
      <4>1. I!Project(p).has = <<>> \/ I!Project(p).has = app.links[p] BY DEF I!Project, I!Page
      <4> QED BY <1>7, <2>2, <4>1 DEF I!Site
    <3>3. links # <<>> => I!Shared(links, links) BY <3>2 DEF I!Shared
    <3>4. links = <<>> \/ \E q \in now : I!Shared(q[2], links)
      <4>1. PICK one : one = <<p, links>> OBVIOUS
      <4>2. one[2] = links BY <4>1
      <4> QED BY <1>12, <3>1, <3>3, <4>1, <4>2
    <3> QED BY <1>10, <1>16, <2>2, <2>4, <3>4 DEF I!Taken
  <2> QED BY <2>1, <2>3, <2>4
<1>18. ASSUME ~aux'.hollow, app.asks = "walk" \/ mem'.clean, NEW x \in I!Before(n + 1) PROVE I!Taken(x)' \/ x \in I!Range(rest)
  <2>1. I!Taken(x) \/ x \in I!Range(items) BY <1>11, <1>18
  <2> QED BY <1>7, <1>13, <1>17, <1>18, <2>1
<1>19. I!IsFiniteSet(mem.out)' BY <1>10, <1>14, IngestSizes
<1>20. (app.asks = "walk" /\ ~aux.hollow => \A q \in mem.out : \E x \in I!Present : q = <<x, I!Project(x).has>>)'
  <2> SUFFICES ASSUME app.asks = "walk", ~aux'.hollow, NEW q \in now PROVE \E x \in I!Present : q = <<x, I!Project(x).has>>
    BY <1>10, <1>16
  <2>1. q \in out \/ q = <<p, links>> BY <1>12
  <2>2. links = I!Project(p).has BY <1>3
  <2> QED BY <1>8, <1>11, <2>1, <2>2
<1>21. (app.asks = "scrape" => /\ \A q, r \in mem.out : q # r => ~I!Shared(q[2], r[2])
                               /\ I!Cardinality(mem.out) <= Limit /\ (I!Cardinality(mem.out) = Limit => at = "end")
                               /\ mem.status \in {"none", "ended"})'
  <2> SUFFICES ASSUME app.asks = "scrape"
               PROVE  /\ \A q, r \in now : q # r => ~I!Shared(q[2], r[2])
                      /\ I!Cardinality(now) <= Limit /\ (I!Cardinality(now) = Limit => at' = "end")
                      /\ mem'.status \in {"none", "ended"}
    BY <1>10
  <2>1. ASSUME NEW q \in now, NEW r \in now, q # r PROVE ~I!Shared(q[2], r[2])
    <3>0. PICK one : one = <<p, links>> OBVIOUS
    <3>1. one[2] = links BY <3>0
    <3>2. now = out \/ (now = out \cup {one} /\ \A y \in out : ~I!Shared(y[2], links)) BY <1>12, <3>0
    <3>3. CASE q \in out /\ r \in out BY <1>11, <2>1, <3>3
    <3>4. CASE q \in out /\ r = one BY <1>11, <2>1, <3>1, <3>2, <3>4
    <3>5. CASE q = one /\ r \in out BY <1>11, <2>1, <3>1, <3>2, <3>5, SharedBoth
    <3> QED BY <2>1, <3>2, <3>3, <3>4, <3>5
  <2>2. I!Cardinality(now) = Cardinality(now) BY IngestSizes
  <2> QED BY <1>14, <1>15, <2>1, <2>2
<1>22. (~aux.hollow /\ (app.asks = "walk" \/ mem.clean) =>
              /\ at \in {"load", "gallery"} => \A x \in I!Before(mem.page) : I!Taken(x)
              /\ at = "project" => \A x \in I!Before(mem.page + 1) : I!Taken(x) \/ x \in I!Range(mem.items)
              /\ mem.status = "ended" => \/ app.asks = "scrape" /\ I!Cardinality(mem.out) = Limit
                                         \/ \A x \in I!Present : I!Taken(x))'
  <2>0. (~aux.hollow /\ (app.asks = "walk" \/ mem.clean))' <=> ~aux'.hollow /\ (app.asks = "walk" \/ mem'.clean) OBVIOUS
  <2> SUFFICES ASSUME ~aux'.hollow, app.asks = "walk" \/ mem'.clean
               PROVE  (/\ at \in {"load", "gallery"} => \A x \in I!Before(mem.page) : I!Taken(x)
                       /\ at = "project" => \A x \in I!Before(mem.page + 1) : I!Taken(x) \/ x \in I!Range(mem.items)
                       /\ mem.status = "ended" => \/ app.asks = "scrape" /\ I!Cardinality(mem.out) = Limit
                                                  \/ \A x \in I!Present : I!Taken(x))'
    BY <2>0
  <2>1. CASE mem'.status # "none"
    <3>1. at' = "end" /\ app.asks = "scrape" /\ I!Cardinality(now) = Limit BY <1>15, <2>1, IngestSizes
    <3> QED BY <1>10, <3>1
  <2>2. CASE mem'.status = "none" /\ rest # <<>>
    <3>1. at' = "project" /\ mem'.page = n /\ mem'.items = rest BY <1>15, <2>2
    <3>2. I!Before(mem.page + 1)' = I!Before(n + 1) BY <3>1 DEF I!Before, I!Range
    <3>3. I!Range(mem.items)' = I!Range(rest) BY <3>1 DEF I!Range
    <3> QED BY <1>18, <2>2, <3>1, <3>2, <3>3
  <2>3. CASE mem'.status = "none" /\ rest = <<>>
    <3>1. at' = "gallery" /\ mem'.page = n + 1 BY <1>15, <2>3
    <3>2. I!Before(mem.page)' = I!Before(n + 1) BY <3>1 DEF I!Before, I!Range
    <3>3. I!Range(rest) = {}
      <4>1. DOMAIN rest = {} BY <2>3
      <4> QED BY <4>1 DEF I!Range
    <3> QED BY <1>18, <2>3, <3>1, <3>2, <3>3
  <2> QED BY <2>1, <2>2, <2>3
<1>23. I!OutInv' BY <1>19, <1>20, <1>21, <1>22 DEF I!OutInv
<1>24. I!PlaceInv'
  <2>1. CASE mem'.status # "none"
    <3>1. at' = "end" BY <1>15, <2>1
    <3> QED BY <3>1 DEF I!PlaceInv
  <2>2. CASE mem'.status = "none" /\ rest # <<>>
    <3>1. at' = "project" /\ mem'.page = n /\ mem'.items = rest BY <1>15, <2>2
    <3>2. I!Range(mem.items)' = I!Range(rest) /\ I!Range(app.gallery[mem.page])' = I!Range(app.gallery[n]) BY <3>1 DEF I!Range
    <3>3. I!Range(rest) \subseteq I!Range(app.gallery[n]) BY <1>1, <1>2, <1>4, <1>7
    <3> QED BY <1>1, <1>2, <1>7, <1>16, <2>2, <3>1, <3>2, <3>3 DEF I!PlaceInv
  <2>3. CASE mem'.status = "none" /\ rest = <<>>
    <3>1. at' = "gallery" /\ mem'.page = n + 1 /\ mem'.items = <<>> BY <1>15, <2>3
    <3>2. n + 1 <= Len(app.gallery) + 1 BY <1>1, <1>2, <1>6
    <3> QED BY <3>1, <3>2 DEF I!PlaceInv
  <2> QED BY <2>1, <2>2, <2>3
<1> QED BY <1>23, <1>24

\* What a fetch brings: the page, or a fault that is counted and that the run does not forget.
LEMMA Fetches ==
    ASSUME I!TypeOK, I!Shaped, NEW truth, NEW r \in I!Fetched(truth)
    PROVE  /\ r.faults \in 0 .. Faults
           /\ DOMAIN r.m = DOMAIN mem /\ r.m.clean \in BOOLEAN /\ (r.m.clean => mem.clean)
           /\ r.m.cache = mem.cache /\ r.m.page = mem.page /\ r.m.items = mem.items /\ r.m.tries = mem.tries
           /\ r.m.out = mem.out /\ r.m.seen = mem.seen /\ r.m.status = mem.status
           /\ \/ r.got = truth
              \/ r.got = I!Blocked /\ ~r.m.clean
              \/ r.got = I!Hollow /\ truth.is = "ok" /\ at # "api" /\ ~r.m.clean
<1>1. \/ r = [got |-> truth, m |-> mem, faults |-> faults]
      \/ r \in [got : {I!Blocked} \cup (IF truth.is = "ok" /\ at # "api" THEN {I!Hollow} ELSE {}),
                m : {[mem EXCEPT !.clean = FALSE]}, faults : {faults + 1} \cap (0 .. Faults)]
  BY DEF I!Fetched
<1>2. CASE r = [got |-> truth, m |-> mem, faults |-> faults]
  <2>1. r.got = truth /\ r.m = mem /\ r.faults = faults BY <1>2
  <2>2. faults \in 0 .. Faults BY DEF I!TypeOK
  <2>3. mem.clean \in BOOLEAN BY DEF I!Shaped
  <2> QED BY <2>1, <2>2, <2>3
<1>3. CASE r \in [got : {I!Blocked} \cup (IF truth.is = "ok" /\ at # "api" THEN {I!Hollow} ELSE {}),
                  m : {[mem EXCEPT !.clean = FALSE]}, faults : {faults + 1} \cap (0 .. Faults)]
  <2>1. r.m = [mem EXCEPT !.clean = FALSE] /\ r.faults \in 0 .. Faults BY <1>3
  <2>2. r.got = I!Blocked \/ (r.got = I!Hollow /\ truth.is = "ok" /\ at # "api")
    <3>1. r.got \in {I!Blocked} \cup (IF truth.is = "ok" /\ at # "api" THEN {I!Hollow} ELSE {}) BY <1>3
    <3> QED BY <3>1
  <2>3. "clean" \in DOMAIN mem BY DEF I!Shaped
  <2>4. DOMAIN r.m = DOMAIN mem /\ r.m.clean = FALSE BY <2>1, <2>3
  <2>5. /\ r.m.cache = mem.cache /\ r.m.page = mem.page /\ r.m.items = mem.items /\ r.m.tries = mem.tries
        /\ r.m.out = mem.out /\ r.m.seen = mem.seen /\ r.m.status = mem.status
    BY <2>1
  <2> QED BY <2>1, <2>2, <2>4, <2>5
<1> QED BY <1>1, <1>2, <1>3

\* Where one cannot read, and where an interstitial is taken for a page, there is nothing.
LEMMA Answers == /\ I!Blocked.is = "blocked" /\ I!Blocked.has = <<>>
                 /\ I!Hollow.is = "hollow" /\ I!Hollow.has = <<>>
  BY DEF I!Blocked, I!Hollow, I!Page

\* A line that is appended is the last, and only the last may be torn.
LEMMA TornLast ==
    ASSUME I!Lined(aux.log), \A n \in 1 .. Len(aux.log) : aux.log[n].is = "torn" => n = Len(aux.log),
           NEW k \in I!Keys, NEW v, NEW is \in {"whole", "torn"}, NEW log, log = I!Appended(I!Line(k, v, is))
    PROVE  \A n \in 1 .. Len(log) : log[n].is = "torn" => n = Len(log)
<1>1. PICK old : old = aux.log OBVIOUS
<1>2. PICK p : p = IF I!Torn THEN Len(old) ELSE Len(old) + 1 OBVIOUS
<1>3. /\ p \in Nat \ {0} /\ Len(log) = p
      /\ \A n \in 1 .. p - 1 : n \in 1 .. Len(old) /\ log[n] = old[n]
  BY <1>1, <1>2, Appends
<1>4. Len(old) \in Nat /\ (old # <<>> <=> Len(old) > 0) BY <1>1, TornIs
<1>5. I!Torn <=> Len(old) > 0 /\ old[Len(old)].is = "torn" BY <1>1, <1>4 DEF I!Torn
<1> SUFFICES ASSUME NEW n \in 1 .. p - 1 PROVE log[n].is # "torn" BY <1>3
<1>6. n \in 1 .. Len(old) /\ log[n] = old[n] BY <1>3
<1>7. CASE I!Torn
  <2>1. n # Len(old) BY <1>2, <1>3, <1>7
  <2> QED BY <1>1, <1>6, <2>1
<1>8. CASE ~I!Torn
  <2>1. n = Len(old) => old[n].is # "torn" BY <1>4, <1>5, <1>6, <1>8
  <2> QED BY <1>1, <1>6, <2>1
<1> QED BY <1>7, <1>8

\* A process that is started again knows nothing, and the file is what it was left.
LEMMA Restarted ==
    ASSUME I!IngestInv, app' = app, faults' \in 0 .. Faults, at' = "load", mem' = I!Started,
           aux.runs < Restarts, aux'.runs = aux.runs + 1, aux'.hollow = aux.hollow,
           aux'.tears \in Nat, aux'.tears <= aux.runs + 1, DOMAIN aux' = DOMAIN aux,
           \A n \in 1 .. Len(aux'.log) : aux'.log[n].is = "torn" => n = Len(aux'.log),
           I!Galleries => I!StoreInv', ~I!Galleries => aux'.log = <<>> /\ aux'.saved = {}
    PROVE  I!IngestInv'
<1>1. /\ mem'.cache = <<>> /\ mem'.page = 1 /\ mem'.items = <<>> /\ mem'.tries = 1 /\ mem'.out = {} /\ mem'.seen = {}
      /\ mem'.clean = TRUE /\ mem'.status = "none"
      /\ {"cache", "page", "items", "tries", "out", "seen", "clean", "status"} \subseteq DOMAIN mem'
  BY DEF I!Started
<1>2. aux.runs \in Nat BY DEF I!IngestInv, I!TypeOK
<1>3. I!Site BY DEF I!IngestInv
<1>4. I!TypeOK'
  <2>1. aux'.runs \in 0 .. Restarts /\ aux'.tears <= aux'.runs BY <1>2, IngestBounds
  <2>2. 1 \in 1 .. (IF app.asks = "links" THEN Len(app.pages) ELSE MaxPages) + 1
    <3>1. app.asks = "links" => Len(app.pages) \in Nat BY <1>3 DEF I!Site
    <3> QED BY <3>1, IngestBounds
  <2>3. 1 \in 1 .. Tries BY IngestBounds
  <2> QED BY <1>1, <2>1, <2>2, <2>3 DEF I!TypeOK
<1>5. I!Shaped' BY <1>1 DEF I!IngestInv, I!Shaped
<1>6. I!Cardinality({}) = 0 /\ I!IsFiniteSet({}) BY IngestSizes, FS_EmptySet
<1>7. CASE I!Galleries
  <2>1. Len(app.gallery) \in Nat BY <1>3, <1>7, GalleryIs
  <2>2. I!PlaceInv' BY <1>1, <2>1 DEF I!PlaceInv
  <2>3. I!Before(mem.page)' = {}
    <3>1. \A i : I!Before(i)' = I!Before(i) BY TruthOn
    <3>2. I!Before(mem.page)' = I!Before(1) BY <1>1 DEF I!Before, I!Range
    <3> QED BY <3>2, BeforeFirst
  <2>4. I!IsFiniteSet(mem.out)' BY <1>1, <1>6
  <2>5. (app.asks = "scrape" => /\ \A q, r \in mem.out : q # r => ~I!Shared(q[2], r[2])
                                /\ I!Cardinality(mem.out) <= Limit /\ (I!Cardinality(mem.out) = Limit => at = "end")
                                /\ mem.status \in {"none", "ended"})'
    BY <1>1, <1>6, IngestBounds
  <2>6. I!OutInv' BY <1>1, <2>3, <2>4, <2>5 DEF I!OutInv
  <2> QED BY <1>3, <1>4, <1>5, <1>7, <2>2, <2>6, GalleryKeeps
<1>8. CASE ~I!Galleries
  <2>1. ~I!Galleries' BY <1>8, TruthOn
  <2>2. I!LinksInv' BY <1>1 DEF I!LinksInv
  <2>3. I!MetaInv' BY <1>1 DEF I!MetaInv
  <2>4. I!Site' BY <1>3, SiteOn
  <2> QED BY <1>4, <1>5, <1>8, <2>1, <2>2, <2>3, <2>4 DEF I!IngestInv
<1> QED BY <1>7, <1>8

\* What is known of the file of a process, of its bounds and of its records.
LEMMA DiskShape ==
    ASSUME I!IngestInv
    PROVE  /\ {"cache", "page", "items", "tries", "out", "seen", "clean", "status"} \subseteq DOMAIN mem
           /\ {"log", "saved", "tears", "runs", "hollow"} \subseteq DOMAIN aux
           /\ mem.clean \in BOOLEAN /\ aux.hollow \in BOOLEAN /\ aux.tears \in Nat /\ aux.runs \in Nat /\ aux.tears <= aux.runs
           /\ \A n \in 1 .. Len(aux.log) : aux.log[n].is = "torn" => n = Len(aux.log)
           /\ mem.tries \in 1 .. Tries /\ faults \in 0 .. Faults
           /\ I!Site /\ I!TypeOK /\ I!Shaped
           /\ I!Galleries => I!StoreInv /\ I!PlaceInv /\ I!OutInv
  BY DEF I!IngestInv, I!Shaped, I!TypeOK

\* A run that ends, or is killed, is followed by another one.
LEMMA IngestRestart == ASSUME I!IngestInv, I!Restart PROVE I!IngestInv'
<1>1. /\ app' = app /\ faults' = faults /\ at # "load" /\ aux.runs < Restarts /\ at' = "load" /\ mem' = I!Started
      /\ aux' = [aux EXCEPT !.log = aux.log, !.tears = aux.tears, !.runs = @ + 1]
  BY DEF I!Restart, I!Again, I!Go
<1>2. PICK n : n = aux.runs + 1 OBVIOUS
<1>3. /\ aux'.log = aux.log /\ aux'.tears = aux.tears /\ aux'.runs = n /\ aux'.saved = aux.saved /\ aux'.hollow = aux.hollow
      /\ DOMAIN aux' = DOMAIN aux
  BY <1>1, <1>2, DiskShape
<1>4. DOMAIN mem'.cache = {} BY <1>1 DEF I!Started
<1>5. I!Galleries => I!StoreInv'
  <2>1. \A k \in DOMAIN mem'.cache : k \in I!Keys /\ I!Holds(k, mem.cache[k])' BY <1>4
  <2> QED BY <1>1, <1>3, <2>1, DiskShape, StoreSame
<1>6. ~I!Galleries => aux'.log = <<>> /\ aux'.saved = {} BY <1>3 DEF I!IngestInv
<1>7. faults' \in 0 .. Faults /\ aux'.tears \in Nat /\ aux'.tears <= aux.runs + 1 BY <1>1, <1>3, DiskShape
<1>8. \A i \in 1 .. Len(aux'.log) : aux'.log[i].is = "torn" => i = Len(aux'.log) BY <1>3, DiskShape
<1> QED BY <1>1, <1>2, <1>3, <1>5, <1>6, <1>7, <1>8, Restarted

\* The append of a put is killed.
LEMMA PutKilled ==
    ASSUME I!IngestInv, I!Galleries, app' = app, faults' \in 0 .. Faults, NEW k \in I!Keys, NEW v,
           I!Again(I!Appended(I!Line(k, v, "torn")), aux.tears + 1)
    PROVE  I!IngestInv'
<1>1. PICK log : log = I!Appended(I!Line(k, v, "torn")) OBVIOUS
<1>2. PICK n : n = aux.runs + 1 OBVIOUS
<1>3. PICK t : t = aux.tears + 1 OBVIOUS
<1>4. /\ aux.runs < Restarts /\ at' = "load" /\ mem' = I!Started
      /\ aux' = [aux EXCEPT !.log = log, !.tears = t, !.runs = n]
  BY <1>1, <1>2, <1>3 DEF I!Again, I!Go
<1>5. /\ aux'.log = log /\ aux'.tears = t /\ aux'.runs = n /\ aux'.saved = aux.saved /\ aux'.hollow = aux.hollow
      /\ DOMAIN aux' = DOMAIN aux
  BY <1>4, DiskShape
<1>6. I!StoreInv'
  <2>1. mem'.cache = <<>> BY <1>4 DEF I!Started
  <2> QED BY <1>1, <1>3, <1>4, <1>5, <2>1, DiskShape, StoreKilled
<1>7. \A i \in 1 .. Len(log) : log[i].is = "torn" => i = Len(log)
  <2>1. I!Lined(aux.log) BY DiskShape DEF I!StoreInv
  <2>2. PICK is \in {"whole", "torn"} : is = "torn" OBVIOUS
  <2>3. log = I!Appended(I!Line(k, v, is)) BY <1>1, <2>2
  <2> QED BY <2>1, <2>3, DiskShape, TornLast
<1>8. aux'.tears \in Nat /\ aux'.tears <= aux.runs + 1 BY <1>3, <1>5, DiskShape
<1> QED BY <1>2, <1>4, <1>5, <1>6, <1>7, <1>8, Restarted

\* What a reader makes of the file: every key of a whole line, with the value of the last.
LEMMA ReadIs ==
    ASSUME I!StoreInv
    PROVE  /\ DOMAIN I!Read(I!WholeLines) = I!Whole
           /\ \A k \in I!Whole : k \in I!Keys /\ I!Holds(k, I!Read(I!WholeLines)[k])
<1>1. DOMAIN I!Read(I!WholeLines) = I!Whole BY DEF I!Read, I!Whole
<1>2. Len(aux.log) \in Nat /\ \A n \in 1 .. Len(aux.log) : aux.log[n].k \in I!Keys BY DEF I!StoreInv, I!Lined
<1> SUFFICES ASSUME NEW k \in I!Whole PROVE k \in I!Keys /\ I!Holds(k, I!Read(I!WholeLines)[k]) BY <1>1
<1> DEFINE rows == {n \in I!WholeLines : aux.log[n].k = k}
<1>3. rows \subseteq 0 .. Len(aux.log) BY DEF I!WholeLines
<1>4. rows # {} BY DEF I!Whole
<1>5. \E n \in rows : \A m \in rows : m <= n
  <2> HIDE DEF rows
  <2> QED BY <1>2, <1>3, <1>4, Largest
<1>6. PICK c : c = CHOOSE n \in I!WholeLines : aux.log[n].k = k /\ \A l \in I!WholeLines : aux.log[l].k = k => l <= n OBVIOUS
<1>7. \E n \in I!WholeLines : aux.log[n].k = k /\ \A l \in I!WholeLines : aux.log[l].k = k => l <= n BY <1>5
<1>8. c \in I!WholeLines /\ aux.log[c].k = k
  <2> HIDE DEF rows
  <2> QED BY <1>6, <1>7
<1>9. I!Read(I!WholeLines)[k] = aux.log[c].v
  <2>1. k \in {aux.log[n].k : n \in I!WholeLines} BY DEF I!Whole
  <2> QED BY <1>6, <2>1 DEF I!Read
<1>10. I!Holds(k, aux.log[c].v) BY <1>8 DEF I!StoreInv
<1>11. k \in I!Keys BY <1>2, <1>8 DEF I!WholeLines
<1> QED BY <1>9, <1>10, <1>11

\* The gallery, where nothing is given out or turned: the process reads its cache.
LEMMA SamePlace ==
    ASSUME I!Site, I!Galleries, I!PlaceInv, I!OutInv, app' = app, aux'.hollow = aux.hollow,
           mem'.out = mem.out, mem'.page = mem.page, mem'.items = mem.items, mem'.status = mem.status, mem'.clean => mem.clean,
           mem.clean \in BOOLEAN, mem'.clean \in BOOLEAN,
           at' = at \/ (at = "load" /\ at' = "gallery")
    PROVE  I!PlaceInv' /\ I!OutInv'
<1>1. /\ I!Present' = I!Present /\ I!Projects' = I!Projects /\ \A x : I!Project(x)' = I!Project(x)
      /\ \A i : I!Before(i)' = I!Before(i) /\ (I!Galleries <=> I!Galleries')
  BY TruthOn
<1>2. PICK n : n = mem.page OBVIOUS
<1>3. PICK items : items = mem.items OBVIOUS
<1>4. I!Before(mem.page)' = I!Before(n) /\ I!Before(mem.page + 1)' = I!Before(n + 1)
  BY <1>2 DEF I!Before, I!Range
<1>5. I!Range(mem.items)' = I!Range(items) /\ I!Range(app.gallery[mem.page])' = I!Range(app.gallery[n])
  BY <1>2, <1>3 DEF I!Range
<1>6. \A p : I!Taken(p) => I!Taken(p)' BY TakenOn
<1>7. I!PlaceInv' BY <1>1, <1>2, <1>3, <1>5 DEF I!PlaceInv
<1>8. I!IsFiniteSet(mem.out)' BY DEF I!OutInv
<1>9. (app.asks = "walk" /\ ~aux.hollow => \A q \in mem.out : \E x \in I!Present : q = <<x, I!Project(x).has>>)'
  BY <1>1 DEF I!OutInv
<1>10. (app.asks = "scrape" => /\ \A q, r \in mem.out : q # r => ~I!Shared(q[2], r[2])
                               /\ I!Cardinality(mem.out) <= Limit /\ (I!Cardinality(mem.out) = Limit => at = "end")
                               /\ mem.status \in {"none", "ended"})'
  BY DEF I!OutInv
<1>11. (~aux.hollow /\ (app.asks = "walk" \/ mem.clean) =>
              /\ at \in {"load", "gallery"} => \A x \in I!Before(mem.page) : I!Taken(x)
              /\ at = "project" => \A x \in I!Before(mem.page + 1) : I!Taken(x) \/ x \in I!Range(mem.items)
              /\ mem.status = "ended" => \/ app.asks = "scrape" /\ I!Cardinality(mem.out) = Limit
                                         \/ \A x \in I!Present : I!Taken(x))'
  <2> SUFFICES ASSUME ~aux.hollow, app.asks = "walk" \/ mem'.clean
               PROVE  (/\ at \in {"load", "gallery"} => \A x \in I!Before(mem.page) : I!Taken(x)
                       /\ at = "project" => \A x \in I!Before(mem.page + 1) : I!Taken(x) \/ x \in I!Range(mem.items)
                       /\ mem.status = "ended" => \/ app.asks = "scrape" /\ I!Cardinality(mem.out) = Limit
                                                  \/ \A x \in I!Present : I!Taken(x))'
    OBVIOUS
  <2>1. app.asks = "walk" \/ mem.clean OBVIOUS
  <2>2. /\ at \in {"load", "gallery"} => \A x \in I!Before(n) : I!Taken(x)
        /\ at = "project" => \A x \in I!Before(n + 1) : I!Taken(x) \/ x \in I!Range(items)
        /\ mem.status = "ended" => \/ app.asks = "scrape" /\ I!Cardinality(mem.out) = Limit
                                   \/ \A x \in I!Present : I!Taken(x)
    BY <1>2, <1>3, <2>1 DEF I!OutInv
  <2>3. (at \in {"load", "gallery"} => \A x \in I!Before(mem.page) : I!Taken(x))' BY <1>4, <1>6, <2>2
  <2>4. (at = "project" => \A x \in I!Before(mem.page + 1) : I!Taken(x) \/ x \in I!Range(mem.items))'
    BY <1>4, <1>5, <1>6, <2>2
  <2>5. (mem.status = "ended" => \/ app.asks = "scrape" /\ I!Cardinality(mem.out) = Limit
                                 \/ \A x \in I!Present : I!Taken(x))'
    BY <1>1, <1>6, <2>2
  <2> QED BY <2>3, <2>4, <2>5
<1>12. I!OutInv' BY <1>8, <1>9, <1>10, <1>11 DEF I!OutInv
<1> QED BY <1>7, <1>12

\* Where links or an event are asked for, nothing is kept on disk.
LEMMA OthersKeep ==
    ASSUME I!IngestInv, ~I!Galleries, app' = app, I!TypeOK', I!Shaped', aux'.log = aux.log, aux'.saved = aux.saved,
           I!LinksInv', I!MetaInv'
    PROVE  I!IngestInv'
<1>1. I!Site' BY SiteOn DEF I!IngestInv
<1>2. ~I!Galleries' BY TruthOn
<1> QED BY <1>1, <1>2 DEF I!IngestInv

\* Where neither the pages that were read nor what was found changes, neither does what is known of them.
LEMMA SameAnswers ==
    ASSUME I!LinksInv, I!MetaInv, app' = app, aux'.hollow = aux.hollow, mem'.out = mem.out, mem'.page = mem.page,
           mem'.seen = mem.seen, mem'.status = mem.status, at' = at \/ at = "load"
    PROVE  I!LinksInv' /\ I!MetaInv'
<1>1. I!LinksInv' BY DEF I!LinksInv
<1>2. I!MetaInv' BY DEF I!MetaInv
<1> QED BY <1>1, <1>2

\* The cache is read.
LEMMA IngestLoad == ASSUME I!IngestInv, I!Load PROVE I!IngestInv'
<1>1. PICK cache : cache = I!Read(I!WholeLines) OBVIOUS
<1>2. /\ app' = app /\ aux' = aux /\ faults' = faults /\ at = "load" /\ at' = I!First
      /\ mem' = [mem EXCEPT !.cache = cache]
  BY <1>1 DEF I!Load, I!Go
<1>3. /\ mem'.cache = cache /\ mem'.page = mem.page /\ mem'.items = mem.items /\ mem'.tries = mem.tries /\ mem'.out = mem.out
      /\ mem'.seen = mem.seen /\ mem'.clean = mem.clean /\ mem'.status = mem.status /\ DOMAIN mem' = DOMAIN mem
  BY <1>2, DiskShape
<1>4. app.asks \in {"walk", "scrape", "links", "meta"} BY DiskShape DEF I!Site
<1>5. at' = IF I!Galleries THEN "gallery" ELSE IF app.asks = "links" THEN "pages" ELSE "api"
  BY <1>2, <1>4 DEF I!First, I!Galleries
<1>6. I!TypeOK'
  <2>1. mem.status = "none" BY <1>2, DiskShape DEF I!TypeOK
  <2>2. at' \in {"gallery", "pages", "api"} BY <1>5
  <2> QED BY <1>2, <1>3, <2>1, <2>2, DiskShape DEF I!TypeOK
<1>7. I!Shaped'
  <2>1. /\ at' \in {"gallery", "project"} => I!Galleries
        /\ at' = "pages" => app.asks = "links"
        /\ at' \in {"api", "event"} => app.asks = "meta"
    BY <1>4, <1>5 DEF I!Galleries
  <2> QED BY <1>2, <1>3, <2>1, DiskShape, TruthOn DEF I!Shaped
<1>8. CASE I!Galleries
  <2>1. I!StoreInv /\ I!PlaceInv /\ I!OutInv /\ I!Site BY <1>8, DiskShape
  <2>2. DOMAIN mem'.cache = I!Whole /\ \A k \in DOMAIN mem'.cache : k \in I!Keys /\ I!Holds(k, mem'.cache[k])
    BY <1>1, <1>3, <2>1, ReadIs
  <2>3. ASSUME NEW k \in DOMAIN mem'.cache PROVE k \in I!Keys /\ I!Holds(k, mem.cache[k])'
    <3>1. PICK v : v = mem'.cache[k] OBVIOUS
    <3>2. k \in I!Keys /\ I!Holds(k, v) BY <2>2, <3>1
    <3> QED BY <1>2, <3>1, <3>2, CacheHolds
  <2>4. I!StoreInv' BY <1>2, <2>1, <2>2, <2>3, StoreSame
  <2>5. at' = "gallery" BY <1>5, <1>8
  <2>6. I!PlaceInv' /\ I!OutInv' BY <1>2, <1>3, <1>8, <2>1, <2>5, DiskShape, SamePlace
  <2> QED BY <1>2, <1>6, <1>7, <1>8, <2>1, <2>4, <2>6, GalleryKeeps
<1>9. CASE ~I!Galleries
  <2>1. I!LinksInv /\ I!MetaInv BY DEF I!IngestInv
  <2>2. I!LinksInv' /\ I!MetaInv' BY <1>2, <1>3, <2>1, SameAnswers
  <2> QED BY <1>2, <1>6, <1>7, <1>9, <2>2, OthersKeep
<1> QED BY <1>8, <1>9

\* A request is tried again.
LEMMA IngestRetry == ASSUME I!IngestInv, at \notin {"load", "end"}, I!Retry, app' = app PROVE I!IngestInv'
<1>1. PICK t : t = mem.tries + 1 OBVIOUS
<1>2. /\ faults < Faults /\ mem.tries < Tries /\ faults' = faults + 1 /\ aux' = aux /\ at' = at
      /\ mem' = [mem EXCEPT !.clean = FALSE, !.tries = t]
  BY <1>1 DEF I!Retry, I!Go
<1>3. /\ mem'.cache = mem.cache /\ mem'.page = mem.page /\ mem'.items = mem.items /\ mem'.tries = t /\ mem'.out = mem.out
      /\ mem'.seen = mem.seen /\ mem'.clean = FALSE /\ mem'.status = mem.status /\ DOMAIN mem' = DOMAIN mem
  BY <1>2, DiskShape
<1>4. t \in 1 .. Tries /\ faults' \in 0 .. Faults BY <1>1, <1>2, DiskShape, IngestBounds
<1>5. I!TypeOK' BY <1>2, <1>3, <1>4, DiskShape DEF I!TypeOK
<1>6. I!Shaped' BY <1>2, <1>3, DiskShape, TruthOn DEF I!Shaped
<1>7. CASE I!Galleries
  <2>1. I!StoreInv /\ I!PlaceInv /\ I!OutInv /\ I!Site BY <1>7, DiskShape
  <2>2. ASSUME NEW k \in DOMAIN mem'.cache PROVE k \in I!Keys /\ I!Holds(k, mem.cache[k])'
    <3>1. PICK v : v = mem.cache[k] OBVIOUS
    <3>2. k \in I!Keys /\ I!Holds(k, v) BY <1>3, <2>1, <3>1 DEF I!StoreInv
    <3> QED BY <1>2, <1>3, <3>1, <3>2, CacheHolds
  <2>3. at' # "load" => I!Whole \subseteq DOMAIN mem'.cache BY <1>2, <1>3, <2>1 DEF I!StoreInv
  <2>4. I!StoreInv' BY <1>2, <2>1, <2>2, <2>3, StoreSame
  <2>5. I!PlaceInv' /\ I!OutInv' BY <1>2, <1>3, <1>7, <2>1, DiskShape, SamePlace
  <2> QED BY <1>5, <1>6, <1>7, <2>1, <2>4, <2>5, GalleryKeeps
<1>8. CASE ~I!Galleries
  <2>1. I!LinksInv /\ I!MetaInv BY DEF I!IngestInv
  <2>2. I!LinksInv' /\ I!MetaInv' BY <1>2, <1>3, <2>1, SameAnswers
  <2> QED BY <1>2, <1>5, <1>6, <1>8, <2>2, OthersKeep
<1> QED BY <1>7, <1>8

\* The walk, or the scrape, comes to its end.
LEMMA GalleryEnds ==
    ASSUME I!IngestInv, I!Galleries, at \in {"gallery", "project"}, app' = app, aux' = aux, faults' \in 0 .. Faults, at' = "end",
           NEW how \in {"ended", "blocked"}, app.asks = "scrape" => how = "ended",
           mem'.cache = mem.cache, mem'.page = mem.page, mem'.tries = mem.tries, mem'.out = mem.out, mem'.status = how,
           DOMAIN mem' = DOMAIN mem, mem'.clean \in BOOLEAN,
           how = "ended" /\ ~aux.hollow /\ (app.asks = "walk" \/ mem'.clean) => \A x \in I!Present : I!Taken(x)
    PROVE  I!IngestInv'
<1>1. I!StoreInv /\ I!PlaceInv /\ I!OutInv /\ I!Site /\ I!TypeOK /\ I!Shaped BY DiskShape
<1>2. I!TypeOK' BY <1>1 DEF I!TypeOK
<1>3. I!Shaped' BY <1>1 DEF I!Shaped
<1>4. I!StoreInv'
  <2>1. ASSUME NEW k \in DOMAIN mem'.cache PROVE k \in I!Keys /\ I!Holds(k, mem.cache[k])'
    <3>1. PICK v : v = mem.cache[k] OBVIOUS
    <3>2. k \in I!Keys /\ I!Holds(k, v) BY <1>1, <3>1 DEF I!StoreInv
    <3> QED BY <3>1, <3>2, CacheHolds
  <2>2. I!Whole \subseteq DOMAIN mem'.cache BY <1>1 DEF I!StoreInv
  <2> QED BY <1>1, <2>1, <2>2, StoreSame
<1>5. I!PlaceInv' BY DEF I!PlaceInv
<1>6. /\ I!Present' = I!Present /\ \A x : I!Project(x)' = I!Project(x) BY TruthOn
<1>7. \A p : I!Taken(p) => I!Taken(p)' BY TakenOn
<1>8. I!IsFiniteSet(mem.out)' BY <1>1 DEF I!OutInv
<1>9. (app.asks = "walk" /\ ~aux.hollow => \A q \in mem.out : \E x \in I!Present : q = <<x, I!Project(x).has>>)'
  BY <1>1, <1>6 DEF I!OutInv
<1>10. (app.asks = "scrape" => /\ \A q, r \in mem.out : q # r => ~I!Shared(q[2], r[2])
                               /\ I!Cardinality(mem.out) <= Limit /\ (I!Cardinality(mem.out) = Limit => at = "end")
                               /\ mem.status \in {"none", "ended"})'
  BY <1>1 DEF I!OutInv
<1>11. (~aux.hollow /\ (app.asks = "walk" \/ mem.clean) =>
              /\ at \in {"load", "gallery"} => \A x \in I!Before(mem.page) : I!Taken(x)
              /\ at = "project" => \A x \in I!Before(mem.page + 1) : I!Taken(x) \/ x \in I!Range(mem.items)
              /\ mem.status = "ended" => \/ app.asks = "scrape" /\ I!Cardinality(mem.out) = Limit
                                         \/ \A x \in I!Present : I!Taken(x))'
  BY <1>6, <1>7
<1>12. I!OutInv' BY <1>8, <1>9, <1>10, <1>11 DEF I!OutInv
<1> QED BY <1>1, <1>2, <1>3, <1>4, <1>5, <1>12, GalleryKeeps

\* A page of the gallery is turned, out of the cache or the site.
LEMMA PageTurns ==
    ASSUME I!IngestInv, I!Galleries, at = "gallery", mem.page <= MaxPages, app' = app, faults' \in 0 .. Faults,
           NEW items, I!Holds(<<"page", mem.page>>, items)' \/ I!Holds(<<"page", mem.page>>, items),
           mem'.out = mem.out, mem'.page = mem.page, mem'.items = items, mem'.tries = 1,
           mem'.status = IF items = <<>> THEN "ended" ELSE mem.status,
           mem'.clean \in BOOLEAN, mem'.clean => mem.clean, DOMAIN mem' = DOMAIN mem,
           at' = IF mem'.status # "none" THEN "end" ELSE IF items # <<>> THEN "project" ELSE "gallery",
           aux'.hollow \in BOOLEAN, aux.hollow => aux'.hollow, aux'.tears = aux.tears, aux'.runs = aux.runs, DOMAIN aux' = DOMAIN aux,
           \A n \in 1 .. Len(aux'.log) : aux'.log[n].is = "torn" => n = Len(aux'.log), I!StoreInv'
    PROVE  I!IngestInv'
<1>1. I!StoreInv /\ I!PlaceInv /\ I!OutInv /\ I!Site /\ I!TypeOK /\ I!Shaped /\ mem.clean \in BOOLEAN BY DiskShape
<1>2. mem.status = "none" BY <1>1 DEF I!TypeOK
<1>3. at' = IF items = <<>> THEN "end" ELSE "project" BY <1>2
<1>4. mem'.status = IF items = <<>> THEN "ended" ELSE "none" BY <1>2
<1>5. 1 \in 1 .. Tries BY IngestBounds
<1>6. I!TypeOK' BY <1>1, <1>3, <1>4, <1>5 DEF I!TypeOK
<1>7. I!Shaped'
  <2>1. I!Galleries' BY TruthOn
  <2>2. aux'.tears \in Nat BY DiskShape
  <2> QED BY <1>1, <1>3, <2>1, <2>2 DEF I!Shaped
<1>8. I!PlaceInv' /\ I!OutInv' BY <1>1, Turned
<1> QED BY <1>1, <1>6, <1>7, <1>8, GalleryKeeps

\* A project is given out, out of the cache or the site, or is passed over.
LEMMA ProjectGiven ==
    ASSUME I!IngestInv, I!Galleries, at = "project", app' = app, faults' \in 0 .. Faults,
           NEW links, links = I!Project(Head(mem.items)).has \/ aux'.hollow \/ (app.asks = "scrape" /\ ~mem'.clean),
           mem'.out = I!Kept(mem, Head(mem.items), links), mem'.items = Tail(mem.items), mem'.tries = 1,
           mem'.page = IF Tail(mem.items) = <<>> THEN mem.page + 1 ELSE mem.page,
           mem'.status = IF app.asks = "scrape" /\ I!Cardinality(mem'.out) >= Limit THEN "ended" ELSE mem.status,
           mem'.clean \in BOOLEAN, mem'.clean => mem.clean, DOMAIN mem' = DOMAIN mem,
           at' = IF mem'.status # "none" THEN "end" ELSE IF mem'.items # <<>> THEN "project" ELSE "gallery",
           aux'.hollow \in BOOLEAN, aux.hollow => aux'.hollow, aux'.tears = aux.tears, aux'.runs = aux.runs, DOMAIN aux' = DOMAIN aux,
           \A n \in 1 .. Len(aux'.log) : aux'.log[n].is = "torn" => n = Len(aux'.log), I!StoreInv'
    PROVE  I!IngestInv'
<1>1. I!StoreInv /\ I!PlaceInv /\ I!OutInv /\ I!Site /\ I!TypeOK /\ I!Shaped /\ mem.clean \in BOOLEAN BY DiskShape
<1>2. mem.status = "none" BY <1>1 DEF I!TypeOK
<1>3. at' \in {"end", "project", "gallery"} /\ mem'.status \in {"none", "ended"} /\ (mem'.status # "none" <=> at' = "end") BY <1>2
<1>4. mem'.page \in 1 .. MaxPages + 1
  <2>1. mem.page <= MaxPages /\ mem.page \in 1 .. MaxPages + 1 BY <1>1 DEF I!PlaceInv, I!TypeOK, I!Galleries
  <2> QED BY <2>1, IngestBounds
<1>5. 1 \in 1 .. Tries BY IngestBounds
<1>6. I!TypeOK' BY <1>1, <1>3, <1>4, <1>5 DEF I!TypeOK, I!Galleries
<1>7. I!Shaped'
  <2>1. I!Galleries' BY TruthOn
  <2>2. aux'.tears \in Nat BY DiskShape
  <2> QED BY <1>1, <1>3, <2>1, <2>2 DEF I!Shaped
<1>8. I!PlaceInv' /\ I!OutInv' BY <1>1, GivenOut
<1> QED BY <1>1, <1>6, <1>7, <1>8, GalleryKeeps

\* What is put is in the file and in the cache, or the process is killed in the append.
LEMMA PutIs ==
    ASSUME I!IngestInv, I!Galleries, app' = app, faults' \in 0 .. Faults, at # "load", NEW pc, pc # "load", NEW m, NEW k \in I!Keys, NEW got,
           I!Put(k, got, pc, m), m.cache = mem.cache, "cache" \in DOMAIN m,
           got.has = I!Truth(k) \/ got = I!Hollow
    PROVE  \/ I!IngestInv'
           \/ /\ at' = pc /\ mem'.page = m.page /\ mem'.items = m.items /\ mem'.tries = m.tries /\ mem'.out = m.out
              /\ mem'.seen = m.seen /\ mem'.clean = m.clean /\ mem'.status = m.status /\ DOMAIN mem' = DOMAIN m
              /\ aux'.hollow \in BOOLEAN /\ (aux.hollow => aux'.hollow) /\ (got = I!Hollow => aux'.hollow)
              /\ aux'.tears = aux.tears /\ aux'.runs = aux.runs /\ DOMAIN aux' = DOMAIN aux
              /\ \A n \in 1 .. Len(aux'.log) : aux'.log[n].is = "torn" => n = Len(aux'.log)
              /\ I!Holds(k, got.has)' /\ I!StoreInv'
<1>1. CASE I!Again(I!Appended(I!Line(k, got.has, "torn")), aux.tears + 1)
  <2>1. PICK v : v = got.has OBVIOUS
  <2>2. I!Again(I!Appended(I!Line(k, v, "torn")), aux.tears + 1) BY <1>1, <2>1
  <2> QED BY <2>2, PutKilled
<1>2. ASSUME /\ aux' = [I!Noted(got) EXCEPT !.log = I!Appended(I!Line(k, got.has, "whole")), !.saved = @ \cup {k}]
             /\ I!Go(pc, [m EXCEPT !.cache = [j \in DOMAIN @ \cup {k} |-> IF j = k THEN got.has ELSE @[j]]])
      PROVE  /\ at' = pc /\ mem'.page = m.page /\ mem'.items = m.items /\ mem'.tries = m.tries /\ mem'.out = m.out
             /\ mem'.seen = m.seen /\ mem'.clean = m.clean /\ mem'.status = m.status /\ DOMAIN mem' = DOMAIN m
             /\ aux'.hollow \in BOOLEAN /\ (aux.hollow => aux'.hollow) /\ (got = I!Hollow => aux'.hollow)
             /\ aux'.tears = aux.tears /\ aux'.runs = aux.runs /\ DOMAIN aux' = DOMAIN aux
             /\ \A n \in 1 .. Len(aux'.log) : aux'.log[n].is = "torn" => n = Len(aux'.log)
             /\ I!Holds(k, got.has)' /\ I!StoreInv'
  <2>1. PICK log : log = I!Appended(I!Line(k, got.has, "whole")) OBVIOUS
  <2>2. PICK saved : saved = aux.saved \cup {k} OBVIOUS
  <2>3. PICK hollow \in BOOLEAN : hollow <=> aux.hollow \/ got.is = "hollow" OBVIOUS
  <2>4. PICK cache : cache = [j \in DOMAIN mem.cache \cup {k} |-> IF j = k THEN got.has ELSE mem.cache[j]] OBVIOUS
  <2>5. PICK noted : noted = I!Noted(got) OBVIOUS
  <2>6. noted = [aux EXCEPT !.hollow = aux.hollow \/ got.is = "hollow"] BY <2>5 DEF I!Noted
  <2>7. (aux.hollow \/ got.is = "hollow") = hollow
    <3>1. (aux.hollow \/ got.is = "hollow") \in BOOLEAN OBVIOUS
    <3> QED BY <2>3, <3>1
  <2>8. noted = [aux EXCEPT !.hollow = hollow] BY <2>6, <2>7
  <2>9. noted.saved = aux.saved /\ noted.hollow = hollow /\ noted.tears = aux.tears /\ noted.runs = aux.runs /\ DOMAIN noted = DOMAIN aux
    BY <2>8, DiskShape
  <2>10. aux' = [noted EXCEPT !.log = log, !.saved = saved] BY <1>2, <2>1, <2>2, <2>5, <2>9
  <2>11. /\ aux'.log = log /\ aux'.saved = saved /\ aux'.hollow = hollow /\ aux'.tears = aux.tears /\ aux'.runs = aux.runs
         /\ DOMAIN aux' = DOMAIN aux
    BY <2>9, <2>10, DiskShape
  <2>12. mem' = [m EXCEPT !.cache = cache] /\ at' = pc BY <1>2, <2>4 DEF I!Go
  <2>13. /\ mem'.cache = cache /\ mem'.page = m.page /\ mem'.items = m.items /\ mem'.tries = m.tries /\ mem'.out = m.out
         /\ mem'.seen = m.seen /\ mem'.clean = m.clean /\ mem'.status = m.status /\ DOMAIN mem' = DOMAIN m
    BY <2>12
  <2>14. I!StoreInv /\ aux.hollow \in BOOLEAN /\ aux.tears \in Nat BY DiskShape
  <2>15. aux.hollow => aux'.hollow BY <2>3, <2>11
  <2>16. got = I!Hollow => got.is = "hollow" /\ got.has = <<>> BY Answers
  <2>17. got = I!Hollow => aux'.hollow BY <2>3, <2>11, <2>16
  <2>18. PICK v : v = got.has OBVIOUS
  <2>19. I!Holds(k, v)'
    <3>1. v = I!Truth(k) \/ (aux'.hollow /\ v = <<>>) BY <2>16, <2>17, <2>18
    <3>2. I!Truth(k)' = I!Truth(k) BY TruthOn
    <3> QED BY <3>1, <3>2 DEF I!Holds
  <2>20. I!StoreInv'
    <3>1. aux'.log = I!Appended(I!Line(k, v, "whole")) BY <2>1, <2>11, <2>18
    <3>2. mem'.cache = [j \in DOMAIN mem.cache \cup {k} |-> IF j = k THEN v ELSE mem.cache[j]] BY <2>4, <2>13, <2>18
    <3>3. aux'.saved = aux.saved \cup {k} /\ aux'.tears = aux.tears /\ at' # "load" BY <2>2, <2>11, <2>12
    <3> QED BY <2>14, <2>15, <2>19, <3>1, <3>2, <3>3, StorePut
  <2>21. \A n \in 1 .. Len(log) : log[n].is = "torn" => n = Len(log)
    <3>1. I!Lined(aux.log) BY <2>14 DEF I!StoreInv
    <3>2. PICK is \in {"whole", "torn"} : is = "whole" OBVIOUS
    <3>3. log = I!Appended(I!Line(k, v, is)) BY <2>1, <2>18, <3>2
    <3> QED BY <3>1, <3>3, DiskShape, TornLast
  <2>22. I!Holds(k, got.has)' 
    <3>1. v = I!Truth(k)' \/ (aux'.hollow /\ v = <<>>) BY <2>19 DEF I!Holds
    <3>2. I!Holds(k, v)' BY <2>19
    <3> QED BY <2>18, <3>2
  <2> QED BY <2>11, <2>12, <2>13, <2>15, <2>17, <2>20, <2>21, <2>22
<1> QED BY <1>1, <1>2 DEF I!Put

\* A page is listed in the process, or a project of it is given out, and nothing else in it changes.
LEMMA ListedIs ==
    ASSUME NEW m, {"items", "tries", "status"} \subseteq DOMAIN m, NEW items, NEW l, l = I!Listed(m, items)
    PROVE  /\ l.items = items /\ l.tries = 1 /\ l.status = (IF items = <<>> THEN "ended" ELSE m.status)
           /\ l.cache = m.cache /\ l.page = m.page /\ l.out = m.out /\ l.seen = m.seen /\ l.clean = m.clean /\ DOMAIN l = DOMAIN m
<1>1. PICK s : s = IF items = <<>> THEN "ended" ELSE m.status OBVIOUS
<1>2. l = [m EXCEPT !.items = items, !.tries = 1, !.status = s] BY <1>1 DEF I!Listed
<1> QED BY <1>1, <1>2

\* What giving a project out leaves in the process.
LEMMA GivenIs ==
    ASSUME NEW m, {"items", "tries", "page", "out", "status"} \subseteq DOMAIN m, NEW links, NEW g, g = I!Given(m, links)
    PROVE  /\ g.items = Tail(m.items) /\ g.tries = 1 /\ g.out = I!Kept(m, Head(m.items), links)
           /\ g.page = (IF Tail(m.items) = <<>> THEN m.page + 1 ELSE m.page)
           /\ g.status = (IF app.asks = "scrape" /\ I!Cardinality(g.out) >= Limit THEN "ended" ELSE m.status)
           /\ g.cache = m.cache /\ g.seen = m.seen /\ g.clean = m.clean /\ DOMAIN g = DOMAIN m
<1>1. PICK out : out = I!Kept(m, Head(m.items), links) OBVIOUS
<1>2. PICK s : s = IF app.asks = "scrape" /\ I!Cardinality(out) >= Limit THEN "ended" ELSE m.status OBVIOUS
<1>3. PICK rest : rest = Tail(m.items) OBVIOUS
<1>4. PICK n : n = IF rest = <<>> THEN m.page + 1 ELSE m.page OBVIOUS
<1>5. g = [m EXCEPT !.items = rest, !.tries = 1, !.page = n, !.out = out, !.status = s] BY <1>1, <1>2, <1>3, <1>4 DEF I!Given
<1> QED BY <1>1, <1>2, <1>3, <1>4, <1>5

\* The same of a process that met a fault: what is kept of a project does not depend on it.
LEMMA KeptSame == ASSUME NEW m, NEW l, m.out = l.out, NEW p, NEW links PROVE I!Kept(m, p, links) = I!Kept(l, p, links)
  BY DEF I!Kept

\* A page of the gallery is there or is beyond its end.
LEMMA GalleryAnswers ==
    ASSUME I!Site, I!Galleries, NEW n \in Nat \ {0}, NEW truth, truth = I!Gallery(n)
    PROVE  truth.is \in {"ok", "absent"} /\ (truth.is = "absent" => n > Len(app.gallery))
<1>1. Len(app.gallery) \in Nat /\ app.beyond.is \in {"ok", "absent"} BY GalleryIs
<1>2. CASE n <= Len(app.gallery)
  <2>1. truth.is = "ok" BY <1>2 DEF I!Gallery, I!Page
  <2> QED BY <2>1
<1>3. CASE ~(n <= Len(app.gallery))
  <2>1. truth = app.beyond BY <1>3 DEF I!Gallery
  <2> QED BY <1>1, <1>3, <2>1
<1> QED BY <1>2, <1>3

\* The gallery is turned, page by page.
LEMMA IngestTurns == ASSUME I!IngestInv, I!TurnPage PROVE I!IngestInv'
<1>1. at = "gallery" /\ app' = app BY DEF I!TurnPage
<1>2. I!Galleries BY <1>1, DiskShape DEF I!Shaped
<1>3. I!StoreInv /\ I!PlaceInv /\ I!OutInv /\ I!Site /\ I!TypeOK /\ I!Shaped BY <1>2, DiskShape
<1>4. mem.status = "none" /\ mem.page \in Nat \ {0} /\ mem.page <= Len(app.gallery) + 1 /\ mem.items = <<>>
  <2>1. mem.status = "none" /\ mem.page \in 1 .. MaxPages + 1 BY <1>1, <1>2, <1>3 DEF I!TypeOK, I!Galleries
  <2>2. mem.page <= Len(app.gallery) + 1 /\ mem.items = <<>> BY <1>1, <1>3 DEF I!PlaceInv
  <2> QED BY <2>1, <2>2, IngestBounds
<1>5. Len(app.gallery) \in Nat BY <1>2, <1>3, GalleryIs
<1>6. PICK n : n = mem.page OBVIOUS
<1>7. PICK k : k = <<"page", n>> OBVIOUS
<1>8. k \in I!Keys /\ I!Truth(k) = I!Gallery(n).has
  <2>1. k[1] = "page" /\ k[2] = n BY <1>7
  <2>2. k \in {"page"} \X Nat BY <1>4, <1>6, <1>7
  <2> QED BY <2>1, <2>2 DEF I!Keys, I!Truth
<1>9. ASSUME n > MaxPages \/ n > Len(app.gallery), ~aux.hollow, app.asks = "walk" \/ mem.clean, NEW x \in I!Present PROVE I!Taken(x)
  <2>1. x \in I!Before(n) BY <1>4, <1>5, <1>6, <1>9, PresentBefore
  <2> QED BY <1>1, <1>3, <1>6, <1>9, <2>1 DEF I!OutInv
<1>10. \/ n > MaxPages /\ I!Done(mem, "ended") /\ UNCHANGED <<aux, faults>>
       \/ /\ n <= MaxPages /\ k \in DOMAIN mem.cache /\ UNCHANGED <<aux, faults>>
          /\ I!Go(I!Where(I!Listed(mem, mem.cache[k])), I!Listed(mem, mem.cache[k]))
       \/ n <= MaxPages /\ I!Retry
       \/ /\ n <= MaxPages
          /\ \E r \in I!Fetched(I!Gallery(n)) :
                /\ faults' = r.faults
                /\ \/ r.got.is = "blocked" /\ I!Unread(r.m) /\ aux' = aux
                   \/ r.got.is = "absent" /\ I!Done(r.m, "ended") /\ aux' = aux
                   \/ /\ r.got.is \in {"ok", "hollow"}
                      /\ I!Put(k, r.got, I!Where(I!Listed(r.m, r.got.has)), I!Listed(r.m, r.got.has))
                   \/ r.got.is \notin {"blocked", "absent", "ok", "hollow"}
  <2>1. CASE n > MaxPages
    <3>1. I!Done(mem, "ended") /\ UNCHANGED <<aux, faults>>
      <4>1. ~(mem.page <= MaxPages) BY <1>4, <1>6, <2>1, IngestBounds
      <4> QED BY <1>6, <2>1, <4>1 DEF I!TurnPage
    <3> QED BY <2>1, <3>1
  <2>2. CASE n <= MaxPages /\ k \in DOMAIN mem.cache
    <3>1. ~(mem.page > MaxPages) BY <1>4, <1>6, <2>2, IngestBounds
    <3>2. /\ I!Go(I!Where(I!Listed(mem, mem.cache[k])), I!Listed(mem, mem.cache[k])) /\ UNCHANGED <<aux, faults>>
      BY <1>6, <1>7, <2>2, <3>1 DEF I!TurnPage
    <3> QED BY <2>2, <3>2
  <2>3. CASE n <= MaxPages /\ k \notin DOMAIN mem.cache
    <3>1. ~(mem.page > MaxPages) BY <1>4, <1>6, <2>3, IngestBounds
    <3> DEFINE Then(got, m) ==
           CASE got.is = "blocked" -> I!Unread(m) /\ aux' = aux
             [] got.is = "absent"  -> I!Done(m, "ended") /\ aux' = aux
             [] got.is \in {"ok", "hollow"} -> I!Put(k, got, I!Where(I!Listed(m, got.has)), I!Listed(m, got.has))
    <3>2. I!Retry \/ \E r \in I!Fetched(I!Gallery(n)) : faults' = r.faults /\ Then(r.got, r.m)
      BY <1>6, <1>7, <2>3, <3>1 DEF I!TurnPage
    <3>3. CASE I!Retry BY <2>3, <3>3
    <3>4. ASSUME NEW r \in I!Fetched(I!Gallery(n)), faults' = r.faults, Then(r.got, r.m)
          PROVE  \/ r.got.is = "blocked" /\ I!Unread(r.m) /\ aux' = aux
                 \/ r.got.is = "absent" /\ I!Done(r.m, "ended") /\ aux' = aux
                 \/ /\ r.got.is \in {"ok", "hollow"}
                    /\ I!Put(k, r.got, I!Where(I!Listed(r.m, r.got.has)), I!Listed(r.m, r.got.has))
                 \/ r.got.is \notin {"blocked", "absent", "ok", "hollow"}
      <4>1. CASE r.got.is = "blocked" BY <3>4, <4>1
      <4>2. CASE r.got.is = "absent" BY <3>4, <4>2
      <4>3. CASE r.got.is \in {"ok", "hollow"} BY <3>4, <4>3
      <4> QED BY <4>1, <4>2, <4>3
    <3> HIDE DEF Then
    <3> QED BY <2>3, <3>2, <3>3, <3>4
  <2> QED BY <1>4, <1>6, <2>1, <2>2, <2>3, IngestBounds
<1>11. CASE n > MaxPages /\ I!Done(mem, "ended") /\ UNCHANGED <<aux, faults>>
  <2>1. at' = "end" /\ mem' = [mem EXCEPT !.status = "ended"] /\ aux' = aux /\ faults' = faults BY <1>11 DEF I!Done
  <2>2. /\ mem'.cache = mem.cache /\ mem'.page = mem.page /\ mem'.tries = mem.tries /\ mem'.out = mem.out
        /\ mem'.status = "ended" /\ DOMAIN mem' = DOMAIN mem /\ mem'.clean = mem.clean
    BY <2>1, DiskShape
  <2>3. PICK how \in {"ended", "blocked"} : how = "ended" OBVIOUS
  <2> QED BY <1>1, <1>2, <1>9, <1>11, <2>1, <2>2, <2>3, DiskShape, GalleryEnds
<1>12. CASE /\ n <= MaxPages /\ k \in DOMAIN mem.cache /\ UNCHANGED <<aux, faults>>
            /\ I!Go(I!Where(I!Listed(mem, mem.cache[k])), I!Listed(mem, mem.cache[k]))
  <2>1. PICK items : items = mem.cache[k] OBVIOUS
  <2>2. PICK l : l = I!Listed(mem, items) OBVIOUS
  <2>3. /\ l.items = items /\ l.tries = 1 /\ l.status = (IF items = <<>> THEN "ended" ELSE mem.status)
        /\ l.cache = mem.cache /\ l.page = mem.page /\ l.out = mem.out /\ l.clean = mem.clean /\ DOMAIN l = DOMAIN mem
    <3>1. {"items", "tries", "status"} \subseteq DOMAIN mem BY DiskShape
    <3> QED BY <2>2, <3>1, ListedIs
  <2>4. mem' = l /\ at' = I!Where(l) /\ aux' = aux /\ faults' = faults BY <1>12, <2>1, <2>2 DEF I!Go
  <2>5. at' = IF mem'.status # "none" THEN "end" ELSE IF items # <<>> THEN "project" ELSE "gallery" BY <2>3, <2>4 DEF I!Where
  <2>6. I!Holds(<<"page", mem.page>>, items) BY <1>3, <1>6, <1>7, <1>12, <2>1 DEF I!StoreInv
  <2>7. I!StoreInv'
    <3>1. ASSUME NEW j \in DOMAIN mem'.cache PROVE j \in I!Keys /\ I!Holds(j, mem.cache[j])'
      <4>1. PICK v : v = mem.cache[j] OBVIOUS
      <4>2. j \in I!Keys /\ I!Holds(j, v) BY <1>3, <2>3, <2>4, <4>1 DEF I!StoreInv
      <4> QED BY <1>1, <2>3, <2>4, <4>1, <4>2, CacheHolds
    <3>2. I!Whole \subseteq DOMAIN mem'.cache BY <1>1, <1>3, <2>3, <2>4 DEF I!StoreInv
    <3> QED BY <1>1, <1>3, <2>4, <3>1, <3>2, StoreSame
  <2>8. \A i \in 1 .. Len(aux'.log) : aux'.log[i].is = "torn" => i = Len(aux'.log) BY <2>4, DiskShape
  <2>9. mem.page <= MaxPages /\ faults' \in 0 .. Faults /\ aux'.hollow \in BOOLEAN BY <1>6, <1>12, <2>4, DiskShape
  <2>10. mem'.clean \in BOOLEAN /\ (mem'.clean => mem.clean) BY <2>3, <2>4, DiskShape
  <2>11. /\ mem'.out = mem.out /\ mem'.page = mem.page /\ mem'.items = items /\ mem'.tries = 1
         /\ mem'.status = IF items = <<>> THEN "ended" ELSE mem.status
         /\ DOMAIN mem' = DOMAIN mem
    BY <2>3, <2>4
  <2> QED BY <1>1, <1>2, <2>4, <2>5, <2>6, <2>7, <2>8, <2>9, <2>10, <2>11, PageTurns
<1>13. CASE n <= MaxPages /\ I!Retry BY <1>1, <1>13, IngestRetry
<1>14. ASSUME n <= MaxPages, NEW r \in I!Fetched(I!Gallery(n)), faults' = r.faults,
              \/ r.got.is = "blocked" /\ I!Unread(r.m) /\ aux' = aux
              \/ r.got.is = "absent" /\ I!Done(r.m, "ended") /\ aux' = aux
              \/ /\ r.got.is \in {"ok", "hollow"}
                 /\ I!Put(k, r.got, I!Where(I!Listed(r.m, r.got.has)), I!Listed(r.m, r.got.has))
              \/ r.got.is \notin {"blocked", "absent", "ok", "hollow"}
       PROVE  I!IngestInv'
  <2>1. PICK truth : truth = I!Gallery(n) OBVIOUS
  <2>2. truth.is \in {"ok", "absent"} /\ (truth.is = "absent" => n > Len(app.gallery)) BY <1>2, <1>3, <1>4, <1>6, <2>1, GalleryAnswers
  <2>3. PICK m : m = r.m OBVIOUS
  <2>4. PICK got : got = r.got OBVIOUS
  <2>5. /\ faults' \in 0 .. Faults
        /\ DOMAIN m = DOMAIN mem /\ m.clean \in BOOLEAN /\ (m.clean => mem.clean)
        /\ m.cache = mem.cache /\ m.page = mem.page /\ m.items = mem.items /\ m.tries = mem.tries
        /\ m.out = mem.out /\ m.seen = mem.seen /\ m.status = mem.status
        /\ \/ got = truth
           \/ got = I!Blocked /\ ~m.clean
           \/ got = I!Hollow /\ truth.is = "ok" /\ at # "api" /\ ~m.clean
    BY <1>3, <1>14, <2>1, <2>3, <2>4, Fetches
  <2>6. got.is \in {"blocked", "absent", "ok", "hollow"} BY <2>2, <2>5, Answers
  <2>7. CASE got.is = "blocked" /\ I!Unread(m) /\ aux' = aux
    <3>1. ~m.clean BY <2>2, <2>5, <2>7, Answers
    <3>2. PICK how \in {"ended", "blocked"} : how = IF app.asks = "walk" THEN "blocked" ELSE "ended" OBVIOUS
    <3>3. at' = "end" /\ mem' = [m EXCEPT !.status = how] BY <2>7, <3>2 DEF I!Unread, I!Done
    <3>4. /\ mem'.cache = mem.cache /\ mem'.page = mem.page /\ mem'.tries = mem.tries /\ mem'.out = mem.out
          /\ mem'.status = how /\ DOMAIN mem' = DOMAIN mem /\ mem'.clean = m.clean
      BY <2>5, <3>3, DiskShape
    <3>5. app.asks = "scrape" => how = "ended" BY <3>2
    <3>6. how = "ended" /\ ~aux.hollow /\ (app.asks = "walk" \/ mem'.clean) => \A x \in I!Present : I!Taken(x)
      BY <3>1, <3>2, <3>4
    <3> QED BY <1>1, <1>2, <2>5, <2>7, <3>3, <3>4, <3>5, <3>6, GalleryEnds
  <2>8. CASE got.is = "absent" /\ I!Done(m, "ended") /\ aux' = aux
    <3>1. n > Len(app.gallery) BY <2>2, <2>5, <2>8, Answers
    <3>2. PICK how \in {"ended", "blocked"} : how = "ended" OBVIOUS
    <3>3. at' = "end" /\ mem' = [m EXCEPT !.status = how] BY <2>8, <3>2 DEF I!Done
    <3>4. /\ mem'.cache = mem.cache /\ mem'.page = mem.page /\ mem'.tries = mem.tries /\ mem'.out = mem.out
          /\ mem'.status = how /\ DOMAIN mem' = DOMAIN mem /\ mem'.clean = m.clean
      BY <2>5, <3>3, DiskShape
    <3>5. how = "ended" /\ ~aux.hollow /\ (app.asks = "walk" \/ mem'.clean) => \A x \in I!Present : I!Taken(x)
      BY <1>9, <2>5, <3>1, <3>4
    <3> QED BY <1>1, <1>2, <2>5, <2>8, <3>2, <3>3, <3>4, <3>5, GalleryEnds
  <2>9. CASE got.is \in {"ok", "hollow"} /\ I!Put(k, got, I!Where(I!Listed(m, got.has)), I!Listed(m, got.has))
    <3>1. PICK items : items = got.has OBVIOUS
    <3>2. PICK l : l = I!Listed(m, items) OBVIOUS
    <3>3. PICK pc : pc = I!Where(l) OBVIOUS
    <3>4. /\ l.items = items /\ l.tries = 1 /\ l.status = (IF items = <<>> THEN "ended" ELSE mem.status)
          /\ l.cache = mem.cache /\ l.page = mem.page /\ l.out = mem.out /\ l.clean = m.clean /\ DOMAIN l = DOMAIN mem
      <4>1. {"items", "tries", "status"} \subseteq DOMAIN m BY <2>5, DiskShape
      <4> QED BY <2>5, <3>2, <4>1, ListedIs
    <3>5. pc = IF l.status # "none" THEN "end" ELSE IF items # <<>> THEN "project" ELSE "gallery" BY <3>3, <3>4 DEF I!Where
    <3>6. I!Put(k, got, pc, l) BY <2>9, <3>1, <3>2, <3>3
    <3>7. got.has = I!Truth(k) \/ got = I!Hollow BY <1>8, <2>1, <2>5, <2>9, Answers
    <3>8. pc # "load" /\ at # "load" /\ "cache" \in DOMAIN l BY <1>1, <3>4, <3>5, DiskShape
    <3>9. \/ I!IngestInv'
          \/ /\ at' = pc /\ mem'.page = l.page /\ mem'.items = l.items /\ mem'.tries = l.tries /\ mem'.out = l.out
             /\ mem'.seen = l.seen /\ mem'.clean = l.clean /\ mem'.status = l.status /\ DOMAIN mem' = DOMAIN l
             /\ aux'.hollow \in BOOLEAN /\ (aux.hollow => aux'.hollow) /\ (got = I!Hollow => aux'.hollow)
             /\ aux'.tears = aux.tears /\ aux'.runs = aux.runs /\ DOMAIN aux' = DOMAIN aux
             /\ \A i \in 1 .. Len(aux'.log) : aux'.log[i].is = "torn" => i = Len(aux'.log)
             /\ I!Holds(k, got.has)' /\ I!StoreInv'
      BY <1>1, <1>2, <1>8, <2>5, <3>4, <3>6, <3>7, <3>8, PutIs
    <3>10. CASE /\ at' = pc /\ mem'.page = l.page /\ mem'.items = l.items /\ mem'.tries = l.tries /\ mem'.out = l.out
                /\ mem'.seen = l.seen /\ mem'.clean = l.clean /\ mem'.status = l.status /\ DOMAIN mem' = DOMAIN l
                /\ aux'.hollow \in BOOLEAN /\ (aux.hollow => aux'.hollow) /\ (got = I!Hollow => aux'.hollow)
                /\ aux'.tears = aux.tears /\ aux'.runs = aux.runs /\ DOMAIN aux' = DOMAIN aux
                /\ \A i \in 1 .. Len(aux'.log) : aux'.log[i].is = "torn" => i = Len(aux'.log)
                /\ I!Holds(k, got.has)' /\ I!StoreInv'
      <4>1. I!Holds(<<"page", mem.page>>, items)'
        <5>1. I!Holds(k, items)' BY <3>1, <3>10
        <5>2. items = I!Truth(k)' \/ (aux'.hollow /\ items = <<>>) BY <5>1 DEF I!Holds
        <5>3. mem.page' = mem.page BY <3>4, <3>10
        <5>4. <<"page", mem.page>>' = k BY <1>6, <1>7, <5>3
        <5> QED BY <5>1, <5>4
      <4>2. I!Holds(<<"page", mem.page>>, items)' \/ I!Holds(k, items)' BY <4>1
      <4>3. /\ mem'.out = mem.out /\ mem'.page = mem.page /\ mem'.items = items /\ mem'.tries = 1
            /\ mem'.status = (IF items = <<>> THEN "ended" ELSE mem.status)
            /\ DOMAIN mem' = DOMAIN mem
        BY <3>4, <3>10
      <4>4. mem'.clean \in BOOLEAN /\ (mem'.clean => mem.clean) BY <2>5, <3>4, <3>10
      <4>5. at' = IF mem'.status # "none" THEN "end" ELSE IF items # <<>> THEN "project" ELSE "gallery" BY <3>5, <3>10
      <4>6. mem.page <= MaxPages BY <1>6, <1>14
      <4> QED BY <1>1, <1>2, <2>5, <3>10, <4>1, <4>3, <4>4, <4>5, <4>6, PageTurns
    <3> QED BY <3>9, <3>10
  <2> QED BY <1>14, <2>3, <2>4, <2>6, <2>7, <2>8, <2>9
<1> QED BY <1>10, <1>11, <1>12, <1>13, <1>14

\* Every project of a page is asked for.
LEMMA IngestSubmits == ASSUME I!IngestInv, I!Submission PROVE I!IngestInv'
<1>1. at = "project" /\ app' = app BY DEF I!Submission
<1>2. I!Galleries BY <1>1, DiskShape DEF I!Shaped
<1>3. I!StoreInv /\ I!PlaceInv /\ I!OutInv /\ I!Site /\ I!TypeOK /\ I!Shaped BY <1>2, DiskShape
<1>4. PICK p : p = Head(mem.items) OBVIOUS
<1>5. p \in I!Projects
  <2>1. mem.items \in Seq(I!Projects) /\ mem.items # <<>> BY <1>1, <1>3 DEF I!PlaceInv
  <2> QED BY <1>4, <2>1, HeadTailProperties
<1>6. PICK k : k = <<"hrefs", p>> OBVIOUS
<1>7. PICK legacy : legacy = <<"links", p>> OBVIOUS
<1>8. /\ k \in I!Keys /\ I!Truth(k) = I!Project(p).has /\ I!Truth(legacy) = I!Project(p).has
  <2>1. k[1] = "hrefs" /\ k[2] = p /\ legacy[1] = "links" /\ legacy[2] = p BY <1>6, <1>7
  <2>2. k \in {"hrefs", "links"} \X I!Projects BY <1>5, <1>6
  <2> QED BY <2>1, <2>2 DEF I!Keys, I!Truth
\* What the cache answers is given out, and nothing is written.
<1>9. ASSUME NEW j \in DOMAIN mem.cache, I!Truth(j) = I!Project(p).has, faults' = faults, aux' = aux,
             I!Go(I!Where(I!Given(mem, mem.cache[j])), I!Given(mem, mem.cache[j]))
      PROVE  I!IngestInv'
  <2>1. PICK links : links = mem.cache[j] OBVIOUS
  <2>2. PICK g : g = I!Given(mem, links) OBVIOUS
  <2>3. /\ g.items = Tail(mem.items) /\ g.tries = 1 /\ g.out = I!Kept(mem, Head(mem.items), links)
        /\ g.page = (IF Tail(mem.items) = <<>> THEN mem.page + 1 ELSE mem.page)
        /\ g.status = (IF app.asks = "scrape" /\ I!Cardinality(g.out) >= Limit THEN "ended" ELSE mem.status)
        /\ g.cache = mem.cache /\ g.clean = mem.clean /\ DOMAIN g = DOMAIN mem
    <3>1. {"items", "tries", "page", "out", "status"} \subseteq DOMAIN mem BY DiskShape
    <3> QED BY <2>2, <3>1, GivenIs
  <2>4. mem' = g /\ at' = I!Where(g) BY <1>9, <2>1, <2>2 DEF I!Go
  <2>5. at' = IF mem'.status # "none" THEN "end" ELSE IF mem'.items # <<>> THEN "project" ELSE "gallery" BY <2>4 DEF I!Where
  <2>6. links = I!Project(Head(mem.items)).has \/ aux'.hollow
    <3>1. I!Holds(j, links) BY <1>3, <2>1 DEF I!StoreInv
    <3> QED BY <1>4, <1>9, <3>1 DEF I!Holds
  <2>7. I!StoreInv'
    <3>1. ASSUME NEW i \in DOMAIN mem'.cache PROVE i \in I!Keys /\ I!Holds(i, mem.cache[i])'
      <4>1. PICK v : v = mem.cache[i] OBVIOUS
      <4>2. i \in I!Keys /\ I!Holds(i, v) BY <1>3, <2>3, <2>4, <4>1 DEF I!StoreInv
      <4> QED BY <1>1, <1>9, <2>3, <2>4, <4>1, <4>2, CacheHolds
    <3>2. I!Whole \subseteq DOMAIN mem'.cache BY <1>1, <1>3, <2>3, <2>4 DEF I!StoreInv
    <3> QED BY <1>1, <1>3, <1>9, <3>1, <3>2, StoreSame
  <2>8. \A i \in 1 .. Len(aux'.log) : aux'.log[i].is = "torn" => i = Len(aux'.log) BY <1>9, DiskShape
  <2>9. faults' \in 0 .. Faults /\ aux'.hollow \in BOOLEAN BY <1>9, DiskShape
  <2>10. mem'.clean \in BOOLEAN /\ (mem'.clean => mem.clean) BY <2>3, <2>4, DiskShape
  <2>11. /\ mem'.items = Tail(mem.items) /\ mem'.tries = 1 /\ mem'.out = I!Kept(mem, Head(mem.items), links)
         /\ mem'.page = (IF Tail(mem.items) = <<>> THEN mem.page + 1 ELSE mem.page)
         /\ mem'.status = (IF app.asks = "scrape" /\ I!Cardinality(mem'.out) >= Limit THEN "ended" ELSE mem.status)
         /\ DOMAIN mem' = DOMAIN mem
    BY <2>3, <2>4
  <2> QED BY <1>1, <1>2, <1>9, <2>5, <2>6, <2>7, <2>8, <2>9, <2>10, <2>11, ProjectGiven
<1> DEFINE Then(got, m) ==
       CASE got.is = "blocked" -> IF app.asks = "walk" THEN I!Unread(m) /\ aux' = aux
                                  ELSE I!Go(I!Where(I!Given(m, <<>>)), I!Given(m, <<>>)) /\ aux' = aux
         [] got.is = "absent"  -> I!Go(I!Where(I!Given(m, <<>>)), I!Given(m, <<>>)) /\ aux' = aux
         [] got.is \in {"ok", "hollow"} -> LET g == I!Given(m, got.has) IN I!Put(k, got, I!Where(g), g)
<1>10. \/ \E j \in DOMAIN mem.cache : /\ I!Truth(j) = I!Project(p).has /\ faults' = faults /\ aux' = aux
                                      /\ I!Go(I!Where(I!Given(mem, mem.cache[j])), I!Given(mem, mem.cache[j]))
       \/ I!Retry
       \/ \E r \in I!Fetched(I!Project(p)) : faults' = r.faults /\ Then(r.got, r.m)
  <2>1. CASE app.asks = "scrape" /\ legacy \in DOMAIN mem.cache
    <3>1. /\ I!Go(I!Where(I!Given(mem, mem.cache[legacy])), I!Given(mem, mem.cache[legacy])) /\ aux' = aux /\ faults' = faults
      BY <1>4, <1>7, <2>1 DEF I!Submission
    <3> QED BY <1>8, <2>1, <3>1
  <2>2. CASE (app.asks # "scrape" \/ legacy \notin DOMAIN mem.cache) /\ k \in DOMAIN mem.cache
    <3>1. ~(app.asks = "scrape" /\ legacy \in DOMAIN mem.cache) BY <2>2
    <3>2. /\ I!Go(I!Where(I!Given(mem, mem.cache[k])), I!Given(mem, mem.cache[k])) /\ aux' = aux /\ faults' = faults
      BY <1>4, <1>6, <1>7, <2>2, <3>1 DEF I!Submission
    <3> QED BY <1>8, <2>2, <3>2
  <2>3. CASE /\ ~(app.asks = "scrape" /\ legacy \in DOMAIN mem.cache)
             /\ ~((app.asks # "scrape" \/ legacy \notin DOMAIN mem.cache) /\ k \in DOMAIN mem.cache)
    <3>1. I!Retry \/ \E r \in I!Fetched(I!Project(p)) : faults' = r.faults /\ Then(r.got, r.m)
      BY <1>4, <1>6, <1>7, <2>3 DEF I!Submission
    <3> QED BY <3>1
  <2> QED BY <2>1, <2>2, <2>3
<1>11. CASE I!Retry BY <1>1, <1>11, IngestRetry
<1>12. ASSUME NEW r \in I!Fetched(I!Project(p)), faults' = r.faults, Then(r.got, r.m)
       PROVE  I!IngestInv'
  <2>1. PICK truth : truth = I!Project(p) OBVIOUS
  <2>2. truth.is \in {"ok", "absent"} /\ (truth.is = "absent" => truth.has = <<>>) BY <2>1 DEF I!Project, I!Page
  <2>3. PICK m : m = r.m OBVIOUS
  <2>4. PICK got : got = r.got OBVIOUS
  <2>5. /\ faults' \in 0 .. Faults
        /\ DOMAIN m = DOMAIN mem /\ m.clean \in BOOLEAN /\ (m.clean => mem.clean)
        /\ m.cache = mem.cache /\ m.page = mem.page /\ m.items = mem.items /\ m.tries = mem.tries
        /\ m.out = mem.out /\ m.seen = mem.seen /\ m.status = mem.status
        /\ \/ got = truth
           \/ got = I!Blocked /\ ~m.clean
           \/ got = I!Hollow /\ truth.is = "ok" /\ at # "api" /\ ~m.clean
    BY <1>3, <1>12, <2>1, <2>3, <2>4, Fetches
  <2>6. got.is \in {"blocked", "absent", "ok", "hollow"} BY <2>2, <2>5, Answers
  <2>7. Then(got, m) BY <1>12, <2>3, <2>4
\* What is given out of it, whatever was read.
  <2>8. ASSUME NEW links, NEW g, g = I!Given(m, links)
        PROVE  /\ g.items = Tail(mem.items) /\ g.tries = 1 /\ g.out = I!Kept(mem, Head(mem.items), links)
               /\ g.page = (IF Tail(mem.items) = <<>> THEN mem.page + 1 ELSE mem.page)
               /\ g.status = (IF app.asks = "scrape" /\ I!Cardinality(g.out) >= Limit THEN "ended" ELSE mem.status)
               /\ g.cache = mem.cache /\ g.clean = m.clean /\ DOMAIN g = DOMAIN mem
    <3>1. {"items", "tries", "page", "out", "status"} \subseteq DOMAIN m BY <2>5, DiskShape
    <3>2. /\ g.items = Tail(m.items) /\ g.tries = 1 /\ g.out = I!Kept(m, Head(m.items), links)
          /\ g.page = (IF Tail(m.items) = <<>> THEN m.page + 1 ELSE m.page)
          /\ g.status = (IF app.asks = "scrape" /\ I!Cardinality(g.out) >= Limit THEN "ended" ELSE m.status)
          /\ g.cache = m.cache /\ g.clean = m.clean /\ DOMAIN g = DOMAIN m
      BY <2>8, <3>1, GivenIs
    <3>3. I!Kept(m, Head(m.items), links) = I!Kept(mem, Head(mem.items), links) BY <2>5, KeptSame
    <3> QED BY <2>5, <3>2, <3>3
  <2>9. CASE got.is = "blocked" /\ app.asks = "walk"
    <3>1. I!Unread(m) /\ aux' = aux BY <2>7, <2>9
    <3>2. PICK how \in {"ended", "blocked"} : how = "blocked" OBVIOUS
    <3>3. at' = "end" /\ mem' = [m EXCEPT !.status = how] BY <2>9, <3>1, <3>2 DEF I!Unread, I!Done
    <3>4. /\ mem'.cache = mem.cache /\ mem'.page = mem.page /\ mem'.tries = mem.tries /\ mem'.out = mem.out
          /\ mem'.status = how /\ DOMAIN mem' = DOMAIN mem /\ mem'.clean = m.clean
      BY <2>5, <3>3, DiskShape
    <3>5. app.asks # "scrape" /\ how # "ended" BY <2>9, <3>2
    <3> QED BY <1>1, <1>2, <2>5, <3>1, <3>3, <3>4, <3>5, GalleryEnds
  <2>10. CASE (got.is = "blocked" /\ app.asks # "walk") \/ got.is = "absent"
    <3>1. PICK links : links = <<>> OBVIOUS
    <3>2. PICK g : g = I!Given(m, links) OBVIOUS
    <3>3. /\ g.items = Tail(mem.items) /\ g.tries = 1 /\ g.out = I!Kept(mem, Head(mem.items), links)
          /\ g.page = (IF Tail(mem.items) = <<>> THEN mem.page + 1 ELSE mem.page)
          /\ g.status = (IF app.asks = "scrape" /\ I!Cardinality(g.out) >= Limit THEN "ended" ELSE mem.status)
          /\ g.cache = mem.cache /\ g.clean = m.clean /\ DOMAIN g = DOMAIN mem
      BY <2>8, <3>2
    <3>4. I!Go(I!Where(g), g) /\ aux' = aux
      <4>1. CASE got.is = "blocked" /\ app.asks # "walk" BY <2>7, <3>1, <3>2, <4>1
      <4>2. CASE got.is = "absent" BY <2>7, <3>1, <3>2, <4>2
      <4> QED BY <2>10, <4>1, <4>2
    <3>5. mem' = g /\ at' = I!Where(g) BY <3>4 DEF I!Go
    <3>6. at' = IF mem'.status # "none" THEN "end" ELSE IF mem'.items # <<>> THEN "project" ELSE "gallery" BY <3>5 DEF I!Where
    <3>7. links = I!Project(Head(mem.items)).has \/ (app.asks = "scrape" /\ ~mem'.clean)
      <4>1. CASE got.is = "absent"
        <5>1. got = truth BY <2>5, <4>1, Answers
        <5> QED BY <1>4, <2>1, <2>2, <3>1, <4>1, <5>1
      <4>2. CASE got.is = "blocked" /\ app.asks # "walk"
        <5>1. ~m.clean BY <2>2, <2>5, <4>2, Answers
        <5>2. app.asks = "scrape" BY <1>2, <4>2 DEF I!Galleries
        <5> QED BY <3>3, <3>5, <5>1, <5>2
      <4> QED BY <2>10, <4>1, <4>2
    <3>8. I!StoreInv'
      <4>1. ASSUME NEW i \in DOMAIN mem'.cache PROVE i \in I!Keys /\ I!Holds(i, mem.cache[i])'
        <5>1. PICK v : v = mem.cache[i] OBVIOUS
        <5>2. i \in I!Keys /\ I!Holds(i, v) BY <1>3, <3>3, <3>5, <5>1 DEF I!StoreInv
        <5> QED BY <1>1, <3>3, <3>4, <3>5, <5>1, <5>2, CacheHolds
      <4>2. I!Whole \subseteq DOMAIN mem'.cache BY <1>1, <1>3, <3>3, <3>5 DEF I!StoreInv
      <4> QED BY <1>1, <1>3, <3>4, <4>1, <4>2, StoreSame
    <3>9. \A i \in 1 .. Len(aux'.log) : aux'.log[i].is = "torn" => i = Len(aux'.log) BY <3>4, DiskShape
    <3>10. aux'.hollow \in BOOLEAN BY <3>4, DiskShape
    <3>11. mem'.clean \in BOOLEAN /\ (mem'.clean => mem.clean) BY <2>5, <3>3, <3>5
    <3>12. /\ mem'.items = Tail(mem.items) /\ mem'.tries = 1 /\ mem'.out = I!Kept(mem, Head(mem.items), links)
           /\ mem'.page = (IF Tail(mem.items) = <<>> THEN mem.page + 1 ELSE mem.page)
           /\ mem'.status = (IF app.asks = "scrape" /\ I!Cardinality(mem'.out) >= Limit THEN "ended" ELSE mem.status)
           /\ DOMAIN mem' = DOMAIN mem
      BY <3>3, <3>5
    <3> QED BY <1>1, <1>2, <2>5, <3>4, <3>6, <3>7, <3>8, <3>9, <3>10, <3>11, <3>12, ProjectGiven
  <2>11. CASE got.is \in {"ok", "hollow"}
    <3>1. PICK links : links = got.has OBVIOUS
    <3>2. PICK g : g = I!Given(m, links) OBVIOUS
    <3>3. PICK pc : pc = I!Where(g) OBVIOUS
    <3>4. /\ g.items = Tail(mem.items) /\ g.tries = 1 /\ g.out = I!Kept(mem, Head(mem.items), links)
          /\ g.page = (IF Tail(mem.items) = <<>> THEN mem.page + 1 ELSE mem.page)
          /\ g.status = (IF app.asks = "scrape" /\ I!Cardinality(g.out) >= Limit THEN "ended" ELSE mem.status)
          /\ g.cache = mem.cache /\ g.clean = m.clean /\ DOMAIN g = DOMAIN mem
      BY <2>8, <3>2
    <3>5. pc = IF g.status # "none" THEN "end" ELSE IF g.items # <<>> THEN "project" ELSE "gallery" BY <3>3 DEF I!Where
    <3>6. I!Put(k, got, pc, g) BY <2>7, <2>11, <3>1, <3>2, <3>3
    <3>7. got.has = I!Truth(k) \/ got = I!Hollow BY <1>8, <2>1, <2>5, <2>11, Answers
    <3>8. pc # "load" /\ at # "load" /\ "cache" \in DOMAIN g BY <1>1, <3>4, <3>5, DiskShape
    <3>9. \/ I!IngestInv'
          \/ /\ at' = pc /\ mem'.page = g.page /\ mem'.items = g.items /\ mem'.tries = g.tries /\ mem'.out = g.out
             /\ mem'.seen = g.seen /\ mem'.clean = g.clean /\ mem'.status = g.status /\ DOMAIN mem' = DOMAIN g
             /\ aux'.hollow \in BOOLEAN /\ (aux.hollow => aux'.hollow) /\ (got = I!Hollow => aux'.hollow)
             /\ aux'.tears = aux.tears /\ aux'.runs = aux.runs /\ DOMAIN aux' = DOMAIN aux
             /\ \A i \in 1 .. Len(aux'.log) : aux'.log[i].is = "torn" => i = Len(aux'.log)
             /\ I!Holds(k, got.has)' /\ I!StoreInv'
      BY <1>1, <1>2, <1>8, <2>5, <3>4, <3>6, <3>7, <3>8, PutIs
    <3>10. CASE /\ at' = pc /\ mem'.page = g.page /\ mem'.items = g.items /\ mem'.tries = g.tries /\ mem'.out = g.out
                /\ mem'.seen = g.seen /\ mem'.clean = g.clean /\ mem'.status = g.status /\ DOMAIN mem' = DOMAIN g
                /\ aux'.hollow \in BOOLEAN /\ (aux.hollow => aux'.hollow) /\ (got = I!Hollow => aux'.hollow)
                /\ aux'.tears = aux.tears /\ aux'.runs = aux.runs /\ DOMAIN aux' = DOMAIN aux
                /\ \A i \in 1 .. Len(aux'.log) : aux'.log[i].is = "torn" => i = Len(aux'.log)
                /\ I!Holds(k, got.has)' /\ I!StoreInv'
      <4>1. links = I!Project(Head(mem.items)).has \/ aux'.hollow BY <1>4, <1>8, <3>1, <3>7, <3>10
      <4>2. /\ mem'.items = Tail(mem.items) /\ mem'.tries = 1 /\ mem'.out = I!Kept(mem, Head(mem.items), links)
            /\ mem'.page = (IF Tail(mem.items) = <<>> THEN mem.page + 1 ELSE mem.page)
            /\ mem'.status = (IF app.asks = "scrape" /\ I!Cardinality(mem'.out) >= Limit THEN "ended" ELSE mem.status)
            /\ DOMAIN mem' = DOMAIN mem
        BY <3>4, <3>10
      <4>3. mem'.clean \in BOOLEAN /\ (mem'.clean => mem.clean) BY <2>5, <3>4, <3>10
      <4>4. at' = IF mem'.status # "none" THEN "end" ELSE IF mem'.items # <<>> THEN "project" ELSE "gallery" BY <3>5, <3>10
      <4> QED BY <1>1, <1>2, <2>5, <3>10, <4>1, <4>2, <4>3, <4>4, ProjectGiven
    <3> QED BY <3>9, <3>10
  <2> QED BY <2>6, <2>9, <2>10, <2>11
<1> HIDE DEF Then
<1> QED BY <1>9, <1>10, <1>11, <1>12

\* Noting what was read leaves the file as it is.
LEMMA NotedIs ==
    ASSUME I!IngestInv, NEW got, aux' = I!Noted(got)
    PROVE  /\ aux'.log = aux.log /\ aux'.saved = aux.saved /\ aux'.tears = aux.tears /\ aux'.runs = aux.runs /\ DOMAIN aux' = DOMAIN aux
           /\ aux'.hollow \in BOOLEAN /\ (aux'.hollow <=> aux.hollow \/ got.is = "hollow")
<1>1. PICK hollow \in BOOLEAN : hollow <=> aux.hollow \/ got.is = "hollow" OBVIOUS
<1>2. (aux.hollow \/ got.is = "hollow") = hollow
  <2>1. (aux.hollow \/ got.is = "hollow") \in BOOLEAN OBVIOUS
  <2> QED BY <1>1, <2>1
<1>3. aux' = [aux EXCEPT !.hollow = aux.hollow \/ got.is = "hollow"] BY DEF I!Noted
<1>4. aux' = [aux EXCEPT !.hollow = hollow] BY <1>2, <1>3
<1> QED BY <1>1, <1>4, DiskShape

\* A step of the links or of the event leaves the types as they are.
LEMMA OthersTyped ==
    ASSUME I!IngestInv, ~I!Galleries, app' = app, faults' \in 0 .. Faults, at' \in {"pages", "api", "event", "end"},
           at' = "pages" => app.asks = "links", at' \in {"api", "event"} => app.asks = "meta",
           mem'.status \in {"none", "blocked", "ok", "not_found"}, mem'.status # "none" <=> at' = "end",
           mem'.tries \in 1 .. Tries, mem'.page \in 1 .. (IF app.asks = "links" THEN Len(app.pages) ELSE MaxPages) + 1,
           mem'.clean \in BOOLEAN, DOMAIN mem' = DOMAIN mem,
           aux'.log = aux.log, aux'.saved = aux.saved, aux'.tears = aux.tears, aux'.runs = aux.runs, DOMAIN aux' = DOMAIN aux,
           aux'.hollow \in BOOLEAN, I!LinksInv', I!MetaInv'
    PROVE  I!IngestInv'
<1>1. I!TypeOK' BY DiskShape DEF I!TypeOK
<1>2. I!Shaped' BY DiskShape, TruthOn DEF I!Shaped
<1> QED BY <1>1, <1>2, OthersKeep

\* The anchors of the pages of the event.
LEMMA IngestScans == ASSUME I!IngestInv, I!Scan PROVE I!IngestInv'
<1>1. at = "pages" /\ app' = app BY DEF I!Scan
<1>2. app.asks = "links" /\ ~I!Galleries BY <1>1, DiskShape DEF I!Shaped, I!Galleries
<1>3. I!LinksInv /\ I!Site /\ I!TypeOK /\ I!Shaped BY DiskShape DEF I!IngestInv
<1>4. Len(app.pages) \in Nat /\ \A i \in 1 .. Len(app.pages) : app.pages[i].is \in {"ok", "absent"} BY <1>2, <1>3 DEF I!Site
<1>5. PICK n : n = mem.page OBVIOUS
<1>6. n \in 1 .. Len(app.pages) + 1 /\ mem.status = "none" BY <1>1, <1>2, <1>3, <1>5 DEF I!TypeOK
<1>7. I!MetaInv' BY <1>1, <1>2 DEF I!MetaInv
<1>8. /\ \A l \in mem.out : \E i \in 1 .. Len(app.pages) : l \in I!Range(app.pages[i].has)
      /\ \A i \in 1 .. n - 1 : \/ "blocked" \in mem.seen
                               \/ app.pages[i].is \in mem.seen /\ (~aux.hollow => I!Range(app.pages[i].has) \subseteq mem.out)
  BY <1>1, <1>2, <1>3, <1>5 DEF I!LinksInv
<1> DEFINE Then(got, m) ==
       /\ aux' = I!Noted(got)
       /\ I!Go(at, [m EXCEPT !.page = @ + 1, !.tries = 1, !.out = @ \cup I!Range(got.has),
                             !.seen = @ \cup {IF got.is = "hollow" THEN "ok" ELSE got.is}])
<1>9. \/ n > Len(app.pages) /\ I!Done(mem, I!Scanned(mem.seen)) /\ aux' = aux /\ faults' = faults
      \/ I!Retry
      \/ /\ n <= Len(app.pages)
         /\ \E r \in I!Fetched(app.pages[n]) : faults' = r.faults /\ Then(r.got, r.m)
  <2>1. CASE n > Len(app.pages) BY <1>5, <2>1 DEF I!Scan
  <2>2. CASE ~(n > Len(app.pages))
    <3>1. I!Retry \/ \E r \in I!Fetched(app.pages[n]) : faults' = r.faults /\ Then(r.got, r.m) BY <1>5, <2>2 DEF I!Scan
    <3>2. n <= Len(app.pages) BY <1>4, <1>6, <2>2
    <3> HIDE DEF Then
    <3> QED BY <3>1, <3>2
  <2> QED BY <2>1, <2>2
<1>10. CASE n > Len(app.pages) /\ I!Done(mem, I!Scanned(mem.seen)) /\ aux' = aux /\ faults' = faults
  <2>1. PICK how : how = I!Scanned(mem.seen) OBVIOUS
  <2>2. at' = "end" /\ mem' = [mem EXCEPT !.status = how] BY <1>10, <2>1 DEF I!Done
  <2>3. /\ mem'.page = mem.page /\ mem'.tries = mem.tries /\ mem'.out = mem.out /\ mem'.seen = mem.seen
        /\ mem'.status = how /\ DOMAIN mem' = DOMAIN mem /\ mem'.clean = mem.clean
    BY <2>2, DiskShape
  <2>4. /\ how \in {"blocked", "not_found", "ok"} /\ (how = "not_found" => mem.seen = {"absent"})
        /\ how = "ok" => "blocked" \notin mem.seen
    BY <2>1 DEF I!Scanned
  <2>5. \A i \in 1 .. Len(app.pages) : i \in 1 .. n - 1 BY <1>4, <1>6, <1>10
  <2>6. how = "ok" /\ ~aux.hollow => \A i \in 1 .. Len(app.pages) : I!Range(app.pages[i].has) \subseteq mem.out BY <1>8, <2>4, <2>5
  <2>7. how = "not_found" => \A i \in 1 .. Len(app.pages) : app.pages[i].is = "absent" BY <1>8, <2>4, <2>5
  <2>8. I!LinksInv' BY <1>1, <1>8, <1>10, <2>2, <2>3, <2>6, <2>7 DEF I!LinksInv
  <2> QED BY <1>1, <1>2, <1>7, <1>10, <2>2, <2>3, <2>4, <2>8, DiskShape, OthersTyped DEF I!TypeOK
<1>11. CASE I!Retry BY <1>1, <1>11, IngestRetry
<1>12. ASSUME n <= Len(app.pages), NEW r \in I!Fetched(app.pages[n]), faults' = r.faults, Then(r.got, r.m)
       PROVE  I!IngestInv'
  <2>1. PICK truth : truth = app.pages[n] OBVIOUS
  <2>2. n \in 1 .. Len(app.pages) BY <1>4, <1>6, <1>12
  <2>3. truth.is \in {"ok", "absent"} BY <1>4, <2>1, <2>2
  <2>4. PICK m : m = r.m OBVIOUS
  <2>5. PICK got : got = r.got OBVIOUS
  <2>6. /\ faults' \in 0 .. Faults
        /\ DOMAIN m = DOMAIN mem /\ m.clean \in BOOLEAN
        /\ m.page = mem.page /\ m.out = mem.out /\ m.seen = mem.seen /\ m.status = mem.status
        /\ \/ got = truth
           \/ got = I!Blocked
           \/ got = I!Hollow /\ truth.is = "ok"
    BY <1>3, <1>12, <2>1, <2>4, <2>5, Fetches
  <2>7. PICK s : s = IF got.is = "hollow" THEN "ok" ELSE got.is OBVIOUS
  <2>8. PICK out : out = mem.out \cup I!Range(got.has) OBVIOUS
  <2>9. PICK seen : seen = mem.seen \cup {s} OBVIOUS
  <2>10. aux' = I!Noted(got) /\ at' = at /\ mem' = [m EXCEPT !.page = n + 1, !.tries = 1, !.out = out, !.seen = seen]
    BY <1>5, <1>12, <2>4, <2>5, <2>6, <2>7, <2>8, <2>9 DEF I!Go
  <2>11. /\ mem'.page = n + 1 /\ mem'.tries = 1 /\ mem'.out = out /\ mem'.seen = seen
         /\ mem'.status = mem.status /\ DOMAIN mem' = DOMAIN mem /\ mem'.clean = m.clean
    BY <2>6, <2>10, DiskShape
  <2>12. /\ aux'.log = aux.log /\ aux'.saved = aux.saved /\ aux'.tears = aux.tears /\ aux'.runs = aux.runs /\ DOMAIN aux' = DOMAIN aux
         /\ aux'.hollow \in BOOLEAN /\ (aux'.hollow <=> aux.hollow \/ got.is = "hollow")
    BY <2>10, NotedIs
  <2>13. I!Range(<<>>) = {} BY DEF I!Range
  <2>14. got = truth \/ I!Range(got.has) = {} BY <2>6, <2>13, Answers
  <2>15. \A l \in out : \E i \in 1 .. Len(app.pages) : l \in I!Range(app.pages[i].has)
    BY <1>8, <2>1, <2>2, <2>8, <2>14
  <2>16. ASSUME NEW i \in 1 .. n
         PROVE  \/ "blocked" \in seen
                \/ app.pages[i].is \in seen /\ (~aux'.hollow => I!Range(app.pages[i].has) \subseteq out)
    <3>1. CASE i = n
      <4>1. CASE got = truth
        <5>1. s = truth.is /\ I!Range(app.pages[i].has) = I!Range(got.has) BY <2>1, <2>3, <2>7, <3>1, <4>1
        <5> QED BY <2>1, <2>8, <2>9, <3>1, <5>1
      <4>2. CASE got = I!Blocked BY <2>7, <2>9, <4>2, Answers
      <4>3. CASE got = I!Hollow /\ truth.is = "ok" BY <2>1, <2>7, <2>9, <2>12, <3>1, <4>3, Answers
      <4> QED BY <2>6, <4>1, <4>2, <4>3
    <3>2. CASE i # n
      <4>1. i \in 1 .. n - 1 BY <1>6, <3>2
      <4>2. \/ "blocked" \in mem.seen
            \/ app.pages[i].is \in mem.seen /\ (~aux.hollow => I!Range(app.pages[i].has) \subseteq mem.out)
        BY <1>8, <4>1
      <4>3. ~aux'.hollow => ~aux.hollow BY <2>12
      <4> QED BY <2>8, <2>9, <4>2, <4>3
    <3> QED BY <3>1, <3>2
  <2>17. (n + 1) - 1 = n BY <1>6
  <2>18. I!LinksInv' BY <1>1, <1>6, <2>10, <2>11, <2>15, <2>16, <2>17 DEF I!LinksInv
  <2>19. n + 1 \in 1 .. Len(app.pages) + 1 /\ 1 \in 1 .. Tries BY <1>4, <2>2, IngestBounds
  <2> QED BY <1>1, <1>2, <1>6, <1>7, <2>6, <2>10, <2>11, <2>12, <2>18, <2>19, OthersTyped
<1> HIDE DEF Then
<1> QED BY <1>9, <1>10, <1>11, <1>12

\* The event in the search.
LEMMA IngestSearches == ASSUME I!IngestInv, I!Search PROVE I!IngestInv'
<1>1. at = "api" /\ app' = app BY DEF I!Search
<1>2. app.asks = "meta" /\ ~I!Galleries BY <1>1, DiskShape DEF I!Shaped, I!Galleries
<1>3. I!MetaInv /\ I!Site /\ I!TypeOK /\ I!Shaped BY DiskShape DEF I!IngestInv
<1>4. /\ Len(app.api) \in Nat
      /\ \A i \in 1 .. Len(app.api) : app.api[i].is = "absent" \/ (app.api[i].is = "ok" /\ I!Searched(app.api[i].has))
  BY <1>2, <1>3 DEF I!Site
<1>5. PICK n : n = mem.page OBVIOUS
<1>6. n \in 1 .. MaxPages + 1 /\ mem.status = "none" BY <1>1, <1>2, <1>3, <1>5 DEF I!TypeOK
<1>7. I!LinksInv' BY <1>1, <1>2 DEF I!LinksInv
<1>8. PICK truth : truth = IF n <= Len(app.api) THEN app.api[n] ELSE I!Page("ok", <<>>) OBVIOUS
<1>9. /\ truth.is \in {"ok", "absent"} /\ (truth.is = "ok" => I!Searched(truth.has))
      /\ truth = I!Page("ok", <<>>) \/ (n \in 1 .. Len(app.api) /\ truth = app.api[n])
  <2>1. CASE n <= Len(app.api)
    <3>1. n \in 1 .. Len(app.api) BY <1>4, <1>6, <2>1, IngestBounds
    <3>2. truth = app.api[n] BY <1>8, <2>1
    <3>3. truth.is = "absent" \/ (truth.is = "ok" /\ I!Searched(truth.has)) BY <1>4, <3>1, <3>2
    <3> QED BY <3>1, <3>2, <3>3
  <2>2. CASE ~(n <= Len(app.api))
    <3>1. truth = I!Page("ok", <<>>) BY <1>8, <2>2
    <3>2. truth.is = "ok" /\ truth.has = <<>> BY <3>1 DEF I!Page
    <3> QED BY <3>1, <3>2 DEF I!Searched
  <2> QED BY <2>1, <2>2
<1> DEFINE Then(got, m) ==
       /\ aux' = aux
       /\ CASE got.is = "blocked" -> I!Done(m, "blocked")
            [] got.is = "absent"  -> I!Done(m, "not_found")
            [] got.is = "ok" /\ TRUE \in I!Range(got.has) -> I!Done(m, "ok")
            [] got.is = "ok" /\ got.has = <<>>          -> I!Go("event", [m EXCEPT !.tries = 1])
            [] got.is = "ok" /\ I!Range(got.has) = {FALSE} -> I!Go(at, [m EXCEPT !.page = @ + 1, !.tries = 1])
<1>10. \/ I!Go("event", mem) /\ aux' = aux /\ faults' = faults
       \/ I!Retry
       \/ n <= MaxPages /\ \E r \in I!Fetched(truth) : faults' = r.faults /\ Then(r.got, r.m)
  <2>1. CASE n > MaxPages BY <1>5, <2>1 DEF I!Search
  <2>2. CASE ~(n > MaxPages)
    <3>1. I!Retry \/ \E r \in I!Fetched(truth) : faults' = r.faults /\ Then(r.got, r.m) BY <1>5, <1>8, <2>2 DEF I!Search
    <3>2. n <= MaxPages BY <1>6, <2>2, IngestBounds
    <3> HIDE DEF Then
    <3> QED BY <3>1, <3>2
  <2> QED BY <2>1, <2>2
<1>11. CASE I!Go("event", mem) /\ aux' = aux /\ faults' = faults
  <2>1. at' = "event" /\ mem' = mem /\ aux' = aux /\ faults' = faults BY <1>11 DEF I!Go
  <2>2. I!MetaInv' BY <1>1, <1>3, <2>1 DEF I!MetaInv
  <2>3. mem.page \in 1 .. (IF app.asks = "links" THEN Len(app.pages) ELSE MaxPages) + 1 BY <1>2, <1>5, <1>6
  <2> QED BY <1>1, <1>2, <1>6, <1>7, <2>1, <2>2, <2>3, DiskShape, OthersTyped
<1>12. CASE I!Retry BY <1>1, <1>12, IngestRetry
<1>13. ASSUME n <= MaxPages, NEW r \in I!Fetched(truth), faults' = r.faults, Then(r.got, r.m)
       PROVE  I!IngestInv'
  <2>1. PICK m : m = r.m OBVIOUS
  <2>2. PICK got : got = r.got OBVIOUS
  <2>3. /\ faults' \in 0 .. Faults
        /\ DOMAIN m = DOMAIN mem /\ m.clean \in BOOLEAN
        /\ m.page = mem.page /\ m.tries = mem.tries /\ m.status = mem.status
        /\ got = truth \/ got = I!Blocked
    BY <1>1, <1>3, <1>13, <2>1, <2>2, Fetches
  <2>4. got = truth \/ got.is = "blocked" BY <2>3, Answers
  <2>5. Then(got, m) BY <1>13, <2>1, <2>2
  <2>6. /\ n + 1 \in 1 .. MaxPages + 1 /\ 1 \in 1 .. Tries BY <1>6, <1>13, IngestBounds
  <2>7. aux' = aux BY <2>5
\* Where the search ends the reading.
  <2>8. ASSUME NEW how \in {"blocked", "not_found", "ok"}, I!Done(m, how),
               how = "ok" => got = truth /\ TRUE \in I!Range(truth.has), how = "not_found" => got = truth /\ truth.is = "absent"
        PROVE  I!IngestInv'
    <3>1. at' = "end" /\ mem' = [m EXCEPT !.status = how] BY <2>8 DEF I!Done
    <3>2. /\ mem'.page = mem.page /\ mem'.tries = mem.tries /\ mem'.status = how /\ DOMAIN mem' = DOMAIN mem /\ mem'.clean = m.clean
      BY <2>3, <3>1, DiskShape
    <3>3. how = "ok" => \E i \in 1 .. Len(app.api) : TRUE \in I!Range(app.api[i].has)
      <4> SUFFICES ASSUME how = "ok" PROVE \E i \in 1 .. Len(app.api) : TRUE \in I!Range(app.api[i].has) OBVIOUS
      <4>1. TRUE \in I!Range(truth.has) BY <2>8
      <4>2. truth # I!Page("ok", <<>>)
        <5>1. I!Page("ok", <<>>).has = <<>> BY DEF I!Page
        <5>2. TRUE \notin I!Range(<<>>) BY DEF I!Range
        <5> QED BY <4>1, <5>1, <5>2
      <4> QED BY <1>9, <4>1, <4>2
    <3>4. how = "not_found" => \E i \in 1 .. Len(app.api) : i <= MaxPages /\ app.api[i].is = "absent"
      <4>1. I!Page("ok", <<>>).is = "ok" BY DEF I!Page
      <4> QED BY <1>9, <1>13, <2>8, <4>1
    <3>5. I!MetaInv' BY <1>1, <3>2, <3>3, <3>4 DEF I!MetaInv
    <3>6. mem.page \in 1 .. (IF app.asks = "links" THEN Len(app.pages) ELSE MaxPages) + 1 BY <1>2, <1>5, <1>6
    <3> QED BY <1>1, <1>2, <1>7, <2>3, <2>7, <3>1, <3>2, <3>5, <3>6, DiskShape, OthersTyped
  <2>9. ASSUME NEW page \in 1 .. MaxPages + 1, NEW pc \in {"api", "event"}, at' = pc, mem'.page = page, mem'.tries = 1,
               mem'.status = mem.status, DOMAIN mem' = DOMAIN mem, mem'.clean = m.clean
        PROVE  I!IngestInv'
    <3>1. I!MetaInv' BY <1>6, <2>9 DEF I!MetaInv
    <3>2. page \in 1 .. (IF app.asks = "links" THEN Len(app.pages) ELSE MaxPages) + 1 BY <1>2
    <3> QED BY <1>1, <1>2, <1>6, <1>7, <2>3, <2>6, <2>7, <2>9, <3>1, <3>2, DiskShape, OthersTyped
  <2>10. CASE got.is = "blocked"
    <3>1. I!Done(m, "blocked") BY <2>5, <2>10
    <3> QED BY <2>8, <3>1
  <2>11. CASE got.is = "absent"
    <3>1. I!Done(m, "not_found") BY <2>5, <2>11
    <3>2. got = truth /\ truth.is = "absent" BY <2>4, <2>11
    <3> QED BY <2>8, <3>1, <3>2
  <2>12. CASE got.is = "ok"
    <3>0. got = truth /\ I!Searched(truth.has) BY <1>9, <2>4, <2>12
    <3>1. CASE TRUE \in I!Range(got.has)
      <4>1. got.has # <<>> /\ I!Range(got.has) # {FALSE}
        <5>1. I!Range(<<>>) = {} BY DEF I!Range
        <5>2. TRUE \notin {FALSE} OBVIOUS
        <5> QED BY <3>1, <5>1, <5>2
      <4>2. I!Done(m, "ok") BY <2>5, <2>12, <3>1, <4>1
      <4> QED BY <2>8, <3>0, <3>1, <4>2
    <3>2. CASE TRUE \notin I!Range(got.has) /\ got.has = <<>>
      <4>0. I!Range(got.has) # {FALSE}
        <5>1. I!Range(<<>>) = {} BY DEF I!Range
        <5> QED BY <3>2, <5>1
      <4>1. I!Go("event", [m EXCEPT !.tries = 1]) BY <2>5, <2>12, <3>2, <4>0
      <4>2. at' = "event" /\ mem' = [m EXCEPT !.tries = 1] BY <4>1 DEF I!Go
      <4>3. /\ mem'.page = mem.page /\ mem'.tries = 1 /\ mem'.status = mem.status /\ DOMAIN mem' = DOMAIN mem /\ mem'.clean = m.clean
        BY <2>3, <4>2, DiskShape
      <4> QED BY <1>5, <1>6, <2>9, <4>2, <4>3
    <3>3. CASE TRUE \notin I!Range(got.has) /\ got.has # <<>>
      <4>1. I!Range(got.has) = {FALSE} BY <3>0, <3>3 DEF I!Searched
      <4>2. I!Go(at, [m EXCEPT !.page = @ + 1, !.tries = 1]) BY <2>5, <2>12, <3>3, <4>1
      <4>3. at' = "api" /\ mem' = [m EXCEPT !.page = n + 1, !.tries = 1] BY <1>1, <1>5, <2>3, <4>2 DEF I!Go
      <4>4. /\ mem'.page = n + 1 /\ mem'.tries = 1 /\ mem'.status = mem.status /\ DOMAIN mem' = DOMAIN mem /\ mem'.clean = m.clean
        BY <2>3, <4>3, DiskShape
      <4> QED BY <2>6, <2>9, <4>3, <4>4
    <3> QED BY <3>1, <3>2, <3>3
  <2>13. got.is \in {"blocked", "absent", "ok"} BY <1>9, <2>4
  <2> HIDE DEF Then
  <2> QED BY <2>10, <2>11, <2>12, <2>13
<1> HIDE DEF Then
<1> QED BY <1>10, <1>11, <1>12, <1>13

\* The event's own page.
LEMMA IngestCorroborates == ASSUME I!IngestInv, I!Corroborate PROVE I!IngestInv'
<1>1. at = "event" /\ app' = app BY DEF I!Corroborate
<1>2. app.asks = "meta" /\ ~I!Galleries BY <1>1, DiskShape DEF I!Shaped, I!Galleries
<1>3. I!Site /\ I!TypeOK /\ I!Shaped BY DiskShape
<1>4. I!LinksInv' BY <1>1, <1>2 DEF I!LinksInv
<1>5. CASE I!Retry BY <1>1, <1>5, IngestRetry
<1>6. ASSUME NEW r \in I!Fetched(app.event), faults' = r.faults, aux' = I!Noted(r.got),
             I!Done(r.m, IF r.got.is = "absent" THEN "not_found" ELSE "blocked")
      PROVE  I!IngestInv'
  <2>1. PICK truth : truth = app.event OBVIOUS
  <2>2. PICK m : m = r.m OBVIOUS
  <2>3. PICK got : got = r.got OBVIOUS
  <2>4. /\ faults' \in 0 .. Faults
        /\ DOMAIN m = DOMAIN mem /\ m.clean \in BOOLEAN
        /\ m.page = mem.page /\ m.tries = mem.tries
        /\ got = truth \/ got = I!Blocked \/ got = I!Hollow
    BY <1>3, <1>6, <2>1, <2>2, <2>3, Fetches
  <2>5. PICK how \in {"not_found", "blocked"} : how = IF got.is = "absent" THEN "not_found" ELSE "blocked" OBVIOUS
  <2>6. aux' = I!Noted(got) /\ at' = "end" /\ mem' = [m EXCEPT !.status = how] BY <1>6, <2>2, <2>3, <2>5 DEF I!Done
  <2>7. /\ mem'.page = mem.page /\ mem'.tries = mem.tries /\ mem'.status = how /\ DOMAIN mem' = DOMAIN mem /\ mem'.clean = m.clean
    BY <2>4, <2>6, DiskShape
  <2>8. how = "not_found" => app.event.is = "absent" BY <2>1, <2>4, <2>5, Answers
  <2>9. I!MetaInv' BY <1>1, <2>5, <2>7, <2>8 DEF I!MetaInv
  <2>10. /\ aux'.log = aux.log /\ aux'.saved = aux.saved /\ aux'.tears = aux.tears /\ aux'.runs = aux.runs /\ DOMAIN aux' = DOMAIN aux
         /\ aux'.hollow \in BOOLEAN
    BY <2>6, NotedIs
  <2>11. mem.page \in 1 .. (IF app.asks = "links" THEN Len(app.pages) ELSE MaxPages) + 1 /\ mem.tries \in 1 .. Tries
    BY <1>3 DEF I!TypeOK
  <2> QED BY <1>1, <1>2, <1>4, <2>4, <2>5, <2>6, <2>7, <2>9, <2>10, <2>11, OthersTyped
<1> QED BY <1>5, <1>6 DEF I!Corroborate

\* Every step of the ingest keeps its invariant.
LEMMA IngestStep == ASSUME I!IngestInv, I!Next PROVE I!IngestInv'
  BY IngestLoad, IngestTurns, IngestSubmits, IngestScans, IngestSearches, IngestCorroborates, IngestRestart DEF I!Next, I!Steps

\* It does not depend on anything else.
LEMMA IngestStutters == ASSUME I!IngestInv, UNCHANGED vars PROVE I!IngestInv'
<1>1. app' = app /\ at' = at /\ mem' = mem /\ aux' = aux /\ faults' = faults BY DEF vars
<1>2. I!Site' /\ I!TypeOK' /\ I!Shaped' BY <1>1, SiteOn, TruthOn, DiskShape DEF I!TypeOK, I!Shaped
<1>3. I!LinksInv /\ I!MetaInv BY DEF I!IngestInv
<1>4. I!LinksInv' /\ I!MetaInv' BY <1>1, <1>3, SameAnswers
<1>5. CASE I!Galleries
  <2>1. I!StoreInv /\ I!PlaceInv /\ I!OutInv BY <1>5, DiskShape
  <2>2. ASSUME NEW k \in DOMAIN mem'.cache PROVE k \in I!Keys /\ I!Holds(k, mem.cache[k])'
    <3>1. PICK v : v = mem.cache[k] OBVIOUS
    <3>2. k \in I!Keys /\ I!Holds(k, v) BY <1>1, <2>1, <3>1 DEF I!StoreInv
    <3> QED BY <1>1, <3>1, <3>2, CacheHolds
  <2>3. at' # "load" => I!Whole \subseteq DOMAIN mem'.cache BY <1>1, <2>1 DEF I!StoreInv
  <2>4. I!StoreInv' BY <1>1, <2>1, <2>2, <2>3, StoreSame
  <2>5. I!PlaceInv' /\ I!OutInv' BY <1>1, <1>5, <2>1, DiskShape, SamePlace
  <2> QED BY <1>1, <1>2, <1>5, <2>4, <2>5, DiskShape, GalleryKeeps
<1>6. CASE ~I!Galleries
  <2>1. ~I!Galleries' BY <1>1, <1>6, TruthOn
  <2>2. aux.log = <<>> /\ aux.saved = {} BY <1>6 DEF I!IngestInv
  <2> QED BY <1>1, <1>2, <1>4, <2>1, <2>2 DEF I!IngestInv
<1> QED BY <1>5, <1>6

\* The links of the submissions, as they are.
LEMMA LinkedIs == Len(Linked) = 4 /\ Linked[1] = <<"repoA", "urlA">> /\ \A p \in 1 .. 4 : Linked[p] = <<>> \/ I!Range(Linked[p]) # {}
<1>1. /\ Len(Linked) = 4 /\ Linked[1] = <<"repoA", "urlA">> /\ Linked[2] = <<"repoA">> /\ Linked[3] = <<"urlB">> /\ Linked[4] = <<>>
  BY DEF Linked
<1>2. \A s, x : <<s, x>>[1] = s /\ 1 \in DOMAIN <<s, x>> /\ <<s>>[1] = s /\ 1 \in DOMAIN <<s>> OBVIOUS
<1>3. I!Range(<<"repoA", "urlA">>) # {} /\ I!Range(<<"repoA">>) # {} /\ I!Range(<<"urlB">>) # {} BY <1>2 DEF I!Range
<1>4. ASSUME NEW p \in 1 .. 4 PROVE Linked[p] = <<>> \/ I!Range(Linked[p]) # {}
  <2>1. p = 1 \/ p = 2 \/ p = 3 \/ p = 4 OBVIOUS
  <2> QED BY <1>1, <1>3, <2>1
<1> QED BY <1>1, <1>4

\* The pages of a gallery name submissions.
LEMMA GalleriesAre == Galleries \subseteq Seq(Seq(1 .. 4) \ {<<>>})
<1> DEFINE P == 1 .. 4
<1> DEFINE G == Seq(P) \ {<<>>}
<1>1. 1 \in P /\ 2 \in P /\ 3 \in P /\ 4 \in P OBVIOUS
<1>2. \A a \in P : <<a>> \in G
  <2> HIDE DEF P
  <2> QED OBVIOUS
<1>3. \A a, b \in P : <<a, b>> \in G
  <2> HIDE DEF P
  <2> QED OBVIOUS
<1> HIDE DEF G
<1>4. <<1>> \in G /\ <<2>> \in G /\ <<3>> \in G /\ <<4>> \in G /\ <<1, 2>> \in G /\ <<1, 3>> \in G BY <1>1, <1>2, <1>3
<1>5. <<>> \in Seq(G) OBVIOUS
<1>6. \A a \in G : <<a>> \in Seq(G) OBVIOUS
<1>7. \A a, b \in G : <<a, b>> \in Seq(G) OBVIOUS
<1>8. \A a, b, c \in G : <<a, b, c>> \in Seq(G) OBVIOUS
<1>9. <<<<1, 2>>>> \in Seq(G) BY <1>4, <1>6
<1>10. <<<<4>>, <<1, 3>>>> \in Seq(G) BY <1>4, <1>7
<1>11. <<<<1, 2>>, <<3>>>> \in Seq(G) BY <1>4, <1>7
<1>12. <<<<1>>, <<2>>, <<3>>>> \in Seq(G) BY <1>4, <1>8
<1>13. Galleries \subseteq Seq(G) BY <1>5, <1>9, <1>10, <1>11, <1>12 DEF Galleries
<1> QED BY <1>13 DEF G

\* The sites that are chosen are sites.
LEMMA SitesAre == ASSUME app \in Sites PROVE I!Site
<1>1. CASE app \in {a \in [asks : {"walk", "scrape"}, gallery : Galleries, beyond : {Empty, Gone}, links : {Linked}, gone : {{}, {1}},
                           legacy : Caches] : 1 \in a.gone => a.legacy = <<>>}
  <2>1. /\ app.asks \in {"walk", "scrape"} /\ app.gallery \in Galleries /\ app.beyond \in {Empty, Gone} /\ app.links = Linked
        /\ app.gone \in {{}, {1}} /\ app.legacy \in Caches /\ (1 \in app.gone => app.legacy = <<>>)
    BY <1>1
  <2>2. I!Projects = 1 .. 4 BY <2>1, LinkedIs DEF I!Projects
  <2>3. app.gallery \in Seq(Seq(I!Projects) \ {<<>>}) BY <2>1, <2>2, GalleriesAre
  <2>4. \A p \in I!Projects : app.links[p] = <<>> \/ I!Range(app.links[p]) # {} BY <2>1, <2>2, LinkedIs
  <2>5. app.beyond \in [is : {"ok", "absent"}, has : {<<>>}] BY <2>1 DEF Empty, Gone, Answer
  <2>6. I!Lined(app.legacy) /\ \A n \in 1 .. Len(app.legacy) : app.legacy[n].is = "whole" /\ app.legacy[n].v = I!Truth(app.legacy[n].k)
    <3>1. CASE app.legacy = <<>>
      <4>1. Len(<<>>) = 0 /\ 1 .. 0 = {} OBVIOUS
      <4>2. <<>> = [n \in 1 .. 0 |-> <<>>[n]] OBVIOUS
      <4>3. Len(app.legacy) = 0 /\ 1 .. Len(app.legacy) = {} BY <3>1, <4>1
      <4>4. app.legacy = [n \in 1 .. Len(app.legacy) |-> app.legacy[n]] BY <3>1, <4>2, <4>3
      <4> QED BY <4>3, <4>4 DEF I!Lined
    <3>2. CASE app.legacy # <<>>
      <4>1. app.legacy = <<[k |-> <<"links", 1>>, v |-> Linked[1], is |-> "whole"]>> /\ 1 \notin app.gone BY <2>1, <3>2 DEF Caches
      <4>2. PICK line : line = [k |-> <<"links", 1>>, v |-> Linked[1], is |-> "whole"] OBVIOUS
      <4>3. line.k = <<"links", 1>> /\ line.v = Linked[1] /\ line.is = "whole" BY <4>2
      <4>4. PICK legacy : legacy = <<line>> OBVIOUS
      <4>5. legacy \in Seq({line}) /\ Len(legacy) = 1 /\ legacy[1] = line BY <4>4
      <4>6. legacy \in [1 .. 1 -> {line}] BY <4>5, LenProperties
      <4>7. legacy = [n \in 1 .. Len(legacy) |-> legacy[n]] BY <4>5, <4>6
      <4>8. app.legacy = legacy BY <4>1, <4>2, <4>4
      <4>9. PICK k : k = <<"links", 1>> OBVIOUS
      <4>10. k[1] = "links" /\ k[2] = 1 /\ k \in {"hrefs", "links"} \X I!Projects BY <2>2, <4>9
      <4>11. k \in I!Keys BY <4>10 DEF I!Keys
      <4>12. I!Truth(k) = Linked[1]
        <5>1. I!Truth(k) = I!Project(1).has BY <4>10 DEF I!Truth
        <5>2. I!Project(1).has = app.links[1] BY <4>1 DEF I!Project, I!Page
        <5> QED BY <2>1, <5>1, <5>2
      <4>13. \A n \in 1 .. Len(legacy) : n = 1 BY <4>5
      <4>14. I!Lined(legacy) BY <4>3, <4>5, <4>7, <4>9, <4>11, <4>13 DEF I!Lined
      <4>15. \A n \in 1 .. Len(legacy) : legacy[n].is = "whole" /\ legacy[n].v = I!Truth(legacy[n].k)
        <5>1. legacy[1].is = "whole" /\ legacy[1].v = Linked[1] /\ legacy[1].k = k BY <4>3, <4>5, <4>9
        <5> QED BY <4>12, <4>13, <5>1
      <4> QED BY <4>8, <4>14, <4>15
    <3> QED BY <3>1, <3>2
  <2>7. Len(app.links) \in Nat BY <2>1, LinkedIs
  <2>8. app.asks # "links" /\ app.asks # "meta" /\ I!Galleries BY <2>1 DEF I!Galleries
  <2> QED BY <2>1, <2>3, <2>4, <2>5, <2>6, <2>7, <2>8 DEF I!Site
<1>2. CASE app \in [asks : {"links"}, legacy : {<<>>}, pages : Pages]
  <2>1. app.asks = "links" /\ app.legacy = <<>> /\ app.pages \in Pages BY <1>2
  <2>2. PICK a \in {Gone, Empty, Answer("ok", <<"token">>)}, b \in {Gone, Empty, Answer("ok", <<"token">>)} : app.pages = <<a, b>>
    BY <2>1 DEF Pages
  <2>3. a.is \in {"ok", "absent"} /\ b.is \in {"ok", "absent"} BY <2>2 DEF Gone, Empty, Answer
  <2>4. Len(app.pages) = 2 /\ app.pages[1] = a /\ app.pages[2] = b BY <2>2
  <2>5. \A n \in 1 .. 2 : n = 1 \/ n = 2 OBVIOUS
  <2>6. ~I!Galleries /\ app.asks # "meta" BY <2>1 DEF I!Galleries
  <2> QED BY <2>1, <2>3, <2>4, <2>5, <2>6 DEF I!Site
<1>3. CASE app \in [asks : {"meta"}, legacy : {<<>>}, event : {Gone, Empty}, api : Searches]
  <2>1. app.asks = "meta" /\ app.legacy = <<>> /\ app.event \in {Gone, Empty} /\ app.api \in Searches BY <1>3
  <2>2. app.event.is \in {"ok", "absent"} BY <2>1 DEF Gone, Empty, Answer
  <2> DEFINE Good(a) == a.is = "absent" \/ (a.is = "ok" /\ I!Searched(a.has))
  <2>3. PICK quiet : quiet = Answer("ok", <<FALSE>>) OBVIOUS
  <2>4. PICK both : both = Answer("ok", <<FALSE, TRUE>>) OBVIOUS
  <2>5. PICK one : one = Answer("ok", <<TRUE>>) OBVIOUS
  <2>6. quiet.is = "ok" /\ quiet.has = <<FALSE>> /\ both.is = "ok" /\ both.has = <<FALSE, TRUE>> /\ one.is = "ok" /\ one.has = <<TRUE>>
    BY <2>3, <2>4, <2>5 DEF Answer
  <2>7. \A x, y : I!Range(<<x>>) = {x} /\ y \in I!Range(<<x, y>>)
    <3>1. \A x, y : DOMAIN <<x>> = {1} /\ <<x>>[1] = x /\ 2 \in DOMAIN <<x, y>> /\ <<x, y>>[2] = y OBVIOUS
    <3> QED BY <3>1 DEF I!Range
  <2>8. I!Searched(<<FALSE>>) /\ I!Searched(<<FALSE, TRUE>>) /\ I!Searched(<<TRUE>>) BY <2>7 DEF I!Searched
  <2>9. Good(quiet) /\ Good(both) /\ Good(one) /\ Good(Gone)
    <3>1. Gone.is = "absent" BY DEF Gone, Answer
    <3> QED BY <2>6, <2>8, <3>1
  <2>10. app.api \in {<<>>, <<quiet>>, <<quiet, both>>, <<Gone>>, <<quiet, quiet, one>>} BY <2>1, <2>3, <2>4, <2>5 DEF Searches
  <2> HIDE DEF Good
  <2>11. Len(app.api) \in Nat /\ \A n \in 1 .. Len(app.api) : Good(app.api[n])
    <3>1. CASE app.api = <<>> BY <3>1
    <3>2. CASE app.api = <<quiet>>
      <4>1. Len(app.api) = 1 /\ app.api[1] = quiet BY <3>2
      <4>2. \A n \in 1 .. 1 : n = 1 OBVIOUS
      <4> QED BY <2>9, <4>1, <4>2
    <3>3. CASE app.api = <<quiet, both>>
      <4>1. Len(app.api) = 2 /\ app.api[1] = quiet /\ app.api[2] = both BY <3>3
      <4>2. \A n \in 1 .. 2 : n = 1 \/ n = 2 OBVIOUS
      <4> QED BY <2>9, <4>1, <4>2
    <3>4. CASE app.api = <<Gone>>
      <4>1. Len(app.api) = 1 /\ app.api[1] = Gone BY <3>4
      <4>2. \A n \in 1 .. 1 : n = 1 OBVIOUS
      <4> QED BY <2>9, <4>1, <4>2
    <3>5. CASE app.api = <<quiet, quiet, one>>
      <4>1. Len(app.api) = 3 /\ app.api[1] = quiet /\ app.api[2] = quiet /\ app.api[3] = one BY <3>5
      <4>2. \A n \in 1 .. 3 : n = 1 \/ n = 2 \/ n = 3 OBVIOUS
      <4> QED BY <2>9, <4>1, <4>2
    <3> QED BY <2>10, <3>1, <3>2, <3>3, <3>4, <3>5
  <2>12. ~I!Galleries /\ app.asks # "links" BY <2>1 DEF I!Galleries
  <2>13. \A n \in 1 .. Len(app.api) : app.api[n].is = "absent" \/ (app.api[n].is = "ok" /\ I!Searched(app.api[n].has))
    BY <2>11 DEF Good
  <2>14. app.asks \in {"walk", "scrape", "links", "meta"} BY <2>1
  <2>15. app.asks = "meta" => /\ Len(app.api) \in Nat /\ app.event.is \in {"ok", "absent"}
                              /\ \A n \in 1 .. Len(app.api) : app.api[n].is = "absent" \/ (app.api[n].is = "ok" /\ I!Searched(app.api[n].has))
    BY <2>2, <2>11, <2>13
  <2>16. ~I!Galleries => app.legacy = <<>> BY <2>1
  <2> QED BY <2>12, <2>14, <2>15, <2>16 DEF I!Site
<1> QED BY <1>1, <1>2, <1>3 DEF Sites

\* The ingest begins in its invariant.
LEMMA IngestInit == ASSUME I!Init PROVE I!IngestInv
<1>1. /\ at = "load" /\ mem = I!Started /\ faults = 0 /\ app \in Sites
      /\ aux = [log |-> app.legacy, saved |-> {}, tears |-> 0, runs |-> 0, hollow |-> FALSE]
  BY DEF I!Init
<1>2. I!Site BY <1>1, SitesAre
<1>3. /\ aux.log = app.legacy /\ aux.saved = {} /\ aux.tears = 0 /\ aux.runs = 0 /\ aux.hollow = FALSE
      /\ {"log", "saved", "tears", "runs", "hollow"} \subseteq DOMAIN aux
  BY <1>1
<1>4. /\ mem.cache = <<>> /\ mem.page = 1 /\ mem.items = <<>> /\ mem.tries = 1 /\ mem.out = {} /\ mem.seen = {}
      /\ mem.clean = TRUE /\ mem.status = "none"
      /\ {"cache", "page", "items", "tries", "out", "seen", "clean", "status"} \subseteq DOMAIN mem
  BY <1>1 DEF I!Started
<1>5. ~I!Galleries => app.legacy = <<>> BY <1>2 DEF I!Site
<1>6. I!Galleries => /\ I!Lined(app.legacy)
                     /\ \A n \in 1 .. Len(app.legacy) : app.legacy[n].is = "whole" /\ app.legacy[n].v = I!Truth(app.legacy[n].k)
  BY <1>2 DEF I!Site
<1>7. I!TypeOK
  <2>1. 1 \in 1 .. (IF app.asks = "links" THEN Len(app.pages) ELSE MaxPages) + 1
    <3>1. app.asks = "links" => Len(app.pages) \in Nat BY <1>2 DEF I!Site
    <3> QED BY <3>1, IngestBounds
  <2>2. \A n \in 1 .. Len(aux.log) : aux.log[n].is # "torn"
    <3>1. CASE I!Galleries BY <1>3, <1>6, <3>1
    <3>2. CASE ~I!Galleries
      <4>1. Len(aux.log) = 0 BY <1>3, <1>5, <3>2
      <4> QED BY <4>1
    <3> QED BY <3>1, <3>2
  <2> QED BY <1>1, <1>3, <1>4, <2>1, <2>2, IngestBounds DEF I!TypeOK
<1>8. I!Shaped BY <1>1, <1>3, <1>4 DEF I!Shaped
<1>9. I!Cardinality({}) = 0 /\ I!IsFiniteSet({}) BY IngestSizes, FS_EmptySet
<1>10. I!LinksInv BY <1>4 DEF I!LinksInv
<1>11. I!MetaInv BY <1>4 DEF I!MetaInv
<1>12. CASE I!Galleries
  <2>1. I!Lined(aux.log) BY <1>3, <1>6, <1>12
  <2>2. ~I!Torn
    <3>1. Len(aux.log) \in Nat /\ (aux.log # <<>> <=> Len(aux.log) > 0) BY <2>1, TornIs
    <3>2. Len(aux.log) > 0 => aux.log[Len(aux.log)].is = "whole" BY <1>3, <1>6, <1>12, <3>1
    <3> QED BY <3>1, <3>2 DEF I!Torn
  <2>3. \A n \in I!WholeLines : I!Holds(aux.log[n].k, aux.log[n].v) BY <1>3, <1>6, <1>12 DEF I!WholeLines, I!Holds
  <2>4. aux.saved \ I!Whole = {} BY <1>3
  <2>5. DOMAIN mem.cache = {} BY <1>4
  <2>6. I!StoreInv BY <1>1, <1>3, <1>9, <2>1, <2>2, <2>3, <2>4, <2>5 DEF I!StoreInv
  <2>7. I!PlaceInv
    <3>1. Len(app.gallery) \in Nat BY <1>2, <1>12, GalleryIs
    <3> QED BY <1>1, <1>4, <3>1 DEF I!PlaceInv
  <2>8. I!OutInv
    <3>1. I!Before(mem.page) = {} BY <1>4, BeforeFirst
    <3> QED BY <1>1, <1>4, <1>9, <3>1, IngestBounds DEF I!OutInv
  <2> QED BY <1>2, <1>7, <1>8, <1>10, <1>11, <1>12, <2>6, <2>7, <2>8 DEF I!IngestInv
<1>13. CASE ~I!Galleries BY <1>2, <1>3, <1>5, <1>7, <1>8, <1>10, <1>11, <1>13 DEF I!IngestInv
<1> QED BY <1>12, <1>13

\* What the ingest answers is true, and is all there is.
LEMMA IngestAnswers ==
    ASSUME I!IngestInv
    PROVE  I!WalkIsWhole /\ I!CacheIsTrue /\ I!ScrapeRecovers /\ I!ResumeLosesLittle /\ I!AbsenceWasAnswered
<1>1. I!WalkIsWhole
  <2> SUFFICES ASSUME app.asks = "walk", ~aux.hollow
               PROVE  LET all == {<<p, I!Project(p).has>> : p \in I!Present}
                      IN  mem.out \subseteq all /\ (mem.status = "ended" => mem.out = all)
    BY DEF I!WalkIsWhole
  <2>1. I!OutInv BY DiskShape DEF I!Galleries
  <2>2. \A q \in mem.out : \E p \in I!Present : q = <<p, I!Project(p).has>> BY <2>1 DEF I!OutInv
  <2>3. mem.status = "ended" => \A p \in I!Present : <<p, I!Project(p).has>> \in mem.out BY <2>1 DEF I!OutInv, I!Taken
  <2> QED BY <2>2, <2>3
<1>2. I!CacheIsTrue
  <2> SUFFICES ASSUME I!Galleries, ~aux.hollow, NEW k \in DOMAIN mem.cache PROVE mem.cache[k] = I!Truth(k) BY DEF I!CacheIsTrue
  <2>1. I!StoreInv BY DiskShape
  <2>2. I!Holds(k, mem.cache[k]) BY <2>1 DEF I!StoreInv
  <2> QED BY <2>2 DEF I!Holds
<1>3. I!ScrapeRecovers
  <2> SUFFICES ASSUME app.asks = "scrape"
               PROVE  /\ \A q, r \in mem.out : q # r => ~I!Shared(q[2], r[2])
                      /\ mem.clean /\ ~aux.hollow /\ at = "end" =>
                             \/ I!Cardinality(mem.out) = Limit
                             \/ \A p \in I!Present : I!Project(p).has = <<>> \/ \E q \in mem.out : I!Shared(q[2], I!Project(p).has)
    BY DEF I!ScrapeRecovers
  <2>1. I!OutInv BY DiskShape DEF I!Galleries
  <2>2. \A q, r \in mem.out : q # r => ~I!Shared(q[2], r[2]) BY <2>1 DEF I!OutInv
  <2>3. ASSUME mem.clean /\ ~aux.hollow /\ at = "end"
        PROVE  \/ I!Cardinality(mem.out) = Limit
               \/ \A p \in I!Present : I!Project(p).has = <<>> \/ \E q \in mem.out : I!Shared(q[2], I!Project(p).has)
    <3>1. mem.status = "ended"
      <4>1. mem.status # "none" BY <2>3, DiskShape DEF I!TypeOK
      <4>2. mem.status \in {"none", "ended"} BY <2>1 DEF I!OutInv
      <4> QED BY <4>1, <4>2
    <3>2. I!Cardinality(mem.out) = Limit \/ \A p \in I!Present : I!Taken(p) BY <2>1, <2>3, <3>1 DEF I!OutInv
    <3> QED BY <3>2 DEF I!Taken
  <2> QED BY <2>2, <2>3
<1>4. I!ResumeLosesLittle
  <2> SUFFICES ASSUME at # "load" PROVE I!Cardinality(aux.saved \ DOMAIN mem.cache) <= aux.tears BY DEF I!ResumeLosesLittle
  <2>1. CASE I!Galleries
    <3>1. I!StoreInv BY <2>1, DiskShape
    <3>2. PICK lost : lost = aux.saved \ I!Whole OBVIOUS
    <3>3. aux.saved \ DOMAIN mem.cache \in SUBSET lost BY <3>1, <3>2 DEF I!StoreInv
    <3>4. IsFiniteSet(aux.saved) BY <3>1, IngestSizes DEF I!StoreInv
    <3>5. IsFiniteSet(lost)
      <4>1. lost \in SUBSET aux.saved BY <3>2
      <4> QED BY <3>4, <4>1, FS_Subset
    <3>6. PICK gone : gone = aux.saved \ DOMAIN mem.cache OBVIOUS
    <3>7. gone \in SUBSET lost BY <3>3, <3>6
    <3>8. IsFiniteSet(gone) /\ Cardinality(gone) <= Cardinality(lost) BY <3>5, <3>7, FS_Subset
    <3>9. Cardinality(gone) \in Nat /\ Cardinality(lost) \in Nat BY <3>5, <3>8, FS_CardinalityType
    <3>10. Cardinality(lost) + (IF I!Torn THEN 1 ELSE 0) <= aux.tears BY <3>1, <3>2, IngestSizes DEF I!StoreInv
    <3>11. aux.tears \in Nat BY DiskShape
    <3>12. Cardinality(gone) <= aux.tears BY <3>8, <3>9, <3>10, <3>11
    <3> QED BY <3>6, <3>12, IngestSizes
  <2>2. CASE ~I!Galleries
    <3>1. aux.saved \ DOMAIN mem.cache = {} BY <2>2 DEF I!IngestInv
    <3>2. I!Cardinality({}) = 0 BY IngestSizes, FS_EmptySet
    <3>3. aux.tears \in Nat BY DiskShape
    <3> QED BY <3>1, <3>2, <3>3
  <2> QED BY <2>1, <2>2
<1>5. I!AbsenceWasAnswered
  <2>1. I!LinksInv /\ I!MetaInv BY DEF I!IngestInv
  <2>2. ASSUME app.asks = "links"
        PROVE  /\ \A l \in mem.out : \E n \in 1 .. Len(app.pages) : l \in I!Range(app.pages[n].has)
               /\ mem.status = "ok" /\ ~aux.hollow => mem.out = UNION {I!Range(app.pages[n].has) : n \in 1 .. Len(app.pages)}
               /\ mem.status = "not_found" => \A n \in 1 .. Len(app.pages) : app.pages[n].is = "absent"
    <3>1. /\ \A l \in mem.out : \E n \in 1 .. Len(app.pages) : l \in I!Range(app.pages[n].has)
          /\ mem.status = "ok" /\ ~aux.hollow => \A n \in 1 .. Len(app.pages) : I!Range(app.pages[n].has) \subseteq mem.out
          /\ mem.status = "not_found" => \A n \in 1 .. Len(app.pages) : app.pages[n].is = "absent"
      BY <2>1, <2>2 DEF I!LinksInv
    <3>2. ASSUME mem.status = "ok" /\ ~aux.hollow
          PROVE  mem.out = UNION {I!Range(app.pages[n].has) : n \in 1 .. Len(app.pages)}
      BY <3>1, <3>2
    <3> QED BY <3>1, <3>2
  <2>3. app.asks = "meta" =>
          /\ mem.status = "ok" => \E n \in 1 .. Len(app.api) : TRUE \in I!Range(app.api[n].has)
          /\ mem.status = "not_found" => \/ app.event.is = "absent"
                                         \/ \E n \in 1 .. Len(app.api) : n <= MaxPages /\ app.api[n].is = "absent"
    BY <2>1 DEF I!MetaInv
  <2> QED BY <2>2, <2>3 DEF I!AbsenceWasAnswered
<1> QED BY <1>1, <1>2, <1>3, <1>4, <1>5

-----------------------------------------------------------------------------
(* The services together (MCServices). *)

\* What each service may be asked for.
LEMMA Asked ==
    /\ \A a \in Sites : a.asks \in Reading
    /\ \A a \in Commands : a.asks = "command"
    /\ \A a \in Renders : a.asks = "render"
    /\ \A a \in Signups : a.asks = "signup"
    /\ \A a \in Deploys : a.asks = "deploy"
    /\ \A a \in Batteries : a.asks = "battery"
<1>1. \A a \in Sites : a.asks \in Reading BY DEF Sites, Reading
<1>2. \A a \in Commands : a.asks = "command" BY DEF Commands
<1>3. \A a \in Renders : a.asks = "render" BY DEF Renders
<1>4. \A a \in Signups : a.asks = "signup" BY DEF Signups
<1>5. \A a \in Deploys : a.asks = "deploy" BY DEF Deploys
<1>6. \A a \in Batteries : a.asks = "battery" BY DEF Batteries
<1> QED BY <1>1, <1>2, <1>3, <1>4, <1>5, <1>6

\* A battery is a sequence.
LEMMA BatteryIsFinite == \A a \in Batteries : Len(a.kinds) \in Nat
<1> SUFFICES ASSUME NEW a \in Batteries PROVE Len(a.kinds) \in Nat OBVIOUS
<1>1. CASE \E n \in 1 .. 2 : a.kinds \in [1 .. n -> {"plain", "pool", "lane", "inline"}]
  BY <1>1
<1>2. CASE a.kinds \in Triples
  BY <1>2 DEF Triples
<1> QED BY <1>1, <1>2 DEF Batteries

\* A homepage is the app's own.
LEMMA HomeIsTheirs == \A a \in Signups : a.home.own = TRUE
<1>1. \A plain, buttoned : \A home \in Homes(plain, buttoned) : home.own = TRUE
  BY DEF Homes, Visible, Plain, Buttoned
<1> QED BY <1>1 DEF Signups

\* The pages of an app are pages, behind its links and its button and at the routes that are tried.
LEMMA PagesAre == app \in Signups => S!Site
<1>1. \A form \in {"none", "signup", "plain", "login", "email"} :
          Plain(form) \in S!Pages /\ Visible(form) \in S!Pages /\ Buttoned(form) \in S!Pages
  BY DEF Plain, Visible, Buttoned, S!Pages
<1>2. Theirs \in S!Pages BY DEF Theirs, S!Pages
<1>3. \A plain, buttoned : plain \cup buttoned \subseteq {"none", "signup", "plain", "login", "email"} =>
          Homes(plain, buttoned) \subseteq S!Pages
  BY <1>1 DEF Homes
<1>4. \A p, q \in S!Pages : <<p>> \in Seq(S!Pages) /\ <<p, q>> \in Seq(S!Pages) OBVIOUS
<1>5. <<>> \in Seq(S!Pages) OBVIOUS
<1>6. Walked \subseteq Seq(S!Pages) BY <1>1, <1>2, <1>4, <1>5 DEF Walked
<1>7. Fished \subseteq Seq(S!Pages) BY <1>1, <1>2, <1>4 DEF Fished
<1>8. Asking \subseteq Seq(S!Pages) BY <1>1, <1>4 DEF Asking
<1>9. <<Plain("none")>> \in Seq(S!Pages) BY <1>1, <1>4
<1>10. /\ Homes({"none", "signup", "plain", "login"}, {"none", "login"}) \subseteq S!Pages
       /\ Homes({"none", "email", "signup"}, {}) \subseteq S!Pages
  BY <1>3
<1>11. {Plain("signup"), Plain("login"), Plain("none"), Theirs} \subseteq S!Pages BY <1>1, <1>2
<1> SUFFICES ASSUME app \in Signups PROVE S!Site OBVIOUS
<1>12. app.home \in S!Pages BY <1>10 DEF Signups
<1>13. app.button \in S!Pages BY <1>11 DEF Signups
<1>14. app.links \in Seq(S!Pages) BY <1>5, <1>6 DEF Signups
<1>15. app.routes \in Seq(S!Pages) BY <1>7, <1>8 DEF Signups
<1>16. app.logins \in Seq(S!Pages) BY <1>8, <1>9 DEF Signups
<1>17. app.emails \in {"code", "link", "nothing"} BY DEF Signups
<1> QED BY <1>12, <1>13, <1>14, <1>15, <1>16, <1>17 DEF S!Site

\* A submission is as the deployer needs it.
LEMMA SubmissionsFit == app \in Deploys => D!Deployable
  BY DEF Deploys, D!Deployable, D!Answers

\* Every service starts as it should.
LEMMA ServicesInit == Init => ServicesInv
<1>1. I!Init => app \in Sites BY DEF I!Init
<1>2. T!Init => app \in Batteries BY DEF T!Init
<1>3. R!Init => app \in Renders BY DEF R!Init
<1>4. S!Init => app \in Signups BY DEF S!Init
<1>5. D!Init => app \in Deploys BY DEF D!Init
<1>6. C!Init => app \in Commands BY DEF C!Init
<1>7. T!Init => T!ThreadsInv /\ T!TypeOK /\ T!KeptInv BY <1>2, BatteryIsFinite, ThreadsInit, BatteryTyped
<1>8. R!Init => R!TreeInv /\ R!StreamInv BY RenderInit, StreamInit
<1>9. S!Init => S!SignupInv /\ app.home.own = TRUE BY <1>4, HomeIsTheirs, PagesAre, SignupWholeInit
<1>10. D!Init => D!DeployInv /\ D!TypeOK BY <1>5, SubmissionsFit, DeployInit, DeployTyped
<1>11. I!Init => I!IngestInv BY IngestInit
<1>12. C!Init => C!CacheInv BY CacheInit
<1> QED BY <1>1, <1>2, <1>3, <1>4, <1>5, <1>6, <1>7, <1>8, <1>9, <1>10, <1>11, <1>12, Asked DEF Init, ServicesInv, Asks, Reading

\* No step changes which service runs.
LEMMA SameService == ASSUME Next PROVE app' = app
<1>1. I!Next => app' = app
  BY DEF I!Next, I!Steps, I!Load, I!TurnPage, I!Submission, I!Scan, I!Search, I!Corroborate, I!Restart
<1>2. T!Next => app' = app
  BY DEF T!Next, T!Loops, T!Begin, T!Collect, T!GiveUp, T!End, T!Tick, T!Advances, T!Request, T!Launch, T!LaneEnds,
         T!Note, T!Finish, T!Fire, T!Kill, T!Stall
<1>3. R!Next => app' = app
  BY DEF R!Next, R!Works, R!Waits, R!Reads, R!Launch, R!Written, R!CloseBrowser, R!Paint, R!Crash, R!Poll, R!Lapse,
         R!IsAlive, R!Recv, R!GiveUp, R!List, R!Strike, R!Tick, R!Work
<1>4. S!Next => app' = app
  BY DEF S!Next, S!Steps, S!Home, S!FollowLinks, S!ClickTrigger, S!FishRoutes, S!ReachEmailStep, S!SendAddress,
         S!FetchCode, S!SubmitCode, S!AskForLink, S!Settle, S!Verify, S!Expire, S!Watchdog
<1>5. D!Next => app' = app
  BY DEF D!Next, D!Steps, D!Ask, D!AskInClear, D!Build, D!FreePort, D!RunFails, D!Start, D!Address, D!Check, D!Get, D!Expire,
         D!Graded, D!Teardown, D!Boot, D!Taken
<1>6. C!Next => app' = app
  BY DEF C!Next, C!Steps, C!Import, C!Load, C!Grade, C!Save, C!Again, C!Tick, C!Edit
<1> QED BY <1>1, <1>2, <1>3, <1>4, <1>5, <1>6 DEF Next

\* Nothing that is proved of a service is lost where nothing happens.
LEMMA ServicesStutter == ASSUME ServicesInv, UNCHANGED vars PROVE ServicesInv'
<1> USE DEF vars
<1>1. T!ThreadsInv' = T!ThreadsInv
  BY DEF T!ThreadsInv, T!Shaped, T!Memories, T!Threads, T!Probes, T!RunInv, T!Awaited, T!OwnInv, T!OutcomeIsOwn, T!LaneInv,
         T!Timed, T!Kind, T!KilledInTime, T!InTime
<1>2. R!TreeInv' = R!TreeInv BY DEF R!TreeInv, R!TreeIsKilled
<1>3. /\ R!StreamInv => R!StreamInv'
      /\ S!SignupInv => S!SignupInv'
      /\ I!IngestInv => I!IngestInv'
      /\ C!CacheInv => C!CacheInv'
  BY StreamStutters, SignupStutters, IngestStutters, CacheStutters
<1>4. D!DeployInv' = D!DeployInv
  BY DEF D!DeployInv, D!Deployable, D!Answers, D!Shaped, D!Memories, D!Worlds, D!LeftInv, D!Published, D!Ours, D!OriginInv,
         D!OriginIsTheirs, D!OursInv
<1>5. T!TypeOK' = T!TypeOK /\ T!KeptInv' = T!KeptInv BY DEF T!TypeOK, T!KeptInv, T!Probes
<1>6. D!TypeOK' = D!TypeOK BY DEF D!TypeOK
<1> QED BY <1>1, <1>2, <1>3, <1>4, <1>5, <1>6 DEF ServicesInv, Asks

\* No step of a service breaks what is proved of it.
LEMMA ServicesStep == ServicesInv /\ [Next]_vars => ServicesInv'
<1> SUFFICES ASSUME ServicesInv, [Next]_vars PROVE ServicesInv' OBVIOUS
<1>1. CASE UNCHANGED vars BY <1>1, ServicesStutter
<1>2. CASE Next
  <2>1. app' = app BY <1>2, SameService
  <2>2. /\ Asks(Reading)' <=> app.asks \in Reading
        /\ Asks({"command"})' <=> app.asks = "command"
        /\ Asks({"battery"})' <=> app.asks = "battery"
        /\ Asks({"render"})' <=> app.asks = "render"
        /\ Asks({"signup"})' <=> app.asks = "signup"
        /\ Asks({"deploy"})' <=> app.asks = "deploy"
    BY <2>1 DEF Asks, Reading
  <2>3. /\ app.asks = "battery" => T!ThreadsInv /\ T!TypeOK /\ T!KeptInv /\ T!Next
        /\ app.asks = "render" => R!TreeInv /\ R!StreamInv /\ R!Next
        /\ app.asks = "signup" => S!SignupInv /\ S!Next /\ app.home.own = TRUE
        /\ app.asks = "deploy" => D!DeployInv /\ D!TypeOK /\ D!Next
        /\ app.asks \in Reading => I!IngestInv /\ I!Next
        /\ app.asks = "command" => C!CacheInv /\ C!Next
    BY <1>2 DEF Next, ServicesInv, Asks, Reading
  <2>4. app.asks = "battery" => T!ThreadsInv' /\ T!TypeOK' /\ T!KeptInv' BY <2>3, ThreadsStep, BatteryTypes
  <2>5. app.asks = "render" => R!TreeInv' /\ R!StreamInv' BY <2>3, RenderStep, StreamStep
  <2>6. app.asks = "signup" => S!SignupInv' /\ app'.home.own = TRUE BY <2>1, <2>3, SignupWholeStep
  <2>7. app.asks = "deploy" => D!DeployInv' /\ D!TypeOK' BY <2>3, DeployStep, DeployTypes
  <2>8. app.asks \in Reading => I!IngestInv' BY <2>3, IngestStep
  <2>9. app.asks = "command" => C!CacheInv' BY <2>3, CacheStep
  <2> QED BY <2>2, <2>4, <2>5, <2>6, <2>7, <2>8, <2>9 DEF ServicesInv
<1> QED BY <1>1, <1>2

\* What every service leaves behind and keeps to follows from its own invariant.
LEMMA ServicesKeep == ServicesInv => NothingStaysBehind /\ KeepsToItsOwn
<1> SUFFICES ASSUME ServicesInv PROVE NothingStaysBehind /\ KeepsToItsOwn OBVIOUS
<1>1. Asks({"render"}) => R!TreeIsKilled BY DEF ServicesInv, R!TreeInv
<1>2. Asks({"deploy"}) => D!NothingLeft /\ D!OriginIsTheirs /\ D!GradedIsOurs BY DeployKeeps DEF ServicesInv
<1>3. Asks({"battery"}) => T!OutcomeIsOwn /\ T!KilledInTime /\ T!ScopeIsKept BY ThreadsKeep DEF ServicesInv
<1>4. Asks({"signup"}) => S!OneOwnForm BY SignupKeeps DEF ServicesInv, S!SignupInv
<1> QED BY <1>1, <1>2, <1>3, <1>4 DEF NothingStaysBehind, KeepsToItsOwn

\* Nothing runs on after its service: neither the browser below a render worker that its parent
\* kills, unless the worker died first or launched it as it was struck (render_routes,
\* _kill_worker_tree), nor an app or an image after its grade or its failed start (teardown of
\* the deployers), whatever is lost on the way and however late the app comes up.
THEOREM ServicesLeaveNothing == Spec => []NothingStaysBehind
<1>1. Init => ServicesInv BY ServicesInit
<1>2. ServicesInv /\ [Next]_vars => ServicesInv' BY ServicesStep
<1>3. ServicesInv => NothingStaysBehind BY ServicesKeep
<1> QED BY <1>1, <1>2, <1>3, PTL DEF Spec

\* A service keeps to its own: an outcome rests on the evidence of its probe or of one left
\* behind (_run_bounded), a watchdog kills only in a lane's own time or one left behind
\* (_kill_browser_on_stall), every thread dials in the scope of its grade (scope_bound), a signup
\* types one password in a form of the app (register_in_browser), a grade is of the host that was
\* submitted and the app it started (the deployers), for every bound and every number of faults.
THEOREM ServicesKeepToTheirOwn == Spec => []KeepsToItsOwn
<1>1. Init => ServicesInv BY ServicesInit
<1>2. ServicesInv /\ [Next]_vars => ServicesInv' BY ServicesStep
<1>3. ServicesInv => KeepsToItsOwn BY ServicesKeep
<1> QED BY <1>1, <1>2, <1>3, PTL DEF Spec

\* What a service answers is true, and is all there is: a walk of a gallery that ended is of every
\* submission in it and a block is no end of it (submissions), the cache on disk holds what was read
\* and a restart asks again only for what a torn line lost (IngestCache), a scrape without faults
\* finds all (devpost_repos), "not found" is said of what is not there (event_links, event_meta),
\* every route streamed before the wedge is kept in its order (render_routes), a signup that can be
\* reached is, and what is said of it is so (register_in_browser), and a grade is served again only
\* of the rules and the app that it saw (runcache).
THEOREM ServicesAnswerWhole == Spec => []AnswersAreWhole
<1>1. Init => ServicesInv BY ServicesInit
<1>2. ServicesInv /\ [Next]_vars => ServicesInv' BY ServicesStep
<1>3. ServicesInv => AnswersAreWhole
  <2> SUFFICES ASSUME ServicesInv PROVE AnswersAreWhole OBVIOUS
  <2>1. Asks(Reading) => I!WalkIsWhole /\ I!CacheIsTrue /\ I!ScrapeRecovers /\ I!ResumeLosesLittle /\ I!AbsenceWasAnswered
    BY IngestAnswers DEF ServicesInv
  <2>2. Asks({"render"}) => R!StreamedIsKept BY StreamKeeps DEF ServicesInv
  <2>3. Asks({"signup"}) => S!SignupIsTrue BY SignupIsSaid DEF ServicesInv
  <2>4. Asks({"command"}) => C!HitIsFresh BY DEF ServicesInv, C!CacheInv
  <2> QED BY <2>1, <2>2, <2>3, <2>4 DEF AnswersAreWhole
<1> QED BY <1>1, <1>2, <1>3, PTL DEF Spec

\* Each service keeps to its types and its bounds: no more tries, pages, faults, runs or restarts
\* than there may be, a lane no older than its watchdog lets it be, a browser up only in a lane,
\* and an outcome kept of every probe that was not left behind (_run_bounded).
THEOREM ServicesTyping == Spec => []TypeOK
<1>1. Init => ServicesInv BY ServicesInit
<1>2. ServicesInv /\ [Next]_vars => ServicesInv' BY ServicesStep
<1>3. ServicesInv => TypeOK
  <2> SUFFICES ASSUME ServicesInv PROVE TypeOK OBVIOUS
  <2>1. Asks(Reading) => I!TypeOK BY DEF ServicesInv, I!IngestInv
  <2>2. Asks({"battery"}) => T!TypeOK BY DEF ServicesInv
  <2>3. Asks({"render"}) => R!TypeOK BY DEF ServicesInv, R!StreamInv
  <2>4. Asks({"signup"}) => S!TypeOK BY DEF ServicesInv, S!SignupInv, S!SaidInv
  <2>5. Asks({"deploy"}) => D!TypeOK BY DEF ServicesInv
  <2>6. Asks({"command"}) => C!TypeOK BY DEF ServicesInv, C!CacheInv
  <2> QED BY <2>1, <2>2, <2>3, <2>4, <2>5, <2>6 DEF TypeOK
<1> QED BY <1>1, <1>2, <1>3, PTL DEF Spec
=============================================================================
