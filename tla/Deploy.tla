-------------------------------- MODULE Deploy --------------------------------
(***************************************************************************)
(* The deployers (deploy.py): one asks a target that runs already, by https and  *)
(* at last by http; two start an app on a port that was free a moment ago, as a   *)
(* process or in a container, wait until it answers, and take it down after the   *)
(* grade or the failure.                                                   *)
(***************************************************************************)
EXTENDS Integers

CONSTANTS
    Apps,   \* the deployer, and what it deploys does
    Window, \* health_timeout, in tries
    Faults  \* bound: answers that are lost, and other programs that take the port

VARIABLES
    app,   \* what is deployed, and how
    at,    \* of deploy: ask, build, port, start, address, check, get, up, teardown, end
    mem,   \* the deployer: its clock, connect_failed, what it settled on, who answered, the container it knows
    aux,   \* the app and its container or process, who has the port, the image; history: the last answer was lost, when the app ended
    faults

vars == <<app, at, mem, aux, faults>>

Init == /\ app \in Apps
        /\ at = CASE app.kind = "remote" -> "ask" [] app.kind = "process" -> "port" [] app.kind = "container" -> "build"
        /\ mem = [age |-> 0, refused |-> FALSE, base |-> "none", by |-> "none", known |-> FALSE]
        /\ aux = [app |-> "none", port |-> "free", image |-> FALSE, lost |-> FALSE, ended |-> 0]
        /\ faults = 0

Fault == faults < Faults /\ faults' = faults + 1

Raise == at' = "teardown" /\ UNCHANGED mem

Later(n) == IF mem.age + n > Window THEN Window ELSE mem.age + n

-----------------------------------------------------------------------------
(* RemoteDeployer.  Each scheme is up, up by way of the other host or scheme it *)
(* redirects to, in error, dead, or accepts and says nothing.                *)

\* _settle_origin: the same host by TLS, or what was asked for.
Settled(scheme, is) == IF scheme = "http" /\ is = "upgrade" THEN "https" ELSE scheme

Answers == {"up", "upgrade", "away"}

Up(base, by) == at' = "up" /\ mem' = [mem EXCEPT !.base = base, !.by = by]

\* A lost answer takes as long as any, or the read timeout, which is the whole window.
Ask == /\ at = "ask" /\ mem.age < Window
       /\ LET is == app[app.submitted]
              again(n, refused) == at' = at /\ mem' = [mem EXCEPT !.age = Later(n), !.refused = refused]
          IN  \/ faults' = faults /\ is \in Answers /\ Up(Settled(app.submitted, is), "target") /\ aux' = aux
              \/ /\ faults' = faults /\ is \notin Answers /\ aux' = [aux EXCEPT !.lost = FALSE]
                 /\ again(IF is = "silent" THEN Window ELSE 1, is # "5xx")
              \/ Fault /\ aux' = [aux EXCEPT !.lost = TRUE] /\ \E n \in {1, Window} : again(n, TRUE)
       /\ UNCHANGED app

\* The window is over: an https target that did not answer is asked by http once.
AskInClear == /\ at = "ask" /\ mem.age = Window
              /\ IF mem.refused /\ app.submitted = "https"
                 THEN \/ faults' = faults /\ app.http \in Answers /\ Up(Settled("http", app.http), "target")
                      \/ faults' = faults /\ app.http \notin Answers /\ Raise
                      \/ Fault /\ Raise
                 ELSE faults' = faults /\ Raise
              /\ UNCHANGED <<app, aux>>

-----------------------------------------------------------------------------
(* SubprocessDeployer and DockerDeployer. *)

Build == /\ at = "build"
         /\ IF app.builds THEN at' = "port" /\ aux' = [aux EXCEPT !.image = TRUE] /\ mem' = mem
            ELSE Raise /\ aux' = aux
         /\ UNCHANGED <<app, faults>>

\* _free_port: bound, and closed again.
FreePort == /\ at = "port"
            /\ at' = "start"
            /\ UNCHANGED <<app, mem, aux, faults>>

Taken == /\ at \in {"start", "check", "get"} /\ aux.port = "free" /\ Fault
         /\ aux' = [aux EXCEPT !.port = "other"]
         /\ UNCHANGED <<app, at, mem>>

Published == app.kind = "container" /\ ~app.network

\* docker run gives no id of a container that it created and could not start: the port
\* is taken, the runtime or the network is not there, the daemon is in trouble.
RunFails == /\ at = "start" /\ app.kind = "container"
            /\ \/ Published /\ aux.port # "free" /\ aux' = [aux EXCEPT !.app = "created"] /\ faults' = faults
               \/ Fault /\ \E left \in {"none", "created"} : aux' = [aux EXCEPT !.app = left]
            /\ Raise
            /\ UNCHANGED app

\* The daemon takes the port itself; a process has yet to.
Start == /\ at = "start" /\ (Published => aux.port = "free")
         /\ at' = IF app.kind = "container" /\ app.network THEN "address" ELSE "check"
         /\ mem' = [mem EXCEPT !.known = app.kind = "container"]
         /\ aux' = [aux EXCEPT !.app = "starting", !.port = IF Published THEN "app" ELSE @]
         /\ UNCHANGED <<app, faults>>

\* _container_ip: on its own network; an app that is gone has none.
Address == /\ at = "address"
           /\ IF aux.app = "exited" THEN Raise ELSE at' = "check" /\ mem' = mem
           /\ UNCHANGED <<app, aux, faults>>

\* A process that finds its port taken gives up, or takes another.
Boot == /\ aux.app = "starting" /\ app.is # "silent"
        /\ LET taken == app.kind = "process" /\ aux.port # "free"
           IN  aux' = IF app.is = "exits" \/ (taken /\ ~app.moves) THEN [aux EXCEPT !.app = "exited", !.ended = mem.age]
                      ELSE [aux EXCEPT !.app = "up", !.port = IF app.kind = "process" /\ ~taken THEN "app" ELSE @]
        /\ UNCHANGED <<app, at, mem, faults>>

Gone == aux.app = "exited"

Check == /\ at = "check" /\ mem.age < Window
         /\ IF Gone THEN Raise ELSE at' = "get" /\ mem' = mem
         /\ UNCHANGED <<app, aux, faults>>

Get == /\ at = "get"
       /\ LET ours  == aux.app = "up" /\ app.is = "up" /\ (aux.port = "app" \/ ~(app.kind = "process" \/ Published))
              other == app.kind = "process" /\ aux.port = "other"
              again == at' = "check" /\ mem' = [mem EXCEPT !.age = Later(1)]
          IN  \/ faults' = faults /\ ours /\ Up("port", "app")
              \/ faults' = faults /\ other /\ Up("port", "other")
              \/ faults' = faults /\ ~ours /\ ~other /\ again
              \/ Fault /\ again
       /\ UNCHANGED <<app, aux>>

Expire == /\ at = "check" /\ mem.age = Window
          /\ Raise
          /\ UNCHANGED <<app, aux, faults>>

\* pipeline.run takes down in its finally, graded or not.
Graded == /\ at = "up"
          /\ at' = "teardown"
          /\ UNCHANGED <<app, mem, aux, faults>>

Ours == mem.known \/ app.kind = "process"

Teardown == /\ at = "teardown"
            /\ at' = "end"
            /\ aux' = [aux EXCEPT !.app = IF Ours /\ @ # "none" THEN "gone" ELSE @, !.image = FALSE]
            /\ UNCHANGED <<app, mem, faults>>

-----------------------------------------------------------------------------
Steps == Ask \/ AskInClear \/ Build \/ FreePort \/ RunFails \/ Start \/ Address \/ Check \/ Get \/ Expire \/ Graded \/ Teardown

Next == Steps \/ Boot \/ Taken

\* Every wait is counted; an app may never come up.
Spec == Init /\ [][Next]_vars /\ WF_vars(Steps)

-----------------------------------------------------------------------------
\* The origin that is graded is the submitted host, by TLS when it moves there itself; an
\* https target is graded in clear only where https, asked last, gave no answer at all and
\* http does not lead back; and a target that answers is given up only after a lost answer.
OriginIsTheirs ==
    app.kind = "remote" =>
        /\ mem.base \in {"none", "http", "https"}
        /\ mem.base # "none" /\ app.submitted = "http" => mem.base = (IF app.http = "upgrade" THEN "https" ELSE "http")
        /\ mem.base = "http" /\ app.submitted = "https" => app.http # "upgrade" /\ (aux.lost \/ app.https \in {"dead", "silent"})
        /\ at \in {"teardown", "end"} /\ mem.base = "none" /\ faults = 0 => app[app.submitted] \notin Answers

\* Another program is graded in an app's place only when it took the port before the app
\* could, never in that of a container, and not after a try in which the app was gone.
GradedIsOurs == mem.by = "other" =>
                   app.kind = "process" /\ (at = "up" /\ aux.app = "exited" => aux.ended = mem.age)

\* Graded or not, the app is taken down, and with it its image; what the daemon created
\* and, after a fault, could not start stays behind.
NothingLeft == at = "end" => /\ aux.app \in {"none", "gone", "created"} /\ ~aux.image
                             /\ aux.app = "created" => app.kind = "container" /\ faults > 0

Ends == <>[](at = "end")

TypeOK == /\ at \in {"ask", "build", "port", "start", "address", "check", "get", "up", "teardown", "end"}
          /\ mem.age \in 0 .. Window /\ faults \in 0 .. Faults
          /\ (mem.base = "none" <=> mem.by = "none")
          /\ aux.app \in {"none", "created", "starting", "up", "exited", "gone"}
          /\ aux.port \in {"free", "app", "other"}

-----------------------------------------------------------------------------
(* The inductive invariants of the proofs in ServicesProofs.                 *)

\* What can be deployed.
Deployable ==
    /\ app.kind \in {"remote", "process", "container"}
    /\ app.kind = "remote" => /\ app.submitted \in {"http", "https"}
                              /\ {app.http, app.https} \subseteq Answers \cup {"5xx", "dead", "silent"}

Memories == [age : 0 .. Window, refused : BOOLEAN, base : {"none", "http", "https", "port"},
             by : {"none", "target", "app", "other"}, known : BOOLEAN]

Worlds == [app : {"none", "created", "starting", "up", "exited", "gone"}, port : {"free", "app", "other"},
           image : BOOLEAN, lost : BOOLEAN, ended : 0 .. Window]

Shaped == mem \in Memories /\ aux \in Worlds /\ faults \in Nat

\* Whatever runs is known to the deployer that takes it down; a target is never started.
LeftInv == /\ app.kind = "remote" => at \in {"ask", "up", "teardown", "end"} /\ aux.app = "none"
           /\ app.kind # "remote" => at # "ask"
           /\ aux.app \in {"starting", "up", "exited"} => Ours
           /\ aux.app = "created" => app.kind = "container" /\ faults > 0
           /\ app.kind # "remote" /\ aux.port = "other" => faults > 0
           /\ at \in {"build", "port", "start"} => aux.app = "none" /\ aux.port # "app"
           /\ at = "end" => aux.app \notin {"starting", "up", "exited"} /\ ~aux.image

\* While a target is asked there is no origin; it was refused by a lost answer or by the target,
\* and without a lost answer it has not answered yet.
OriginInv ==
    /\ app.kind = "remote" /\ at = "ask" =>
          /\ mem.base = "none"
          /\ mem.refused => aux.lost \/ app[app.submitted] \in {"dead", "silent"}
          /\ faults = 0 /\ mem.age # 0 => app[app.submitted] \notin Answers
    /\ app.kind = "remote" /\ at = "up" => mem.base # "none"
    /\ OriginIsTheirs

\* An app that is gone when its port answers went after the last look.
OursInv == /\ at \in {"get", "up"} /\ aux.app = "exited" => aux.ended = mem.age
           /\ mem.by = "other" => app.kind = "process"

DeployInv == Deployable /\ Shaped /\ LeftInv /\ OriginInv /\ OursInv
=============================================================================
