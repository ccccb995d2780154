-------------------------------- MODULE Render --------------------------------
(***************************************************************************)
(* render_routes (browser.py): a forked worker renders the routes and streams   *)
(* each one over a pipe when it is painted; its parent reads until the worker is *)
(* done, or gone, or out of time, and then kills it and the browser below it.    *)
(***************************************************************************)
EXTENDS Integers, Sequences

CONSTANTS
    Apps,         \* what each route does in the browser: paints, raises or wedges
    TotalTimeout, \* total_timeout, in ticks
    Crashes       \* bound: workers that die by themselves

VARIABLES
    app, \* the routes that are asked for
    at,  \* of the parent: poll, lapsed, recv, kill, strike, end
    mem, \* the parent: its clock, the routes it has, the sinks, how its loop ended, the pids it listed
    aux, \* the worker, the pipe and the browser; history: what was sent and when, launched behind the list
    faults \* history: crashes

vars == <<app, at, mem, aux, faults>>

Init == /\ app \in Apps
        /\ at = "poll" /\ faults = 0
        /\ mem = [age |-> 0, out |-> <<>>, sinks |-> FALSE, how |-> "none", listed |-> {}]
        /\ aux = [pc |-> "start", since |-> 0, idx |-> 1, pipe |-> <<>>, browser |-> "none",
                  sent |-> <<>>, age |-> <<>>, lapsed |-> 0, crashed |-> FALSE, missed |-> FALSE]

Alive == aux.pc \notin {"exited", "killed"}

-----------------------------------------------------------------------------
(* The worker. *)

Work == at # "end" /\ UNCHANGED <<app, at, mem, faults>>

\* _launch, or no browser starts; the worker's own time begins after it.
Launch == /\ Work /\ aux.pc = "start"
          /\ \/ aux' = [aux EXCEPT !.pc = "render", !.since = mem.age, !.browser = "up", !.missed = (at = "strike")]
             \/ aux' = [aux EXCEPT !.pc = "last"]

\* Its own deadline, which is after the parent's.
More == aux.idx <= Len(app.routes) /\ mem.age - aux.since <= TotalTimeout

\* One route: what it paints is written to the pipe, which takes a while.
Paint == /\ Work /\ aux.pc = "render" /\ More
         /\ \/ app.routes[aux.idx] = "paints" /\ aux' = [aux EXCEPT !.pc = "write", !.pipe = Append(@, "part")]
            \/ app.routes[aux.idx] = "raises" /\ aux' = [aux EXCEPT !.idx = @ + 1]
            \/ app.routes[aux.idx] = "wedges" /\ aux' = [aux EXCEPT !.pc = "wedged"]

\* Its last byte. The sinks ride the final message.
Written == /\ Work /\ aux.pc \in {"write", "last"}
           /\ aux' = IF aux.pc = "last"
                     THEN [aux EXCEPT !.pc = "exited", !.pipe = Append(@, "done")]
                     ELSE [aux EXCEPT !.pc = "render", !.idx = @ + 1, !.pipe = Append(SubSeq(@, 1, Len(@) - 1), "route"),
                                      !.sent = Append(@, aux.idx), !.age = Append(@, mem.age)]

\* All routes, or its own time is over.
CloseBrowser == /\ Work /\ aux.pc = "render" /\ ~More
                /\ aux' = [aux EXCEPT !.pc = "last", !.browser = "none"]

\* Out of memory, or the driver takes it along.
Crash == /\ at # "end" /\ Alive /\ faults < Crashes
         /\ faults' = faults + 1
         /\ aux' = [aux EXCEPT !.pc = "exited", !.crashed = TRUE]
         /\ UNCHANGED <<app, at, mem>>

-----------------------------------------------------------------------------
(* The parent. *)

Leave(how) == at' = "kill" /\ mem' = [mem EXCEPT !.how = how]

\* poll: there is something to read, be it the end of the file.
Poll == /\ at = "poll" /\ mem.age < TotalTimeout /\ (aux.pipe # <<>> \/ ~Alive)
        /\ at' = "recv"
        /\ UNCHANGED <<app, mem, aux, faults>>

Lapses == aux.pipe = <<>> /\ Alive

\* poll ran out; is_alive is asked after it.
Lapse == /\ at = "poll" /\ mem.age < TotalTimeout /\ Lapses
         /\ at' = "lapsed" /\ aux' = [aux EXCEPT !.lapsed = Len(aux.sent)]
         /\ UNCHANGED <<app, mem, faults>>

IsAlive == /\ at = "lapsed"
           /\ IF Alive THEN at' = "poll" /\ mem' = mem ELSE Leave("gone")
           /\ UNCHANGED <<app, aux, faults>>

\* recv waits for the whole message; where a worker dies in the middle of one, it raises, and
\* what it raises is caught only when nothing of the message's body was there.
Recv == /\ at = "recv"
        /\ CASE aux.pipe = <<>> -> ~Alive /\ Leave("eof") /\ aux' = aux
             [] aux.pipe # <<>> /\ Head(aux.pipe) = "part" -> ~Alive /\ aux' = aux /\ \E how \in {"raised", "eof"} : Leave(how)
             [] OTHER -> /\ aux' = [aux EXCEPT !.pipe = Tail(@)]
                         /\ IF Head(aux.pipe) = "route"
                            THEN at' = "poll" /\ mem' = [mem EXCEPT !.out = Append(@, aux.sent[Len(@) + 1])]
                            ELSE at' = "kill" /\ mem' = [mem EXCEPT !.how = "done", !.sinks = TRUE]
        /\ UNCHANGED <<app, faults>>

\* Mutant: the parent has no time of its own.
BugLate == FALSE

Late == mem.age >= TotalTimeout

GiveUp == /\ at = "poll" /\ Late
          /\ Leave("hung")
          /\ UNCHANGED <<app, aux, faults>>

\* Mutant: the worker alone.
BugTree == {"worker"}

\* _descendant_pids: the worker and the browser below it, as they are in /proc.
Tree == {"worker"} \cup (IF aux.browser = "up" THEN {"browser"} ELSE {})

List == /\ at = "kill"
        /\ IF Alive THEN at' = "strike" /\ mem' = [mem EXCEPT !.listed = Tree] ELSE at' = "end" /\ mem' = mem
        /\ UNCHANGED <<app, aux, faults>>

Strike == /\ at = "strike"
          /\ at' = "end"
          /\ aux' = [aux EXCEPT !.pc = IF @ = "exited" THEN @ ELSE "killed",
                                !.browser = IF "browser" \in mem.listed THEN "none" ELSE @]
          /\ UNCHANGED <<app, mem, faults>>

\* The parent reads faster than a tick.
Tick == /\ mem.age < TotalTimeout
        /\ Alive /\ at \in {"poll", "lapsed", "recv"}
        /\ aux.pipe = IF at = "recv" THEN <<"part">> ELSE <<>>
        /\ mem' = [mem EXCEPT !.age = @ + 1]
        /\ UNCHANGED <<app, at, aux, faults>>

-----------------------------------------------------------------------------
Works == Launch \/ Written \/ CloseBrowser
Waits == Poll \/ Lapse
Reads == IsAlive \/ Recv \/ GiveUp \/ List \/ Strike

Next == Works \/ Paint \/ Crash \/ Waits \/ Reads \/ Tick

\* The worker runs until it wedges; the parent and the clock always.
Spec == Init /\ [][Next]_vars /\ WF_vars(Works) /\ WF_vars(Waits) /\ WF_vars(Reads) /\ WF_vars(Tick)

-----------------------------------------------------------------------------
Got == Len(mem.out)

\* "The parent keeps every route streamed before the wedge": all of them when it heard
\* the end; all that were streamed before the tick of its deadline when it gave up;
\* all that were streamed before its last look when the worker went in between.
StreamedIsKept ==
    /\ Got <= Len(aux.sent) /\ mem.out = SubSeq(aux.sent, 1, Got)
    /\ mem.how \in {"done", "eof"} => mem.out = aux.sent
    /\ mem.how = "hung" => \A n \in Got + 1 .. Len(aux.sent) : aux.age[n] >= TotalTimeout
    /\ mem.how = "gone" => Got >= aux.lapsed

\* No browser outlives the call, but one whose worker died by itself, and one that was
\* started between the look at /proc and the kill.
TreeIsKilled == at = "end" /\ aux.browser = "up" => aux.crashed \/ aux.missed

\* A wedged renderer costs the time of the call.
Ends == <>[](at = "end")

TypeOK == /\ at \in {"poll", "lapsed", "recv", "kill", "strike", "end"}
          /\ mem.age \in 0 .. TotalTimeout /\ (mem.how = "none" <=> at \in {"poll", "lapsed", "recv"})
          /\ aux.pc \in {"start", "render", "write", "wedged", "last", "exited", "killed"}
          /\ Len(aux.sent) = Len(aux.age) /\ faults \in 0 .. Crashes
          /\ aux.crashed => faults > 0

-----------------------------------------------------------------------------
(* The inductive invariant of the proof in ServicesProofs.                   *)

\* A worker that has not launched or has closed has no browser; what a strike does not know
\* of was launched behind the list.
TreeInv == /\ {"pc", "browser", "crashed", "missed"} \subseteq DOMAIN aux /\ "listed" \in DOMAIN mem
           /\ {aux.crashed, aux.missed} \subseteq BOOLEAN
           /\ aux.pc \in {"start", "last"} => aux.browser # "up"
           /\ aux.pc \in {"exited", "killed"} /\ aux.browser = "up" => aux.crashed \/ aux.missed
           /\ at = "strike" /\ aux.browser = "up" => "browser" \in mem.listed \/ aux.missed
           /\ TreeIsKilled

\* The pipe holds what was sent and is not read, and behind it the message that is being
\* written, was broken off or is the last; what waits there has waited since this tick.
Messages == {"route", "part", "done"}
Parents  == [age : Nat, out : Seq(Nat), sinks : BOOLEAN, how : {"none", "hung", "gone", "eof", "raised", "done"},
             listed : SUBSET {"worker", "browser"}]
Workers  == [pc : {"start", "render", "write", "wedged", "last", "exited", "killed"}, since : Nat, idx : Nat,
             pipe : Seq(Messages), browser : {"none", "up"}, sent : Seq(Nat), age : Seq(Nat), lapsed : Nat,
             crashed : BOOLEAN, missed : BOOLEAN]
Unread   == Len(aux.sent) - Got

PipeInv == /\ Got <= Len(aux.sent) /\ \A n \in 1 .. Got : mem.out[n] = aux.sent[n]
           /\ Len(aux.pipe) \in {Unread, Unread + 1}
           /\ \A n \in 1 .. Unread : aux.pipe[n] = "route"
           /\ Len(aux.pipe) = Unread + 1 => aux.pipe[Unread + 1] # "route" /\ aux.pc \in {"write", "exited", "killed"}
           /\ aux.pc = "write" => Len(aux.pipe) = Unread + 1 /\ aux.pipe[Unread + 1] = "part"
           /\ Len(aux.age) = Len(aux.sent)
           /\ \A n \in Got + 1 .. Len(aux.sent) : aux.age[n] >= mem.age

\* How the parent leaves its loop, and what it knows then.
LeftInv == /\ at = "lapsed" => Got >= aux.lapsed
           /\ mem.how \in {"done", "eof"} => mem.out = aux.sent /\ ~Alive
           /\ mem.how = "hung" => mem.age >= TotalTimeout
           /\ mem.how = "gone" => Got >= aux.lapsed

StreamInv == mem \in Parents /\ aux \in Workers /\ TypeOK /\ PipeInv /\ LeftInv
=============================================================================
