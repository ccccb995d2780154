------------------------------- MODULE Records -------------------------------
(***************************************************************************)
(* The probes of probes.py that create records and read them back: as       *)
(* another user (broken object-level authorization), by id or in a list      *)
(* (lost writes), and many at once (ids that are handed out twice, a server  *)
(* that falls over).  A request may be lost, or turned away by what stands  *)
(* in front of the app; strangers write to the same lists; the creates of a  *)
(* burst interleave inside the app.                                        *)
(***************************************************************************)
EXTENDS Integers, Sequences, FiniteSets

CONSTANTS
    Apps,    \* the apps and the probe that is run on each, see MCProbes
    Creates, \* the concurrent requests of a burst
    Bursts,  \* bursts
    Need,    \* min_collisions
    Tries,   \* _CREATE_ATTEMPTS
    Faults   \* bound: requests that are lost or turned away

VARIABLES
    app,    \* the probe and the app
    at,     \* where the probe is
    mem,    \* what it holds
    th,     \* the requests of a burst, inside the app
    faults, \* history: faults so far
    verdict

vars == <<app, at, mem, th, faults, verdict>>

Quiet == [pc |-> "off", id |-> 0]

Init == /\ app \in Apps
        /\ at = "start"
        /\ mem = [n |-> 1, tested |-> FALSE, turned |-> FALSE, tries |-> 0, body |-> "marker", counter |-> 1,
                  burst |-> 0, bad |-> 0, seen |-> FALSE]
        /\ th = [c \in 1 .. Creates |-> Quiet]
        /\ faults = 0 /\ verdict = "none"

Is(probes, pc) == app.probe \in probes /\ at = pc
Go(pc)  == at' = pc /\ verdict' = verdict
End(v)  == at' = "end" /\ verdict' = v
Keep    == mem' = mem
Came    == faults' = faults
Loss    == faults < Faults /\ faults' = faults + 1
Pair    == app.pairs[mem.n]
NoMore  == mem.n > Len(app.pairs)
Either(v) == IF mem.tested THEN v ELSE "na"
Twice   == faults + 2 <= Faults /\ faults' = faults + 2
NextPair  == Go("own") /\ mem' = [mem EXCEPT !.n = @ + 1, !.turned = FALSE]

-----------------------------------------------------------------------------
(* As another user: api_bola, idor_user_record, bola_managed_backend.        *)

Cross == {"bola", "record", "backend"}

\* Two identities that are two, or not applicable.
Accounts == /\ Is(Cross \cup {"collection", "idor"}, "start")
            /\ IF (app.pairs = <<>> /\ (app.probe # "collection" \/ app.page = "none")) \/ app.users # "two"
               THEN End("na") ELSE Go("own")
            /\ UNCHANGED <<app, mem, th, faults>>

\* A creates an object with a canary, or reads a record that is hers.
Own == /\ Is(Cross, "own")
       /\ IF NoMore THEN End(Either("clean")) /\ Keep /\ Came
          ELSE \/ Loss /\ NextPair
               \/ Came /\ IF Pair.own THEN Go("anon") /\ Keep ELSE NextPair
       /\ UNCHANGED <<app, th>>

\* What an anonymous reader is not kept from is public.  A block in front of the
\* app looks like a refusal by it.
Stranger == /\ Is(Cross, "anon")
            /\ \/ Loss /\ NextPair
               \/ Loss /\ Go("other") /\ mem' = [mem EXCEPT !.tested = TRUE, !.turned = TRUE]
               \/ Came /\ IF Pair.gate = "public" THEN NextPair
                          ELSE Go("other") /\ mem' = [mem EXCEPT !.tested = TRUE]
            /\ UNCHANGED <<app, th>>

\* B reads what is A's.
Other == /\ Is(Cross, "other")
         /\ \/ Loss /\ NextPair
            \/ Came /\ IF Pair.gate # "owner" THEN End("fired") /\ Keep ELSE NextPair
         /\ UNCHANGED <<app, th>>

-----------------------------------------------------------------------------
(* api_bola_collection: a gated list that two fresh users see the same of, and *)
(* the browser where httpx sees no list.                                   *)

\* What a fresh user is shown: how many owners' records.
Shown(gate) == IF gate = "owner" THEN 0 ELSE app.owners

\* What two users are shown of a list that seems to be gated.
Compared(turned) ==
    IF Shown(Pair.gate) = 0 THEN NextPair
    ELSE IF Shown(Pair.gate) >= 2 THEN End("fired") /\ mem' = [mem EXCEPT !.tested = TRUE, !.turned = turned]
    ELSE Go("own") /\ mem' = [mem EXCEPT !.n = @ + 1, !.tested = TRUE, !.turned = FALSE]

\* The refusal that an anonymous reader must meet may be the edge's: a public list
\* is then compared as a private one.
Lists == /\ Is({"collection"}, "own")
         /\ IF NoMore THEN Go("browsers") /\ Keep /\ Came
            ELSE \/ Loss /\ NextPair
                 \/ Came /\ IF Pair.gate = "public" THEN NextPair ELSE Compared(FALSE)
                 \/ Loss /\ Pair.gate = "public" /\ Compared(TRUE)
         /\ UNCHANGED <<app, th>>

\* A creates in the browser; A sees it, nobody else may, and B must not.  Each of the
\* three is shown it at the second look if the first is lost; a page that is twice lost
\* to the anonymous reader is taken for a gated one (Pages has the lane itself).
TwoSessions == /\ Is({"collection"}, "browsers")
               /\ \/ Came /\ Keep /\ End(CASE app.page = "none"  -> Either("clean")
                                             [] app.page = "login" -> "fired"
                                             [] OTHER              -> "clean")
                  \/ Loss /\ Keep /\ app.page # "none" /\ End(Either("clean"))
                  \/ Twice /\ Keep /\ app.page = "login" /\ End("clean")
                  \/ Twice /\ app.page = "public" /\ End("fired") /\ mem' = [mem EXCEPT !.turned = TRUE]
               /\ UNCHANGED <<app, th>>

\* idor_horizontal: B fetches what A's form led to, gated or not; a refusal of
\* the edge to B is taken for the app's.
Horizontal == /\ Is({"idor"}, "own")
              /\ \/ Loss /\ End("na")
                 \/ Loss /\ Pair.own /\ End("clean")
                 \/ Came /\ End(CASE ~Pair.own -> "na"
                                  [] Pair.own /\ Pair.gate # "owner" -> "fired"
                                  [] OTHER -> "clean")
              /\ UNCHANGED <<app, mem, th>>

-----------------------------------------------------------------------------
(* data_integrity_roundtrip and its pairs.                                 *)

\* _conventional_pairs: a pair that was guessed is used only when a record that
\* exists can be read by its id.
Pairs == /\ Is({"durable"}, "start")
         /\ IF NoMore THEN End(Either("clean")) /\ Keep /\ Came
            ELSE \/ Came /\ (Pair.observed \/ Pair.byId) /\ Go("create") /\ Keep
                 \/ /\ Came /\ ~Pair.observed /\ ~Pair.byId
                    /\ Go("start") /\ mem' = [mem EXCEPT !.n = @ + 1]
                 \/ Loss /\ ~Pair.observed /\ Go("start") /\ mem' = [mem EXCEPT !.n = @ + 1]
         /\ UNCHANGED <<app, th>>

\* A create that was acknowledged with an id, and its read.
CreateThenRead ==
    /\ Is({"durable"}, "create")
    /\ LET on == [mem EXCEPT !.n = @ + 1]
       IN  \/ Loss /\ Go("start") /\ mem' = on
           \/ Loss /\ Pair.own /\ End("fired") /\ mem' = [mem EXCEPT !.turned = TRUE]   \* a read that a 5xx answers
           \/ /\ Came
              /\ CASE ~Pair.own                             -> Go("start") /\ mem' = on
                   [] Pair.own /\ Pair.byId /\ Pair.keeps   -> Go("start") /\ mem' = [on EXCEPT !.tested = TRUE]
                   [] OTHER                                 -> End("fired") /\ Keep
    /\ UNCHANGED <<app, th>>

-----------------------------------------------------------------------------
(* data_integrity_list_roundtrip.  The server wants one field to be text, a    *)
(* number, a truth value or a date, and may say which field it refuses.     *)

\* _coerce_next.
Coerce(body) == CASE body = "marker" -> "number" [] body = "number" -> "bool" [] body = "bool" -> "date" [] OTHER -> "number"

\* Only a list of records can be compared.
Before == /\ Is({"list"}, "start")
          /\ IF NoMore THEN Go("rendered") /\ Keep /\ Came
             ELSE LET on == [mem EXCEPT !.n = @ + 1]
                  IN  \/ Loss /\ Go(at) /\ mem' = on
                      \/ Came /\ IF Pair.records
                                 THEN Go("accepted") /\ mem' = [mem EXCEPT !.tries = 0, !.body = "marker"]
                                 ELSE Go(at) /\ mem' = on
          /\ UNCHANGED <<app, th>>

\* _accepted_create: coerce what is refused, a few times.
Accepted == /\ Is({"list"}, "accepted")
            /\ LET on == [mem EXCEPT !.n = @ + 1]
               IN  \/ Loss /\ Go("start") /\ mem' = on
                   \/ /\ Came
                      /\ CASE mem.tries = Tries -> Go("start") /\ mem' = on
                           [] mem.tries < Tries /\ mem.body = Pair.wants -> Go("after") /\ Keep
                           [] mem.tries < Tries /\ mem.body # Pair.wants /\ ~Pair.says -> Go("start") /\ mem' = on
                           [] OTHER -> Go(at) /\ mem' = [mem EXCEPT !.tries = @ + 1, !.body = Coerce(@)]
            /\ UNCHANGED <<app, th>>

\* The record is in the list, or the list moved, by our write or a stranger's.
After == /\ Is({"list"}, "after")
         /\ LET on == [mem EXCEPT !.n = @ + 1]
            IN  \/ Loss /\ Go("start") /\ mem' = on
                \/ /\ Came
                   /\ \E stranger \in BOOLEAN :
                        IF (Pair.keeps \/ stranger) /\ Pair.fresh
                        THEN Go("start") /\ mem' = [on EXCEPT !.tested = TRUE]
                        ELSE End("fired") /\ mem' = [mem EXCEPT !.tested = TRUE]
         /\ UNCHANGED <<app, th>>

\* The browser can only confirm that a write was kept.
InTheBrowser == /\ Is({"list"}, "rendered")
                /\ End(IF mem.tested \/ app.page = "renders" THEN "clean" ELSE "na")
                /\ UNCHANGED <<app, mem, th, faults>>

-----------------------------------------------------------------------------
(* race_resource_ids, race_resource_ids_api: bursts of creates.  The app hands *)
(* out ids in one step or in two, gives every caller the one record it has,  *)
(* or shows no id.                                                         *)

Burst == /\ Is({"race"}, "start")
         /\ th' = [c \in 1 .. Creates |-> [pc |-> "read", id |-> 0]]
         /\ Go("burst")
         /\ UNCHANGED <<app, mem, faults>>

\* The app reads its counter, and in one step or in two stores the next value.
ReadCounter(c) == /\ Is({"race"}, "burst") /\ th[c].pc = "read"
                  /\ \/ /\ Came
                        /\ th' = [th EXCEPT ![c].pc = IF app.ids = "racy" THEN "write" ELSE "done",
                                            ![c].id = CASE app.ids = "one" -> 1 [] app.ids = "hidden" -> 0
                                                        [] OTHER -> mem.counter]
                        /\ mem' = IF app.ids = "atomic" THEN [mem EXCEPT !.counter = @ + 1] ELSE mem
                     \/ Loss /\ th' = [th EXCEPT ![c].pc = "done"] /\ Keep
                  /\ UNCHANGED <<app, at, verdict>>

WriteCounter(c) == /\ Is({"race"}, "burst") /\ th[c].pc = "write"
                   /\ th' = [th EXCEPT ![c].pc = "done"]
                   /\ mem' = [mem EXCEPT !.counter = th[c].id + 1]
                   /\ UNCHANGED <<app, at, faults, verdict>>

Shows(c)  == th[c].id # 0
Collided  == \E c, d \in 1 .. Creates : c # d /\ Shows(c) /\ th[c].id = th[d].id
Visible   == Cardinality({c \in 1 .. Creates : Shows(c)}) >= 2

\* A burst that shows an id twice counts; Need of them make a race.
Compare == /\ Is({"race"}, "burst") /\ \A c \in 1 .. Creates : th[c].pc = "done"
           /\ th' = [c \in 1 .. Creates |-> Quiet]
           /\ mem' = [mem EXCEPT !.burst = @ + 1, !.seen = @ \/ Visible, !.bad = @ + IF Collided THEN 1 ELSE 0]
           /\ IF mem'.burst < Bursts THEN Go("start")
              ELSE End(IF ~mem'.seen THEN "na" ELSE IF mem'.bad >= Need THEN "fired" ELSE "clean")
           /\ UNCHANGED <<app, faults>>

\* load_resilience: the median of the bursts decides, so one bad burst does not.
Load == /\ Is({"load"}, "start")
        /\ \E fails \in BOOLEAN :
             /\ \/ fails = (app.capacity < Creates) /\ Came
                \/ fails # (app.capacity < Creates) /\ Loss
             /\ mem' = [mem EXCEPT !.burst = @ + 1, !.bad = @ + IF fails THEN 1 ELSE 0]
        /\ IF mem'.burst < Bursts THEN Go(at) ELSE End(IF 2 * mem'.bad > Bursts THEN "fired" ELSE "clean")
        /\ UNCHANGED <<app, th>>

-----------------------------------------------------------------------------
Next == \/ Accounts \/ Own \/ Stranger \/ Other \/ Lists \/ TwoSessions \/ Horizontal
        \/ Pairs \/ CreateThenRead \/ Before \/ Accepted \/ After \/ InTheBrowser
        \/ Burst \/ (\E c \in 1 .. Creates : ReadCounter(c) \/ WriteCounter(c)) \/ Compare \/ Load

\* Every request has a timeout.
Spec == Init /\ [][Next]_vars /\ WF_vars(Next)

-----------------------------------------------------------------------------
\* What a user is shown who does not own it: what every user is, or what is public
\* and was held from the anonymous reader by what stands in front of the app.
Leaks(gate) == gate = "login" \/ (gate = "public" /\ mem.turned)

\* Broken authorization is reported where a second user is in fact shown what the
\* first one owns.  Nobody else is shown it, unless the edge turned the anonymous reader
\* away from that very record, which every comparison takes for the app's own gate: a
\* public record is then reported.  (idor_horizontal asks no anonymous reader, and a
\* record that everybody may read counts.)
CrossReadIsReal == verdict = "fired" =>
    /\ app.probe \in Cross => Leaks(Pair.gate)
    /\ app.probe = "collection" => Leaks(app.page) \/ (Leaks(Pair.gate) /\ app.owners >= 2)
    /\ app.probe = "idor" => Pair.gate # "owner"
    /\ app.probe \in Cross \cup {"collection"} /\ mem.turned => faults > 0

\* A lost write is reported when the app acknowledged a write and does not show
\* it, never because a read was guessed that the app does not have.
LossIsReal == verdict = "fired" /\ ~mem.turned =>
    /\ app.probe = "durable" => ~Pair.keeps \/ (Pair.observed /\ ~Pair.byId)
    /\ app.probe = "list" => ~Pair.keeps \/ ~Pair.fresh

\* With every request answered, a create that only wants its fields in a type
\* that is tried is made, and a write that is lost is noticed unless a stranger's write
\* moves the list (_accepted_create).
CreatesAreAccepted == verdict # "none" /\ app.probe = "list" /\ faults = 0 =>
    \A n \in 1 .. Len(app.pairs) :
      app.pairs[n].records /\ app.pairs[n].wants # "nothing" /\ app.pairs[n].says /\ app.pairs[n].fresh => mem.tested

\* A race is reported when the app hands out ids in two steps, or has one record
\* for all, and showed the same id in as many bursts as are asked for; a server
\* is said to fall over when most bursts failed.
RaceIsReal == verdict = "fired" =>
    /\ app.probe = "race" => app.ids \in {"racy", "one"} /\ mem.bad >= Need
    /\ app.probe = "load" => app.capacity < Creates \/ 2 * faults > Bursts

\* However the creates of a burst interleave, the probe comes to a verdict.
Decides == <>(verdict # "none")

TypeOK == /\ at \in {"start", "own", "anon", "other", "browsers", "create", "accepted", "after", "rendered",
                     "burst", "end"}
          /\ (at = "end") = (verdict # "none")
          /\ mem.tries \in 0 .. Tries /\ mem.burst \in 0 .. Bursts /\ mem.bad \in 0 .. mem.burst
          /\ mem.n \in 1 .. Len(app.pairs) + 1
          /\ mem.counter \in 1 .. Creates * Bursts + 1 /\ faults \in 0 .. Faults
          /\ \A c \in 1 .. Creates : th[c].pc = "off" => th[c] = Quiet

-----------------------------------------------------------------------------
(* The inductive invariant of the proof in ProbesProofs.                     *)

\* Who may read a record, how ids are handed out, how much is too much.
Held == /\ at # "end" => verdict = "none"
        /\ Len(app.pairs) \in Nat
        /\ app.probe \in Cross \cup {"collection"} => \A n \in 1 .. Len(app.pairs) : app.pairs[n].gate \in {"public", "login", "owner"}
        /\ app.probe = "race" => app.ids \in {"atomic", "racy", "one", "hidden"}
        /\ app.probe = "load" => app.capacity \in Nat

\* What a probe holds on the way, and the creates of a burst.
Holds(m) == /\ DOMAIN m = {"n", "tested", "turned", "tries", "body", "counter", "burst", "bad", "seen"}
            /\ m.n \in Nat \ {0} /\ m.bad \in Nat /\ m.burst \in Nat /\ m.counter \in Nat \ {0}
Requests == [1 .. Creates -> [pc : {"off", "read", "write", "done"}, id : Nat]]

\* What was asked before: a stranger was, and a record that was guessed is there.
CrossMet == app.probe \in Cross => /\ at \in {"anon", "other"} => ~NoMore
                                   /\ at = "other" => Pair.gate # "public" \/ mem.turned
PairMet  == app.probe = "durable" /\ at = "create" => Pair.observed \/ Pair.byId

\* Each create of an app that hands out ids in one step has one of its own.
RaceMet == app.probe = "race" =>
               /\ app.ids = "hidden" => \A c \in 1 .. Creates : th[c].id = 0
               /\ app.ids = "atomic" => /\ \A c \in 1 .. Creates : th[c].id < mem.counter /\ th[c].pc # "write"
                                        /\ ~Collided
               /\ mem.bad > 0 => app.ids \in {"racy", "one"}
TurnedMet == app.probe \in Cross \cup {"collection"} /\ mem.turned => faults > 0
LoadMet == app.probe = "load" /\ app.capacity >= Creates => mem.bad <= faults

Met == Holds(mem) /\ faults \in Nat /\ th \in Requests /\ CrossMet /\ PairMet /\ RaceMet /\ LoadMet /\ TurnedMet

RecordInv == Held /\ (at # "end" => Met) /\ CrossReadIsReal /\ LossIsReal /\ RaceIsReal
=============================================================================
