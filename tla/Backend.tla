------------------------------- MODULE Backend -------------------------------
(***************************************************************************)
(* The probes of probes.py that read what an app leaves open: the tables,   *)
(* collections and buckets of the backend its client names, bulk records, a *)
(* filter that takes metacharacters, and files.  Each walks a list of       *)
(* candidates that is cut at some length; a request may be lost, or turned  *)
(* away by what stands in front of the host.                               *)
(***************************************************************************)
EXTENDS Integers, Sequences, FiniteSets

CONSTANTS
    Apps,   \* the apps and the probe that is run on each, see MCProbes
    Keys,   \* keys[:3]
    Cut,    \* cand[:20], tables[:16]: candidates that are tried with one key
    Guess,  \* tables[:6]: candidates of a write that should be rejected
    Pool,   \* _EXPOSURE_POOL
    Faults  \* bound: requests that are lost or turned away

VARIABLES
    app,    \* the probe and the app
    at,     \* where the probe is
    mem,    \* what it holds
    th,     \* the files in flight: a set
    faults, \* history: faults so far
    verdict

vars == <<app, at, mem, th, faults, verdict>>

Init == /\ app \in Apps
        /\ at = "start"
        /\ mem = [key |-> 1, left |-> <<>>, reached |-> FALSE, turned |-> FALSE, hit |-> 0, heard |-> FALSE]
        /\ th = {} /\ faults = 0 /\ verdict = "none"

Is(probes, pc) == app.probe \in probes /\ at = pc
Go(pc)    == at' = pc /\ verdict' = verdict
End(v)    == at' = "end" /\ verdict' = v
Keep      == mem' = mem
Came      == faults' = faults
Loss      == faults < Faults /\ faults' = faults + 1
Fire(c)   == End("fired") /\ mem' = [mem EXCEPT !.hit = c, !.reached = TRUE, !.heard = TRUE]
Either(m) == IF m.reached THEN "clean" ELSE "na"

Elements(s) == {s[n] : n \in DOMAIN s}
First(s, n) == SubSeq(s, 1, IF Len(s) < n THEN Len(s) ELSE n)

\* The key in hand is one this host knows.
Known == mem.key = app.good
\* What a candidate is: a table, a collection, a bucket, a path, a parameter, a file.
What(c) == app.is[c]
Head1   == Head(mem.left)
Next1   == [mem EXCEPT !.left = Tail(@)]

-----------------------------------------------------------------------------
(* exposed_backend_readable: for each key insert into, then for each key       *)
(* select from every table; then what else the client names.                *)

Hosted == {"baas", "authed", "schema", "bucket"}

\* _supabase_base: without a backend in the client, or a key, there is nothing to read.
Mine == /\ Is(Hosted, "start")
        /\ CASE ~app.embedded /\ ~app.other.embedded -> End("na")
             [] ~app.embedded /\ app.other.embedded  -> Go("other")
             [] OTHER -> CASE app.probe = "baas"   -> Go("insert root")
                           [] app.probe = "authed" -> Go("other")
                           [] app.probe = "schema" -> IF app.keys = 0 THEN End("na") ELSE Go("schema root")
                           [] app.probe = "bucket" -> IF app.keys = 0 THEN End("na") ELSE Go("list root")
        /\ UNCHANGED <<app, mem, th, faults>>

\* _supabase_candidate_tables: what the server discloses, then what is guessed.
Candidates(disclosed) == First(disclosed \o SelectSeq(app.mined, LAMBDA t : t \notin Elements(disclosed)), Cut)

\* The root of the backend lists its tables to a key it knows.
Root(stage, root, after) ==
    /\ at = root
    /\ \E heard \in BOOLEAN :
         /\ IF heard THEN Came ELSE Loss
         /\ LET disclosed == IF heard /\ Known THEN app.disclosed ELSE <<>>
            IN  IF mem.key > Keys \/ mem.key > app.keys
                THEN heard /\ Go(after) /\ mem' = [mem EXCEPT !.key = 1, !.left = <<>>]
                ELSE /\ Go(stage)
                     /\ mem' = [mem EXCEPT !.left = Candidates(disclosed),
                                           !.reached = @ \/ (stage = "select" /\ Elements(disclosed) \ Elements(app.mined) # {}),
                                           !.heard = @ \/ (heard /\ stage = "select" /\ disclosed # <<>>)]
    /\ UNCHANGED <<app, th>>

InsertRoot == Is({"baas"}, "insert root") /\ Root("insert", "insert root", "select root")
SelectRoot == Is({"baas"}, "select root") /\ Root("select", "select root", "other")

NextKey(root) == Go(root) /\ mem' = [mem EXCEPT !.key = @ + 1]

\* _supabase_anon_writable: an empty row that only a constraint rejects has passed.
Insert == /\ Is({"baas"}, "insert")
          /\ IF mem.left = <<>> THEN NextKey("insert root") /\ Came
             ELSE \/ Loss /\ Go(at) /\ mem' = Next1
                  \/ Came /\ IF Known /\ What(Head1).inserts THEN Fire(Head1) ELSE Go(at) /\ mem' = Next1
          /\ UNCHANGED <<app, th>>

\* _supabase_readable: rows for a stranger, with a column that is private.
Select == /\ Is({"baas"}, "select")
          /\ IF mem.left = <<>> THEN NextKey("select root") /\ Came
             ELSE \/ Loss /\ Go(at) /\ mem' = Next1
                  \/ Loss /\ Go(at) /\ mem' = [Next1 EXCEPT !.reached = TRUE, !.heard = TRUE, !.turned = TRUE]
                  \/ /\ Came
                     /\ IF Known /\ What(Head1).anon /\ What(Head1).column THEN Fire(Head1)
                        ELSE Go(at) /\ mem' = [Next1 EXCEPT !.reached = TRUE, !.heard = TRUE]
          /\ UNCHANGED <<app, th>>

\* Mutant: a database that cannot be reached is one that protects.
BugOther == /\ Is({"baas"}, "other")
            /\ \/ Loss /\ End("clean") /\ Keep
               \/ /\ Came
                  /\ IF app.other.embedded /\ What(app.other.is).anon /\ What(app.other.is).column THEN Fire(app.other.is)
                     ELSE /\ mem' = [mem EXCEPT !.reached = @ \/ app.other.embedded, !.heard = @ \/ app.other.embedded]
                          /\ End(Either(mem'))
            /\ UNCHANGED <<app, th>>

\* _firebase_readable, _firestore_readable.
Other == /\ Is({"baas"}, "other")
         /\ \/ Loss /\ app.other.embedded /\ End(Either(mem)) /\ Keep
            \/ /\ Came
               /\ IF app.other.embedded /\ What(app.other.is).anon /\ What(app.other.is).column THEN Fire(app.other.is)
                  ELSE /\ mem' = [mem EXCEPT !.reached = @ \/ app.other.embedded, !.heard = @ \/ app.other.embedded]
                       /\ End(Either(mem'))
         /\ UNCHANGED <<app, th>>

-----------------------------------------------------------------------------
(* authenticated_backend_readable: what a stranger is not shown and a fresh   *)
(* user is.  Its first key is the one it has.                              *)

\* A private look: the name or a column (_sensitive_leak).
Private(c) == What(c).column \/ What(c).name

\* A lost answer skips the candidate; a stranger's answer that something in front of
\* the host gave is taken for a refusal.
Differ(c, foreign, on) ==
    \/ Loss /\ on
    \/ /\ Loss /\ What(c).user \in foreign /\ Private(c)
       /\ End("fired") /\ mem' = [mem EXCEPT !.hit = c, !.turned = TRUE, !.reached = TRUE, !.heard = TRUE]
    \/ /\ Came
       /\ IF ~What(c).anon /\ What(c).user \in foreign /\ Private(c) THEN Fire(c) ELSE on

\* Firestore: an anonymous user is a user.  A rule per user refuses a whole list, so
\* whatever she is shown counts.
Documents == /\ Is({"authed"}, "other")
             /\ LET on == Go("sign up") /\ mem' = [mem EXCEPT !.reached = TRUE, !.heard = TRUE]
                IN  IF ~app.other.embedded \/ ~app.signup THEN Go("sign up") /\ Keep /\ Came
                    ELSE Differ(app.other.is, {"all"}, on) \/ (Loss /\ Go("sign up") /\ Keep)
             /\ UNCHANGED <<app, th>>

\* Supabase: a throwaway user, then the tables its root discloses.
SignUp == /\ Is({"authed"}, "sign up")
          /\ IF ~app.embedded \/ app.keys = 0 \/ ~Known \/ ~app.signup
             THEN End(Either(mem)) /\ Keep /\ Came
             ELSE \/ Loss /\ End(Either(mem)) /\ Keep
                  \/ \E disclosed \in {<<>>, app.disclosed} :
                       /\ IF disclosed = app.disclosed THEN Came ELSE Loss
                       /\ Go("tables") /\ mem' = [mem EXCEPT !.left = Candidates(disclosed)]
          /\ UNCHANGED <<app, th>>

\* _supabase_authed_only, _foreign_rows: rows that are not her own.
Tables == /\ Is({"authed"}, "tables")
          /\ IF mem.left = <<>> THEN End(Either(mem)) /\ Keep /\ Came
             ELSE \/ Loss /\ Go(at) /\ mem' = Next1
                  \/ Differ(Head1, {"all"}, Go(at) /\ mem' = [Next1 EXCEPT !.reached = TRUE, !.heard = TRUE])
          /\ UNCHANGED <<app, th>>

-----------------------------------------------------------------------------
(* backend_schema_disclosed, storage_bucket_listable.                       *)

\* The root that lists tables is the finding; whether anything answers is not kept.
SchemaRoot == /\ Is({"schema"}, "schema root")
              /\ IF mem.key > Keys \/ mem.key > app.keys THEN End("clean") /\ Keep /\ Came
                 ELSE LET on == Go("schema") /\ mem' = [mem EXCEPT !.left = First(First(app.mined, Cut), Guess)]
                      IN  \/ Loss /\ on
                          \/ Came /\ IF Known /\ app.disclosed # <<>> THEN Fire(Head(app.disclosed)) ELSE on
              /\ UNCHANGED <<app, th>>

\* A write that is rejected with the names of columns.
Rejected == /\ Is({"schema"}, "schema")
            /\ IF mem.left = <<>> THEN NextKey("schema root") /\ Came
               ELSE \/ Loss /\ Go(at) /\ mem' = Next1
                    \/ Came /\ IF Known /\ What(Head1).inserts THEN Fire(Head1)
                               ELSE Go(at) /\ mem' = [Next1 EXCEPT !.heard = TRUE]
            /\ UNCHANGED <<app, th>>

ListRoot == /\ Is({"bucket"}, "list root")
            /\ IF mem.key > Keys \/ mem.key > app.keys THEN End(Either(mem)) /\ Keep
               ELSE Go("list") /\ mem' = [mem EXCEPT !.left = First(app.mined, Cut)]
            /\ UNCHANGED <<app, th, faults>>

\* A bucket that lists paths of users, or has a private name.
Bucket == /\ Is({"bucket"}, "list")
          /\ IF mem.left = <<>> THEN NextKey("list root") /\ Came
             ELSE \/ Loss /\ Go(at) /\ mem' = Next1
                  \/ Came /\ IF Known /\ What(Head1).anon /\ Private(Head1) THEN Fire(Head1)
                             ELSE Go(at) /\ mem' = [Next1 EXCEPT !.reached = TRUE, !.heard = TRUE]
          /\ UNCHANGED <<app, th>>

-----------------------------------------------------------------------------
(* anon_bulk_data_exposed, filter_injection: paths and parameters.           *)

Listed == /\ Is({"bulk", "filter"}, "start")
          /\ IF app.mined = <<>> THEN End("na") /\ Keep
             ELSE Go("each") /\ mem' = [mem EXCEPT !.left = First(app.mined, Cut)]
          /\ UNCHANGED <<app, th, faults>>

\* A path refuses, is not there, or shows records: of users, of a directory, few, or
\* with a credential that another probe reports.
Bulk == /\ Is({"bulk"}, "each")
        /\ IF mem.left = <<>> THEN End(Either(mem)) /\ Keep /\ Came
           ELSE \/ Loss /\ Go(at) /\ mem' = Next1
                \/ Loss /\ Go(at) /\ mem' = [Next1 EXCEPT !.reached = TRUE, !.heard = TRUE, !.turned = TRUE]
                \/ /\ Came
                   /\ CASE What(Head1).shows = "users" -> Fire(Head1)
                        [] What(Head1).shows = "none"  -> Go(at) /\ mem' = Next1
                        [] OTHER -> Go(at) /\ mem' = [Next1 EXCEPT !.reached = TRUE, !.heard = TRUE]
        /\ UNCHANGED <<app, th>>

\* A baseline without the grammar of a filter, and a comma that brings it out.
Filter == /\ Is({"filter"}, "each")
          /\ IF mem.left = <<>> THEN End(Either(mem)) /\ Keep /\ Came
             ELSE \/ Loss /\ Go(at) /\ mem' = Next1
                  \/ Loss /\ Go(at) /\ mem' = IF What(Head1).shows = "always" THEN Next1
                                              ELSE [Next1 EXCEPT !.reached = TRUE, !.heard = TRUE]
                  \/ /\ Came
                     /\ CASE What(Head1).shows = "on a comma" -> Fire(Head1)
                          [] What(Head1).shows = "always" -> Go(at) /\ mem' = Next1
                          [] OTHER -> Go(at) /\ mem' = [Next1 EXCEPT !.reached = TRUE, !.heard = TRUE]
          /\ UNCHANGED <<app, th>>

-----------------------------------------------------------------------------
(* exposed_sensitive_file: independent requests in a pool, the first hit wins. *)

Files == /\ Is({"files"}, "start")
         /\ Go("pool") /\ mem' = [mem EXCEPT !.left = app.mined]
         /\ UNCHANGED <<app, th, faults>>

Refill == /\ Is({"files"}, "pool")
          /\ mem.left # <<>> /\ Cardinality(th) < Pool
          /\ th' = th \cup {Head1} /\ mem' = Next1
          /\ UNCHANGED <<app, at, faults, verdict>>

\* Its content proves it, the body is not the shell of every path, and no probe that
\* reads routes reports it (_claimed_by_a_routes_probe).
Served(c) == What(c).shows = "secret" /\ ~(What(c).route /\ What(c).claimed)

\* An answer of the pool, in any order.
File == /\ Is({"files"}, "pool")
        /\ th # {} /\ (mem.left = <<>> \/ Cardinality(th) = Pool)
        /\ \E c \in th :
             \/ Loss /\ Go(at) /\ Keep /\ th' = th \ {c}
             \/ /\ Came
                /\ IF Served(c) THEN Fire(c) /\ th' = {}
                   ELSE Go(at) /\ mem' = [mem EXCEPT !.reached = TRUE, !.heard = TRUE] /\ th' = th \ {c}
        /\ UNCHANGED app

PoolEnds == /\ Is({"files"}, "pool")
            /\ th = {} /\ mem.left = <<>>
            /\ End(Either(mem))
            /\ UNCHANGED <<app, mem, th, faults>>

-----------------------------------------------------------------------------
Next == \/ Mine \/ InsertRoot \/ SelectRoot \/ Insert \/ Select \/ Other
        \/ Documents \/ SignUp \/ Tables \/ SchemaRoot \/ Rejected \/ ListRoot \/ Bucket
        \/ Listed \/ Bulk \/ Filter \/ Files \/ Refill \/ File \/ PoolEnds

\* Every request has a timeout.
Spec == Init /\ [][Next]_vars /\ WF_vars(Next)

-----------------------------------------------------------------------------
\* The candidates of an app that show what they should not.
Exposed(c) ==
    CASE app.probe \in {"baas"}   -> What(c).inserts \/ (What(c).anon /\ What(c).column)
      [] app.probe = "authed"     -> ~What(c).anon /\ Private(c) /\ What(c).user = "all"
      [] app.probe = "schema"     -> What(c).inserts \/ app.disclosed # <<>>
      [] app.probe = "bucket"     -> What(c).anon /\ Private(c)
      [] app.probe = "bulk"       -> What(c).shows = "users"
      [] app.probe = "filter"     -> What(c).shows = "on a comma"
      [] app.probe = "files"      -> What(c).shows = "secret" /\ ~(What(c).route /\ What(c).claimed)

\* A policy per user, a public catalogue, a filter's name in every answer and a
\* file that another probe reports never fire, whatever is lost, except that a
\* stranger who is turned away in front of the host makes an open table look
\* like one that users may read (authenticated_backend_readable).
FiredIsReal == verdict = "fired" => Exposed(mem.hit) \/ (app.probe = "authed" /\ mem.turned /\ What(mem.hit).user = "all")

\* With every request answered, what is exposed is found, when a key the host
\* knows is among the keys that are used and the candidate is among those that
\* are tried: the tables a server discloses are tried before the guessed ones
\* (_supabase_candidate_tables).
Tried == IF app.probe \in {"baas", "authed"} /\ app.embedded
         THEN Elements(IF app.disclosed = <<>> THEN First(app.mined, Cut) ELSE First(app.disclosed, Cut))
         ELSE Elements(First(app.mined, IF app.probe = "schema" THEN Guess ELSE IF app.probe = "files" THEN Len(app.mined) ELSE Cut))
NoExposureIsLost ==
    verdict \in {"clean", "na"} /\ faults = 0 =>
    \A c \in Tried : Exposed(c) => \/ app.probe \in Hosted /\ ~app.embedded
                                   \/ app.probe \in Hosted /\ app.good \notin 1 .. (IF app.keys < Keys THEN app.keys ELSE Keys)
                                   \/ app.probe = "authed" /\ (app.good # 1 \/ ~app.signup)

\* "Clean" is an answer: something of the host was heard, or something in front of it.
CleanWasHeard == verdict = "clean" /\ app.probe # "schema" => mem.heard

\* Every walk ends.
Decides == <>(verdict # "none")

TypeOK == /\ (at = "end") = (verdict # "none")
          /\ mem.key \in 1 .. Keys + 1 /\ Len(mem.left) <= Len(app.mined) + Len(app.disclosed)
          /\ Cardinality(th) <= Pool /\ (app.probe # "files" => Len(mem.left) <= Cut)
          /\ mem.hit \in 0 .. Len(app.is) /\ (verdict = "fired") = (mem.hit # 0)
          /\ faults \in 0 .. Faults

-----------------------------------------------------------------------------
(* The inductive invariant of the proofs in ProbesProofs.                    *)

\* What a candidate was reached of was heard.
HeardInv == /\ DOMAIN mem = {"key", "left", "reached", "turned", "hit", "heard"}
            /\ mem.reached \in BOOLEAN /\ mem.heard \in BOOLEAN
            /\ mem.reached => mem.heard
            /\ at # "end" => verdict = "none"

BackendInv == HeardInv /\ FiredIsReal /\ CleanWasHeard
=============================================================================
