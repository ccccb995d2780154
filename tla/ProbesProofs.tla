---------------------------- MODULE ProbesProofs ----------------------------
(***************************************************************************)
(* Proofs about the probes: a family never accuses an app that does nothing *)
(* of what it is accused of, for every number of threads, payloads, keys,   *)
(* trials and faults, and clean is said only by a probe that looked.  Each  *)
(* family is proved to keep its own invariant; the theorems put them        *)
(* together for MCProbes.                                                  *)
(***************************************************************************)
EXTENDS MCProbes, SequenceTheorems, FiniteSetTheorems, TLAPS

-----------------------------------------------------------------------------
(* The injection probes (Injection).                                        *)

\* What the apps with sinks have in common.
LEMMA InjectionApp ==
    ASSUME app \in InjectionApps
    PROVE  /\ Len(app.targets) \in Nat /\ app.probe \in {"sqli", "cmd", "ssti", "lfi"}
           /\ \A n \in 1 .. Len(app.targets) :
                  /\ Len(app.targets[n].sinks) \in Nat
                  /\ app.probe \in {"cmd", "ssti"} => app.targets[n].voice # "errs"
                  /\ app.probe = "lfi" /\ app.targets[n].json =>
                         \E m \in 1 .. Len(app.targets) : app.targets[m].gate \notin {"phantom", "login"}
<1> DEFINE Sound(p, V) ==
             /\ Len(app.targets) \in {1, 2} /\ app.probe = p
             /\ \A n \in 1 .. Len(app.targets) : Len(app.targets[n].sinks) \in Nat /\ app.targets[n].voice \in V \cup {"still"}
             /\ (\A n \in 1 .. Len(app.targets) : ~app.targets[n].json) \/ \E m \in 1 .. Len(app.targets) : app.targets[m].gate = "open"
<1>1. ASSUME NEW p, NEW V, NEW K, NEW j, app \in SinkApps(p, V, K, j) PROVE Sound(p, V)
  <2>1. CASE app \in OpenApps(p, V, K, j)
    <3>1. PICK v \in V, a \in K : app = Visit(p, Cap, Alone(v, j, a)) BY <2>1 DEF OpenApps
    <3>2. app.probe = p /\ app.targets = Alone(v, j, a) BY <3>1 DEF Visit
    <3>3. /\ Len(Alone(v, j, a)) = 1 /\ Len(Alone(v, j, a)[1].sinks) = 2
          /\ Alone(v, j, a)[1].voice = v /\ Alone(v, j, a)[1].gate = "open"
      BY DEF Alone, Page
    <3> QED BY <3>2, <3>3
  <2>2. CASE app \in BehindApps(p, K, j)
    <3>1. PICK g \in {"login", "sick", "proxy", "stream", "phantom"}, a \in K : app = Visit(p, Cap, Behind(g, j, a))
      BY <2>2 DEF BehindApps
    <3>2. app.probe = p /\ app.targets = Behind(g, j, a) BY <3>1 DEF Visit
    <3>3. /\ Len(Behind(g, j, a)) = 2 /\ Len(Behind(g, j, a)[1].sinks) = 1 /\ Len(Behind(g, j, a)[2].sinks) = 2
          /\ Behind(g, j, a)[1].voice = "still" /\ Behind(g, j, a)[2].voice = "still" /\ Behind(g, j, a)[2].gate = "open"
      BY DEF Behind, Page
    <3> QED BY <3>2, <3>3
  <2>3. CASE app \in CappedApps(p)
    <3>1. PICK g \in {"open", "phantom"} : app = Visit(p, Cap \div 3, Plain(g)) BY <2>3 DEF CappedApps
    <3>2. app.probe = p /\ app.targets = Plain(g) BY <3>1 DEF Visit
    <3>3. Len(Plain(g)) = 1 /\ Len(Plain(g)[1].sinks) = 2 /\ Plain(g)[1].voice = "still" BY DEF Plain, Page
    <3>4. PICK no : no = FALSE OBVIOUS
    <3>5. Plain(g) = <<[gate |-> g, voice |-> "still", json |-> no, sinks |-> <<0, 0>>]>> BY <3>4, Zenon DEF Plain, Page
    <3>6. Plain(g)[1].json = no BY <3>5
    <3>7. ~Plain(g)[1].json BY <3>4, <3>6, Zenon
    <3> QED BY <3>2, <3>3, <3>7
  <2> QED BY <1>1, <2>1, <2>2, <2>3 DEF SinkApps
<1> HIDE DEF Sound
<1>2. CASE app \in SinkApps("sqli", {"still", "echo", "places", "search", "moody", "errs"}, {0, 1, 2, 3, 4}, FALSE)
  <2>1. Sound("sqli", {"still", "echo", "places", "search", "moody", "errs"}) BY <1>1, <1>2, Zenon
  <2> QED BY <2>1 DEF Sound
<1>3. CASE app \in SinkApps("cmd", {"still"}, {0, 1, 2, 4}, TRUE)
  <2>1. Sound("cmd", {"still"}) BY <1>1, <1>3, Zenon
  <2> QED BY <2>1 DEF Sound
<1>4. CASE app \in SinkApps("ssti", {"still"}, {0, 2}, TRUE)
  <2>1. Sound("ssti", {"still"}) BY <1>1, <1>4, Zenon
  <2> QED BY <2>1 DEF Sound
<1>5. CASE app \in SinkApps("lfi", {"still", "errs"}, {0, 1, 2}, TRUE)
  <2>1. Sound("lfi", {"still", "errs"}) BY <1>1, <1>5, Zenon
  <2> QED BY <2>1 DEF Sound
<1>6. app \in SinkApps("sqli", {"still", "echo", "places", "search", "moody", "errs"}, {0, 1, 2, 3, 4}, FALSE)
          \cup SinkApps("cmd", {"still"}, {0, 1, 2, 4}, TRUE)
          \cup SinkApps("ssti", {"still"}, {0, 2}, TRUE)
          \cup SinkApps("lfi", {"still", "errs"}, {0, 1, 2}, TRUE)
  BY Zenon DEF InjectionApps
<1> QED BY <1>2, <1>3, <1>4, <1>5, <1>6, Zenon

\* Nothing has been asked at the start.
LEMMA InjectionInit == I!Init => I!InjectionInv
<1> SUFFICES ASSUME I!Init PROVE I!InjectionInv OBVIOUS
<1>1. I!Held BY InjectionApp DEF I!Init, I!Held
<1>2. PICK t : t = FALSE OBVIOUS
<1>3. mem = [n |-> 1, benign |-> 0, budget |-> Attempts, tested |-> t, queue |-> <<>>, deep |-> <<>>,
             trial |-> 1, hit |-> I!NoSpec, advisory |-> t]
  BY <1>2, Zenon DEF I!Init
<1>4. I!Holds(mem)
  <2>1. t \in BOOLEAN BY <1>2, Zenon
  <2>2. Attempts \in Nat BY ProbesAssumption DEF ProbesAssumption
  <2> QED BY <1>3, <2>1, <2>2 DEF I!Holds
<1>5. th \in I!Threads BY DEF I!Init, I!Threads, I!Free, I!Thread, I!NoSpec, I!Ended
<1>6. I!Placed BY <1>3 DEF I!Init, I!Placed, I!Idle, I!Free, I!Thread
<1>7. I!OracleInv /\ I!DoseInv BY DEF I!Init, I!OracleInv, I!DoseInv
<1>8. I!GateInv
  <2>1. at = "target" BY DEF I!Init
  <2>2. ~mem.tested
    <3>1. mem.tested = t BY <1>3
    <3> QED BY <1>2, <3>1, Zenon
  <2> QED BY <2>1, <2>2 DEF I!GateInv
<1>9. I!FiredIsReal /\ I!UntestedIsNotClean BY DEF I!Init, I!FiredIsReal, I!UntestedIsNotClean
<1> QED BY <1>1, <1>4, <1>5, <1>6, <1>7, <1>8, <1>9 DEF I!InjectionInv, I!Met

\* What a field without the sink answers: nothing of what the oracle looks for, unless every
\* page shows it, and as long as the page's voice makes it.
LEMMA InnocentAnswers ==
    ASSUME NEW spec \in I!Shots(I!Target), spec[1] \notin I!Sinks(I!Target), NEW ask, NEW last,
           NEW ans \in I!Answers(I!Target, spec, ask, last)
    PROVE  /\ ans.sig => I!Target.voice = "errs"
           /\ I!Target.voice = "errs" => ans.sig
           /\ ans.size \in I!Sizes(I!Target, ask, last)
<1>1. spec[1] \in 1 .. Len(I!Target.sinks) /\ spec[2] \in {1, 2} BY DEF I!Shots
<1>2. PICK sink : sink = I!Target.sinks[spec[1]] OBVIOUS
<1>3. ~I!Reaches(sink, spec, ask)
  <2>1. CASE app.probe = "sqli" BY <1>1, <1>2, <2>1 DEF I!Sinks, I!Reaches
  <2>2. CASE app.probe = "cmd" BY <1>1, <1>2, <2>2 DEF I!Sinks, I!Reaches
  <2>3. CASE app.probe \notin {"sqli", "cmd"} BY <1>1, <1>2, <2>3 DEF I!Sinks, I!Reaches
  <2> QED BY <2>1, <2>2, <2>3
<1>4. app.probe = "sqli" => sink # 3 BY <1>1, <1>2 DEF I!Sinks
<1>5. PICK b : b = (I!Reaches(sink, spec, ask) \/ I!Target.voice = "errs") OBVIOUS
<1>6. ans \in {[sig |-> b, size |-> IF app.probe = "sqli" /\ sink = 3 /\ ask = "true" THEN 2 ELSE z] :
                 z \in I!Sizes(I!Target, ask, last)}
  BY <1>2, <1>5, Zenon DEF I!Answers
<1>7. PICK z \in I!Sizes(I!Target, ask, last) : ans = [sig |-> b, size |-> IF app.probe = "sqli" /\ sink = 3 /\ ask = "true" THEN 2 ELSE z]
  BY <1>6
<1>8. ans.sig = b /\ ans.size = z BY <1>4, <1>7
<1>9. (b => I!Target.voice = "errs") /\ (I!Target.voice = "errs" => b) BY <1>3, <1>5, Zenon
<1> QED BY <1>8, <1>9, Zenon

\* A target is its own, and its sinks.
LEMMA InjectionTarget ==
    ASSUME app' = app, mem'.n = mem.n
    PROVE  I!Target' = I!Target /\ I!Sinks(I!Target)' = I!Sinks(I!Target) /\ I!Shots(I!Target)' = I!Shots(I!Target)
<1>1. I!Target' = I!Target BY DEF I!Target
<1> QED BY <1>1 DEF I!Sinks, I!Shots

\* A reply is in character, or the one fault that a plain page's oracle stands.
LEMMA FairReply ==
    ASSUME faults \in Nat, app' = app, mem' = mem, I!Fair', NEW replies, NEW ans, I!Reply(replies, ans)
    PROVE  /\ I!Fair /\ faults' \in Nat
           /\ \/ ans \in replies /\ faults' = faults /\ (faults = 0 \/ I!Target.voice = "still")
              \/ ans \in I!Garbled \cup {I!Lost} /\ faults = 0 /\ faults' = 1 /\ I!Target.voice = "still"
<1>1. I!Target' = I!Target BY InjectionTarget
<1>2. faults' = 0 \/ (faults' = 1 /\ I!Target.voice = "still") BY <1>1 DEF I!Fair
<1> QED BY <1>2 DEF I!Reply, I!Fair

\* What the sizes are, by voice.
LEMMA InnocentSizes ==
    ASSUME NEW t, NEW ask, NEW last, NEW z \in I!Sizes(t, ask, last)
    PROVE  /\ z \in {0, 1, 2}
           /\ t.voice = "echo" => z = (IF ask \in {"base", "A"} THEN 0 ELSE 1)
           /\ t.voice \notin {"echo", "places", "search", "moody"} => z = 0
           /\ t.voice # "echo" /\ ask \notin {"quote1", "quote2", "true", "false"} => z = 0
           /\ t.voice = "moody" /\ ask \in {"quote1", "quote2", "true", "false"} => z # last
           /\ t.voice = "places" /\ ask = "false" => z = 2
           /\ t.voice = "search" /\ ask = "false" => z = 1
  BY DEF I!Sizes, I!Quoted

\* What comes in answer to a payload in a field without the sink.
LEMMA InnocentReply ==
    ASSUME faults \in Nat, app' = app, mem' = mem, I!Fair',
           NEW x, x.spec \in I!Shots(I!Target), I!Innocent(x), NEW ask, NEW last,
           NEW ans, I!Reply(I!Answers(I!Target, x.spec, ask, last), ans)
    PROVE  \/ /\ faults' = faults /\ (faults = 0 \/ I!Target.voice = "still")
              /\ ans.size \in I!Sizes(I!Target, ask, last) /\ ans # I!Lost
              /\ (ans.sig => I!Target.voice = "errs") /\ (I!Target.voice = "errs" => ans.sig)
           \/ /\ faults = 0 /\ faults' = 1 /\ I!Target.voice = "still" /\ (ans = I!Lost \/ ans.size \in {0, 2, 3})
              /\ app.probe \in {"cmd", "ssti"} => ~ans.sig
<1>1. CASE ans \in I!Answers(I!Target, x.spec, ask, last) /\ faults' = faults /\ (faults = 0 \/ I!Target.voice = "still")
  <2>1. (ans.sig => I!Target.voice = "errs") /\ (I!Target.voice = "errs" => ans.sig) /\ ans.size \in I!Sizes(I!Target, ask, last)
    BY <1>1, InnocentAnswers DEF I!Innocent
  <2>2. ans.size \in {0, 1, 2} BY <2>1, InnocentSizes
  <2>3. ans # I!Lost
    <3>1. PICK b : b = FALSE OBVIOUS
    <3>2. I!Lost = [sig |-> b, size |-> -1] BY <3>1, Zenon DEF I!Lost
    <3>3. I!Lost.size = -1 BY <3>2
    <3> QED BY <2>2, <3>3
  <2> QED BY <1>1, <2>1, <2>3
<1>2. CASE ans \in I!Garbled \cup {I!Lost} /\ faults = 0 /\ faults' = 1 /\ I!Target.voice = "still"
  <2>1. CASE ans = I!Lost
    <3>1. ~ans.sig BY <2>1, Zenon DEF I!Lost
    <3> QED BY <1>2, <2>1, <3>1
  <2>2. CASE ans \in I!Garbled
    <3>1. ans.size \in {0, 2, 3} BY <2>2 DEF I!Garbled
    <3>2. ASSUME app.probe \in {"cmd", "ssti"} PROVE ~ans.sig
      <4>1. ans.sig \in {FALSE} BY <2>2, <3>2 DEF I!Garbled
      <4> QED BY <4>1, Zenon
    <3> QED BY <1>2, <3>1, <3>2
  <2> QED BY <1>2, <2>1, <2>2
<1> QED BY <1>1, <1>2, FairReply

\* A payload's oracle that is asked of a field without the sink: no answer, and no fault
\* that it stands, convinces it.
LEMMA FileOracle ==
    ASSUME faults \in Nat, app' = app, mem' = mem, I!Fair', app.probe = "lfi",
           NEW x, x.spec \in I!Shots(I!Target), x.pc \in I!Questions, I!Innocent(x), I!Unmoved(x),
           NEW ans, I!Reply(I!Answers(I!Target, x.spec, I!Text(x.pc), x.r), ans),
           NEW y, y.pc = I!Then(x.pc, x.r, ans)
    PROVE  I!Unmoved(y)'
<1>1. I!Target' = I!Target BY InjectionTarget
<1>2. y.pc = I!FileThen(x.pc, ans) /\ x.pc \in {"read", "canary", "readAgain"} BY DEF I!Then, I!Questions
<1>3. \/ /\ faults' = faults /\ (faults = 0 \/ I!Target.voice = "still") /\ ans # I!Lost
         /\ (ans.sig => I!Target.voice = "errs") /\ (I!Target.voice = "errs" => ans.sig)
      \/ faults = 0 /\ faults' = 1 /\ I!Target.voice = "still"
  BY InnocentReply
<1>4. PICK sig, lost \in BOOLEAN : (sig => ans.sig) /\ (ans.sig => sig) /\ (lost => ans = I!Lost) /\ (ans = I!Lost => lost)
  OBVIOUS
<1>5. x.pc = "read" => y.pc = (IF sig THEN "canary" ELSE "miss") BY <1>2, <1>4 DEF I!FileThen
<1>6. x.pc = "canary" => y.pc = (IF sig THEN "miss" ELSE IF lost THEN "hit" ELSE "readAgain") BY <1>2, <1>4 DEF I!FileThen
<1>7. x.pc = "readAgain" => y.pc = (IF sig \/ lost THEN "hit" ELSE "miss") BY <1>2, <1>4 DEF I!FileThen
<1>8. \/ /\ faults' = faults /\ (faults = 0 \/ I!Target.voice = "still") /\ ~lost
         /\ (sig => I!Target.voice = "errs") /\ (I!Target.voice = "errs" => sig)
      \/ faults = 0 /\ faults' = 1 /\ I!Target.voice = "still"
  BY <1>3, <1>4, Zenon
<1>9. CASE x.pc = "read" BY <1>1, <1>5, <1>8, <1>9 DEF I!Unmoved
<1>10. CASE x.pc = "canary"
  <2>1. faults = 1 \/ I!Target.voice = "errs" BY <1>10 DEF I!Unmoved
  <2>2. (sig \/ ~lost) /\ (sig \/ faults' = 1) BY <1>8, <2>1
  <2>3. y.pc = "miss" \/ (y.pc = "readAgain" /\ faults' = 1) BY <1>6, <1>10, <2>2
  <2> QED BY <2>3 DEF I!Unmoved
<1>11. CASE x.pc = "readAgain"
  <2>1. faults = 1 BY <1>11 DEF I!Unmoved
  <2>2. ~sig /\ ~lost BY <1>8, <2>1
  <2>3. y.pc = "miss" BY <1>7, <1>11, <2>2
  <2> QED BY <2>3 DEF I!Unmoved
<1> QED BY <1>2, <1>9, <1>10, <1>11

\* The same of the digest of a salt.
LEMMA HashOracle ==
    ASSUME faults \in Nat, app' = app, mem' = mem, I!Fair', app.probe \in {"cmd", "ssti"}, I!Target.voice # "errs",
           NEW x, x.spec \in I!Shots(I!Target), x.pc \in I!Questions, I!Innocent(x), I!Unmoved(x),
           NEW ans, I!Reply(I!Answers(I!Target, x.spec, I!Text(x.pc), x.r), ans),
           NEW y, y.pc = I!Then(x.pc, x.r, ans)
    PROVE  I!Unmoved(y)'
<1>1. ~ans.sig BY InnocentReply
<1>2. y.pc \in {"md5", "miss"} BY <1>1 DEF I!Then, I!HashThen
<1> QED BY <1>2 DEF I!Unmoved

\* The error oracle and the boolean one.
LEMMA SqlOracle ==
    ASSUME faults \in Nat, app' = app, mem' = mem, I!Fair', app.probe = "sqli", faults = 0 => mem.benign = 0,
           NEW x, x.spec \in I!Shots(I!Target), x.pc \in I!Questions, I!Innocent(x), I!Unmoved(x),
           NEW ans, I!Reply(I!Answers(I!Target, x.spec, I!Text(x.pc), x.r), ans),
           NEW y, y.pc = I!Then(x.pc, x.r, ans),
           x.pc \in {"A", "true", "trueMore"} => y.r = ans.size, x.pc \notin {"A", "true", "trueMore"} => y.r = x.r
    PROVE  I!Unmoved(y)'
<1> DEFINE voice == I!Target.voice
           sizes == I!Sizes(I!Target, I!Text(x.pc), x.r)
           errors == {"quote1", "quote2", "noise1", "noise2", "again1", "again2"}
<1>1. I!Target' = I!Target BY InjectionTarget
<1>2. PICK sig \in BOOLEAN : (sig => ans.sig) /\ (ans.sig => sig) OBVIOUS
<1>3. PICK z : z = ans.size OBVIOUS
<1>4. \/ /\ faults' = faults /\ (faults = 0 \/ voice = "still") /\ z \in sizes /\ (sig => voice = "errs") /\ (voice = "errs" => sig)
      \/ faults = 0 /\ faults' = 1 /\ voice = "still" /\ (ans = I!Lost \/ z \in {0, 2, 3})
  <2>1. \/ /\ faults' = faults /\ (faults = 0 \/ voice = "still") /\ z \in sizes
           /\ (ans.sig => voice = "errs") /\ (voice = "errs" => ans.sig)
        \/ faults = 0 /\ faults' = 1 /\ voice = "still" /\ (ans = I!Lost \/ z \in {0, 2, 3})
    BY <1>3, InnocentReply
  <2> QED BY <1>2, <2>1, Zenon
<1>5. \/ y.pc = "miss"
      \/ x.pc \in errors /\ y.pc = I!ErrorThen(x.pc, ans)
      \/ ans # I!Lost /\ x.pc \notin errors /\ y.pc = I!BooleanThen(x.pc, x.r, z)
  BY <1>3 DEF I!Then
<1>6. x.pc \in errors \cup {"A", "B", "true", "trueAgain", "false", "trueMore", "falseMore"} BY DEF I!Questions
<1>7. x.pc \notin {"trueMore", "falseMore"} BY DEF I!Unmoved, voice
<1>11. PICK ask : ask = I!Text(x.pc) OBVIOUS
<1>12. ASSUME z \in sizes
       PROVE  /\ voice = "echo" => z = (IF ask \in {"base", "A"} THEN 0 ELSE 1)
              /\ voice \notin {"echo", "places", "search", "moody"} => z = 0
              /\ voice # "echo" /\ ask \notin {"quote1", "quote2", "true", "false"} => z = 0
              /\ voice = "moody" /\ ask \in {"quote1", "quote2", "true", "false"} => z # x.r
              /\ voice = "places" /\ ask = "false" => z = 2
              /\ voice = "search" /\ ask = "false" => z = 1
  <2>1. z \in I!Sizes(I!Target, ask, x.r) BY <1>11, <1>12
  <2>2. PICK t : t = I!Target OBVIOUS
  <2>3. z \in I!Sizes(t, ask, x.r) BY <2>1, <2>2
  <2> HIDE DEF sizes
  <2> QED BY <2>2, <2>3, InnocentSizes
<1> HIDE DEF sizes, voice
<1>8. CASE y.pc = "miss" BY <1>8 DEF I!Unmoved, voice
<1>9. CASE x.pc \in errors /\ y.pc = I!ErrorThen(x.pc, ans)
  <2>0. y.r = x.r BY <1>9
  <2>1. CASE x.pc = "quote1"
    <3>1. y.pc = IF sig THEN "noise1" ELSE "quote2" BY <1>2, <1>9, <2>1 DEF I!ErrorThen
    <3>2. y.pc = "quote2" \/ (y.pc = "noise1" /\ (faults' = 1 \/ voice = "errs")) BY <1>4, <3>1
    <3> QED BY <1>1, <3>2 DEF I!Unmoved, voice
  <2>2. CASE x.pc = "quote2"
    <3>1. y.pc = IF sig THEN "noise2" ELSE "A" BY <1>2, <1>9, <2>2 DEF I!ErrorThen
    <3>2. y.pc = "A" \/ (y.pc = "noise2" /\ (faults' = 1 \/ voice = "errs")) BY <1>4, <3>1
    <3> QED BY <1>1, <3>2 DEF I!Unmoved, voice
  <2>3. CASE x.pc \in {"noise1", "noise2"}
    <3>1. y.pc \in (IF sig THEN {"A"} ELSE {"again1", "again2"}) BY <1>2, <1>9, <2>3 DEF I!ErrorThen
    <3>2. faults = 1 \/ voice = "errs" BY <2>3 DEF I!Unmoved, voice
    <3>3. y.pc = "A" \/ (y.pc \in {"again1", "again2"} /\ faults' = 1) BY <1>4, <3>1, <3>2
    <3> QED BY <1>1, <3>3 DEF I!Unmoved, voice
  <2>4. CASE x.pc \in {"again1", "again2"}
    <3>1. y.pc = IF sig THEN "hit" ELSE "A" BY <1>2, <1>9, <2>4 DEF I!ErrorThen
    <3>2. faults = 1 BY <2>4 DEF I!Unmoved, voice
    <3>5. ~(faults = 0) BY <3>2
    <3>6. voice = "still" BY <1>4, <3>5
    <3>7. sig => voice = "errs" BY <1>4, <3>5
    <3>4. ~sig BY <3>6, <3>7
    <3>3. y.pc = "A" BY <3>1, <3>4
    <3> QED BY <1>1, <3>3 DEF I!Unmoved, voice
  <2> QED BY <1>9, <2>1, <2>2, <2>3, <2>4
<1>10. CASE ans # I!Lost /\ x.pc \notin errors /\ y.pc = I!BooleanThen(x.pc, x.r, z)
  <2>0. \/ /\ faults' = faults /\ (faults = 0 \/ voice = "still") /\ z \in sizes
        \/ faults = 0 /\ faults' = 1 /\ voice = "still" /\ z \in {0, 2, 3}
    BY <1>4, <1>10
  <2>1. CASE x.pc = "A"
    <3>1. y.pc = "B" /\ y.r = z BY <1>3, <1>10, <2>1 DEF I!BooleanThen
    <3>2. z \in sizes => z = 0
      <4>1. I!Text(x.pc) = "A" BY <2>1 DEF I!Text
      <4> QED BY <1>11, <1>12, <4>1
    <3>3. faults' = 1 \/ z = 0 BY <2>0, <3>2
    <3> QED BY <1>1, <3>1, <3>3 DEF I!Unmoved, voice
  <2>2. CASE x.pc = "B"
    <3>1. y.pc = IF x.r # z THEN "miss" ELSE "true" BY <1>10, <2>2 DEF I!BooleanThen, I!Diverges
    <3>2. faults = 1 \/ x.r = 0 BY <2>2 DEF I!Unmoved, voice
    <3>3. voice = "echo" /\ z \in sizes => z = 1
      <4>1. I!Text(x.pc) = "B" BY <2>2 DEF I!Text
      <4> QED BY <1>11, <1>12, <4>1
    <3>4. voice = "echo" => x.r # z BY <2>0, <3>2, <3>3
    <3>5. y.pc = "miss" \/ (y.pc = "true" /\ voice # "echo") BY <3>1, <3>4
    <3> QED BY <1>1, <3>5 DEF I!Unmoved, voice
  <2>3. CASE x.pc = "true"
    <3>1. y.pc = "trueAgain" /\ y.r = z BY <1>3, <1>10, <2>3 DEF I!BooleanThen
    <3>2. voice # "echo" BY <2>3 DEF I!Unmoved, voice
    <3>3. z \in sizes => z = 0 \/ voice \in {"places", "search", "moody"} BY <1>11, <1>12, <3>2
    <3>4. faults' = 1 \/ z = 0 \/ voice \in {"places", "search", "moody"} BY <2>0, <3>3
    <3> QED BY <1>1, <3>1, <3>2, <3>4 DEF I!Unmoved, voice
  <2>4. CASE x.pc = "trueAgain"
    <3>1. y.r = x.r /\ y.pc = IF x.r # z THEN "miss" ELSE "false" BY <1>3, <1>10, <2>4 DEF I!BooleanThen, I!Diverges
    <3>2. voice # "echo" /\ (faults = 1 \/ x.r = 0 \/ voice \in {"places", "search", "moody"}) BY <2>4 DEF I!Unmoved, voice
    <3>3. z \in sizes => /\ voice = "moody" => z # x.r
                         /\ z = 0 \/ voice \in {"places", "search", "moody"}
      <4>1. I!Text(x.pc) = "true" BY <2>4 DEF I!Text
      <4> QED BY <1>11, <1>12, <3>2, <4>1
    <3>4. y.pc = "miss" \/ (y.pc = "false" /\ voice # "moody" /\ (x.r = 0 \/ voice \in {"places", "search"}))
      BY <2>0, <3>1, <3>2, <3>3
    <3> QED BY <1>1, <3>1, <3>2, <3>4 DEF I!Unmoved, voice
  <2>5. CASE x.pc = "false"
    <3>1. voice \notin {"moody", "echo"} /\ (x.r = 0 \/ voice \in {"places", "search"}) BY <2>5 DEF I!Unmoved, voice
    <3>2. z \in sizes => /\ voice = "places" => z = 2
                         /\ voice = "search" => z = 1
                         /\ voice \notin {"places", "search"} => z = 0
      <4>1. I!Text(x.pc) = "false" BY <2>5 DEF I!Text
      <4> QED BY <1>11, <1>12, <3>1, <4>1
    <3>3. ~(~I!Diverges(z, mem.benign) /\ I!Split(x.r, z))
      <4>1. CASE faults = 0 /\ faults' = 0 /\ z \in sizes BY <3>1, <3>2, <4>1 DEF I!Diverges, I!Split
      <4>2. CASE faults' = faults /\ voice = "still" /\ z \in sizes BY <3>1, <3>2, <4>2 DEF I!Diverges, I!Split
      <4>3. CASE faults = 0 /\ faults' = 1 /\ voice = "still" BY <3>1, <4>3 DEF I!Diverges, I!Split
      <4> QED BY <2>0, <4>1, <4>2, <4>3
    <3>4. y.pc = "miss" BY <1>10, <2>5, <3>3 DEF I!BooleanThen
    <3> QED BY <3>4 DEF I!Unmoved, voice
  <2> QED BY <1>6, <1>7, <1>10, <2>1, <2>2, <2>3, <2>4, <2>5
<1> QED BY <1>5, <1>8, <1>9, <1>10

\* What the threads are depends on the probe.
LEMMA InjectionTypes == ASSUME app' = app PROVE I!Threads' = I!Threads
  BY DEF I!Threads, I!Questions

\* A probe that ends.
LEMMA InjectionEnds ==
    ASSUME I!InjectionInv, app' = app, at' = "end", faults' \in Nat, I!FiredIsReal', I!UntestedIsNotClean'
    PROVE  I!InjectionInv'
<1>1. I!Held' BY DEF I!InjectionInv, I!Held
<1> QED BY <1>1 DEF I!InjectionInv

\* A probe that goes on.
LEMMA InjectionGoesOn ==
    ASSUME I!InjectionInv, at # "end", app' = app, at' # "end", verdict' = verdict, faults' \in Nat, I!Met'
    PROVE  I!InjectionInv'
<1>1. verdict' = "none" BY DEF I!InjectionInv, I!Held
<1>2. I!Held' BY <1>1 DEF I!InjectionInv, I!Held
<1>3. I!FiredIsReal' /\ I!UntestedIsNotClean' BY <1>1 DEF I!FiredIsReal, I!UntestedIsNotClean
<1> QED BY <1>2, <1>3 DEF I!InjectionInv

\* One question of one thread.
LEMMA InjectionAsk == ASSUME I!InjectionInv, NEW w \in 1 .. Pool, I!Ask(w) PROVE I!InjectionInv'
<1>0. app' = app /\ at' = at /\ mem' = mem /\ verdict' = verdict /\ th[w].pc \notin I!Ended BY DEF I!Ask
<1>1. I!Held BY DEF I!InjectionInv
<1> DEFINE x == th[w]
           next(ans) == [x EXCEPT !.pc = I!Then(x.pc, x.r, ans),
                                  !.r = IF x.pc \in {"A", "true", "trueMore"} THEN ans.size ELSE @]
<1>2. PICK ans \in I!Replies : /\ I!Reply(I!Answers(I!Target, x.spec, I!Text(x.pc), x.r), ans)
                               /\ th' = [th EXCEPT ![w] = next(ans)]
  BY DEF I!Ask
<1>3. faults' = faults \/ faults' = faults + 1 BY <1>2 DEF I!Reply
<1>4. faults \in Nat /\ faults' \in Nat BY <1>1, <1>3 DEF I!Held
<1>5. I!Target' = I!Target /\ I!Sinks(I!Target)' = I!Sinks(I!Target) /\ I!Shots(I!Target)' = I!Shots(I!Target)
  BY <1>0, InjectionTarget
<1>6. CASE at = "end"
  <2>1. I!FiredIsReal' BY <1>0, <1>3, <1>4, <1>5 DEF I!InjectionInv, I!FiredIsReal
  <2>2. I!UntestedIsNotClean' BY <1>0, <1>3, <1>4 DEF I!InjectionInv, I!UntestedIsNotClean
  <2> QED BY <1>0, <1>4, <1>6, <2>1, <2>2, InjectionEnds
<1>7. CASE at # "end"
  <2>1. I!Met BY <1>7 DEF I!InjectionInv
  <2>2. at \in {"pool", "drain"} BY <1>0, <2>1 DEF I!Met, I!Placed, I!Idle, I!Ended
  <2>3. x.spec \in I!Shots(I!Target) BY <1>0, <2>1, <2>2 DEF I!Met, I!Placed, I!Ended
  <2>4. x.pc \in I!Questions /\ x.r \in Int /\ x \in [pc : I!Ended \cup I!Questions, spec : Nat \X Nat, r : Int]
    BY <1>0, <2>1 DEF I!Met, I!Threads
  <2> DEFINE y == next(ans)
  <2>5. ans.size \in Int
    <3>1. CASE ans = I!Lost
      <4>1. PICK b : b = FALSE OBVIOUS
      <4>2. ans = [sig |-> b, size |-> -1] BY <3>1, <4>1, Zenon DEF I!Lost
      <4> QED BY <4>2
    <3>2. CASE ans \in I!Garbled BY <3>2 DEF I!Garbled
    <3>3. CASE ans \in [sig : BOOLEAN, size : 0 .. 2] BY <3>3
    <3> QED BY <3>1, <3>2, <3>3 DEF I!Replies
  <2>6. I!Then(x.pc, x.r, ans) \in I!Ended \cup I!Questions
    <3>1. CASE app.probe = "lfi"
      <4>1. I!Then(x.pc, x.r, ans) \in {"canary", "miss", "hit", "readAgain"} BY <3>1 DEF I!Then, I!FileThen
      <4> QED BY <3>1, <4>1 DEF I!Ended, I!Questions
    <3>2. CASE app.probe \in {"cmd", "ssti"}
      <4>1. I!Then(x.pc, x.r, ans) \in {"hit", "miss", "md5"} BY <3>2 DEF I!Then, I!HashThen
      <4> QED BY <3>2, <4>1 DEF I!Ended, I!Questions
    <3>3. CASE app.probe = "sqli"
      <4>1. I!ErrorThen(x.pc, ans) \in {"noise1", "noise2", "quote2", "A", "again1", "again2", "hit"}
        <5> USE DEF I!ErrorThen
        <5>1. CASE x.pc = "quote1" BY <5>1
        <5>2. CASE x.pc = "quote2" BY <5>2
        <5>3. CASE x.pc = "noise1" BY <5>3
        <5>4. CASE x.pc = "noise2" BY <5>4
        <5>5. CASE x.pc \notin {"quote1", "quote2", "noise1", "noise2"} BY <5>5
        <5> QED BY <5>1, <5>2, <5>3, <5>4, <5>5
      <4>2. I!BooleanThen(x.pc, x.r, ans.size) \in {"B", "miss", "true", "trueAgain", "false", "trueMore", "falseMore", "hit"}
        <5> USE DEF I!BooleanThen
        <5>1. CASE x.pc \in {"A", "true", "trueMore"} BY <5>1
        <5>2. CASE x.pc \in {"B", "trueAgain"} BY <5>2
        <5>3. CASE x.pc = "false" BY <5>3
        <5>4. CASE x.pc \notin {"A", "true", "trueMore", "B", "trueAgain", "false"} BY <5>4
        <5> QED BY <5>1, <5>2, <5>3, <5>4
      <4>3. I!Then(x.pc, x.r, ans) \in {"noise1", "noise2", "quote2", "A", "again1", "again2", "hit", "B", "miss", "true",
                                       "trueAgain", "false", "trueMore", "falseMore"}
        BY <3>3, <4>1, <4>2 DEF I!Then
      <4> QED BY <3>3, <4>3 DEF I!Ended, I!Questions
    <3> QED BY <1>1, <3>1, <3>2, <3>3 DEF I!Held
  <2>7. y \in [pc : I!Ended \cup I!Questions, spec : Nat \X Nat, r : Int] BY <2>4, <2>5, <2>6
  <2>8. y.spec = x.spec /\ y.pc = I!Then(x.pc, x.r, ans) BY <2>4
  <2>9. /\ x.pc \in {"A", "true", "trueMore"} => y.r = ans.size
        /\ x.pc \notin {"A", "true", "trueMore"} => y.r = x.r
    BY <2>4
  <2> HIDE DEF next
  <2>10. th' \in I!Threads /\ th'[w] = y /\ \A v \in 1 .. Pool : v # w => th'[v] = th[v]
    BY <1>2, <2>1, <2>7 DEF I!Met, I!Threads
  <2>11. ASSUME I!Fair', NEW v \in 1 .. Pool, th'[v].pc # "free", I!Innocent(th[v])' PROVE I!Unmoved(th[v])'
    <3>1. I!Fair /\ (faults' = faults \/ (faults = 0 /\ faults' = 1)) BY <1>0, <1>2, <1>4, <2>11, FairReply
    <3>2. th'[v].spec[1] \notin I!Sinks(I!Target) BY <1>5, <2>11 DEF I!Innocent
    <3>3. CASE v # w
      <4>1. PICK u : u = th[v] OBVIOUS
      <4>2. th'[v] = u BY <2>10, <3>3, <4>1
      <4>3. I!Innocent(u) /\ u.pc # "free" BY <2>11, <3>2, <4>2 DEF I!Innocent
      <4>4. I!Unmoved(u) BY <2>1, <2>2, <3>1, <4>1, <4>3 DEF I!Met, I!OracleInv
      <4>5. I!Unmoved(u)' BY <1>5, <3>1, <4>4 DEF I!Unmoved
      <4> QED BY <4>2, <4>5 DEF I!Unmoved
    <3>4. CASE v = w
      <4>1. PICK u, m : u = x /\ m = y OBVIOUS
      <4>2. th'[v] = m /\ m.spec = u.spec /\ m.pc = I!Then(u.pc, u.r, ans) BY <2>8, <2>10, <3>4, <4>1
      <4>3. /\ u.pc \in {"A", "true", "trueMore"} => m.r = ans.size
            /\ u.pc \notin {"A", "true", "trueMore"} => m.r = u.r
        BY <2>9, <4>1
      <4>4. I!Innocent(u) /\ u.spec \in I!Shots(I!Target) /\ u.pc \in I!Questions BY <2>3, <2>4, <3>2, <4>1, <4>2 DEF I!Innocent
      <4>5. I!Unmoved(u) BY <1>0, <2>1, <2>2, <3>1, <4>1, <4>4 DEF I!Met, I!OracleInv, I!Ended
      <4>6. faults = 0 => mem.benign = 0 BY <2>1, <2>2 DEF I!Met, I!OracleInv
      <4>7. I!Reply(I!Answers(I!Target, u.spec, I!Text(u.pc), u.r), ans) BY <1>2, <4>1
      <4>8. I!Unmoved(m)'
        <5>1. CASE app.probe = "lfi" BY <1>0, <1>4, <2>11, <4>2, <4>4, <4>5, <4>7, <5>1, FileOracle
        <5>2. CASE app.probe \in {"cmd", "ssti"}
          <6>1. mem.n \in 1 .. Len(app.targets) BY <1>1, <2>1, <2>2 DEF I!Held, I!Met, I!Holds, I!Placed
          <6>2. I!Target.voice # "errs" BY <1>1, <5>2, <6>1 DEF I!Held, I!Target
          <6> QED BY <1>0, <1>4, <2>11, <4>2, <4>4, <4>5, <4>7, <5>2, <6>2, HashOracle
        <5>3. CASE app.probe = "sqli" BY <1>0, <1>4, <2>11, <4>2, <4>3, <4>4, <4>5, <4>6, <4>7, <5>3, SqlOracle
        <5> QED BY <1>1, <5>1, <5>2, <5>3 DEF I!Held
      <4> QED BY <4>2, <4>8 DEF I!Unmoved
    <3> QED BY <3>3, <3>4
  <2>12. I!OracleInv'
    <3>1. faults' = 0 => mem'.benign = 0 BY <1>0, <1>3, <1>4, <2>1, <2>2 DEF I!Met, I!OracleInv
    <3>2. at = "drain" /\ I!Fair' => mem'.hit[1] \in I!Sinks(I!Target)'
      <4>1. I!Fair' => I!Fair BY <1>0, <1>2, <1>4, FairReply
      <4> QED BY <1>0, <1>5, <2>1, <4>1 DEF I!Met, I!OracleInv
    <3> QED BY <1>0, <2>11, <3>1, <3>2 DEF I!OracleInv
  <2>13. I!Placed'
    <3>1. \A v \in 1 .. Pool : th'[v].pc # "free" => th'[v].spec \in I!Shots(I!Target)
      <4> SUFFICES ASSUME NEW v \in 1 .. Pool, th'[v].pc # "free" PROVE th'[v].spec \in I!Shots(I!Target) OBVIOUS
      <4>1. CASE v = w BY <2>3, <2>8, <2>10, <4>1
      <4>2. CASE v # w BY <2>1, <2>2, <2>10, <4>2 DEF I!Met, I!Placed
      <4> QED BY <4>1, <4>2
    <3> QED BY <1>0, <1>5, <2>1, <2>2, <3>1 DEF I!Met, I!Placed
  <2>14. I!Holds(mem)' BY <1>0, <2>1 DEF I!Met, I!Holds
  <2>15. I!DoseInv' BY <1>0, <2>2 DEF I!DoseInv
  <2>16. I!GateInv' BY <1>0, <1>3, <1>4, <2>1, <2>2 DEF I!Met, I!GateInv
  <2>17. th' \in I!Threads' BY <1>0, <2>10, InjectionTypes
  <2>18. I!Met' BY <2>12, <2>13, <2>14, <2>15, <2>16, <2>17 DEF I!Met
  <2> QED BY <1>0, <1>4, <1>7, <2>18, InjectionGoesOn
<1> QED BY <1>6, <1>7

\* A probe that walks on, without threads at work.
LEMMA InjectionWalks ==
    ASSUME I!InjectionInv, at # "end", I!Idle, at' \in {"target", "base", "live", "specs", "deep"}, app' = app, th' = th,
           verdict' = verdict, faults' = faults \/ faults' = faults + 1, NEW m, mem' = m, I!Holds(m),
           at' \in {"base", "live", "specs"} => m.n <= Len(app.targets),
           at' \in {"live", "specs"} /\ faults' = 0 => m.benign = 0,
           m.trial = 1,
           faults' = 0 /\ app.probe # "ssti" =>
               /\ at' = "live" => app.targets[m.n].gate # "login"
               /\ at' = "specs" \/ m.tested => \E n \in 1 .. Len(app.targets) : app.targets[n].gate \notin {"phantom", "login"}
    PROVE  I!InjectionInv'
<1>1. I!Held /\ I!Met BY DEF I!InjectionInv
<1>2. faults' \in Nat BY <1>1 DEF I!Held
<1>3. I!Holds(mem)' BY DEF I!Holds
<1>4. th' \in I!Threads' BY <1>1, InjectionTypes DEF I!Met
<1>5. I!Placed' BY DEF I!Placed, I!Idle
<1>6. I!OracleInv' /\ I!DoseInv' BY DEF I!OracleInv, I!DoseInv
<1>7. I!GateInv' BY DEF I!GateInv, I!Target
<1>8. I!Met' BY <1>3, <1>4, <1>5, <1>6, <1>7 DEF I!Met
<1> QED BY <1>2, <1>8, InjectionGoesOn

\* The next target, and the gates on it.
LEMMA InjectionGates == ASSUME I!InjectionInv, I!Take \/ I!Baseline \/ I!Live PROVE I!InjectionInv'
<1>0. app' = app /\ th' = th /\ verdict' = verdict /\ at \in {"target", "base", "live"} BY DEF I!Take, I!Baseline, I!Live
<1>1. I!Held /\ I!Met BY <1>0 DEF I!InjectionInv
<1>2. /\ I!Idle /\ I!Holds(mem) /\ mem.trial = 1 /\ faults \in Nat
      /\ at \in {"base", "live"} => mem.n \in 1 .. Len(app.targets)
      /\ mem.n \in Nat \ {0} /\ Len(app.targets) \in Nat
  BY <1>0, <1>1 DEF I!Held, I!Met, I!Placed, I!Holds
<1> DEFINE Open == \E n \in 1 .. Len(app.targets) : app.targets[n].gate \notin {"phantom", "login"}
<1>3. faults = 0 /\ app.probe # "ssti" /\ mem.tested => Open BY <1>1 DEF I!Met, I!GateInv
<1> HIDE DEF Open
\* A target that is passed over.
<1>4. ASSUME I!Skip, faults' = faults \/ faults' = faults + 1 PROVE I!InjectionInv'
  <2>1. PICK m : m = [mem EXCEPT !.n = @ + 1] OBVIOUS
  <2>2. I!Holds(m) /\ m.trial = 1 /\ m.tested = mem.tested
    <3>1. mem.n + 1 \in Nat \ {0} BY <1>2
    <3> QED BY <1>2, <2>1, <3>1 DEF I!Holds
  <2>3. mem' = m /\ at' = "target" BY <1>4, <2>1 DEF I!Skip
  <2>4. faults' = 0 => faults = 0 BY <1>2, <1>4
  <2> QED BY <1>0, <1>2, <1>3, <1>4, <2>2, <2>3, <2>4, InjectionWalks DEF Open
<1>5. CASE I!Take
  <2>1. PICK m : m = mem OBVIOUS
  <2>2. mem' = m /\ faults' = faults /\ at' \in {"deep", "base"} BY <1>5, <2>1 DEF I!Take
  <2>3. at' = "base" => m.n <= Len(app.targets)
    <3>1. at' = "base" => ~(mem.n > Len(app.targets)) BY <1>5 DEF I!Take
    <3> QED BY <1>2, <2>1, <3>1
  <2> QED BY <1>0, <1>2, <1>3, <2>1, <2>2, <2>3, InjectionWalks DEF Open
<1>6. CASE I!Baseline
  <2>0. at = "base" BY <1>6 DEF I!Baseline
  <2>1. PICK ans \in I!Replies :
          /\ I!Reply({[sig |-> I!Target.gate = "sick", size |-> 0]}, ans)
          /\ \/ I!Skip
             \/ /\ I!Target.gate \notin I!GatesOf /\ mem' = [mem EXCEPT !.benign = ans.size]
                /\ \/ at' = "live"
                   \/ at' = "specs" /\ (app.probe = "ssti" \/ (app.probe = "lfi" /\ I!Target.json))
    BY <1>6 DEF I!Baseline
  <2>2. faults' = faults \/ faults' = faults + 1 BY <2>1 DEF I!Reply
  <2>3. CASE I!Skip BY <1>4, <2>2, <2>3
  <2>4. CASE /\ I!Target.gate \notin I!GatesOf /\ mem' = [mem EXCEPT !.benign = ans.size]
             /\ \/ at' = "live"
                \/ at' = "specs" /\ (app.probe = "ssti" \/ (app.probe = "lfi" /\ I!Target.json))
    <3>1. PICK m : m = [mem EXCEPT !.benign = ans.size] OBVIOUS
    <3>2. I!Holds(m) /\ m.trial = 1 /\ m.n = mem.n /\ m.tested = mem.tested /\ m.benign = ans.size BY <1>2, <3>1 DEF I!Holds
    <3>3. I!Target.gate # "login" /\ I!Target = app.targets[mem.n] BY <2>4 DEF I!GatesOf, I!Target
    <3>4. faults' = 0 => ans.size = 0
      <4>1. faults' = 0 => faults' = faults BY <1>2, <2>2
      <4>2. PICK sick : sick = (I!Target.gate = "sick") OBVIOUS
      <4>3. I!Reply({[sig |-> sick, size |-> 0]}, ans) BY <2>1, <4>2, Zenon
      <4>4. faults' = faults => ans = [sig |-> sick, size |-> 0] BY <1>2, <4>3 DEF I!Reply
      <4> QED BY <4>1, <4>4
    <3>5. mem.n \in 1 .. Len(app.targets) /\ mem.n <= Len(app.targets) BY <1>2, <2>0
    <3>6. app.probe = "lfi" /\ I!Target.json => Open BY <1>1, <3>3, <3>5 DEF I!Held, Open
    <3>7. faults' = 0 /\ app.probe # "ssti" =>
             /\ at' = "live" => app.targets[m.n].gate # "login"
             /\ at' = "specs" \/ m.tested => Open
      <4>1. at' = "specs" /\ app.probe # "ssti" => Open BY <2>4, <3>6
      <4>2. faults' = 0 => faults = 0 BY <1>2, <2>2
      <4> QED BY <1>3, <3>2, <3>3, <4>1, <4>2
    <3>8. at' \in {"live", "specs"} /\ mem' = m BY <2>4, <3>1
    <3> QED BY <1>0, <1>2, <2>0, <2>2, <3>2, <3>4, <3>5, <3>7, <3>8, InjectionWalks DEF Open
  <2> QED BY <2>1, <2>3, <2>4
<1>7. CASE I!Live
  <2>0. at = "live" BY <1>7 DEF I!Live
  <2>1. PICK ans \in I!Replies :
          /\ I!Reply({[sig |-> FALSE, size |-> IF I!Target.gate = "phantom" THEN mem.benign ELSE 3 - mem.benign]}, ans)
          /\ I!Skip \/ (ans.size # mem.benign /\ at' = "specs" /\ mem' = mem)
    BY <1>7 DEF I!Live
  <2>2. faults' = faults \/ faults' = faults + 1 BY <2>1 DEF I!Reply
  <2>3. CASE I!Skip BY <1>4, <2>2, <2>3
  <2>4. CASE ans.size # mem.benign /\ at' = "specs" /\ mem' = mem
    <3>1. PICK m : m = mem OBVIOUS
    <3>2. faults' = 0 => faults = 0 /\ mem.benign = 0 BY <1>1, <1>2, <2>0, <2>2 DEF I!Met, I!OracleInv
    <3>3. faults' = 0 => I!Target.gate # "phantom"
      <4>1. PICK no : no = FALSE OBVIOUS
      <4>2. PICK z : z = IF I!Target.gate = "phantom" THEN mem.benign ELSE 3 - mem.benign OBVIOUS
      <4>3. I!Reply({[sig |-> no, size |-> z]}, ans) BY <2>1, <4>1, <4>2, Zenon
      <4>4. faults' = faults => ans = [sig |-> no, size |-> z] BY <1>2, <4>3 DEF I!Reply
      <4>5. faults' = 0 => ans.size = z BY <3>2, <4>4
      <4> QED BY <2>4, <4>2, <4>5
    <3>4. faults' = 0 /\ app.probe # "ssti" => Open
      <4>1. faults' = 0 /\ app.probe # "ssti" => I!Target.gate # "login" BY <1>1, <2>0, <3>2 DEF I!Met, I!GateInv
      <4> QED BY <1>2, <2>0, <3>3, <4>1 DEF Open, I!Target
    <3>5. mem.n <= Len(app.targets) BY <1>2, <2>0
    <3> QED BY <1>0, <1>2, <2>0, <2>2, <2>4, <3>1, <3>2, <3>4, <3>5, InjectionWalks DEF Open
  <2> QED BY <2>1, <2>3, <2>4
<1> QED BY <1>5, <1>6, <1>7

\* The payloads for a target, cut to a budget.
LEMMA SpecsAreShots == ASSUME Len(I!Target.sinks) \in Nat PROVE I!Specs \in Seq(I!Shots(I!Target))
<1> DEFINE k == Len(I!Target.sinks)
<1>1. CASE app.probe = "sqli"
  <2>1. \A i \in 1 .. k : <<i, 1>> \in I!Shots(I!Target) BY DEF I!Shots
  <2>2. I!Specs = [i \in 1 .. k |-> <<i, 1>>] BY <1>1 DEF I!Specs
  <2>3. I!Specs \in [1 .. k -> I!Shots(I!Target)] BY <2>1, <2>2
  <2> QED BY <2>3, SeqDef
<1>2. CASE app.probe # "sqli"
  <2>1. ASSUME NEW i \in 1 .. k * 2 PROVE <<(i + 1) \div 2, 2 - (i % 2)>> \in I!Shots(I!Target)
    <3>1. (i + 1) \div 2 \in 1 .. k
      <4>1. i \in Int /\ k \in Int /\ i >= 1 /\ i <= k * 2 OBVIOUS
      <4> HIDE DEF k
      <4> QED BY <4>1
    <3>2. 2 - (i % 2) \in {1, 2}
      <4>1. i \in Int /\ i >= 1 OBVIOUS
      <4>2. i % 2 \in {0, 1} BY <4>1
      <4> QED BY <4>2
    <3> QED BY <3>1, <3>2 DEF I!Shots
  <2>2. I!Specs = [i \in 1 .. k * 2 |-> <<(i + 1) \div 2, 2 - (i % 2)>>] BY <1>2 DEF I!Specs
  <2>3. I!Specs \in [1 .. k * 2 -> I!Shots(I!Target)] BY <2>1, <2>2
  <2>4. k * 2 \in Nat OBVIOUS
  <2> QED BY <2>3, <2>4, SeqDef
<1> QED BY <1>1, <1>2

\* The same, up to some payload.
LEMMA FanQueue == ASSUME Len(I!Target.sinks) \in Nat, NEW n \in Nat, n <= Len(I!Specs)
  PROVE SubSeq(I!Specs, 1, n) \in Seq(I!Shots(I!Target))
<1>1. I!Specs \in Seq(I!Shots(I!Target)) BY SpecsAreShots
<1>2. Len(I!Specs) \in Nat BY <1>1, LenProperties
<1>3. n \in 1 - 1 .. Len(I!Specs) BY <1>2
<1> QED BY <1>1, <1>2, SubSeqProperties

\* A probe whose threads are at work.
LEMMA InjectionPool ==
    ASSUME I!InjectionInv, at \in {"specs", "pool", "drain"}, at' \in {"pool", "drain"}, app' = app, verdict' = verdict,
           faults' = faults, th' \in I!Threads, NEW m, mem' = m, I!Holds(m), m.n = mem.n, m.benign = mem.benign, m.trial = 1,
           m.tested => mem.tested \/ at = "specs",
           at' = "pool" => m.queue \in Seq(I!Shots(I!Target)),
           at' = "drain" /\ I!Fair => m.hit[1] \in I!Sinks(I!Target),
           \A w \in 1 .. Pool : th'[w].pc # "free" => th'[w].spec \in I!Shots(I!Target),
           I!Fair => \A w \in 1 .. Pool : th'[w].pc # "free" /\ I!Innocent(th'[w]) => I!Unmoved(th'[w])
    PROVE  I!InjectionInv'
<1>1. I!Held /\ I!Met BY DEF I!InjectionInv
<1>2. I!Target' = I!Target /\ I!Sinks(I!Target)' = I!Sinks(I!Target) /\ I!Shots(I!Target)' = I!Shots(I!Target)
  BY InjectionTarget
<1>3. I!Fair' <=> I!Fair BY <1>2 DEF I!Fair
<1>4. faults' \in Nat /\ faults \in Nat BY <1>1 DEF I!Held
<1>5. I!Holds(mem)' BY DEF I!Holds
<1>6. th' \in I!Threads' BY InjectionTypes
<1>7. I!Placed'
  <2>1. mem'.n <= Len(app.targets) BY <1>1 DEF I!Met, I!Placed
  <2> QED BY <1>2, <2>1 DEF I!Placed
<1>8. I!OracleInv'
  <2>1. faults' = 0 => mem'.benign = 0 BY <1>1 DEF I!Met, I!OracleInv
  <2>2. at' = "drain" /\ I!Fair' => mem'.hit[1] \in I!Sinks(I!Target)' BY <1>2, <1>3
  <2>3. ASSUME I!Fair', NEW w \in 1 .. Pool, th'[w].pc # "free", I!Innocent(th[w])' PROVE I!Unmoved(th[w])'
    <3>1. I!Innocent(th'[w]) BY <1>2, <2>3 DEF I!Innocent
    <3>2. I!Unmoved(th'[w]) BY <1>3, <2>3, <3>1
    <3> QED BY <1>2, <3>2 DEF I!Unmoved
  <2> QED BY <2>1, <2>2, <2>3 DEF I!OracleInv
<1>9. I!DoseInv' BY DEF I!DoseInv
<1>10. I!GateInv'
  <2>1. faults = 0 /\ app.probe # "ssti" /\ m.tested => \E n \in 1 .. Len(app.targets) : app.targets[n].gate \notin {"phantom", "login"}
    BY <1>1 DEF I!Met, I!GateInv
  <2> QED BY <2>1 DEF I!GateInv
<1>11. I!Met' BY <1>5, <1>6, <1>7, <1>8, <1>9, <1>10 DEF I!Met
<1> QED BY <1>4, <1>11, InjectionGoesOn

\* The payloads that a target gets.
LEMMA InjectionFan == ASSUME I!InjectionInv, I!Fan PROVE I!InjectionInv'
<1>0. app' = app /\ th' = th /\ verdict' = verdict /\ faults' = faults /\ at = "specs" BY DEF I!Fan
<1>1. I!Held /\ I!Met BY <1>0 DEF I!InjectionInv
<1>2. I!Idle /\ I!Holds(mem) /\ mem.trial = 1 /\ mem.n \in 1 .. Len(app.targets)
  BY <1>0, <1>1 DEF I!Held, I!Met, I!Placed, I!Holds
<1>3. Len(I!Target.sinks) \in Nat BY <1>1, <1>2 DEF I!Held, I!Target
<1>4. CASE mem.budget = 0
  <2>1. PICK m : m = mem OBVIOUS
  <2>2. mem' = m /\ at' = "deep" BY <1>4, <2>1 DEF I!Fan
  <2>3. faults' = 0 /\ app.probe # "ssti" => \E n \in 1 .. Len(app.targets) : app.targets[n].gate \notin {"phantom", "login"}
    BY <1>0, <1>1 DEF I!Met, I!GateInv
  <2> QED BY <1>0, <1>2, <2>1, <2>2, <2>3, InjectionWalks
<1>5. CASE mem.budget # 0
  <2>1. Len(I!Specs) \in Nat BY <1>3, SpecsAreShots, LenProperties
  <2>2. PICK k : k = IF mem.budget < Len(I!Specs) THEN mem.budget ELSE Len(I!Specs) OBVIOUS
  <2>3. k \in Nat /\ k <= Len(I!Specs) /\ k <= mem.budget
    <3>1. mem.budget \in Nat BY <1>2 DEF I!Holds
    <3> QED BY <2>1, <2>2, <3>1
  <2>4. PICK specs : specs = SubSeq(I!Specs, 1, k) OBVIOUS
  <2>5. specs \in Seq(I!Shots(I!Target)) BY <1>3, <2>3, <2>4, FanQueue
  <2>6. Len(specs) = k BY <1>3, <2>1, <2>3, <2>4, SpecsAreShots, SubSeqProperties
  <2>7. PICK t : t = TRUE OBVIOUS
  <2>8. PICK m : m = [mem EXCEPT !.queue = specs, !.budget = @ - k, !.tested = t] OBVIOUS
  <2>9. mem' = m /\ at' = "pool"
    <3>1. mem' = [mem EXCEPT !.queue = specs, !.budget = @ - Len(specs), !.tested = TRUE] /\ at' = "pool"
      BY <1>5, <2>2, <2>4, Zenon DEF I!Fan
    <3> QED BY <2>6, <2>7, <2>8, <3>1, Zenon
  <2>10. I!Holds(m) /\ m.n = mem.n /\ m.benign = mem.benign /\ m.trial = 1 /\ m.queue = specs
    <3>1. t \in BOOLEAN BY <2>7, Zenon
    <3>2. mem.budget \in Nat /\ mem.budget - k \in Nat BY <1>2, <2>3 DEF I!Holds
    <3> QED BY <1>2, <2>8, <3>1, <3>2 DEF I!Holds
  <2>11. th' \in I!Threads /\ \A w \in 1 .. Pool : th'[w].pc = "free" BY <1>0, <1>1, <1>2 DEF I!Met, I!Idle
  <2> QED BY <1>0, <2>5, <2>9, <2>10, <2>11, InjectionPool
<1> QED BY <1>4, <1>5

\* A thread takes a payload, gives it back, or is dropped.
LEMMA InjectionThreads ==
    ASSUME I!InjectionInv, NEW w \in 1 .. Pool, I!Refill(w) \/ I!Collect(w) \/ I!Drop(w) PROVE I!InjectionInv'
<1>0. app' = app /\ verdict' = verdict /\ faults' = faults /\ at \in {"pool", "drain"} BY DEF I!Refill, I!Collect, I!Drop
<1>1. I!Held /\ I!Met BY <1>0 DEF I!InjectionInv
<1>2. /\ I!Holds(mem) /\ mem.trial = 1 /\ th \in I!Threads
      /\ at = "pool" => mem.queue \in Seq(I!Shots(I!Target))
      /\ \A v \in 1 .. Pool : th[v].pc # "free" => th[v].spec \in I!Shots(I!Target)
  BY <1>0, <1>1 DEF I!Met, I!Placed
<1>3. /\ at = "drain" /\ I!Fair => mem.hit[1] \in I!Sinks(I!Target)
      /\ I!Fair => \A v \in 1 .. Pool : th[v].pc # "free" /\ I!Innocent(th[v]) => I!Unmoved(th[v])
  BY <1>0, <1>1 DEF I!Met, I!OracleInv
\* A thread that is given something to do, or that is free.
<1>4. ASSUME NEW y, th' = [th EXCEPT ![w] = y], y \in [pc : I!Ended \cup I!Questions, spec : Nat \X Nat, r : Int],
             y.pc # "free" => y.spec \in I!Shots(I!Target) /\ I!Unmoved(y)
      PROVE  /\ th' \in I!Threads
             /\ \A v \in 1 .. Pool : th'[v].pc # "free" => th'[v].spec \in I!Shots(I!Target)
             /\ I!Fair => \A v \in 1 .. Pool : th'[v].pc # "free" /\ I!Innocent(th'[v]) => I!Unmoved(th'[v])
  <2>1. th' \in I!Threads /\ th'[w] = y /\ \A v \in 1 .. Pool : v # w => th'[v] = th[v] BY <1>2, <1>4 DEF I!Threads
  <2> QED BY <1>2, <1>3, <1>4, <2>1
<1>5. I!Free \in [pc : I!Ended \cup I!Questions, spec : Nat \X Nat, r : Int] /\ I!Free.pc = "free"
  BY DEF I!Free, I!Thread, I!NoSpec, I!Ended
<1>6. CASE I!Refill(w)
  <2>0. at = "pool" /\ at' = "pool" BY <1>6 DEF I!Refill
  <2>1. Head(mem.queue) \in I!Shots(I!Target) /\ Tail(mem.queue) \in Seq(I!Shots(I!Target))
    BY <1>2, <1>6, <2>0, HeadTailProperties DEF I!Refill
  <2>2. PICK y : y = [pc |-> I!First, spec |-> Head(mem.queue), r |-> 0] OBVIOUS
  <2>3. th' = [th EXCEPT ![w] = y] BY <1>6, <2>2 DEF I!Refill, I!Thread
  <2>4. I!First \in {"quote1", "sha", "run", "read"} /\ I!First \in I!Questions
    BY <1>1 DEF I!Held, I!First, I!Questions
  <2>5. mem.n \in 1 .. Len(app.targets) /\ Len(I!Target.sinks) \in Nat
    BY <1>1, <2>0 DEF I!Held, I!Met, I!Holds, I!Placed, I!Target
  <2>6. y.pc = I!First /\ y.spec = Head(mem.queue) /\ y \in [pc : I!Ended \cup I!Questions, spec : Nat \X Nat, r : Int]
    <3>1. Head(mem.queue) \in Nat \X Nat BY <2>1, <2>5 DEF I!Shots
    <3> QED BY <2>2, <2>4, <3>1
  <2>7. I!Unmoved(y) BY <2>4, <2>6 DEF I!Unmoved
  <2>8. PICK m : m = [mem EXCEPT !.queue = Tail(@)] OBVIOUS
  <2>9. I!Holds(m) /\ m.n = mem.n /\ m.benign = mem.benign /\ m.trial = 1 /\ m.tested = mem.tested /\ m.queue = Tail(mem.queue)
    BY <1>2, <2>8 DEF I!Holds
  <2>10. mem' = m BY <1>6, <2>8 DEF I!Refill
  <2> QED BY <1>0, <1>4, <2>0, <2>1, <2>3, <2>6, <2>7, <2>9, <2>10, InjectionPool
<1>7. CASE I!Collect(w)
  <2>0. at = "pool" /\ th' = [th EXCEPT ![w] = I!Free] /\ th[w].pc \in {"hit", "miss"} BY <1>7 DEF I!Collect
  <2>1. CASE th[w].pc = "hit"
    <3>1. PICK m : m = [mem EXCEPT !.hit = th[w].spec] OBVIOUS
    <3>2. I!Holds(m) /\ m.n = mem.n /\ m.benign = mem.benign /\ m.trial = 1 /\ m.tested = mem.tested /\ m.hit = th[w].spec
      BY <1>2, <3>1 DEF I!Holds
    <3>3. mem' = m /\ at' = "drain" BY <1>7, <2>1, <3>1 DEF I!Collect
    <3>4. I!Fair => m.hit[1] \in I!Sinks(I!Target)
      <4>1. ~I!Unmoved(th[w]) BY <2>1 DEF I!Unmoved
      <4>2. I!Fair => ~I!Innocent(th[w]) BY <1>3, <2>1, <4>1
      <4> QED BY <3>2, <4>2 DEF I!Innocent
    <3> QED BY <1>0, <1>4, <1>5, <2>0, <3>2, <3>3, <3>4, InjectionPool
  <2>2. CASE th[w].pc = "miss"
    <3>1. PICK m : m = mem OBVIOUS
    <3>2. mem' = m /\ at' = "pool" BY <1>7, <2>0, <2>2, <3>1 DEF I!Collect
    <3> QED BY <1>0, <1>2, <1>4, <1>5, <2>0, <3>1, <3>2, InjectionPool
  <2> QED BY <2>0, <2>1, <2>2
<1>8. CASE I!Drop(w)
  <2>0. at = "drain" /\ at' = "drain" /\ th' = [th EXCEPT ![w] = I!Free] BY <1>8 DEF I!Drop
  <2>1. PICK m : m = mem OBVIOUS
  <2>2. mem' = m BY <1>8, <2>1 DEF I!Drop
  <2> QED BY <1>0, <1>2, <1>3, <1>4, <1>5, <2>0, <2>1, <2>2, InjectionPool
<1> QED BY <1>6, <1>7, <1>8

\* A pool that is done, or has its hit.
LEMMA InjectionDone == ASSUME I!InjectionInv, I!PoolEnds \/ I!Fire PROVE I!InjectionInv'
<1>0. app' = app /\ th' = th /\ faults' = faults /\ at \in {"pool", "drain"} /\ I!Idle BY DEF I!PoolEnds, I!Fire
<1>1. I!Held /\ I!Met BY <1>0 DEF I!InjectionInv
<1>2. /\ I!Holds(mem) /\ mem.trial = 1 /\ faults \in Nat /\ verdict = "none"
      /\ at = "drain" /\ I!Fair => mem.hit[1] \in I!Sinks(I!Target)
      /\ faults = 0 /\ app.probe # "ssti" /\ mem.tested => \E n \in 1 .. Len(app.targets) : app.targets[n].gate \notin {"phantom", "login"}
  BY <1>0, <1>1 DEF I!Held, I!Met, I!Placed, I!OracleInv, I!GateInv
<1>3. CASE I!PoolEnds
  <2>1. PICK deep : mem' = [mem EXCEPT !.n = @ + 1, !.queue = <<>>, !.deep = deep] BY <1>3, Zenon DEF I!PoolEnds
  <2>2. PICK m : m = [mem EXCEPT !.n = @ + 1, !.queue = <<>>, !.deep = deep] OBVIOUS
  <2>3. I!Holds(m) /\ m.trial = 1 /\ m.tested = mem.tested
    <3>1. mem.n + 1 \in Nat \ {0} BY <1>2 DEF I!Holds
    <3> QED BY <1>2, <2>2, <3>1 DEF I!Holds
  <2>4. mem' = m /\ at' = "target" /\ verdict' = verdict BY <1>3, <2>1, <2>2 DEF I!PoolEnds
  <2> QED BY <1>0, <1>2, <2>3, <2>4, InjectionWalks
<1>4. CASE I!Fire
  <2>1. at = "drain" /\ at' = "end" /\ verdict' = "fired" /\ mem' = mem BY <1>4 DEF I!Fire
  <2>2. I!Target' = I!Target /\ I!Sinks(I!Target)' = I!Sinks(I!Target) BY <1>0, <2>1, InjectionTarget
  <2>3. I!FiredIsReal' BY <1>0, <1>2, <2>1, <2>2 DEF I!FiredIsReal, I!Fair
  <2>4. I!UntestedIsNotClean' BY <2>1 DEF I!UntestedIsNotClean
  <2> QED BY <1>0, <1>2, <2>1, <2>3, <2>4, InjectionEnds
<1> QED BY <1>3, <1>4

\* One trial of the timing pass, or its end.
LEMMA InjectionTime == ASSUME I!InjectionInv, I!Time PROVE I!InjectionInv'
<1>0. app' = app /\ th' = th /\ at = "deep" BY DEF I!Time
<1>1. I!Held /\ I!Met BY <1>0 DEF I!InjectionInv
<1>2. /\ I!Holds(mem) /\ I!Idle /\ faults \in Nat /\ verdict = "none"
      /\ faults = 0 /\ app.probe # "ssti" /\ mem.tested => \E n \in 1 .. Len(app.targets) : app.targets[n].gate \notin {"phantom", "login"}
  BY <1>0, <1>1 DEF I!Held, I!Met, I!Placed, I!GateInv
<1>3. CASE mem.deep = <<>> \/ I!Capped
  <2>1. at' = "end" /\ verdict' = I!Conclude /\ mem' = mem /\ faults' = faults BY <1>3 DEF I!Time
  <2>2. I!FiredIsReal' BY <2>1 DEF I!FiredIsReal, I!Conclude
  <2>3. I!UntestedIsNotClean' BY <1>0, <1>2, <2>1 DEF I!UntestedIsNotClean, I!Conclude
  <2> QED BY <1>0, <1>2, <2>1, <2>2, <2>3, InjectionEnds
<1>4. CASE ~(mem.deep = <<>> \/ I!Capped)
  <2> DEFINE Sleeps == app.targets[Head(mem.deep)[1]].sinks[Head(mem.deep)[2]] = 4
  <2>1. PICK scales \in BOOLEAN :
          /\ \/ scales = Sleeps /\ faults' = faults
             \/ scales # Sleeps /\ faults' = faults + 1
          /\ \/ ~scales /\ mem' = [mem EXCEPT !.deep = Tail(@), !.trial = 1] /\ at' = at /\ verdict' = verdict
             \/ scales /\ mem.trial = 1 /\ mem' = [mem EXCEPT !.trial = 2] /\ at' = at /\ verdict' = verdict
             \/ scales /\ mem.trial = 2 /\ mem' = [mem EXCEPT !.hit = Head(mem.deep)] /\ at' = "end" /\ verdict' = "fired"
             \/ mem' = [mem EXCEPT !.advisory = TRUE, !.deep = Tail(@), !.trial = 1] /\ at' = at /\ verdict' = verdict
    BY <1>4 DEF I!Time
  <2>2. scales => Sleeps \/ faults' = faults + 1 BY <2>1
  <2>3. faults' \in Nat /\ (faults' = faults \/ faults' = faults + 1) BY <1>2, <2>1
  \* On to the next field.
  <2>4. ASSUME mem' = [mem EXCEPT !.deep = Tail(@), !.trial = 1] \/ mem' = [mem EXCEPT !.advisory = TRUE, !.deep = Tail(@), !.trial = 1],
               at' = at, verdict' = verdict
        PROVE  I!InjectionInv'
    <3>1. PICK m : m = mem' OBVIOUS
    <3>2. I!Holds(m) /\ m.trial = 1 /\ m.tested = mem.tested BY <1>2, <2>4, <3>1 DEF I!Holds
    <3>3. faults' = 0 => faults = 0 BY <1>2, <2>3
    <3> QED BY <1>0, <1>2, <2>3, <2>4, <3>1, <3>2, <3>3, InjectionWalks
  <2>5. CASE scales /\ mem.trial = 1 /\ mem' = [mem EXCEPT !.trial = 2] /\ at' = at /\ verdict' = verdict
    <3>1. DOMAIN mem' = DOMAIN mem /\ mem'.trial = 2 /\ mem'.deep = mem.deep /\ mem'.tested = mem.tested /\ mem'.n = mem.n
          /\ mem'.budget = mem.budget
      BY <1>2, <2>5 DEF I!Holds
    <3>2. I!Holds(mem)' BY <1>2, <3>1 DEF I!Holds
    <3>3. th' \in I!Threads' BY <1>0, <1>1, InjectionTypes DEF I!Met
    <3>4. I!Placed' BY <1>0, <1>2, <2>5 DEF I!Placed, I!Idle
    <3>5. I!OracleInv' BY <1>0, <2>5 DEF I!OracleInv
    <3>6. I!DoseInv'
      <4>1. faults' >= 1 \/ Sleeps BY <1>2, <2>2, <2>5
      <4> QED BY <1>0, <3>1, <4>1 DEF I!DoseInv
    <3>7. I!GateInv'
      <4>1. faults' = 0 => faults = 0 BY <1>2, <2>3
      <4> QED BY <1>0, <1>2, <2>5, <3>1, <4>1 DEF I!GateInv
    <3>8. I!Met' BY <3>2, <3>3, <3>4, <3>5, <3>6, <3>7 DEF I!Met
    <3> QED BY <1>0, <2>3, <2>5, <3>8, InjectionGoesOn
  <2>6. CASE scales /\ mem.trial = 2 /\ mem' = [mem EXCEPT !.hit = Head(mem.deep)] /\ at' = "end" /\ verdict' = "fired"
    <3>1. mem'.hit = Head(mem.deep) /\ mem'.trial = 2 BY <1>2, <2>6 DEF I!Holds
    <3>2. faults >= 1 \/ Sleeps BY <1>0, <1>1, <2>6 DEF I!Met, I!DoseInv
    <3>3. faults' \in {0, 1} => Sleeps
      <4>1. faults' \in {0, 1} /\ faults >= 1 => faults' # faults + 1 BY <1>2
      <4> QED BY <2>2, <2>6, <3>2, <4>1
    <3>4. I!FiredIsReal' BY <1>0, <3>1, <3>3 DEF I!FiredIsReal
    <3>5. I!UntestedIsNotClean' BY <2>6 DEF I!UntestedIsNotClean
    <3> QED BY <1>0, <2>3, <2>6, <3>4, <3>5, InjectionEnds
  <2> QED BY <2>1, <2>4, <2>5, <2>6
<1> QED BY <1>3, <1>4

\* Every step of an injection probe.
LEMMA InjectionStep == ASSUME I!InjectionInv, I!Next PROVE I!InjectionInv'
<1>1. CASE I!Take \/ I!Baseline \/ I!Live BY <1>1, InjectionGates
<1>2. CASE I!Fan BY <1>2, InjectionFan
<1>3. ASSUME NEW w \in 1 .. Pool, I!Refill(w) \/ I!Ask(w) \/ I!Collect(w) \/ I!Drop(w) PROVE I!InjectionInv'
  BY <1>3, InjectionThreads, InjectionAsk
<1>4. CASE I!PoolEnds \/ I!Fire BY <1>4, InjectionDone
<1>5. CASE I!Time BY <1>5, InjectionTime
<1> QED BY <1>1, <1>2, <1>3, <1>4, <1>5 DEF I!Next

-----------------------------------------------------------------------------
(* What comes back (Echo).                                                  *)

\* What the apps have in common.
LEMMA EchoApp ==
    ASSUME app \in EchoApps
    PROVE  /\ Len(app.targets) \in Nat
           /\ app.probe \in {"ssrf", "xxe"} => \A n \in 1 .. Len(app.targets) : app.targets[n] \in BOOLEAN
           /\ app.probe = "xss" => \A n \in 1 .. Len(app.targets) : /\ Len(app.targets[n].fields) \in Nat \ {0}
                                                                    /\ app.targets[n].method \in {"get", "post"}
           /\ app.probe = "i18n" => /\ app.dom \in {"none", "intact", "mangled"}
                                    /\ \A n \in 1 .. Len(app.targets) : Len(app.targets[n].scripts) = 2
<1>1. \A S, T, s : s \in Couples(S, T) => Len(s) = 2 /\ s[1] \in S /\ s[2] \in T BY DEF Couples
<1>2. CASE app \in ScriptApps
  <2> DEFINE fields == Couples({"no", "flight"}, {"no", "escaped", "flight", "live"})
             page == [method : {"get", "post"}, fields : fields, stores : BOOLEAN]
  <2>1. app.probe = "xss" /\ app.targets \in {<<t>> : t \in page} BY <1>2 DEF ScriptApps
  <2>2. PICK t \in page : app.targets = <<t>> BY <2>1
  <2>3. t.fields \in fields /\ t.method \in {"get", "post"} BY <2>2
  <2>4. Len(t.fields) = 2 BY <1>1, <2>3
  <2> HIDE DEF page
  <2> QED BY <2>1, <2>2, <2>3, <2>4
<1>3. CASE app \in StoreApps
  <2>1. app.probe = "api" /\ app.targets \in {<<>>, <<[accepts |-> FALSE]>>, <<[accepts |-> FALSE], [accepts |-> TRUE]>>} BY <1>3 DEF StoreApps
  <2> QED BY <2>1
<1>4. CASE app \in FileApps
  <2> DEFINE file == [accepts : {0, 1, 3, 8}, dir : {1, 7}, runs : BOOLEAN]
             none == {[accepts |-> 0, dir |-> 0, runs |-> FALSE]}
             some == [accepts : {1, 3}, dir : {1, 7}, runs : BOOLEAN]
  <2>1. app.probe \in {"upload", "active"} /\ app.targets \in AtMostOne(file) \cup Couples(none, some) BY <1>4 DEF FileApps
  <2> HIDE DEF file, none, some
  <2>2. \A s \in AtMostOne(file) : Len(s) \in Nat BY DEF AtMostOne
  <2> QED BY <1>1, <2>1, <2>2
<1>5. CASE app \in CallbackApps
  <2>1. app.probe \in {"ssrf", "xxe"} /\ app.targets \in {<<FALSE, TRUE, TRUE>>, <<FALSE>>, <<>>} BY <1>5 DEF CallbackApps
  <2>2. Len(app.targets) \in Nat /\ \A n \in 1 .. Len(app.targets) : app.targets[n] \in BOOLEAN
    <3>1. CASE app.targets = <<FALSE, TRUE, TRUE>>
      <4>1. PICK a, b : a = FALSE /\ b = TRUE OBVIOUS
      <4>2. app.targets = <<a, b, b>> BY <3>1, <4>1, Zenon
      <4>3. a \in BOOLEAN /\ b \in BOOLEAN BY <4>1, Zenon
      <4>4. Len(app.targets) = 3 /\ app.targets[1] = a /\ app.targets[2] = b /\ app.targets[3] = b BY <4>2
      <4> QED BY <4>3, <4>4
    <3>2. CASE app.targets = <<FALSE>>
      <4>1. PICK a : a = FALSE OBVIOUS
      <4>2. app.targets = <<a>> BY <3>2, <4>1, Zenon
      <4>3. a \in BOOLEAN BY <4>1, Zenon
      <4>4. Len(app.targets) = 1 /\ app.targets[1] = a BY <4>2
      <4> QED BY <4>3, <4>4
    <3>3. CASE app.targets = <<>> BY <3>3
    <3> QED BY <2>1, <3>1, <3>2, <3>3
  <2> QED BY <2>1, <2>2
<1>6. CASE app \in LanguageApps
  <2> DEFINE one == Couples({"ok", "mangles"}, {"ok", "mangles", "500"})
             two == Couples({"ok"}, {"ok", "mangles"})
             three == Couples({"ok", "mangles"}, {"ok", "500"})
             first == [plain : {"ok", "500"}, scripts : one, shows : {"echo", "newest", "oldest", "no"}]
             second == [plain : {"ok"}, scripts : two, shows : {"newest"}]
             alone == [plain : {"ok"}, scripts : three, shows : {"newest", "oldest", "no"}]
  <2>1. app.probe = "i18n" /\ app.dom \in {"none", "intact", "mangled"} /\ app.targets \in Couples(first, second) \cup {<<t>> : t \in alone}
    BY <1>6 DEF LanguageApps
  <2>2. \A t \in first \cup second \cup alone : t.scripts \in one \cup two \cup three OBVIOUS
  <2>3. \A s \in one \cup two \cup three : Len(s) = 2 BY <1>1
  <2> HIDE DEF one, two, three, first, second, alone
  <2>4. \A t \in first \cup second \cup alone : Len(t.scripts) = 2 BY <2>2, <2>3
  <2>5. CASE app.targets \in Couples(first, second)
    <3>1. Len(app.targets) = 2 /\ app.targets[1] \in first /\ app.targets[2] \in second BY <1>1, <2>5
    <3> QED BY <2>1, <2>4, <3>1
  <2>6. CASE app.targets \in {<<t>> : t \in alone}
    <3>1. PICK t \in alone : app.targets = <<t>> BY <2>6
    <3> QED BY <2>1, <2>4, <3>1
  <2> QED BY <2>1, <2>5, <2>6
<1> QED BY <1>2, <1>3, <1>4, <1>5, <1>6 DEF EchoApps

\* Nothing has been sent at the start.
LEMMA EchoInit == E!Init => E!EchoInv
<1> SUFFICES ASSUME E!Init PROVE E!EchoInv OBVIOUS
<1>1. E!Held BY EchoApp DEF E!Init, E!Held, E!Targets, E!Oob
<1>2. E!Holds(mem) BY DEF E!Init, E!Holds
<1>3. E!ScriptMet
  <2>1. app.probe = "xss" /\ ~E!NoMore => Len(E!Target.fields) \in Nat \ {0}
    BY <1>1, <1>2 DEF E!Held, E!Holds, E!NoMore, E!Target, E!Targets
  <2> QED BY <2>1 DEF E!Init, E!ScriptMet
<1>4. E!StoreMet /\ E!OobMet /\ E!LanguageMet BY DEF E!Init, E!StoreMet, E!OobMet, E!LanguageMet
<1>5. E!FileMet
  <2>1. Variants >= 1 BY ProbesAssumption DEF ProbesAssumption
  <2> QED BY <2>1 DEF E!Init, E!FileMet, E!Shape
<1>6. E!FiredIsReal /\ E!CleanWasSeen BY DEF E!Init, E!FiredIsReal, E!CleanWasSeen
<1> QED BY <1>1, <1>2, <1>3, <1>4, <1>5, <1>6 DEF E!EchoInv, E!Met

\* What an app does is its own.
LEMMA EchoGuilt ==
    ASSUME app' = app
    PROVE  E!Guilty' = E!Guilty /\ E!Fields({"flight"})' = E!Fields({"flight"}) /\ E!Targets' = E!Targets /\ E!Oob' = E!Oob
<1>1. E!Targets' = E!Targets /\ E!Oob' = E!Oob BY DEF E!Targets, E!Oob
<1>2. ASSUME NEW kinds PROVE E!Fields(kinds)' = E!Fields(kinds) BY <1>1 DEF E!Fields
<1>3. E!Fields({"flight"})' = E!Fields({"flight"}) /\ E!Fields({"live"})' = E!Fields({"live"}) BY <1>1 DEF E!Fields
<1>4. E!Guilty' = E!Guilty BY <1>1, <1>3 DEF E!Guilty, E!Shape
<1> QED BY <1>1, <1>3, <1>4

\* A probe that ends.
LEMMA EchoEnds ==
    ASSUME E!EchoInv, app' = app, at' = "end",
           verdict' = "fired" => \/ E!Guilty
                                 \/ app.probe = "api" /\ app.drives
                                 \/ E!Fields({"flight"}) /\ ~(app.browser /\ mem'.n > Len(app.targets)),
           verdict' = "clean" /\ app.probe = "i18n" => mem'.seen
    PROVE  E!EchoInv'
<1>1. E!Held' BY EchoGuilt DEF E!EchoInv, E!Held
<1>2. E!FiredIsReal' BY EchoGuilt DEF E!FiredIsReal, E!Targets
<1>3. E!CleanWasSeen' BY DEF E!CleanWasSeen
<1> QED BY <1>1, <1>2, <1>3 DEF E!EchoInv

\* A probe that goes on: what it has met is of its own kind.
LEMMA EchoGoesOn ==
    ASSUME E!EchoInv, at # "end", app' = app, at' # "end", verdict' = verdict, E!Holds(mem'),
           app.probe = "xss" => E!ScriptMet', app.probe = "api" => E!StoreMet', app.probe \in {"upload", "active"} => E!FileMet',
           app.probe \in {"ssrf", "xxe"} => E!OobMet', app.probe = "i18n" => E!LanguageMet'
    PROVE  E!EchoInv'
<1>1. verdict = "none" BY DEF E!EchoInv, E!Held
<1>2. E!Held' BY <1>1, EchoGuilt DEF E!EchoInv, E!Held
<1>3. E!FiredIsReal' /\ E!CleanWasSeen' BY <1>1 DEF E!FiredIsReal, E!CleanWasSeen
<1>4. E!Holds(mem)' BY DEF E!Holds
<1>5. E!ScriptMet' BY DEF E!ScriptMet
<1>6. E!StoreMet' BY DEF E!StoreMet
<1>7. E!FileMet' BY DEF E!FileMet
<1>8. E!OobMet' BY DEF E!OobMet, E!Oob
<1>9. E!LanguageMet' BY DEF E!LanguageMet
<1>10. E!Met' BY <1>4, <1>5, <1>6, <1>7, <1>8, <1>9 DEF E!Met
<1> QED BY <1>2, <1>3, <1>10 DEF E!EchoInv

\* Script in a field, and in what is stored.
LEMMA EchoScript == ASSUME E!EchoInv, E!Marker \/ E!Shapes \/ E!StoredScript \/ E!Execute PROVE E!EchoInv'
<1>0. app' = app /\ at # "end" /\ app.probe = "xss" BY DEF E!Marker, E!Shapes, E!StoredScript, E!Execute, E!Is
<1>1. E!Held /\ E!Holds(mem) /\ E!ScriptMet BY <1>0 DEF E!EchoInv, E!Met
<1>2. /\ at \in {"shapes", "stored"} => ~E!NoMore
      /\ ~E!NoMore => mem.i <= Len(E!Target.fields) /\ Len(E!Target.fields) \in Nat \ {0} /\ E!Target.method \in {"get", "post"}
      /\ ~E!NoMore => mem.n \in 1 .. Len(app.targets) /\ mem.i \in 1 .. Len(E!Target.fields)
      /\ Len(app.targets) \in Nat /\ mem.n \in Nat \ {0} /\ mem.i \in Nat \ {0}
  <2>1. Len(app.targets) \in Nat /\ mem.n \in Nat \ {0} /\ mem.i \in Nat \ {0} BY <1>1 DEF E!Held, E!Targets, E!Holds
  <2>2. at \in {"shapes", "stored"} => ~E!NoMore BY <1>0, <1>1 DEF E!ScriptMet
  <2>3. ASSUME ~E!NoMore PROVE mem.n \in 1 .. Len(app.targets) BY <2>1, <2>3 DEF E!NoMore, E!Targets
  <2>4. ASSUME ~E!NoMore PROVE Len(E!Target.fields) \in Nat \ {0} /\ E!Target.method \in {"get", "post"}
    BY <1>0, <1>1, <2>3, <2>4 DEF E!Held, E!Target, E!Targets
  <2>5. ASSUME ~E!NoMore PROVE mem.i <= Len(E!Target.fields) BY <1>0, <1>1, <2>5 DEF E!ScriptMet
  <2>6. ASSUME ~E!NoMore PROVE mem.i \in 1 .. Len(E!Target.fields) BY <2>1, <2>4, <2>5, <2>6
  <2> QED BY <2>1, <2>2, <2>3, <2>4, <2>5, <2>6
\* A probe that goes on with some memory.
<1>3. ASSUME NEW m, E!Holds(m), mem' = m, at' # "end", verdict' = verdict,
             at' \in {"shapes", "stored"} => m.n <= Len(app.targets),
             m.n <= Len(app.targets) => m.i <= Len(app.targets[m.n].fields),
             \A c \in m.found : c[1] \in 1 .. Len(app.targets) /\ c[2] \in 1 .. Len(app.targets[c[1]].fields)
      PROVE  E!EchoInv'
  <2>1. m.n \in Nat BY <1>3 DEF E!Holds
  <2>2. E!NoMore' <=> m.n > Len(app.targets) BY <1>0, <1>3 DEF E!NoMore, E!Targets
  <2>3. E!Target' = app.targets[m.n] /\ E!Targets' = app.targets BY <1>0, <1>3 DEF E!Target, E!Targets
  <2>4. E!NoMore' => ~(m.n <= Len(app.targets)) BY <1>2, <2>1, <2>2
  <2>5. ~E!NoMore' => m.n <= Len(app.targets) BY <1>2, <2>1, <2>2
  <2>6. at' \in {"shapes", "stored"} => ~E!NoMore' BY <1>3, <2>4
  <2>7. ~E!NoMore' => mem'.i <= Len(E!Target'.fields) BY <1>3, <2>3, <2>5
  <2>8. \A c \in mem'.found : c[1] \in 1 .. Len(E!Targets') /\ c[2] \in 1 .. Len(E!Targets'[c[1]].fields) BY <1>3, <2>3
  <2>9. E!ScriptMet' BY <2>6, <2>7, <2>8 DEF E!ScriptMet
  <2> QED BY <1>0, <1>3, <2>9, EchoGoesOn
<1>4. \A c \in mem.found : c[1] \in 1 .. Len(app.targets) /\ c[2] \in 1 .. Len(app.targets[c[1]].fields)
  BY <1>0, <1>1 DEF E!ScriptMet, E!Targets
<1>5. ASSUME NEW m, E!Holds(m), m.n = mem.n, m.i = mem.i, ~E!NoMore, E!NextField(m),
             \A c \in m.found : c[1] \in 1 .. Len(app.targets) /\ c[2] \in 1 .. Len(app.targets[c[1]].fields)
      PROVE  E!EchoInv'
  <2>1. CASE m.i < Len(E!Target.fields)
    <3>1. PICK w : w = [m EXCEPT !.i = @ + 1] OBVIOUS
    <3>2. mem' = w /\ at' = "start" /\ verdict' = verdict BY <1>5, <2>1, <3>1 DEF E!NextField, E!Go, E!Hold
    <3>3. w.n = m.n /\ w.i = m.i + 1 /\ w.found = m.found /\ E!Holds(w)
      <4>1. m.i + 1 \in Nat \ {0} BY <1>5 DEF E!Holds
      <4> QED BY <1>5, <3>1, <4>1 DEF E!Holds
    <3>4. w.i <= Len(app.targets[w.n].fields) BY <1>2, <1>5, <2>1, <3>3 DEF E!Target, E!Targets
    <3> QED BY <1>3, <1>5, <3>2, <3>3, <3>4
  <2>2. CASE ~(m.i < Len(E!Target.fields))
    <3>1. mem' = m /\ at' = "stored" /\ verdict' = verdict BY <1>5, <2>2 DEF E!NextField, E!Go, E!Hold
    <3>2. m.n <= Len(app.targets) /\ m.i <= Len(app.targets[m.n].fields) BY <1>2, <1>5 DEF E!Target, E!Targets
    <3> QED BY <1>3, <1>5, <3>1, <3>2
  <2> QED BY <2>1, <2>2
<1>6. ASSUME at' = "end", verdict' = "fired" => E!Guilty \/ (E!Fields({"flight"}) /\ ~(app.browser /\ mem'.n > Len(app.targets)))
      PROVE  E!EchoInv'
  BY <1>0, <1>6, EchoEnds
<1>7. ASSUME NEW n \in 1 .. Len(app.targets), NEW i \in 1 .. Len(app.targets[n].fields), NEW kinds, app.targets[n].fields[i] \in kinds
      PROVE  E!Fields(kinds)
  BY <1>7 DEF E!Fields, E!Targets
<1>8. CASE E!Marker
  <2>0. at = "start" BY <1>8 DEF E!Marker, E!Is
  <2>1. CASE E!NoMore
    <3>1. PICK m : m = mem OBVIOUS
    <3>2. at' = "run" /\ verdict' = verdict /\ mem' = m BY <1>8, <2>1, <3>1 DEF E!Marker, E!Go
    <3>3. ~(m.n <= Len(app.targets)) BY <1>2, <2>1, <3>1 DEF E!NoMore, E!Targets
    <3> QED BY <1>1, <1>3, <1>4, <3>1, <3>2, <3>3
  <2>2. CASE ~E!NoMore /\ mem.budget = 0
    <3>1. PICK m : m = mem OBVIOUS
    <3>2. at' = "stored" /\ verdict' = verdict /\ mem' = m BY <1>8, <2>2, <3>1 DEF E!Marker, E!Go
    <3>3. m.n <= Len(app.targets) /\ m.i <= Len(app.targets[m.n].fields) BY <1>2, <2>2, <3>1 DEF E!Target, E!Targets
    <3> QED BY <1>1, <1>3, <1>4, <3>1, <3>2, <3>3
  <2>3. CASE ~E!NoMore /\ mem.budget # 0
    <3>1. PICK m : m = [mem EXCEPT !.budget = @ - 1, !.tested = TRUE] OBVIOUS
    <3>2. E!Holds(m) /\ m.n = mem.n /\ m.i = mem.i /\ m.found = mem.found BY <1>1, <3>1 DEF E!Holds
    <3>3. PICK w : w = [m EXCEPT !.found = @ \cup {<<mem.n, mem.i>>}] OBVIOUS
    <3>4. E!Holds(w) /\ w.n = mem.n /\ w.i = mem.i /\ w.found = mem.found \cup {<<mem.n, mem.i>>} BY <3>2, <3>3 DEF E!Holds
    <3>5. PICK x : x = [m EXCEPT !.k = 1] OBVIOUS
    <3>6. E!Holds(x) /\ x.n = mem.n /\ x.i = mem.i /\ x.found = mem.found BY <3>2, <3>5 DEF E!Holds
    <3>7. CASE E!NextField(m) BY <1>4, <1>5, <2>3, <3>2, <3>7
    <3>8. CASE E!NextField(w)
      <4>1. \A c \in w.found : c[1] \in 1 .. Len(app.targets) /\ c[2] \in 1 .. Len(app.targets[c[1]].fields)
        <5> SUFFICES ASSUME NEW c \in w.found PROVE c[1] \in 1 .. Len(app.targets) /\ c[2] \in 1 .. Len(app.targets[c[1]].fields)
          OBVIOUS
        <5>1. CASE c \in mem.found BY <1>4, <5>1
        <5>2. CASE c = <<mem.n, mem.i>>
          <6>1. c[1] = mem.n /\ c[2] = mem.i BY <5>2
          <6> QED BY <1>2, <2>3, <6>1 DEF E!Target, E!Targets
        <5> QED BY <3>4, <5>1, <5>2
      <4> QED BY <1>5, <2>3, <3>4, <3>8, <4>1
    <3>9. CASE E!Go("shapes") /\ E!Hold(x)
      <4>1. x.n <= Len(app.targets) /\ x.i <= Len(app.targets[x.n].fields) BY <1>2, <2>3, <3>6 DEF E!Target, E!Targets
      <4> QED BY <1>3, <1>4, <3>6, <3>9, <4>1 DEF E!Go, E!Hold
    <3>10. E!NextField(m) \/ E!NextField(w) \/ (E!Go("shapes") /\ E!Hold(x))
      BY <1>8, <2>3, <3>1, <3>3, <3>5 DEF E!Marker, E!NextField, E!Hold
    <3> QED BY <3>7, <3>8, <3>9, <3>10
  <2> QED BY <2>1, <2>2, <2>3
<1>9. CASE E!Shapes
  <2>0. at = "shapes" /\ ~E!NoMore BY <1>2, <1>9 DEF E!Shapes, E!Is
  <2>1. CASE E!NextField(mem)
    <3>1. PICK m : m = mem OBVIOUS
    <3>2. E!NextField(m) BY <2>1, <3>1 DEF E!NextField, E!Hold
    <3> QED BY <1>1, <1>4, <1>5, <2>0, <3>1, <3>2
  <2>2. PICK m : m = [mem EXCEPT !.budget = @ - 1, !.k = @ + 1] OBVIOUS
  <2>3. E!Holds(m) /\ m.n = mem.n /\ m.i = mem.i /\ m.found = mem.found
    <3>1. mem.k + 1 \in Nat BY <1>1 DEF E!Holds
    <3> QED BY <1>1, <2>2, <3>1 DEF E!Holds
  <2>4. CASE E!Go(at) /\ E!Hold(m)
    <3>1. m.n <= Len(app.targets) /\ m.i <= Len(app.targets[m.n].fields) BY <1>2, <2>0, <2>3 DEF E!Target, E!Targets
    <3> QED BY <1>3, <1>4, <2>0, <2>3, <2>4, <3>1 DEF E!Go, E!Hold
  <2>5. CASE E!Target.fields[mem.i] \in {"flight", "live"} /\ E!End("fired") /\ E!Hold(m)
    <3>1. mem'.n = mem.n /\ ~(mem'.n > Len(app.targets)) BY <1>2, <2>0, <2>3, <2>5 DEF E!Hold
    <3>2. CASE E!Target.fields[mem.i] = "live"
      <4>1. E!Fields({"live"}) BY <1>2, <1>7, <2>0, <3>2 DEF E!Target, E!Targets
      <4>2. E!Guilty BY <1>0, <4>1 DEF E!Guilty
      <4> QED BY <1>6, <2>5, <4>2 DEF E!End
    <3>3. CASE E!Target.fields[mem.i] = "flight"
      <4>1. E!Fields({"flight"}) BY <1>2, <1>7, <2>0, <3>3 DEF E!Target, E!Targets
      <4> QED BY <1>6, <2>5, <3>1, <4>1 DEF E!End
    <3> QED BY <2>5, <3>2, <3>3
  <2>6. E!NextField(mem) \/ (E!Go(at) /\ E!Hold(m)) \/ (E!Target.fields[mem.i] \in {"flight", "live"} /\ E!End("fired") /\ E!Hold(m))
    BY <1>9, <2>2 DEF E!Shapes, E!Hold
  <2> QED BY <2>1, <2>4, <2>5, <2>6
<1>10. CASE E!StoredScript
  <2>0. at = "stored" /\ ~E!NoMore BY <1>2, <1>10 DEF E!StoredScript, E!Is
  <2>1. CASE E!Go("run") /\ mem' = mem
    <3>1. PICK m : m = mem OBVIOUS
    <3>2. m.n <= Len(app.targets) => m.i <= Len(app.targets[m.n].fields) BY <1>2, <2>0, <3>1 DEF E!Target, E!Targets
    <3> QED BY <1>1, <1>3, <1>4, <2>1, <3>1, <3>2 DEF E!Go
  <2>2. ASSUME NEW b, E!Go("start"), mem' = [mem EXCEPT !.n = @ + 1, !.i = 1, !.budget = b] PROVE E!EchoInv'
    <3>1. PICK m : m = [mem EXCEPT !.n = @ + 1, !.i = 1, !.budget = b] OBVIOUS
    <3>2. mem.n + 1 \in Nat \ {0} BY <1>2
    <3>3. E!Holds(m) /\ m.n = mem.n + 1 /\ m.i = 1 /\ m.found = mem.found BY <1>1, <3>1, <3>2 DEF E!Holds
    <3>4. m.n <= Len(app.targets) => m.i <= Len(app.targets[m.n].fields)
      <4>1. ASSUME m.n <= Len(app.targets) PROVE Len(app.targets[m.n].fields) \in Nat \ {0}
        <5>1. m.n \in 1 .. Len(app.targets) BY <1>2, <3>2, <3>3, <4>1
        <5> QED BY <1>0, <1>1, <5>1 DEF E!Held, E!Targets
      <4> QED BY <3>3, <4>1
    <3> QED BY <1>3, <1>4, <2>2, <3>1, <3>3, <3>4 DEF E!Go
  <2>3. CASE E!Target.method # "get" /\ E!Target.stores /\ E!End("fired")
    <3>1. mem.n \in 1 .. Len(app.targets) /\ E!Target.method = "post" BY <1>2, <2>0, <2>3
    <3>2. E!Guilty BY <1>0, <2>3, <3>1 DEF E!Guilty, E!Target, E!Targets
    <3> QED BY <1>6, <2>3, <3>2 DEF E!End
  <2>4. CASE E!Go("start") /\ E!Hold([mem EXCEPT !.n = @ + 1, !.i = 1])
    <3>1. PICK b : b = mem.budget OBVIOUS
    <3>2. mem' = [mem EXCEPT !.n = @ + 1, !.i = 1, !.budget = b] BY <1>1, <2>4, <3>1 DEF E!Hold, E!Holds
    <3> QED BY <2>2, <2>4, <3>2
  <2>5. CASE E!Go("start") /\ E!Hold([[mem EXCEPT !.n = @ + 1, !.i = 1] EXCEPT !.budget = @ - 1])
    <3>1. PICK b : b = mem.budget - 1 OBVIOUS
    <3>2. mem' = [mem EXCEPT !.n = @ + 1, !.i = 1, !.budget = b] BY <1>1, <2>5, <3>1 DEF E!Hold, E!Holds
    <3> QED BY <2>2, <2>5, <3>2
  <2> QED BY <1>10, <2>1, <2>3, <2>4, <2>5 DEF E!StoredScript
<1>11. CASE E!Execute
  <2>1. ASSUME verdict' = "fired" PROVE E!Guilty
    <3>1. PICK c \in mem.found : app.targets[c[1]].fields[c[2]] = "live" BY <1>11, <2>1 DEF E!Execute, E!End, E!Either, E!Targets
    <3>2. E!Fields({"live"}) BY <1>4, <1>7, <3>1
    <3> QED BY <1>0, <3>2 DEF E!Guilty
  <2> QED BY <1>6, <1>11, <2>1 DEF E!Execute, E!End
<1> QED BY <1>8, <1>9, <1>10, <1>11

\* A create through the API, or in the browser, and what is rendered of it.
LEMMA EchoStore == ASSUME E!EchoInv, E!Create \/ E!Render PROVE E!EchoInv'
<1>0. app' = app /\ at # "end" /\ app.probe = "api" BY DEF E!Create, E!Render, E!Is
<1>1. E!Held /\ E!Holds(mem) /\ E!StoreMet BY <1>0 DEF E!EchoInv, E!Met
<1>2. ASSUME NEW v \in {"na"}, E!BrowserCreate(v) PROVE E!EchoInv'
  BY <1>0, <1>2, EchoEnds DEF E!BrowserCreate, E!End
<1>3. ASSUME E!Holds(mem'), at' # "end", verdict' = verdict, mem'.tested => \E n \in 1 .. Len(app.targets) : app.targets[n].accepts
      PROVE  E!EchoInv'
  <2>1. E!StoreMet' BY <1>0, <1>3 DEF E!StoreMet, E!Targets
  <2> QED BY <1>0, <1>3, <2>1, EchoGoesOn
<1>4. mem.tested => \E n \in 1 .. Len(app.targets) : app.targets[n].accepts BY <1>0, <1>1 DEF E!StoreMet, E!Targets
<1>5. CASE E!Create
  <2>1. CASE app.targets = <<>> BY <1>2, <1>5, <2>1 DEF E!Create, E!Targets
  <2>2. CASE app.targets # <<>> /\ E!NoMore
    <3>1. at' = "render" /\ verdict' = verdict /\ mem' = mem BY <1>5, <2>2 DEF E!Create, E!Targets, E!Go
    <3> QED BY <1>1, <1>3, <1>4, <3>1
  <2>3. CASE app.targets # <<>> /\ ~E!NoMore
    <3>1. at' # "end" /\ verdict' = verdict BY <1>5, <2>3 DEF E!Create, E!Targets, E!Go, E!Is
    <3>2. CASE E!Hold([mem EXCEPT !.n = @ + 1])
      <4>1. mem.n + 1 \in Nat \ {0} BY <1>1 DEF E!Holds
      <4>2. E!Holds(mem') /\ mem'.tested = mem.tested BY <1>1, <3>2, <4>1 DEF E!Hold, E!Holds
      <4> QED BY <1>3, <1>4, <3>1, <4>2
    <3>3. CASE E!Hold([mem EXCEPT !.n = @ + 1, !.tested = @ \/ E!Target.accepts])
      <4>1. mem.n + 1 \in Nat \ {0} BY <1>1 DEF E!Holds
      <4>2. PICK t : t = (mem.tested \/ E!Target.accepts) OBVIOUS
      <4>3. mem' = [mem EXCEPT !.n = @ + 1, !.tested = t] BY <3>3, <4>2, Zenon DEF E!Hold
      <4>4. E!Holds(mem') /\ mem'.tested = t BY <1>1, <4>1, <4>3 DEF E!Holds
      <4>5. t => mem.tested \/ E!Target.accepts BY <4>2, Zenon
      <4>6. mem.n \in 1 .. Len(app.targets) BY <1>1, <2>3 DEF E!Holds, E!Held, E!NoMore, E!Targets
      <4>7. mem'.tested => mem.tested \/ E!Target.accepts BY <4>4, <4>5, Zenon
      <4>8. E!Target = app.targets[mem.n] BY DEF E!Target, E!Targets
      <4> QED BY <1>3, <1>4, <3>1, <4>4, <4>6, <4>7, <4>8
    <3> QED BY <1>5, <2>3, <3>2, <3>3 DEF E!Create, E!Targets
  <2> QED BY <2>1, <2>2, <2>3
<1>6. CASE E!Render
  <2>1. CASE ~mem.tested BY <1>2, <1>6, <2>1 DEF E!Render
  <2>2. CASE mem.tested
    <3>1. E!End(IF app.unescaped THEN "fired" ELSE "clean") BY <1>6, <2>2 DEF E!Render
    <3>2. app.unescaped => E!Guilty BY <1>0, <1>4, <2>2 DEF E!Guilty, E!Targets
    <3> QED BY <1>0, <3>1, <3>2, EchoEnds DEF E!End
  <2> QED BY <2>1, <2>2
<1> QED BY <1>5, <1>6

\* A file that is uploaded in shapes, and looked for in directories.
LEMMA EchoFile == ASSUME E!EchoInv, E!Upload \/ E!Fetch PROVE E!EchoInv'
<1>0. app' = app /\ at # "end" /\ app.probe \in {"upload", "active"} BY DEF E!Upload, E!Fetch
<1>1. E!Held /\ E!Holds(mem) /\ E!FileMet BY <1>0 DEF E!EchoInv, E!Met
<1>2. /\ mem.n \in Nat \ {0} /\ mem.i \in Nat \ {0} /\ mem.k \in Nat /\ E!Shape(app.probe) \in Nat \ {0} /\ mem.i <= E!Shape(app.probe)
      /\ Len(app.targets) \in Nat
  <2>1. Variants \in Nat \ {0} BY ProbesAssumption DEF ProbesAssumption
  <2>2. E!Shape(app.probe) \in Nat \ {0} BY <2>1 DEF E!Shape
  <2> QED BY <1>0, <1>1, <2>2 DEF E!Held, E!Targets, E!Holds, E!FileMet
<1>3. ASSUME E!Holds(mem'), at' # "end", verdict' = verdict, mem'.i <= E!Shape(app.probe), at' = "fetch" => mem'.n <= Len(app.targets)
      PROVE  E!EchoInv'
  <2>1. mem'.n \in Nat BY <1>3 DEF E!Holds
  <2>2. E!Shape(app.probe)' = E!Shape(app.probe) BY <1>0 DEF E!Shape
  <2>3. E!NoMore' <=> mem'.n > Len(app.targets) BY <1>0 DEF E!NoMore, E!Targets
  <2>4. at' = "fetch" => ~E!NoMore' BY <1>2, <1>3, <2>1, <2>3
  <2>5. E!FileMet' BY <1>0, <1>3, <2>2, <2>4 DEF E!FileMet
  <2> QED BY <1>0, <1>3, <2>5, EchoGoesOn
<1>4. ASSUME NEW n \in Nat \ {0}, NEW i \in Nat \ {0}, NEW k \in Nat, NEW t, mem' = [mem EXCEPT !.n = n, !.i = i, !.k = k, !.tested = t]
      PROVE  E!Holds(mem') /\ mem'.n = n /\ mem'.i = i
  BY <1>1, <1>4 DEF E!Holds
<1>5. CASE E!Upload
  <2>1. CASE E!End(E!Either("clean"))
    <3>1. verdict' # "fired" /\ at' = "end" BY <2>1 DEF E!End, E!Either
    <3> QED BY <1>0, <3>1, EchoEnds
  <2>2. CASE E!Go("start") /\ mem' = [mem EXCEPT !.tested = TRUE,
                                                        !.n = IF mem.i < E!Shape(app.probe) THEN @ ELSE @ + 1,
                                                        !.i = IF @ < E!Shape(app.probe) THEN @ + 1 ELSE 1]
    <3>1. PICK n \in Nat \ {0}, i \in Nat \ {0} : n = (IF mem.i < E!Shape(app.probe) THEN mem.n ELSE mem.n + 1)
                                                /\ i = (IF mem.i < E!Shape(app.probe) THEN mem.i + 1 ELSE 1)
      BY <1>2
    <3>2. mem' = [mem EXCEPT !.n = n, !.i = i, !.k = mem.k, !.tested = TRUE] BY <1>1, <2>2, <3>1 DEF E!Holds
    <3>3. PICK k, t : k = mem.k /\ t = TRUE OBVIOUS
    <3>4. E!Holds(mem') /\ mem'.i = i BY <1>2, <1>4, <3>2, <3>3
    <3>5. i <= E!Shape(app.probe) BY <1>2, <3>1
    <3> QED BY <1>3, <2>2, <3>4, <3>5 DEF E!Go
  <2>3. CASE ~E!NoMore /\ E!Go("fetch") /\ E!Hold([mem EXCEPT !.tested = TRUE, !.k = 1])
    <3>1. E!Holds(mem') /\ mem'.n = mem.n /\ mem'.i = mem.i BY <1>1, <2>3 DEF E!Holds, E!Hold
    <3>2. mem'.n <= Len(app.targets) BY <1>2, <2>3, <3>1 DEF E!NoMore, E!Targets
    <3> QED BY <1>2, <1>3, <2>3, <3>1, <3>2 DEF E!Go
  <2> QED BY <1>5, <2>1, <2>2, <2>3 DEF E!Upload
<1>6. CASE E!Fetch
  <2>0. at = "fetch" /\ mem.n <= Len(app.targets)
    <3>1. at = "fetch" BY <1>6 DEF E!Fetch
    <3>2. ~E!NoMore BY <1>0, <1>1, <3>1 DEF E!FileMet
    <3> QED BY <1>2, <3>1, <3>2 DEF E!NoMore, E!Targets
  <2>1. CASE E!Go("start") /\ E!NextShape
    <3>1. CASE mem.i < E!Shape(app.probe)
      <4>1. E!Hold([mem EXCEPT !.i = @ + 1, !.k = 0]) BY <2>1, <3>1 DEF E!NextShape
      <4>2. mem.i + 1 \in Nat \ {0} /\ mem.i + 1 <= E!Shape(app.probe) BY <1>2, <3>1
      <4>3. E!Holds(mem') /\ mem'.i = mem.i + 1 BY <1>1, <4>1, <4>2 DEF E!Hold, E!Holds
      <4> QED BY <1>3, <2>1, <4>2, <4>3 DEF E!Go
    <3>2. CASE ~(mem.i < E!Shape(app.probe))
      <4>1. E!Hold([mem EXCEPT !.n = @ + 1, !.i = 1, !.k = 0]) BY <2>1, <3>2 DEF E!NextShape
      <4>2. mem.n + 1 \in Nat \ {0} /\ 1 <= E!Shape(app.probe) BY <1>2
      <4>3. E!Holds(mem') /\ mem'.i = 1 BY <1>1, <4>1, <4>2 DEF E!Hold, E!Holds
      <4> QED BY <1>3, <2>1, <4>2, <4>3 DEF E!Go
    <3> QED BY <3>1, <3>2
  <2>2. CASE E!Hold([mem EXCEPT !.k = @ + 1]) /\ E!Go(at)
    <3>1. mem.k + 1 \in Nat BY <1>2
    <3>2. E!Holds(mem') /\ mem'.n = mem.n /\ mem'.i = mem.i BY <1>1, <2>2, <3>1 DEF E!Holds, E!Hold
    <3> QED BY <1>2, <1>3, <2>0, <2>2, <3>2 DEF E!Go
  <2>3. CASE E!Lands /\ E!Target.runs /\ E!End("fired")
    <3>1. mem.n \in 1 .. Len(app.targets) /\ mem.i \in 1 .. E!Shape(app.probe) BY <1>2, <2>0
    <3>2. app.targets[mem.n].accepts \in 1 .. E!Shape(app.probe) /\ app.targets[mem.n].runs BY <2>3, <3>1 DEF E!Lands, E!Target, E!Targets
    <3>3. E!Guilty BY <1>0, <3>1, <3>2 DEF E!Guilty, E!Targets
    <3> QED BY <1>0, <2>3, <3>3, EchoEnds DEF E!End
  <2> QED BY <1>6, <2>1, <2>2, <2>3 DEF E!Fetch
<1> QED BY <1>5, <1>6

\* A token that the collector hears of.
LEMMA EchoOob ==
    ASSUME E!EchoInv, E!FileEntity \/ E!Token \/ (\E n \in 1 .. 3 : E!Callback(n)) \/ E!Await \/ E!Metadata PROVE E!EchoInv'
<1>0. app' = app /\ at # "end" /\ app.probe \in {"ssrf", "xxe"}
  BY DEF E!FileEntity, E!Token, E!Callback, E!Await, E!Metadata, E!Is, E!Oob
<1>1. E!Held /\ E!Holds(mem) /\ E!OobMet BY <1>0 DEF E!EchoInv, E!Met
<1>2. /\ mem.n \in Nat \ {0} /\ Len(app.targets) \in Nat /\ (\A n \in 1 .. Len(app.targets) : app.targets[n] \in BOOLEAN)
      /\ mem.found \subseteq {<<n>> : n \in 1 .. Len(app.targets)}
      /\ mem.heard # {} => TRUE \in {app.targets[n] : n \in 1 .. Len(app.targets)}
  BY <1>0, <1>1 DEF E!Held, E!Targets, E!Holds, E!OobMet, E!Oob
<1>3. ASSUME E!Holds(mem'), at' # "end", verdict' = verdict, mem'.found \subseteq {<<n>> : n \in 1 .. Len(app.targets)},
             mem'.heard # {} => TRUE \in {app.targets[n] : n \in 1 .. Len(app.targets)}
      PROVE  E!EchoInv'
  <2>1. E!OobMet' BY <1>0, <1>3 DEF E!OobMet, E!Targets
  <2> QED BY <1>0, <1>3, <2>1, EchoGoesOn
<1>4. ASSUME at' = "end", verdict' = "fired" => app.shows \/ TRUE \in {app.targets[n] : n \in 1 .. Len(app.targets)} PROVE E!EchoInv'
  <2>1. E!Guilty <=> app.shows \/ TRUE \in {app.targets[n] : n \in 1 .. Len(app.targets)} BY <1>0 DEF E!Guilty, E!Targets
  <2> QED BY <1>0, <1>4, <2>1, EchoEnds
<1>5. CASE E!FileEntity
  <2>1. CASE E!Go(at)
    <3>1. mem' = [mem EXCEPT !.k = 1] BY <1>5 DEF E!FileEntity, E!Hold
    <3>2. E!Holds(mem') /\ mem'.found = mem.found /\ mem'.heard = mem.heard BY <1>1, <3>1 DEF E!Holds
    <3> QED BY <1>0, <1>2, <1>3, <2>1, <3>2 DEF E!Go
  <2>2. CASE app.shows /\ E!End("fired") BY <1>4, <2>2 DEF E!End
  <2> QED BY <1>5, <2>1, <2>2 DEF E!FileEntity
<1>6. CASE E!Token
  <2>1. CASE E!NoMore
    <3>1. at' = "await" /\ verdict' = verdict /\ mem' = mem BY <1>6, <2>1 DEF E!Token, E!Go
    <3> QED BY <1>1, <1>2, <1>3, <3>1
  <2>2. CASE ~E!NoMore
    <3>0. at' # "end" /\ verdict' = verdict BY <1>0, <1>6, <2>2 DEF E!Token, E!Go
    <3>1. mem.n + 1 \in Nat \ {0} /\ mem.n \in 1 .. Len(app.targets) BY <1>2, <2>2 DEF E!NoMore, E!Targets
    <3>2. CASE E!Hold([mem EXCEPT !.n = @ + 1])
      <4>1. E!Holds(mem') /\ mem'.found = mem.found /\ mem'.heard = mem.heard BY <1>1, <3>1, <3>2 DEF E!Holds, E!Hold
      <4> QED BY <1>2, <1>3, <3>0, <4>1
    <3>3. CASE E!Hold([mem EXCEPT !.n = @ + 1, !.found = @ \cup {<<mem.n>>}])
      <4>1. E!Holds(mem') /\ mem'.found = mem.found \cup {<<mem.n>>} /\ mem'.heard = mem.heard BY <1>1, <3>1, <3>3 DEF E!Holds, E!Hold
      <4>2. mem'.found \subseteq {<<n>> : n \in 1 .. Len(app.targets)} BY <1>2, <3>1, <4>1
      <4> QED BY <1>2, <1>3, <3>0, <4>1, <4>2
    <3> QED BY <1>6, <2>2, <3>2, <3>3 DEF E!Token
  <2> QED BY <2>1, <2>2
<1>7. ASSUME NEW n \in 1 .. 3, E!Callback(n) PROVE E!EchoInv'
  <2>1. PICK m \in 1 .. Len(app.targets) : <<n>> = <<m>> BY <1>2, <1>7 DEF E!Callback
  <2>2. n = m BY <2>1
  <2>3. app.targets[n] = TRUE BY <1>2, <1>7, <2>1, <2>2, Zenon DEF E!Callback, E!Targets
  <2>4. TRUE \in {app.targets[l] : l \in 1 .. Len(app.targets)} BY <2>1, <2>2, <2>3
  <2>5. mem' = [mem EXCEPT !.heard = @ \cup {n}] /\ at' = at /\ verdict' = verdict BY <1>7 DEF E!Callback
  <2>6. E!Holds(mem') /\ mem'.found = mem.found BY <1>1, <2>5 DEF E!Holds
  <2> QED BY <1>0, <1>2, <1>3, <2>4, <2>5, <2>6
<1>8. CASE E!Await
  <2>1. CASE mem.heard # {} BY <1>2, <1>4, <1>8, <2>1 DEF E!Await, E!End
  <2>2. CASE mem.heard = {} /\ app.probe = "ssrf"
    <3>1. at' = "inband" /\ verdict' = verdict /\ mem' = mem BY <1>8, <2>2 DEF E!Await, E!Go
    <3> QED BY <1>1, <1>2, <1>3, <3>1
  <2>3. CASE mem.heard = {} /\ app.probe # "ssrf" BY <1>4, <1>8, <2>3 DEF E!Await, E!End
  <2> QED BY <2>1, <2>2, <2>3
<1>9. CASE E!Metadata BY <1>4, <1>9 DEF E!Metadata, E!End
<1> QED BY <1>5, <1>6, <1>7, <1>8, <1>9

\* Text in other languages.
LEMMA EchoLanguage == ASSUME E!EchoInv, E!Plain \/ E!Script \/ E!Weigh PROVE E!EchoInv'
<1>0. app' = app /\ at # "end" /\ app.probe = "i18n" BY DEF E!Plain, E!Script, E!Weigh, E!Is
<1>1. E!Held /\ E!Holds(mem) /\ E!LanguageMet BY <1>0 DEF E!EchoInv, E!Met
<1>2. /\ mem.n \in Nat \ {0} /\ mem.k \in Nat /\ Len(app.targets) \in Nat
      /\ app.dom \in {"none", "intact", "mangled"} /\ (\A n \in 1 .. Len(app.targets) : Len(app.targets[n].scripts) = 2)
      /\ at = "script" => ~E!NoMore /\ mem.k >= 1
      /\ mem.corrupted => E!Guilty
  BY <1>0, <1>1 DEF E!Held, E!Targets, E!Holds, E!LanguageMet
<1>3. ASSUME E!Holds(mem'), at' # "end", verdict' = verdict, at' = "script" => mem'.n <= Len(app.targets) /\ mem'.k >= 1,
             mem'.corrupted => E!Guilty
      PROVE  E!EchoInv'
  <2>1. mem'.n \in Nat BY <1>3 DEF E!Holds
  <2>2. E!NoMore' <=> mem'.n > Len(app.targets) BY <1>0 DEF E!NoMore, E!Targets
  <2>3. at' = "script" => ~E!NoMore' BY <1>2, <1>3, <2>1, <2>2
  <2>4. mem'.corrupted => E!Guilty' BY <1>0, <1>3, EchoGuilt
  <2>5. E!LanguageMet' BY <1>0, <1>3, <2>3, <2>4 DEF E!LanguageMet
  <2> QED BY <1>0, <1>3, <2>5, EchoGoesOn
<1>4. ASSUME NEW n \in 1 .. Len(app.targets), NEW k \in 1 .. 2, app.targets[n].scripts[k] \in {"mangles", "500"} PROVE E!Guilty
  <2>1. {"mangles", "500"} \cap {app.targets[n].scripts[j] : j \in 1 .. 2} # {} BY <1>4
  <2>2. \E l \in 1 .. Len(app.targets) : {"mangles", "500"} \cap {app.targets[l].scripts[j] : j \in 1 .. 2} # {} BY <2>1
  <2> QED BY <1>0, <2>2 DEF E!Guilty, E!Targets
<1>5. ASSUME NEW m, E!Holds(m), m.corrupted = mem.corrupted, mem' = m, verdict' = verdict,
             at' \in {"start", "judge"} \/ (at' = "script" /\ m.n <= Len(app.targets) /\ m.k >= 1)
      PROVE  E!EchoInv'
  BY <1>2, <1>3, <1>5
<1>6. CASE E!Plain
  <2>1. CASE E!NoMore \/ mem.budget = 0
    <3>1. at' = "judge" /\ verdict' = verdict /\ mem' = mem BY <1>6, <2>1 DEF E!Plain, E!Go
    <3>2. PICK m : m = mem OBVIOUS
    <3> QED BY <1>1, <1>5, <3>1, <3>2
  <2>2. CASE ~(E!NoMore \/ mem.budget = 0)
    <3>1. PICK m : m = [mem EXCEPT !.budget = @ - 1] OBVIOUS
    <3>2. E!Holds(m) /\ m.n = mem.n /\ m.corrupted = mem.corrupted BY <1>1, <3>1 DEF E!Holds
    <3>3. PICK w : w = [m EXCEPT !.n = @ + 1] OBVIOUS
    <3>4. E!Holds(w) /\ w.corrupted = mem.corrupted
      <4>1. m.n + 1 \in Nat \ {0} BY <3>2 DEF E!Holds
      <4> QED BY <3>2, <3>3, <4>1 DEF E!Holds
    <3>5. PICK x : x = [m EXCEPT !.k = 1, !.tested = TRUE] OBVIOUS
    <3>6. E!Holds(x) /\ x.n = mem.n /\ x.k = 1 /\ x.corrupted = mem.corrupted BY <3>2, <3>5 DEF E!Holds
    <3>7. at = "start" BY <1>6 DEF E!Plain, E!Is
    <3>8. (E!Go(at) /\ E!Hold(w)) \/ (E!Go("script") /\ E!Hold(x)) BY <1>6, <2>2, <3>1, <3>3, <3>5 DEF E!Plain, E!Hold
    <3>9. CASE E!Go(at) /\ E!Hold(w) BY <1>5, <3>4, <3>7, <3>9 DEF E!Go, E!Hold
    <3>10. CASE E!Go("script") /\ E!Hold(x)
      <4>1. x.n <= Len(app.targets) /\ x.k >= 1 BY <1>2, <2>2, <3>6 DEF E!NoMore, E!Targets
      <4> QED BY <1>5, <3>6, <3>10, <4>1 DEF E!Go, E!Hold
    <3> QED BY <3>8, <3>9, <3>10
  <2> QED BY <2>1, <2>2
<1>7. CASE E!Script
  <2>0. at = "script" /\ mem.n \in 1 .. Len(app.targets) /\ mem.k >= 1
    <3>1. at = "script" BY <1>7 DEF E!Script, E!Is
    <3> QED BY <1>2, <3>1 DEF E!NoMore, E!Targets
  <2>1. CASE E!Go("start") /\ E!Hold([mem EXCEPT !.n = @ + 1])
    <3>1. PICK m : m = [mem EXCEPT !.n = @ + 1] OBVIOUS
    <3>2. mem.n + 1 \in Nat \ {0} BY <1>2
    <3>3. E!Holds(m) /\ m.corrupted = mem.corrupted BY <1>1, <3>1, <3>2 DEF E!Holds
    <3> QED BY <1>5, <2>1, <3>1, <3>3 DEF E!Go, E!Hold
  <2>2. PICK m : m = [mem EXCEPT !.budget = @ - 1, !.k = @ + 1] OBVIOUS
  <2>3. E!Holds(m) /\ m.n = mem.n /\ m.k = mem.k + 1 /\ m.k >= 1 /\ m.corrupted = mem.corrupted
    <3>1. mem.k + 1 \in Nat /\ mem.k + 1 >= 1 BY <1>2
    <3> QED BY <1>1, <2>2, <3>1 DEF E!Holds
  <2>4. CASE E!Go(at) /\ E!Hold(m) BY <1>2, <1>5, <2>0, <2>3, <2>4 DEF E!Go, E!Hold
  <2>5. ASSUME ~(mem.k > Len(E!Target.scripts)), E!Target.scripts[mem.k] = "500", E!End("fired") PROVE E!EchoInv'
    <3>0. Len(E!Target.scripts) = 2 BY <1>2, <2>0 DEF E!Target, E!Targets
    <3>1. mem.k \in 1 .. 2 BY <1>2, <2>0, <2>5, <3>0
    <3>2. E!Guilty BY <1>4, <2>0, <2>5, <3>1 DEF E!Target, E!Targets
    <3> QED BY <1>0, <2>5, <3>2, EchoEnds DEF E!End
  <2>6. ASSUME ~(mem.k > Len(E!Target.scripts)), E!Go(at), NEW s, NEW c, E!Hold([m EXCEPT !.survived = s, !.corrupted = c]),
               c => mem.corrupted \/ E!Judge(E!Target, mem.k) = "corrupted"
        PROVE  E!EchoInv'
    <3>0. mem' = [m EXCEPT !.survived = s, !.corrupted = c] BY <2>6, Zenon DEF E!Hold
    <3>1. E!Holds(mem') /\ mem'.n = mem.n /\ mem'.k = m.k /\ mem'.corrupted = c BY <2>3, <3>0 DEF E!Holds
    <3>9. Len(E!Target.scripts) = 2 BY <1>2, <2>0 DEF E!Target, E!Targets
    <3>2. mem.k \in 1 .. 2 BY <1>2, <2>0, <2>6, <3>9
    <3>3. E!Judge(E!Target, mem.k) = "corrupted" => E!Guilty BY <1>4, <2>0, <3>2 DEF E!Judge, E!Target, E!Targets
    <3>4. c => E!Guilty BY <1>2, <2>6, <3>3, Zenon
    <3>5. mem'.corrupted => E!Guilty BY <3>1, <3>4, Zenon
    <3>6. mem'.n <= Len(app.targets) /\ mem'.k >= 1 BY <1>2, <2>0, <2>3, <3>1
    <3> QED BY <1>3, <2>0, <2>6, <3>1, <3>5, <3>6 DEF E!Go
  <2>7. CASE mem.k > Len(E!Target.scripts) \/ mem.budget = 0 BY <1>7, <2>1, <2>7 DEF E!Script
  <2>8. CASE ~(mem.k > Len(E!Target.scripts) \/ mem.budget = 0)
    <3>1. CASE E!Go(at) /\ E!Hold(m) BY <2>4, <3>1
    <3>2. CASE E!Target.scripts[mem.k] = "500" /\ E!End("fired") BY <2>5, <2>8, <3>2
    <3>3. CASE /\ E!Go(at)
               /\ E!Hold([m EXCEPT !.survived  = @ \/ E!Judge(E!Target, mem.k) = "survived",
                                   !.corrupted = @ \/ E!Judge(E!Target, mem.k) = "corrupted"])
      <4>1. PICK s : s = (m.survived \/ E!Judge(E!Target, mem.k) = "survived") OBVIOUS
      <4>2. PICK c : c = (m.corrupted \/ E!Judge(E!Target, mem.k) = "corrupted") OBVIOUS
      <4>3. E!Hold([m EXCEPT !.survived = s, !.corrupted = c]) BY <3>3, <4>1, <4>2, Zenon
      <4>4. c => mem.corrupted \/ E!Judge(E!Target, mem.k) = "corrupted" BY <2>3, <4>2, Zenon
      <4> QED BY <2>6, <2>8, <3>3, <4>3, <4>4
    <3> QED BY <1>7, <2>2, <2>8, <3>1, <3>2, <3>3 DEF E!Script, E!Hold
  <2> QED BY <2>7, <2>8
<1>8. CASE E!Weigh
  <2> DEFINE dom == IF app.browser THEN app.dom ELSE "none"
  <2>1. dom \in {"none", "intact", "mangled"} /\ (dom = "mangled" => app.dom = "mangled") BY <1>2
  <2>2. PICK s : s = (mem.survived \/ mem.corrupted \/ dom # "none") OBVIOUS
  <2>3. PICK why : why = (IF mem.corrupted \/ dom = "mangled" THEN "corrupted" ELSE mem.why) OBVIOUS
  <2>4. mem' = [mem EXCEPT !.why = why, !.seen = s] BY <1>8, <2>2, <2>3, Zenon DEF E!Weigh, E!Hold
  <2>5. mem'.seen = s BY <1>1, <2>4 DEF E!Holds
  <2>6. at' = "end" /\ verdict' = (CASE mem.corrupted                    -> "fired"
                         [] ~mem.corrupted /\ mem.survived   -> "clean"
                         [] OTHER -> CASE dom = "none"    -> "na"
                                       [] dom = "mangled" -> "fired"
                                       [] OTHER           -> "clean")
    BY <1>8 DEF E!Weigh, E!End
  <2> HIDE DEF dom
  <2>7. verdict' = "fired" => mem.corrupted \/ dom = "mangled" BY <2>6
  <2>8. verdict' = "clean" => mem.survived \/ dom # "none" BY <2>6
  <2>9. app.dom = "mangled" => E!Guilty BY <1>0 DEF E!Guilty
  <2>10. verdict' = "clean" => mem'.seen BY <2>2, <2>5, <2>8, Zenon
  <2> QED BY <1>0, <1>2, <2>1, <2>6, <2>7, <2>9, <2>10, EchoEnds
<1> QED BY <1>6, <1>7, <1>8

\* Every step of the family.
LEMMA EchoStep == ASSUME E!EchoInv, E!Next PROVE E!EchoInv'
  BY EchoScript, EchoStore, EchoFile, EchoOob, EchoLanguage DEF E!Next

-----------------------------------------------------------------------------
(* What is written and read by others (Records).                            *)

\* What the apps have in common.
LEMMA RecordApp ==
    ASSUME app \in RecordApps
    PROVE  /\ Len(app.pairs) \in Nat
           /\ app.probe \in R!Cross \cup {"collection"} => \A n \in 1 .. Len(app.pairs) : app.pairs[n].gate \in {"public", "login", "owner"}
           /\ app.probe = "race" => app.ids \in {"atomic", "racy", "one", "hidden"}
           /\ app.probe = "load" => app.capacity \in Nat
<1>1. \A S, T, s : s \in Couples(S, T) => Len(s) = 2 /\ s[1] \in S /\ s[2] \in T BY DEF Couples
<1>2. CASE app \in OwnerApps
  <2> DEFINE a == {[own |-> FALSE, gate |-> "login"]}
             b == {[own |-> TRUE, gate |-> "login"]}
             c == [own : {TRUE}, gate : {"public", "owner"}]
             d == [own : {TRUE}, gate : {"public", "login", "owner"}]
  <2>1. app.probe \in {"bola", "record", "backend"} /\ app.pairs \in {<<>>} \cup Couples(a, b) \cup Couples(c, d) BY <1>2 DEF OwnerApps
  <2>5. \A p \in a : p.gate \in {"public", "login", "owner"} OBVIOUS
  <2>6. \A p \in b : p.gate \in {"public", "login", "owner"} OBVIOUS
  <2>7. \A p \in c : p.gate \in {"public", "login", "owner"} OBVIOUS
  <2>8. \A p \in d : p.gate \in {"public", "login", "owner"} OBVIOUS
  <2> HIDE DEF a, b, c, d
  <2>2. \A p \in a \cup b \cup c \cup d : p.gate \in {"public", "login", "owner"} BY <2>5, <2>6, <2>7, <2>8
  <2>3. CASE app.pairs = <<>> BY <2>1, <2>3
  <2>4. CASE app.pairs \in Couples(a, b) \cup Couples(c, d)
    <3>1. Len(app.pairs) = 2 /\ app.pairs[1] \in a \cup c /\ app.pairs[2] \in b \cup d BY <1>1, <2>4
    <3> QED BY <2>1, <2>2, <3>1
  <2> QED BY <2>1, <2>3, <2>4
<1>3. CASE app \in SharedApps
  <2> DEFINE a == [own : BOOLEAN, gate : {"public", "login", "owner"}]
  <2>1. app.probe \in {"collection", "idor"} /\ app.pairs \in AtMostOne(a) BY <1>3 DEF SharedApps
  <2>2. CASE app.pairs = <<>> BY <2>1, <2>2 DEF R!Cross
  <2>3. CASE app.pairs \in {<<p>> : p \in a}
    <3>1. PICK p \in a : app.pairs = <<p>> BY <2>3
    <3>2. p.gate \in {"public", "login", "owner"} BY <3>1
    <3> HIDE DEF a
    <3> QED BY <2>1, <3>1, <3>2 DEF R!Cross
  <2> HIDE DEF a
  <2> QED BY <2>1, <2>2, <2>3 DEF AtMostOne
<1>4. CASE app \in DurableApps
  <2> DEFINE a == [observed : BOOLEAN, byId : BOOLEAN, own : BOOLEAN, keeps : BOOLEAN]
             b == [observed : {FALSE}, byId : BOOLEAN, own : {TRUE}, keeps : {TRUE}]
  <2>1. app.probe = "durable" /\ app.pairs \in Couples(a, b) BY <1>4 DEF DurableApps
  <2> HIDE DEF a, b
  <2>2. Len(app.pairs) = 2 BY <1>1, <2>1
  <2> QED BY <2>1, <2>2 DEF R!Cross
<1>5. CASE app \in ListApps
  <2> DEFINE a == [records : BOOLEAN, wants : {"marker", "number", "bool", "date", "nothing"},
                             says : BOOLEAN, keeps : BOOLEAN, fresh : BOOLEAN]
  <2>1. app.probe = "list" /\ app.pairs \in {<<p>> : p \in a} BY <1>5 DEF ListApps
  <2> HIDE DEF a
  <2> QED BY <2>1 DEF R!Cross
<1>6. CASE app \in BurstApps
  <2>1. app.probe \in {"race", "load"} /\ app.pairs = <<>> BY <1>6 DEF BurstApps
  <2>2. app.probe = "race" => app.ids \in {"atomic", "racy", "one", "hidden"} BY <1>6 DEF BurstApps
  <2>3. app.probe = "load" => app.capacity \in Nat BY <1>6 DEF BurstApps
  <2> QED BY <2>1, <2>2, <2>3 DEF R!Cross
<1> QED BY <1>2, <1>3, <1>4, <1>5, <1>6 DEF RecordApps

\* What the bounds are.
LEMMA RecordBounds == Creates \in Nat \ {0} /\ Bursts \in Nat \ {0} /\ Need \in Nat \ {0}
  BY ProbesAssumption DEF ProbesAssumption

\* Nothing has been written at the start.
LEMMA RecordInit == R!Init => R!RecordInv
<1> SUFFICES ASSUME R!Init PROVE R!RecordInv OBVIOUS
<1>1. R!Held BY RecordApp DEF R!Init, R!Held
<1>2. R!Holds(mem) BY DEF R!Init, R!Holds
<1>3. th \in R!Requests /\ faults \in Nat BY DEF R!Init, R!Requests, R!Quiet
<1>4. R!CrossMet /\ R!PairMet BY DEF R!Init, R!CrossMet, R!PairMet
<1>5. R!RaceMet
  <2>1. \A c \in 1 .. Creates : th[c].id = 0 /\ th[c].pc = "off" BY DEF R!Init, R!Quiet
  <2>2. mem.counter = 1 /\ mem.bad = 0 BY DEF R!Init
  <2> QED BY <2>1, <2>2 DEF R!RaceMet, R!Collided, R!Shows
<1>6. R!LoadMet /\ R!TurnedMet BY DEF R!Init, R!LoadMet, R!TurnedMet
<1>7. R!CrossReadIsReal /\ R!LossIsReal /\ R!RaceIsReal BY DEF R!Init, R!CrossReadIsReal, R!LossIsReal, R!RaceIsReal
<1> QED BY <1>1, <1>2, <1>3, <1>4, <1>5, <1>6, <1>7 DEF R!RecordInv, R!Met

\* A probe that ends.
LEMMA RecordEnds ==
    ASSUME R!RecordInv, app' = app, at' = "end",
           verdict' = "fired" =>
               /\ app.probe \in R!Cross => R!Leaks(app.pairs[mem.n].gate)' /\ mem'.n = mem.n
               /\ app.probe = "collection" =>
                      R!Leaks(app.page)' \/ (R!Leaks(app.pairs[mem.n].gate)' /\ mem'.n = mem.n /\ app.owners >= 2)
               /\ app.probe = "idor" => app.pairs[mem'.n].gate # "owner"
               /\ app.probe \in R!Cross \cup {"collection"} /\ mem'.turned => faults' > 0,
           verdict' = "fired" /\ ~mem'.turned =>
               /\ app.probe = "durable" => ~app.pairs[mem'.n].keeps \/ (app.pairs[mem'.n].observed /\ ~app.pairs[mem'.n].byId)
               /\ app.probe = "list" => ~app.pairs[mem'.n].keeps \/ ~app.pairs[mem'.n].fresh,
           verdict' = "fired" =>
               /\ app.probe = "race" => app.ids \in {"racy", "one"} /\ mem'.bad >= Need
               /\ app.probe = "load" => app.capacity < Creates \/ 2 * faults' > Bursts
    PROVE  R!RecordInv'
<1>1. R!Held' BY DEF R!RecordInv, R!Held
<1>2. R!CrossReadIsReal' BY DEF R!CrossReadIsReal, R!Pair, R!Leaks
<1>3. R!LossIsReal' BY DEF R!LossIsReal, R!Pair
<1>4. R!RaceIsReal' BY DEF R!RaceIsReal
<1> QED BY <1>1, <1>2, <1>3, <1>4 DEF R!RecordInv

\* A probe that goes on: what it has met is of its own kind.
LEMMA RecordGoesOn ==
    ASSUME R!RecordInv, at # "end", app' = app, at' # "end", verdict' = verdict, R!Holds(mem'), faults' \in Nat, th' \in R!Requests,
           app.probe \in R!Cross => R!CrossMet', app.probe = "durable" => R!PairMet', app.probe = "race" => R!RaceMet',
           app.probe = "load" => R!LoadMet', app.probe \in R!Cross \cup {"collection"} => R!TurnedMet'
    PROVE  R!RecordInv'
<1>1. verdict = "none" BY DEF R!RecordInv, R!Held
<1>2. R!Held' BY <1>1 DEF R!RecordInv, R!Held
<1>3. R!CrossReadIsReal' /\ R!LossIsReal' /\ R!RaceIsReal' BY <1>1 DEF R!CrossReadIsReal, R!LossIsReal, R!RaceIsReal
<1>4. R!Holds(mem)' BY DEF R!Holds
<1>5. (th \in R!Requests)' BY DEF R!Requests
<1>6. R!CrossMet' BY DEF R!CrossMet
<1>7. R!PairMet' BY DEF R!PairMet
<1>8. R!RaceMet' BY DEF R!RaceMet
<1>9. R!LoadMet' BY DEF R!LoadMet
<1>10. R!TurnedMet' BY DEF R!TurnedMet
<1>11. R!Met' BY <1>4, <1>5, <1>6, <1>7, <1>8, <1>9, <1>10 DEF R!Met
<1> QED BY <1>2, <1>3, <1>11 DEF R!RecordInv

\* What every step starts from, and what a request costs.
LEMMA RecordHolds ==
    ASSUME R!RecordInv, at # "end"
    PROVE  /\ R!Holds(mem) /\ faults \in Nat /\ th \in R!Requests
           /\ mem.n \in Nat \ {0} /\ mem.n + 1 \in Nat \ {0} /\ Len(app.pairs) \in Nat
           /\ R!Loss \/ R!Came => faults' \in Nat /\ faults' >= faults
           /\ \A w : w = [mem EXCEPT !.n = @ + 1] => R!Holds(w) /\ w.n = mem.n + 1
<1>1. R!Holds(mem) /\ faults \in Nat /\ th \in R!Requests BY DEF R!RecordInv, R!Met
<1>2. mem.n \in Nat \ {0} /\ mem.n + 1 \in Nat \ {0} BY <1>1 DEF R!Holds
<1>3. R!Loss \/ R!Came => faults' \in Nat /\ faults' >= faults BY <1>1 DEF R!Loss, R!Came
<1>4. \A w : w = [mem EXCEPT !.n = @ + 1] => R!Holds(w) /\ w.n = mem.n + 1 BY <1>1, <1>2 DEF R!Holds
<1> QED BY <1>1, <1>2, <1>3, <1>4 DEF R!RecordInv, R!Held

\* As another user.
LEMMA RecordCross == ASSUME R!RecordInv, R!Accounts \/ R!Own \/ R!Stranger \/ R!Other PROVE R!RecordInv'
<1>0. app' = app /\ at # "end" /\ app.probe \in {"bola", "record", "backend", "collection", "idor"}
  BY DEF R!Accounts, R!Own, R!Stranger, R!Other, R!Is, R!Cross
<1>1. th' = th BY DEF R!Accounts, R!Own, R!Stranger, R!Other
<1>2. /\ R!Holds(mem) /\ faults \in Nat /\ th \in R!Requests
      /\ mem.n \in Nat \ {0} /\ mem.n + 1 \in Nat \ {0} /\ Len(app.pairs) \in Nat
      /\ R!Loss \/ R!Came => faults' \in Nat /\ faults' >= faults
      /\ \A w : w = [mem EXCEPT !.n = @ + 1] => R!Holds(w) /\ w.n = mem.n + 1
  BY <1>0, RecordHolds
<1>3. R!CrossMet /\ R!TurnedMet BY <1>0 DEF R!RecordInv, R!Met
<1>4. ASSUME R!Holds(mem'), faults' \in Nat, at' # "end", verdict' = verdict,
             mem'.turned => faults' > 0 \/ (mem.turned /\ faults' >= faults),
             at' \in {"anon", "other"} => ~R!NoMore /\ mem'.n = mem.n,
             at' = "other" => R!Pair.gate # "public" \/ mem'.turned
      PROVE  R!RecordInv'
  <2>1. th' \in R!Requests BY <1>1, <1>2
  <2>2. at' \in {"anon", "other"} => R!NoMore' = R!NoMore /\ R!Pair' = R!Pair BY <1>0, <1>4 DEF R!NoMore, R!Pair
  <2>3. R!CrossMet' BY <1>4, <2>2 DEF R!CrossMet
  <2>4. app.probe \in R!Cross \cup {"collection"} => R!TurnedMet' BY <1>0, <1>2, <1>3, <1>4 DEF R!TurnedMet
  <2> QED BY <1>0, <1>4, <2>1, <2>3, <2>4, RecordGoesOn
<1>5. ASSUME at' = "end", verdict' # "fired" PROVE R!RecordInv' BY <1>0, <1>5, RecordEnds
<1>6. ASSUME R!Loss \/ R!Came, R!NextPair PROVE R!RecordInv'
  <2>1. R!Holds(mem') /\ ~mem'.turned BY <1>2, <1>6 DEF R!NextPair, R!Holds
  <2> QED BY <1>2, <1>4, <1>6, <2>1 DEF R!NextPair, R!Go
<1>7. CASE R!Accounts
  <2>1. faults' = faults /\ mem' = mem BY <1>7 DEF R!Accounts
  <2>2. CASE R!End("na") BY <1>5, <2>2 DEF R!End
  <2>3. CASE R!Go("own") BY <1>2, <1>4, <2>1, <2>3 DEF R!Go
  <2> QED BY <1>7, <2>2, <2>3 DEF R!Accounts
<1>8. CASE R!Own
  <2>1. CASE R!End(R!Either("clean")) BY <1>5, <2>1 DEF R!End, R!Either
  <2>2. CASE ~R!NoMore /\ R!Came /\ R!Go("anon") /\ mem' = mem BY <1>2, <1>4, <2>2 DEF R!Go
  <2> QED BY <1>6, <1>8, <2>1, <2>2 DEF R!Own, R!Keep
<1>9. CASE R!Stranger
  <2>0. ~R!NoMore BY <1>3, <1>9 DEF R!Stranger, R!Is, R!CrossMet
  <2>1. CASE R!Loss /\ R!Go("other") /\ mem' = [mem EXCEPT !.tested = TRUE, !.turned = TRUE]
    <3>1. R!Holds(mem') /\ mem'.n = mem.n /\ mem'.turned = TRUE BY <1>2, <2>1 DEF R!Holds
    <3>2. faults' > 0 BY <1>2, <2>1 DEF R!Loss
    <3> QED BY <1>2, <1>4, <2>0, <2>1, <3>1, <3>2 DEF R!Go
  <2>2. CASE R!Came /\ R!Pair.gate # "public" /\ R!Go("other") /\ mem' = [mem EXCEPT !.tested = TRUE]
    <3>1. R!Holds(mem') /\ mem'.n = mem.n /\ mem'.turned = mem.turned BY <1>2, <2>2 DEF R!Holds
    <3> QED BY <1>2, <1>4, <2>0, <2>2, <3>1 DEF R!Go
  <2> QED BY <1>6, <1>9, <2>1, <2>2 DEF R!Stranger
<1>10. CASE R!Other
  <2>0. app.probe \in R!Cross /\ ~R!NoMore /\ (R!Pair.gate # "public" \/ mem.turned) BY <1>3, <1>10 DEF R!Other, R!Is, R!CrossMet
  <2>1. CASE R!Pair.gate # "owner" /\ R!End("fired") /\ mem' = mem
    <3>1. mem.n \in 1 .. Len(app.pairs) BY <1>2, <2>0 DEF R!NoMore
    <3>2. app.pairs[mem.n].gate \in {"public", "login", "owner"} BY <2>0, <3>1 DEF R!RecordInv, R!Held
    <3>3. R!Leaks(app.pairs[mem.n].gate)' BY <1>0, <2>0, <2>1, <3>2 DEF R!Pair, R!Leaks
    <3>4. app.probe \notin {"collection", "idor", "durable", "list", "race", "load"} BY <2>0 DEF R!Cross
    <3>5. mem'.turned => faults' > 0 BY <1>2, <1>3, <1>10, <2>0, <2>1 DEF R!TurnedMet, R!Other, R!Loss, R!Came
    <3> QED BY <1>0, <2>1, <3>3, <3>4, <3>5, RecordEnds DEF R!End
  <2> QED BY <1>6, <1>10, <2>1 DEF R!Other, R!Keep
<1> QED BY <1>7, <1>8, <1>9, <1>10

\* A list that two users see, and a record that a form led to.
LEMMA RecordShared == ASSUME R!RecordInv, R!Lists \/ R!TwoSessions \/ R!Horizontal PROVE R!RecordInv'
<1>0. app' = app /\ at # "end" /\ app.probe \in {"collection", "idor"} /\ th' = th
  BY DEF R!Lists, R!TwoSessions, R!Horizontal, R!Is
<1>1. app.probe \notin R!Cross \cup {"durable", "list", "race", "load"} BY <1>0 DEF R!Cross
<1>2. /\ R!Holds(mem) /\ faults \in Nat /\ th \in R!Requests
      /\ mem.n \in Nat \ {0} /\ mem.n + 1 \in Nat \ {0} /\ Len(app.pairs) \in Nat
      /\ R!Loss \/ R!Came => faults' \in Nat /\ faults' >= faults
      /\ \A w : w = [mem EXCEPT !.n = @ + 1] => R!Holds(w) /\ w.n = mem.n + 1
  BY <1>0, RecordHolds
<1>9. R!TurnedMet BY <1>0 DEF R!RecordInv, R!Met
<1>3. ASSUME R!Holds(mem'), R!Loss \/ R!Came, at' # "end", verdict' = verdict, mem'.turned => mem.turned PROVE R!RecordInv'
  <2>1. th' \in R!Requests BY <1>0, <1>2
  <2>2. R!TurnedMet' BY <1>0, <1>2, <1>3, <1>9 DEF R!TurnedMet
  <2> QED BY <1>0, <1>1, <1>2, <1>3, <2>1, <2>2, RecordGoesOn
<1>4. ASSUME at' = "end", verdict' # "fired" PROVE R!RecordInv' BY <1>0, <1>4, RecordEnds
<1>5. CASE R!Lists
  <2>0. app.probe = "collection" /\ at = "own" BY <1>5 DEF R!Lists, R!Is
  <2>1. CASE R!NoMore
    <3>1. R!Go("browsers") /\ mem' = mem /\ R!Came BY <1>5, <2>1 DEF R!Lists, R!Keep
    <3> QED BY <1>2, <1>3, <3>1 DEF R!Go
  <2>2. CASE ~R!NoMore
    <3>0. mem.n \in 1 .. Len(app.pairs) BY <1>2, <2>2 DEF R!NoMore
    <3>1. R!Pair.gate \in {"public", "login", "owner"} BY <2>0, <3>0 DEF R!RecordInv, R!Held, R!Pair
    <3>2. CASE (R!Loss \/ R!Came) /\ R!NextPair
      <4>1. R!Holds(mem') /\ ~mem'.turned BY <1>2, <3>2 DEF R!NextPair, R!Holds
      <4> QED BY <1>3, <3>2, <4>1 DEF R!NextPair, R!Go
    <3>3. ASSUME NEW t \in BOOLEAN, R!Compared(t), R!Loss \/ R!Came, t => R!Loss /\ R!Pair.gate = "public",
                 ~t => R!Pair.gate # "public"
          PROVE  R!RecordInv'
      <4>1. CASE R!NextPair BY <3>2, <3>3, <4>1
      <4>2. CASE R!Shown(R!Pair.gate) >= 2 /\ R!End("fired") /\ mem' = [mem EXCEPT !.tested = TRUE, !.turned = t]
        <5>1. mem'.n = mem.n /\ mem'.turned = t BY <1>2, <4>2 DEF R!Holds
        <5>2. app.owners >= 2 /\ R!Pair.gate # "owner" BY <4>2 DEF R!Shown
        <5>3. R!Leaks(app.pairs[mem.n].gate)' BY <1>0, <3>1, <3>3, <5>1, <5>2 DEF R!Pair, R!Leaks
        <5>4. mem'.turned => faults' > 0 BY <1>2, <3>3, <5>1 DEF R!Loss
        <5> QED BY <1>0, <1>1, <2>0, <4>2, <5>1, <5>2, <5>3, <5>4, RecordEnds DEF R!End
      <4>3. CASE R!Go("own") /\ mem' = [mem EXCEPT !.n = @ + 1, !.tested = TRUE, !.turned = FALSE]
        <5>1. R!Holds(mem') /\ ~mem'.turned BY <1>2, <4>3 DEF R!Holds
        <5> QED BY <1>3, <3>3, <4>3, <5>1 DEF R!Go
      <4> QED BY <3>3, <4>1, <4>2, <4>3 DEF R!Compared
    <3> QED BY <1>5, <2>2, <3>2, <3>3 DEF R!Lists
  <2> QED BY <2>1, <2>2
<1>6. CASE R!TwoSessions
  <2>1. app.probe = "collection" /\ at' = "end" BY <1>6 DEF R!TwoSessions, R!Is, R!End
  <2>2. CASE verdict' # "fired" BY <1>4, <2>1, <2>2
  <2>3. CASE R!Came /\ mem' = mem /\ app.page = "login"
    <3>1. R!Leaks(app.page)' BY <1>0, <2>3 DEF R!Leaks
    <3>2. mem'.turned => faults' > 0 BY <1>2, <1>9, <2>1, <2>3 DEF R!TurnedMet, R!Came
    <3> QED BY <1>0, <1>1, <2>1, <3>1, <3>2, RecordEnds
  <2>4. CASE R!Twice /\ app.page = "public" /\ mem' = [mem EXCEPT !.turned = TRUE]
    <3>1. mem'.turned BY <1>2, <2>4 DEF R!Holds
    <3>2. R!Leaks(app.page)' BY <1>0, <2>4, <3>1 DEF R!Leaks
    <3>3. faults' > 0 BY <1>2, <2>4 DEF R!Twice
    <3> QED BY <1>0, <1>1, <2>1, <3>1, <3>2, <3>3, RecordEnds
  <2> QED BY <1>6, <2>2, <2>3, <2>4 DEF R!TwoSessions, R!End, R!Either, R!Keep
<1>7. CASE R!Horizontal
  <2>0. app.probe = "idor" /\ mem' = mem BY <1>7 DEF R!Horizontal, R!Is
  <2>1. at' = "end" BY <1>7 DEF R!Horizontal, R!End
  <2>2. verdict' = "fired" => app.pairs[mem'.n].gate # "owner" BY <1>7, <2>0 DEF R!Horizontal, R!End, R!Pair
  <2> QED BY <1>0, <1>1, <2>0, <2>1, <2>2, RecordEnds
<1> QED BY <1>5, <1>6, <1>7

\* A write that lasts, by its id or in a list.
LEMMA RecordWrites ==
    ASSUME R!RecordInv, R!Pairs \/ R!CreateThenRead \/ R!Before \/ R!Accepted \/ R!After \/ R!InTheBrowser PROVE R!RecordInv'
<1>0. app' = app /\ at # "end" /\ app.probe \in {"durable", "list"} /\ th' = th
  BY DEF R!Pairs, R!CreateThenRead, R!Before, R!Accepted, R!After, R!InTheBrowser, R!Is
<1>1. app.probe \notin R!Cross \cup {"collection", "idor", "race", "load"} BY <1>0 DEF R!Cross
<1>2. /\ R!Holds(mem) /\ faults \in Nat /\ th \in R!Requests
      /\ mem.n \in Nat \ {0} /\ mem.n + 1 \in Nat \ {0} /\ Len(app.pairs) \in Nat
      /\ R!Loss \/ R!Came => faults' \in Nat /\ faults' >= faults
      /\ \A w : w = [mem EXCEPT !.n = @ + 1] => R!Holds(w) /\ w.n = mem.n + 1
  BY <1>0, RecordHolds
<1>3. ASSUME R!Holds(mem'), R!Loss \/ R!Came, at' # "end", verdict' = verdict,
             app.probe = "durable" /\ at' = "create" => app.pairs[mem'.n].observed \/ app.pairs[mem'.n].byId
      PROVE  R!RecordInv'
  <2>1. th' \in R!Requests BY <1>0, <1>2
  <2>2. R!PairMet' BY <1>0, <1>3 DEF R!PairMet, R!Pair
  <2> QED BY <1>0, <1>1, <1>2, <1>3, <2>1, <2>2, RecordGoesOn
<1>4. ASSUME at' = "end", verdict' # "fired" PROVE R!RecordInv' BY <1>0, <1>4, RecordEnds
<1>5. PICK on : on = [mem EXCEPT !.n = @ + 1] OBVIOUS
<1>6. R!Holds(on) BY <1>2, <1>5
<1>7. ASSUME R!Loss \/ R!Came, at' \in {"start", "after", "rendered"}, verdict' = verdict,
             mem' \in {on, [on EXCEPT !.tested = TRUE], mem}
      PROVE  R!RecordInv'
  <2>1. R!Holds([on EXCEPT !.tested = TRUE]) BY <1>6 DEF R!Holds
  <2>2. R!Holds(mem') BY <1>2, <1>6, <1>7, <2>1
  <2> QED BY <1>3, <1>7, <2>2
<1>8. CASE R!Pairs
  <2>1. CASE R!End(R!Either("clean")) BY <1>4, <2>1 DEF R!End, R!Either
  <2>2. CASE R!Came /\ (R!Pair.observed \/ R!Pair.byId) /\ R!Go("create") /\ mem' = mem BY <1>2, <1>3, <2>2 DEF R!Go, R!Pair
  <2>3. CASE (R!Loss \/ R!Came) /\ R!Go("start") /\ mem' = on BY <1>7, <2>3 DEF R!Go
  <2> QED BY <1>5, <1>8, <2>1, <2>2, <2>3 DEF R!Pairs, R!Keep
<1>9. CASE R!CreateThenRead
  <2>0. app.probe = "durable" /\ (R!Pair.observed \/ R!Pair.byId) BY <1>0, <1>9 DEF R!CreateThenRead, R!Is, R!RecordInv, R!Met, R!PairMet
  <2>1. CASE (R!Loss \/ R!Came) /\ R!Go("start") /\ mem' \in {on, [on EXCEPT !.tested = TRUE]} BY <1>7, <2>1 DEF R!Go
  <2>2. CASE R!End("fired") /\ mem' = [mem EXCEPT !.turned = TRUE]
    <3>1. mem'.turned = TRUE BY <1>2, <2>2 DEF R!Holds
    <3> QED BY <1>0, <1>1, <2>2, <3>1, RecordEnds DEF R!End
  <2>3. CASE R!Pair.own /\ ~(R!Pair.byId /\ R!Pair.keeps) /\ R!End("fired") /\ mem' = mem
    <3>1. ~app.pairs[mem'.n].keeps \/ (app.pairs[mem'.n].observed /\ ~app.pairs[mem'.n].byId) BY <2>0, <2>3 DEF R!Pair
    <3> QED BY <1>0, <1>1, <2>0, <2>3, <3>1, RecordEnds DEF R!End
  <2> QED BY <1>5, <1>9, <2>1, <2>2, <2>3 DEF R!CreateThenRead, R!Keep
<1>10. CASE R!Before
  <2>0. app.probe = "list" /\ at = "start" BY <1>10 DEF R!Before, R!Is
  <2>1. CASE R!Go("rendered") /\ mem' = mem /\ R!Came BY <1>7, <2>1 DEF R!Go
  <2>2. CASE (R!Loss \/ R!Came) /\ R!Go(at) /\ mem' = on BY <1>7, <2>0, <2>2 DEF R!Go
  <2>3. CASE R!Came /\ R!Go("accepted") /\ mem' = [mem EXCEPT !.tries = 0, !.body = "marker"]
    <3>1. R!Holds(mem') BY <1>2, <2>3 DEF R!Holds
    <3> QED BY <1>3, <2>0, <2>3, <3>1 DEF R!Go
  <2> QED BY <1>5, <1>10, <2>1, <2>2, <2>3 DEF R!Before, R!Keep
<1>11. CASE R!Accepted
  <2>0. app.probe = "list" /\ at = "accepted" BY <1>11 DEF R!Accepted, R!Is
  <2>1. CASE (R!Loss \/ R!Came) /\ R!Go("start") /\ mem' = on BY <1>7, <2>1 DEF R!Go
  <2>2. CASE R!Came /\ R!Go("after") /\ mem' = mem BY <1>7, <2>2 DEF R!Go
  <2>3. CASE R!Came /\ R!Go(at) /\ mem' = [mem EXCEPT !.tries = @ + 1, !.body = R!Coerce(@)]
    <3>1. R!Holds(mem') BY <1>2, <2>3 DEF R!Holds
    <3> QED BY <1>3, <2>0, <2>3, <3>1 DEF R!Go
  <2> QED BY <1>5, <1>11, <2>1, <2>2, <2>3 DEF R!Accepted, R!Keep
<1>12. CASE R!After
  <2>0. app.probe = "list" BY <1>12 DEF R!After, R!Is
  <2>1. CASE (R!Loss \/ R!Came) /\ R!Go("start") /\ mem' \in {on, [on EXCEPT !.tested = TRUE]} BY <1>7, <2>1 DEF R!Go
  <2>2. CASE (~R!Pair.keeps \/ ~R!Pair.fresh) /\ R!End("fired") /\ mem' = [mem EXCEPT !.tested = TRUE]
    <3>1. mem'.n = mem.n BY <1>2, <2>2 DEF R!Holds
    <3>2. ~app.pairs[mem'.n].keeps \/ ~app.pairs[mem'.n].fresh BY <2>2, <3>1 DEF R!Pair
    <3> QED BY <1>0, <1>1, <2>0, <2>2, <3>2, RecordEnds DEF R!End
  <2> QED BY <1>5, <1>12, <2>1, <2>2 DEF R!After
<1>13. CASE R!InTheBrowser BY <1>4, <1>13 DEF R!InTheBrowser, R!End
<1> QED BY <1>8, <1>9, <1>10, <1>11, <1>12, <1>13

\* Bursts of creates that interleave inside the app.
LEMMA RecordRace ==
    ASSUME R!RecordInv, R!Burst \/ (\E c \in 1 .. Creates : R!ReadCounter(c) \/ R!WriteCounter(c)) \/ R!Compare
    PROVE  R!RecordInv'
<1>0. app' = app /\ at # "end" /\ app.probe = "race" BY DEF R!Burst, R!ReadCounter, R!WriteCounter, R!Compare, R!Is
<1>1. app.probe \notin R!Cross \cup {"collection", "idor", "durable", "list", "load"} BY <1>0 DEF R!Cross
<1>2. R!Holds(mem) /\ faults \in Nat /\ th \in R!Requests /\ (R!Loss \/ R!Came => faults' \in Nat /\ faults' >= faults)
  BY <1>0, RecordHolds
<1>3. /\ app.ids \in {"atomic", "racy", "one", "hidden"}
      /\ app.ids = "hidden" => \A c \in 1 .. Creates : th[c].id = 0
      /\ app.ids = "atomic" => /\ \A c \in 1 .. Creates : th[c].id < mem.counter /\ th[c].pc # "write"
                               /\ ~R!Collided
      /\ mem.bad > 0 => app.ids \in {"racy", "one"}
  BY <1>0 DEF R!RecordInv, R!Held, R!Met, R!RaceMet
<1>4. mem.counter \in Nat \ {0} /\ mem.bad \in Nat /\ mem.burst \in Nat /\ \A c \in 1 .. Creates : th[c].id \in Nat
  BY <1>2 DEF R!Holds, R!Requests
<1>5. ASSUME R!Holds(mem'), faults' \in Nat, th' \in R!Requests, at' # "end", verdict' = verdict,
             app.ids = "hidden" => \A c \in 1 .. Creates : th'[c].id = 0,
             app.ids = "atomic" => \A c \in 1 .. Creates : th'[c].id < mem'.counter /\ th'[c].pc # "write",
             app.ids = "atomic" => \A c, d \in 1 .. Creates : c # d /\ th'[c].id # 0 => th'[c].id # th'[d].id,
             mem'.bad > 0 => app.ids \in {"racy", "one"}
      PROVE  R!RecordInv'
  <2>1. app.ids = "atomic" => ~R!Collided' BY <1>5 DEF R!Collided, R!Shows
  <2>2. R!RaceMet' BY <1>0, <1>5, <2>1 DEF R!RaceMet
  <2> QED BY <1>0, <1>1, <1>5, <2>2, RecordGoesOn
<1>6. app.ids = "atomic" => \A c, d \in 1 .. Creates : c # d /\ th[c].id # 0 => th[c].id # th[d].id
  BY <1>3 DEF R!Collided, R!Shows
\* A burst begins, or one is over: nobody holds an id.
<1>7. ASSUME NEW pc \in {"off", "read"}, th' = [c \in 1 .. Creates |-> [pc |-> pc, id |-> 0]], R!Holds(mem'),
             mem'.counter = mem.counter, faults' = faults, at' # "end", verdict' = verdict,
             mem'.bad > 0 => app.ids \in {"racy", "one"}
      PROVE  R!RecordInv'
  <2>1. th' \in R!Requests BY <1>7 DEF R!Requests
  <2>2. \A c \in 1 .. Creates : th'[c].id = 0 /\ th'[c].pc # "write" BY <1>7
  <2>3. 0 < mem'.counter BY <1>4, <1>7
  <2> QED BY <1>2, <1>5, <1>7, <2>1, <2>2, <2>3
<1>8. CASE R!Burst
  <2>1. th' = [c \in 1 .. Creates |-> [pc |-> "read", id |-> 0]] /\ mem' = mem /\ faults' = faults /\ at' # "end" /\ verdict' = verdict
    BY <1>8 DEF R!Burst, R!Go
  <2> QED BY <1>2, <1>3, <1>7, <2>1
\* A create goes on, and holds an id or none.
<1>9. ASSUME NEW c \in 1 .. Creates, NEW p \in {"write", "done"}, NEW i \in Nat, th' = [th EXCEPT ![c].pc = p, ![c].id = i]
      PROVE  th' \in R!Requests /\ th'[c].pc = p /\ th'[c].id = i /\ \A d \in 1 .. Creates : d # c => th'[d] = th[d]
  BY <1>2, <1>9 DEF R!Requests
<1>10. ASSUME NEW c \in 1 .. Creates, NEW p, th' = [th EXCEPT ![c].pc = p] PROVE th' = [th EXCEPT ![c].pc = p, ![c].id = th[c].id]
  BY <1>2, <1>10 DEF R!Requests
<1>11. ASSUME NEW c \in 1 .. Creates, R!ReadCounter(c) PROVE R!RecordInv'
  <2>0. at = "burst" /\ at' = at /\ verdict' = verdict BY <1>11 DEF R!ReadCounter, R!Is
  <2>1. CASE R!Loss /\ th' = [th EXCEPT ![c].pc = "done"] /\ mem' = mem
    <3>1. PICK i \in Nat : i = th[c].id BY <1>4
    <3>2. th' = [th EXCEPT ![c].pc = "done", ![c].id = i] BY <1>10, <2>1, <3>1
    <3>3. th' \in R!Requests /\ th'[c].pc = "done" /\ th'[c].id = th[c].id /\ \A d \in 1 .. Creates : d # c => th'[d] = th[d]
      BY <1>9, <3>1, <3>2
    <3>4. \A d \in 1 .. Creates : th'[d].id = th[d].id /\ (th'[d].pc = "write" => th[d].pc = "write") BY <3>3
    <3> QED BY <1>2, <1>3, <1>5, <1>6, <2>0, <2>1, <3>3, <3>4
  <2>2. CASE R!Came /\ app.ids # "atomic"
    <3>1. PICK p \in {"write", "done"} : p = IF app.ids = "racy" THEN "write" ELSE "done" OBVIOUS
    <3>2. PICK i \in Nat : i = (CASE app.ids = "one" -> 1 [] app.ids = "hidden" -> 0 [] OTHER -> mem.counter) BY <1>4
    <3>3. R!Loss \/ (th' = [th EXCEPT ![c].pc = p, ![c].id = i] /\ mem' = mem)
      BY <1>11, <2>2, <3>1, <3>2 DEF R!ReadCounter
    <3>4. ~R!Loss BY <1>2, <2>2 DEF R!Came, R!Loss
    <3>5. th' \in R!Requests /\ th'[c].id = i /\ \A d \in 1 .. Creates : d # c => th'[d] = th[d] BY <1>9, <3>3, <3>4
    <3>6. app.ids = "hidden" => i = 0 BY <3>2
    <3>7. app.ids = "hidden" => \A d \in 1 .. Creates : th'[d].id = 0 BY <1>3, <3>5, <3>6
    <3> QED BY <1>2, <1>3, <1>5, <2>0, <2>2, <3>3, <3>4, <3>5, <3>7
  <2>3. CASE R!Came /\ app.ids = "atomic"
    <3>1. PICK i \in Nat : i = mem.counter BY <1>4
    <3>2. R!Loss \/ (th' = [th EXCEPT ![c].pc = "done", ![c].id = i] /\ mem' = [mem EXCEPT !.counter = @ + 1])
      BY <1>11, <2>3, <3>1 DEF R!ReadCounter
    <3>3. ~R!Loss BY <1>2, <2>3 DEF R!Came, R!Loss
    <3>4. th' \in R!Requests /\ th'[c].pc = "done" /\ th'[c].id = i /\ \A d \in 1 .. Creates : d # c => th'[d] = th[d] BY <1>9, <3>2, <3>3
    <3>5. R!Holds(mem') /\ mem'.counter = i + 1 /\ mem'.bad = mem.bad
      <4>1. mem.counter + 1 \in Nat \ {0} BY <1>4
      <4> QED BY <1>2, <3>1, <3>2, <3>3, <4>1 DEF R!Holds
    <3>6. \A d \in 1 .. Creates : th[d].id < i /\ th[d].pc # "write" BY <1>3, <2>3, <3>1
    <3>7. ASSUME NEW d \in 1 .. Creates PROVE th'[d].id < mem'.counter /\ th'[d].pc # "write"
      <4>1. CASE d = c BY <3>4, <3>5, <4>1
      <4>2. CASE d # c
        <5>1. th'[d] = th[d] /\ th[d].id \in Nat BY <1>4, <3>4, <4>2
        <5> QED BY <3>5, <3>6, <5>1
      <4> QED BY <4>1, <4>2
    <3>8. ASSUME NEW d \in 1 .. Creates, NEW e \in 1 .. Creates, d # e, th'[d].id # 0 PROVE th'[d].id # th'[e].id
      <4>1. CASE d = c
        <5>1. th'[e] = th[e] /\ th[e].id < i /\ th[e].id \in Nat BY <1>4, <3>4, <3>6, <3>8, <4>1
        <5> QED BY <3>4, <4>1, <5>1
      <4>2. CASE e = c
        <5>1. th'[d] = th[d] /\ th[d].id < i /\ th[d].id \in Nat BY <1>4, <3>4, <3>6, <3>8, <4>2
        <5> QED BY <3>4, <4>2, <5>1
      <4>3. CASE d # c /\ e # c
        <5>1. th'[d] = th[d] /\ th'[e] = th[e] BY <3>4, <4>3
        <5> QED BY <1>6, <2>3, <3>8, <5>1
      <4> QED BY <4>1, <4>2, <4>3
    <3> QED BY <1>2, <1>3, <1>5, <2>0, <2>3, <3>4, <3>5, <3>7, <3>8
  <2> QED BY <1>11, <2>1, <2>2, <2>3 DEF R!ReadCounter, R!Keep
<1>12. ASSUME NEW c \in 1 .. Creates, R!WriteCounter(c) PROVE R!RecordInv'
  <2>1. PICK i \in Nat : i = th[c].id BY <1>4
  <2>2. /\ at = "burst" /\ at' = at /\ verdict' = verdict /\ faults' = faults /\ th[c].pc = "write"
        /\ th' = [th EXCEPT ![c].pc = "done"] /\ mem' = [mem EXCEPT !.counter = i + 1]
    BY <1>12, <2>1 DEF R!WriteCounter, R!Is
  <2>3. app.ids # "atomic" BY <1>3, <2>2
  <2>4. th' = [th EXCEPT ![c].pc = "done", ![c].id = i] BY <1>10, <2>1, <2>2
  <2>5. th' \in R!Requests /\ th'[c].id = i /\ \A d \in 1 .. Creates : d # c => th'[d] = th[d] BY <1>9, <2>4
  <2>6. \A d \in 1 .. Creates : th'[d].id = th[d].id BY <2>1, <2>5
  <2>7. R!Holds(mem') /\ mem'.bad = mem.bad BY <1>2, <2>2 DEF R!Holds
  <2> QED BY <1>2, <1>3, <1>5, <2>2, <2>3, <2>5, <2>6, <2>7
<1>13. CASE R!Compare
  <2>1. PICK s : s = (mem.seen \/ R!Visible) OBVIOUS
  <2>2. PICK more \in Nat : more = IF R!Collided THEN 1 ELSE 0 OBVIOUS
  <2>3. mem' = [mem EXCEPT !.burst = @ + 1, !.seen = s, !.bad = @ + more] BY <1>13, <2>1, <2>2, Zenon DEF R!Compare
  <2>4. R!Holds(mem') /\ mem'.counter = mem.counter /\ mem'.bad = mem.bad + more /\ mem'.burst = mem.burst + 1
    BY <1>2, <1>4, <2>3 DEF R!Holds
  <2>5. R!Collided => app.ids \in {"racy", "one"}
    <3>1. CASE app.ids = "hidden" BY <1>3, <3>1 DEF R!Collided, R!Shows
    <3> QED BY <1>3, <3>1
  <2>6. mem'.bad > 0 => app.ids \in {"racy", "one"} BY <1>3, <1>4, <2>2, <2>4, <2>5
  <2>7. CASE mem'.burst < Bursts
    <3>1. th' = [c \in 1 .. Creates |-> [pc |-> "off", id |-> 0]] /\ faults' = faults BY <1>13 DEF R!Compare, R!Quiet
    <3>2. at' # "end" /\ verdict' = verdict BY <1>13, <2>7 DEF R!Compare, R!Go
    <3> QED BY <1>7, <2>4, <2>6, <3>1, <3>2
  <2>8. CASE ~(mem'.burst < Bursts)
    <3>1. at' = "end" /\ verdict' = (IF ~mem'.seen THEN "na" ELSE IF mem'.bad >= Need THEN "fired" ELSE "clean")
      BY <1>13, <2>8 DEF R!Compare, R!End
    <3>2. verdict' = "fired" => mem'.bad >= Need BY <3>1
    <3>3. mem'.bad >= Need => mem'.bad > 0 BY <1>4, <2>2, <2>4, RecordBounds
    <3> QED BY <1>0, <1>1, <2>6, <3>1, <3>2, <3>3, RecordEnds
  <2> QED BY <2>7, <2>8
<1> QED BY <1>8, <1>11, <1>12, <1>13

\* The median of the bursts.
LEMMA RecordLoad == ASSUME R!RecordInv, R!Load PROVE R!RecordInv'
<1>0. app' = app /\ at = "start" /\ app.probe = "load" /\ th' = th BY DEF R!Load, R!Is
<1>1. app.probe \notin R!Cross \cup {"collection", "idor", "durable", "list", "race"} BY <1>0 DEF R!Cross
<1>2. R!Holds(mem) /\ faults \in Nat /\ th \in R!Requests /\ app.capacity \in Nat /\ (app.capacity >= Creates => mem.bad <= faults)
  BY <1>0 DEF R!RecordInv, R!Held, R!Met, R!LoadMet
<1>3. PICK fails \in BOOLEAN :
             /\ \/ fails = (app.capacity < Creates) /\ R!Came
                \/ fails # (app.capacity < Creates) /\ R!Loss
             /\ mem' = [mem EXCEPT !.burst = @ + 1, !.bad = @ + IF fails THEN 1 ELSE 0]
  BY <1>0 DEF R!Load
<1>4. PICK more \in {0, 1} : more = IF fails THEN 1 ELSE 0 OBVIOUS
<1>5. R!Holds(mem') /\ mem'.bad = mem.bad + more
  <2>1. mem' = [mem EXCEPT !.burst = @ + 1, !.bad = @ + more] BY <1>3, <1>4
  <2> QED BY <1>2, <2>1 DEF R!Holds
<1>6. faults' \in Nat /\ faults' >= faults /\ (more = 1 /\ app.capacity >= Creates => faults' = faults + 1)
  BY <1>2, <1>3, <1>4, RecordBounds DEF R!Came, R!Loss
<1>7. app.capacity >= Creates => mem'.bad <= faults' BY <1>2, <1>5, <1>6 DEF R!Holds
<1>8. mem.bad \in Nat /\ mem'.bad \in Nat /\ Creates \in Nat /\ Bursts \in Nat BY <1>2, <1>5, RecordBounds DEF R!Holds
<1>9. CASE mem'.burst < Bursts
  <2>1. at' # "end" /\ verdict' = verdict BY <1>0, <1>9 DEF R!Load, R!Go
  <2>2. R!LoadMet' BY <1>0, <1>7 DEF R!LoadMet
  <2>3. th' \in R!Requests BY <1>0, <1>2
  <2> QED BY <1>0, <1>1, <1>5, <1>6, <2>1, <2>2, <2>3, RecordGoesOn
<1>10. CASE ~(mem'.burst < Bursts)
  <2>1. at' = "end" /\ verdict' = (IF 2 * mem'.bad > Bursts THEN "fired" ELSE "clean") BY <1>10 DEF R!Load, R!End
  <2>3. verdict' = "fired" => 2 * mem'.bad > Bursts BY <2>1
  <2>4. app.capacity < Creates \/ app.capacity >= Creates BY <1>2, <1>8
  <2>6. \A a, b, c \in Nat : a <= b /\ 2 * a > c => 2 * b > c OBVIOUS
  <2>7. mem'.bad \in Nat /\ faults' \in Nat /\ Bursts \in Nat BY <1>6, <1>8
  <2>5. mem'.bad <= faults' /\ 2 * mem'.bad > Bursts => 2 * faults' > Bursts BY <2>6, <2>7
  <2>2. verdict' = "fired" => app.capacity < Creates \/ 2 * faults' > Bursts BY <1>7, <2>3, <2>4, <2>5
  <2> QED BY <1>0, <1>1, <2>1, <2>2, RecordEnds
<1> QED BY <1>9, <1>10

\* Every step of the family.
LEMMA RecordStep == ASSUME R!RecordInv, R!Next PROVE R!RecordInv'
  BY RecordCross, RecordShared, RecordWrites, RecordRace, RecordLoad DEF R!Next

-----------------------------------------------------------------------------
(* What the backend leaves open (Backend).                                  *)

\* Nothing has been read at the start.
LEMMA BackendInit == B!Init => B!BackendInv
<1> SUFFICES ASSUME B!Init PROVE B!BackendInv OBVIOUS
<1>2. B!HeardInv BY DEF B!Init, B!HeardInv
<1> QED BY <1>2 DEF B!Init, B!BackendInv, B!FiredIsReal, B!CleanWasHeard

\* A candidate is exposed.
LEMMA BackendFires == ASSUME B!HeardInv, NEW c, B!Fire(c), app' = app, B!Exposed(c) PROVE B!BackendInv'
<1>1. DOMAIN mem' = DOMAIN mem /\ mem'.hit = c /\ mem'.reached = TRUE /\ mem'.heard = TRUE
  BY DEF B!HeardInv, B!Fire
<1>2. B!HeardInv' BY <1>1 DEF B!HeardInv, B!Fire, B!End
<1>3. B!Exposed(mem.hit)' BY <1>1 DEF B!Exposed, B!What, B!Private
<1> QED BY <1>2, <1>3 DEF B!BackendInv, B!FiredIsReal, B!CleanWasHeard, B!Fire, B!End

\* A probe that has not ended holds what it holds.
LEMMA BackendGoesOn ==
    ASSUME B!HeardInv, app' = app, at # "end", at' # "end", verdict' = verdict,
           DOMAIN mem' = DOMAIN mem, mem'.reached \in BOOLEAN, mem'.heard \in BOOLEAN, mem'.reached => mem'.heard
    PROVE  B!BackendInv'
  BY DEF B!BackendInv, B!HeardInv, B!FiredIsReal, B!CleanWasHeard

\* One that ends without a finding has heard what it reached.
LEMMA BackendEnds ==
    ASSUME B!HeardInv, app' = app, DOMAIN mem' = DOMAIN mem, mem'.reached \in BOOLEAN, mem'.heard \in BOOLEAN,
           mem'.reached => mem'.heard, at' = "end", verdict' \in {"clean", "na"}, verdict' = "clean" => mem'.heard \/ app.probe = "schema"
    PROVE  B!BackendInv'
  BY DEF B!BackendInv, B!HeardInv, B!FiredIsReal, B!CleanWasHeard

\* A candidate is passed over, or what it answers is kept.
Passed(m) == /\ DOMAIN m = DOMAIN mem /\ m.reached \in BOOLEAN /\ m.heard \in BOOLEAN /\ (m.reached => m.heard)

\* What is embedded in the client, and what its keys list.
LEMMA BackendKeys ==
    ASSUME B!BackendInv, B!Mine \/ B!InsertRoot \/ B!SelectRoot \/ B!ListRoot \/ B!SchemaRoot PROVE B!BackendInv'
<1> USE DEF B!BackendInv, B!HeardInv
<1>0. app' = app /\ at # "end"
  BY DEF B!Mine, B!InsertRoot, B!SelectRoot, B!ListRoot, B!SchemaRoot, B!Is, B!Root
<1>1. CASE B!Mine
  <2>1. mem' = mem /\ ((at' = "end" /\ verdict' = "na") \/ (at' # "end" /\ verdict' = verdict))
    BY <1>1 DEF B!Mine, B!End, B!Go, B!Is, B!Hosted
  <2> QED BY <1>0, <2>1, BackendGoesOn, BackendEnds
<1>2. CASE B!InsertRoot
  <2>1. at' # "end" /\ verdict' = verdict /\ DOMAIN mem' = DOMAIN mem /\ mem'.reached = mem.reached /\ mem'.heard = mem.heard
    BY <1>2 DEF B!InsertRoot, B!Root, B!Go
  <2> QED BY <1>0, <2>1, BackendGoesOn
<1>3. CASE B!SelectRoot
  <2>1. PICK heard \in BOOLEAN :
          LET disclosed == IF heard /\ B!Known THEN app.disclosed ELSE <<>>
          IN  IF mem.key > Keys \/ mem.key > app.keys
              THEN B!Go("other") /\ mem' = [mem EXCEPT !.key = 1, !.left = <<>>]
              ELSE /\ B!Go("select")
                   /\ mem' = [mem EXCEPT !.left = B!Candidates(disclosed),
                                         !.reached = @ \/ ("select" = "select" /\ B!Elements(disclosed) \ B!Elements(app.mined) # {}),
                                         !.heard = @ \/ (heard /\ "select" = "select" /\ disclosed # <<>>)]
    BY <1>3 DEF B!SelectRoot, B!Root
  <2> DEFINE disclosed == IF heard /\ B!Known THEN app.disclosed ELSE <<>>
             told == B!Elements(disclosed) \ B!Elements(app.mined) # {}
  <2>2. told => heard /\ disclosed # <<>>
    <3>1. B!Elements(<<>>) = {} BY DEF B!Elements
    <3> QED BY <3>1
  <2>3. \/ mem' = [mem EXCEPT !.key = 1, !.left = <<>>]
        \/ mem' = [mem EXCEPT !.left = B!Candidates(disclosed), !.reached = @ \/ told, !.heard = @ \/ (heard /\ disclosed # <<>>)]
    BY <2>1
  <2>4. at' # "end" /\ verdict' = verdict BY <2>1 DEF B!Go
  <2> HIDE DEF disclosed, told
  <2>5. Passed(mem') BY <2>2, <2>3 DEF Passed
  <2> QED BY <1>0, <2>4, <2>5, BackendGoesOn DEF Passed
<1>4. CASE B!ListRoot
  <2>1. \/ mem' = mem /\ at' = "end" /\ verdict' = B!Either(mem)
        \/ at' # "end" /\ verdict' = verdict /\ DOMAIN mem' = DOMAIN mem /\ mem'.reached = mem.reached /\ mem'.heard = mem.heard
    BY <1>4 DEF B!ListRoot, B!Go, B!End, B!Keep
  <2> QED BY <1>0, <2>1, BackendGoesOn, BackendEnds DEF B!Either
<1>5. CASE B!SchemaRoot
  <2>1. \/ mem' = mem /\ at' = "end" /\ verdict' = "clean" /\ app.probe = "schema"
        \/ at' # "end" /\ verdict' = verdict /\ DOMAIN mem' = DOMAIN mem /\ mem'.reached = mem.reached /\ mem'.heard = mem.heard
        \/ B!Fire(Head(app.disclosed)) /\ app.disclosed # <<>> /\ app.probe = "schema"
    BY <1>5 DEF B!SchemaRoot, B!Go, B!End, B!Keep, B!Is
  <2> QED BY <1>0, <2>1, BackendGoesOn, BackendEnds, BackendFires DEF B!Exposed
<1> QED BY <1>1, <1>2, <1>3, <1>4, <1>5

\* What a stranger reads and writes, table by table.
LEMMA BackendTables ==
    ASSUME B!BackendInv, B!Insert \/ B!Select \/ B!Other \/ B!Rejected \/ B!Bucket PROVE B!BackendInv'
<1> USE DEF B!BackendInv, B!HeardInv
<1>0. app' = app /\ at # "end"
  BY DEF B!Insert, B!Select, B!Other, B!Rejected, B!Bucket, B!Is
<1>1. CASE B!Insert
  <2>1. \/ Passed(mem') /\ at' # "end" /\ verdict' = verdict
        \/ app.probe = "baas" /\ \E c \in {B!Head1} : B!Fire(c) /\ B!What(c).inserts
    BY <1>1 DEF B!Insert, B!NextKey, B!Next1, B!Go, B!Is, Passed
  <2> QED BY <1>0, <2>1, BackendGoesOn, BackendFires DEF B!Exposed, Passed
<1>2. CASE B!Select
  <2>1. \/ Passed(mem') /\ at' # "end" /\ verdict' = verdict
        \/ app.probe = "baas" /\ \E c \in {B!Head1} : B!Fire(c) /\ B!What(c).anon /\ B!What(c).column
    BY <1>2 DEF B!Select, B!NextKey, B!Next1, B!Go, B!Is, Passed
  <2> QED BY <1>0, <2>1, BackendGoesOn, BackendFires DEF B!Exposed, Passed
<1>3. CASE B!Other
  <2>1. \/ Passed(mem') /\ at' = "end" /\ verdict' = B!Either(mem')
        \/ app.probe = "baas" /\ \E c \in {app.other.is} : B!Fire(c) /\ B!What(c).anon /\ B!What(c).column
    BY <1>3 DEF B!Other, B!Keep, B!End, B!Is, B!Either, Passed
  <2> QED BY <1>0, <2>1, BackendEnds, BackendFires DEF B!Exposed, B!Either, Passed
<1>4. CASE B!Rejected
  <2>1. \/ Passed(mem') /\ at' # "end" /\ verdict' = verdict
        \/ app.probe = "schema" /\ \E c \in {B!Head1} : B!Fire(c) /\ B!What(c).inserts
    BY <1>4 DEF B!Rejected, B!NextKey, B!Next1, B!Go, B!Is, Passed
  <2> QED BY <1>0, <2>1, BackendGoesOn, BackendFires DEF B!Exposed, Passed
<1>5. CASE B!Bucket
  <2>1. \/ Passed(mem') /\ at' # "end" /\ verdict' = verdict
        \/ app.probe = "bucket" /\ \E c \in {B!Head1} : B!Fire(c) /\ B!What(c).anon /\ B!Private(c)
    BY <1>5 DEF B!Bucket, B!NextKey, B!Next1, B!Go, B!Is, Passed
  <2> QED BY <1>0, <2>1, BackendGoesOn, BackendFires DEF B!Exposed, Passed
<1> QED BY <1>1, <1>2, <1>3, <1>4, <1>5

\* What a fresh user is shown.
LEMMA BackendUsers ==
    ASSUME B!BackendInv, B!Documents \/ B!SignUp \/ B!Tables PROVE B!BackendInv'
<1> USE DEF B!BackendInv, B!HeardInv
<1>0. app' = app /\ at # "end" /\ app.probe = "authed"
  BY DEF B!Documents, B!SignUp, B!Tables, B!Is
<1>1. ASSUME NEW c, mem' = [mem EXCEPT !.hit = c, !.turned = TRUE, !.reached = TRUE, !.heard = TRUE],
             at' = "end", verdict' = "fired", B!What(c).user = "all"
      PROVE  B!BackendInv'
  <2>1. DOMAIN mem' = DOMAIN mem /\ mem'.hit = c /\ mem'.turned /\ mem'.reached = TRUE /\ mem'.heard = TRUE BY <1>1
  <2>2. B!What(mem.hit)'.user = "all" BY <1>0, <1>1, <2>1 DEF B!What
  <2> QED BY <1>0, <1>1, <2>1, <2>2 DEF B!FiredIsReal, B!CleanWasHeard
<1>2. ASSUME NEW c, B!Fire(c), ~B!What(c).anon, B!Private(c), B!What(c).user = "all" PROVE B!BackendInv'
  BY <1>0, <1>2, BackendFires DEF B!Exposed
<1>3. CASE B!Documents
  <2> DEFINE c == app.other.is
  <2>1. \/ Passed(mem') /\ at' # "end" /\ verdict' = verdict
        \/ /\ mem' = [mem EXCEPT !.hit = c, !.turned = TRUE, !.reached = TRUE, !.heard = TRUE]
           /\ at' = "end" /\ verdict' = "fired" /\ B!What(c).user = "all"
        \/ B!Fire(c) /\ ~B!What(c).anon /\ B!Private(c) /\ B!What(c).user = "all"
    BY <1>3 DEF B!Documents, B!Differ, B!Go, B!Keep, B!End, Passed
  <2> HIDE DEF c
  <2> QED BY <1>0, <1>1, <1>2, <2>1, BackendGoesOn DEF Passed
<1>4. CASE B!SignUp
  <2>1. \/ mem' = mem /\ at' = "end" /\ verdict' = B!Either(mem)
        \/ Passed(mem') /\ at' # "end" /\ verdict' = verdict
    BY <1>4 DEF B!SignUp, B!Keep, B!Go, B!End, Passed
  <2> QED BY <1>0, <2>1, BackendGoesOn, BackendEnds DEF Passed, B!Either
<1>5. CASE B!Tables
  <2> DEFINE c == B!Head1
  <2>1. \/ mem' = mem /\ at' = "end" /\ verdict' = B!Either(mem)
        \/ Passed(mem') /\ at' # "end" /\ verdict' = verdict
        \/ /\ mem' = [mem EXCEPT !.hit = c, !.turned = TRUE, !.reached = TRUE, !.heard = TRUE]
           /\ at' = "end" /\ verdict' = "fired" /\ B!What(c).user = "all"
        \/ B!Fire(c) /\ ~B!What(c).anon /\ B!Private(c) /\ B!What(c).user = "all"
    BY <1>5, <1>0 DEF B!Tables, B!Differ, B!Go, B!Keep, B!End, B!Next1, Passed
  <2> HIDE DEF c
  <2> QED BY <1>0, <1>1, <1>2, <2>1, BackendGoesOn, BackendEnds DEF Passed, B!Either
<1> QED BY <1>3, <1>4, <1>5

\* Bulk records, filters, and files in flight.
LEMMA BackendPaths ==
    ASSUME B!BackendInv, B!Listed \/ B!Bulk \/ B!Filter \/ B!Files \/ B!Refill \/ B!File \/ B!PoolEnds PROVE B!BackendInv'
<1> USE DEF B!BackendInv, B!HeardInv
<1>0. app' = app /\ at # "end"
  BY DEF B!Listed, B!Bulk, B!Filter, B!Files, B!Refill, B!File, B!PoolEnds, B!Is
<1>1. CASE B!Listed \/ B!Files \/ B!Refill \/ B!PoolEnds
  <2>1. \/ mem' = mem /\ at' = "end" /\ verdict' \in {"na", B!Either(mem)}
        \/ Passed(mem') /\ at' # "end" /\ verdict' = verdict
    BY <1>1, <1>0 DEF B!Listed, B!Files, B!Refill, B!PoolEnds, B!Keep, B!Go, B!End, B!Next1, Passed
  <2> QED BY <1>0, <2>1, BackendGoesOn, BackendEnds DEF Passed, B!Either
<1>2. CASE B!Bulk
  <2>1. \/ mem' = mem /\ at' = "end" /\ verdict' = B!Either(mem)
        \/ Passed(mem') /\ at' # "end" /\ verdict' = verdict
        \/ app.probe = "bulk" /\ \E c \in {B!Head1} : B!Fire(c) /\ B!What(c).shows = "users"
    BY <1>2, <1>0 DEF B!Bulk, B!Keep, B!Go, B!End, B!Next1, B!Is, Passed
  <2> QED BY <1>0, <2>1, BackendGoesOn, BackendEnds, BackendFires DEF Passed, B!Either, B!Exposed
<1>3. CASE B!Filter
  <2>1. \/ mem' = mem /\ at' = "end" /\ verdict' = B!Either(mem)
        \/ Passed(mem') /\ at' # "end" /\ verdict' = verdict
        \/ app.probe = "filter" /\ \E c \in {B!Head1} : B!Fire(c) /\ B!What(c).shows = "on a comma"
    BY <1>3, <1>0 DEF B!Filter, B!Keep, B!Go, B!End, B!Next1, B!Is, Passed
  <2> QED BY <1>0, <2>1, BackendGoesOn, BackendEnds, BackendFires DEF Passed, B!Either, B!Exposed
<1>4. CASE B!File
  <2>1. \/ Passed(mem') /\ at' # "end" /\ verdict' = verdict
        \/ app.probe = "files" /\ \E c \in th : B!Fire(c) /\ B!Served(c)
    BY <1>4, <1>0 DEF B!File, B!Keep, B!Go, B!Is, Passed
  <2> QED BY <1>0, <2>1, BackendGoesOn, BackendFires DEF Passed, B!Served, B!Exposed
<1> QED BY <1>1, <1>2, <1>3, <1>4

\* Every step of a probe of the backend.
LEMMA BackendStep == ASSUME B!BackendInv, [B!Next]_B!vars PROVE B!BackendInv'
<1>1. CASE B!Next
  BY <1>1, BackendKeys, BackendTables, BackendUsers, BackendPaths DEF B!Next
<1>2. CASE UNCHANGED B!vars
  BY <1>2 DEF B!vars, B!BackendInv, B!HeardInv, B!FiredIsReal, B!CleanWasHeard, B!Exposed, B!What, B!Private
<1> QED BY <1>1, <1>2

-----------------------------------------------------------------------------
(* Limits, gates, links and controls (Limits).                              *)

\* What the bounds are.
LEMMA LimitBounds == Logins \in Nat /\ Payloads \in Nat
  BY ProbesAssumption DEF ProbesAssumption

\* A list of pairs is a list.
LEMMA PairsAreLists ==
    ASSUME NEW S, NEW s \in Pairs(S) PROVE Len(s) \in Nat /\ \A n \in 1 .. Len(s) : s[n] \in S
<1>1. CASE s \in {<<a, b>> : a \in S, b \in S} BY <1>1
<1>2. CASE s = <<>> BY <1>2
<1> QED BY <1>1, <1>2 DEF Pairs

\* A redirect leads to a route of the app.
LEMMA RoutesAreTargeted == ASSUME app \in LinkApps PROVE L!Route # {} /\ L!Targeted
<1> USE DEF L!Route, L!Targeted, L!Leads
<1>1. CASE app.to \in {<<a>> : a \in {"page", "1", "off"}}
  <2>1. PICK a \in {"page", "1", "off"} : app.to = <<a>> BY <1>1
  <2>2. 1 .. Len(app.to) = {1} /\ app.to[1] = a BY <2>1
  <2>3. <<"1", "2", "3", "4", "5">>[1] = "1" OBVIOUS
  <2> QED BY <2>2, <2>3
<1>2. CASE app.to \in {<<a, b, c, d>> : a \in {"page", "2"}, b \in {"page", "3", "dead", "2"},
                                 c \in {"4", "2", "page"}, d \in {"page", "dead", "1"}}
  <2>1. PICK a \in {"page", "2"}, b \in {"page", "3", "dead", "2"}, c \in {"4", "2", "page"}, d \in {"page", "dead", "1"} :
            app.to = <<a, b, c, d>>
    BY <1>2
  <2>2. 1 .. Len(app.to) = {1, 2, 3, 4} /\ app.to[1] = a /\ app.to[2] = b /\ app.to[3] = c /\ app.to[4] = d BY <2>1
  <2>3. LET s == <<"1", "2", "3", "4", "5">> IN s[1] = "1" /\ s[2] = "2" /\ s[3] = "3" /\ s[4] = "4" OBVIOUS
  <2> QED BY <2>2, <2>3
<1> QED BY <1>1, <1>2 DEF LinkApps

\* What the apps have in common.
LEMMA LimitApp ==
    ASSUME app \in LimitApps
    PROVE  /\ Len(app.targets) \in Nat /\ Len(app.to) \in Nat
           /\ app.probe = "csrf" => \A n \in 1 .. Len(app.targets) :
                                     app.targets[n].does \in {"refuses", "away", "redirects", "done", "page"}
           /\ app.probe = "errors" => app.targets[1].answers /\ app.targets[1].real
           /\ app.probe = "split" => \A n \in 1 .. Len(app.targets) : app.targets[n].answers /\ app.targets[n].real
           /\ app.probe = "loop" => L!Route # {} /\ L!Targeted
<1>0. \A t \in Home : Len(t) \in Nat BY DEF Home
<1>1. CASE app \in GateApps
  <2>1. app.probe \in {"login", "middleware"} BY <1>1 DEF GateApps
  <2>2. app.to \in Home BY <1>1 DEF GateApps
  <2>3. Len(app.targets) \in Nat BY <1>1 DEF GateApps, AtMostOne, Pairs, Walks
  <2> QED BY <1>0, <2>1, <2>2, <2>3
<1>2. CASE app \in CrossApps
  <2>1. app.probe = "csrf" /\ app.to \in Home BY <1>2 DEF CrossApps
  <2> DEFINE forms == [does : {"refuses", "away", "redirects", "done", "page"}, real : BOOLEAN]
  <2>2. app.targets \in Pairs(forms) BY <1>2 DEF CrossApps
  <2>3. \A t \in forms : t.does \in {"refuses", "away", "redirects", "done", "page"} OBVIOUS
  <2> HIDE DEF forms
  <2>4. Len(app.targets) \in Nat /\ \A n \in 1 .. Len(app.targets) : app.targets[n] \in forms BY <2>2, PairsAreLists
  <2> QED BY <1>0, <2>1, <2>3, <2>4
<1>3. CASE app \in LinkApps
  <2>1. app.probe \in {"links", "loop"} /\ app.targets = <<>> BY <1>3 DEF LinkApps
  <2>2. Len(app.to) \in Nat BY <1>3 DEF LinkApps
  <2>3. L!Route # {} /\ L!Targeted BY <1>3, RoutesAreTargeted
  <2> QED BY <2>1, <2>2, <2>3
<1>4. CASE app \in EndpointApps
  <2>1. app.probe \in {"crash", "constraint", "bomb", "host"} /\ app.to \in Home BY <1>4 DEF EndpointApps
  <2>2. app.targets \in Pairs([answers : BOOLEAN, real : BOOLEAN, fails : BOOLEAN, errs : {TRUE}, reads : BOOLEAN]) BY <1>4 DEF EndpointApps
  <2> QED BY <1>0, <2>1, <2>2, PairsAreLists
<1>5. CASE app \in ErrorApps
  <2>1. app.probe = "errors" /\ app.to \in Home BY <1>5 DEF ErrorApps
  <2> DEFINE first == [answers : {TRUE}, real : {TRUE}, fails : BOOLEAN, errs : BOOLEAN]
             second == [answers : BOOLEAN, real : BOOLEAN, fails : BOOLEAN, errs : BOOLEAN]
  <2>2. app.targets \in Couples(first, second) BY <1>5 DEF ErrorApps
  <2>3. \A t \in first : t.answers = TRUE /\ t.real = TRUE OBVIOUS
  <2> HIDE DEF first, second
  <2>4. PICK a \in first, b \in second : app.targets = <<a, b>> BY <2>2 DEF Couples
  <2>5. Len(app.targets) = 2 /\ app.targets[1] = a BY <2>4
  <2> QED BY <1>0, <2>1, <2>3, <2>5
<1>6. CASE app \in SplitApps
  <2>1. app.probe = "split" /\ app.to \in Home BY <1>6 DEF SplitApps
  <2> DEFINE field == [answers : {TRUE}, real : {TRUE}, fails : BOOLEAN]
  <2>2. app.targets \in Pairs(field) BY <1>6 DEF SplitApps
  <2>3. \A t \in field : t.answers = TRUE /\ t.real = TRUE OBVIOUS
  <2> HIDE DEF field
  <2>4. Len(app.targets) \in Nat /\ \A n \in 1 .. Len(app.targets) : app.targets[n] \in field BY <2>2, PairsAreLists
  <2> QED BY <1>0, <2>1, <2>3, <2>4
<1>7. CASE app \in OnePageApps
  <2>1. app.probe \in {"meta", "integrity", "tls"} /\ app.to \in Home /\ app.targets = <<>> BY <1>7 DEF OnePageApps
  <2> QED BY <1>0, <2>1
<1> QED BY <1>1, <1>2, <1>3, <1>4, <1>5, <1>6, <1>7 DEF LimitApps

\* Nothing has been asked at the start.
LEMMA LimitInit == L!Init => L!LimitInv
<1> SUFFICES ASSUME L!Init PROVE L!LimitInv OBVIOUS
<1>1. L!Held BY LimitApp DEF L!Init, L!Held, L!Holds
<1>2. L!ShellInv BY DEF L!Init, L!ShellInv
<1>3. L!LoginInv
  <2>1. 1 .. 0 = {} OBVIOUS
  <2> QED BY <2>1 DEF L!Init, L!LoginInv
<1>4. L!GateInv /\ L!FormInv /\ L!EndpointInv BY DEF L!Init, L!GateInv, L!FormInv, L!EndpointInv
<1>5. L!LinkInv BY DEF L!Init, L!LinkInv
<1>6. L!FiredIsReal BY DEF L!Init, L!FiredIsReal
<1>7. L!LoopInv BY LimitApp DEF L!Init, L!LoopInv, L!HopInv
<1> QED BY <1>1, <1>2, <1>3, <1>4, <1>5, <1>6, <1>7 DEF L!LimitInv

\* The defects of an app are its own.
LEMMA LimitDefects == ASSUME app' = app PROVE L!Defective' = L!Defective /\ L!Withstands' = L!Withstands
<1>1. L!Defective' = L!Defective BY DEF L!Defective, L!Wrong, L!Circle, L!Chain, L!Walked, L!Leads
<1>2. L!Withstands' = L!Withstands BY DEF L!Withstands
<1> QED BY <1>1, <1>2

\* What an app does is its own.
LEMMA LimitWrong ==
    ASSUME L!Held, ~L!NoMore, app.probe \notin {"links", "loop", "meta", "integrity", "tls"}, L!Wrong(L!Target) PROVE L!Defective
<1>1. mem.n \in 1 .. Len(app.targets) BY DEF L!Held, L!Holds, L!NoMore
<1> QED BY <1>1 DEF L!Defective, L!Target

\* Faults only grow.
LEMMA LimitLoss == ASSUME L!Held, L!Loss PROVE faults' \in Nat /\ faults' = faults + 1
  BY DEF L!Held, L!Loss

\* _endpoint_is_live: what passes is real, or its questions were lost.
LEMMA LimitGate ==
    ASSUME L!Held, L!ShellInv, NEW g \in L!Gate(L!Target.real), L!Live(g)
    PROVE  /\ faults' \in Nat /\ faults' >= faults
           /\ g.memo \in {"none", "shell"}
           /\ app.catchAll /\ g.memo = "none" => faults' >= 1
           /\ g.live => L!Target.real \/ faults' >= IF app.catchAll THEN 2 ELSE 1
<1>1. PICK first \in 0 .. 1, second \in 0 .. 1 :
        /\ g.lost = first + second
        /\ CASE mem.memo # "unset" -> g.memo = mem.memo /\ first = 0
             [] mem.memo = "unset" -> g.memo = IF app.catchAll /\ first = 0 THEN "shell" ELSE "none"
        /\ g.live = (L!Target.real \/ (g.memo = "none" /\ second = 1))
        /\ L!Target.real \/ g.memo = "shell" => second = 0
  BY DEF L!Gate
<1>2. faults' = faults + g.lost /\ faults \in Nat /\ mem.memo \in {"unset", "none", "shell"} BY DEF L!Live, L!Held, L!Holds
<1>3. faults' \in Nat /\ faults' >= faults /\ faults' = faults + first + second BY <1>1, <1>2
<1>4. g.memo \in {"none", "shell"} BY <1>1, <1>2
<1>5. ASSUME app.catchAll, g.memo = "none" PROVE faults + first >= 1
  <2>1. CASE mem.memo = "unset" BY <1>1, <1>2, <1>5, <2>1
  <2>2. CASE mem.memo # "unset"
    <3>1. mem.memo = "none" BY <1>1, <1>5, <2>2
    <3> QED BY <1>2, <1>5, <3>1 DEF L!ShellInv
  <2> QED BY <2>1, <2>2
<1>6. g.live => L!Target.real \/ (g.memo = "none" /\ second = 1) BY <1>1
<1> QED BY <1>1, <1>2, <1>3, <1>4, <1>5, <1>6

\* A probe that ends.
LEMMA LimitEnds ==
    ASSUME L!LimitInv, at # "end", app' = app, faults' \in Nat, faults' >= faults, at' = "end", L!Holds(mem'),
           mem'.memo = mem.memo \/ (app.catchAll /\ mem'.memo = "none" => faults' >= 1), mem'.bad = mem.bad,
           verdict' = "fired" /\ faults' <= L!Withstands => L!Defective
    PROVE  L!LimitInv'
<1> USE DEF L!LimitInv
<1>1. L!Held'
  <2>1. L!Holds(mem)' BY DEF L!Holds
  <2> QED BY <2>1 DEF L!Held
<1>2. L!ShellInv' BY DEF L!ShellInv, L!Held
<1>3. L!LoginInv' /\ L!GateInv' /\ L!FormInv' /\ L!EndpointInv' BY DEF L!LoginInv, L!GateInv, L!FormInv, L!EndpointInv
<1>4. L!LinkInv' BY LimitDefects DEF L!LinkInv
<1>5. L!FiredIsReal' BY LimitDefects DEF L!FiredIsReal
<1>6. L!LoopInv' BY DEF L!LoopInv, L!HopInv, L!Route, L!Targeted, L!Leads
<1> QED BY <1>1, <1>2, <1>3, <1>4, <1>5, <1>6

\* A probe that goes on: what it has met is of its own kind.
LEMMA LimitGoesOn ==
    ASSUME L!LimitInv, at # "end", app' = app, faults' \in Nat, faults' >= faults, at' # "end", verdict' = verdict, L!Holds(mem'),
           mem'.memo = mem.memo \/ (app.catchAll /\ mem'.memo = "none" => faults' >= 1),
           app.probe = "login" => L!LoginInv', app.probe = "middleware" => L!GateInv', app.probe = "csrf" => L!FormInv',
           app.probe \in L!Differential => L!EndpointInv', app.probe = "links" => L!LinkInv',
           app.probe = "loop" => L!LoopInv'
    PROVE  L!LimitInv'
<1> USE DEF L!LimitInv
<1>1. L!Held'
  <2>1. L!Holds(mem)' BY DEF L!Holds
  <2> QED BY <2>1 DEF L!Held
<1>2. L!ShellInv' BY DEF L!ShellInv, L!Held
<1>3. L!LoginInv' BY DEF L!LoginInv
<1>4. L!GateInv' BY DEF L!GateInv
<1>5. L!FormInv' BY DEF L!FormInv
<1>6. L!EndpointInv' BY DEF L!EndpointInv
<1>7. L!LinkInv' BY DEF L!LinkInv
<1>8. L!FiredIsReal' BY DEF L!FiredIsReal, L!Held
<1>9. L!LoopInv' BY DEF L!LoopInv
<1> QED BY <1>1, <1>2, <1>3, <1>4, <1>5, <1>6, <1>7, <1>8, <1>9

\* What a request costs, and what is held after some steps.
LEMMA LimitCost == ASSUME L!Held, L!Loss \/ L!Came PROVE faults' \in Nat /\ faults' >= faults /\ (L!Loss => faults' >= 1)
  BY DEF L!Held, L!Loss, L!Came

\* What a probe of limits holds, part by part.
LEMMA LimitHolds ==
    ASSUME L!Held
    PROVE  /\ L!Holds(mem)
           /\ L!Holds([mem EXCEPT !.k = @ + 1]) /\ L!Holds([mem EXCEPT !.n = @ + 1]) /\ L!Holds([mem EXCEPT !.n = @ + 1, !.k = 0])
           /\ L!Holds([mem EXCEPT !.n = @ + 1, !.k = 1])
           /\ L!Holds(L!Spend(mem))
           /\ \A t \in BOOLEAN : L!Holds([mem EXCEPT !.tested = t])
<1>1. mem.n + 1 \in Nat \ {0} /\ mem.k + 1 \in Nat BY DEF L!Held, L!Holds
<1> QED BY <1>1 DEF L!Held, L!Holds, L!Spend

\* Logins that are tried until they are limited.
LEMMA LimitLogin == ASSUME L!LimitInv, L!Login \/ L!LoggedIn PROVE L!LimitInv'
<1> USE DEF L!LimitInv
<1>0. app' = app /\ at # "end" /\ app.probe = "login" BY DEF L!Login, L!LoggedIn, L!Is
<1>1. CASE L!Login
  <2>0. at = "start" BY <1>1 DEF L!Login, L!Is
  <2>1. CASE L!End("na") /\ mem' = mem /\ L!Came
    <3>1. faults' \in Nat /\ faults' >= faults BY <2>1, LimitCost
    <3> QED BY <1>0, <2>1, <3>1, LimitEnds, LimitHolds DEF L!End
  <2>2. CASE (L!Loss \/ L!Came) /\ (L!End("na") \/ L!End("clean")) /\ mem' = mem
    <3>1. faults' \in Nat /\ faults' >= faults BY <2>2, LimitCost
    <3> QED BY <1>0, <2>2, <3>1, LimitEnds, LimitHolds DEF L!End
  <2>3. ASSUME NEW t, ~L!NoMore,
               L!Loss \/ (L!Came /\ L!Target.limit \notin 1 .. mem.k + 1 /\ (t => mem.tested \/ L!Target.rejects)),
               L!Go(IF mem.k + 1 < Logins THEN at ELSE "logged in"), mem' = [mem EXCEPT !.k = @ + 1, !.tested = t]
        PROVE  L!LimitInv'
    <3>1. faults' \in Nat /\ faults' >= faults /\ (L!Loss => faults' >= 1) BY <2>3, LimitCost
    <3>9. mem' = [mem EXCEPT !.k = @ + 1, !.tested = t] BY <2>3, Zenon
    <3>2. L!Holds(mem') /\ mem'.k = mem.k + 1 /\ mem'.tested = t /\ mem'.n = mem.n /\ mem'.memo = mem.memo
      BY <3>9 DEF L!Held, L!Holds
    <3>3. L!Target' = L!Target /\ L!NoMore' = L!NoMore BY <1>0, <3>2 DEF L!Target, L!NoMore
    <3>4. mem.k \in Nat /\ faults \in Nat /\ Logins \in Nat BY LimitBounds DEF L!Held, L!Holds
    <3>5. at' = "logged in" => mem'.k >= Logins
      <4>1. CASE mem.k + 1 < Logins BY <2>0, <2>3, <4>1 DEF L!Go
      <4>2. CASE ~(mem.k + 1 < Logins)
        <5>1. mem.k + 1 >= Logins BY <3>4, <4>2
        <5> QED BY <3>2, <5>1
      <4> QED BY <4>1, <4>2
    <3>6. ASSUME faults' = 0 PROVE L!Target.limit \notin 1 .. mem'.k /\ (mem'.tested => L!Target.rejects)
      <4>1. ~L!Loss BY <3>1, <3>6
      <4>2. faults = 0 /\ L!Target.limit \notin 1 .. mem.k + 1 /\ (t => mem.tested \/ L!Target.rejects) BY <2>3, <3>6, <4>1 DEF L!Came
      <4>3. mem.tested => L!Target.rejects BY <1>0, <2>0, <2>3, <4>2 DEF L!LoginInv
      <4>4. t => L!Target.rejects BY <4>2, <4>3, Zenon
      <4> QED BY <3>2, <4>2, <4>4
    <3>7. L!LoginInv' BY <1>0, <2>3, <3>3, <3>5, <3>6 DEF L!LoginInv
    <3>8. at' # "end" /\ verdict' = verdict BY <2>0, <2>3 DEF L!Go
    <3> QED BY <1>0, <3>1, <3>2, <3>7, <3>8, LimitGoesOn DEF L!Differential
  <2>4. CASE L!NoMore BY <1>1, <2>1, <2>4 DEF L!Login, L!Keep
  <2>5. CASE ~L!NoMore
    <3>1. CASE L!Loss /\ (L!End("na") \/ L!End("clean")) /\ mem' = mem BY <2>2, <3>1
    <3>2. CASE L!Loss /\ L!Go(IF mem.k + 1 < Logins THEN at ELSE "logged in") /\ mem' = [mem EXCEPT !.k = @ + 1, !.tested = @ \/ TRUE]
      <4>1. PICK t : t = (mem.tested \/ TRUE) OBVIOUS
      <4>2. mem' = [mem EXCEPT !.k = @ + 1, !.tested = t] BY <3>2, <4>1, Zenon
      <4> QED BY <2>3, <2>5, <3>2, <4>2
    <3>3. CASE L!Came /\ L!Target.limit \in 1 .. mem.k + 1 /\ L!End("clean") /\ mem' = mem BY <2>2, <3>3
    <3>4. CASE /\ L!Came /\ L!Target.limit \notin 1 .. mem.k + 1
               /\ L!Go(IF mem.k + 1 < Logins THEN at ELSE "logged in")
               /\ mem' = [mem EXCEPT !.k = @ + 1, !.tested = @ \/ L!Target.rejects]
      <4>1. PICK t : t = (mem.tested \/ L!Target.rejects) OBVIOUS
      <4>2. mem' = [mem EXCEPT !.k = @ + 1, !.tested = t] BY <3>4, <4>1, Zenon
      <4>3. t => mem.tested \/ L!Target.rejects BY <4>1, Zenon
      <4> QED BY <2>3, <2>5, <3>4, <4>2, <4>3
    <3> QED BY <1>1, <2>5, <3>1, <3>2, <3>3, <3>4 DEF L!Login, L!Keep
  <2> QED BY <2>4, <2>5
<1>2. CASE L!LoggedIn
  <2>0. at = "logged in" /\ ~L!NoMore /\ mem.k >= Logins BY <1>0, <1>2 DEF L!LoggedIn, L!Is, L!LoginInv
  <2>1. PICK g \in L!Gate(L!Target.real) :
          L!Live(g) /\ L!End(IF g.live THEN L!Either(mem, "fired") ELSE "na") /\ mem' = [mem EXCEPT !.memo = g.memo]
    BY <1>2 DEF L!LoggedIn
  <2>2. /\ faults' \in Nat /\ faults' >= faults /\ g.memo \in {"none", "shell"}
        /\ app.catchAll /\ g.memo = "none" => faults' >= 1
        /\ g.live => L!Target.real \/ faults' >= 1
    BY <2>1, LimitGate
  <2>3. L!Holds(mem') /\ mem'.memo = g.memo /\ mem'.bad = mem.bad BY <2>1, <2>2 DEF L!Held, L!Holds
  <2>4. ASSUME verdict' = "fired", faults' <= L!Withstands PROVE L!Defective
    <3>1. L!Withstands = 0 BY <1>0 DEF L!Withstands
    <3>2. faults = 0 /\ L!Target.real /\ mem.tested
      BY <2>1, <2>2, <2>4, <3>1 DEF L!End, L!Either, L!Held
    <3>3. L!Target.rejects /\ L!Target.limit \notin 1 .. mem.k BY <1>0, <2>0, <3>2 DEF L!LoginInv
    <3> DEFINE limit == L!Target.limit
    <3>7. limit \notin 1 .. mem.k BY <3>3
    <3> HIDE DEF limit
    <3>8. mem.k \in Nat /\ Logins \in Nat /\ mem.k >= Logins BY <2>0, LimitBounds DEF L!Held, L!Holds
    <3>9. limit \notin 1 .. Logins BY <3>7, <3>8
    <3>4. L!Target.limit \notin 1 .. Logins BY <3>9 DEF limit
    <3>5. L!Wrong(L!Target) BY <1>0, <3>2, <3>3, <3>4 DEF L!Wrong
    <3> QED BY <1>0, <2>0, <3>5, LimitWrong
  <2> QED BY <1>0, <2>0, <2>1, <2>2, <2>3, <2>4, LimitEnds DEF L!End
<1> QED BY <1>1, <1>2

\* Gates that a header opens.
LEMMA LimitMiddleware == ASSUME L!LimitInv, L!Refuses \/ L!Opens PROVE L!LimitInv'
<1> USE DEF L!LimitInv
<1>0. app' = app /\ at # "end" /\ app.probe = "middleware" BY DEF L!Refuses, L!Opens, L!Is
<1>1. ASSUME L!Loss \/ L!Came, L!NextTarget(mem) PROVE L!LimitInv'
  <2>1. faults' \in Nat /\ faults' >= faults BY <1>1, LimitCost
  <2>2. L!Holds(mem') /\ mem'.memo = mem.memo BY <1>1, LimitHolds DEF L!NextTarget, L!Held, L!Holds
  <2>3. at' # "end" /\ verdict' = verdict /\ L!GateInv' BY <1>1 DEF L!NextTarget, L!Go, L!GateInv
  <2> QED BY <1>0, <2>1, <2>2, <2>3, LimitGoesOn DEF L!Differential
<1>2. CASE L!Refuses
  <2>1. CASE L!End(IF mem.bad > 0 THEN "clean" ELSE "na") /\ mem' = mem /\ L!Came
    <3>1. faults' \in Nat /\ faults' >= faults BY <2>1, LimitCost
    <3> QED BY <1>0, <2>1, <3>1, LimitEnds, LimitHolds DEF L!End
  <2>2. CASE ~L!NoMore /\ L!Go("open") /\ mem' = [mem EXCEPT !.bad = @ + 1, !.k = 0] /\ (L!Loss \/ (L!Came /\ L!Target.gated))
    <3>1. faults' \in Nat /\ faults' >= faults /\ (L!Loss => faults' >= 1) BY <2>2, LimitCost
    <3>2. L!Holds(mem') /\ mem'.memo = mem.memo /\ mem'.k = 0 /\ mem'.n = mem.n BY <2>2 DEF L!Held, L!Holds
    <3>3. L!Target' = L!Target /\ L!NoMore' = L!NoMore BY <1>0, <3>2 DEF L!Target, L!NoMore
    <3>4. L!GateInv' BY <1>0, <2>2, <3>1, <3>2, <3>3, LimitBounds DEF L!GateInv
    <3> QED BY <1>0, <2>2, <3>1, <3>2, <3>4, LimitGoesOn DEF L!Go, L!Differential
  <2> QED BY <1>1, <1>2, <2>1, <2>2 DEF L!Refuses, L!Keep
<1>3. CASE L!Opens
  <2>0. at = "open" /\ ~L!NoMore /\ mem.k <= Payloads /\ (faults = 0 => L!Target.gated) BY <1>0, <1>3 DEF L!Opens, L!Is, L!GateInv
  <2>1. CASE mem.k # Payloads /\ (L!Loss \/ L!Came) /\ L!Go(at) /\ mem' = [mem EXCEPT !.k = @ + 1]
    <3>1. faults' \in Nat /\ faults' >= faults BY <2>1, LimitCost
    <3>2. L!Holds(mem') /\ mem'.memo = mem.memo /\ mem'.k = mem.k + 1 /\ mem'.n = mem.n BY <2>1 DEF L!Held, L!Holds
    <3>3. L!Target' = L!Target /\ L!NoMore' = L!NoMore BY <1>0, <3>2 DEF L!Target, L!NoMore
    <3>4. mem.k \in Nat /\ faults \in Nat BY DEF L!Held, L!Holds
    <3>5. mem'.k <= Payloads /\ (faults' = 0 => L!Target.gated) BY <2>0, <2>1, <3>1, <3>2, <3>4, LimitBounds
    <3>6. L!GateInv' BY <2>0, <3>3, <3>5 DEF L!GateInv
    <3> QED BY <1>0, <2>0, <2>1, <3>1, <3>2, <3>6, LimitGoesOn DEF L!Go, L!Differential
  <2>2. CASE mem.k # Payloads /\ L!Came /\ (~L!Target.gated \/ L!Target.opens = mem.k + 1) /\ L!End("fired") /\ mem' = mem
    <3>1. faults' \in Nat /\ faults' = faults BY <2>2 DEF L!Came, L!Held
    <3>2. ASSUME faults' <= L!Withstands PROVE L!Defective
      <4>1. L!Withstands = 0 BY <1>0 DEF L!Withstands
      <4>2. L!Target.gated BY <2>0, <3>1, <3>2, <4>1
      <4>3. L!Target.opens \in 1 .. Payloads BY <2>0, <2>2, <4>2, LimitBounds DEF L!Held, L!Holds
      <4>4. L!Wrong(L!Target) BY <1>0, <4>2, <4>3 DEF L!Wrong
      <4> QED BY <1>0, <2>0, <4>4, LimitWrong
    <3> QED BY <1>0, <2>2, <3>1, <3>2, LimitEnds, LimitHolds DEF L!End, L!Held
  <2> QED BY <1>1, <1>3, <2>1, <2>2 DEF L!Opens, L!Keep
<1> QED BY <1>2, <1>3

\* A form that takes a request from elsewhere.
LEMMA LimitForms == ASSUME L!LimitInv, L!Session \/ L!Elsewhere \/ L!Compare PROVE L!LimitInv'
<1> USE DEF L!LimitInv
<1>0. app' = app /\ at # "end" /\ app.probe = "csrf" BY DEF L!Session, L!Elsewhere, L!Compare, L!Is
<1>1. ASSUME NEW m, L!Holds(m), m.memo = mem.memo \/ (app.catchAll /\ m.memo = "none" => faults' >= 1), L!NextForm(m),
             faults' \in Nat, faults' >= faults
      PROVE  L!LimitInv'
  <2>1. m.n + 1 \in Nat \ {0} BY <1>1 DEF L!Holds
  <2>2. L!Holds(mem') /\ mem'.memo = m.memo BY <1>1, <2>1 DEF L!NextForm, L!Holds
  <2>3. at' # "end" /\ verdict' = verdict /\ L!FormInv' BY <1>1 DEF L!NextForm, L!Go, L!FormInv
  <2> QED BY <1>0, <1>1, <2>2, <2>3, LimitGoesOn DEF L!Differential
<1>2. ASSUME faults' \in Nat, faults' >= faults, L!Holds(mem'), mem'.bad = mem.bad,
             mem'.memo = mem.memo \/ (app.catchAll /\ mem'.memo = "none" => faults' >= 1),
             L!End("fired"), faults' = 0 => ~L!NoMore /\ L!Target.real /\ L!Target.does \in {"redirects", "done"}
      PROVE  L!LimitInv'
  <2>1. ASSUME faults' <= L!Withstands PROVE L!Defective
    <3>1. L!Withstands = 0 BY <1>0 DEF L!Withstands
    <3>2. ~L!NoMore /\ L!Target.real /\ L!Target.does \in {"redirects", "done"} BY <1>2, <2>1, <3>1
    <3>3. L!Wrong(L!Target) BY <1>0, <3>2 DEF L!Wrong
    <3> QED BY <1>0, <3>2, <3>3, LimitWrong
  <2> QED BY <1>0, <1>2, <2>1, LimitEnds DEF L!End
<1>3. CASE L!Session
  <2>0. faults' = faults BY <1>3 DEF L!Session
  <2>1. faults' = faults /\ faults' \in Nat /\ faults' >= faults BY <2>0 DEF L!Held
  <2>2. CASE (L!End("na") \/ L!End("clean")) /\ mem' = mem
    BY <1>0, <2>1, <2>2, LimitEnds, LimitHolds DEF L!End
  <2>3. CASE L!Go(at) /\ mem' = [mem EXCEPT !.k = 1]
    <3>1. L!Holds(mem') /\ mem'.memo = mem.memo BY <2>3 DEF L!Held, L!Holds
    <3>2. at = "start" BY <1>3 DEF L!Session, L!Is
    <3>3. at' # "end" /\ verdict' = verdict /\ L!FormInv' BY <2>3, <3>2 DEF L!Go, L!FormInv
    <3> QED BY <1>0, <2>1, <3>1, <3>3, LimitGoesOn DEF L!Differential
  <2> QED BY <1>3, <2>2, <2>3 DEF L!Session, L!Keep
<1>4. CASE L!Elsewhere
  <2>1. CASE L!Done
    <3>1. faults' \in Nat /\ faults' >= faults BY <2>1, LimitCost DEF L!Done
    <3>2. verdict' # "fired" /\ at' = "end" /\ mem' = mem BY <2>1 DEF L!Done, L!End, L!Either, L!Keep
    <3> QED BY <1>0, <3>1, <3>2, LimitEnds, LimitHolds
  <2>2. CASE L!Loss /\ L!NextForm(mem) 
    <3>1. faults' \in Nat /\ faults' >= faults BY <2>2, LimitCost
    <3>2. PICK m : m = mem OBVIOUS
    <3>3. L!NextForm(m) BY <2>2, <3>2 DEF L!NextForm
    <3> QED BY <1>1, <3>1, <3>2, <3>3, LimitHolds
  <2>3. ASSUME NEW g \in L!Gate(L!Target.real), ~L!NoMore, L!Live(g), NEW m, m = [mem EXCEPT !.memo = g.memo, !.tested = @ \/ g.live],
               \/ L!NextForm(m)
               \/ g.live /\ L!Target.does = "redirects" /\ L!End("fired") /\ mem' = m
               \/ g.live /\ L!Target.does \notin {"refuses", "away", "redirects"} /\ L!Go("compare") /\ mem' = m
        PROVE  L!LimitInv'
    <3>1. /\ faults' \in Nat /\ faults' >= faults /\ g.memo \in {"none", "shell"}
          /\ app.catchAll /\ g.memo = "none" => faults' >= 1
          /\ g.live => L!Target.real \/ faults' >= IF app.catchAll THEN 2 ELSE 1
      BY <2>3, LimitGate
    <3>2. L!Holds(m) /\ m.memo = g.memo /\ m.bad = mem.bad /\ m.n = mem.n
      <4> DEFINE t == mem.tested \/ g.live
      <4>1. m = [mem EXCEPT !.memo = g.memo, !.tested = t] BY <2>3, Zenon
      <4> HIDE DEF t
      <4> QED BY <3>1, <4>1 DEF L!Held, L!Holds
    <3>3. CASE L!NextForm(m) BY <1>1, <3>1, <3>2, <3>3
    <3>4. CASE g.live /\ L!Target.does = "redirects" /\ L!End("fired") /\ mem' = m
      <4>1. faults' = 0 => L!Target.real
        <5>1. (IF app.catchAll THEN 2 ELSE 1) >= 1 OBVIOUS
        <5> QED BY <3>1, <3>4, <5>1
      <4>2. L!Holds(mem') /\ mem'.bad = mem.bad BY <3>2, <3>4
      <4>3. mem'.memo = mem.memo \/ (app.catchAll /\ mem'.memo = "none" => faults' >= 1) BY <3>1, <3>2, <3>4
      <4>4. L!End("fired") BY <3>4
      <4>5. faults' = 0 => ~L!NoMore /\ L!Target.real /\ L!Target.does \in {"redirects", "done"} BY <2>3, <3>4, <4>1
      <4> QED BY <1>2, <3>1, <4>2, <4>3, <4>4, <4>5
    <3>5. CASE g.live /\ L!Target.does \notin {"refuses", "away", "redirects"} /\ L!Go("compare") /\ mem' = m
      <4>1. L!Target' = L!Target /\ L!NoMore' = L!NoMore BY <1>0, <3>2, <3>5 DEF L!Target, L!NoMore
      <4>2. L!Target.does \in {"done", "page"}
        <5>1. mem.n \in 1 .. Len(app.targets) BY <2>3 DEF L!Held, L!Holds, L!NoMore
        <5> QED BY <1>0, <3>5, <5>1 DEF L!Held, L!Target
      <4>3. L!Passed' BY <1>0, <3>1, <3>5, <4>1 DEF L!Passed
      <4>4. L!FormInv' BY <2>3, <4>1, <4>2, <4>3 DEF L!FormInv
      <4> QED BY <1>0, <3>1, <3>2, <3>5, <4>4, LimitGoesOn DEF L!Go, L!Differential
    <3> QED BY <2>3, <3>3, <3>4, <3>5
  <2> QED
    <3>1. CASE L!NoMore BY <1>4, <2>1, <3>1 DEF L!Elsewhere
    <3>2. CASE ~L!NoMore
      <4>1. CASE L!Loss /\ L!NextForm(mem) BY <2>2, <4>1
      <4>2. ASSUME NEW g \in L!Gate(L!Target.real), L!Live(g),
                   LET m == [mem EXCEPT !.memo = g.memo, !.tested = @ \/ g.live]
                   IN  CASE ~g.live \/ L!Target.does \in {"refuses", "away"} -> L!NextForm(m)
                         [] g.live /\ L!Target.does = "redirects"           -> L!End("fired") /\ mem' = m
                         [] OTHER                                           -> L!Go("compare") /\ mem' = m
            PROVE  L!LimitInv'
        <5>1. PICK m : m = [mem EXCEPT !.memo = g.memo, !.tested = @ \/ g.live] OBVIOUS
        <5>2. \/ L!NextForm(m)
              \/ g.live /\ L!Target.does = "redirects" /\ L!End("fired") /\ mem' = m
              \/ g.live /\ L!Target.does \notin {"refuses", "away", "redirects"} /\ L!Go("compare") /\ mem' = m
          BY <4>2, <5>1 DEF L!NextForm
        <5> QED BY <2>3, <3>2, <4>2, <5>1, <5>2, Zenon
      <4> QED BY <1>4, <3>2, <4>1, <4>2 DEF L!Elsewhere
    <3> QED BY <3>1, <3>2
<1>5. CASE L!Compare
  <2>0. at = "compare" /\ ~L!NoMore /\ L!Target.does \in {"done", "page"} /\ L!Passed BY <1>0, <1>5 DEF L!Compare, L!Is, L!FormInv
  <2>1. CASE L!Loss /\ L!End("fired") /\ mem' = mem
    <3>1. faults' \in Nat /\ faults' >= faults /\ faults' >= 1 BY <2>1, LimitCost
    <3> QED BY <1>2, <2>1, <3>1, LimitHolds
  <2>2. CASE L!Came /\ L!NextForm(mem)
    <3>1. faults' \in Nat /\ faults' >= faults BY <2>2, LimitCost
    <3>2. PICK m : m = mem OBVIOUS
    <3>3. L!NextForm(m) BY <2>2, <3>2 DEF L!NextForm
    <3> QED BY <1>1, <3>1, <3>2, <3>3, LimitHolds
  <2>3. CASE L!Came /\ L!Target.does # "page" /\ L!End("fired") /\ mem' = mem
    <3>1. faults' \in Nat /\ faults' >= faults /\ faults' = faults BY <2>3, LimitCost DEF L!Came
    <3>2. faults' = 0 => L!Target.real BY <2>0, <3>1 DEF L!Passed
    <3> QED BY <1>2, <2>0, <2>3, <3>1, <3>2, LimitHolds
  <2> QED BY <1>5, <2>1, <2>2, <2>3 DEF L!Compare, L!Keep
<1> QED BY <1>3, <1>4, <1>5

\* An app's routes are its own, and so is the chain that is followed.
LEMMA LoopKept ==
    ASSUME L!LoopInv, app.probe = "loop", app' = app, at' # "end" /\ mem'.k = 1 => mem'.budget \in L!Route,
           at' = "hop" => L!Reached(mem'.url, mem'.seen)
    PROVE  L!LoopInv'
<1>1. L!Route' = L!Route /\ L!Targeted' = L!Targeted BY DEF L!Route, L!Targeted, L!Leads
<1>2. L!HopInv' BY DEF L!HopInv, L!Reached, L!Route, L!Walked, L!Leads
<1> QED BY <1>1, <1>2 DEF L!LoopInv

\* The sizes that the family counts are those of the library.
LEMMA LoopSizes == \A S : (L!IsFiniteSet(S) <=> IsFiniteSet(S)) /\ L!Cardinality(S) = Cardinality(S)
<1>1. \A S : L!IsFiniteSet(S) <=> IsFiniteSet(S) BY DEF L!IsFiniteSet, IsFiniteSet
<1>2. \A S : L!Cardinality(S) = Cardinality(S) BY DEF L!Cardinality, Cardinality
<1> QED BY <1>1, <1>2

\* A chain begins at a route.
LEMMA LoopStarts == ASSUME NEW url \in L!Route PROVE L!Reached(url, {})
<1>1. IsFiniteSet({}) /\ Cardinality({}) = 0 BY FS_EmptySet
<1> DEFINE w == [h \in 0 .. 0 |-> url]
<1>2. w \in [0 .. 0 -> L!Route] /\ w[0] = url OBVIOUS
<1>3. L!Walked(w, 0) BY DEF L!Walked
<1> HIDE DEF w
<1>4. \E u \in [0 .. 0 -> L!Route] : u[0] = url /\ L!Walked(u, 0) BY <1>2, <1>3
<1>5. L!IsFiniteSet({}) /\ L!Cardinality({}) = 0 BY <1>1, LoopSizes
<1> QED BY <1>4, <1>5 DEF L!Reached

\* A redirect that is followed leads to a route of the app.
LEMMA LoopLeads ==
    ASSUME L!LoopInv, app.probe = "loop", NEW url \in L!Route, app.to[url] \notin {"page", "dead", "off"}
    PROVE  L!Number(url) \in L!Route /\ L!Leads(url, L!Number(url))
<1>1. \E n \in 1 .. Len(app.to) : L!Leads(url, n) BY DEF L!LoopInv, L!Targeted, L!Route
<1> QED BY <1>1 DEF L!Number, L!Route

\* It makes the chain longer by one.
LEMMA LoopGoesOn ==
    ASSUME L!LoopInv, app.probe = "loop", L!Reached(mem.url, mem.seen), mem.url \notin mem.seen,
           app.to[mem.url] \notin {"page", "dead", "off"}
    PROVE  L!Reached(L!Number(mem.url), mem.seen \cup {mem.url})
<1>0. mem.url \in L!Route /\ IsFiniteSet(mem.seen) BY LoopSizes DEF L!Reached
<1>1. PICK next : next = L!Number(mem.url) OBVIOUS
<1>2. next \in L!Route /\ L!Leads(mem.url, next) BY <1>0, <1>1, LoopLeads
<1>3. PICK k : k = Cardinality(mem.seen) OBVIOUS
<1>4. /\ IsFiniteSet(mem.seen \cup {mem.url}) /\ k \in Nat
      /\ Cardinality(mem.seen \cup {mem.url}) = k + 1
  BY <1>0, <1>3, FS_AddElement, FS_CardinalityType
<1>5. PICK w \in [0 .. k -> L!Route] : w[k] = mem.url /\ L!Walked(w, k) BY <1>3, LoopSizes DEF L!Reached
<1> DEFINE v == [h \in 0 .. k + 1 |-> IF h = k + 1 THEN next ELSE w[h]]
<1>6. v \in [0 .. k + 1 -> L!Route] BY <1>2, <1>4, <1>5
<1>7. v[k + 1] = next /\ \A h \in 0 .. k : v[h] = w[h] BY <1>4
<1>8. L!Walked(v, k + 1)
  <2> SUFFICES ASSUME NEW h \in 0 .. (k + 1) - 1 PROVE L!Leads(v[h], v[h + 1]) BY DEF L!Walked
  <2> HIDE DEF v
  <2>1. CASE h = k
    <3>1. v[h] = mem.url /\ v[h + 1] = next BY <1>4, <1>5, <1>7, <2>1
    <3> QED BY <1>2, <3>1
  <2>2. CASE h # k
    <3>1. h \in 0 .. k - 1 /\ h \in 0 .. k /\ h + 1 \in 0 .. k BY <1>4, <2>2
    <3>2. v[h] = w[h] /\ v[h + 1] = w[h + 1] BY <1>7, <3>1
    <3> QED BY <1>5, <3>1, <3>2 DEF L!Walked
  <2> QED BY <2>1, <2>2
<1>9. \A url \in mem.seen \cup {mem.url} : \E n \in (mem.seen \cup {mem.url}) \cup {next} : L!Leads(url, n)
  BY <1>2 DEF L!Reached
<1>10. mem.seen \cup {mem.url} \subseteq L!Route BY DEF L!Reached
<1> HIDE DEF v
<1>11. \E u \in [0 .. k + 1 -> L!Route] : u[k + 1] = next /\ L!Walked(u, k + 1) BY <1>6, <1>7, <1>8
<1>12. L!IsFiniteSet(mem.seen \cup {mem.url}) /\ L!Cardinality(mem.seen \cup {mem.url}) = k + 1 BY <1>4, LoopSizes
<1> QED BY <1>1, <1>2, <1>9, <1>10, <1>11, <1>12 DEF L!Reached

\* A route that was seen before closes a circle, and as many routes as a browser follows are
\* a chain that is too long.
LEMMA LoopFires ==
    ASSUME app.probe = "loop", L!Reached(mem.url, mem.seen), mem.url \in mem.seen \/ Cardinality(mem.seen) > Hops
    PROVE  L!Defective
<1>1. CASE mem.url \in mem.seen
  <2>1. mem.seen \in (SUBSET (1 .. Len(app.to))) \ {{}} BY <1>1 DEF L!Reached, L!Route
  <2>2. \A url \in mem.seen : \E n \in mem.seen : L!Leads(url, n) BY <1>1 DEF L!Reached
  <2> QED BY <2>1, <2>2 DEF L!Circle, L!Defective
<1>2. CASE Cardinality(mem.seen) > Hops
  <2>1. PICK k : k = Cardinality(mem.seen) OBVIOUS
  <2>2. k \in Nat /\ Hops \in Nat /\ Hops + 1 <= k
    <3>1. IsFiniteSet(mem.seen) BY LoopSizes DEF L!Reached
    <3>2. k \in Nat BY <2>1, <3>1, FS_CardinalityType
    <3>3. Hops \in Nat BY ProbesAssumption DEF ProbesAssumption
    <3> QED BY <1>2, <2>1, <3>2, <3>3
  <2>3. PICK w \in [0 .. k -> L!Route] : L!Walked(w, k) BY <2>1, LoopSizes DEF L!Reached
  <2> DEFINE v == [h \in 0 .. Hops + 1 |-> w[h]]
  <2>4. v \in [0 .. Hops + 1 -> 1 .. Len(app.to)] BY <2>2, <2>3 DEF L!Route
  <2>5. L!Walked(v, Hops + 1)
    <3> SUFFICES ASSUME NEW h \in 0 .. (Hops + 1) - 1 PROVE L!Leads(v[h], v[h + 1]) BY DEF L!Walked
    <3>1. h \in 0 .. k - 1 /\ h \in 0 .. Hops + 1 /\ h + 1 \in 0 .. Hops + 1 BY <2>2
    <3>2. v[h] = w[h] /\ v[h + 1] = w[h + 1] BY <3>1
    <3> HIDE DEF v
    <3> QED BY <2>3, <3>1, <3>2 DEF L!Walked
  <2> HIDE DEF v
  <2> QED BY <2>4, <2>5 DEF L!Chain, L!Defective
<1> QED BY <1>1, <1>2

\* The links of a page, and the hops of a chain.
LEMMA LimitLinks == ASSUME L!LimitInv, L!Home \/ L!Link \/ L!Enter \/ L!Hop PROVE L!LimitInv'
<1> USE DEF L!LimitInv
<1>0. app' = app /\ at # "end" /\ app.probe \in {"links", "loop"} BY DEF L!Home, L!Link, L!Enter, L!Hop, L!Is
<1>1. ASSUME L!Loss \/ L!Came, at' = "end", mem' = mem, verdict' = "fired" => L!Defective PROVE L!LimitInv'
  <2>1. faults' \in Nat /\ faults' >= faults BY <1>1, LimitCost
  <2> QED BY <1>0, <1>1, <2>1, LimitEnds, LimitHolds
<1>2. ASSUME L!Loss \/ L!Came, at' # "end", verdict' = verdict, L!Holds(mem'), mem'.memo = mem.memo,
             app.probe = "links" => L!LinkInv', app.probe = "loop" => L!LoopInv'
      PROVE  L!LimitInv'
  <2>1. faults' \in Nat /\ faults' >= faults BY <1>2, LimitCost
  <2> QED BY <1>0, <1>2, <2>1, LimitGoesOn DEF L!Differential
<1>3. CASE L!Home
  <2>1. PICK lost \in BOOLEAN :
             /\ IF lost THEN L!Loss ELSE L!Came
             /\ LET none == lost \/ app.to[1] # "page"
                IN  IF none /\ app.probe = "links" THEN L!End("na") /\ L!Keep
                    ELSE L!Go("start") /\ mem' = [mem EXCEPT !.k = 1, !.n = IF app.probe = "loop" THEN 1 ELSE 2,
                                                           !.budget = IF none THEN 1 ELSE Len(app.to)]
    BY <1>3 DEF L!Home
  <2>2. L!Loss \/ L!Came BY <2>1
  <2>3. CASE L!End("na") /\ mem' = mem BY <1>1, <2>2, <2>3 DEF L!End
  <2>4. ASSUME NEW n \in {1, 2}, NEW b, L!Go("start"), mem' = [mem EXCEPT !.k = 1, !.n = n, !.budget = b],
               app.probe = "links" => n = 2 /\ b = Len(app.to), app.probe = "loop" => b \in L!Route
        PROVE  L!LimitInv'
    <3>1. L!Holds(mem') /\ mem'.memo = mem.memo /\ mem'.n = n /\ mem'.budget = b /\ mem'.bad = mem.bad BY <2>4 DEF L!Held, L!Holds
    <3>2. app.probe = "links" => L!LinkInv' BY <1>0, <2>4, <3>1, LimitDefects DEF L!LinkInv
    <3>3. app.probe = "loop" => L!LoopInv'
      BY <1>0, <2>4, <3>1, LoopKept DEF L!Go
    <3> QED BY <1>2, <2>2, <2>4, <3>1, <3>2, <3>3 DEF L!Go
  <2>5. CASE app.probe = "links"
    <3>1. CASE ~lost /\ app.to[1] = "page"
      <4>1. PICK n, b : n = 2 /\ b = Len(app.to) OBVIOUS
      <4>2. L!Go("start") /\ mem' = [mem EXCEPT !.k = 1, !.n = n, !.budget = b] BY <2>1, <2>5, <3>1, <4>1
      <4> QED BY <2>4, <2>5, <4>1, <4>2
    <3> QED BY <2>1, <2>3, <2>5, <3>1 DEF L!Keep
  <2>6. CASE app.probe = "loop"
    <3>1. PICK n, b : n = 1 /\ b = IF lost \/ app.to[1] # "page" THEN 1 ELSE Len(app.to) OBVIOUS
    <3>2. L!Go("start") /\ mem' = [mem EXCEPT !.k = 1, !.n = n, !.budget = b] BY <2>1, <2>6, <3>1
    <3>3. b \in L!Route BY <2>6, <3>1 DEF L!LoopInv, L!Route, L!Held
    <3> QED BY <2>4, <2>6, <3>1, <3>2, <3>3
  <2> QED BY <1>0, <2>5, <2>6
<1>4. CASE L!Link
  <2>0. app.probe = "links" /\ at = "start" /\ mem.k = 1 /\ mem.n >= 2 /\ mem.budget = Len(app.to) /\ (mem.bad > 0 => L!Defective)
    BY <1>4 DEF L!Link, L!Is, L!LinkInv
  <2>1. CASE L!End(IF Len(app.to) = 1 THEN "na" ELSE IF mem.bad > 0 THEN "fired" ELSE "clean") /\ mem' = mem /\ L!Came
    BY <1>1, <2>0, <2>1 DEF L!End
  <2>2. CASE L!Loss /\ L!Go(at) /\ mem' = [mem EXCEPT !.n = @ + 1]
    <3>1. L!Holds(mem') /\ mem'.memo = mem.memo /\ mem'.n = mem.n + 1 /\ mem'.budget = mem.budget /\ mem'.bad = mem.bad
      BY <2>2 DEF L!Held, L!Holds
    <3>2. mem'.n >= 2 BY <2>0, <3>1 DEF L!Held, L!Holds
    <3>3. L!LinkInv' BY <1>0, <2>0, <3>1, <3>2, LimitDefects DEF L!LinkInv
    <3> QED BY <1>2, <2>0, <2>2, <3>1, <3>3 DEF L!Go
  <2>3. CASE mem.n <= mem.budget /\ L!Came /\ L!Go(at) /\ mem' = [mem EXCEPT !.n = @ + 1, !.bad = @ + IF app.to[mem.n] = "dead" THEN 1 ELSE 0]
    <3> DEFINE more == IF app.to[mem.n] = "dead" THEN 1 ELSE 0
    <3>1. more \in Nat /\ (more > 0 => app.to[mem.n] = "dead") OBVIOUS
    <3>2. mem' = [mem EXCEPT !.n = @ + 1, !.bad = @ + more] BY <2>3
    <3> HIDE DEF more
    <3>3. L!Holds(mem') /\ mem'.memo = mem.memo /\ mem'.n = mem.n + 1 /\ mem'.budget = mem.budget /\ mem'.bad = mem.bad + more
      BY <3>1, <3>2 DEF L!Held, L!Holds
    <3>4. mem'.n >= 2 BY <2>0, <3>3 DEF L!Held, L!Holds
    <3>5. more > 0 => L!Defective
      <4>1. mem.n \in 2 .. Len(app.to) BY <2>0, <2>3 DEF L!Held, L!Holds
      <4> QED BY <2>0, <3>1, <4>1 DEF L!Defective
    <3>6. mem'.bad > 0 => L!Defective BY <2>0, <3>1, <3>3, <3>5 DEF L!Held, L!Holds
    <3>7. L!LinkInv' BY <1>0, <2>0, <3>3, <3>4, <3>6, LimitDefects DEF L!LinkInv
    <3> QED BY <1>2, <2>0, <2>3, <3>3, <3>7 DEF L!Go
  <2>4. mem.n \in Nat /\ mem.budget \in Nat BY <2>0 DEF L!Held, L!Holds
  <2> QED BY <1>4, <2>1, <2>2, <2>3, <2>4 DEF L!Link, L!Keep
<1>5. CASE L!Enter
  <2>0. app.probe = "loop" /\ at # "end" /\ mem.k = 1 BY <1>0, <1>5 DEF L!Enter, L!Is
  <2>1. CASE L!Done BY <1>1, <2>1 DEF L!Done, L!End, L!Keep, L!Either
  <2>2. CASE mem.n <= mem.budget /\ L!Came /\ L!Go("hop") /\ mem' = [mem EXCEPT !.url = mem.n, !.seen = {}]
    <3>1. /\ L!Holds(mem') /\ mem'.memo = mem.memo
          /\ mem'.url = mem.n /\ mem'.seen = {} /\ mem'.k = mem.k /\ mem'.budget = mem.budget
      BY <2>2 DEF L!Held, L!Holds
    <3>2. mem.budget \in L!Route /\ mem.n \in L!Route BY <2>0, <2>2 DEF L!LoopInv, L!Route, L!Held, L!Holds
    <3>3. L!Reached(mem.n, {}) BY <3>2, LoopStarts
    <3>4. L!LoopInv' BY <1>0, <2>0, <2>2, <3>1, <3>2, <3>3, LoopKept DEF L!Go
    <3> QED BY <1>2, <2>0, <2>2, <3>1, <3>4 DEF L!Go
  <2>3. mem.n > mem.budget \/ mem.n <= mem.budget BY <2>0 DEF L!LoopInv, L!Route, L!Held, L!Holds
  <2> QED BY <1>5, <2>1, <2>2, <2>3 DEF L!Enter
<1>6. CASE L!Hop
  <2>0. app.probe = "loop" /\ at = "hop" /\ L!Reached(mem.url, mem.seen) BY <1>6 DEF L!Hop, L!Is, L!LoopInv, L!HopInv
  <2>1. CASE (mem.url \in mem.seen \/ Cardinality(mem.seen) > Hops) /\ L!End("fired") /\ L!Keep /\ L!Came
    <3>1. L!Defective BY <2>0, <2>1, LoopFires
    <3> QED BY <1>1, <2>0, <2>1, <3>1 DEF L!End, L!Keep
  <2>2. PICK m : m = [mem EXCEPT !.seen = @ \cup {mem.url}, !.tested = TRUE] OBVIOUS
  <2>3. /\ L!Holds(m) /\ m.memo = mem.memo
        /\ m.seen = mem.seen \cup {mem.url} /\ m.k = mem.k /\ m.budget = mem.budget
    BY <2>2 DEF L!Held, L!Holds
  <2>4. ASSUME NEW w, L!Holds(w), w.memo = mem.memo, w.k = mem.k, w.budget = mem.budget, L!Loss \/ L!Came, L!Leave(w)
        PROVE  L!LimitInv'
    <3>1. w.n + 1 \in Nat \ {0} BY <2>4 DEF L!Holds
    <3>2. L!Holds(mem') /\ mem'.memo = mem.memo /\ mem'.k = mem.k /\ mem'.budget = mem.budget BY <2>4, <3>1 DEF L!Leave, L!Holds
    <3>3. at' = "start" BY <2>4 DEF L!Leave, L!Go
    <3>4. mem.k = 1 => mem.budget \in L!Route BY <2>0 DEF L!LoopInv
    <3>5. L!LoopInv' BY <1>0, <2>0, <3>2, <3>3, <3>4, LoopKept
    <3> QED BY <1>2, <2>0, <2>4, <3>2, <3>5 DEF L!Leave, L!Go
  <2>5. CASE L!Loss /\ L!Leave(mem)
    <3>1. PICK w : w = mem OBVIOUS
    <3>2. L!Leave(w) BY <2>5, <3>1 DEF L!Leave
    <3> QED BY <2>4, <2>5, <3>1, <3>2, LimitHolds
  <2>6. CASE L!Came /\ L!Leave(m) BY <2>3, <2>4, <2>6
  <2>7. CASE mem.url \notin mem.seen /\ app.to[mem.url] \notin {"page", "dead", "off"} /\ L!Came
             /\ L!Go(at) /\ mem' = [m EXCEPT !.url = L!Number(mem.url)]
    <3>1. PICK next : next = L!Number(mem.url) OBVIOUS
    <3>2. /\ L!Holds(mem') /\ mem'.memo = mem.memo /\ mem'.url = next
          /\ mem'.seen = mem.seen \cup {mem.url} /\ mem'.k = mem.k /\ mem'.budget = mem.budget
      BY <2>3, <2>7, <3>1 DEF L!Holds
    <3>3. L!Reached(next, mem.seen \cup {mem.url}) BY <2>0, <2>7, <3>1, LoopGoesOn
    <3>4. mem.k = 1 => mem.budget \in L!Route BY <2>0 DEF L!LoopInv
    <3>5. L!LoopInv' BY <1>0, <2>0, <2>7, <3>2, <3>3, <3>4, LoopKept DEF L!Go
    <3> QED BY <1>2, <2>0, <2>7, <3>2, <3>5 DEF L!Go
  <2>8. \/ (mem.url \in mem.seen \/ Cardinality(mem.seen) > Hops) /\ L!End("fired") /\ L!Keep /\ L!Came
        \/ L!Loss /\ L!Leave(mem)
        \/ L!Came /\ L!Leave(m)
        \/ mem.url \notin mem.seen /\ app.to[mem.url] \notin {"page", "dead", "off"} /\ L!Came
           /\ L!Go(at) /\ mem' = [m EXCEPT !.url = L!Number(mem.url)]
    BY <1>6, <2>2, LoopSizes DEF L!Hop, L!Leave
  <2> QED BY <2>1, <2>5, <2>6, <2>7, <2>8
<1> QED BY <1>3, <1>4, <1>5, <1>6

\* Behind the gate: with as few faults as the probe withstands, the target is real.
LEMMA LimitReal ==
    ASSUME L!LimitInv, app.probe \in L!Differential, ~L!NoMore, L!Passed
    PROVE  /\ L!Withstands \in {0, 1} /\ (app.probe \in {"constraint", "bomb"} => L!Withstands = 0)
           /\ faults <= L!Withstands => L!Target.real
<1> USE DEF L!LimitInv
<1>1. mem.n \in 1 .. Len(app.targets) BY DEF L!Held, L!Holds, L!NoMore
<1>2. faults \in Nat BY DEF L!Held
<1>3. CASE app.probe \in {"crash", "errors", "host"}
  <2>1. L!Withstands = IF app.catchAll \/ \A n \in 1 .. Len(app.targets) : app.targets[n].real THEN 1 ELSE 0 BY <1>3 DEF L!Withstands
  <2>2. CASE app.catchAll BY <1>2, <1>3, <2>1, <2>2 DEF L!Passed
  <2>3. CASE ~app.catchAll /\ ~L!Target.real
    <3>1. ~app.targets[mem.n].real BY <2>3 DEF L!Target
    <3>2. L!Withstands = 0 BY <1>1, <2>1, <2>3, <3>1
    <3> QED BY <1>2, <1>3, <2>3, <3>2 DEF L!Passed
  <2> QED BY <1>3, <2>1, <2>2, <2>3
<1>4. CASE app.probe \in {"constraint", "bomb"}
  <2>1. L!Withstands = 0 BY <1>4 DEF L!Withstands
  <2>2. (IF app.catchAll THEN 2 ELSE 1) >= 1 OBVIOUS
  <2> QED BY <1>2, <1>4, <2>1, <2>2 DEF L!Passed
<1> QED BY <1>3, <1>4 DEF L!Differential

\* A baseline, the gate, and what should be refused.
LEMMA LimitEndpoint ==
    ASSUME L!LimitInv, L!Baseline \/ L!Crash \/ L!Again \/ L!Errors \/ L!Constraint \/ L!Bomb \/ L!Host PROVE L!LimitInv'
<1> USE DEF L!LimitInv
<1>0. app' = app /\ at # "end" /\ app.probe \in L!Differential
  BY DEF L!Baseline, L!Crash, L!Again, L!Errors, L!Constraint, L!Bomb, L!Host, L!Is, L!Differential
<1>00. app.probe \notin {"login", "middleware", "csrf", "links", "loop", "meta", "integrity", "tls"} BY <1>0 DEF L!Differential
<1>1. ASSUME NEW m, L!Holds(m), m.memo = mem.memo \/ (app.catchAll /\ m.memo = "none" => faults' >= 1), L!NextTarget(m),
             faults' \in Nat, faults' >= faults
      PROVE  L!LimitInv'
  <2>1. m.n + 1 \in Nat \ {0} BY <1>1 DEF L!Holds
  <2>2. L!Holds(mem') /\ mem'.memo = m.memo BY <1>1, <2>1 DEF L!NextTarget, L!Holds
  <2>3. at' # "end" /\ verdict' = verdict /\ L!EndpointInv' BY <1>1 DEF L!NextTarget, L!Go, L!EndpointInv
  <2> QED BY <1>0, <1>00, <1>1, <2>2, <2>3, LimitGoesOn
<1>2. ASSUME NEW m, L!Holds(m), m.memo = mem.memo, m.n = mem.n, m.bad = mem.bad, mem' = m, L!Loss \/ L!Came, L!End("fired"),
             at \in {"provoke", "again"},
             faults' <= L!Withstands => L!Target.fails /\ (app.probe = "constraint" => L!Target.reads)
      PROVE  L!LimitInv'
  <2>1. faults' \in Nat /\ faults' >= faults BY <1>2, LimitCost
  <2>2. ~L!NoMore /\ L!Target.answers /\ L!Passed BY <1>0, <1>2 DEF L!EndpointInv
  <2>3. ASSUME faults' <= L!Withstands PROVE L!Defective
    <3>1. faults <= L!Withstands BY <1>0, <2>1, <2>2, <2>3, LimitReal DEF L!Held
    <3>2. L!Target.real BY <1>0, <2>2, <3>1, LimitReal
    <3>3. L!Wrong(L!Target) BY <1>00, <1>2, <2>2, <2>3, <3>2 DEF L!Wrong
    <3> QED BY <1>00, <2>2, <3>3, LimitWrong
  <2> QED BY <1>0, <1>2, <2>1, <2>3, LimitEnds DEF L!End
<1>3. ASSUME NEW m, L!Holds(m), m.memo = mem.memo \/ (app.catchAll /\ m.memo = "none" => faults' >= 1), m.n = mem.n, mem' = m,
             faults' \in Nat, faults' >= faults, NEW pc \in {"provoke", "again"}, L!Go(pc),
             ~L!NoMore, L!Target.answers, L!Target.real \/ faults' >= IF app.catchAll THEN 2 ELSE 1,
             pc = "again" => L!Target.fails \/ faults' >= 1
      PROVE  L!LimitInv'
  <2>1. L!Target' = L!Target /\ L!NoMore' = L!NoMore BY <1>0, <1>3 DEF L!Target, L!NoMore
  <2>2. L!Passed' BY <1>0, <1>3, <2>1 DEF L!Passed
  <2>3. L!EndpointInv' BY <1>3, <2>1, <2>2 DEF L!EndpointInv, L!Go
  <2> QED BY <1>0, <1>00, <1>3, <2>3, LimitGoesOn DEF L!Go
<1>4. ASSUME NEW m, m = mem, L!Loss \/ L!Came, L!NextTarget(mem) PROVE L!LimitInv'
  <2>1. faults' \in Nat /\ faults' >= faults BY <1>4, LimitCost
  <2>2. L!NextTarget(m) BY <1>4 DEF L!NextTarget
  <2> QED BY <1>1, <1>4, <2>1, <2>2, LimitHolds
<1>5. PICK same : same = mem OBVIOUS
<1>6. CASE L!Baseline
  <2>1. CASE L!End(IF app.probe = "host" THEN "clean" ELSE L!Either(mem, "clean")) /\ mem' = mem /\ L!Came
    <3>1. faults' \in Nat /\ faults' >= faults BY <2>1, LimitCost
    <3>2. verdict' # "fired" /\ at' = "end" BY <2>1 DEF L!End, L!Either
    <3> QED BY <1>0, <2>1, <3>1, <3>2, LimitEnds, LimitHolds
  <2>2. CASE ~L!NoMore /\ app.probe = "errors" /\ mem.n = 1 /\ L!Go("provoke") /\ L!Came /\ mem' = [mem EXCEPT !.budget = @ + 1]
    <3>1. PICK m : m = [mem EXCEPT !.budget = @ + 1] OBVIOUS
    <3>2. L!Holds(m) /\ m.memo = mem.memo /\ m.n = mem.n BY <3>1 DEF L!Held, L!Holds
    <3>3. faults' \in Nat /\ faults' >= faults BY <2>2, LimitCost
    <3>4. L!Target.answers /\ L!Target.real BY <2>2 DEF L!Held, L!Target
    <3> QED BY <1>3, <2>2, <3>1, <3>2, <3>3, <3>4
  <2>3. ASSUME ~L!NoMore, L!Target.answers, NEW g \in L!Gate(L!Target.real), L!Live(g), NEW m, m = [mem EXCEPT !.memo = g.memo],
               NEW t, IF g.live THEN L!Go("provoke") /\ mem' = [m EXCEPT !.tested = t] ELSE L!NextTarget(m)
        PROVE  L!LimitInv'
    <3>1. /\ faults' \in Nat /\ faults' >= faults /\ g.memo \in {"none", "shell"}
          /\ app.catchAll /\ g.memo = "none" => faults' >= 1
          /\ g.live => L!Target.real \/ faults' >= IF app.catchAll THEN 2 ELSE 1
      BY <2>3, LimitGate
    <3>2. L!Holds(m) /\ m.memo = g.memo /\ m.bad = mem.bad /\ m.n = mem.n BY <2>3, <3>1 DEF L!Held, L!Holds
    <3>3. CASE ~g.live BY <1>1, <2>3, <3>1, <3>2, <3>3
    <3>4. CASE g.live
      <4>1. PICK w : w = [m EXCEPT !.tested = t] OBVIOUS
      <4>2. L!Holds(w) /\ w.memo = m.memo /\ w.n = m.n BY <3>2, <4>1 DEF L!Holds
      <4>3. L!Go("provoke") /\ mem' = w BY <2>3, <3>4, <4>1
      <4> QED BY <1>3, <2>3, <3>1, <3>2, <3>4, <4>2, <4>3
    <3> QED BY <3>3, <3>4
  <2>4. ASSUME ~L!NoMore, L!Target.answers, NEW g \in L!Gate(L!Target.real), L!Live(g),
               LET m == [mem EXCEPT !.memo = g.memo]
               IN  IF g.live THEN L!Go("provoke") /\ mem' = [m EXCEPT !.tested = @ \/ app.probe \in {"constraint", "bomb", "host"}]
                   ELSE L!NextTarget(m)
        PROVE  L!LimitInv'
    <3>1. PICK m : m = [mem EXCEPT !.memo = g.memo] OBVIOUS
    <3>2. PICK t : t = (m.tested \/ app.probe \in {"constraint", "bomb", "host"}) OBVIOUS
    <3>3. CASE g.live
      <4>1. L!Go("provoke") /\ mem' = [m EXCEPT !.tested = t] BY <2>4, <3>1, <3>2, <3>3, Zenon
      <4> QED BY <2>3, <2>4, <3>1, <3>3, <4>1
    <3>4. CASE ~g.live
      <4>1. L!NextTarget(m) BY <2>4, <3>1, <3>4 DEF L!NextTarget
      <4> QED BY <2>3, <2>4, <3>1, <3>4, <4>1
    <3> QED BY <3>3, <3>4
  <2>5. CASE (L!Loss \/ L!Came) /\ L!NextTarget(mem) BY <1>4, <1>5, <2>5
  <2>6. CASE L!NoMore \/ mem.budget = 0 BY <1>6, <2>1, <2>6 DEF L!Baseline, L!Keep
  <2>7. CASE ~(L!NoMore \/ mem.budget = 0) /\ app.probe = "errors" /\ mem.n = 1 BY <1>6, <2>2, <2>7 DEF L!Baseline
  <2>8. CASE ~(L!NoMore \/ mem.budget = 0) /\ ~(app.probe = "errors" /\ mem.n = 1)
    <3>1. \/ L!Loss /\ L!NextTarget(mem)
          \/ L!Came /\ ~L!Target.answers /\ L!NextTarget(mem)
          \/ /\ L!Target.answers
             /\ \E g \in L!Gate(L!Target.real) :
                  /\ L!Live(g)
                  /\ LET m == [mem EXCEPT !.memo = g.memo]
                     IN  IF g.live THEN L!Go("provoke") /\ mem' = [m EXCEPT !.tested = @ \/ app.probe \in {"constraint", "bomb", "host"}]
                         ELSE L!NextTarget(m)
      BY <1>6, <2>8 DEF L!Baseline
    <3> QED BY <2>4, <2>5, <2>8, <3>1
  <2> QED BY <2>6, <2>7, <2>8
<1>7. ASSUME NEW m, L!Holds(m), m.memo = mem.memo, L!Loss \/ L!Came, L!NextTarget(m) PROVE L!LimitInv'
  <2>1. faults' \in Nat /\ faults' >= faults BY <1>7, LimitCost
  <2> QED BY <1>1, <1>7, <2>1
<1>8. CASE L!Crash
  <2>0. app.probe = "crash" /\ at = "provoke" /\ ~L!NoMore /\ L!Target.answers /\ L!Passed BY <1>0, <1>8 DEF L!Crash, L!Is, L!EndpointInv
  <2>1. PICK m : m = L!Spend([mem EXCEPT !.tested = TRUE]) OBVIOUS
  <2>2. L!Holds(m) /\ m.memo = mem.memo /\ m.n = mem.n BY <2>1 DEF L!Held, L!Holds, L!Spend
  <2>3. CASE (L!Loss \/ L!Came) /\ L!NextTarget(m) BY <1>7, <2>2, <2>3
  <2>4. CASE (L!Loss \/ (L!Came /\ L!Target.fails)) /\ L!Go("again") /\ mem' = m
    <3>1. faults' \in Nat /\ faults' >= faults /\ (L!Loss => faults' >= 1) BY <2>4, LimitCost
    <3>2. L!Target.real \/ faults' >= IF app.catchAll THEN 2 ELSE 1
      <4>1. faults \in Nat BY DEF L!Held
      <4> QED BY <2>0, <3>1, <4>1 DEF L!Passed
    <3> QED BY <1>3, <2>0, <2>2, <2>4, <3>1, <3>2
  <2>5. \/ (L!Loss \/ L!Came) /\ L!NextTarget(m)
        \/ (L!Loss \/ (L!Came /\ L!Target.fails)) /\ L!Go("again") /\ mem' = m
    BY <1>8, <2>1 DEF L!Crash, L!NextTarget
  <2> QED BY <2>3, <2>4, <2>5
<1>9. CASE L!Again
  <2>0. app.probe = "crash" /\ at = "again" /\ ~L!NoMore /\ L!Passed /\ (L!Target.fails \/ faults >= 1) BY <1>0, <1>9 DEF L!Again, L!Is, L!EndpointInv
  <2>1. CASE (L!Loss \/ L!Came) /\ L!NextTarget(mem) BY <1>4, <1>5, <2>1
  <2>2. CASE (L!Loss \/ (L!Came /\ L!Target.fails)) /\ L!End("fired") /\ mem' = mem
    <3>1. faults' <= L!Withstands => L!Target.fails
      <4>1. L!Loss => faults' = faults + 1 BY LimitLoss
      <4>2. L!Withstands \in {0, 1} /\ faults \in Nat BY <1>0, <2>0, LimitReal DEF L!Held
      <4> QED BY <2>0, <2>2, <4>1, <4>2
    <3> QED BY <1>2, <1>5, <2>0, <2>2, <3>1, LimitHolds
  <2> QED BY <1>9, <2>1, <2>2 DEF L!Again, L!Keep
<1>10. CASE L!Errors
  <2>0. app.probe = "errors" /\ at = "provoke" BY <1>10 DEF L!Errors, L!Is
  <2>1. ASSUME NEW m, NEW t, m = L!Spend([mem EXCEPT !.tested = t]) PROVE L!Holds(m) /\ m.memo = mem.memo /\ m.n = mem.n /\ m.bad = mem.bad
    BY <2>1 DEF L!Held, L!Holds, L!Spend
  <2>2. CASE L!Loss /\ L!NextTarget(L!Spend(mem))
    <3>1. PICK m : m = L!Spend(mem) OBVIOUS
    <3>2. L!NextTarget(m) BY <2>2, <3>1 DEF L!NextTarget
    <3>3. L!Holds(m) /\ m.memo = mem.memo BY <3>1 DEF L!Held, L!Holds, L!Spend
    <3> QED BY <1>7, <2>2, <3>2, <3>3
  <2>3. CASE L!Came /\ L!Target.fails /\ L!End("fired") /\ mem' = L!Spend([mem EXCEPT !.tested = TRUE])
    <3>1. PICK m, t : t = TRUE /\ m = L!Spend([mem EXCEPT !.tested = t]) OBVIOUS
    <3>2. mem' = m BY <2>3, <3>1
    <3>3. L!Holds(m) /\ m.memo = mem.memo /\ m.n = mem.n /\ m.bad = mem.bad BY <2>1, <3>1
    <3> QED BY <1>2, <2>0, <2>3, <3>2, <3>3
  <2>4. CASE L!Came /\ L!NextTarget(L!Spend([mem EXCEPT !.tested = @ \/ L!Target.errs]))
    <3>1. PICK t : t = (mem.tested \/ L!Target.errs) OBVIOUS
    <3>2. PICK m : m = L!Spend([mem EXCEPT !.tested = t]) OBVIOUS
    <3>3. L!NextTarget(m) BY <2>4, <3>1, <3>2, Zenon DEF L!NextTarget
    <3>4. L!Holds(m) /\ m.memo = mem.memo BY <2>1, <3>2
    <3> QED BY <1>7, <2>4, <3>3, <3>4
  <2> QED BY <1>10, <2>2, <2>3, <2>4 DEF L!Errors
<1>11. CASE L!Constraint
  <2>0. app.probe = "constraint" /\ at = "provoke" /\ ~L!NoMore /\ L!Passed BY <1>0, <1>11 DEF L!Constraint, L!Is, L!EndpointInv
  <2>1. CASE (L!Loss \/ L!Came) /\ L!NextTarget(mem) BY <1>4, <1>5, <2>1
  <2>2. CASE (L!Loss \/ (L!Came /\ L!Target.fails /\ L!Target.reads)) /\ L!End("fired") /\ mem' = mem
    <3>1. faults' <= L!Withstands => L!Target.fails /\ L!Target.reads
      <4>1. faults' \in Nat /\ (L!Loss => faults' >= 1) BY <2>2, LimitCost
      <4>2. L!Withstands = 0 BY <1>0, <2>0, LimitReal
      <4> QED BY <2>2, <4>1, <4>2
    <3> QED BY <1>2, <1>5, <2>0, <2>2, <3>1, LimitHolds
  <2> QED BY <1>11, <2>1, <2>2 DEF L!Constraint, L!Keep
<1>12. CASE L!Bomb
  <2>0. app.probe = "bomb" /\ at = "provoke" /\ ~L!NoMore /\ L!Passed BY <1>0, <1>12 DEF L!Bomb, L!Is, L!EndpointInv
  <2>1. CASE (L!Loss \/ L!Came) /\ L!NextTarget(mem) BY <1>4, <1>5, <2>1
  <2>2. CASE (L!Loss \/ (L!Came /\ L!Target.fails)) /\ L!End("fired") /\ mem' = mem
    <3>1. faults' <= L!Withstands => L!Target.fails
      <4>1. faults' \in Nat /\ (L!Loss => faults' >= 1) BY <2>2, LimitCost
      <4>2. L!Withstands = 0 BY <1>0, <2>0, LimitReal
      <4> QED BY <2>2, <4>1, <4>2
    <3> QED BY <1>2, <1>5, <2>0, <2>2, <3>1, LimitHolds
  <2> QED BY <1>12, <2>1, <2>2 DEF L!Bomb, L!Keep
<1>13. CASE L!Host
  <2>0. app.probe = "host" /\ at = "provoke" BY <1>13 DEF L!Host, L!Is
  <2>1. CASE (L!Loss \/ L!Came) /\ L!NextTarget(mem) BY <1>4, <1>5, <2>1
  <2>2. CASE (L!Loss \/ L!Came) /\ L!Target.fails /\ L!End("fired") /\ mem' = mem
    BY <1>2, <1>5, <2>0, <2>2, LimitHolds
  <2> QED BY <1>13, <2>1, <2>2 DEF L!Host, L!Keep
<1> QED BY <1>6, <1>8, <1>9, <1>10, <1>11, <1>12, <1>13

\* Fields one after another, and probes of one page.
LEMMA LimitPages == ASSUME L!LimitInv, L!Splits \/ L!Meta \/ L!Page PROVE L!LimitInv'
<1> USE DEF L!LimitInv
<1>0. app' = app /\ at # "end" /\ app.probe \in {"split", "meta", "integrity", "tls"} BY DEF L!Splits, L!Meta, L!Page, L!Is
<1>1. ASSUME L!Loss \/ L!Came, at' = "end", L!Holds(mem'), mem'.memo = mem.memo, mem'.bad = mem.bad,
             verdict' = "fired" /\ faults' <= L!Withstands => L!Defective
      PROVE  L!LimitInv'
  <2>1. faults' \in Nat /\ faults' >= faults BY <1>1, LimitCost
  <2> QED BY <1>0, <1>1, <2>1, LimitEnds
<1>2. CASE L!Splits
  <2>0. app.probe = "split" /\ at = "start" BY <1>2 DEF L!Splits, L!Is
  <2>1. CASE L!Done
    <3>1. at' = "end" /\ verdict' # "fired" /\ mem' = mem /\ L!Came BY <2>1 DEF L!Done, L!End, L!Either, L!Keep
    <3> QED BY <1>1, <3>1, LimitHolds
  <2>2. PICK m : m = L!Spend([mem EXCEPT !.tested = TRUE]) OBVIOUS
  <2>3. L!Holds(m) /\ m.memo = mem.memo /\ m.bad = mem.bad BY <2>2 DEF L!Held, L!Holds, L!Spend
  <2>4. CASE (L!Loss \/ L!Came) /\ L!NextTarget(m)
    <3>1. faults' \in Nat /\ faults' >= faults BY <2>4, LimitCost
    <3>2. m.n + 1 \in Nat \ {0} BY <2>3 DEF L!Holds
    <3>3. L!Holds(mem') /\ mem'.memo = mem.memo BY <2>3, <2>4, <3>2 DEF L!NextTarget, L!Holds
    <3> QED BY <1>0, <2>0, <2>4, <3>1, <3>3, LimitGoesOn DEF L!NextTarget, L!Go, L!Differential
  <2>5. CASE ~L!NoMore /\ L!Came /\ L!Target.fails /\ L!End("fired") /\ mem' = m
    <3>1. mem.n \in 1 .. Len(app.targets) BY <2>5 DEF L!Held, L!Holds, L!NoMore
    <3>2. L!Target.answers /\ L!Target.real BY <2>0, <3>1 DEF L!Held, L!Target
    <3>3. L!Wrong(L!Target) BY <2>0, <2>5, <3>2 DEF L!Wrong
    <3>4. L!Defective BY <2>0, <2>5, <3>3, LimitWrong
    <3> QED BY <1>1, <2>3, <2>5, <3>4 DEF L!End
  <2>6. \/ L!Done
        \/ (L!Loss \/ L!Came) /\ L!NextTarget(m)
        \/ ~L!NoMore /\ L!Came /\ L!Target.fails /\ L!End("fired") /\ mem' = m
    BY <1>2, <2>2 DEF L!Splits, L!NextTarget
  <2> QED BY <2>1, <2>4, <2>5, <2>6
<1>3. CASE L!Meta \/ L!Page
  <2>0. app.probe \in {"meta", "integrity", "tls"} /\ mem' = mem BY <1>3 DEF L!Meta, L!Page, L!Is
  <2>1. CASE L!Came /\ L!End(app.page)
    <3>1. L!Defective <=> app.page = "fired" BY <2>0 DEF L!Defective
    <3> QED BY <1>1, <2>0, <2>1, <3>1, LimitHolds DEF L!End
  <2>2. CASE L!Loss /\ L!End("na") BY <1>1, <2>0, <2>2, LimitHolds DEF L!End
  <2>3. CASE app.probe = "meta" /\ L!Loss /\ L!End("fired")
    <3>1. L!Withstands = 0 BY <2>3 DEF L!Withstands
    <3>2. faults' \in Nat /\ faults' >= 1 BY <2>3, LimitCost
    <3> QED BY <1>1, <2>0, <2>3, <3>1, <3>2, LimitHolds DEF L!End
  <2> QED BY <1>3, <2>1, <2>2, <2>3 DEF L!Meta, L!Page, L!Is
<1> QED BY <1>2, <1>3

\* Every step of the family.
LEMMA LimitStep == ASSUME L!LimitInv, L!Next PROVE L!LimitInv'
  BY LimitLogin, LimitMiddleware, LimitForms, LimitLinks, LimitEndpoint, LimitPages DEF L!Next

-----------------------------------------------------------------------------
(* The lanes of the browser (Pages).                                        *)

\* What a step costs.
LEMMA LaneLost == ASSUME P!Held, P!Lost PROVE faults' \in Nat /\ faults' >= faults /\ (mem.browser = "killed" \/ faults' >= faults + 1)
  BY DEF P!Held, P!Lost, P!Memories

\* Faults only grow.
LEMMA LaneSpends == ASSUME P!Held, P!Lost \/ P!Answered \/ faults' = faults PROVE faults' \in Nat /\ faults' >= faults
  BY DEF P!Held, P!Lost, P!Answered

\* What an app does is its own.
LEMMA LaneGuilt == ASSUME app' = app PROVE P!Guilty' = P!Guilty
  BY DEF P!Guilty, P!To

\* A lane that ends: its finding or its clean bill is for what it met.
LEMMA LaneEnds ==
    ASSUME P!LaneInv, at # "end", app' = app, P!Lost \/ P!Answered \/ faults' = faults, NEW v, P!Return(v),
           v = "fired" => \/ P!Guilty
                          \/ app.probe \in {"stale", "silent", "back", "deep"} /\ faults' >= 1
                          \/ app.probe \in {"silent", "back", "deep"} /\ mem.browser = "killed"
                          \/ app.probe = "cross" /\ faults' >= 2,
           v = "clean" => 
                   CASE app.probe = "silent"   -> app.says
                     [] app.probe = "deep"     -> P!To(MaxRoutes, app.routes) \cap {"own", "login"} # {}
                     [] app.probe = "readback" -> app.form /\ app.saves
                     [] app.probe = "cross"    -> app.saves /\ (app.anon \/ ~app.other \/ faults' >= 2 \/ mem.browser = "killed")
                     [] app.probe = "back"     -> app.back = "restores" \/ faults' >= 1 \/ mem.browser = "killed"
                     [] OTHER -> TRUE
    PROVE  P!LaneInv'
<1> USE DEF P!LaneInv, P!Return
<1>0. faults' \in Nat /\ faults' >= faults BY LaneSpends
<1>1. P!Held' BY <1>0 DEF P!Held
<1>2. P!Met' BY DEF P!Met, P!To
<1>5. P!Missed' BY DEF P!Missed
<1>3. P!FiredIsReal'
  <2>1. verdict' = "fired" => v = "fired" BY DEF P!Default
  <2> QED BY <2>1, LaneGuilt DEF P!FiredIsReal
<1>4. P!CleanWasSeen'
  <2>1. verdict' = "clean" => v = "clean" \/ app.probe \in {"scan", "inert", "console"} BY DEF P!Default
  <2> QED BY <2>1 DEF P!CleanWasSeen, P!To
<1> QED BY <1>1, <1>2, <1>3, <1>4, <1>5

\* One whose step raises.
LEMMA LaneRaises ==
    ASSUME P!LaneInv, at # "end", app' = app, P!Lost \/ P!Answered \/ faults' = faults, P!Raise PROVE P!LaneInv'
<1>1. P!Return(P!Default) BY DEF P!Raise, P!Return
<1>2. P!Default # "fired" /\ (P!Default = "clean" => app.probe \in {"scan", "inert", "console"}) BY DEF P!Default
<1> QED BY <1>1, <1>2, LaneEnds

\* A lane that goes on.
LEMMA LaneGoesOn ==
    ASSUME P!LaneInv, at # "end", app' = app, P!Lost \/ P!Answered \/ faults' = faults, at' # "end", verdict' = verdict,
           mem' \in P!Memories, P!Met', P!Missed'
    PROVE  P!LaneInv'
<1>1. P!Held' BY LaneSpends DEF P!LaneInv, P!Held
<1> QED BY <1>1 DEF P!LaneInv, P!Held, P!FiredIsReal, P!CleanWasSeen

\* A lane that goes on to the next item.
LEMMA LaneNext ==
    ASSUME P!Held PROVE P!Next1(mem) \in P!Memories /\ P!Next1(mem) = [mem EXCEPT !.n = mem.n + 1]
  BY DEF P!Held, P!Memories, P!Next1

\* An element of a list among the first of it.
LEMMA LaneHas == ASSUME NEW s, Len(s) \in Nat, NEW k, NEW n \in 1 .. Len(s), n <= k PROVE s[n] \in P!To(k, s)
  BY DEF P!To

\* The lists that are walked.
LEMMA WalksAreLists ==
    ASSUME NEW S, NEW s \in Walks(S) PROVE Len(s) \in Nat /\ \A n \in 1 .. Len(s) : s[n] \in S
<1>1. CASE s \in {<<a, b>> : a \in S, b \in S} BY <1>1
<1>2. CASE s \in {<<a, a, b>> : a \in S, b \in S} BY <1>2
<1>3. CASE s = <<>> BY <1>3
<1> QED BY <1>1, <1>2, <1>3 DEF Walks, Pairs

\* A lane before its browser is up.
LEMMA LaneInit == P!Init => P!LaneInv
<1> SUFFICES ASSUME P!Init PROVE P!LaneInv OBVIOUS
<1>1. app \in PageApps BY DEF P!Init
<1>2. app.probe = "stale" => Len(app.routes) \in Nat BY <1>1 DEF PageApps
<1>3. app.probe = "back" => app.back \in {"restores", "url", "stuck", "login"}
  <2>1. app \in WalkApps => app.probe # "back" BY DEF WalkApps
  <2>2. app \in FormApps => app.probe # "back" BY DEF FormApps
  <2>3. app \in SsoApps => app.probe # "back" BY DEF SsoApps
  <2> QED BY <1>1, <2>1, <2>2, <2>3 DEF PageApps, BackApps
<1>4. app.probe = "deep" => /\ Len(app.routes) \in Nat
                            /\ \A n \in 1 .. Len(app.routes) : app.routes[n] \in {"own", "shell", "login", "blank"}
  <2>1. app \in WalkApps /\ app.probe = "deep" => app.routes \in Walks({"own", "shell", "login", "blank"}) BY DEF WalkApps
  <2>2. app \in FormApps => app.probe # "deep" BY DEF FormApps
  <2>3. app \in SsoApps => app.probe # "deep" BY DEF SsoApps
  <2>4. app \in BackApps => app.probe # "deep" BY DEF BackApps
  <2> QED BY <1>1, <2>1, <2>2, <2>3, <2>4, WalksAreLists DEF PageApps
<1>5. app.probe = "scan" => Len(app.pages) \in Nat BY <1>1 DEF PageApps
<1>6. app.probe = "inert" => Len(app.controls) \in Nat BY <1>1 DEF PageApps
<1>7. P!Held BY <1>2, <1>3, <1>4, <1>5, <1>6 DEF P!Init, P!Held, P!Memories
<1>8. P!Met /\ P!Missed BY DEF P!Init, P!Met, P!Missed
<1> QED BY <1>7, <1>8 DEF P!Init, P!LaneInv, P!FiredIsReal, P!CleanWasSeen

\* A launch, a browser that does not answer, and the watchdog.
LEMMA LaneWatched == ASSUME P!LaneInv, P!Skip \/ P!Launch \/ P!Wedge \/ P!Fire PROVE P!LaneInv'
<1> USE DEF P!LaneInv
<1>0. app' = app /\ at # "end" BY DEF P!Skip, P!Launch, P!Wedge, P!Fire
<1>1. CASE P!Skip
  <2>1. P!Return("na") /\ faults' = faults BY <1>1 DEF P!Skip, P!Return
  <2> QED BY <1>0, <2>1, LaneEnds
<1>2. CASE P!Launch
  <2>1. CASE faults' = faults /\ P!Go("open") /\ mem' = mem
    <3>1. P!Met' BY <1>0, <1>2, <2>1 DEF P!Met, P!Go, P!To, P!Launch
    <3>2. P!Missed' BY <1>0, <2>1 DEF P!Missed, P!Go
    <3> QED BY <1>0, <2>1, <3>1, <3>2, LaneGoesOn DEF P!Go, P!Held
  <2> QED BY <1>0, <1>2, <2>1, LaneRaises DEF P!Launch
<1>3. CASE P!Wedge \/ P!Fire
  <2>1. /\ at' = at /\ verdict' = verdict /\ faults' = faults /\ mem' \in P!Memories
        /\ mem'.n = mem.n /\ mem'.tested = mem.tested /\ mem'.dead = mem.dead /\ mem'.on = mem.on
        /\ mem.browser = "killed" => mem'.browser = "killed"
    BY <1>3 DEF P!Wedge, P!Fire, P!Held, P!Memories
  <2>2. P!Met' BY <1>0, <2>1 DEF P!Met, P!To
  <2>3. P!Missed' BY <1>0, <2>1 DEF P!Missed, P!Blind
  <2> QED BY <1>0, <2>1, <2>2, <2>3, LaneGoesOn
<1> QED BY <1>1, <1>2, <1>3

\* A list that is out of date after a save.
LEMMA LaneStale == ASSUME P!LaneInv, P!FindForm \/ P!Live \/ P!After PROVE P!LaneInv'
<1> USE DEF P!LaneInv
<1>0. app' = app /\ at # "end" /\ app.probe = "stale" /\ mem.browser # "wedged"
  BY DEF P!FindForm, P!Live, P!After, P!Is
<1>1. CASE P!FindForm
  <2>1. CASE P!Return("na") /\ faults' = faults
    BY <1>0, <2>1, LaneEnds
  <2>2. CASE (P!Lost \/ P!Answered) /\ P!Go("open") /\ mem' = P!Next1(mem)
    <3>1. P!Met' /\ P!Missed' BY <1>0, <1>1, <2>2, LaneNext DEF P!Held, P!Memories, P!Met, P!Missed, P!Go, P!To, P!FindForm, P!Is
    <3> QED BY <1>0, <2>2, <3>1, LaneGoesOn, LaneNext DEF P!Go
  <2>3. CASE P!Answered /\ P!Go("live") /\ mem' = mem /\ app.routes[mem.n] /\ ~(mem.n > Len(app.routes))
    <3>1. mem.n \in 1 .. Len(app.routes) /\ mem.n <= Len(app.routes) BY <2>3, <1>0 DEF P!Held, P!Memories
    <3>2. TRUE \in P!To(Len(app.routes), app.routes) BY <1>0, <2>3, <3>1 DEF P!To, P!Held
    <3>3. P!Met' /\ P!Missed' BY <1>0, <2>3, <3>2 DEF P!Held, P!Met, P!Missed, P!Go, P!To
    <3> QED BY <1>0, <2>3, <3>3, LaneGoesOn DEF P!Go, P!Held
  <2> QED BY <1>1, <2>1, <2>2, <2>3 DEF P!FindForm
<1>2. CASE P!Live
  <2>1. CASE P!Answered /\ P!Return("clean")
    BY <1>0, <2>1, LaneEnds
  <2>2. CASE (P!Lost \/ (P!Answered /\ ~(app.saves /\ app.shows))) /\ P!Go("after") /\ mem' = mem
    <3>1. mem' \in P!Memories BY <2>2 DEF P!Held
    <3>2. ~(app.saves /\ app.shows) \/ P!Blind(1)' BY <1>0, <2>2, LaneLost DEF P!Held, P!Answered, P!Blind
    <3>3. TRUE \in P!To(Len(app.routes), app.routes) BY <1>2 DEF P!Met, P!Live, P!Is
    <3>4. P!Met' BY <1>0, <2>2, <3>3 DEF P!Met, P!Go, P!To
    <3>5. P!Missed' BY <1>0, <2>2, <3>2 DEF P!Missed, P!Go
    <3> QED BY <1>0, <2>2, <3>1, <3>4, <3>5, LaneGoesOn DEF P!Go
  <2> QED BY <1>2, <2>1, <2>2 DEF P!Live
<1>3. CASE P!After
  <2>1. CASE P!Lost /\ P!Return("clean")
    BY <1>0, <2>1, LaneEnds
  <2>2. CASE P!Answered /\ P!Return(IF app.saves THEN "fired" ELSE "clean")
    <3> DEFINE v == IF app.saves THEN "fired" ELSE "clean"
    <3>1. v = "fired" => P!Guilty \/ faults' >= 1
      BY <1>0, <1>3, <2>2 DEF P!After, P!Is, P!Met, P!Missed, P!Blind, P!Answered, P!Guilty
    <3>2. P!Return(v) BY <2>2
    <3> HIDE DEF v
    <3> QED BY <1>0, <2>2, <3>1, <3>2, LaneEnds
  <2> QED BY <1>3, <2>1, <2>2 DEF P!After
<1> QED BY <1>1, <1>2, <1>3

\* A failure that is not said.
LEMMA LaneSilent == ASSUME P!LaneInv, P!ForceFailure \/ P!LookForError PROVE P!LaneInv'
<1> USE DEF P!LaneInv
<1>0. app' = app /\ at # "end" /\ app.probe = "silent" /\ mem.browser # "wedged"
  BY DEF P!ForceFailure, P!LookForError, P!Is
<1>1. CASE P!ForceFailure
  <2>1. CASE (P!Lost \/ P!Answered) /\ P!Return("na")
    BY <1>0, <2>1, LaneEnds
  <2>2. CASE P!Answered /\ app.form /\ app.mutates /\ P!Go("look") /\ mem' = mem
    <3>1. P!Met' /\ P!Missed' BY <1>0, <2>2 DEF P!Met, P!Missed, P!Go, P!To
    <3> QED BY <1>0, <2>2, <3>1, LaneGoesOn DEF P!Go, P!Held
  <2> QED BY <1>1, <2>1, <2>2 DEF P!ForceFailure
<1>2. CASE P!LookForError
  <2>1. CASE P!Raise /\ faults' = faults
    BY <1>0, <2>1, LaneRaises
  <2>2. CASE P!Lost /\ P!Return("fired")
    <3>1. faults' >= 1 \/ mem.browser = "killed" BY <2>2, LaneLost DEF P!Held
    <3> QED BY <1>0, <2>2, <3>1, LaneEnds
  <2>3. CASE P!Answered /\ P!Return(IF app.says THEN "clean" ELSE "fired")
    <3> DEFINE v == IF app.says THEN "clean" ELSE "fired"
    <3>1. v = "fired" => P!Guilty BY <1>0, <1>2 DEF P!LookForError, P!Is, P!Met, P!Guilty
    <3>2. v = "clean" => app.says OBVIOUS
    <3>3. P!Return(v) BY <2>3
    <3> HIDE DEF v
    <3> QED BY <1>0, <2>3, <3>1, <3>2, <3>3, LaneEnds
  <2> QED BY <1>2, <2>1, <2>2, <2>3 DEF P!LookForError
<1> QED BY <1>1, <1>2

\* BACK in an app of one page.
LEMMA LaneBack == ASSUME P!LaneInv, P!Entry \/ P!Click \/ P!GoBack \/ P!Judge PROVE P!LaneInv'
<1> USE DEF P!LaneInv
<1>0. app' = app /\ at # "end" /\ app.probe = "back" /\ mem.browser # "wedged" /\ app.back \in {"restores", "url", "stuck", "login"}
  BY DEF P!Entry, P!Click, P!GoBack, P!Judge, P!Is, P!Held
<1>1. CASE P!Entry
  <2>1. CASE (P!Lost \/ P!Answered) /\ P!Return("na")
    BY <1>0, <2>1, LaneEnds
  <2>2. CASE P!Answered /\ app.paints /\ app.link /\ P!Go("click") /\ mem' = mem
    <3>1. P!Met' BY <1>0, <2>2 DEF P!Met, P!Go, P!To
    <3>2. P!Missed' BY <1>0, <2>2 DEF P!Missed, P!Go
    <3> QED BY <1>0, <2>2, <3>1, <3>2, LaneGoesOn DEF P!Go, P!Held
  <2> QED BY <1>1, <2>1, <2>2 DEF P!Entry
<1>2. CASE P!Click
  <2>1. CASE P!Lost /\ P!Return("na")
    BY <1>0, <2>1, LaneEnds
  <2>2. CASE /\ P!Go("back") /\ (P!Lost \/ P!Answered)
             /\ \/ P!Answered /\ mem' = [mem EXCEPT !.tested = TRUE, !.on = "new"]
                \/ P!Lost /\ mem' = [mem EXCEPT !.on = "new"]
    <3>1. /\ mem' \in P!Memories /\ mem'.on = "new" /\ mem'.dead = mem.dead /\ mem'.browser = mem.browser
          /\ mem'.tested = TRUE \/ P!Lost
      BY <2>2 DEF P!Held, P!Memories
    <3>2. P!Met' BY <1>0, <1>2, <2>2, <3>1 DEF P!Met, P!Go, P!To, P!Click, P!Is
    <3>3. mem'.tested = TRUE \/ P!Blind(1)' BY <3>1, LaneLost DEF P!Blind, P!Held
    <3>4. P!Missed' BY <1>0, <2>2, <3>1, <3>3 DEF P!Missed, P!Go
    <3> QED BY <1>0, <2>2, <3>1, <3>2, <3>4, LaneGoesOn DEF P!Go
  <2> QED BY <1>2, <2>1, <2>2 DEF P!Click
<1>3. CASE P!GoBack
  <2>1. P!Go("judge") /\ (P!Lost \/ P!Answered) BY <1>3 DEF P!GoBack
  <2>2. /\ mem' \in P!Memories /\ mem'.tested = mem.tested /\ mem'.dead = mem.dead /\ mem'.browser = mem.browser
        /\ mem'.on = app.back \/ (mem' = mem /\ P!Lost)
    BY <1>0, <1>3 DEF P!GoBack, P!Held, P!Memories
  <2>3. P!Met' BY <1>0, <1>3, <2>1, <2>2 DEF P!Met, P!Go, P!To, P!GoBack, P!Is
  <2>4. mem.on # "entry" /\ (mem.tested \/ P!Blind(1)) BY <1>3 DEF P!Missed, P!GoBack, P!Is
  <2>5. P!Blind(1) => P!Blind(1)'
    <3>1. faults' \in Nat /\ faults' >= faults BY <2>1, LaneSpends
    <3> QED BY <2>2, <3>1 DEF P!Blind, P!Held
  <2>6. P!Lost => P!Blind(1)' BY <2>2, LaneLost DEF P!Blind, P!Held
  <2>7. P!Missed' BY <1>0, <2>1, <2>2, <2>4, <2>5, <2>6 DEF P!Missed, P!Go
  <2> QED BY <1>0, <2>1, <2>2, <2>3, <2>7, LaneGoesOn DEF P!Go
<1>4. CASE P!Judge
  <2>0. mem.on = app.back \/ P!Blind(1) BY <1>4 DEF P!Missed, P!Judge, P!Is
  <2>1. CASE P!Lost /\ P!Return(IF mem.on \in {"restores", "url"} THEN "clean" ELSE "fired")
    <3>1. faults' >= 1 \/ mem.browser = "killed" BY <2>1, LaneLost DEF P!Held
    <3> QED BY <1>0, <2>1, <3>1, LaneEnds
  <2>2. CASE P!Answered /\ P!Return(CASE mem.on = "login"           -> "na"
                                    [] mem.on = "restores"        -> "clean"
                                    [] mem.on = "url"             -> IF mem.tested THEN "fired" ELSE "clean"
                                    [] mem.on \in {"new", "stuck"} -> "fired")
    <3> DEFINE v == CASE mem.on = "login"           -> "na"
                      [] mem.on = "restores"        -> "clean"
                      [] mem.on = "url"             -> IF mem.tested THEN "fired" ELSE "clean"
                      [] mem.on \in {"new", "stuck"} -> "fired"
    <3>1. mem.on \in {"new", "restores", "url", "stuck", "login"}
      BY <1>4 DEF P!Missed, P!Judge, P!Is, P!Held, P!Memories
    <3>2. mem.tested \/ P!Blind(1) BY <1>4 DEF P!Missed, P!Judge, P!Is
    <3>3. P!Blind(1) => faults' >= 1 BY <2>2 DEF P!Blind, P!Answered
    <3>4. app.paints /\ app.link BY <1>4 DEF P!Met, P!Judge, P!Is
    <3>5. v = "fired" => P!Guilty \/ faults' >= 1
      <4>1. v = "fired" => mem.on \in {"url", "new", "stuck"} BY <3>1
      <4> QED BY <1>0, <2>0, <3>3, <3>4, <4>1 DEF P!Guilty
    <3>6. v = "clean" => app.back = "restores" \/ faults' >= 1
      <4>1. v = "clean" => mem.on = "restores" \/ (mem.on = "url" /\ ~mem.tested) BY <3>1
      <4> QED BY <2>0, <3>2, <3>3, <4>1
    <3>7. P!Return(v) BY <2>2
    <3> HIDE DEF v
    <3> QED BY <1>0, <2>2, <3>5, <3>6, <3>7, LaneEnds
  <2> QED BY <1>4, <2>1, <2>2 DEF P!Judge
<1> QED BY <1>1, <1>2, <1>3, <1>4

\* Routes that are entered directly.
LEMMA LaneDeep == ASSUME P!LaneInv, P!Fallback \/ P!Route PROVE P!LaneInv'
<1> USE DEF P!LaneInv
<1>0. /\ app' = app /\ at # "end" /\ app.probe = "deep" /\ mem.browser # "wedged"
      /\ Len(app.routes) \in Nat /\ \A n \in 1 .. Len(app.routes) : app.routes[n] \in {"own", "shell", "login", "blank"}
  BY DEF P!Fallback, P!Route, P!Is, P!Held
<1>1. CASE P!Fallback
  <2>1. CASE (P!Lost \/ P!Answered) /\ P!Return("na")
    BY <1>0, <2>1, LaneEnds
  <2>2. CASE P!Answered /\ app.paints /\ P!Go("route") /\ mem' = mem
    <3>0. ~mem.tested BY <1>1 DEF P!Met, P!Fallback, P!Is
    <3>1. P!Met' BY <1>0, <2>2, <3>0 DEF P!Met, P!Go, P!To
    <3>2. P!Missed' BY <1>0, <2>2 DEF P!Missed, P!Go
    <3> QED BY <1>0, <2>2, <3>1, <3>2, LaneGoesOn DEF P!Go, P!Held
  <2> QED BY <1>1, <2>1, <2>2 DEF P!Fallback
<1>2. CASE P!Route
  <2> DEFINE kind == app.routes[mem.n]
             looked == [P!Next1(mem) EXCEPT !.tested = TRUE]
  <2>0. /\ app.paints /\ (mem.tested => P!To(MaxRoutes, app.routes) \cap {"own", "login"} # {}) /\ at = "route"
    BY <1>2 DEF P!Met, P!Route, P!Is
  <2>1. CASE P!Return(IF mem.tested THEN "clean" ELSE "na") /\ faults' = faults
    BY <1>0, <2>0, <2>1, LaneEnds
  <2>2. CASE ~(mem.n > Len(app.routes) \/ mem.n > MaxRoutes)
    <3>1. kind \in P!To(MaxRoutes, app.routes)
      <4>1. mem.n \in 1 .. Len(app.routes) /\ mem.n <= MaxRoutes
        <5>1. MaxRoutes \in Nat /\ mem.n \in Nat \ {0} BY ProbesAssumption DEF ProbesAssumption, P!Held, P!Memories
        <5> QED BY <1>0, <2>2, <5>1
      <4> QED BY <1>0, <4>1, LaneHas
    <3>2. CASE P!Go(at) /\ (P!Lost \/ P!Answered) /\ mem' = P!Next1(mem)
      <4>1. mem' \in P!Memories /\ mem'.tested = mem.tested /\ mem'.dead = mem.dead
        BY <3>2, LaneNext DEF P!Held, P!Memories
      <4>2. P!Met' BY <1>0, <2>0, <3>2, <4>1 DEF P!Met, P!Go, P!To
      <4>3. P!Missed' BY <1>0, <2>0, <3>2 DEF P!Missed, P!Go
      <4> QED BY <1>0, <2>0, <3>2, <4>1, <4>2, <4>3, LaneGoesOn DEF P!Go
    <3>3. CASE P!Go(at) /\ P!Answered /\ mem' = looked /\ kind \in {"own", "login"}
      <4>1. mem' \in P!Memories /\ mem'.dead = mem.dead
        BY <3>3, LaneNext DEF P!Held, P!Memories
      <4>2. P!To(MaxRoutes, app.routes) \cap {"own", "login"} # {} BY <3>1, <3>3
      <4>3. app' = app /\ at = "route" /\ at' = "route" BY <1>0, <2>0, <3>3 DEF P!Go
      <4>4. P!Met'
        <5>1. mem.dead > 0 => "dead" \in P!To(MaxControls, app.controls) BY DEF P!Met
        <5>2. /\ P!To(MaxControls, app'.controls) = P!To(MaxControls, app.controls)
              /\ P!To(MaxRoutes, app'.routes) = P!To(MaxRoutes, app.routes)
          BY <4>3
        <5> HIDE DEF looked, kind, P!LaneInv
        <5> QED BY <2>0, <4>1, <4>2, <4>3, <5>1, <5>2 DEF P!Met
      <4>5. P!Missed' BY <4>3 DEF P!Missed
      <4> QED BY <1>0, <2>0, <3>3, <4>1, <4>4, <4>5, LaneGoesOn DEF P!Go
    <3>4. CASE P!Answered /\ P!Return("fired") /\ kind = "shell"
      <4>1. P!Guilty BY <1>0, <2>0, <3>1, <3>4 DEF P!Guilty
      <4> QED BY <1>0, <3>4, <4>1, LaneEnds
    <3>5. CASE P!Lost /\ P!Return("fired")
      <4>1. faults' >= 1 \/ mem.browser = "killed" BY <3>5, LaneLost DEF P!Held
      <4> QED BY <1>0, <3>5, <4>1, LaneEnds
    <3>6. kind \in {"own", "shell", "login", "blank"}
      <4>1. MaxRoutes \in Nat /\ mem.n \in Nat \ {0} BY ProbesAssumption DEF ProbesAssumption, P!Held, P!Memories
      <4>2. mem.n \in 1 .. Len(app.routes) BY <1>0, <2>2, <4>1
      <4> QED BY <1>0, <4>2
    <3> QED BY <1>2, <2>2, <3>2, <3>3, <3>4, <3>5, <3>6 DEF P!Route
  <2> QED BY <1>2, <2>1, <2>2 DEF P!Route
<1> QED BY <1>1, <1>2

\* What is written, read by oneself.
LEMMA LaneWrites == ASSUME P!LaneInv, P!Submit \/ P!Self PROVE P!LaneInv'
<1> USE DEF P!LaneInv
<1>0. app' = app /\ at # "end" /\ app.probe \in P!Writes /\ mem.browser # "wedged"
  BY DEF P!Submit, P!Self, P!Is
<1>1. CASE P!Submit
  <2>1. CASE (P!Lost \/ P!Answered) /\ P!Return("na")
    BY <1>0, <2>1, LaneEnds
  <2>2. CASE P!Answered /\ app.form /\ P!Go("self") /\ mem' = mem
    <3>1. P!Met' BY <1>0, <2>2 DEF P!Met, P!Go, P!To
    <3>2. P!Missed' BY <1>0, <2>2 DEF P!Missed, P!Go
    <3> QED BY <1>0, <2>2, <3>1, <3>2, LaneGoesOn DEF P!Go, P!Held
  <2> QED BY <1>1, <2>1, <2>2 DEF P!Submit
<1>2. CASE P!Self
  <2>0. at = "self" /\ app.form BY <1>2 DEF P!Self, P!Is, P!Met
  <2>1. CASE P!Answered /\ app.saves /\ app.probe = "cross" /\ P!Go("anon") /\ mem' = [mem EXCEPT !.n = 1]
    <3>1. mem' \in P!Memories /\ mem'.n = 1 /\ mem'.dead = mem.dead BY <2>1 DEF P!Held, P!Memories
    <3>2. P!Met' BY <1>0, <2>0, <2>1, <3>1 DEF P!Met, P!Go, P!To
    <3>3. P!Missed' BY <1>0, <2>1, <3>1 DEF P!Missed, P!Go
    <3> QED BY <1>0, <2>1, <3>1, <3>2, <3>3, LaneGoesOn DEF P!Go
  <2>2. CASE P!Answered /\ app.saves /\ app.probe = "exec" /\ P!Return("fired")
    <3>1. P!Guilty BY <2>0, <2>2 DEF P!Guilty
    <3> QED BY <1>0, <2>2, <3>1, LaneEnds
  <2>3. CASE P!Answered /\ app.saves /\ app.probe = "readback" /\ P!Return("clean")
    BY <1>0, <2>0, <2>3, LaneEnds
  <2>4. CASE (P!Lost \/ P!Answered) /\ P!Go(at) /\ mem' = [mem EXCEPT !.n = 2]
    <3>1. mem' \in P!Memories /\ mem'.dead = mem.dead BY <2>4 DEF P!Held, P!Memories
    <3>2. P!Met' BY <1>0, <2>0, <2>4, <3>1 DEF P!Met, P!Go, P!To
    <3>3. P!Missed' BY <1>0, <2>0, <2>4, <3>1 DEF P!Missed, P!Go
    <3> QED BY <1>0, <2>0, <2>4, <3>1, <3>2, <3>3, LaneGoesOn DEF P!Go
  <2>5. CASE (P!Lost \/ P!Answered) /\ P!Return("na")
    BY <1>0, <2>5, LaneEnds
  <2> QED BY <1>0, <1>2, <2>1, <2>2, <2>3, <2>4, <2>5 DEF P!Self, P!Looks, P!Writes
<1> QED BY <1>1, <1>2

\* A look that is lost, or shows nothing.
LEMMA LaneReads == ASSUME P!LaneInv, P!Nobody \/ P!Stranger PROVE P!LaneInv'
<1> USE DEF P!LaneInv
<1>0. app' = app /\ at # "end" /\ app.probe = "cross" /\ mem.browser # "wedged" /\ app.form /\ app.saves
  BY DEF P!Nobody, P!Stranger, P!Is, P!Met
<1>1. CASE P!Nobody
  <2>0. at = "anon" /\ (mem.n # 1 => ~app.anon \/ P!Blind(1)) BY <1>1 DEF P!Nobody, P!Is, P!Missed
  <2>1. CASE P!Raise /\ faults' = faults
    BY <1>0, <2>1, LaneRaises
  <2>2. CASE P!Answered /\ app.anon /\ P!Return("clean")
    BY <1>0, <2>2, LaneEnds
  <2>3. CASE (P!Lost \/ (P!Answered /\ ~app.anon)) /\ mem.n = 1 /\ P!Go(at) /\ mem' = [mem EXCEPT !.n = 2]
    <3>1. mem' \in P!Memories /\ mem'.dead = mem.dead /\ mem'.browser = mem.browser BY <2>3 DEF P!Held, P!Memories
    <3>2. P!Met' BY <1>0, <2>0, <2>3, <3>1 DEF P!Met, P!Go, P!To
    <3>3. ~app.anon \/ P!Blind(1)' BY <2>3, <3>1, LaneLost DEF P!Blind, P!Held
    <3>4. P!Missed' BY <1>0, <2>0, <2>3, <3>1, <3>3 DEF P!Missed, P!Go
    <3> QED BY <1>0, <2>0, <2>3, <3>1, <3>2, <3>4, LaneGoesOn DEF P!Go
  <2>4. CASE (P!Lost \/ (P!Answered /\ ~app.anon)) /\ mem.n # 1 /\ P!Go("other") /\ mem' = [mem EXCEPT !.n = 1]
    <3>1. mem' \in P!Memories /\ mem'.dead = mem.dead /\ mem'.browser = mem.browser /\ mem'.n = 1 BY <2>4 DEF P!Held, P!Memories
    <3>2. P!Met' BY <1>0, <2>0, <2>4, <3>1 DEF P!Met, P!Go, P!To
    <3>3. ~app.anon \/ P!Blind(2)' BY <2>0, <2>4, <3>1, LaneLost DEF P!Blind, P!Held
    <3>4. P!Missed' BY <1>0, <2>4, <3>1, <3>3 DEF P!Missed, P!Go
    <3> QED BY <1>0, <2>4, <3>1, <3>2, <3>4, LaneGoesOn DEF P!Go
  <2> QED BY <1>1, <2>1, <2>2, <2>3, <2>4 DEF P!Nobody, P!Looks
<1>2. CASE P!Stranger
  <2>0. at = "other" /\ (~app.anon \/ P!Blind(2)) /\ (mem.n # 1 => ~app.other \/ P!Blind(1)) BY <1>2 DEF P!Stranger, P!Is, P!Missed
  <2>1. CASE P!Raise /\ faults' = faults
    BY <1>0, <2>1, LaneRaises
  <2>2. CASE P!Answered /\ app.other /\ P!Return("fired")
    <3>1. ~app.anon \/ faults' >= 2 BY <2>0, <2>2 DEF P!Answered, P!Blind
    <3>2. ~app.anon => P!Guilty BY <1>0, <2>2 DEF P!Guilty
    <3> QED BY <1>0, <2>2, <3>1, <3>2, LaneEnds
  <2>3. CASE (P!Lost \/ (P!Answered /\ ~app.other)) /\ mem.n = 1 /\ P!Go(at) /\ mem' = [mem EXCEPT !.n = 2]
    <3>1. mem' \in P!Memories /\ mem'.dead = mem.dead /\ mem'.browser = mem.browser BY <2>3 DEF P!Held, P!Memories
    <3>2. P!Met' BY <1>0, <2>0, <2>3, <3>1 DEF P!Met, P!Go, P!To
    <3>3. ~app.other \/ P!Blind(1)' BY <2>3, <3>1, LaneLost DEF P!Blind, P!Held
    <3>4. ~app.anon \/ P!Blind(2)'
      <4>1. faults' >= faults /\ faults' \in Nat BY <2>3, LaneSpends
      <4> QED BY <2>0, <3>1, <4>1 DEF P!Blind, P!Held
    <3>5. P!Missed' BY <1>0, <2>0, <2>3, <3>1, <3>3, <3>4 DEF P!Missed, P!Go
    <3> QED BY <1>0, <2>0, <2>3, <3>1, <3>2, <3>5, LaneGoesOn DEF P!Go
  <2>4. CASE (P!Lost \/ (P!Answered /\ ~app.other)) /\ mem.n # 1 /\ P!Return("clean")
    <3>1. ~app.other \/ faults' >= 2 \/ mem.browser = "killed" BY <2>0, <2>4, LaneLost DEF P!Blind, P!Held
    <3> QED BY <1>0, <2>4, <3>1, LaneEnds
  <2> QED BY <1>2, <2>1, <2>2, <2>3, <2>4 DEF P!Stranger, P!Looks
<1> QED BY <1>1, <1>2

\* Script that runs, and errors in the console.
LEMMA LaneScripts == ASSUME P!LaneInv, P!Attempt \/ P!Load PROVE P!LaneInv'
<1> USE DEF P!LaneInv
<1>0. app' = app /\ at = "open" /\ app.probe \in {"scan", "console"} /\ mem.browser # "wedged"
  BY DEF P!Attempt, P!Load, P!Is
<1>1. CASE P!Attempt
  <2>0. app.probe = "scan" /\ Len(app.pages) \in Nat BY <1>1 DEF P!Attempt, P!Is, P!Held
  <2>1. CASE P!Return("clean") /\ faults' = faults
    BY <1>0, <2>0, <2>1, LaneEnds
  <2>2. CASE P!Answered /\ app.pages[mem.n] /\ P!Return("fired") /\ ~(mem.n > Len(app.pages) \/ mem.n > Budget)
    <3>1. Budget \in Nat /\ mem.n \in Nat \ {0} BY ProbesAssumption DEF ProbesAssumption, P!Held, P!Memories
    <3>2. mem.n \in 1 .. Len(app.pages) /\ mem.n <= Budget BY <2>0, <2>2, <3>1
    <3>3. P!Guilty BY <2>0, <2>2, <3>2, LaneHas DEF P!Guilty
    <3> QED BY <1>0, <2>0, <2>2, <3>3, LaneEnds
  <2>3. CASE (P!Lost \/ P!Answered) /\ P!Go(at) /\ mem' \in {P!Next1(mem), [P!Next1(mem) EXCEPT !.late = TRUE]}
    <3>1. mem' \in P!Memories /\ mem'.dead = mem.dead /\ mem'.tested = mem.tested
      <4>1. PICK next : next = P!Next1(mem) OBVIOUS
      <4>2. P!Held OBVIOUS
      <4> HIDE DEF P!LaneInv
      <4>3. next \in P!Memories /\ next = [mem EXCEPT !.n = mem.n + 1] /\ mem \in P!Memories
        BY <4>1, <4>2, LaneNext DEF P!Held
      <4>4. next.dead = mem.dead /\ next.tested = mem.tested BY <4>3 DEF P!Memories
      <4>5. mem' = next \/ mem' = [next EXCEPT !.late = TRUE] BY <2>3, <4>1
      <4> QED BY <4>3, <4>4, <4>5 DEF P!Memories
    <3>2. P!Met' BY <1>0, <2>3, <3>1 DEF P!Met, P!Go, P!To
    <3>3. P!Missed' BY <1>0, <2>3 DEF P!Missed, P!Go
    <3> QED BY <1>0, <2>3, <3>1, <3>2, <3>3, LaneGoesOn DEF P!Go
  <2> QED BY <1>1, <2>1, <2>2, <2>3 DEF P!Attempt
<1>2. CASE P!Load
  <2>0. app.probe = "console" BY <1>2 DEF P!Load, P!Is
  <2>1. CASE P!Lost /\ P!Raise
    BY <1>0, <2>1, LaneRaises
  <2>2. CASE P!Answered /\ P!Return(IF app.throws \/ (app.logs /\ app.broken) THEN "fired" ELSE "clean")
    <3> DEFINE v == IF app.throws \/ (app.logs /\ app.broken) THEN "fired" ELSE "clean"
    <3>1. v = "fired" => P!Guilty BY <2>0 DEF P!Guilty
    <3>2. P!Return(v) BY <2>2
    <3> HIDE DEF v
    <3> QED BY <1>0, <2>0, <2>2, <3>1, <3>2, LaneEnds
  <2>3. CASE P!Lost /\ P!Return(IF app.throws THEN "fired" ELSE "clean")
    <3> DEFINE v == IF app.throws THEN "fired" ELSE "clean"
    <3>1. v = "fired" => P!Guilty BY <2>0 DEF P!Guilty
    <3>2. P!Return(v) BY <2>3
    <3> HIDE DEF v
    <3> QED BY <1>0, <2>0, <2>3, <3>1, <3>2, LaneEnds
  <2> QED BY <1>2, <2>1, <2>2, <2>3 DEF P!Load
<1> QED BY <1>1, <1>2

\* Controls that do nothing.
LEMMA LaneInert == ASSUME P!LaneInv, P!Render \/ P!Press PROVE P!LaneInv'
<1> USE DEF P!LaneInv
<1>0. app' = app /\ at # "end" /\ app.probe = "inert" /\ mem.browser # "wedged" /\ Len(app.controls) \in Nat
  BY DEF P!Render, P!Press, P!Is, P!Held
<1>1. CASE P!Render
  <2>1. CASE P!Lost /\ P!Raise
    BY <1>0, <2>1, LaneRaises
  <2>2. CASE P!Answered /\ P!Go("press") /\ mem' = [mem EXCEPT !.tested = TRUE]
    <3>1. mem' \in P!Memories /\ mem'.dead = mem.dead BY <2>2 DEF P!Held, P!Memories
    <3>2. P!Met' BY <1>0, <2>2, <3>1 DEF P!Met, P!Go, P!To
    <3>3. P!Missed' BY <1>0, <2>2 DEF P!Missed, P!Go
    <3> QED BY <1>0, <2>2, <3>1, <3>2, <3>3, LaneGoesOn DEF P!Go
  <2> QED BY <1>1, <2>1, <2>2 DEF P!Render
<1>2. CASE P!Press
  <2> DEFINE kind == app.controls[mem.n]
  <2>0. at = "press" BY <1>2 DEF P!Press, P!Is
  <2>1. CASE P!Return(IF mem.dead > 0 THEN "fired" ELSE "clean") /\ faults' = faults
    <3> DEFINE v == IF mem.dead > 0 THEN "fired" ELSE "clean"
    <3>1. v = "fired" => P!Guilty BY <1>0 DEF P!Guilty, P!Met
    <3>2. P!Return(v) BY <2>1
    <3> HIDE DEF v
    <3> QED BY <1>0, <2>1, <3>1, <3>2, LaneEnds
  <2>2. CASE /\ ~(mem.n > Len(app.controls) \/ mem.n > MaxControls) /\ P!Go(at) /\ (P!Lost \/ P!Answered \/ faults' = faults)
             /\ \/ mem' = P!Next1(mem)
                \/ mem' = [P!Next1(mem) EXCEPT !.tested = FALSE]
                \/ mem' = [P!Next1(mem) EXCEPT !.dead = @ + 1] /\ kind = "dead"
    <3>1. MaxControls \in Nat /\ mem.n \in Nat \ {0} BY ProbesAssumption DEF ProbesAssumption, P!Held, P!Memories
    <3>2. mem.n \in 1 .. Len(app.controls) /\ mem.n <= MaxControls BY <1>0, <2>2, <3>1
    <3>3. kind \in P!To(MaxControls, app.controls) BY <1>0, <3>2, LaneHas
    <3> DEFINE m == P!Next1(mem)
    <3>a. m \in P!Memories /\ m.dead = mem.dead BY LaneNext DEF P!Held, P!Memories
    <3>b. \/ mem' = m \/ mem' = [m EXCEPT !.tested = FALSE]
          \/ mem' = [m EXCEPT !.dead = @ + 1] /\ kind = "dead"
      BY <2>2
    <3> HIDE DEF m
    <3>e. m.dead + 1 \in Nat BY <3>a DEF P!Memories
    <3>f. [m EXCEPT !.dead = m.dead + 1] \in P!Memories BY <3>a, <3>e DEF P!Memories
    <3>g. [m EXCEPT !.tested = FALSE] \in P!Memories BY <3>a DEF P!Memories
    <3>c. mem' \in P!Memories BY <3>a, <3>b, <3>f, <3>g
    <3>d. mem'.dead = mem.dead \/ kind = "dead" BY <3>a, <3>b DEF P!Memories
    <3>4. mem' \in P!Memories /\ (mem'.dead = mem.dead \/ kind = "dead") BY <3>c, <3>d
    <3>5. mem'.dead > 0 => "dead" \in P!To(MaxControls, app.controls) BY <3>3, <3>4 DEF P!Met
    <3>6. P!Met' BY <1>0, <2>0, <2>2, <3>5 DEF P!Met, P!Go, P!To
    <3>7. P!Missed' BY <1>0, <2>0, <2>2 DEF P!Missed, P!Go
    <3> QED BY <1>0, <2>0, <2>2, <3>4, <3>6, <3>7, LaneGoesOn DEF P!Go
  <2> QED BY <1>2, <2>1, <2>2 DEF P!Press
<1> QED BY <1>1, <1>2

\* Signing in with another provider.
LEMMA LaneSignIn == ASSUME P!LaneInv, P!Served \/ P!Trigger \/ P!Reveal \/ P!Replay PROVE P!LaneInv'
<1> USE DEF P!LaneInv
<1>0. app' = app /\ at # "end" /\ app.probe = "sso"
  BY DEF P!Served, P!Trigger, P!Reveal, P!Replay, P!Is
<1>1. CASE P!Served
  <2>0. at = "start" BY <1>1 DEF P!Served
  <2>1. CASE (P!Lost \/ P!Answered) /\ P!Go("driven") /\ mem' = mem
    <3>1. P!Met' BY <1>0, <2>0, <2>1 DEF P!Met, P!Go, P!To
    <3>2. P!Missed' BY <1>0, <2>1 DEF P!Missed, P!Go
    <3> QED BY <1>0, <2>1, <3>1, <3>2, LaneGoesOn DEF P!Go, P!Held
  <2>2. CASE P!Answered /\ P!Return(P!Verdict(app.served))
    <3>1. P!Verdict(app.served) = "fired" => P!Guilty BY <1>0 DEF P!Verdict, P!Guilty
    <3> QED BY <1>0, <2>2, <3>1, LaneEnds
  <2> QED BY <1>1, <2>1, <2>2 DEF P!Served
<1>2. CASE P!Trigger
  <2>0. at = "open" /\ ~mem.tested /\ mem.n \in Nat \ {0} BY <1>2 DEF P!Trigger, P!Is, P!Met, P!Held, P!Memories
  <2>1. CASE (P!Lost \/ P!Answered) /\ P!Return("na")
    BY <1>0, <2>1, LaneEnds
  <2>2. CASE /\ P!Lost \/ P!Answered \/ faults' = faults
             /\ \/ P!Go("replay") /\ mem' = mem
                \/ P!Go(at) /\ mem' = P!Next1(mem)
                \/ P!Go("reveal") /\ mem' = [mem EXCEPT !.n = 1] /\ app.trigger = mem.n
    <3>1. mem' \in P!Memories /\ mem'.dead = mem.dead /\ mem'.tested = mem.tested BY <2>2, LaneNext DEF P!Held, P!Memories
    <3>2. at' \in {"replay", "open", "reveal"} /\ (at' = "reveal" => app.trigger # 0) /\ verdict' = verdict BY <2>0, <2>2 DEF P!Go
    <3>3. P!Met' BY <1>0, <2>0, <3>1, <3>2 DEF P!Met, P!To
    <3>4. P!Missed' BY <1>0, <3>2 DEF P!Missed
    <3> QED BY <1>0, <2>2, <3>1, <3>2, <3>3, <3>4, LaneGoesOn
  <2> QED BY <1>2, <2>1, <2>2 DEF P!Trigger
<1>3. CASE P!Reveal
  <2>0. at = "reveal" /\ app.trigger # 0 BY <1>3 DEF P!Reveal, P!Is, P!Met
  <2>1. CASE P!Answered /\ app.flow = "sdk" /\ P!Return(P!Verdict(app.uri))
    <3>1. P!Verdict(app.uri) = "fired" => P!Guilty BY <1>0, <2>0, <2>1 DEF P!Verdict, P!Guilty
    <3> QED BY <1>0, <2>1, <3>1, LaneEnds
  <2>2. CASE /\ P!Lost \/ P!Answered
             /\ \/ P!Go(IF mem.n < MaxControls THEN at ELSE "replay") /\ mem' = P!Next1(mem)
                \/ P!Go("replay") /\ mem' = mem
    <3>1. mem' \in P!Memories /\ mem'.dead = mem.dead BY <2>2, LaneNext DEF P!Held, P!Memories
    <3>2. at' \in {"replay", "reveal"} /\ verdict' = verdict BY <2>0, <2>2 DEF P!Go
    <3>3. P!Met' BY <1>0, <2>0, <3>1, <3>2 DEF P!Met, P!To
    <3>4. P!Missed' BY <1>0, <3>2 DEF P!Missed
    <3> QED BY <1>0, <2>2, <3>1, <3>2, <3>3, <3>4, LaneGoesOn
  <2> QED BY <1>3, <2>1, <2>2 DEF P!Reveal
<1>4. CASE P!Replay
  <2>1. CASE P!Lost /\ P!Return("na")
    BY <1>0, <2>1, LaneEnds
  <2>2. CASE P!Answered /\ P!Return(IF app.flow = "server" THEN P!Verdict(app.uri) ELSE "na")
    <3> DEFINE v == IF app.flow = "server" THEN P!Verdict(app.uri) ELSE "na"
    <3>1. v = "fired" => P!Guilty BY <1>0 DEF P!Verdict, P!Guilty
    <3>2. P!Return(v) BY <2>2
    <3> HIDE DEF v
    <3> QED BY <1>0, <2>2, <3>1, <3>2, LaneEnds
  <2> QED BY <1>4, <2>1, <2>2 DEF P!Replay
<1> QED BY <1>1, <1>2, <1>3, <1>4

\* Every step of a lane.
LEMMA LaneStep == ASSUME P!LaneInv, [P!Next]_P!vars PROVE P!LaneInv'
<1>1. CASE P!Next
  BY <1>1, LaneWatched, LaneStale, LaneSilent, LaneBack, LaneDeep, LaneWrites, LaneReads, LaneScripts, LaneInert, LaneSignIn DEF P!Next
<1>2. CASE UNCHANGED P!vars
  <2>1. /\ app' = app /\ at' = at /\ mem' = mem /\ faults' = faults /\ verdict' = verdict BY <1>2 DEF P!vars
  <2>2. P!Held' BY <2>1 DEF P!LaneInv, P!Held
  <2>3. P!Met' BY <2>1 DEF P!LaneInv, P!Met, P!To
  <2>4. P!Missed' BY <2>1 DEF P!LaneInv, P!Missed, P!Blind
  <2>5. P!FiredIsReal' BY <2>1, LaneGuilt DEF P!LaneInv, P!FiredIsReal
  <2>6. P!CleanWasSeen' BY <2>1 DEF P!LaneInv, P!CleanWasSeen, P!To
  <2> QED BY <2>2, <2>3, <2>4, <2>5, <2>6 DEF P!LaneInv
<1> QED BY <1>1, <1>2

-----------------------------------------------------------------------------
(* The families together.                                                  *)

\* An app belongs to the family whose apps it is among.
LEMMA AppOfFamily ==
    /\ app \in InjectionApps => Of(Injections)
    /\ app \in EchoApps => Of(Echoes)
    /\ app \in RecordApps => Of(Writes)
    /\ app \in BackendApps => Of(Reads)
    /\ app \in LimitApps => Of(Limited)
    /\ app \in PageApps => Of(Lanes)
<1>1. app \in InjectionApps => Of(Injections) BY InjectionApp DEF Of, Injections
<1>2. app \in EchoApps => Of(Echoes)
  BY DEF EchoApps, ScriptApps, StoreApps, FileApps, CallbackApps, LanguageApps, Of, Echoes
<1>3. app \in RecordApps => Of(Writes)
  BY DEF RecordApps, OwnerApps, SharedApps, DurableApps, ListApps, BurstApps, Of, Writes
<1>4. app \in BackendApps => Of(Reads)
  <2>1. app \in ClientApps => app.probe \in {"baas", "authed", "bucket", "schema"} BY DEF ClientApps
  <2>2. app \in PathApps => app.probe \in {"bulk", "filter", "files"} BY DEF PathApps
  <2> QED BY <2>1, <2>2 DEF BackendApps, Of, Reads
<1>5. app \in LimitApps => Of(Limited)
  <2>1. app \in GateApps => app.probe \in {"login", "middleware"} BY DEF GateApps
  <2>2. app \in CrossApps => app.probe = "csrf" BY DEF CrossApps
  <2>3. app \in LinkApps => app.probe \in {"links", "loop"} BY DEF LinkApps
  <2>4. app \in EndpointApps => app.probe \in {"crash", "constraint", "bomb", "host"} BY DEF EndpointApps
  <2>5. app \in ErrorApps => app.probe = "errors" BY DEF ErrorApps
  <2>6. app \in SplitApps => app.probe = "split" BY DEF SplitApps
  <2>7. app \in OnePageApps => app.probe \in {"meta", "integrity", "tls"} BY DEF OnePageApps
  <2> QED BY <2>1, <2>2, <2>3, <2>4, <2>5, <2>6, <2>7 DEF LimitApps, Of, Limited
<1>6. app \in PageApps => Of(Lanes)
  BY DEF PageApps, WalkApps, FormApps, BackApps, SsoApps, Of, Lanes
<1> QED BY <1>1, <1>2, <1>3, <1>4, <1>5, <1>6

\* A probe stays with its app.
LEMMA ProbeKeepsItsApp == ASSUME Next PROVE app' = app
<1>1. I!Next => app' = app
  BY DEF I!Next, I!Take, I!Baseline, I!Live, I!Fan, I!Refill, I!Ask, I!Collect, I!Drop, I!PoolEnds, I!Fire, I!Time
<1>2. E!Next => app' = app
  BY DEF E!Next, E!Marker, E!Shapes, E!StoredScript, E!Execute, E!Create, E!Render, E!Upload, E!Fetch, E!FileEntity, E!Token,
         E!Callback, E!Await, E!Metadata, E!Plain, E!Script, E!Weigh
<1>3. R!Next => app' = app
  BY DEF R!Next, R!Accounts, R!Own, R!Stranger, R!Other, R!Lists, R!TwoSessions, R!Horizontal, R!Pairs, R!CreateThenRead,
         R!Before, R!Accepted, R!After, R!InTheBrowser, R!Burst, R!ReadCounter, R!WriteCounter, R!Compare, R!Load
<1>4. B!Next => app' = app
  BY DEF B!Next, B!Mine, B!InsertRoot, B!SelectRoot, B!Root, B!Insert, B!Select, B!Other, B!Documents, B!SignUp, B!Tables,
         B!SchemaRoot, B!Rejected, B!ListRoot, B!Bucket, B!Listed, B!Bulk, B!Filter, B!Files, B!Refill, B!File, B!PoolEnds
<1>5. L!Next => app' = app
  BY DEF L!Next, L!Login, L!LoggedIn, L!Refuses, L!Opens, L!Session, L!Elsewhere, L!Compare, L!Home, L!Link, L!Enter, L!Hop,
         L!Baseline, L!Crash, L!Again, L!Errors, L!Constraint, L!Bomb, L!Host, L!Splits, L!Meta, L!Page
<1>6. P!Next => app' = app
  BY DEF P!Next, P!Skip, P!Launch, P!Wedge, P!Fire, P!FindForm, P!Live, P!After, P!ForceFailure, P!LookForError, P!Entry,
         P!Click, P!GoBack, P!Judge, P!Fallback, P!Route, P!Submit, P!Self, P!Nobody, P!Stranger, P!Attempt, P!Render, P!Press,
         P!Load, P!Served, P!Trigger, P!Reveal, P!Replay
<1> QED BY <1>1, <1>2, <1>3, <1>4, <1>5, <1>6 DEF Next

LEMMA ProbesInit == ASSUME Init PROVE ProbesInv
<1> USE DEF Of, Injections, Echoes, Writes, Reads, Limited, Lanes
<1>1. CASE I!Init
  <2>1. Of(Injections) BY <1>1, AppOfFamily DEF I!Init
  <2> QED BY <1>1, <2>1, InjectionInit DEF ProbesInv
<1>2. CASE E!Init
  <2>1. Of(Echoes) BY <1>2, AppOfFamily DEF E!Init
  <2> QED BY <1>2, <2>1, EchoInit DEF ProbesInv
<1>3. CASE R!Init
  <2>1. Of(Writes) BY <1>3, AppOfFamily DEF R!Init
  <2> QED BY <1>3, <2>1, RecordInit DEF ProbesInv
<1>4. CASE B!Init
  <2>1. Of(Reads) BY <1>4, AppOfFamily DEF B!Init
  <2> QED BY <1>4, <2>1, BackendInit DEF ProbesInv
<1>5. CASE L!Init
  <2>1. Of(Limited) BY <1>5, AppOfFamily DEF L!Init
  <2> QED BY <1>5, <2>1, LimitInit DEF ProbesInv
<1>6. CASE P!Init
  <2>1. Of(Lanes) BY <1>6, AppOfFamily DEF P!Init
  <2> QED BY <1>6, <2>1, LaneInit DEF ProbesInv
<1> QED BY <1>1, <1>2, <1>3, <1>4, <1>5, <1>6 DEF Init

\* A step of one family leaves the others to their apps.
LEMMA ProbesStep == ASSUME ProbesInv, Next PROVE ProbesInv'
<1> USE DEF Of, Injections, Echoes, Writes, Reads, Limited, Lanes
<1>0. app' = app BY ProbeKeepsItsApp
<1>1. CASE Of(Injections) /\ I!Next
  <2>1. I!InjectionInv' BY <1>1, InjectionStep DEF ProbesInv
  <2> QED BY <1>0, <1>1, <2>1 DEF ProbesInv
<1>2. CASE Of(Echoes) /\ E!Next
  <2>1. E!EchoInv' BY <1>2, EchoStep DEF ProbesInv
  <2> QED BY <1>0, <1>2, <2>1 DEF ProbesInv
<1>3. CASE Of(Writes) /\ R!Next
  <2>1. R!RecordInv' BY <1>3, RecordStep DEF ProbesInv
  <2> QED BY <1>0, <1>3, <2>1 DEF ProbesInv
<1>4. CASE Of(Reads) /\ B!Next
  <2>1. B!BackendInv' BY <1>4, BackendStep DEF ProbesInv
  <2> QED BY <1>0, <1>4, <2>1 DEF ProbesInv
<1>5. CASE Of(Limited) /\ L!Next
  <2>1. L!LimitInv' BY <1>5, LimitStep DEF ProbesInv
  <2> QED BY <1>0, <1>5, <2>1 DEF ProbesInv
<1>6. CASE Of(Lanes) /\ P!Next
  <2>1. P!LaneInv' BY <1>6, LaneStep DEF ProbesInv
  <2> QED BY <1>0, <1>6, <2>1 DEF ProbesInv
<1> QED BY <1>1, <1>2, <1>3, <1>4, <1>5, <1>6 DEF Next

\* Injection probes keep their invariant in a step that leaves the variables alone.
LEMMA InjectionStutters == ASSUME I!InjectionInv, UNCHANGED vars PROVE I!InjectionInv'
<1>1. app' = app /\ at' = at /\ mem' = mem /\ th' = th /\ faults' = faults /\ verdict' = verdict BY DEF vars
<1>2. I!Held' BY <1>1 DEF I!InjectionInv, I!Held
<1>3. I!FiredIsReal' BY <1>1 DEF I!InjectionInv, I!FiredIsReal, I!Target, I!Sinks
<1>4. I!UntestedIsNotClean' BY <1>1 DEF I!InjectionInv, I!UntestedIsNotClean
<1>5. ASSUME at' # "end" PROVE I!Met'
  <2>1. I!Met BY <1>1, <1>5 DEF I!InjectionInv
  <2>2. I!Threads' = I!Threads BY <1>1, InjectionTypes
  <2>3. I!Target' = I!Target /\ I!Sinks(I!Target)' = I!Sinks(I!Target) /\ I!Shots(I!Target)' = I!Shots(I!Target)
    BY <1>1, InjectionTarget
  <2>4. I!Holds(mem)' /\ th' \in I!Threads' BY <1>1, <2>1, <2>2 DEF I!Met, I!Holds
  <2>5. I!Placed' BY <1>1, <2>1, <2>3 DEF I!Met, I!Placed, I!Idle
  <2>6. I!OracleInv'
    <3>1. I!Fair' <=> I!Fair BY <1>1, <2>3 DEF I!Fair
    <3>2. ASSUME NEW w \in 1 .. Pool PROVE (I!Innocent(th[w])' <=> I!Innocent(th[w])) /\ (I!Unmoved(th[w])' <=> I!Unmoved(th[w]))
      BY <1>1, <2>3 DEF I!Innocent, I!Unmoved
    <3> QED BY <1>1, <2>1, <2>3, <3>1, <3>2 DEF I!Met, I!OracleInv
  <2>7. I!DoseInv' BY <1>1, <2>1 DEF I!Met, I!DoseInv
  <2>8. I!GateInv' BY <1>1, <2>1, <2>3 DEF I!Met, I!GateInv
  <2> QED BY <2>4, <2>5, <2>6, <2>7, <2>8 DEF I!Met
<1> QED BY <1>2, <1>3, <1>4, <1>5 DEF I!InjectionInv

\* The same of the echo probes.
LEMMA EchoStutters == ASSUME E!EchoInv, UNCHANGED vars PROVE E!EchoInv'
<1>1. app' = app /\ at' = at /\ mem' = mem /\ faults' = faults /\ verdict' = verdict BY DEF vars
<1>2. E!Held' BY <1>1 DEF E!EchoInv, E!Held, E!Targets, E!Oob
<1>3. E!FiredIsReal' BY <1>1, EchoGuilt DEF E!EchoInv, E!FiredIsReal, E!Fields, E!Targets
<1>4. E!CleanWasSeen' BY <1>1 DEF E!EchoInv, E!CleanWasSeen
<1>5. ASSUME at' # "end" PROVE E!Met'
  <2>1. E!Met BY <1>1, <1>5 DEF E!EchoInv
  <2>2. E!Holds(mem)' BY <1>1, <2>1 DEF E!Met, E!Holds
  <2>3. E!ScriptMet' BY <1>1, <2>1 DEF E!Met, E!ScriptMet, E!NoMore, E!Target, E!Targets
  <2>4. E!StoreMet' BY <1>1, <2>1 DEF E!Met, E!StoreMet, E!Targets
  <2>5. E!FileMet' BY <1>1, <2>1 DEF E!Met, E!FileMet, E!Shape, E!NoMore, E!Targets
  <2>6. E!OobMet' BY <1>1, <2>1 DEF E!Met, E!OobMet, E!Oob, E!Targets
  <2>7. E!LanguageMet' BY <1>1, <2>1, EchoGuilt DEF E!Met, E!LanguageMet, E!NoMore, E!Targets
  <2> QED BY <2>2, <2>3, <2>4, <2>5, <2>6, <2>7 DEF E!Met
<1> QED BY <1>2, <1>3, <1>4, <1>5 DEF E!EchoInv

\* The same of the record probes.
LEMMA RecordStutters == ASSUME R!RecordInv, UNCHANGED vars PROVE R!RecordInv'
<1>1. app' = app /\ at' = at /\ mem' = mem /\ th' = th /\ faults' = faults /\ verdict' = verdict BY DEF vars
<1>2. R!Held' BY <1>1 DEF R!RecordInv, R!Held
<1>3. R!CrossReadIsReal' BY <1>1 DEF R!RecordInv, R!CrossReadIsReal, R!Pair, R!Leaks
<1>4. R!LossIsReal' BY <1>1 DEF R!RecordInv, R!LossIsReal, R!Pair
<1>5. R!RaceIsReal' BY <1>1 DEF R!RecordInv, R!RaceIsReal
<1>6. ASSUME at' # "end" PROVE R!Met'
  <2>1. R!Met BY <1>1, <1>6 DEF R!RecordInv
  <2>2. R!Holds(mem)' /\ faults' \in Nat /\ th' \in R!Requests BY <1>1, <2>1 DEF R!Met, R!Holds
  <2>3. R!CrossMet' BY <1>1, <2>1 DEF R!Met, R!CrossMet, R!NoMore, R!Pair
  <2>4. R!PairMet' BY <1>1, <2>1 DEF R!Met, R!PairMet, R!Pair
  <2>5. R!RaceMet'
    <3>1. R!Collided' <=> R!Collided BY <1>1 DEF R!Collided, R!Shows
    <3> QED BY <1>1, <2>1, <3>1 DEF R!Met, R!RaceMet
  <2>6. R!LoadMet' BY <1>1, <2>1 DEF R!Met, R!LoadMet
  <2>7. R!TurnedMet' BY <1>1, <2>1 DEF R!Met, R!TurnedMet
  <2> QED BY <2>2, <2>3, <2>4, <2>5, <2>6, <2>7 DEF R!Met
<1> QED BY <1>2, <1>3, <1>4, <1>5, <1>6 DEF R!RecordInv

\* The same of the limit probes.
LEMMA LimitStutters == ASSUME L!LimitInv, UNCHANGED vars PROVE L!LimitInv'
<1> USE DEF L!LimitInv
<1>1. app' = app /\ at' = at /\ mem' = mem /\ faults' = faults /\ verdict' = verdict BY DEF vars
<1>2. L!Held' BY <1>1 DEF L!Held, L!Holds
<1>3. L!ShellInv' BY <1>1 DEF L!ShellInv
<1>4. L!LoginInv' BY <1>1 DEF L!LoginInv, L!NoMore, L!Target
<1>5. L!GateInv' BY <1>1 DEF L!GateInv, L!NoMore, L!Target
<1>6. L!FormInv' BY <1>1 DEF L!FormInv, L!NoMore, L!Target, L!Passed
<1>7. L!EndpointInv' BY <1>1 DEF L!EndpointInv, L!NoMore, L!Target, L!Passed
<1>8. L!LinkInv' BY <1>1, LimitDefects DEF L!LinkInv
<1>9. L!FiredIsReal' BY <1>1, LimitDefects DEF L!FiredIsReal
<1>10. L!LoopInv' BY <1>1, LoopKept DEF L!LoopInv, L!HopInv
<1> QED BY <1>1, <1>2, <1>3, <1>4, <1>5, <1>6, <1>7, <1>8, <1>9, <1>10

\* ProbesInv holds in every reachable state.
LEMMA ProbesInvariant == Spec => []ProbesInv
<1>1. ASSUME ProbesInv, UNCHANGED vars PROVE ProbesInv'
  <2> USE <1>1 DEF Of, Injections, Echoes, Writes, Reads, Limited, Lanes
  <2>1. app' = app /\ UNCHANGED B!vars /\ UNCHANGED P!vars BY DEF vars, B!vars, P!vars
  <2>2. Of(Injections) => I!InjectionInv' BY InjectionStutters DEF ProbesInv
  <2>3. Of(Echoes) => E!EchoInv' BY EchoStutters DEF ProbesInv
  <2>4. Of(Writes) => R!RecordInv' BY RecordStutters DEF ProbesInv
  <2>5. Of(Reads) => B!BackendInv' BY <2>1, BackendStep DEF ProbesInv
  <2>6. Of(Limited) => L!LimitInv' BY LimitStutters DEF ProbesInv
  <2>7. Of(Lanes) => P!LaneInv' BY <2>1, LaneStep DEF ProbesInv
  <2> QED BY <2>1, <2>2, <2>3, <2>4, <2>5, <2>6, <2>7 DEF ProbesInv
<1>2. ProbesInv /\ [Next]_vars => ProbesInv' BY <1>1, ProbesStep
<1> QED BY <1>2, ProbesInit, PTL DEF Spec

\* Clean is earned: an injection probe met an open target and tried a payload, a value was
\* seen to survive, the backend answered, the page was there (UntestedIsNotClean,
\* CleanWasSeen, CleanWasHeard of the families), for every size of their pools and budgets.
THEOREM ProbesCleanIsEarned == Spec => []CleanIsEarned
<1>1. ProbesInv => CleanIsEarned
  BY DEF ProbesInv, CleanIsEarned, I!InjectionInv, E!EchoInv, B!BackendInv, P!LaneInv
<1> QED BY <1>1, ProbesInvariant, PTL

\* No probe accuses an app of what it does not do, through as many lost and garbled answers,
\* edges and failing steps of a browser as it stands (FiredIsReal and the like of the families).
THEOREM ProbesAccuseTheGuilty == Spec => []AccusedIsGuilty
<1>1. ProbesInv => AccusedIsGuilty
  BY DEF ProbesInv, AccusedIsGuilty, I!InjectionInv, E!EchoInv, R!RecordInv, B!BackendInv, L!LimitInv, P!LaneInv
<1> QED BY <1>1, ProbesInvariant, PTL
=============================================================================
