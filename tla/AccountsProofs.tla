--------------------------- MODULE AccountsProofs ---------------------------
(***************************************************************************)
(* The identities that the probe threads of a grade share hold, for every  *)
(* list of probes, every set of apps and every number of launches: what    *)
(* register() promises of "me", "a" and "b" survives whichever thread is   *)
(* abandoned and goes on beside the next probe's.  And the three verdicts  *)
(* of the mail flow are right about the app, whatever becomes of the mail. *)
(***************************************************************************)
EXTENDS Accounts, FiniteSetTheorems, TLAPS

-----------------------------------------------------------------------------
(* Threads in the middle of their launches (_browser_register_once).       *)

\* The threads, the probes and the launches that can be left are finitely many.
LEMMA ThreadsFinite ==
    /\ IsFiniteSet(Threads) /\ IsFiniteSet(Probes) /\ IsFiniteSet(Threads \X (1 .. Tries))
    /\ Len(Battery) \in Nat /\ Tries \in Nat /\ Tries > 0
<1>1. Len(Battery) \in Nat /\ Tries \in Nat /\ Tries > 0
  BY AccountsAssumption DEF AccountsAssumption
<1>2. IsFiniteSet(0 .. Len(Battery)) /\ IsFiniteSet(1 .. Len(Battery)) /\ IsFiniteSet(1 .. Tries)
  BY <1>1, FS_Interval, 0 \in Int, 1 \in Int
<1>3. QED BY <1>1, <1>2, FS_Product DEF Threads, Probes

\* Mid, Left and Hung are finite, and counted by natural numbers.
LEMMA CountsAreNat ==
    ASSUME NEW s
    PROVE  /\ IsFiniteSet(Mid(s)) /\ IsFiniteSet(Left(s)) /\ IsFiniteSet(Hung)
           /\ Cardinality(Mid(s)) \in Nat /\ Cardinality(Left(s)) \in Nat /\ Cardinality(Hung) \in Nat
<1>1. Mid(s) \in SUBSET Threads /\ Left(s) \in SUBSET (Threads \X (1 .. Tries)) /\ Hung \in SUBSET Probes
  BY DEF Mid, Left, Hung
<1>2. QED BY <1>1, ThreadsFinite, FS_Subset, FS_CardinalityType

\* The same of the next state.
LEMMA CountsAreNatNext ==
    ASSUME NEW s
    PROVE  /\ IsFiniteSet(Mid(s)') /\ IsFiniteSet(Left(s)') /\ IsFiniteSet(Hung')
           /\ Cardinality(Mid(s))' \in Nat /\ Cardinality(Left(s))' \in Nat /\ Cardinality(Hung)' \in Nat
<1>1. Mid(s)' \in SUBSET Threads /\ Left(s)' \in SUBSET (Threads \X (1 .. Tries)) /\ Hung' \in SUBSET Probes
  BY DEF Mid, Left, Hung
<1>2. QED BY <1>1, ThreadsFinite, FS_Subset, FS_CardinalityType

\* n + 1 times Tries, and more times is more.
LEMMA TriesTimes ==
    ASSUME NEW n \in Nat, NEW m \in Nat
    PROVE  /\ Tries * n \in Nat /\ Tries * (n + 1) = Tries * n + Tries
           /\ m <= n => Tries * m <= Tries * n
<1>1. Tries \in Nat
  BY ThreadsFinite
<1>2. Tries * n \in Nat /\ Tries * (n + 1) = Tries * n + Tries
  BY <1>1
<1>3. m <= n => Tries * m <= Tries * n
  BY <1>1
<1>4. QED BY <1>2, <1>3

\* A thread that has not begun its launches has none left.
LEMMA MidSame ==
    ASSUME LoopTyped, NEW t \in Threads, NEW x \in Thread, th' = [th EXCEPT ![t] = x],
           th[t].tries = 0, x.tries = 0, NEW s
    PROVE  Mid(s)' = Mid(s) /\ Left(s)' = Left(s)
<1>1. th \in [Threads -> Thread] /\ th[t] \in Thread /\ th'[t] = x /\ \A u \in Threads : u # t => th'[u] = th[u]
  BY DEF LoopTyped
<1>2. ~(th[t].tries > 0) /\ ~(th'[t].tries > 0)
  BY <1>1
<1>3. Mid(s)' = Mid(s)
  BY <1>1, <1>2 DEF Mid, Target
<1>4. \A u \in Mid(s) : th'[u] = th[u]
  BY <1>1, <1>2 DEF Mid
<1>5. QED BY <1>3, <1>4 DEF Left

\* At most one thread per abandoned probe, and the battery's own, is at work.
LEMMA LiveBound ==
    ASSUME LiveInv, NEW S \in SUBSET Threads, \A u \in S : th[u].pc # "idle"
    PROVE  IsFiniteSet(S) /\ Cardinality(S) \in Nat /\ Cardinality(S) <= Cardinality(Hung) + 1
<1>1. S \in SUBSET (Hung \cup {running})
  BY DEF LiveInv
<1>2. IsFiniteSet(Hung) /\ Cardinality(Hung) \in Nat
  BY CountsAreNat
<1>3. IsFiniteSet(Hung \cup {running}) /\ Cardinality(Hung \cup {running}) <= Cardinality(Hung) + 1
  <2>1. IsFiniteSet(Hung \cup {running})
    BY <1>2, FS_AddElement
  <2>2. Cardinality(Hung \cup {running}) = IF running \in Hung THEN Cardinality(Hung) ELSE Cardinality(Hung) + 1
    BY <1>2, FS_AddElement
  <2>3. QED BY <1>2, <2>1, <2>2
<1>4. IsFiniteSet(S) /\ Cardinality(S) <= Cardinality(Hung \cup {running}) /\ Cardinality(S) \in Nat
  BY <1>1, <1>3, FS_Subset, FS_CardinalityType
<1>5. Cardinality(Hung \cup {running}) \in Nat
  BY <1>3, FS_CardinalityType
<1>6. QED BY <1>2, <1>3, <1>4, <1>5

\* So few are in the middle of their launches, even with one that is about to begin.
LEMMA MidBound ==
    ASSUME LiveInv, LaunchInv, NEW t \in Threads, th[t].pc # "idle", NEW s
    PROVE  Cardinality(Mid(s) \cup {t}) <= Cardinality(Hung) + 1
<1>1. Mid(s) \cup {t} \in SUBSET Threads
  BY DEF Mid
<1>2. \A u \in Mid(s) \cup {t} : th[u].pc # "idle"
  BY DEF Mid, LaunchInv
<1>3. QED BY <1>1, <1>2, LiveBound

\* The two bounds on the launches for s.
Bounded(s) == /\ launches[s] + Cardinality(Left(s)) <= Tries * (1 + Cardinality(Hung))
              /\ store[s] = "absent" => launches[s] + Cardinality(Left(s)) <= Tries * Cardinality(Mid(s))

\* A launch that failed, with launches left, spends one of those it had.
LEMMA LaunchAgain ==
    ASSUME LoopTyped, LiveInv, LaunchInv, NEW t \in Threads, NEW s \in Ids, NEW x \in Thread,
           th[t].tries > 0, Target(t) = s, th' = [th EXCEPT ![t] = x],
           x.tries = th[t].tries + 1, x.pc = th[t].pc, x.s = th[t].s, x.id = th[t].id,
           launches' = [launches EXCEPT ![s] = launches[s] + 1], store' = store, Hung' = Hung
    PROVE  Bounded(s)'
<1>1. th \in [Threads -> Thread] /\ th[t] \in Thread /\ th'[t] = x /\ \A u \in Threads : u # t => th'[u] = th[u]
  BY DEF LoopTyped
<1>2. th[t].tries \in Nat /\ x.tries \in Nat /\ x.tries \in 0 .. Tries - 1 /\ Tries \in Nat
  BY <1>1, ThreadsFinite DEF Thread
<1>3. Mid(s)' = Mid(s)
  BY <1>1, <1>2 DEF Mid, Target
<1>4. t \in Mid(s)
  BY DEF Mid
<1>5. Left(s)' = Left(s) \ {<<t, th[t].tries + 1>>}
  <2> DEFINE L == <<t, th[t].tries + 1>>
  <2>1. SUFFICES ASSUME NEW u \in Threads, NEW n \in 1 .. Tries
                 PROVE  <<u, n>> \in Left(s)' <=> <<u, n>> \in Left(s) /\ <<u, n>> # L
    BY DEF Left
  <2>2. <<u, n>> \in Left(s) <=> u \in Mid(s) /\ n > th[u].tries
    BY DEF Left
  <2>3. <<u, n>> \in Left(s)' <=> u \in Mid(s) /\ n > th'[u].tries
    BY <1>3 DEF Left
  <2>4. <<u, n>> # L <=> ~(u = t /\ n = th[t].tries + 1)
    OBVIOUS
  <2>5. CASE u = t
    BY <2>2, <2>3, <2>4, <2>5, <1>1, <1>2
  <2>6. CASE u # t
    BY <2>2, <2>3, <2>4, <2>6, <1>1
  <2>7. QED BY <2>5, <2>6
<1>6. <<t, th[t].tries + 1>> \in Left(s)
  BY <1>2, <1>4 DEF Left
<1>7. Cardinality(Left(s)') = Cardinality(Left(s)) - 1 /\ Cardinality(Left(s)) \in Nat
  <2>1. Cardinality(Left(s) \ {<<t, th[t].tries + 1>>}) = Cardinality(Left(s)) - 1
    BY <1>6, CountsAreNat, FS_RemoveElement
  <2>2. QED BY <1>5, <2>1, CountsAreNat
<1>8. launches'[s] = launches[s] + 1 /\ launches[s] \in Nat
  BY DEF LoopTyped
<1>9. launches'[s] + Cardinality(Left(s)') = launches[s] + Cardinality(Left(s))
  BY <1>7, <1>8
<1>10. Bounded(s)
  BY DEF LaunchInv, Bounded
<1>11. QED BY <1>3, <1>9, <1>10 DEF Bounded

\* The first launch of a thread, before the memo is there.
LEMMA LaunchFirst ==
    ASSUME LoopTyped, LiveInv, LaunchInv, NEW t \in Threads, NEW s \in Ids, NEW x \in Thread,
           th[t].tries = 0, th[t].pc # "idle", Target(t) = s, store[s] = "absent", th' = [th EXCEPT ![t] = x],
           x.tries = 1, x.pc = th[t].pc, x.s = th[t].s, x.id = th[t].id,
           launches' = [launches EXCEPT ![s] = launches[s] + 1], store' = store, Hung' = Hung
    PROVE  Bounded(s)'
<1>1. th \in [Threads -> Thread] /\ th[t] \in Thread /\ th'[t] = x /\ \A u \in Threads : u # t => th'[u] = th[u]
  BY DEF LoopTyped
<1>2. x.tries \in 0 .. Tries - 1 /\ Tries \in Nat /\ Tries > 1
  BY <1>1, ThreadsFinite DEF Thread
<1>3. t \notin Mid(s) /\ Mid(s)' = Mid(s) \cup {t}
  BY <1>1, <1>2 DEF Mid, Target
<1>4. Left(s)' = Left(s) \cup ({t} \X (2 .. Tries))
  <2>1. SUFFICES ASSUME NEW u \in Threads, NEW n \in 1 .. Tries
                 PROVE  <<u, n>> \in Left(s)' <=> <<u, n>> \in Left(s) \/ (u = t /\ n \in 2 .. Tries)
    BY <1>2 DEF Left
  <2>2. <<u, n>> \in Left(s) <=> u \in Mid(s) /\ n > th[u].tries
    BY DEF Left
  <2>3. <<u, n>> \in Left(s)' <=> u \in Mid(s) \cup {t} /\ n > th'[u].tries
    BY <1>3 DEF Left
  <2>5. CASE u = t
    BY <2>2, <2>3, <2>5, <1>1, <1>2, <1>3
  <2>6. CASE u # t
    BY <2>2, <2>3, <2>6, <1>1
  <2>7. QED BY <2>5, <2>6
<1>5. IsFiniteSet({t} \X (2 .. Tries)) /\ Cardinality({t} \X (2 .. Tries)) = Tries - 1
  <2>1. IsFiniteSet({t}) /\ Cardinality({t}) = 1
    BY FS_Singleton
  <2>2. IsFiniteSet(2 .. Tries) /\ Cardinality(2 .. Tries) = Tries - 1
    BY <1>2, FS_Interval, 2 \in Int
  <2>3. QED BY <1>2, <2>1, <2>2, FS_Product
<1>6. Left(s) \cap ({t} \X (2 .. Tries)) = {}
  BY <1>3 DEF Left
<1>7. /\ Cardinality(Left(s)') = Cardinality(Left(s)) + (Tries - 1) /\ Cardinality(Left(s)) \in Nat
      /\ Cardinality(Mid(s)') = Cardinality(Mid(s)) + 1 /\ Cardinality(Mid(s)) \in Nat
  <2>1. Cardinality(Left(s)') = Cardinality(Left(s)) + (Tries - 1) - Cardinality({})
    BY <1>4, <1>5, <1>6, CountsAreNat, FS_Union
  <2>2. Cardinality(Mid(s)') = Cardinality(Mid(s)) + 1
    BY <1>3, CountsAreNat, FS_AddElement
  <2>3. QED BY <1>2, <2>1, <2>2, CountsAreNat, FS_EmptySet
<1>8. launches'[s] = launches[s] + 1 /\ launches[s] \in Nat
  BY DEF LoopTyped
<1>9. launches'[s] + Cardinality(Left(s)') = launches[s] + Cardinality(Left(s)) + Tries
  BY <1>2, <1>7, <1>8
<1>10. launches[s] + Cardinality(Left(s)) <= Tries * Cardinality(Mid(s))
  BY DEF LaunchInv
<1>11. Tries * Cardinality(Mid(s)') = Tries * Cardinality(Mid(s)) + Tries /\ Tries * Cardinality(Mid(s)) \in Nat
  BY <1>7, TriesTimes
<1>12. launches'[s] + Cardinality(Left(s)') <= Tries * Cardinality(Mid(s)')
  BY <1>2, <1>7, <1>8, <1>9, <1>10, <1>11
<1>13. Cardinality(Mid(s)') <= 1 + Cardinality(Hung)
  BY <1>3, MidBound, CountsAreNat
<1>14. Tries * Cardinality(Mid(s)') <= Tries * (1 + Cardinality(Hung))
  BY <1>13, CountsAreNat, CountsAreNatNext, TriesTimes
<1>15. launches'[s] + Cardinality(Left(s)') <= Tries * (1 + Cardinality(Hung))
  <2>1. Tries * Cardinality(Mid(s)') \in Nat /\ Tries * (1 + Cardinality(Hung)) \in Nat
    BY CountsAreNat, CountsAreNatNext, TriesTimes
  <2>2. launches'[s] + Cardinality(Left(s)') \in Nat
    BY <1>2, <1>7, <1>8
  <2>3. QED BY <1>12, <1>14, <2>1, <2>2
<1>16. QED BY <1>12, <1>15 DEF Bounded

\* The launch that fills the memo, as one of a thread's, or as its only one.
LEMMA LaunchLast ==
    ASSUME LoopTyped, LiveInv, LaunchInv, NEW t \in Threads, NEW s \in Ids, NEW x \in Thread,
           th[t].tries > 0 \/ store[s] = "absent", th[t].pc # "idle", Target(t) = s, th' = [th EXCEPT ![t] = x],
           x.tries = 0, launches' = [launches EXCEPT ![s] = launches[s] + 1], store'[s] # "absent", Hung' = Hung
    PROVE  Bounded(s)'
<1>1. th \in [Threads -> Thread] /\ th[t] \in Thread /\ th'[t] = x /\ \A u \in Threads : u # t => th'[u] = th[u]
  BY DEF LoopTyped
<1>2. th[t].tries \in 0 .. Tries - 1 /\ Tries \in Nat
  BY <1>1, ThreadsFinite DEF Thread
<1>3. Mid(s)' \subseteq Mid(s) /\ t \notin Mid(s)'
  BY <1>1 DEF Mid, Target
<1>4. \A u \in Mid(s)' : th'[u] = th[u]
  BY <1>1, <1>3 DEF Mid
<1>5. Left(s)' \subseteq Left(s) /\ <<t, th[t].tries + 1>> \notin Left(s)'
  BY <1>3, <1>4 DEF Left
<1>6. launches'[s] = launches[s] + 1 /\ launches[s] \in Nat /\ Cardinality(Left(s)') \in Nat /\ Cardinality(Left(s)) \in Nat
  BY CountsAreNat, CountsAreNatNext DEF LoopTyped
<1>7. CASE th[t].tries > 0
  <2>1. <<t, th[t].tries + 1>> \in Left(s)
    BY <1>2, <1>7 DEF Left, Mid
  <2>2. Cardinality(Left(s) \ {<<t, th[t].tries + 1>>}) = Cardinality(Left(s)) - 1 /\ IsFiniteSet(Left(s) \ {<<t, th[t].tries + 1>>})
    BY <2>1, CountsAreNat, FS_RemoveElement
  <2>3. Cardinality(Left(s)') <= Cardinality(Left(s)) - 1
    BY <1>5, <2>2, FS_Subset
  <2>4. launches'[s] + Cardinality(Left(s)') <= launches[s] + Cardinality(Left(s))
    BY <1>6, <2>3
  <2>5. launches[s] + Cardinality(Left(s)) <= Tries * (1 + Cardinality(Hung)) /\ Tries * (1 + Cardinality(Hung)) \in Nat
    BY CountsAreNat, TriesTimes DEF LaunchInv
  <2>6. launches'[s] + Cardinality(Left(s)') <= Tries * (1 + Cardinality(Hung))
    BY <1>6, <2>4, <2>5
  <2>7. QED BY <2>6 DEF Bounded
<1>8. CASE th[t].tries = 0 /\ store[s] = "absent"
  <2>1. t \notin Mid(s)
    BY <1>8 DEF Mid
  <2>2. Cardinality(Left(s)') <= Cardinality(Left(s))
    BY <1>5, CountsAreNat, FS_Subset
  <2>3. Cardinality(Mid(s) \cup {t}) = Cardinality(Mid(s)) + 1 /\ Cardinality(Mid(s)) \in Nat
    BY <2>1, CountsAreNat, FS_AddElement
  <2>4. Cardinality(Mid(s)) + 1 <= 1 + Cardinality(Hung) /\ Cardinality(Hung) \in Nat
    BY <2>3, MidBound, CountsAreNat
  <2>5. Tries * (Cardinality(Mid(s)) + 1) <= Tries * (1 + Cardinality(Hung))
    BY <2>3, <2>4, TriesTimes
  <2>6. Tries * (Cardinality(Mid(s)) + 1) = Tries * Cardinality(Mid(s)) + Tries /\ Tries * Cardinality(Mid(s)) \in Nat
    BY <2>3, TriesTimes
  <2>7. launches[s] + Cardinality(Left(s)) <= Tries * Cardinality(Mid(s))
    BY <1>8 DEF LaunchInv
  <2>8. Tries * (1 + Cardinality(Hung)) \in Nat /\ Tries > 0
    BY <2>4, TriesTimes, ThreadsFinite
  <2>9. launches'[s] + Cardinality(Left(s)') <= Tries * (1 + Cardinality(Hung))
    BY <1>2, <1>6, <2>2, <2>5, <2>6, <2>7, <2>8
  <2>10. QED BY <2>9 DEF Bounded
<1>9. QED BY <1>2, <1>7, <1>8

-----------------------------------------------------------------------------
(* How a thread goes on.                                                   *)

\* The whole state has its types.
Typed == TypeOK /\ LoopTyped

\* Where a thread goes when no launch is over.
Onward == Places \ {"launched"}

\* x is the thread m further on, serving s, which acts for the same identity and holds the same account.
Still(x, m, s) == /\ x \in Thread /\ x.id = m.id /\ x.got = m.got /\ x.tries = m.tries
                  /\ x.s = s /\ x.pc # "launched"

\* A thread that goes on is one,
LEMMA Goes ==
    ASSUME NEW m \in Thread, NEW q \in Onward
    PROVE  Still([m EXCEPT !.pc = q], m, m.s)
  BY DEF Still, Thread, Onward

\* so is one that is done with its signup,
LEMMA Rests ==
    ASSUME NEW m \in Thread, NEW q \in Onward, m.tries = 0
    PROVE  Still([m EXCEPT !.pc = q, !.tries = 0], m, m.s)
<1>1. 0 \in 0 .. Tries - 1
  BY ThreadsFinite
<1>2. QED BY <1>1 DEF Still, Thread, Onward

\* one that takes to the email flow, with the places to go back to,
LEMMA Turns ==
    ASSUME NEW m \in Thread, NEW q \in Onward, NEW b \in Backs, NEW r \in Backs
    PROVE  Still([m EXCEPT !.pc = q, !.back = b, !.ret = r], m, m.s)
  BY DEF Still, Thread, Onward

\* one that has observed something,
LEMMA Notes ==
    ASSUME NEW m \in Thread, NEW q \in Onward, NEW o \in Observation
    PROVE  Still([m EXCEPT !.pc = q, !.out = o], m, m.s)
  BY DEF Still, Thread, Onward

\* one that has stored what it observed,
LEMMA Stores ==
    ASSUME NEW m \in Thread, NEW q \in Onward, NEW b \in Backs, NEW o \in Observation
    PROVE  Still([m EXCEPT !.pc = q, !.back = b, !.out = o], m, m.s)
  BY DEF Still, Thread, Onward

\* and one that runs the flow of another identity.
LEMMA Serves ==
    ASSUME NEW m \in Thread, NEW q \in Onward, NEW i \in Ids, NEW b \in Backs
    PROVE  Still([m EXCEPT !.pc = q, !.s = i, !.back = b], m, i)
  BY DEF Still, Thread, Onward

\* An observation with some of its fields set is an observation.
LEMMA Observations ==
    ASSUME NEW o \in Observation, NEW a \in BOOLEAN, NEW b \in BOOLEAN
    PROVE  /\ [o EXCEPT !.attempted = a] \in Observation
           /\ [o EXCEPT !.atSignup = TRUE] \in Observation
           /\ [o EXCEPT !.announced = a] \in Observation
           /\ [o EXCEPT !.announced = a, !.arrived = b] \in Observation
           /\ [o EXCEPT !.gated = TRUE, !.ctl = a] \in Observation
           /\ [o EXCEPT !.arrived = a] \in Observation
           /\ [o EXCEPT !.late = a] \in Observation
           /\ [o EXCEPT !.done = a] \in Observation
           /\ [o EXCEPT !.acted = a, !.session = b] \in Observation
<1>1. [o EXCEPT !.attempted = a] \in Observation /\ [o EXCEPT !.atSignup = TRUE] \in Observation
  BY DEF Observation
<1>2. [o EXCEPT !.announced = a] \in Observation /\ [o EXCEPT !.announced = a, !.arrived = b] \in Observation
  BY DEF Observation
<1>3. [o EXCEPT !.gated = TRUE, !.ctl = a] \in Observation /\ [o EXCEPT !.arrived = a] \in Observation
  BY DEF Observation
<1>4. [o EXCEPT !.late = a] \in Observation /\ [o EXCEPT !.done = a] \in Observation
  BY DEF Observation
<1>5. [o EXCEPT !.acted = a, !.session = b] \in Observation
  BY DEF Observation
<1>6. QED BY <1>1, <1>2, <1>3, <1>4, <1>5

\* What is not observed yet.
LEMMA NothingTyped == Nothing \in Observation
  BY DEF Observation, Nothing

\* A thread that has nothing to do.
LEMMA IdleTyped == Idle \in Thread /\ Idle.pc = "idle" /\ Idle.tries = 0 /\ Idle.s = "me"
<1>1. 0 \in 0 .. Tries - 1 /\ <<>> \in Seq(Person)
  BY ThreadsFinite
<1>2. QED BY <1>1, NothingTyped DEF Idle, Thread, Places, Backs, Ids

\* What one thread at work does leaves LiveInv, when it ends at most its own probe.
LEMMA LiveKept ==
    ASSUME LoopTyped, LiveInv, NEW t \in Threads, NEW x \in Thread, th' = [th EXCEPT ![t] = x], th[t].pc # "idle",
           running' = running,
           \/ verdict' = verdict
           \/ /\ x.pc = "idle"
              /\ \E v \in Verdicts \ {"none", "hung"} :
                    verdict' = [p \in Probes |-> IF p = t /\ verdict[p] = "none" THEN v ELSE verdict[p]]
    PROVE  LiveInv' /\ Hung' = Hung
<1>1. th \in [Threads -> Thread] /\ th'[t] = x /\ \A u \in Threads : u # t => th'[u] = th[u]
  BY DEF LoopTyped
<1>2. CASE verdict' = verdict
  BY <1>1, <1>2 DEF LiveInv, Hung
<1>3. ASSUME x.pc = "idle", NEW v \in Verdicts \ {"none", "hung"},
             verdict' = [p \in Probes |-> IF p = t /\ verdict[p] = "none" THEN v ELSE verdict[p]]
      PROVE  LiveInv' /\ Hung' = Hung
  <2>1. \A p \in Probes : verdict'[p] = IF p = t /\ verdict[p] = "none" THEN v ELSE verdict[p]
    BY <1>3
  <2>2. Hung' = Hung
    BY <1>3, <2>1 DEF Hung
  <2>3. t <= running
    BY <1>1 DEF LiveInv, Hung, LoopTyped, Threads, Probes
  <2>4. \A p \in Probes : p > running => verdict'[p] = "none"
    BY <2>1, <2>3, ThreadsFinite DEF LiveInv, LoopTyped, Threads, Probes
  <2>5. \A u \in Threads : u # 0 => u \in Probes
    BY ThreadsFinite DEF Threads, Probes
  <2>6. ASSUME NEW u \in Threads, th'[u].pc # "idle"
        PROVE  (u = running /\ (u = 0 \/ verdict'[u] = "none")) \/ u \in Hung
    <3>1. u # t /\ th[u].pc # "idle"
      BY <1>1, <1>3, <2>6
    <3>2. (u = running /\ (u = 0 \/ verdict[u] = "none")) \/ u \in Hung
      BY <3>1 DEF LiveInv
    <3>3. u # 0 => verdict'[u] = verdict[u]
      BY <2>1, <2>5, <3>1
    <3>4. QED BY <3>2, <3>3
  <2>7. QED BY <2>2, <2>4, <2>6 DEF LiveInv
<1>4. QED BY <1>2, <1>3

\* The launches of the others, when nobody launches.
LEMMA LaunchKept ==
    ASSUME LoopTyped, LaunchInv, NEW t \in Threads, NEW x \in Thread, th' = [th EXCEPT ![t] = x],
           th[t].tries = 0, x.tries = 0, x.pc # "launched", Hung' = Hung, UNCHANGED <<app, launches, store>>
    PROVE  LaunchInv'
<1>1. th \in [Threads -> Thread] /\ th'[t] = x /\ \A u \in Threads : u # t => th'[u] = th[u]
  BY DEF LoopTyped
<1>2. \A u \in Threads : th'[u].tries > 0 => th'[u] = th[u]
  BY <1>1
<1>3. \A s \in Ids : Mid(s)' = Mid(s) /\ Left(s)' = Left(s)
  BY MidSame
<1>4. \A u \in Threads : th'[u].pc = "launched" => th'[u] = th[u]
  BY <1>1
<1>5. QED BY <1>2, <1>3, <1>4 DEF LaunchInv

\* The users, when no account is had and only sessions of the flow are kept.
LEMMA PeopleKept ==
    ASSUME Typed, PeopleInv, NEW t \in Threads, NEW x \in Thread, th' = [th EXCEPT ![t] = x], th[t].pc # "idle",
           x.id = th[t].id, x.got = th[t].got, UNCHANGED <<verdict, users>>,
           \A s \in Ids : slot'[s] \in {slot[s], <<"flow", s>>}
    PROVE  PeopleInv'
<1>1. th \in [Threads -> Thread] /\ th'[t] = x /\ \A u \in Threads : u # t => th'[u] = th[u]
  BY DEF LoopTyped, Typed
<1>2. \A s \in Ids : Of(slot'[s], s)
  BY DEF PeopleInv, Of
<1>3. ASSUME NEW u \in Probes, Battery[u] = "pair", th'[u].pc # "idle"
      PROVE  th'[u].id = "a" \/ (th'[u].id = "b" /\ \E v \in Person : th'[u].got = <<v>> /\ Of(v, "a"))
  <2>1. u \in Threads
    BY ThreadsFinite DEF Threads, Probes
  <2>2. th[u].pc # "idle" /\ th'[u].id = th[u].id /\ th'[u].got = th[u].got
    BY <1>1, <1>3, <2>1
  <2>3. QED BY <1>3, <2>2 DEF PeopleInv
<1>4. QED BY <1>2, <1>3 DEF PeopleInv

\* The second identity, when no more than its own flow is stored.
LEMMA SecondKept ==
    ASSUME Typed, SecondInv, NEW t \in Threads, NEW x \in Thread, th' = [th EXCEPT ![t] = x],
           x.s \in {th[t].s, "me"} \/ slot["me"] # NoUser,
           \A s \in Ids : flows'[s] # flows[s] => s = th[t].s,
           slot'["me"] \in {slot["me"], <<"flow", "me">>}
    PROVE  SecondInv'
<1>1. th \in [Threads -> Thread] /\ th'[t] = x /\ \A u \in Threads : u # t => th'[u] = th[u]
  BY DEF LoopTyped, Typed
<1>2. slot["me"] # NoUser => slot'["me"] # NoUser
  BY DEF NoUser
<1>3. \A u \in Threads : th'[u].s # "me" => slot'["me"] # NoUser
  BY <1>1, <1>2 DEF SecondInv
<1>4. ASSUME NEW s \in {"a", "b"}, flows'[s] > 0
      PROVE  slot'["me"] # NoUser
  <2>1. CASE flows'[s] = flows[s]
    BY <1>2, <1>4, <2>1 DEF SecondInv, OnePollForABrokenApp
  <2>2. CASE flows'[s] # flows[s]
    BY <1>2, <2>2 DEF SecondInv, Ids
  <2>3. QED BY <2>1, <2>2
<1>5. QED BY <1>3, <1>4 DEF SecondInv, OnePollForABrokenApp

-----------------------------------------------------------------------------
(* The quiet steps of a thread: no account is had, no launch is made.      *)

Quiet(t) ==
    /\ \E x, s : /\ th' = [th EXCEPT ![t] = x] /\ Still(x, th[t], s)
                 /\ s \in {th[t].s, "me"} \/ slot["me"] # NoUser
    /\ th[t].pc # "idle" /\ th[t].tries = 0
    /\ UNCHANGED <<app, running, verdict, users, launches, store>>
    /\ \A s \in Ids : slot'[s] \in {slot[s], <<"flow", s>>}
    /\ \A s \in Ids : flows'[s] # flows[s] => s = th[t].s
    /\ DataTyped' /\ flows' \in [Ids -> Nat]

\* A quiet step keeps everything.
LEMMA QuietKeeps ==
    ASSUME AccountsInv, NEW t \in Threads, Quiet(t)
    PROVE  AccountsInv'
<1>1. PICK x \in Thread : /\ th' = [th EXCEPT ![t] = x] /\ x.tries = 0 /\ x.id = th[t].id /\ x.got = th[t].got
                          /\ x.pc # "launched"
                          /\ x.s \in {th[t].s, "me"} \/ slot["me"] # NoUser
  BY DEF Quiet, Still
<1>2. Typed /\ LiveInv /\ PeopleInv /\ SecondInv /\ LaunchInv
  BY DEF AccountsInv, Typed
<1>3. LoopTyped'
  BY <1>1, <1>2 DEF Quiet, Typed, LoopTyped
<1>4. TypeOK'
  BY <1>3 DEF Quiet, TypeOK, LoopTyped, Thread
<1>5. LiveInv' /\ Hung' = Hung
  BY <1>1, <1>2, LiveKept DEF Quiet, Typed
<1>6. PeopleInv'
  BY <1>1, <1>2, PeopleKept DEF Quiet
<1>7. SecondInv'
  BY <1>1, <1>2, SecondKept DEF Quiet, Ids
<1>8. LaunchInv'
  BY <1>1, <1>2, <1>5, LaunchKept DEF Quiet, Typed
<1>9. QED BY <1>3, <1>4, <1>5, <1>6, <1>7, <1>8 DEF AccountsInv

\* Whoever is not launching has no tries.
LEMMA AtRest ==
    ASSUME Typed, LaunchInv, NEW t \in Threads
    PROVE  /\ th[t] \in Thread /\ th[t].s \in Ids /\ th[t].id \in Ids /\ th[t].pc \in Places
           /\ th[t].back \in Backs /\ th[t].ret \in Backs /\ th[t].back \in Onward /\ th[t].ret \in Onward /\ th[t].out \in Observation
           /\ th[t].pc \notin {"launch", "spa"} => th[t].tries = 0
<1>1. th[t] \in Thread
  BY DEF Typed, LoopTyped
<1>2. th[t].tries \in Nat /\ ~(th[t].tries > 0) => th[t].tries = 0
  OBVIOUS
<1>3. th[t].tries \in 0 .. Tries - 1 /\ Tries \in Nat
  BY <1>1, ThreadsFinite DEF Thread
<1>4. th[t].pc \notin {"launch", "spa"} => th[t].tries = 0
  BY <1>2, <1>3 DEF LaunchInv
<1>5. /\ th[t].s \in Ids /\ th[t].id \in Ids /\ th[t].pc \in Places /\ th[t].out \in Observation
      /\ th[t].back \in Backs /\ th[t].ret \in Backs
  BY <1>1 DEF Thread
<1>6. \A b \in Backs : b \in Onward
  BY DEF Backs, Places, Onward
<1>7. QED BY <1>1, <1>4, <1>5, <1>6

\* _email_register_once: the memo, or a signup.
LEMMA QuietCheckReg == ASSUME Typed, LaunchInv, NEW t \in Threads, CheckReg(t) PROVE Quiet(t)
<1>1. th[t] \in Thread /\ th[t].pc = "reg" /\ th[t].tries = 0 /\ th[t].back \in Onward
  BY AtRest DEF CheckReg, At
<1> DEFINE q == IF reg[th[t].s] = NoReg THEN "signup" ELSE th[t].back
           x == [th[t] EXCEPT !.pc = q]
<1>2. q \in Onward
  BY <1>1 DEF Places, Onward
<1>3. Still(x, th[t], th[t].s)
  BY <1>1, <1>2, Goes
<1>4. th' = [th EXCEPT ![t] = x]
  BY DEF CheckReg, Go
<1>5. UNCHANGED <<app, memos, mail, site, tally, loop>>
  BY DEF CheckReg
<1>6. DataTyped' /\ flows' \in [Ids -> Nat]
  BY <1>5 DEF memos, mail, site, tally, loop, Typed, TypeOK, LoopTyped, DataTyped
<1>7. QED BY <1>1, <1>3, <1>4, <1>5, <1>6 DEF Quiet, memos, mail, site, tally, loop

\* A thread that only moves is quiet.
LEMMA QuietMove ==
    ASSUME Typed, LaunchInv, NEW t \in Threads, th[t].pc \notin {"idle", "launch", "spa"},
           NEW x, NEW s, th' = [th EXCEPT ![t] = x], Still(x, th[t], s),
           s \in {th[t].s, "me"} \/ slot["me"] # NoUser,
           UNCHANGED <<app, memos, mail, site, tally, loop>>
    PROVE  Quiet(t)
<1>1. th[t].tries = 0
  BY AtRest
<1>2. DataTyped' /\ flows' \in [Ids -> Nat]
  BY DEF memos, mail, site, tally, loop, Typed, TypeOK, LoopTyped, DataTyped
<1>3. QED BY <1>1, <1>2 DEF Quiet, memos, mail, site, tally, loop

\* A poll is quiet, whatever came of it.
LEMMA QuietPoll ==
    ASSUME Typed, LaunchInv, NEW t \in Threads, th[t].pc \notin {"idle", "launch", "spa"}, NEW s \in Ids,
           NEW found \in Onward, NEW empty \in Onward,
            NEW yes \in Observation, NEW no \in Observation,
           Poll(t, s, found, empty, yes, no)
    PROVE  Quiet(t)
<1>1. th[t] \in Thread /\ th[t].tries = 0
  BY AtRest
<1>2. \E x : th' = [th EXCEPT ![t] = x] /\ Still(x, th[t], th[t].s)
  <2>1. CASE inbox[s] # "none"
    <3> DEFINE x == [th[t] EXCEPT !.pc = found, !.out = yes]
    <3>1. Still(x, th[t], th[t].s)
      BY <1>1, Notes
    <3>2. th' = [th EXCEPT ![t] = x]
      BY <2>1 DEF Poll
    <3>3. QED BY <3>1, <3>2
  <2>2. CASE inbox[s] = "none"
    <3> DEFINE x == [th[t] EXCEPT !.pc = empty, !.out = no]
    <3>1. Still(x, th[t], th[t].s)
      BY <1>1, Notes
    <3>2. th' = [th EXCEPT ![t] = x]
      BY <2>2 DEF Poll
    <3>3. QED BY <3>1, <3>2
  <2>3. QED BY <2>1, <2>2
<1>3. missed' \in [Ids -> SUBSET {"confirm", "reset"}]
  BY DEF Poll, Typed, TypeOK, DataTyped
<1>4. DataTyped' /\ flows' \in [Ids -> Nat]
  BY <1>3 DEF Poll, memos, site, tally, loop, Typed, TypeOK, LoopTyped, DataTyped
<1>5. QED BY <1>1, <1>2, <1>4 DEF Quiet, Poll, memos, site, tally, loop

\* What the app says to a signup is said or not.
LEMMA Replies ==
    /\ FormReply.session \in BOOLEAN /\ FormReply.announced \in BOOLEAN /\ FormReply.took \in BOOLEAN
    /\ MagicReply.session \in BOOLEAN /\ MagicReply.announced \in BOOLEAN /\ MagicReply.took \in BOOLEAN
  BY DEF FormReply, MagicReply

\* A mail is one of the two.
LEMMA SendTyped ==
    ASSUME DataTyped, NEW s \in Ids, NEW m \in SUBSET {"confirm", "reset"}, Send(s, m)
    PROVE  transit' \in [Ids -> SUBSET {"confirm", "reset"}]
  BY DEF Send, DataTyped

\* A registration is memoised, and its thread goes back.
LEMMA RegisteredTyped ==
    ASSUME Typed, LaunchInv, NEW t \in Threads, th[t].pc \notin {"launch", "spa"}, NEW s \in Ids,
           NEW r \in Registration, Registered(t, s, r)
    PROVE  /\ reg' \in [Ids -> Registration]
           /\ \E x : th' = [th EXCEPT ![t] = x] /\ Still(x, th[t], th[t].s)
<1>1. th[t] \in Thread /\ th[t].back \in Onward /\ th[t].tries = 0
  BY AtRest
<1>2. reg' \in [Ids -> Registration]
  BY DEF Registered, Typed, TypeOK, DataTyped
<1> DEFINE x == [th[t] EXCEPT !.pc = th[t].back, !.tries = 0]
<1>3. Still(x, th[t], th[t].s)
  BY <1>1, Rests
<1>4. th' = [th EXCEPT ![t] = x]
  BY DEF Registered
<1>5. QED BY <1>2, <1>3, <1>4

\* Nothing was submitted, not yet or not at all.
LEMMA RegistrationTyped == NoReg \in Registration /\ [NoReg EXCEPT !.lane = "none"] \in Registration
  BY DEF NoReg, Registration

\* The signup over httpx.
LEMMA QuietSignup == ASSUME Typed, LaunchInv, NEW t \in Threads, Signup(t) PROVE Quiet(t)
<1> DEFINE s == th[t].s
           Shows(r) == r.session \/ r.announced
           won == IF Shows(FormReply) THEN FormReply ELSE MagicReply
           r == [lane |-> "httpx", submitted |-> TRUE, session |-> won.session, announced |-> won.announced, ctl |-> app.ctl]
<1>1. th[t] \in Thread /\ th[t].pc = "signup" /\ th[t].tries = 0 /\ s \in Ids
  BY AtRest DEF Signup, At
<1>2. app \in Apps /\ app.ctl \in BOOLEAN
  BY AccountsAssumption DEF AccountsAssumption, Typed, LoopTyped
<1>3. r \in Registration
  <2>1. won.session \in BOOLEAN /\ won.announced \in BOOLEAN
    BY Replies
  <2>2. QED BY <1>2, <2>1 DEF Registration
<1>4. /\ reg' \in [Ids -> Registration]
      /\ \E x : th' = [th EXCEPT ![t] = x] /\ Still(x, th[t], th[t].s)
  <2>1. CASE Shows(won)
    <3>1. Registered(t, s, r)
      BY <2>1 DEF Signup
    <3>2. QED BY <1>1, <1>3, <3>1, RegisteredTyped
  <2>2. CASE ~Shows(won)
    <3> DEFINE q == IF app.browser THEN "launch" ELSE "gateway"
               x == [th[t] EXCEPT !.pc = q]
    <3>1. q \in Onward
      BY DEF Places, Onward
    <3>2. Still(x, th[t], th[t].s)
      BY <1>1, <3>1, Goes
    <3>3. th' = [th EXCEPT ![t] = x] /\ reg' = reg
      BY <2>2 DEF Signup, Go
    <3>4. QED BY <3>2, <3>3 DEF Typed, TypeOK, DataTyped
  <2>3. QED BY <2>1, <2>2
<1>5. transit' \in [Ids -> SUBSET {"confirm", "reset"}] /\ exists' \in [Ids -> BOOLEAN]
  <2>1. CASE FormReply.took \/ MagicReply.took
    BY <1>1, <2>1, SendTyped DEF Signup, Confirm, Typed, TypeOK, DataTyped
  <2>2. CASE ~(FormReply.took \/ MagicReply.took)
    BY <2>2 DEF Signup, Typed, TypeOK, DataTyped
  <2>3. QED BY <2>1, <2>2
<1>6. acct' \in [Ids -> {"none", "open", "closed"}]
  BY <1>1 DEF Signup, Typed, TypeOK, DataTyped
<1>7. UNCHANGED <<app, store, slot, result, inbox, missed, verified, used, tally, loop>>
  BY DEF Signup
<1>8. DataTyped' /\ flows' \in [Ids -> Nat]
  BY <1>4, <1>5, <1>6, <1>7 DEF tally, loop, Typed, TypeOK, LoopTyped, DataTyped
<1>9. QED BY <1>1, <1>4, <1>7, <1>8 DEF Quiet, tally, loop

\* A registration that was submitted, without a password form.
LEMMA OtherLanes ==
    ASSUME NEW lane \in {"browser", "browser_session", "baas_session", "baas", "firebase_session", "httpx"}, NEW b \in BOOLEAN
    PROVE  LET r == [NoReg EXCEPT !.submitted = TRUE]
           IN  /\ [r EXCEPT !.lane = lane, !.announced = b] \in Registration
               /\ [r EXCEPT !.lane = lane, !.session = b] \in Registration
               /\ [r EXCEPT !.lane = lane, !.session = TRUE, !.announced = b] \in Registration
               /\ [r EXCEPT !.lane = lane, !.ctl = b] \in Registration
  BY DEF NoReg, Registration

\* The app's own signup in the browser, after its launches.
LEMMA QuietBrowserLane == ASSUME Typed, LaunchInv, NEW t \in Threads, BrowserLane(t) PROVE Quiet(t)
<1> DEFINE s == th[t].s
           r == [NoReg EXCEPT !.submitted = TRUE]
           pending == [r EXCEPT !.lane = "browser", !.announced = app.spa = "announce"]
           session == [r EXCEPT !.lane = "browser_session", !.session = TRUE, !.announced = app.spa = "both"]
<1>1. th[t] \in Thread /\ th[t].pc = "launched" /\ th[t].tries = 0 /\ s \in Ids
  BY AtRest DEF BrowserLane, At
<1>2. pending \in Registration /\ session \in Registration
  BY OtherLanes
<1>3. store[s] \in {"null", "pending", "session"}
  BY <1>1 DEF LaunchInv, Typed, TypeOK, DataTyped
<1>4. (CASE store[s] = "pending" -> Registered(t, s, pending)
         [] store[s] = "session" -> Registered(t, s, session)
         [] store[s] = "null"    -> Go(t, "gateway") /\ UNCHANGED reg)
  BY DEF BrowserLane
<1>5. /\ reg' \in [Ids -> Registration]
      /\ \E x : th' = [th EXCEPT ![t] = x] /\ Still(x, th[t], th[t].s)
  <2>1. CASE store[s] = "pending"
    <3>1. Registered(t, s, pending)
      BY <1>4, <2>1
    <3>2. QED BY <1>1, <1>2, <3>1, RegisteredTyped
  <2>2. CASE store[s] = "session"
    <3>1. Registered(t, s, session)
      BY <1>4, <2>2
    <3>2. QED BY <1>1, <1>2, <3>1, RegisteredTyped
  <2>3. CASE store[s] = "null"
    <3> DEFINE x == [th[t] EXCEPT !.pc = "gateway"]
    <3>1. Still(x, th[t], th[t].s)
      BY <1>1, Goes DEF Places, Onward
    <3>2. Go(t, "gateway") /\ UNCHANGED reg
      BY <1>4, <2>3
    <3>3. th' = [th EXCEPT ![t] = x] /\ reg' = reg
      BY <3>2 DEF Go
    <3>4. QED BY <3>1, <3>3 DEF Typed, TypeOK, DataTyped
  <2>4. QED BY <1>3, <2>1, <2>2, <2>3
<1>6. UNCHANGED <<app, acct, store, slot, result, mail, site, tally, loop>>
  BY DEF BrowserLane
<1>7. DataTyped' /\ flows' \in [Ids -> Nat]
  BY <1>5, <1>6 DEF mail, site, tally, loop, Typed, TypeOK, LoopTyped, DataTyped
<1>8. QED BY <1>1, <1>5, <1>6, <1>7 DEF Quiet, mail, site, tally, loop

\* The signup at the managed backend, or nothing was submitted.
LEMMA QuietGateway == ASSUME Typed, LaunchInv, NEW t \in Threads, Gateway(t) PROVE Quiet(t)
<1> DEFINE s == th[t].s
           r == [NoReg EXCEPT !.submitted = TRUE]
           session == [r EXCEPT !.lane = "baas_session", !.session = TRUE]
           pending == [r EXCEPT !.lane = "baas", !.announced = TRUE]
           firebase == [r EXCEPT !.lane = "firebase_session", !.session = TRUE]
           form == [r EXCEPT !.lane = "httpx", !.ctl = app.ctl]
           none == [NoReg EXCEPT !.lane = "none"]
<1>1. th[t] \in Thread /\ th[t].pc = "gateway" /\ th[t].tries = 0 /\ s \in Ids
  BY AtRest DEF Gateway, At
<1>2. app.ctl \in BOOLEAN
  BY AccountsAssumption DEF AccountsAssumption, Typed, LoopTyped
<1>3. session \in Registration /\ pending \in Registration /\ firebase \in Registration /\ form \in Registration
  BY <1>2, OtherLanes
<1>4. none \in Registration
  BY RegistrationTyped
<1>5. (CASE app.baas = "session"  -> Registered(t, s, session)
         [] app.baas = "pending"  -> Registered(t, s, pending)
         [] app.baas = "firebase" -> Registered(t, s, firebase)
         [] app.baas = "no" /\ acct[s] # "none" -> Registered(t, s, form)
         [] OTHER -> Registered(t, s, none))
  BY DEF Gateway
<1>6. \E q \in Registration : Registered(t, s, q)
  <2> HIDE DEF session, pending, firebase, form, none
  <2>1. Registered(t, s, session) \/ Registered(t, s, pending) \/ Registered(t, s, firebase)
          \/ Registered(t, s, form) \/ Registered(t, s, none)
    BY <1>5
  <2>2. QED BY <1>3, <1>4, <2>1
<1>7. /\ reg' \in [Ids -> Registration]
      /\ \E x : th' = [th EXCEPT ![t] = x] /\ Still(x, th[t], th[t].s)
  BY <1>1, <1>6, RegisteredTyped
<1>8. transit' \in [Ids -> SUBSET {"confirm", "reset"}] /\ exists' \in [Ids -> BOOLEAN]
  <2>1. CASE app.baas = "no"
    BY <2>1 DEF Gateway, Typed, TypeOK, DataTyped
  <2>2. CASE app.baas # "no"
    <3>1. Send(s, IF app.baas = "pending" THEN Confirm ELSE {}) /\ exists' = [exists EXCEPT ![s] = TRUE]
      BY <2>2 DEF Gateway
    <3>2. QED BY <1>1, <3>1, SendTyped DEF Confirm, Typed, TypeOK, DataTyped
  <2>3. QED BY <2>1, <2>2
<1>9. UNCHANGED <<app, acct, store, slot, result, inbox, missed, verified, used, tally, loop>>
  BY DEF Gateway
<1>10. DataTyped' /\ flows' \in [Ids -> Nat]
  BY <1>7, <1>8, <1>9 DEF tally, loop, Typed, TypeOK, LoopTyped, DataTyped
<1>11. QED BY <1>1, <1>7, <1>9, <1>10 DEF Quiet, tally, loop

\* _email_verify_result: the memo, or the flow.
LEMMA QuietFlow == ASSUME Typed, LaunchInv, NEW t \in Threads, Flow(t) PROVE Quiet(t)
<1>1. th[t] \in Thread /\ th[t].pc = "flow" /\ th[t].back \in Onward /\ th[t].back \in Backs
  BY AtRest DEF Flow, At
<1>2. \E x : th' = [th EXCEPT ![t] = x] /\ Still(x, th[t], th[t].s)
  <2>1. CASE result[th[t].s].done
    <3> DEFINE x == [th[t] EXCEPT !.pc = th[t].back]
    <3>1. Still(x, th[t], th[t].s)
      BY <1>1, Goes
    <3>2. th' = [th EXCEPT ![t] = x]
      BY <2>1 DEF Flow, Go
    <3>3. QED BY <3>1, <3>2
  <2>2. CASE ~result[th[t].s].done
    <3> DEFINE x == [th[t] EXCEPT !.pc = "reg", !.back = "poll", !.ret = th[t].back]
    <3>1. Still(x, th[t], th[t].s)
      BY <1>1, Turns DEF Backs, Places, Onward
    <3>2. th' = [th EXCEPT ![t] = x]
      BY <2>2 DEF Flow
    <3>3. QED BY <3>1, <3>2
  <2>3. QED BY <2>1, <2>2
<1>3. UNCHANGED <<app, memos, mail, site, tally, loop>>
  BY DEF Flow
<1>4. QED BY <1>1, <1>2, <1>3, QuietMove

\* The poll a signup calls for.
LEMMA QuietObserve == ASSUME Typed, LaunchInv, NEW t \in Threads, Observe(t) PROVE Quiet(t)
<1> DEFINE s == th[t].s
           r == reg[s]
           o == [Nothing EXCEPT !.attempted = r.submitted]
           in == [o EXCEPT !.atSignup = TRUE]
           gate == [o EXCEPT !.gated = TRUE, !.ctl = r.ctl]
           seen == [in EXCEPT !.announced = TRUE, !.arrived = TRUE]
           unseen == [in EXCEPT !.announced = r.announced]
           came == [gate EXCEPT !.arrived = TRUE]
           waits == [gate EXCEPT !.late = TRUE]
<1>1. th[t] \in Thread /\ th[t].pc = "poll" /\ s \in Ids
  BY AtRest DEF Observe, At
<1>2. r.submitted \in BOOLEAN /\ r.session \in BOOLEAN /\ r.announced \in BOOLEAN /\ r.ctl \in BOOLEAN
  BY <1>1 DEF Typed, TypeOK, DataTyped, Registration
<1>3. o \in Observation
  BY <1>2, NothingTyped, Observations
<1>4. in \in Observation /\ gate \in Observation
  <2> HIDE DEF o
  <2>1. QED BY <1>2, <1>3, Observations
<1>5. seen \in Observation /\ unseen \in Observation /\ came \in Observation /\ waits \in Observation
  <2> HIDE DEF in, gate
  <2>1. QED BY <1>2, <1>4, Observations
<1>6. (CASE ~r.submitted -> /\ Go(t, "capture")
                            /\ UNCHANGED <<app, memos, mail, site, tally, loop>>
         [] r.submitted /\ r.session -> Poll(t, s, "capture", "capture", seen, unseen)
         [] r.submitted /\ ~r.session /\ r.announced -> Poll(t, s, "follow", "resend", came, waits)
         [] OTHER -> Poll(t, s, "follow", "capture", came, o))
  BY DEF Observe
<1>7. "capture" \in Onward /\ "follow" \in Onward /\ "resend" \in Onward
  BY DEF Onward, Places
<1>8. CASE Go(t, "capture") /\ UNCHANGED <<app, memos, mail, site, tally, loop>>
  <2> DEFINE x == [th[t] EXCEPT !.pc = "capture"]
  <2>1. Still(x, th[t], th[t].s)
    BY <1>1, <1>7, Goes
  <2>2. th' = [th EXCEPT ![t] = x]
    BY <1>8 DEF Go
  <2>3. QED BY <1>1, <1>8, <2>1, <2>2, QuietMove
<1>9. CASE Poll(t, s, "capture", "capture", seen, unseen)
  BY <1>1, <1>5, <1>7, <1>9, QuietPoll
<1>10. CASE Poll(t, s, "follow", "resend", came, waits)
  BY <1>1, <1>5, <1>7, <1>10, QuietPoll
<1>11. CASE Poll(t, s, "follow", "capture", came, o)
  BY <1>1, <1>3, <1>5, <1>7, <1>11, QuietPoll
<1>12. QED
  <2> HIDE DEF r, o, seen, unseen, came, waits
  <2>1. QED BY <1>2, <1>6, <1>8, <1>9, <1>10, <1>11

\* The app's own resend control.
LEMMA QuietResend == ASSUME Typed, LaunchInv, NEW t \in Threads, Resend(t) PROVE Quiet(t)
<1> DEFINE x == [th[t] EXCEPT !.pc = "second"]
<1>1. th[t] \in Thread /\ th[t].pc = "resend" /\ th[t].tries = 0 /\ th[t].s \in Ids
  BY AtRest DEF Resend, At
<1>2. Still(x, th[t], th[t].s)
  BY <1>1, Goes DEF Onward, Places
<1>3. th' = [th EXCEPT ![t] = x]
  BY DEF Resend, Go
<1>4. transit' \in [Ids -> SUBSET {"confirm", "reset"}]
  <2>1. \/ Send(th[t].s, IF app.resends THEN {"confirm"} ELSE {})
        \/ UNCHANGED transit
    BY DEF Resend
  <2>2. QED BY <1>1, <2>1, SendTyped DEF Typed, TypeOK, DataTyped
<1>5. UNCHANGED <<app, memos, inbox, missed, site, tally, loop>>
  BY DEF Resend
<1>6. DataTyped' /\ flows' \in [Ids -> Nat]
  BY <1>4, <1>5 DEF memos, site, tally, loop, Typed, TypeOK, LoopTyped, DataTyped
<1>7. QED BY <1>1, <1>2, <1>3, <1>5, <1>6 DEF Quiet, memos, site, tally, loop

\* The second leg of the poll.
LEMMA QuietSecondLeg == ASSUME Typed, LaunchInv, NEW t \in Threads, SecondLeg(t) PROVE Quiet(t)
<1>1. th[t] \in Thread /\ th[t].pc = "second" /\ th[t].s \in Ids /\ th[t].out \in Observation
  BY AtRest DEF SecondLeg, At
<1>2. [th[t].out EXCEPT !.arrived = TRUE] \in Observation
  BY <1>1, Observations
<1>3. "follow" \in Onward /\ "capture" \in Onward
  BY DEF Onward, Places
<1>4. Poll(t, th[t].s, "follow", "capture", [th[t].out EXCEPT !.arrived = TRUE], th[t].out)
  BY DEF SecondLeg
<1>5. QED BY <1>1, <1>2, <1>3, <1>4, QuietPoll

\* The link is opened.
LEMMA QuietFollow == ASSUME Typed, LaunchInv, NEW t \in Threads, Follow(t) PROVE Quiet(t)
<1> DEFINE s == th[t].s
           works == inbox[s] = "confirm" /\ app.link # "inert" /\ ~(app.once /\ used[s])
           sess == works \/ LoggedIn(s)
           closed == reg[s].lane = "httpx" /\ acct[s] = "closed"
<1>1. th[t] \in Thread /\ th[t].pc = "follow" /\ th[t].tries = 0 /\ s \in Ids /\ th[t].out \in Observation
  BY AtRest DEF Follow, At
<1>2. "store" \in Onward /\ "capture" \in Onward
  BY DEF Onward, Places
<1>3. /\ \E x : th' = [th EXCEPT ![t] = x] /\ Still(x, th[t], th[t].s)
      /\ verified' \in [Ids -> BOOLEAN] /\ used' \in [Ids -> BOOLEAN]
  <2>1. CASE closed
    <3> DEFINE x == [th[t] EXCEPT !.pc = "store", !.out = Nothing]
    <3>1. Still(x, th[t], th[t].s)
      BY <1>1, <1>2, Notes, NothingTyped
    <3>2. th' = [th EXCEPT ![t] = x] /\ UNCHANGED <<verified, used>>
      BY <2>1 DEF Follow
    <3>3. QED BY <3>1, <3>2 DEF Typed, TypeOK, DataTyped
  <2>2. CASE ~closed
    <3>1. PICK ok \in (IF app.link = "code" THEN {FALSE, reg[s].lane # "browser"} ELSE {TRUE}) :
             /\ th' = [th EXCEPT ![t].pc = "capture", ![t].out.acted = ok, ![t].out.session = ok /\ sess]
             /\ verified' = [verified EXCEPT ![s] = verified[s] \/ (ok /\ works)]
             /\ used' = [used EXCEPT ![s] = used[s] \/ inbox[s] = "confirm"]
      BY <2>2 DEF Follow
    <3>2. ok \in BOOLEAN
      OBVIOUS
    <3> DEFINE out == [th[t].out EXCEPT !.acted = ok, !.session = ok /\ sess]
               x == [th[t] EXCEPT !.pc = "capture", !.out = out]
    <3>3. out \in Observation
      BY <1>1, <3>2, Observations
    <3>4. Still(x, th[t], th[t].s)
      <4> HIDE DEF out
      <4>1. QED BY <1>1, <1>2, <3>3, Notes
    <3>5. th' = [th EXCEPT ![t] = x]
      <4>1. [th[t] EXCEPT !.pc = "capture", !.out.acted = ok, !.out.session = ok /\ sess] = x
        BY <1>1 DEF Thread
      <4>2. th' = [th EXCEPT ![t] = [th[t] EXCEPT !.pc = "capture", !.out.acted = ok, !.out.session = ok /\ sess]]
        BY <3>1 DEF Typed, LoopTyped
      <4>3. QED BY <4>1, <4>2
    <3>6. verified' \in [Ids -> BOOLEAN]
      <4>1. (verified[s] \/ (ok /\ works)) \in BOOLEAN
        OBVIOUS
      <4>2. QED BY <3>1, <4>1 DEF Typed, TypeOK, DataTyped
    <3>7. used' \in [Ids -> BOOLEAN]
      <4>1. (used[s] \/ inbox[s] = "confirm") \in BOOLEAN
        OBVIOUS
      <4>2. QED BY <3>1, <4>1 DEF Typed, TypeOK, DataTyped
    <3>8. QED BY <3>4, <3>5, <3>6, <3>7
  <2>3. QED BY <2>1, <2>2
<1>4. UNCHANGED <<app, memos, mail, exists, tally, loop>>
  BY DEF Follow
<1>5. DataTyped' /\ flows' \in [Ids -> Nat]
  BY <1>3, <1>4 DEF memos, mail, tally, loop, Typed, TypeOK, LoopTyped, DataTyped
<1>6. QED BY <1>1, <1>3, <1>4, <1>5 DEF Quiet, memos, mail, tally, loop

\* A session that was won is kept.
LEMMA QuietCapture == ASSUME Typed, LaunchInv, NEW t \in Threads, Capture(t) PROVE Quiet(t)
<1> DEFINE s == th[t].s
           x == [th[t] EXCEPT !.pc = "store"]
           kept == th[t].out.session \/ reg[s].lane = "firebase_session"
<1>1. th[t] \in Thread /\ th[t].pc = "capture" /\ th[t].tries = 0 /\ s \in Ids
  BY AtRest DEF Capture, At
<1>2. Still(x, th[t], th[t].s)
  BY <1>1, Goes DEF Onward, Places
<1>3. th' = [th EXCEPT ![t] = x]
  BY DEF Capture, Go
<1>4. slot' = [slot EXCEPT ![s] = IF kept THEN <<"flow", s>> ELSE slot[s]]
  BY DEF Capture
<1>5. slot' \in [Ids -> Person] /\ \A i \in Ids : slot'[i] \in {slot[i], <<"flow", i>>}
  <2>1. <<"flow", s>> \in Person
    BY <1>1 DEF Person
  <2>2. slot \in [Ids -> Person]
    BY DEF Typed, TypeOK, DataTyped
  <2> HIDE DEF kept
  <2>3. QED BY <1>1, <1>4, <2>1, <2>2
<1>6. acct' \in [Ids -> {"none", "open", "closed"}]
  BY <1>1 DEF Capture, Typed, TypeOK, DataTyped
<1>7. UNCHANGED <<app, reg, store, result, mail, site, tally, loop>>
  BY DEF Capture
<1>8. DataTyped' /\ flows' \in [Ids -> Nat]
  BY <1>5, <1>6, <1>7 DEF mail, site, tally, loop, Typed, TypeOK, LoopTyped, DataTyped
<1>9. QED BY <1>1, <1>2, <1>3, <1>5, <1>7, <1>8 DEF Quiet, mail, site, tally, loop

\* What was observed is memoised.
LEMMA QuietStore == ASSUME Typed, LaunchInv, NEW t \in Threads, Store(t) PROVE Quiet(t)
<1> DEFINE s == th[t].s
           o == [th[t].out EXCEPT !.done = TRUE]
           x == [th[t] EXCEPT !.pc = th[t].ret, !.back = th[t].ret, !.out = Nothing]
<1>1. /\ th[t] \in Thread /\ th[t].pc = "store" /\ th[t].tries = 0 /\ s \in Ids
      /\ th[t].ret \in Onward /\ th[t].ret \in Backs /\ th[t].out \in Observation
  BY AtRest DEF Store, At
<1>2. Still(x, th[t], th[t].s)
  BY <1>1, Stores, NothingTyped
<1>3. th' = [th EXCEPT ![t] = x]
  BY DEF Store
<1>4. result' \in [Ids -> Observation]
  <2>1. o \in Observation
    BY <1>1, Observations
  <2>2. result' = [result EXCEPT ![s] = o]
    BY DEF Store
  <2> HIDE DEF o
  <2>3. QED BY <2>1, <2>2 DEF Typed, TypeOK, DataTyped
<1>5. flows' = [flows EXCEPT ![s] = flows[s] + 1] /\ flows \in [Ids -> Nat]
  BY DEF Store, Typed, LoopTyped
<1>6. flows' \in [Ids -> Nat] /\ \A i \in Ids : flows'[i] # flows[i] => i = s
  BY <1>1, <1>5
<1>7. UNCHANGED <<app, reg, acct, store, slot, mail, site, launches, loop>>
  BY DEF Store
<1>8. DataTyped'
  BY <1>4, <1>7 DEF mail, site, loop, Typed, TypeOK, DataTyped
<1>9. QED BY <1>1, <1>2, <1>3, <1>6, <1>7, <1>8 DEF Quiet, mail, site, loop

\* The poll for the mail of a reset.
LEMMA QuietAwaitReset == ASSUME Typed, LaunchInv, NEW t \in Threads, AwaitReset(t) PROVE Quiet(t)
<1>1. th[t].pc = "wait" /\ Poll(t, "me", "open", "no reset mail", Nothing, Nothing) /\ "me" \in Ids
  BY DEF AwaitReset, At, Ids
<1>2. "open" \in Onward /\ "no reset mail" \in Onward
  BY DEF Onward, Places
<1>3. QED BY <1>1, <1>2, NothingTyped, QuietPoll

\* _email_account: whether there is a flow to run.
LEMMA QuietGate == ASSUME Typed, LaunchInv, SecondInv, NEW t \in Threads, Gate(t) PROVE Quiet(t)
<1> DEFINE id == th[t].id
           first == id # "me" /\ slot["me"] = NoUser /\ th[t].s = "me" /\ th[t].back # "gate"
           none == id # "me" /\ slot["me"] = NoUser /\ th[t].back = "gate"
<1>1. th[t] \in Thread /\ th[t].pc = "gate" /\ id \in Ids
  BY AtRest DEF Gate, At
<1>2. "flow" \in Onward /\ "spa" \in Onward /\ "session" \in Onward /\ "gate" \in Backs /\ "session" \in Backs /\ "me" \in Ids
  BY DEF Onward, Places, Backs, Ids
<1>3. \E x, s : th' = [th EXCEPT ![t] = x] /\ Still(x, th[t], s) /\ (s \in {th[t].s, "me"} \/ slot["me"] # NoUser)
  <2>1. CASE first
    <3> DEFINE x == [th[t] EXCEPT !.pc = "flow", !.s = "me", !.back = "gate"]
    <3>1. Still(x, th[t], "me")
      BY <1>1, <1>2, Serves
    <3>2. th' = [th EXCEPT ![t] = x]
      BY <2>1 DEF Gate
    <3>3. QED BY <3>1, <3>2
  <2>2. CASE none
    <3> DEFINE x == [th[t] EXCEPT !.pc = "spa"]
    <3>1. Still(x, th[t], th[t].s)
      BY <1>1, <1>2, Goes
    <3>2. th' = [th EXCEPT ![t] = x]
      BY <2>2 DEF Gate, Go
    <3>3. QED BY <3>1, <3>2
  <2>3. CASE ~first /\ ~none
    <3>1. IF ~result[id].done /\ (FormReply.announced \/ app.browser)
          THEN th' = [th EXCEPT ![t].pc = "flow", ![t].s = id, ![t].back = "session"]
          ELSE Go(t, "session")
      BY <2>3 DEF Gate
    <3>2. CASE ~result[id].done /\ (FormReply.announced \/ app.browser)
      <4> DEFINE x == [th[t] EXCEPT !.pc = "flow", !.s = id, !.back = "session"]
      <4>1. Still(x, th[t], id)
        BY <1>1, <1>2, Serves
      <4>2. th' = [th EXCEPT ![t] = x]
        BY <3>1, <3>2
      <4>3. id = "me" \/ slot["me"] # NoUser
        BY <2>3 DEF SecondInv
      <4>4. QED BY <4>1, <4>2, <4>3
    <3>3. CASE ~(~result[id].done /\ (FormReply.announced \/ app.browser))
      <4> DEFINE x == [th[t] EXCEPT !.pc = "session"]
      <4>1. Still(x, th[t], th[t].s)
        BY <1>1, <1>2, Goes
      <4>2. th' = [th EXCEPT ![t] = x]
        BY <3>1, <3>3 DEF Go
      <4>3. QED BY <4>1, <4>2
    <3>4. QED BY <3>2, <3>3
  <2>4. QED BY <2>1, <2>2, <2>3
<1>4. UNCHANGED <<app, memos, mail, site, tally, loop>>
  BY DEF Gate
<1>5. QED BY <1>1, <1>3, <1>4, QuietMove

-----------------------------------------------------------------------------
(* The steps with which a thread has an account, or ends.                  *)

\* The users, when a thread ends with verdict v.
LEMMA PeopleEnd ==
    ASSUME Typed, LiveInv, PeopleInv, NEW t \in Threads, th[t].pc # "idle", NEW v \in Verdicts, End(t, v), slot' = slot,
           \/ users' = users /\ v # "tested"
           \/ \E w \in Seq(Person) : /\ users' = [users EXCEPT ![t] = w]
                                     /\ t \in Probes /\ Battery[t] = "pair" /\ v = "tested" => Apart(w)
    PROVE  PeopleInv'
<1>1. th \in [Threads -> Thread] /\ th'[t] = Idle /\ \A u \in Threads : u # t => th'[u] = th[u]
  BY IdleTyped DEF LoopTyped, Typed, End
<1>2. \A s \in Ids : Of(slot'[s], s)
  BY DEF PeopleInv
<1>3. ASSUME NEW u \in Probes, Battery[u] = "pair", th'[u].pc # "idle"
      PROVE  th'[u].id = "a" \/ (th'[u].id = "b" /\ \E p \in Person : th'[u].got = <<p>> /\ Of(p, "a"))
  <2>1. u \in Threads
    BY ThreadsFinite DEF Threads, Probes
  <2>2. u # t
    BY <1>1, <1>3, IdleTyped
  <2>3. th'[u] = th[u]
    BY <1>1, <2>1, <2>2
  <2>4. QED BY <1>3, <2>3 DEF PeopleInv
<1>4. ASSUME NEW p \in Probes, Battery[p] = "pair", verdict'[p] = "tested"
      PROVE  Apart(users'[p])
  <2>1. verdict'[p] = IF p = t /\ verdict[p] = "none" THEN v ELSE verdict[p]
    BY DEF End
  <2>2. CASE p # t
    <3>1. verdict[p] = "tested" /\ users'[p] = users[p]
      BY <1>4, <2>1, <2>2 DEF Typed, LoopTyped
    <3>2. QED BY <1>4, <3>1 DEF PeopleInv
  <2>3. CASE p = t
    <3>1. verdict[p] = "none" \/ verdict[p] = "hung"
      BY <2>3, ThreadsFinite DEF LiveInv, Hung, Probes
    <3>2. v = "tested"
      BY <1>4, <2>1, <3>1
    <3>3. PICK w \in Seq(Person) : /\ users' = [users EXCEPT ![t] = w]
                                   /\ t \in Probes /\ Battery[t] = "pair" /\ v = "tested" => Apart(w)
      BY <3>2
    <3>4. users'[p] = w
      BY <2>3, <3>3 DEF Typed, LoopTyped
    <3>5. QED BY <1>4, <2>3, <3>2, <3>3, <3>4
  <2>4. QED BY <2>2, <2>3
<1>5. QED BY <1>2, <1>3, <1>4 DEF PeopleInv

\* A thread that ends keeps everything, when what it was given is right.
LEMMA EndKeeps ==
    ASSUME AccountsInv, NEW t \in Threads, th[t].pc \notin {"idle", "launch", "spa"},
           NEW v \in Verdicts \ {"none", "hung"}, End(t, v), UNCHANGED <<app, memos, mail, site, tally, running>>,
           \/ users' = users /\ v # "tested"
           \/ \E w \in Seq(Person) : /\ users' = [users EXCEPT ![t] = w]
                                     /\ t \in Probes /\ Battery[t] = "pair" /\ v = "tested" => Apart(w)
    PROVE  AccountsInv'
<1>1. Typed /\ LiveInv /\ PeopleInv /\ SecondInv /\ LaunchInv
  BY DEF AccountsInv, Typed
<1>2. Idle \in Thread /\ th' = [th EXCEPT ![t] = Idle] /\ th[t].tries = 0
  BY <1>1, IdleTyped, AtRest DEF End
<1>3. verdict' = [p \in Probes |-> IF p = t /\ verdict[p] = "none" THEN v ELSE verdict[p]]
  BY DEF End
<1>4. verdict' \in [Probes -> Verdicts]
  BY <1>1, <1>3 DEF Typed, LoopTyped
<1>5. users' \in [Probes -> Seq(Person)]
  BY <1>1 DEF Typed, LoopTyped
<1>6. LoopTyped'
  BY <1>1, <1>2, <1>4, <1>5 DEF Typed, LoopTyped, tally
<1>7. DataTyped'
  BY <1>1 DEF Typed, TypeOK, DataTyped, memos, mail, site
<1>8. TypeOK'
  BY <1>6, <1>7 DEF TypeOK, LoopTyped, Thread
<1>9. LiveInv' /\ Hung' = Hung
  BY <1>1, <1>2, <1>3, IdleTyped, LiveKept DEF Typed
<1>10. PeopleInv'
  BY <1>1, PeopleEnd DEF memos
<1>11. SecondInv'
  BY <1>1, <1>2, IdleTyped, SecondKept DEF memos, tally
<1>12. LaunchInv'
  BY <1>1, <1>2, <1>9, IdleTyped, LaunchKept DEF Typed, memos, tally
<1>13. QED BY <1>6, <1>8, <1>9, <1>10, <1>11, <1>12 DEF AccountsInv

\* A thread that waits for the second of its pair.
LEMMA SecondThread ==
    ASSUME NEW user \in Person
    PROVE  LET x == [Idle EXCEPT !.pc = "register", !.id = "b", !.got = <<user>>]
           IN  x \in Thread /\ x.pc = "register" /\ x.id = "b" /\ x.got = <<user>> /\ x.s = "me" /\ x.tries = 0
<1>1. Idle \in Thread /\ Idle.s = "me" /\ Idle.tries = 0
  BY IdleTyped
<1>2. <<user>> \in Seq(Person) /\ "b" \in Ids /\ "register" \in Places
  BY DEF Ids, Places
<1>3. QED BY <1>1, <1>2 DEF Thread

\* The first of a pair is had.
LEMMA FirstKeeps ==
    ASSUME AccountsInv, NEW t \in Threads, th[t].pc \notin {"idle", "launch", "spa"}, th[t].id = "a",
           NEW user \in Person, Of(user, "a"),
           th' = [th EXCEPT ![t] = [Idle EXCEPT !.pc = "register", !.id = "b", !.got = <<user>>]],
           UNCHANGED <<app, memos, mail, site, tally, loop>>
    PROVE  AccountsInv'
<1> DEFINE x == [Idle EXCEPT !.pc = "register", !.id = "b", !.got = <<user>>]
<1>1. x \in Thread /\ x.pc = "register" /\ x.id = "b" /\ x.got = <<user>> /\ x.s = "me" /\ x.tries = 0
  BY SecondThread
<1>2. th' = [th EXCEPT ![t] = x]
  OBVIOUS
<1> HIDE DEF x
<1>3. Typed /\ LiveInv /\ PeopleInv /\ SecondInv /\ LaunchInv
  BY DEF AccountsInv, Typed
<1>4. th[t].tries = 0
  BY <1>3, AtRest
<1>5. LoopTyped'
  BY <1>1, <1>2, <1>3 DEF Typed, LoopTyped, tally, loop
<1>6. DataTyped'
  BY <1>3 DEF Typed, TypeOK, DataTyped, memos, mail, site
<1>7. TypeOK'
  BY <1>5, <1>6 DEF TypeOK, LoopTyped, Thread
<1>8. LiveInv' /\ Hung' = Hung
  BY <1>1, <1>2, <1>3, LiveKept DEF Typed, loop
<1>9. PeopleInv'
  <2>1. th \in [Threads -> Thread] /\ th'[t] = x /\ \A u \in Threads : u # t => th'[u] = th[u]
    BY <1>2, <1>3 DEF Typed, LoopTyped
  <2>2. ASSUME NEW u \in Probes, Battery[u] = "pair", th'[u].pc # "idle"
        PROVE  th'[u].id = "a" \/ (th'[u].id = "b" /\ \E p \in Person : th'[u].got = <<p>> /\ Of(p, "a"))
    <3>1. u \in Threads
      BY ThreadsFinite DEF Threads, Probes
    <3>2. CASE u = t
      BY <1>1, <2>1, <3>2
    <3>3. CASE u # t
      BY <1>3, <2>1, <2>2, <3>1, <3>3 DEF PeopleInv
    <3>4. QED BY <3>2, <3>3
  <2>3. QED BY <1>3, <2>2 DEF PeopleInv, memos, loop
<1>10. SecondInv'
  BY <1>1, <1>2, <1>3, SecondKept DEF memos, tally
<1>11. LaunchInv'
  BY <1>1, <1>2, <1>3, <1>4, <1>8, LaunchKept DEF Typed, memos, tally
<1>12. QED BY <1>5, <1>7, <1>8, <1>9, <1>10, <1>11 DEF AccountsInv

\* An account is had, of the identity that it was had for.
LEMMA HaveKeeps ==
    ASSUME AccountsInv, NEW t \in Threads, th[t].pc \notin {"idle", "launch", "spa"},
           NEW user \in Person, Of(user, th[t].id), Have(t, user), UNCHANGED <<app, memos, mail, site, tally, running>>
    PROVE  AccountsInv'
<1>1. Typed /\ PeopleInv /\ LaunchInv
  BY DEF AccountsInv, Typed
<1>2. th[t] \in Thread
  BY <1>1, AtRest
<1>3. CASE th[t].id = "a"
  <2>1. th' = [th EXCEPT ![t] = [Idle EXCEPT !.pc = "register", !.id = "b", !.got = <<user>>]] /\ UNCHANGED <<verdict, users>>
    BY <1>3 DEF Have
  <2>2. UNCHANGED <<app, memos, mail, site, tally, loop>>
    BY <2>1 DEF loop
  <2>3. QED BY <1>3, <2>1, <2>2, FirstKeeps
<1>4. CASE th[t].id # "a"
  <2> DEFINE v == IF NoUser \in {user} \cup {th[t].got[n] : n \in 1 .. Len(th[t].got)} THEN "na" ELSE "tested"
             w == Append(th[t].got, user)
  <2>1. End(t, v) /\ users' = [users EXCEPT ![t] = w]
    BY <1>4 DEF Have
  <2>2. v \in Verdicts \ {"none", "hung"}
    BY DEF Verdicts
  <2>3. th[t].got \in Seq(Person)
    BY <1>2 DEF Thread
  <2>4. w \in Seq(Person)
    BY <2>3
  <2>5. ASSUME t \in Probes, Battery[t] = "pair", v = "tested"
        PROVE  Apart(w)
    <3>1. PICK u \in Person : th[t].got = <<u>> /\ Of(u, "a") /\ th[t].id = "b"
      BY <1>1, <1>4, <2>5 DEF PeopleInv
    <3>2. Len(th[t].got) = 1 /\ th[t].got[1] = u /\ w[1] = u /\ w[2] = user
      <4>1. Len(<<u>>) = 1 /\ <<u>>[1] = u
        OBVIOUS
      <4>2. QED BY <2>3, <3>1, <4>1
    <3>3. u \in {th[t].got[n] : n \in 1 .. Len(th[t].got)}
      BY <3>2
    <3>4. user # NoUser /\ u # NoUser
      BY <2>5, <3>3
    <3>5. u[2] = "a" /\ user[2] = "b"
      BY <3>1, <3>4 DEF Of
    <3>6. QED BY <3>2, <3>4, <3>5 DEF Apart
  <2> HIDE DEF v, w
  <2>6. QED BY <2>1, <2>2, <2>4, <2>5, EndKeeps
<1>5. QED BY <1>3, <1>4

\* _Ctx.register: the kept session, or a new user over httpx.
LEMMA RegisterKeeps == ASSUME AccountsInv, NEW t \in Threads, Register(t) PROVE AccountsInv'
<1> DEFINE id == th[t].id
           kept == id = "me" /\ slot["me"] # NoUser
<1>1. Typed /\ PeopleInv /\ LaunchInv
  BY DEF AccountsInv, Typed
<1>2. th[t] \in Thread /\ th[t].pc = "register" /\ id \in Ids
  BY <1>1, AtRest DEF Register, At
<1>3. UNCHANGED <<app, memos, mail, site, tally, running>>
  BY DEF Register
<1>4. CASE kept
  <2>1. Have(t, slot["me"])
    BY <1>4 DEF Register
  <2>2. slot["me"] \in Person /\ Of(slot["me"], id)
    BY <1>1, <1>4 DEF Typed, TypeOK, DataTyped, PeopleInv, Ids
  <2>3. QED BY <1>2, <1>3, <2>1, <2>2, HaveKeeps
<1>5. CASE ~kept /\ FormReply.session
  <2>1. Have(t, <<"fresh", id>>)
    BY <1>5 DEF Register
  <2>2. <<"fresh", id>> \in Person /\ Of(<<"fresh", id>>, id)
    BY <1>2 DEF Person, Of
  <2>3. QED BY <1>2, <1>3, <2>1, <2>2, HaveKeeps
<1>6. CASE ~kept /\ ~FormReply.session
  <2> DEFINE x == [th[t] EXCEPT !.pc = "gate"]
  <2>1. Go(t, "gate") /\ UNCHANGED <<verdict, users>>
    BY <1>6 DEF Register
  <2>2. Still(x, th[t], th[t].s)
    BY <1>2, Goes DEF Onward, Places
  <2>3. th' = [th EXCEPT ![t] = x]
    BY <2>1 DEF Go
  <2>4. UNCHANGED <<app, memos, mail, site, tally, loop>>
    BY <1>3, <2>1 DEF loop
  <2>5. QED BY <1>1, <1>2, <2>2, <2>3, <2>4, QuietMove, QuietKeeps
<1>7. QED BY <1>4, <1>5, <1>6

\* The session that the flow of this identity has left, or the browser.
LEMMA SessionKeeps == ASSUME AccountsInv, NEW t \in Threads, Session(t) PROVE AccountsInv'
<1> DEFINE id == th[t].id
<1>1. Typed /\ PeopleInv /\ LaunchInv
  BY DEF AccountsInv, Typed
<1>2. th[t] \in Thread /\ th[t].pc = "session" /\ id \in Ids
  BY <1>1, AtRest DEF Session, At
<1>3. UNCHANGED <<app, memos, mail, site, tally, running>>
  BY DEF Session
<1>4. CASE slot[id] # NoUser
  <2>1. Have(t, slot[id])
    BY <1>4 DEF Session
  <2>2. slot[id] \in Person /\ Of(slot[id], id)
    BY <1>1, <1>2 DEF Typed, TypeOK, DataTyped, PeopleInv
  <2>3. QED BY <1>2, <1>3, <2>1, <2>2, HaveKeeps
<1>5. CASE slot[id] = NoUser
  <2> DEFINE x == [th[t] EXCEPT !.pc = "spa"]
  <2>1. Go(t, "spa") /\ UNCHANGED <<verdict, users>>
    BY <1>5 DEF Session
  <2>2. Still(x, th[t], th[t].s)
    BY <1>2, Goes DEF Onward, Places
  <2>3. th' = [th EXCEPT ![t] = x]
    BY <2>1 DEF Go
  <2>4. UNCHANGED <<app, memos, mail, site, tally, loop>>
    BY <1>3, <2>1 DEF loop
  <2>5. QED BY <1>1, <1>2, <2>2, <2>3, <2>4, QuietMove, QuietKeeps
<1>6. QED BY <1>4, <1>5

\* The user of the browser, of the managed backend, or none.
LEMMA UserKeeps == ASSUME AccountsInv, NEW t \in Threads, User(t) PROVE AccountsInv'
<1> DEFINE id == th[t].id
           user == CASE store[id] = "session" -> <<"browser", id>>
                     [] store[id] # "session" /\ app.baas = "session" -> <<"baas", id>>
                     [] OTHER -> NoUser
<1>1. Typed /\ LaunchInv
  BY DEF AccountsInv, Typed
<1>2. th[t].pc = "user" /\ id \in Ids
  BY <1>1, AtRest DEF User, At
<1>3. Have(t, user) /\ UNCHANGED <<app, memos, mail, site, tally, running>>
  BY DEF User
<1>4. user \in {<<"browser", id>>, <<"baas", id>>, NoUser}
  OBVIOUS
<1>5. user \in Person /\ Of(user, id)
  <2> HIDE DEF user
  <2>1. QED BY <1>2, <1>4 DEF Person, Of, NoUser, Ids
<1>6. QED
  <2> HIDE DEF user
  <2>1. QED BY <1>2, <1>3, <1>5, HaveKeeps

\* The verdicts of the mail flow are verdicts.
LEMMA JudgeTyped ==
    ASSUME NEW o \in Observation
    PROVE  Never(o) \in Verdicts \ {"none", "hung", "tested"} /\ Inert(o) \in Verdicts \ {"none", "hung", "tested"}
<1>1. /\ o.attempted \in BOOLEAN /\ o.gated \in BOOLEAN /\ o.atSignup \in BOOLEAN /\ o.announced \in BOOLEAN
      /\ o.arrived \in BOOLEAN /\ o.late \in BOOLEAN /\ o.ctl \in BOOLEAN /\ o.acted \in BOOLEAN /\ o.session \in BOOLEAN
  BY DEF Observation
<1>2. Never(o) \in {"na", "broken promise", "clean", "lockout", "late", "no resend"}
  BY <1>1 DEF Never
<1>3. Inert(o) \in {"na", "clean", "inert"}
  BY <1>1 DEF Inert
<1>4. QED BY <1>2, <1>3 DEF Verdicts

\* email_never_arrives and email_verification_inert.
LEMMA JudgeKeeps == ASSUME AccountsInv, NEW t \in Threads, Judge(t) PROVE AccountsInv'
<1> DEFINE v == IF Battery[t] = "never" THEN Never(result["me"]) ELSE Inert(result["me"])
<1>1. result["me"] \in Observation
  BY DEF AccountsInv, TypeOK, DataTyped, Ids
<1>2. v \in Verdicts \ {"none", "hung"} /\ v # "tested"
  BY <1>1, JudgeTyped
<1>3. th[t].pc = "judge" /\ End(t, v) /\ UNCHANGED <<app, memos, mail, site, tally, running, users>>
  BY DEF Judge, At
<1> HIDE DEF v
<1>4. QED BY <1>2, <1>3, EndKeeps

\* _run_reset_flow asks for a reset.
LEMMA RecoverKeeps == ASSUME AccountsInv, NEW t \in Threads, Recover(t) PROVE AccountsInv'
<1> DEFINE none == ~Plausible("me") \/ app.forgot = "none"
           raises == ~none /\ app.forgot = "site" /\ acct["me"] = "closed"
           x == [th[t] EXCEPT !.pc = "wait"]
<1>1. Typed /\ LaunchInv
  BY DEF AccountsInv, Typed
<1>2. th[t] \in Thread /\ th[t].pc = "recover" /\ th[t].tries = 0
  BY <1>1, AtRest DEF Recover, At
<1>3. UNCHANGED <<app, memos, inbox, missed, site, tally, running, users>>
  BY DEF Recover
<1>4. CASE none
  <2>1. End(t, "na") /\ UNCHANGED transit
    BY <1>4 DEF Recover
  <2>2. "na" \in Verdicts \ {"none", "hung"}
    BY DEF Verdicts
  <2>3. QED BY <1>2, <1>3, <2>1, <2>2, EndKeeps DEF mail
<1>5. CASE raises
  <2>1. End(t, "raised") /\ UNCHANGED transit
    BY <1>5 DEF Recover
  <2>2. "raised" \in Verdicts \ {"none", "hung"}
    BY DEF Verdicts
  <2>3. QED BY <1>2, <1>3, <2>1, <2>2, EndKeeps DEF mail
<1>6. CASE ~none /\ ~raises
  <2>1. /\ Go(t, "wait")
        /\ Send("me", IF app.resets /\ exists["me"] THEN {"reset"} ELSE {})
        /\ UNCHANGED verdict
    BY <1>6 DEF Recover
  <2>2. Still(x, th[t], th[t].s)
    BY <1>2, Goes DEF Onward, Places
  <2>3. th' = [th EXCEPT ![t] = x]
    BY <2>1 DEF Go
  <2>4. transit' \in [Ids -> SUBSET {"confirm", "reset"}]
    BY <1>1, <2>1, SendTyped DEF Typed, TypeOK, Ids
  <2>5. DataTyped' /\ flows' \in [Ids -> Nat]
    BY <1>1, <1>3, <2>4 DEF memos, site, tally, Typed, TypeOK, LoopTyped, DataTyped
  <2>6. Quiet(t)
    BY <1>2, <1>3, <2>1, <2>2, <2>3, <2>5 DEF Quiet, memos, site, tally
  <2>7. QED BY <2>6, QuietKeeps
<1>7. QED BY <1>4, <1>5, <1>6

\* The link of the reset is opened.
LEMMA OpenResetKeeps == ASSUME AccountsInv, NEW t \in Threads, OpenReset(t) PROVE AccountsInv'
<1>1. PICK v \in {"dead link", "clean"} : End(t, v)
  BY DEF OpenReset
<1>2. v \in Verdicts \ {"none", "hung"} /\ v # "tested"
  BY DEF Verdicts
<1>3. th[t].pc = "open" /\ UNCHANGED <<app, memos, mail, site, tally, running, users>>
  BY DEF OpenReset, At
<1>4. QED BY <1>1, <1>2, <1>3, EndKeeps

\* No mail of the reset came.
LEMMA ResetLockoutKeeps == ASSUME AccountsInv, NEW t \in Threads, ResetLockout(t) PROVE AccountsInv'
<1>1. "no reset mail" \in Verdicts \ {"none", "hung"}
  BY DEF Verdicts
<1>2. /\ th[t].pc = "no reset mail" /\ End(t, "no reset mail")
      /\ UNCHANGED <<app, memos, mail, site, tally, running, users>>
  BY DEF ResetLockout, At
<1>3. QED BY <1>1, <1>2, EndKeeps

-----------------------------------------------------------------------------
(* The launches.                                                           *)

\* A launch comes to no session, to a user, or to a gate.
LEMMA LaunchedTyped ==
    ASSUME Typed
    PROVE  Launched \subseteq {"null", "session", "pending"}
<1>1. app.spa \in {"no", "flaky", "session", "both", "pending", "announce"}
  BY AccountsAssumption DEF AccountsAssumption, Typed, LoopTyped
<1>2. QED BY <1>1 DEF Launched

\* The launches for the other identities.
LEMMA OthersBounded ==
    ASSUME LoopTyped, LaunchInv, NEW t \in Threads, NEW x \in Thread, th' = [th EXCEPT ![t] = x],
           x.tries > 0 => x.pc = th[t].pc /\ x.s = th[t].s /\ x.id = th[t].id,
           NEW s \in Ids, s # Target(t), launches'[s] = launches[s], store'[s] = store[s], Hung' = Hung
    PROVE  Bounded(s)'
<1>1. th \in [Threads -> Thread] /\ th'[t] = x /\ \A u \in Threads : u # t => th'[u] = th[u]
  BY DEF LoopTyped
<1>2. t \notin Mid(s) /\ t \notin Mid(s)'
  BY <1>1 DEF Mid, Target
<1>3. Mid(s)' = Mid(s)
  BY <1>1, <1>2 DEF Mid, Target
<1>4. \A u \in Mid(s) : th'[u] = th[u]
  BY <1>1, <1>2 DEF Mid
<1>5. Left(s)' = Left(s)
  BY <1>3, <1>4 DEF Left
<1>6. QED BY <1>3, <1>5 DEF LaunchInv, Bounded

\* What a launch leaves to the thread and to the memo.
LEMMA LaunchStep ==
    ASSUME AccountsInv, NEW t \in Threads, th[t].pc \in {"launch", "spa"}, NEW s \in Ids, NEW next \in Places, Launch(t, s, next)
    PROVE  \E x \in Thread :
              /\ th' = [th EXCEPT ![t] = x] /\ x.id = th[t].id /\ x.got = th[t].got /\ x.s = th[t].s
              /\ \/ /\ store[s] # "absent" /\ th[t].tries = 0 /\ x.tries = 0 /\ x.pc = next
                    /\ UNCHANGED <<store, launches>>
                 \/ /\ store[s] = "absent" \/ th[t].tries > 0
                    /\ launches' = [launches EXCEPT ![s] = launches[s] + 1]
                    /\ \/ x.tries = th[t].tries + 1 /\ x.pc = th[t].pc /\ store' = store
                       \/ /\ x.tries = 0 /\ x.pc = next
                          /\ \E r \in {"null", "session", "pending"} : store' = [store EXCEPT ![s] = r]
<1>1. Typed /\ LaunchInv
  BY DEF AccountsInv, Typed
<1>2. th[t] \in Thread /\ th[t].tries \in 0 .. Tries - 1 /\ Tries \in Nat /\ Tries > 0 /\ 0 \in 0 .. Tries - 1
  BY <1>1, ThreadsFinite, AtRest DEF Thread
<1>3. CASE store[s] # "absent" /\ th[t].tries = 0
  <2> DEFINE x == [th[t] EXCEPT !.pc = next]
  <2>1. x \in Thread /\ x.id = th[t].id /\ x.got = th[t].got /\ x.s = th[t].s /\ x.tries = th[t].tries /\ x.pc = next
    BY <1>2 DEF Thread
  <2>2. th' = [th EXCEPT ![t] = x] /\ UNCHANGED <<store, launches>>
    BY <1>3 DEF Launch, Go
  <2> HIDE DEF x
  <2>3. QED BY <1>3, <2>1, <2>2
<1>4. CASE ~(store[s] # "absent" /\ th[t].tries = 0)
  <2>1. PICK r \in Launched :
           /\ launches' = [launches EXCEPT ![s] = launches[s] + 1]
           /\ IF r = "null" /\ th[t].tries + 1 < Tries
              THEN /\ th' = [th EXCEPT ![t].tries = th[t].tries + 1]
                   /\ UNCHANGED store
              ELSE /\ store' = [store EXCEPT ![s] = r]
                   /\ th' = [th EXCEPT ![t].pc = next, ![t].tries = 0]
    BY <1>4 DEF Launch
  <2>2. store[s] = "absent" \/ th[t].tries > 0
    BY <1>2, <1>4
  <2>3. CASE r = "null" /\ th[t].tries + 1 < Tries
    <3> DEFINE x == [th[t] EXCEPT !.tries = th[t].tries + 1]
    <3>1. th[t].tries + 1 \in 0 .. Tries - 1
      BY <1>2, <2>3
    <3>2. x \in Thread /\ x.id = th[t].id /\ x.got = th[t].got /\ x.s = th[t].s /\ x.tries = th[t].tries + 1 /\ x.pc = th[t].pc
      BY <1>2, <3>1 DEF Thread
    <3>3. th' = [th EXCEPT ![t] = x] /\ store' = store
      BY <2>1, <2>3
    <3> HIDE DEF x
    <3>4. QED BY <2>1, <2>2, <3>2, <3>3
  <2>4. CASE ~(r = "null" /\ th[t].tries + 1 < Tries)
    <3> DEFINE x == [th[t] EXCEPT !.pc = next, !.tries = 0]
    <3>1. x \in Thread /\ x.id = th[t].id /\ x.got = th[t].got /\ x.s = th[t].s /\ x.tries = 0 /\ x.pc = next
      BY <1>2 DEF Thread
    <3>2. th' = [th EXCEPT ![t] = x] /\ store' = [store EXCEPT ![s] = r]
      BY <2>1, <2>4
    <3>3. r \in {"null", "session", "pending"}
      BY <1>1, LaunchedTyped
    <3> HIDE DEF x
    <3>4. QED BY <2>1, <2>2, <3>1, <3>2, <3>3
  <2>5. QED BY <2>3, <2>4
<1>5. QED BY <1>3, <1>4

\* A launch keeps everything.
LEMMA LaunchKeeps ==
    ASSUME AccountsInv, NEW t \in Threads, NEW s \in Ids, s = Target(t), NEW next \in {"launched", "user"},
           (th[t].pc = "launch" /\ next = "launched") \/ (th[t].pc = "spa" /\ next = "user" /\ app.browser /\ app.entry),
           Launch(t, s, next), UNCHANGED <<app, reg, acct, slot, result, inbox, missed, verified, used, flows, loop>>
    PROVE  AccountsInv'
<1>1. Typed /\ LiveInv /\ PeopleInv /\ SecondInv /\ LaunchInv
  BY DEF AccountsInv, Typed
<1> DEFINE Kept(x)  == /\ store[s] # "absent" /\ th[t].tries = 0 /\ x.tries = 0 /\ x.pc = next
                       /\ UNCHANGED <<store, launches>>
           Again(x) == /\ store[s] = "absent" \/ th[t].tries > 0
                       /\ launches' = [launches EXCEPT ![s] = launches[s] + 1]
                       /\ x.tries = th[t].tries + 1 /\ x.pc = th[t].pc /\ store' = store
           Last(x)  == /\ store[s] = "absent" \/ th[t].tries > 0
                       /\ launches' = [launches EXCEPT ![s] = launches[s] + 1]
                       /\ x.tries = 0 /\ x.pc = next
                       /\ \E r \in {"null", "session", "pending"} : store' = [store EXCEPT ![s] = r]
<1>2. PICK x \in Thread : /\ th' = [th EXCEPT ![t] = x] /\ x.id = th[t].id /\ x.got = th[t].got /\ x.s = th[t].s
                          /\ Kept(x) \/ Again(x) \/ Last(x)
  <2>1. next \in Places
    BY DEF Places
  <2>2. QED BY <2>1, LaunchStep
<1>3. th[t].pc # "idle" /\ x.pc \in {th[t].pc, next} /\ th[t].tries \in Nat
  <2>1. th[t].tries \in 0 .. Tries - 1 /\ Tries \in Nat
    BY <1>1, ThreadsFinite DEF Typed, LoopTyped, Thread
  <2>2. th[t].pc # "idle" /\ x.pc \in {th[t].pc, next}
    BY <1>2
  <2>3. QED BY <2>1, <2>2
<1>4. launches \in [Ids -> Nat] /\ launches' \in [Ids -> Nat]
  <2>1. launches \in [Ids -> Nat] /\ launches[s] + 1 \in Nat
    BY <1>1 DEF Typed, LoopTyped
  <2>2. launches' = launches \/ launches' = [launches EXCEPT ![s] = launches[s] + 1]
    BY <1>2
  <2>3. QED BY <2>1, <2>2
<1>5. store \in [Ids -> {"absent", "null", "pending", "session"}] /\ store' \in [Ids -> {"absent", "null", "pending", "session"}]
  BY <1>1, <1>2 DEF Typed, TypeOK, DataTyped
<1>6. transit' \in [Ids -> SUBSET {"confirm", "reset"}] /\ exists' \in [Ids -> BOOLEAN]
  <2>1. \/ UNCHANGED <<transit, exists>>
        \/ Send(s, Confirm) /\ exists' = [exists EXCEPT ![s] = TRUE]
    BY DEF Launch
  <2>2. QED BY <1>1, <2>1, SendTyped DEF Confirm, Typed, TypeOK, DataTyped
<1>7. LoopTyped'
  BY <1>1, <1>2, <1>4 DEF Typed, LoopTyped, loop
<1>8. DataTyped'
  BY <1>1, <1>5, <1>6 DEF Typed, TypeOK, DataTyped, loop
<1>9. TypeOK'
  BY <1>7, <1>8 DEF TypeOK, LoopTyped, Thread
<1>10. LiveInv' /\ Hung' = Hung
  BY <1>1, <1>2, <1>3, LiveKept DEF Typed, loop
<1>11. PeopleInv'
  BY <1>1, <1>2, <1>3, PeopleKept DEF loop
<1>12. SecondInv'
  BY <1>1, <1>2, SecondKept
<1>13. LaunchInv'
  <2>1. th \in [Threads -> Thread] /\ th'[t] = x /\ \A u \in Threads : u # t => th'[u] = th[u]
    BY <1>1, <1>2 DEF Typed, LoopTyped
  <2>2. \A i \in Ids : store[i] # "absent" => store'[i] # "absent"
    BY <1>2, <1>5
  <2>3. ASSUME NEW u \in Threads, th'[u].tries > 0
        PROVE  th'[u].pc = "launch" \/ (th'[u].pc = "spa" /\ app'.browser /\ app'.entry)
    <3>1. CASE u # t
      BY <1>1, <2>1, <2>3, <3>1 DEF LaunchInv
    <3>2. CASE u = t
      <4>1. x.pc = th[t].pc
        BY <1>2, <2>1, <2>3, <3>2
      <4>2. QED BY <2>1, <3>2, <4>1
    <3>3. QED BY <3>1, <3>2
  <2>4. ASSUME NEW u \in Threads, th'[u].pc = "launched"
        PROVE  store'[th'[u].s] # "absent"
    <3>1. CASE u # t
      <4>1. th[u].s \in Ids /\ store[th[u].s] # "absent"
        BY <1>1, <2>1, <2>4, <3>1, AtRest DEF LaunchInv
      <4>2. QED BY <2>1, <2>2, <3>1, <4>1
    <3>2. CASE u = t
      <4>1. th'[u].s = s
        BY <1>2, <1>3, <2>1, <2>4, <3>2 DEF Target
      <4>2. store'[s] # "absent"
        BY <1>2, <1>5, <2>1, <2>4, <3>2
      <4>3. QED BY <4>1, <4>2
    <3>3. QED BY <3>1, <3>2
  <2>5. Bounded(s)'
    <3>1. CASE Kept(x)
      <4>1. Mid(s)' = Mid(s) /\ Left(s)' = Left(s)
        BY <1>1, <1>2, <3>1, MidSame DEF Typed
      <4>2. QED BY <1>1, <1>10, <3>1, <4>1 DEF LaunchInv, Bounded
    <3>2. CASE Again(x)
      <4>1. CASE th[t].tries > 0
        BY <1>1, <1>2, <1>10, <3>2, <4>1, LaunchAgain DEF Typed
      <4>2. CASE th[t].tries = 0
        <5>1. x.tries = 1 /\ store[s] = "absent" /\ store' = store /\ x.pc = th[t].pc
          BY <3>2, <4>2
        <5>2. launches' = [launches EXCEPT ![s] = launches[s] + 1]
          BY <3>2
        <5>3. LoopTyped
          BY <1>1 DEF Typed
        <5>4. QED BY <1>1, <1>2, <1>3, <1>10, <4>2, <5>1, <5>2, <5>3, LaunchFirst
      <4>3. QED BY <1>3, <4>1, <4>2
    <3>3. CASE Last(x)
      <4>1. store'[s] # "absent"
        BY <1>5, <3>3
      <4>2. QED BY <1>1, <1>2, <1>3, <1>10, <3>3, <4>1, LaunchLast DEF Typed
    <3>4. QED BY <1>2, <3>1, <3>2, <3>3
  <2>6. ASSUME NEW i \in Ids, i # s
        PROVE  Bounded(i)'
    <3>1. launches'[i] = launches[i] /\ store'[i] = store[i]
      BY <1>2, <1>4, <1>5, <2>6
    <3>2. x.tries > 0 => x.pc = th[t].pc /\ x.s = th[t].s /\ x.id = th[t].id
      BY <1>2
    <3>3. QED BY <1>1, <1>2, <1>10, <2>6, <3>1, <3>2, OthersBounded DEF Typed
  <2>7. QED BY <2>3, <2>4, <2>5, <2>6 DEF LaunchInv, Bounded
<1>14. QED BY <1>7, <1>9, <1>10, <1>11, <1>12, <1>13 DEF AccountsInv

\* The launches of the signup flow.
LEMMA LaunchFlowKeeps == ASSUME AccountsInv, NEW t \in Threads, LaunchFlow(t) PROVE AccountsInv'
<1>1. th[t].pc = "launch" /\ Launch(t, th[t].s, "launched") /\ th[t].s = Target(t)
  BY DEF LaunchFlow, At, Target
<1>2. th[t].s \in Ids
  BY AtRest DEF AccountsInv, Typed
<1>3. UNCHANGED <<app, reg, acct, slot, result, inbox, missed, verified, used, flows, loop>>
  BY DEF LaunchFlow
<1>4. QED BY <1>1, <1>2, <1>3, LaunchKeeps

\* The launches of register().
LEMMA LaunchUserKeeps == ASSUME AccountsInv, NEW t \in Threads, LaunchUser(t) PROVE AccountsInv'
<1>1. Typed /\ LaunchInv
  BY DEF AccountsInv, Typed
<1>2. th[t].pc = "spa" /\ th[t].id = Target(t) /\ th[t].id \in Ids /\ th[t] \in Thread
  BY <1>1, AtRest DEF LaunchUser, At, Target
<1>3. UNCHANGED <<app, reg, acct, slot, result, inbox, missed, verified, used, flows, loop>>
  BY DEF LaunchUser
<1>4. CASE app.browser /\ app.entry
  <2>1. Launch(t, th[t].id, "user")
    BY <1>4 DEF LaunchUser
  <2>2. QED BY <1>2, <1>3, <1>4, <2>1, LaunchKeeps
<1>5. CASE ~(app.browser /\ app.entry)
  <2> DEFINE x == [th[t] EXCEPT !.pc = "user"]
  <2>1. Go(t, "user") /\ UNCHANGED <<store, launches, transit, exists>>
    BY <1>5 DEF LaunchUser
  <2>2. th[t].tries = 0
    <3>1. ~(th[t].tries > 0) /\ th[t].tries \in 0 .. Tries - 1 /\ Tries \in Nat
      BY <1>1, <1>2, <1>5, ThreadsFinite DEF LaunchInv, Thread
    <3>2. QED BY <3>1
  <2>3. Still(x, th[t], th[t].s)
    BY <1>2, Goes DEF Onward, Places
  <2>4. th' = [th EXCEPT ![t] = x]
    BY <2>1 DEF Go
  <2>5. DataTyped' /\ flows' \in [Ids -> Nat]
    BY <1>1, <1>3, <2>1 DEF loop, Typed, TypeOK, LoopTyped, DataTyped
  <2>6. Quiet(t)
    BY <1>2, <1>3, <2>1, <2>2, <2>3, <2>4, <2>5 DEF Quiet, loop
  <2>7. QED BY <2>6, QuietKeeps
<1>6. QED BY <1>4, <1>5

-----------------------------------------------------------------------------
(* The battery and the mail server.                                        *)

\* Every probe starts as a thread of its own.
LEMMA FirstTyped ==
    ASSUME NEW kind \in {"never", "inert", "reset", "authed", "pair"}
    PROVE  /\ First(kind) \in Thread /\ First(kind).tries = 0 /\ First(kind).s = "me"
           /\ First(kind).pc # "launched" /\ (kind = "pair" => First(kind).id = "a")
<1>1. Idle \in Thread /\ Idle.tries = 0 /\ Idle.s = "me"
  BY IdleTyped
<1>2. /\ "a" \in Ids /\ "me" \in Ids /\ "flow" \in Places /\ "reg" \in Places /\ "register" \in Places
      /\ "judge" \in Backs /\ "recover" \in Backs
  BY DEF Ids, Places, Backs
<1>3. kind \in {"never", "inert"} => First(kind) = [Idle EXCEPT !.pc = "flow", !.back = "judge"]
  BY DEF First
<1>4. kind = "reset" => First(kind) = [Idle EXCEPT !.pc = "reg", !.back = "recover"]
  BY DEF First
<1>5. kind = "authed" => First(kind) = [Idle EXCEPT !.pc = "register", !.id = "me"]
  BY DEF First
<1>6. kind = "pair" => First(kind) = [Idle EXCEPT !.pc = "register", !.id = "a"]
  BY DEF First
<1>7. CASE kind \in {"never", "inert"}
  BY <1>1, <1>2, <1>3, <1>7 DEF Thread
<1>8. CASE kind = "reset"
  BY <1>1, <1>2, <1>4, <1>8 DEF Thread
<1>9. CASE kind = "authed"
  BY <1>1, <1>2, <1>5, <1>9 DEF Thread
<1>10. CASE kind = "pair"
  BY <1>1, <1>2, <1>6, <1>10 DEF Thread
<1>11. QED BY <1>7, <1>8, <1>9, <1>10

\* The next probe is started.
LEMMA StartKeeps == ASSUME AccountsInv, StartProbe PROVE AccountsInv'
<1> DEFINE p == running + 1
           x == First(Battery[p])
<1>1. Typed /\ LiveInv /\ PeopleInv /\ SecondInv /\ LaunchInv
  BY DEF AccountsInv, Typed
<1>2. running \in Nat /\ p \in Probes /\ p \in Threads /\ p # 0 /\ running \in Threads
  BY <1>1, ThreadsFinite DEF StartProbe, Typed, LoopTyped, Probes, Threads
<1>3. Battery[p] \in {"never", "inert", "reset", "authed", "pair"}
  BY <1>2, AccountsAssumption DEF AccountsAssumption, Probes
<1>4. x \in Thread /\ x.tries = 0 /\ x.s = "me" /\ x.pc # "launched" /\ (Battery[p] = "pair" => x.id = "a")
  BY <1>3, FirstTyped
<1>5. th' = [th EXCEPT ![p] = x] /\ running' = p
  BY DEF StartProbe
<1>6. UNCHANGED <<app, memos, mail, site, tally, verdict, users>>
  BY DEF StartProbe
<1> HIDE DEF x
<1>7. p > running /\ verdict[p] = "none"
  BY <1>1, <1>2 DEF LiveInv
<1>8. p \notin Hung /\ th[p].pc = "idle"
  BY <1>1, <1>2, <1>7 DEF LiveInv, Hung
<1>9. th[p].tries = 0
  BY <1>1, <1>2, <1>8, AtRest
<1>10. th \in [Threads -> Thread] /\ th'[p] = x /\ \A u \in Threads : u # p => th'[u] = th[u]
  BY <1>1, <1>2, <1>5 DEF Typed, LoopTyped
<1>11. LoopTyped'
  <2>1. p \in 0 .. Len(Battery)
    BY <1>2 DEF Threads
  <2>2. QED BY <1>1, <1>2, <1>4, <1>5, <1>6, <2>1 DEF Typed, LoopTyped, tally
<1>12. DataTyped'
  BY <1>1, <1>6 DEF Typed, TypeOK, DataTyped, memos, mail, site
<1>13. TypeOK'
  BY <1>11, <1>12 DEF TypeOK, LoopTyped, Thread
<1>14. Hung' = Hung
  BY <1>6 DEF Hung
<1>15. LiveInv'
  <2>1. ASSUME NEW u \in Threads, th'[u].pc # "idle"
        PROVE  (u = p /\ (u = 0 \/ verdict[u] = "none")) \/ u \in Hung
    <3>1. CASE u = p
      BY <1>7, <3>1
    <3>2. CASE u # p
      <4>1. th[u].pc # "idle"
        BY <1>10, <2>1, <3>2
      <4>2. (u = running /\ (u = 0 \/ verdict[u] = "none")) \/ u \in Hung
        BY <1>1, <4>1 DEF LiveInv
      <4>3. ~(u = running /\ (u = 0 \/ verdict[u] = "none"))
        <5>1. running = 0 => th[0].pc = "idle"
          BY DEF StartProbe, At
        <5>2. running > 0 => verdict[running] # "none"
          BY DEF StartProbe
        <5>3. QED BY <1>2, <4>1, <5>1, <5>2
      <4>4. QED BY <4>2, <4>3
    <3>3. QED BY <3>1, <3>2
  <2>2. \A q \in Probes : q > p => verdict[q] = "none"
    BY <1>1, <1>2, ThreadsFinite DEF LiveInv, Probes
  <2>3. QED BY <1>5, <1>6, <1>14, <2>1, <2>2 DEF LiveInv
<1>16. PeopleInv'
  <2>1. ASSUME NEW u \in Probes, Battery[u] = "pair", th'[u].pc # "idle"
        PROVE  th'[u].id = "a" \/ (th'[u].id = "b" /\ \E q \in Person : th'[u].got = <<q>> /\ Of(q, "a"))
    <3>1. u \in Threads
      BY ThreadsFinite DEF Threads, Probes
    <3>2. CASE u = p
      BY <1>4, <1>10, <2>1, <3>2
    <3>3. CASE u # p
      BY <1>1, <1>10, <2>1, <3>1, <3>3 DEF PeopleInv
    <3>4. QED BY <3>2, <3>3
  <2>2. QED BY <1>1, <1>6, <2>1 DEF PeopleInv, memos
<1>17. SecondInv'
  <2>1. UNCHANGED <<slot, flows>>
    BY <1>6 DEF memos, tally
  <2>2. QED BY <1>1, <1>4, <1>10, <2>1 DEF SecondInv, OnePollForABrokenApp
<1>18. LaunchInv'
  <2>1. UNCHANGED <<app, launches, store>>
    BY <1>6 DEF memos, tally
  <2>2. QED BY <1>1, <1>2, <1>4, <1>5, <1>9, <1>14, <2>1, LaunchKept DEF Typed
<1>19. QED BY <1>11, <1>13, <1>15, <1>16, <1>17, <1>18 DEF AccountsInv

\* A probe is abandoned: its thread is left alone, and allows as many launches again.
LEMMA AbandonKeeps == ASSUME AccountsInv, Abandon PROVE AccountsInv'
<1>1. Typed /\ LiveInv /\ PeopleInv /\ SecondInv /\ LaunchInv
  BY DEF AccountsInv, Typed
<1>2. verdict' = [verdict EXCEPT ![running] = "hung"] /\ verdict[running] = "none" /\ running > 0
  BY DEF Abandon
<1>3. UNCHANGED <<app, memos, mail, site, tally, th, running, users>>
  BY DEF Abandon
<1>4. running \in Probes /\ verdict \in [Probes -> Verdicts]
  BY <1>1, <1>2, ThreadsFinite DEF Typed, LoopTyped, Probes
<1>5. verdict' \in [Probes -> Verdicts]
  BY <1>2, <1>4 DEF Verdicts
<1>6. LoopTyped'
  BY <1>1, <1>3, <1>5 DEF Typed, LoopTyped, tally
<1>7. DataTyped'
  BY <1>1, <1>3 DEF Typed, TypeOK, DataTyped, memos, mail, site
<1>8. TypeOK'
  BY <1>1, <1>3, <1>7 DEF Typed, TypeOK
<1>9. Hung \subseteq Hung' /\ running \in Hung'
  BY <1>2, <1>4 DEF Hung
<1>10. LiveInv'
  <2>1. \A u \in Threads : th[u].pc # "idle" => u = running \/ u \in Hung
    BY <1>1 DEF LiveInv
  <2>2. \A p \in Probes : p > running => verdict'[p] = "none"
    BY <1>1, <1>2, <1>4, ThreadsFinite DEF LiveInv, Probes
  <2>3. QED BY <1>3, <1>9, <2>1, <2>2 DEF LiveInv
<1>11. PeopleInv'
  <2>1. \A p \in Probes : verdict'[p] = "tested" => verdict[p] = "tested"
    BY <1>2, <1>4
  <2>2. QED BY <1>1, <1>3, <2>1 DEF PeopleInv, memos
<1>12. SecondInv'
  BY <1>1, <1>3 DEF SecondInv, OnePollForABrokenApp, memos, tally
<1>13. LaunchInv'
  <2>1. Cardinality(Hung) \in Nat /\ Cardinality(Hung') \in Nat /\ Cardinality(Hung) <= Cardinality(Hung')
    <3>1. Hung \in SUBSET Hung'
      BY <1>9
    <3>2. IsFiniteSet(Hung')
      BY CountsAreNatNext
    <3>3. Cardinality(Hung) <= Cardinality(Hung')
      BY <3>1, <3>2, FS_Subset
    <3>4. QED BY <3>3, CountsAreNat, CountsAreNatNext
  <2>2. /\ Tries * (1 + Cardinality(Hung)) <= Tries * (1 + Cardinality(Hung'))
        /\ Tries * (1 + Cardinality(Hung)) \in Nat /\ Tries * (1 + Cardinality(Hung')) \in Nat
    BY <2>1, TriesTimes
  <2>3. UNCHANGED <<app, th, launches, store>>
    BY <1>3 DEF memos, tally
  <2>4. \A s \in Ids : Mid(s)' = Mid(s) /\ Left(s)' = Left(s)
    BY <2>3 DEF Mid, Left, Target
  <2>5. ASSUME NEW s \in Ids
        PROVE  Bounded(s)'
    <3>1. launches[s] + Cardinality(Left(s)) \in Nat
      BY <1>1, CountsAreNat DEF Typed, LoopTyped
    <3>2. launches[s] + Cardinality(Left(s)) <= Tries * (1 + Cardinality(Hung))
      BY <1>1 DEF LaunchInv
    <3>3. launches[s] + Cardinality(Left(s)) <= Tries * (1 + Cardinality(Hung'))
      BY <2>2, <3>1, <3>2
    <3>4. store[s] = "absent" => launches[s] + Cardinality(Left(s)) <= Tries * Cardinality(Mid(s))
      BY <1>1 DEF LaunchInv
    <3>5. QED BY <2>3, <2>4, <3>3, <3>4 DEF Bounded
  <2>6. QED BY <1>1, <2>3, <2>5 DEF LaunchInv, Bounded
<1>14. QED BY <1>6, <1>8, <1>10, <1>11, <1>12, <1>13 DEF AccountsInv

\* What leaves the threads and the memos alone keeps everything.
LEMMA StillKeeps ==
    ASSUME AccountsInv, DataTyped', UNCHANGED <<app, memos, tally, th, loop>>
    PROVE  AccountsInv'
<1>1. TypeOK' /\ LoopTyped'
  BY DEF AccountsInv, TypeOK, LoopTyped, tally, loop
<1>2. Hung' = Hung /\ \A s \in Ids : Mid(s)' = Mid(s) /\ Left(s)' = Left(s)
  BY DEF Hung, Mid, Left, Target, loop
<1>3. LiveInv'
  BY <1>2 DEF AccountsInv, LiveInv, loop
<1>4. PeopleInv'
  BY DEF AccountsInv, PeopleInv, memos, loop
<1>5. SecondInv'
  BY DEF AccountsInv, SecondInv, OnePollForABrokenApp, memos, tally
<1>6. LaunchInv'
  BY <1>2 DEF AccountsInv, LaunchInv, memos, tally
<1>7. QED BY <1>1, <1>3, <1>4, <1>5, <1>6 DEF AccountsInv

\* A mail arrives.
LEMMA DeliverKeeps ==
    ASSUME AccountsInv, NEW s \in Ids, NEW m \in {"confirm", "reset"}, Deliver(s, m)
    PROVE  AccountsInv'
<1>1. DataTyped
  BY DEF AccountsInv, TypeOK
<1>2. inbox' = [inbox EXCEPT ![s] = m] /\ transit' = [transit EXCEPT ![s] = transit[s] \ {m}]
  BY DEF Deliver
<1>3. UNCHANGED <<app, memos, missed, site, tally, th, loop>>
  BY DEF Deliver
<1>4. inbox' \in [Ids -> {"none", "confirm", "reset"}] /\ transit' \in [Ids -> SUBSET {"confirm", "reset"}]
  BY <1>1, <1>2 DEF DataTyped
<1>5. DataTyped'
  BY <1>1, <1>3, <1>4 DEF DataTyped, memos, site
<1>6. QED BY <1>3, <1>5, StillKeeps

\* The main thread has primed the email.
LEMMA PrimeKeeps == ASSUME AccountsInv, PrimeEnds PROVE AccountsInv'
<1>1. Typed /\ LaunchInv
  BY DEF AccountsInv, Typed
<1>2. 0 \in Threads
  BY ThreadsFinite DEF Threads
<1>3. th[0].pc = "end" /\ th' = [th EXCEPT ![0] = Idle] /\ UNCHANGED <<app, memos, mail, site, tally, loop>>
  BY DEF PrimeEnds, At
<1>4. Idle \in Thread /\ Idle.pc = "idle" /\ Idle.tries = 0 /\ Idle.s = "me"
  BY IdleTyped
<1>5. th[0].tries = 0
  BY <1>1, <1>2, <1>3, AtRest
<1>6. th \in [Threads -> Thread] /\ th'[0] = Idle /\ \A u \in Threads : u # 0 => th'[u] = th[u]
  BY <1>1, <1>2, <1>3 DEF Typed, LoopTyped
<1>7. LoopTyped'
  BY <1>1, <1>2, <1>3, <1>4 DEF Typed, LoopTyped, tally, loop
<1>8. DataTyped'
  BY <1>1, <1>3 DEF Typed, TypeOK, DataTyped, memos, mail, site
<1>9. TypeOK'
  BY <1>7, <1>8 DEF TypeOK, LoopTyped, Thread
<1>10. LiveInv' /\ Hung' = Hung
  BY <1>1, <1>2, <1>3, <1>4, LiveKept DEF AccountsInv, Typed, loop
<1>11. PeopleInv'
  <2>1. PeopleInv
    BY DEF AccountsInv
  <2>2. \A u \in Probes : u \in Threads /\ u # 0
    BY ThreadsFinite DEF Threads, Probes
  <2>3. QED BY <1>3, <1>6, <2>1, <2>2 DEF PeopleInv, memos, loop
<1>12. SecondInv'
  <2>1. SecondInv
    BY DEF AccountsInv
  <2>2. QED BY <1>1, <1>2, <1>3, <1>4, <2>1, SecondKept DEF memos, tally
<1>13. LaunchInv'
  BY <1>1, <1>2, <1>3, <1>4, <1>5, <1>10, LaunchKept DEF Typed, memos, tally
<1>14. QED BY <1>7, <1>9, <1>10, <1>11, <1>12, <1>13 DEF AccountsInv

-----------------------------------------------------------------------------
(* The invariant.                                                          *)

\* One step of a thread.
LEMMA StepKeeps == ASSUME AccountsInv, NEW t \in Threads, Step(t) PROVE AccountsInv'
<1>1. Typed /\ SecondInv /\ LaunchInv
  BY DEF AccountsInv, Typed
<1>2. CASE \/ CheckReg(t) \/ Signup(t) \/ BrowserLane(t) \/ Gateway(t)
           \/ Flow(t) \/ Observe(t) \/ Resend(t) \/ SecondLeg(t) \/ Follow(t) \/ Capture(t) \/ Store(t)
           \/ AwaitReset(t) \/ Gate(t)
  <2>1. Quiet(t)
    BY <1>1, <1>2, QuietCheckReg, QuietSignup, QuietBrowserLane, QuietGateway, QuietFlow, QuietObserve, QuietResend,
       QuietSecondLeg, QuietFollow, QuietCapture, QuietStore, QuietAwaitReset, QuietGate
  <2>2. QED BY <2>1, QuietKeeps
<1>3. CASE LaunchFlow(t) \/ LaunchUser(t)
  BY <1>3, LaunchFlowKeeps, LaunchUserKeeps
<1>4. CASE Register(t) \/ Session(t) \/ User(t)
  BY <1>4, RegisterKeeps, SessionKeeps, UserKeeps
<1>5. CASE Judge(t) \/ Recover(t) \/ OpenReset(t) \/ ResetLockout(t)
  BY <1>5, JudgeKeeps, RecoverKeeps, OpenResetKeeps, ResetLockoutKeeps
<1>6. QED BY <1>2, <1>3, <1>4, <1>5 DEF Step

\* Nothing was done yet.
LEMMA AccountsInit == Init => AccountsInv
<1> SUFFICES ASSUME Init PROVE AccountsInv
  OBVIOUS
<1>1. /\ "me" \in Ids /\ "a" \in Ids /\ "b" \in Ids /\ 0 \in 0 .. Tries - 1 /\ 0 \in 0 .. Len(Battery)
      /\ NoUser \in Person /\ <<>> \in Seq(Person) /\ "none" \in Verdicts
  BY ThreadsFinite DEF Ids, NoUser, Person, Verdicts
<1>2. Idle \in Thread /\ Idle.pc = "idle" /\ Idle.tries = 0 /\ Idle.s = "me"
  BY IdleTyped
<1> DEFINE prime == [Idle EXCEPT !.pc = "reg", !.back = "end"]
<1>3. prime \in Thread /\ prime.tries = 0 /\ prime.s = "me" /\ prime.pc = "reg"
  BY <1>2 DEF Thread, Places, Backs
<1>4. \A t \in Threads : th[t] = Idle \/ (t = 0 /\ th[t] = prime)
  BY DEF Init
<1> HIDE DEF prime
<1>5. th \in [Threads -> Thread]
  <2>1. th = [t \in Threads |-> th[t]]
    BY DEF Init
  <2>2. QED BY <1>2, <1>3, <1>4, <2>1
<1>6. slot \in [Ids -> Person] /\ \A s \in Ids : Of(slot[s], s)
  <2>1. CASE slot = [s \in Ids |-> NoUser]
    BY <1>1, <2>1 DEF Of
  <2>2. CASE slot = [s \in Ids |-> IF s = "me" THEN <<"crawl", s>> ELSE NoUser]
    <3>1. <<"crawl", "me">> \in Person
      BY <1>1 DEF Person
    <3>2. \A s \in Ids : slot[s] = IF s = "me" THEN <<"crawl", "me">> ELSE NoUser
      BY <2>2
    <3>3. QED BY <1>1, <2>2, <3>1, <3>2 DEF Of
  <2>3. QED BY <2>1, <2>2 DEF Init
<1>7. DataTyped
  <2>1. NoReg \in Registration /\ Nothing \in Observation
    BY RegistrationTyped, NothingTyped
  <2>2. reg \in [Ids -> Registration] /\ result \in [Ids -> Observation]
    BY <2>1 DEF Init
  <2>3. acct \in [Ids -> {"none", "open", "closed"}] /\ store \in [Ids -> {"absent", "null", "pending", "session"}]
    BY DEF Init
  <2>4. /\ inbox \in [Ids -> {"none", "confirm", "reset"}] /\ transit \in [Ids -> SUBSET {"confirm", "reset"}]
        /\ missed \in [Ids -> SUBSET {"confirm", "reset"}]
    BY DEF Init
  <2>5. exists \in [Ids -> BOOLEAN] /\ verified \in [Ids -> BOOLEAN] /\ used \in [Ids -> BOOLEAN]
    BY DEF Init
  <2>6. QED BY <1>6, <2>2, <2>3, <2>4, <2>5 DEF DataTyped
<1>8. LoopTyped
  <2>1. running \in 0 .. Len(Battery) /\ verdict \in [Probes -> Verdicts] /\ users \in [Probes -> Seq(Person)]
    BY <1>1 DEF Init
  <2>2. launches \in [Ids -> Nat] /\ flows \in [Ids -> Nat] /\ app \in Apps
    BY DEF Init
  <2>3. QED BY <1>5, <2>1, <2>2 DEF LoopTyped
<1>9. TypeOK
  BY <1>7, <1>8 DEF TypeOK, LoopTyped, Thread
<1>10. \A t \in Threads : th[t].tries = 0 /\ th[t].s = "me" /\ th[t].pc \in {"idle", "reg"} /\ (th[t].pc # "idle" => t = 0)
  BY <1>2, <1>3, <1>4
<1>11. LiveInv
  BY <1>10 DEF LiveInv, Init
<1>12. PeopleInv
  <2>1. \A p \in Probes : p \in Threads /\ p # 0 /\ verdict[p] = "none"
    BY ThreadsFinite DEF Threads, Probes, Init
  <2>2. QED BY <1>6, <1>10, <2>1 DEF PeopleInv
<1>13. SecondInv
  <2>1. \A s \in Ids : flows[s] = 0
    BY DEF Init
  <2>2. QED BY <1>1, <1>10, <2>1 DEF SecondInv, OnePollForABrokenApp
<1>14. LaunchInv
  <2>1. ASSUME NEW s \in Ids
        PROVE  Bounded(s)
    <3>1. Mid(s) = {}
      BY <1>10 DEF Mid
    <3>2. Left(s) = {}
      BY <3>1 DEF Left
    <3>3. Cardinality(Left(s)) = 0 /\ Cardinality(Mid(s)) \in Nat /\ Cardinality(Hung) \in Nat
      BY <3>2, CountsAreNat, FS_EmptySet
    <3>4. Tries * Cardinality(Mid(s)) \in Nat /\ Tries * (1 + Cardinality(Hung)) \in Nat
      BY <3>3, TriesTimes
    <3>5. launches[s] = 0
      BY DEF Init
    <3>6. QED BY <3>3, <3>4, <3>5 DEF Bounded
  <2>2. QED BY <1>10, <2>1 DEF LaunchInv, Bounded
<1>15. QED BY <1>8, <1>9, <1>11, <1>12, <1>13, <1>14 DEF AccountsInv

\* Every step keeps the invariant.
LEMMA AccountsNext == AccountsInv /\ [Next]_vars => AccountsInv'
<1> SUFFICES ASSUME AccountsInv, [Next]_vars PROVE AccountsInv'
  OBVIOUS
<1>1. CASE StartProbe \/ Abandon \/ PrimeEnds
  BY <1>1, StartKeeps, AbandonKeeps, PrimeKeeps
<1>2. CASE \E t \in Threads : Step(t)
  BY <1>2, StepKeeps
<1>3. CASE \E s \in Ids, m \in {"confirm", "reset"} : Deliver(s, m)
  BY <1>3, DeliverKeeps
<1>4. CASE UNCHANGED vars
  <2>1. DataTyped'
    BY <1>4 DEF AccountsInv, TypeOK, DataTyped, vars, memos, mail, site
  <2>2. QED BY <1>4, <2>1, StillKeeps DEF vars
<1>5. QED BY <1>1, <1>2, <1>3, <1>4 DEF Next

\* The invariant says of every state what the identities promise.
LEMMA AccountsHold == AccountsInv => IdentitiesHold
<1> SUFFICES ASSUME AccountsInv PROVE IdentitiesHold
  OBVIOUS
<1>1. PairIsTwo
  <2>1. ASSUME NEW p \in Probes, verdict[p] = "tested", Battery[p] = "pair"
        PROVE  users[p][1] # users[p][2] /\ slot["me"] \notin {users[p][1], users[p][2]}
    <3>1. Apart(users[p])
      BY <2>1 DEF AccountsInv, PeopleInv
    <3>2. Of(slot["me"], "me")
      BY DEF AccountsInv, PeopleInv, Ids
    <3>3. QED BY <3>1, <3>2 DEF Apart, Of
  <2>2. QED BY <2>1 DEF PairIsTwo
<1>2. OnePollForABrokenApp
  BY DEF AccountsInv, SecondInv
<1>3. LaunchesBounded
  <2>1. ASSUME NEW s \in Ids
        PROVE  launches[s] <= Tries * (1 + Cardinality(Hung))
    <3>1. launches[s] + Cardinality(Left(s)) <= Tries * (1 + Cardinality(Hung))
      BY DEF AccountsInv, LaunchInv
    <3>2. launches[s] \in Nat /\ Cardinality(Left(s)) \in Nat /\ Cardinality(Hung) \in Nat
      BY CountsAreNat DEF AccountsInv, LoopTyped
    <3>3. Tries * (1 + Cardinality(Hung)) \in Nat
      BY <3>2, TriesTimes
    <3>4. QED BY <3>1, <3>2, <3>3
  <2>2. QED BY <2>1 DEF LaunchesBounded
<1>4. QED BY <1>1, <1>2, <1>3 DEF IdentitiesHold, AccountsInv

\* However many probes are in the battery, whichever of them are abandoned, and
\* whatever the app under test answers: the two users of a cross-user probe are two
\* and not the one every other probe acts as, nobody polls for the pair of an app
\* whose confirmation leads nowhere, and an identity costs Tries browser launches,
\* and as many again for each abandoned thread (_two_accounts, _email_account and
\* _browser_register_once).
THEOREM AccountsIdentities == Spec => []IdentitiesHold
<1>1. Init => AccountsInv
  BY AccountsInit
<1>2. AccountsInv /\ [Next]_vars => AccountsInv'
  BY AccountsNext
<1>3. AccountsInv => IdentitiesHold
  BY AccountsHold
<1>4. QED BY <1>1, <1>2, <1>3, PTL DEF Spec

-----------------------------------------------------------------------------
(* The verdicts of the mail flow.                                          *)

\* Nothing that an app has, or that happened to a mail, is undone.
Grows ==
    /\ app' = app
    /\ \A s \in Ids : /\ exists[s] => exists'[s]
                      /\ used[s] => used'[s]
                      /\ missed[s] \subseteq missed'[s]
                      /\ inbox[s] # "none" => inbox'[s] # "none"
                      /\ transit[s] \subseteq transit'[s] \/ inbox'[s] # "none"

\* What excuses a verdict stays.
LEMMA Excuses ==
    ASSUME Grows
    PROVE  /\ Promises' = Promises /\ FormReply' = FormReply /\ MagicReply' = MagicReply
           /\ \A s \in Ids : Excused(s) => Excused(s)'
           /\ \A s \in Ids : \A m : Mailed(s, m) => Mailed(s, m)'
           /\ ResetSent => ResetSent'
           /\ ResetMissed => ResetMissed'
<1>1. app' = app /\ Promises' = Promises /\ FormReply' = FormReply /\ MagicReply' = MagicReply
  BY DEF Grows, Promises, FormReply, MagicReply
<1>2. \A s \in Ids : Excused(s) => Excused(s)'
  BY <1>1 DEF Grows, Excused
<1>3. \A s \in Ids : \A m : Mailed(s, m) => Mailed(s, m)'
  BY DEF Grows, Mailed
<1>4. "me" \in Ids
  BY DEF Ids
<1>5. (ResetSent => ResetSent') /\ (ResetMissed => ResetMissed')
  BY <1>1, <1>3, <1>4 DEF ResetSent, ResetMissed, Grows
<1>6. QED BY <1>1, <1>2, <1>3, <1>5

\* What is memoised of an identity stays true of it.
LEMMA MemoKept ==
    ASSUME Grows, NEW s \in Ids, Memo(s), reg'[s] = reg[s], acct'[s] = acct[s], store'[s] = store[s],
           slot'[s] = slot[s], result'[s] = result[s]
    PROVE  Memo(s)'
<1>1. /\ Promises' = Promises /\ (Excused(s) => Excused(s)') /\ (Mailed(s, "confirm") => Mailed(s, "confirm")')
      /\ app' = app /\ (exists[s] => exists'[s])
  BY Excuses DEF Grows
<1>2. QED BY <1>1 DEF Memo, Accuses

\* So does what a thread has observed.
LEMMA MailKept ==
    ASSUME Grows, NEW x, x.s \in Ids, Mail(x)
    PROVE  Mail(x)'
<1>1. Promises' = Promises /\ (ResetSent => ResetSent') /\ (ResetMissed => ResetMissed') /\ app' = app
  BY Excuses DEF Grows
<1>2. /\ exists[x.s] => exists'[x.s]
      /\ missed[x.s] \subseteq missed'[x.s]
      /\ inbox[x.s] # "none" => inbox'[x.s] # "none"
      /\ inbox["me"] # "none" => inbox'["me"] # "none"
  BY DEF Grows, Ids
<1>3. QED BY <1>1, <1>2 DEF Mail, Accuses, Excused

\* No verdict comes, and the app and what it has stay.
Waits == /\ app' = app /\ verdict' = verdict
         /\ \A s \in Ids : (exists[s] => exists'[s]) /\ missed[s] \subseteq missed'[s] /\ (used[s] => used'[s])

\* Verdicts that are out stay right while no other comes.
LEMMA VerdictsStand ==
    ASSUME Waits, VerdictsAreReal
    PROVE  VerdictsAreReal'
<1>1. Promises' = Promises /\ app' = app /\ Hung' = Hung /\ \A v : Said(v)' <=> Said(v)
  BY DEF Waits, Promises, FormReply, MagicReply, Said, Hung
<1>2. (exists["me"] => exists'["me"]) /\ missed["me"] \subseteq missed'["me"] /\ (used["me"] => used'["me"])
  BY DEF Waits, Ids
<1>3. LockoutIsReal'
  BY <1>1, <1>2 DEF VerdictsAreReal, LockoutIsReal
<1>4. InertIsReal'
  BY <1>1 DEF VerdictsAreReal, InertIsReal
<1>5. ResetLockoutIsReal'
  BY <1>1, <1>2 DEF VerdictsAreReal, ResetLockoutIsReal
<1>6. DeadLinkIsReal'
  BY <1>1, <1>2 DEF VerdictsAreReal, DeadLinkIsReal
<1>7. QED BY <1>3, <1>4, <1>5, <1>6 DEF VerdictsAreReal

\* They stay right, too, while nothing is undone.
LEMMA VerdictsKept ==
    ASSUME Grows, VerdictsAreReal, verdict' = verdict
    PROVE  VerdictsAreReal'
  BY VerdictsStand DEF Grows, Waits

\* What is memoised of i is left alone.
Leaves(i) == /\ reg'[i] = reg[i] /\ acct'[i] = acct[i] /\ store'[i] = store[i]
             /\ slot'[i] = slot[i] /\ result'[i] = result[i]

\* A step of thread t that is right about what it memoises and observes is right about all.
LEMMA MailMoves ==
    ASSUME Typed, MemoInv, MailInv, Grows, NEW t \in Threads, NEW x \in Thread, th' = [th EXCEPT ![t] = x],
           Mail(x)', Kind(x, t), \A i \in Ids : Leaves(i) \/ Memo(i)'
    PROVE  MemoInv' /\ MailInv'
<1>1. th' = [th EXCEPT ![t] = x] /\ th \in [Threads -> Thread]
  BY DEF Typed, LoopTyped
<1>2. th'[t] = x /\ \A u \in Threads : u # t => th'[u] = th[u]
  BY <1>1
<1>3. MemoInv'
  <2> SUFFICES ASSUME NEW i \in Ids PROVE Memo(i)'
    BY DEF MemoInv
  <2>1. Memo(i)
    BY DEF MemoInv
  <2>2. QED BY <2>1, MemoKept DEF Leaves
<1>4. ASSUME NEW u \in Threads
      PROVE  Mail(th[u])' /\ Kind(th[u], u)'
  <2>1. CASE u = t
    <3>1. th'[u] = x /\ Kind(x, u)
      BY <1>2, <2>1
    <3>2. Kind(th[u], u)'
      BY <3>1 DEF Kind
    <3>3. Mail(th[u])'
      BY <3>1 DEF Mail, Excused
    <3>4. QED BY <3>2, <3>3
  <2>2. CASE u # t
    <3>1. PICK y \in Thread : y = th[u]
      BY <1>1
    <3>2. y.s \in Ids /\ Mail(y) /\ Kind(y, u)
      BY <3>1 DEF Thread, MailInv
    <3>3. Mail(y)' /\ th'[u] = y
      BY <1>2, <2>2, <3>1, <3>2, MailKept
    <3>4. Kind(th[u], u)'
      BY <3>2, <3>3 DEF Kind
    <3>5. Mail(th[u])'
      BY <3>3 DEF Mail, Excused
    <3>6. QED BY <3>4, <3>5
  <2>3. QED BY <2>1, <2>2
<1>5. QED BY <1>3, <1>4 DEF MailInv

\* Thread t, in state x, is in no other flow than before, or in one whose link nobody has
\* opened, and leaves it for the memo.
Flows(x, t) ==
    /\ Flowing(x) => (Flowing(th[t]) /\ x.s = th[t].s) \/ (Hung = {} => ~used[x.s])
    /\ th[t].pc \in {"capture", "store"} => x.pc \in {"capture", "store"} /\ x.s = th[t].s

\* No link is opened in such a step, and no flow is memoised.
LEMMA OnceMoves ==
    ASSUME Typed, OnceInv, NEW t \in Threads, NEW x \in Thread, th' = [th EXCEPT ![t] = x],
           Flows(x, t), Hung' = Hung, UNCHANGED <<used, result>>
    PROVE  OnceInv'
<1> SUFFICES ASSUME Hung = {}
             PROVE  /\ \A u \in Threads : Flowing(th[u])' => ~used'[th'[u].s]
                    /\ \A s \in Ids : used'[s] => Followed(s)'
  BY DEF OnceInv
<1>1. th'[t] = x /\ \A u \in Threads : u # t => th'[u] = th[u]
  BY DEF Typed, LoopTyped
<1>2. ASSUME NEW u \in Threads, Flowing(th[u])'
      PROVE  ~used'[th'[u].s]
  <2>1. CASE u = t
    <3>1. \/ Flowing(th[t]) /\ th'[t].s = th[t].s
          \/ ~used[th'[t].s]
      BY <1>1, <1>2, <2>1 DEF Flows, Flowing
    <3>2. QED BY <2>1, <3>1 DEF OnceInv
  <2>2. CASE u # t
    <3>1. Flowing(th[u]) /\ th'[u] = th[u]
      BY <1>1, <1>2, <2>2 DEF Flowing
    <3>2. QED BY <3>1 DEF OnceInv
  <2>3. QED BY <2>1, <2>2
<1>3. ASSUME NEW s \in Ids, used'[s]
      PROVE  Followed(s)'
  <2>1. Followed(s)
    BY <1>3 DEF OnceInv
  <2>2. CASE result[s].done
    BY <2>2 DEF Followed
  <2>3. CASE \E u \in Threads : th[u].pc \in {"capture", "store"} /\ th[u].s = s
    <3>1. PICK u \in Threads : th[u].pc \in {"capture", "store"} /\ th[u].s = s
      BY <2>3
    <3>2. th'[u].pc \in {"capture", "store"} /\ th'[u].s = s
      BY <1>1, <3>1 DEF Flows
    <3>3. QED BY <3>2 DEF Followed
  <2>4. QED BY <2>1, <2>2, <2>3 DEF Followed
<1>4. QED BY <1>2, <1>3

\* Nor is an observation made that the app is not guilty of.
LEMMA HonestMoves ==
    ASSUME Typed, HonestInv, app' = app, NEW t \in Threads, NEW x \in Thread, th' = [th EXCEPT ![t] = x],
           Hung' = Hung, running' = running,
           Works /\ NoReset => Honest(x.out) /\ \A s \in Ids : Honest(result'[s])
    PROVE  HonestInv'
<1>1. th'[t] = x /\ \A u \in Threads : u # t => th'[u] = th[u]
  BY DEF Typed, LoopTyped
<1>2. NoReset' = NoReset
  BY DEF NoReset
<1> SUFFICES ASSUME Works, NoReset
             PROVE  /\ \A s \in Ids : Honest(result[s])'
                    /\ \A u \in Threads : Honest(th[u].out)'
  BY <1>2 DEF HonestInv, Works
<1>3. \A s \in Ids : Honest(result[s])'
  BY DEF Honest
<1>4. \A u \in Threads : Honest(th[u].out)'
  BY <1>1 DEF Honest, HonestInv
<1>5. QED BY <1>3, <1>4

-----------------------------------------------------------------------------
(* The steps of the mail flow.                                             *)

\* A step that is right about what it memoises, opens no link, stores no
\* observation and leaves the battery where it is.
Steady ==
    /\ Grows
    /\ UNCHANGED <<used, result, running>> /\ Hung' = Hung
    /\ \A i \in Ids : Leaves(i) \/ Memo(i)'
    /\ NoReset => \A i \in Ids : inbox'[i] # "reset" /\ "reset" \notin transit'[i]

\* Such a step keeps what the verdicts rest on, when its thread observes rightly.
LEMMA SteadyMoves ==
    ASSUME Typed, VerdictInv, Steady, NEW t \in Threads, NEW x \in Thread, th' = [th EXCEPT ![t] = x],
           Mail(x)', Kind(x, t), Flows(x, t), Works /\ NoReset => Honest(x.out)
    PROVE  VerdictInv'
<1>1. MemoInv /\ MailInv /\ ResetInv /\ OnceInv /\ HonestInv
  BY DEF VerdictInv
<1>2. /\ Grows /\ Hung' = Hung /\ UNCHANGED <<used, result, running>> /\ app' = app
      /\ \A i \in Ids : Leaves(i) \/ Memo(i)'
  BY DEF Steady, Grows
<1>3. MemoInv' /\ MailInv'
  BY <1>1, <1>2, MailMoves
<1>4. OnceInv'
  BY <1>1, <1>2, OnceMoves
<1>5. NoReset' = NoReset
  BY <1>2 DEF NoReset
<1>6. ResetInv'
  BY <1>5 DEF ResetInv, Steady
<1>7. Works /\ NoReset => \A s \in Ids : Honest(result'[s])
  BY <1>1, <1>2 DEF HonestInv
<1>8. HonestInv'
  BY <1>1, <1>2, <1>7, HonestMoves
<1>9. QED BY <1>3, <1>4, <1>6, <1>8 DEF VerdictInv

\* Where a thread has observed nothing.
Calm == Places \ {"resend", "second", "follow", "capture", "store", "wait", "open", "no reset mail"}

\* Nothing is observed there that would have to be excused.
LEMMA CalmMail ==
    ASSUME NEW x, x.out = Nothing, x.pc \in Calm
    PROVE  Mail(x)' /\ Honest(x.out)
<1>1. ~x.out.gated /\ ~x.out.atSignup /\ ~x.out.session /\ ~x.out.acted
  BY DEF Nothing
<1>2. Mail(x)'
  BY <1>1 DEF Mail, Calm, Accuses
<1>3. QED BY <1>1, <1>2 DEF Honest

\* A step that changes no more than the threads is steady.
LEMMA SteadyMove ==
    ASSUME VerdictInv, UNCHANGED <<app, memos, mail, site, running>>, Hung' = Hung
    PROVE  Steady
<1>1. Grows
  BY DEF Grows, mail, site
<1>2. \A i \in Ids : Leaves(i)
  BY DEF Leaves, memos
<1>3. NoReset => \A i \in Ids : inbox'[i] # "reset" /\ "reset" \notin transit'[i]
  BY DEF VerdictInv, ResetInv, mail
<1>4. QED BY <1>1, <1>2, <1>3 DEF Steady, memos, site

\* So is a poll.
LEMMA SteadyPoll ==
    ASSUME Typed, VerdictInv, NEW t \in Threads, NEW s \in Ids, NEW found, NEW empty, NEW yes, NEW no,
           Poll(t, s, found, empty, yes, no)
    PROVE  Steady
<1>1. UNCHANGED <<app, memos, inbox, transit, site, loop>>
  BY DEF Poll
<1>2. Hung' = Hung
  BY <1>1 DEF Hung, loop
<1>3. \A i \in Ids : missed[i] \subseteq missed'[i]
  BY DEF Poll, Typed, TypeOK, DataTyped
<1>4. Grows
  BY <1>1, <1>3 DEF Grows, site
<1>5. \A i \in Ids : Leaves(i)
  BY <1>1 DEF Leaves, memos
<1>6. NoReset => \A i \in Ids : inbox'[i] # "reset" /\ "reset" \notin transit'[i]
  BY <1>1 DEF VerdictInv, ResetInv
<1>7. QED BY <1>1, <1>2, <1>4, <1>5, <1>6 DEF Steady, memos, site, loop

\* What is known of a thread.
LEMMA Known ==
    ASSUME Typed, LaunchInv, VerdictInv, NEW t \in Threads
    PROVE  /\ th[t] \in Thread /\ th[t].s \in Ids /\ th[t].back \in Backs /\ th[t].ret \in Backs /\ th[t].pc \in Places
           /\ Mail(th[t]) /\ Kind(th[t], t)
           /\ Memo(th[t].s)
           /\ th[t].pc \in Calm => th[t].out = Nothing
<1>1. Mail(th[t]) /\ Kind(th[t], t)
  BY DEF VerdictInv, MailInv
<1>2. th[t] \in Thread /\ th[t].s \in Ids /\ th[t].back \in Backs /\ th[t].ret \in Backs /\ th[t].pc \in Places
  BY AtRest
<1>3. Memo(th[t].s)
  BY <1>2 DEF VerdictInv, MemoInv
<1>4. th[t].pc \in Calm => th[t].out = Nothing
  BY <1>1 DEF Mail, Calm
<1>5. QED BY <1>1, <1>2, <1>3, <1>4

\* A thread that goes from one calm place to another.
LEMMA CalmMoves ==
    ASSUME Typed, LaunchInv, VerdictInv, Steady, NEW t \in Threads, NEW x \in Thread, th' = [th EXCEPT ![t] = x],
           th[t].pc \in Calm, x.pc \in Calm, x.out = Nothing, Kind(x, t),
           Flowing(x) => (Flowing(th[t]) /\ x.s = th[t].s) \/ (Hung = {} => ~used[x.s])
    PROVE  VerdictInv'
<1>1. Mail(x)' /\ Honest(x.out)
  BY CalmMail
<1>2. Flows(x, t)
  BY DEF Flows, Calm
<1>3. QED BY <1>1, <1>2, SteadyMoves

\* A place to go back to is calm.
LEMMA BacksCalm == Backs \subseteq Calm
  BY DEF Backs, Calm, Places

\* A thread that goes on, with what it serves and where it goes back to.
LEMMA GoesOn ==
    ASSUME NEW m \in Thread, NEW q \in Places, NEW x, x = [m EXCEPT !.pc = q]
    PROVE  /\ x \in Thread /\ x.pc = q /\ x.s = m.s /\ x.back = m.back /\ x.ret = m.ret /\ x.out = m.out
           /\ x.id = m.id /\ x.got = m.got /\ x.tries = m.tries
  BY DEF Thread

\* _email_register_once: the memo, or a signup.
LEMMA SoundCheckReg == ASSUME Typed, LaunchInv, VerdictInv, NEW t \in Threads, CheckReg(t) PROVE VerdictInv'
<1> DEFINE q == IF reg[th[t].s] = NoReg THEN "signup" ELSE th[t].back
           x == [th[t] EXCEPT !.pc = q]
<1>1. th[t] \in Thread /\ th[t].pc = "reg" /\ th[t].back \in Backs /\ th[t].out = Nothing /\ Kind(th[t], t)
  BY Known DEF CheckReg, At, Calm, Places
<1>2. q \in Calm /\ q \in Places /\ q \in {"signup", th[t].back}
  BY <1>1, BacksCalm DEF Places, Calm
<1> HIDE DEF q
<1>3. /\ x \in Thread /\ x.pc = q /\ x.s = th[t].s /\ x.back = th[t].back /\ x.ret = th[t].ret /\ x.out = th[t].out
  BY <1>1, <1>2, GoesOn
<1>4. th' = [th EXCEPT ![t] = x] /\ UNCHANGED <<app, memos, mail, site, tally, loop>>
  BY DEF CheckReg, Go, q
<1> HIDE DEF x
<1>5. Steady
  BY <1>4, SteadyMove DEF loop, Hung
<1>6. Kind(x, t)
  BY <1>1, <1>2, <1>3 DEF Kind, Backs
<1>7. Flowing(x) => Flowing(th[t])
  BY <1>1, <1>2, <1>3 DEF Flowing, Backs
<1>8. th[t].pc \in Calm
  BY <1>1 DEF Calm, Places
<1>9. QED BY <1>1, <1>2, <1>3, <1>4, <1>5, <1>6, <1>7, <1>8, CalmMoves

\* With no thread abandoned, only one works.
LEMMA OneWorks ==
    ASSUME LiveInv, Hung = {}, NEW t \in Threads, th[t].pc # "idle", NEW u \in Threads, th[u].pc # "idle"
    PROVE  u = t /\ t = running
  BY DEF LiveInv

\* _email_verify_result: the memo, or the flow.
LEMMA SoundFlow == ASSUME Typed, LaunchInv, LiveInv, VerdictInv, NEW t \in Threads, Flow(t) PROVE VerdictInv'
<1> DEFINE s == th[t].s
<1>1. /\ th[t] \in Thread /\ th[t].pc = "flow" /\ th[t].back \in Backs /\ th[t].out = Nothing /\ Kind(th[t], t)
      /\ th[t].back # "poll" /\ s \in Ids /\ th[t].pc \in Calm
  BY Known DEF Flow, At, Calm, Places, Kind
<1>2. UNCHANGED <<app, memos, mail, site, tally, loop>>
  BY DEF Flow
<1>3. Steady
  BY <1>2, SteadyMove DEF loop, Hung
<1>4. CASE result[s].done
  <2> DEFINE x == [th[t] EXCEPT !.pc = th[t].back]
  <2>1. th[t].back \in Places /\ th[t].back \in Calm
    BY <1>1, BacksCalm DEF Calm
  <2>2. /\ x \in Thread /\ x.pc = th[t].back /\ x.s = th[t].s /\ x.back = th[t].back /\ x.ret = th[t].ret /\ x.out = th[t].out
    BY <1>1, <2>1, GoesOn
  <2>3. th' = [th EXCEPT ![t] = x]
    BY <1>4 DEF Flow, Go
  <2> HIDE DEF x
  <2>4. Kind(x, t)
    BY <1>1, <2>2 DEF Kind, Backs
  <2>5. ~Flowing(x)
    BY <1>1, <2>2 DEF Flowing, Backs
  <2>6. QED BY <1>1, <1>3, <2>1, <2>2, <2>3, <2>4, <2>5, CalmMoves
<1>5. CASE ~result[s].done
  <2> DEFINE x == [th[t] EXCEPT !.pc = "reg", !.back = "poll", !.ret = th[t].back]
  <2>1. th' = [th EXCEPT ![t] = x]
    BY <1>5 DEF Flow
  <2>2. "reg" \in Places /\ "poll" \in Backs /\ "reg" \in Calm
    BY DEF Places, Backs, Calm
  <2>3. /\ x \in Thread /\ x.pc = "reg" /\ x.back = "poll" /\ x.ret = th[t].back /\ x.s = s /\ x.out = th[t].out
    BY <1>1, <2>2 DEF Thread
  <2> HIDE DEF x
  <2>4. Kind(x, t)
    BY <1>1, <2>3 DEF Kind
  <2>5. ASSUME Hung = {}
        PROVE  ~used[s]
    <3>1. used[s] => Followed(s)
      BY <1>1, <2>5 DEF VerdictInv, OnceInv
    <3>2. ASSUME NEW u \in Threads, th[u].pc \in {"capture", "store"}
          PROVE  FALSE
      <4>1. th[u].pc # "idle" /\ th[t].pc # "idle"
        BY <1>1, <3>2
      <4>2. u = t
        BY <2>5, <4>1, OneWorks
      <4>3. QED BY <1>1, <3>2, <4>2
    <3>3. ~Followed(s)
      BY <1>5, <3>2 DEF Followed
    <3>4. QED BY <3>1, <3>3
  <2>6. QED BY <1>1, <1>3, <2>1, <2>2, <2>3, <2>4, <2>5, CalmMoves
<1>6. QED BY <1>4, <1>5

\* _email_account: whether there is a flow to run.
LEMMA SoundGate == ASSUME Typed, LaunchInv, VerdictInv, NEW t \in Threads, Gate(t) PROVE VerdictInv'
<1> DEFINE id == th[t].id
<1>1. /\ th[t] \in Thread /\ th[t].pc = "gate" /\ th[t].out = Nothing /\ Kind(th[t], t)
      /\ th[t].pc \in Calm /\ id \in Ids /\ th[t].back \in Backs
  BY Known, AtRest DEF Gate, At, Calm, Places
<1>2. UNCHANGED <<app, memos, mail, site, tally, loop>>
  BY DEF Gate
<1>3. Steady
  BY <1>2, SteadyMove DEF loop, Hung
<1>4. /\ "flow" \in Places /\ "spa" \in Places /\ "session" \in Places /\ "gate" \in Backs /\ "session" \in Backs
      /\ "flow" \in Calm /\ "spa" \in Calm /\ "session" \in Calm /\ "me" \in Ids
  BY DEF Places, Calm, Backs, Ids
<1>5. ASSUME NEW q \in {"spa", "session"}, Go(t, q)
      PROVE  VerdictInv'
  <2> DEFINE x == [th[t] EXCEPT !.pc = q]
  <2>1. /\ x \in Thread /\ x.pc = q /\ x.s = th[t].s /\ x.back = th[t].back /\ x.ret = th[t].ret /\ x.out = th[t].out
    BY <1>1, <1>4, GoesOn
  <2>2. th' = [th EXCEPT ![t] = x]
    BY <1>5 DEF Go
  <2> HIDE DEF x
  <2>3. Kind(x, t)
    BY <1>1, <2>1 DEF Kind
  <2>4. ~Flowing(x)
    BY <2>1 DEF Flowing
  <2>5. QED BY <1>1, <1>3, <1>4, <2>1, <2>2, <2>3, <2>4, CalmMoves
<1>6. ASSUME NEW i \in Ids, NEW b \in {"gate", "session"},
             th' = [th EXCEPT ![t].pc = "flow", ![t].s = i, ![t].back = b]
      PROVE  VerdictInv'
  <2> DEFINE x == [th[t] EXCEPT !.pc = "flow", !.s = i, !.back = b]
  <2>1. /\ x \in Thread /\ x.pc = "flow" /\ x.s = i /\ x.back = b /\ x.ret = th[t].ret /\ x.out = th[t].out
    BY <1>1, <1>4 DEF Thread
  <2>2. th' = [th EXCEPT ![t] = x]
    BY <1>6
  <2> HIDE DEF x
  <2>3. Kind(x, t)
    BY <1>1, <2>1 DEF Kind
  <2>4. ~Flowing(x)
    BY <2>1 DEF Flowing
  <2>5. QED BY <1>1, <1>3, <1>4, <2>1, <2>2, <2>3, <2>4, CalmMoves
<1>7. \/ th' = [th EXCEPT ![t].pc = "flow", ![t].s = "me", ![t].back = "gate"]
      \/ th' = [th EXCEPT ![t].pc = "flow", ![t].s = id, ![t].back = "session"]
      \/ Go(t, "spa") \/ Go(t, "session")
  BY DEF Gate
<1>8. QED BY <1>1, <1>4, <1>5, <1>6, <1>7

\* A thread in the middle of its signup goes on with it, or back; so does one that looks for a user.
LEMMA SignsOn ==
    ASSUME Typed, LaunchInv, VerdictInv, Steady, NEW t \in Threads, NEW q,
           \/ th[t].pc \in {"signup", "launch", "launched", "gateway"} /\ q \in {"launch", "launched", "gateway", th[t].back}
           \/ th[t].pc = "spa" /\ q \in {"spa", "user"}
           \/ th[t].pc = "session" /\ q = "spa"
           \/ th[t].pc = "register" /\ q = "gate",
           \/ th' = [th EXCEPT ![t].pc = q]
           \/ th' = [th EXCEPT ![t].pc = q, ![t].tries = 0]
           \/ \E n \in 0 .. Tries - 1 : q = th[t].pc /\ th' = [th EXCEPT ![t].tries = n]
    PROVE  VerdictInv'
<1>1. /\ th[t] \in Thread /\ th[t].out = Nothing /\ Kind(th[t], t) /\ th[t].pc \in Calm /\ th[t].back \in Backs
      /\ th[t].ret \in Backs
  BY Known DEF Calm, Places
<1>2. q \in Places /\ q \in Calm /\ q \in {"launch", "launched", "gateway", "spa", "user"} \cup Backs
  <2>1. q \in {"launch", "launched", "gateway", "spa", "user"} \/ q = th[t].back \/ q = "gate"
    OBVIOUS
  <2>2. q \in {"launch", "launched", "gateway", "spa", "user"} \/ q \in Backs
    BY <1>1, <2>1 DEF Backs
  <2>3. q \in Calm
    BY <2>2, BacksCalm DEF Places, Calm
  <2>4. q \in Places
    BY <2>3 DEF Calm
  <2>5. QED BY <2>2, <2>3, <2>4
<1>3. \E x \in Thread : /\ th' = [th EXCEPT ![t] = x] /\ x.pc = q /\ x.s = th[t].s /\ x.back = th[t].back
                        /\ x.ret = th[t].ret /\ x.out = th[t].out
  <2>1. CASE th' = [th EXCEPT ![t].pc = q]
    <3> DEFINE x == [th[t] EXCEPT !.pc = q]
    <3>1. x \in Thread /\ x.pc = q /\ x.s = th[t].s /\ x.back = th[t].back /\ x.ret = th[t].ret /\ x.out = th[t].out
      BY <1>1, <1>2, GoesOn
    <3>2. th' = [th EXCEPT ![t] = x]
      BY <2>1
    <3> HIDE DEF x
    <3>3. QED BY <3>1, <3>2
  <2>2. CASE th' = [th EXCEPT ![t].pc = q, ![t].tries = 0]
    <3> DEFINE x == [th[t] EXCEPT !.pc = q, !.tries = 0]
    <3>1. 0 \in 0 .. Tries - 1
      BY ThreadsFinite
    <3>2. x \in Thread /\ x.pc = q /\ x.s = th[t].s /\ x.back = th[t].back /\ x.ret = th[t].ret /\ x.out = th[t].out
      BY <1>1, <1>2, <3>1 DEF Thread
    <3>3. th' = [th EXCEPT ![t] = x]
      BY <2>2
    <3> HIDE DEF x
    <3>4. QED BY <3>2, <3>3
  <2>3. ASSUME NEW n \in 0 .. Tries - 1, q = th[t].pc, th' = [th EXCEPT ![t].tries = n]
        PROVE  \E x \in Thread : /\ th' = [th EXCEPT ![t] = x] /\ x.pc = q /\ x.s = th[t].s /\ x.back = th[t].back
                                 /\ x.ret = th[t].ret /\ x.out = th[t].out
    <3> DEFINE x == [th[t] EXCEPT !.tries = n]
    <3>1. x \in Thread /\ x.pc = q /\ x.s = th[t].s /\ x.back = th[t].back /\ x.ret = th[t].ret /\ x.out = th[t].out
      BY <1>1, <2>3 DEF Thread
    <3>2. th' = [th EXCEPT ![t] = x]
      BY <2>3
    <3> HIDE DEF x
    <3>3. QED BY <3>1, <3>2
  <2>4. QED BY <2>1, <2>2, <2>3
<1>4. PICK x \in Thread : /\ th' = [th EXCEPT ![t] = x] /\ x.pc = q /\ x.s = th[t].s /\ x.back = th[t].back
                          /\ x.ret = th[t].ret /\ x.out = th[t].out
  BY <1>3
<1>5. Kind(x, t)
  BY <1>1, <1>2, <1>4 DEF Kind, Backs
<1>6. Flowing(x) => Flowing(th[t])
  <2>1. q \notin {"resend", "second", "follow"} /\ (q = "poll" => th[t].back = "poll")
    BY <1>1, <1>2 DEF Backs
  <2>2. q \in {"poll", "reg", "signup", "launch", "launched", "gateway"} =>
            th[t].pc \in {"signup", "launch", "launched", "gateway"}
    BY <1>1
  <2>3. QED BY <1>4, <2>1, <2>2 DEF Flowing
<1>7. QED BY <1>1, <1>2, <1>4, <1>5, <1>6, CalmMoves

\* What is memoised of s when s signs up, or its registration is stored.
LEMMA MemoSigns ==
    ASSUME Typed, VerdictInv, Grows, NEW s \in Ids, UNCHANGED <<store, slot, result>>,
           reg'[s].submitted \/ reg'[s].lane \notin {"absent", "none"} \/ acct'[s] # "none" => exists'[s],
           reg'[s].announced => Promises /\ (app.mails => Mailed(s, "confirm")')
    PROVE  Memo(s)'
<1>1. /\ Promises' = Promises /\ (Excused(s) => Excused(s)') /\ (Mailed(s, "confirm") => Mailed(s, "confirm")')
      /\ app' = app /\ (exists[s] => exists'[s])
  BY Excuses DEF Grows
<1>2. Memo(s)
  BY DEF VerdictInv, MemoInv
<1>3. QED BY <1>1, <1>2 DEF Memo, Accuses

\* A signup, or a resend, that has a mail sent at most.
LEMMA Confirms ==
    ASSUME Typed, VerdictInv, NEW s \in Ids, NEW m \in SUBSET {"confirm"}, UNCHANGED <<app, inbox, missed, used>>,
           UNCHANGED transit \/ Send(s, m),
           UNCHANGED exists \/ exists' = [exists EXCEPT ![s] = TRUE]
    PROVE  /\ Grows
           /\ NoReset => \A i \in Ids : inbox'[i] # "reset" /\ "reset" \notin transit'[i]
           /\ Send(s, m) => m \subseteq transit'[s]
           /\ \A i \in Ids \ {s} : transit'[i] = transit[i] /\ exists'[i] = exists[i]
<1>1. transit \in [Ids -> SUBSET {"confirm", "reset"}] /\ exists \in [Ids -> BOOLEAN]
  BY DEF Typed, TypeOK, DataTyped
<1>2. \A i \in Ids : transit[i] \subseteq transit'[i] /\ transit'[i] \subseteq transit[i] \cup m
  BY <1>1 DEF Send
<1>3. \A i \in Ids : exists[i] => exists'[i]
  BY <1>1
<1>4. Grows
  BY <1>2, <1>3 DEF Grows
<1>5. NoReset => \A i \in Ids : inbox'[i] # "reset" /\ "reset" \notin transit'[i]
  BY <1>2 DEF VerdictInv, ResetInv
<1>6. Send(s, m) => m \subseteq transit'[s]
  BY <1>1 DEF Send
<1>7. \A i \in Ids \ {s} : transit'[i] = transit[i] /\ exists'[i] = exists[i]
  BY <1>1 DEF Send
<1>8. QED BY <1>4, <1>5, <1>6, <1>7

\* The signup over httpx.
LEMMA SoundSignup == ASSUME Typed, LaunchInv, VerdictInv, NEW t \in Threads, Signup(t) PROVE VerdictInv'
<1>0. PICK s \in Ids : s = th[t].s
  BY Known
<1> DEFINE Shows(r) == r.session \/ r.announced
           won == IF Shows(FormReply) THEN FormReply ELSE MagicReply
           r == [lane |-> "httpx", submitted |-> TRUE, session |-> won.session, announced |-> won.announced, ctl |-> app.ctl]
           took == FormReply.took \/ MagicReply.took
<1>1. th[t].pc = "signup" /\ Memo(s)
  BY <1>0, Known DEF Signup, At
<1>2. UNCHANGED <<app, store, slot, result, inbox, missed, verified, used, tally, loop>>
  BY DEF Signup
<1>3. Confirm \in SUBSET {"confirm"} /\ (app.mails => "confirm" \in Confirm)
  BY DEF Confirm
<1>4. /\ took => Send(s, Confirm) /\ exists' = [exists EXCEPT ![s] = TRUE]
      /\ ~took => UNCHANGED <<transit, exists>>
  BY <1>0 DEF Signup
<1>5. /\ Grows
      /\ NoReset => \A i \in Ids : inbox'[i] # "reset" /\ "reset" \notin transit'[i]
      /\ Send(s, Confirm) => Confirm \subseteq transit'[s]
  BY <1>1, <1>2, <1>3, <1>4, Confirms
<1>6. /\ Shows(FormReply) => FormReply.took /\ (FormReply.announced => Promises)
      /\ Shows(MagicReply) => MagicReply.took /\ (MagicReply.announced => Promises)
  BY DEF FormReply, MagicReply, Promises
<1>7. Shows(won) => took /\ (won.announced => Promises)
  BY <1>6
<1>8. took => exists'[s] /\ (app.mails => Mailed(s, "confirm")')
  BY <1>1, <1>3, <1>4, <1>5 DEF Mailed, Typed, TypeOK, DataTyped
<1>9. acct' = [acct EXCEPT ![s] = IF FormReply.took \/ Shows(won) THEN "open" ELSE acct[s]]
  BY <1>0 DEF Signup
<1>10. \/ Shows(won) /\ Registered(t, s, r)
       \/ ~Shows(won) /\ reg' = reg /\ Go(t, IF app.browser THEN "launch" ELSE "gateway")
  BY <1>0 DEF Signup
<1>11. reg' \in [Ids -> Registration] /\ reg \in [Ids -> Registration] /\ acct \in [Ids -> {"none", "open", "closed"}]
  BY QuietSignup DEF Quiet, Typed, TypeOK, DataTyped
<1>12. reg'[s] = reg[s] \/ (Shows(won) /\ reg'[s] = r)
  BY <1>1, <1>10, <1>11 DEF Registered
<1>13. acct'[s] = acct[s] \/ took
  BY <1>1, <1>7, <1>9
<1>14. Memo(s)'
  <2> HIDE DEF won
  <2>1. exists[s] => exists'[s]
    BY <1>1, <1>5 DEF Grows
  <2>2. Mailed(s, "confirm") => Mailed(s, "confirm")'
    BY <1>1, <1>5, Excuses
  <2>3. CASE reg'[s] = reg[s]
    <3>1. reg'[s].submitted \/ reg'[s].lane \notin {"absent", "none"} \/ acct'[s] # "none" => exists'[s]
      BY <1>1, <1>8, <1>13, <2>1, <2>3 DEF Memo
    <3>2. reg'[s].announced => Promises /\ (app.mails => Mailed(s, "confirm")')
      BY <1>1, <2>2, <2>3 DEF Memo
    <3>3. QED BY <1>1, <1>2, <1>5, <3>1, <3>2, MemoSigns
  <2>4. CASE Shows(won) /\ reg'[s] = r
    <3>1. took /\ (won.announced => Promises)
      BY <1>7, <2>4
    <3>2. reg'[s].announced = won.announced
      BY <2>4
    <3>3. QED BY <1>1, <1>2, <1>5, <1>8, <3>1, <3>2, MemoSigns
  <2>5. QED BY <1>12, <2>3, <2>4
<1>15. \A i \in Ids \ {s} : Leaves(i)
  <2> HIDE DEF r
  <2>1. \A i \in Ids \ {s} : reg'[i] = reg[i]
    BY <1>10, <1>11 DEF Registered
  <2>2. \A i \in Ids \ {s} : acct'[i] = acct[i]
    BY <1>9, <1>11
  <2>3. QED BY <1>2, <2>1, <2>2 DEF Leaves
<1>16. Steady
  <2>1. \A i \in Ids : Leaves(i) \/ Memo(i)'
    BY <1>14, <1>15
  <2>2. Hung' = Hung
    BY <1>2 DEF loop, Hung
  <2>3. QED BY <1>2, <1>5, <2>1, <2>2 DEF Steady, loop
<1>17. CASE Shows(won) /\ Registered(t, s, r)
  <2>1. th' = [th EXCEPT ![t].pc = th[t].back, ![t].tries = 0]
    BY <1>17 DEF Registered
  <2>2. QED BY <1>1, <1>16, <2>1, SignsOn
<1>18. CASE Go(t, IF app.browser THEN "launch" ELSE "gateway")
  BY <1>1, <1>16, <1>18, SignsOn DEF Go
<1>19. QED BY <1>10, <1>17, <1>18

\* A registration is memoised that is right about s.
LEMMA SoundRegisters ==
    ASSUME Typed, LaunchInv, VerdictInv, Grows, NEW t \in Threads, th[t].pc \in {"launched", "gateway"},
           NEW s \in Ids, s = th[t].s, NEW r, Registered(t, s, r),
           UNCHANGED <<app, acct, store, slot, result, used, loop>>,
           r.submitted \/ r.lane \notin {"absent", "none"} => exists'[s],
           r.announced => Promises /\ (app.mails => Mailed(s, "confirm")'),
           NoReset => \A i \in Ids : inbox'[i] # "reset" /\ "reset" \notin transit'[i]
    PROVE  VerdictInv'
<1>1. Memo(s) /\ reg \in [Ids -> Registration]
  BY DEF VerdictInv, MemoInv, Typed, TypeOK, DataTyped
<1>2. reg' = [reg EXCEPT ![s] = r] /\ th' = [th EXCEPT ![t].pc = th[t].back, ![t].tries = 0]
  BY DEF Registered
<1>3. reg'[s] = r /\ \A i \in Ids \ {s} : reg'[i] = reg[i]
  BY <1>1, <1>2
<1>4. acct'[s] # "none" => exists'[s]
  BY <1>1 DEF Memo, Grows
<1>5. Memo(s)'
  BY <1>3, <1>4, MemoSigns
<1>6. \A i \in Ids \ {s} : Leaves(i)
  BY <1>3 DEF Leaves
<1>7. Hung' = Hung
  BY DEF loop, Hung
<1>8. Steady
  BY <1>5, <1>6, <1>7 DEF Steady, loop
<1>9. QED BY <1>2, <1>8, SignsOn

\* The app's own signup in the browser, after its launches.
LEMMA SoundBrowserLane == ASSUME Typed, LaunchInv, VerdictInv, NEW t \in Threads, BrowserLane(t) PROVE VerdictInv'
<1>0. PICK s \in Ids : s = th[t].s
  BY Known
<1> DEFINE r == [NoReg EXCEPT !.submitted = TRUE]
           pending == [r EXCEPT !.lane = "browser", !.announced = app.spa = "announce"]
           session == [r EXCEPT !.lane = "browser_session", !.session = TRUE, !.announced = app.spa = "both"]
<1>1. th[t].pc = "launched" /\ Memo(s) /\ Typed
  BY <1>0, Known DEF BrowserLane, At
<1>2. UNCHANGED <<app, acct, store, slot, result, mail, site, tally, loop>>
  BY DEF BrowserLane
<1>3. Grows /\ (NoReset => \A i \in Ids : inbox'[i] # "reset" /\ "reset" \notin transit'[i])
  BY <1>2 DEF Grows, VerdictInv, ResetInv, mail, site
<1>4. store[s] \in {"null", "pending", "session"}
  BY <1>0, <1>1 DEF LaunchInv, Typed, TypeOK, DataTyped
<1>5. (CASE store[s] = "pending" -> Registered(t, s, pending)
         [] store[s] = "session" -> Registered(t, s, session)
         [] store[s] = "null"    -> Go(t, "gateway") /\ UNCHANGED reg)
  BY <1>0 DEF BrowserLane
<1>6. /\ store[s] \in {"pending", "session"} => exists'[s]
      /\ store[s] \in {"pending", "session"} /\ app.mails => Mailed(s, "confirm")'
  BY <1>1, <1>2 DEF Memo, Mailed, mail, site
<1>7. CASE store[s] = "pending"
  <2>1. Registered(t, s, pending)
    BY <1>5, <1>7
  <2>2. pending.announced => Promises
    BY DEF NoReg, Promises
  <2> HIDE DEF pending
  <2>3. QED BY <1>0, <1>1, <1>2, <1>3, <1>6, <1>7, <2>1, <2>2, SoundRegisters DEF site
<1>8. CASE store[s] = "session"
  <2>1. Registered(t, s, session)
    BY <1>5, <1>8
  <2>2. session.announced => Promises
    BY DEF NoReg, Promises
  <2> HIDE DEF session
  <2>3. QED BY <1>0, <1>1, <1>2, <1>3, <1>6, <1>8, <2>1, <2>2, SoundRegisters DEF site
<1>9. CASE store[s] = "null"
  <2>1. Go(t, "gateway") /\ UNCHANGED reg
    BY <1>5, <1>9
  <2>2. UNCHANGED <<app, memos, mail, site, running>> /\ Hung' = Hung
    BY <1>2, <2>1 DEF memos, loop, Hung
  <2>3. Steady
    BY <2>2, SteadyMove
  <2>4. QED BY <1>1, <2>1, <2>3, SignsOn DEF Go
<1>10. QED BY <1>4, <1>7, <1>8, <1>9

\* The signup at the managed backend, or nothing was submitted.
LEMMA SoundGateway == ASSUME Typed, LaunchInv, VerdictInv, NEW t \in Threads, Gateway(t) PROVE VerdictInv'
<1>0. PICK s \in Ids : s = th[t].s
  BY Known
<1> DEFINE r == [NoReg EXCEPT !.submitted = TRUE]
           session == [r EXCEPT !.lane = "baas_session", !.session = TRUE]
           pending == [r EXCEPT !.lane = "baas", !.announced = TRUE]
           firebase == [r EXCEPT !.lane = "firebase_session", !.session = TRUE]
           form == [r EXCEPT !.lane = "httpx", !.ctl = app.ctl]
           none == [NoReg EXCEPT !.lane = "none"]
           m == IF app.baas = "pending" THEN Confirm ELSE {}
<1>1. th[t].pc = "gateway" /\ Memo(s) /\ Typed
  BY <1>0, Known DEF Gateway, At
<1>2. UNCHANGED <<app, acct, store, slot, result, inbox, missed, verified, used, tally, loop>>
  BY DEF Gateway
<1>3. (CASE app.baas = "session"  -> Registered(t, s, session)
         [] app.baas = "pending"  -> Registered(t, s, pending)
         [] app.baas = "firebase" -> Registered(t, s, firebase)
         [] app.baas = "no" /\ acct[s] # "none" -> Registered(t, s, form)
         [] OTHER -> Registered(t, s, none))
  BY <1>0 DEF Gateway
<1>4. /\ app.baas = "no" => UNCHANGED <<transit, exists>>
      /\ app.baas # "no" => Send(s, m) /\ exists' = [exists EXCEPT ![s] = TRUE]
  BY <1>0 DEF Gateway
<1>5. m \in SUBSET {"confirm"} /\ (app.mails /\ app.baas = "pending" => "confirm" \in m)
  BY DEF Confirm
<1> HIDE DEF m
<1>6. /\ Grows
      /\ NoReset => \A i \in Ids : inbox'[i] # "reset" /\ "reset" \notin transit'[i]
      /\ Send(s, m) => m \subseteq transit'[s]
  BY <1>2, <1>4, <1>5, Confirms
<1>7. app.baas # "no" => exists'[s]
  BY <1>4 DEF Typed, TypeOK, DataTyped
<1>8. /\ ~session.announced /\ ~firebase.announced /\ ~form.announced /\ ~none.announced
      /\ ~none.submitted /\ none.lane = "none"
  BY DEF NoReg
<1> HIDE DEF session, pending, firebase, form, none
<1>9. CASE app.baas = "pending"
  <2>1. Registered(t, s, pending)
    BY <1>3, <1>9
  <2>2. Promises /\ (app.mails => Mailed(s, "confirm")')
    BY <1>4, <1>5, <1>6, <1>9 DEF Promises, Mailed
  <2>3. QED BY <1>0, <1>1, <1>2, <1>6, <1>7, <1>9, <2>1, <2>2, SoundRegisters
<1>10. CASE app.baas \in {"session", "firebase"}
  <2>1. Registered(t, s, session) \/ Registered(t, s, firebase)
    BY <1>3, <1>10
  <2>2. QED BY <1>0, <1>1, <1>2, <1>6, <1>7, <1>8, <1>10, <2>1, SoundRegisters
<1>11. CASE app.baas = "no" /\ acct[s] # "none"
  <2>1. Registered(t, s, form)
    BY <1>3, <1>11
  <2>2. exists'[s]
    BY <1>1, <1>6, <1>11 DEF Memo, Grows
  <2>3. QED BY <1>0, <1>1, <1>2, <1>6, <1>8, <2>1, <2>2, SoundRegisters
<1>12. CASE app.baas \notin {"pending", "session", "firebase"} /\ ~(app.baas = "no" /\ acct[s] # "none")
  <2>1. Registered(t, s, none)
    BY <1>3, <1>12
  <2>2. QED BY <1>0, <1>1, <1>2, <1>6, <1>8, <2>1, SoundRegisters
<1>13. QED BY <1>9, <1>10, <1>11, <1>12

\* A launch.
LEMMA SoundLaunch ==
    ASSUME Typed, LaunchInv, VerdictInv, NEW t \in Threads, NEW s \in Ids, NEW next,
           (th[t].pc = "launch" /\ next = "launched") \/ (th[t].pc = "spa" /\ next = "user"),
           Launch(t, s, next), UNCHANGED <<app, reg, acct, slot, result, inbox, missed, verified, used, flows, loop>>
    PROVE  VerdictInv'
<1>1. th[t] \in Thread /\ th[t].tries \in 0 .. Tries - 1 /\ Tries \in Nat /\ Memo(s)
  BY Known, ThreadsFinite DEF Thread, VerdictInv, MemoInv
<1>2. Hung' = Hung
  BY DEF loop, Hung
<1>3. CASE store[s] # "absent" /\ th[t].tries = 0
  <2>1. Go(t, next) /\ UNCHANGED <<store, launches, transit, exists>>
    BY <1>3 DEF Launch
  <2>2. Steady
    BY <1>2, <2>1, SteadyMove DEF memos, mail, site, loop
  <2>3. QED BY <2>1, <2>2, SignsOn DEF Go
<1>4. CASE ~(store[s] # "absent" /\ th[t].tries = 0)
  <2>1. PICK r \in Launched :
           /\ IF r = "null" /\ th[t].tries + 1 < Tries
              THEN /\ th' = [th EXCEPT ![t].tries = th[t].tries + 1]
                   /\ UNCHANGED store
              ELSE /\ store' = [store EXCEPT ![s] = r]
                   /\ th' = [th EXCEPT ![t].pc = next, ![t].tries = 0]
           /\ IF r = "null" THEN UNCHANGED <<transit, exists>>
              ELSE /\ Send(s, Confirm)
                   /\ exists' = [exists EXCEPT ![s] = TRUE]
    BY <1>4 DEF Launch
  <2>2. Confirm \in SUBSET {"confirm"} /\ (app.mails => "confirm" \in Confirm)
    BY DEF Confirm
  <2>3. /\ Grows
        /\ NoReset => \A i \in Ids : inbox'[i] # "reset" /\ "reset" \notin transit'[i]
        /\ Send(s, Confirm) => Confirm \subseteq transit'[s]
    BY <2>1, <2>2, Confirms
  <2>4. store \in [Ids -> {"absent", "null", "pending", "session"}] /\ exists \in [Ids -> BOOLEAN]
    BY DEF Typed, TypeOK, DataTyped
  <2>5. \A i \in Ids \ {s} : Leaves(i)
    BY <2>1, <2>4 DEF Leaves
  <2>6. store'[s] = store[s] \/ store'[s] = r
    BY <2>1, <2>4
  <2>7. r # "null" => exists'[s] /\ (app.mails => Mailed(s, "confirm")')
    BY <2>1, <2>2, <2>3, <2>4 DEF Mailed
  <2>8. Memo(s)'
    <3>1. /\ Promises' = Promises /\ (Excused(s) => Excused(s)') /\ (Mailed(s, "confirm") => Mailed(s, "confirm")')
          /\ app' = app /\ (exists[s] => exists'[s])
      BY <2>3, Excuses DEF Grows
    <3>2. CASE store'[s] = store[s]
      BY <1>1, <3>1, <3>2 DEF Memo, Accuses
    <3>3. CASE store'[s] = r
      <4>1. r \in {"null", "session", "pending"}
        BY LaunchedTyped
      <4>2. store'[s] \in {"pending", "session"} => exists'[s] /\ (app.mails => Mailed(s, "confirm")')
        BY <2>7, <3>3
      <4>3. QED BY <1>1, <3>1, <4>2 DEF Memo, Accuses
    <3>4. QED BY <2>6, <3>2, <3>3
  <2>9. Steady
    BY <1>2, <2>3, <2>5, <2>8 DEF Steady, loop
  <2>10. CASE r = "null" /\ th[t].tries + 1 < Tries
    <3> DEFINE n == th[t].tries + 1
    <3>1. n \in 0 .. Tries - 1
      BY <1>1, <2>10
    <3>2. th' = [th EXCEPT ![t].tries = n]
      BY <2>1, <2>10
    <3> HIDE DEF n
    <3>3. QED BY <2>9, <3>1, <3>2, SignsOn
  <2>11. CASE ~(r = "null" /\ th[t].tries + 1 < Tries)
    <3>1. th' = [th EXCEPT ![t].pc = next, ![t].tries = 0]
      BY <2>1, <2>11
    <3>2. QED BY <2>9, <3>1, SignsOn
  <2>12. QED BY <2>10, <2>11
<1>5. QED BY <1>3, <1>4

\* The launches of the signup flow, and those of register().
LEMMA SoundLaunches == ASSUME Typed, LaunchInv, VerdictInv, NEW t \in Threads, LaunchFlow(t) \/ LaunchUser(t) PROVE VerdictInv'
<1>1. th[t].s \in Ids /\ th[t].id \in Ids
  BY AtRest
<1>2. UNCHANGED <<app, reg, acct, slot, result, inbox, missed, verified, used, flows, loop>>
  BY DEF LaunchFlow, LaunchUser
<1>3. CASE LaunchFlow(t)
  <2>1. th[t].pc = "launch" /\ Launch(t, th[t].s, "launched")
    BY <1>3 DEF LaunchFlow, At
  <2>2. QED BY <1>1, <1>2, <2>1, SoundLaunch
<1>4. CASE LaunchUser(t) /\ app.browser /\ app.entry
  <2>1. th[t].pc = "spa" /\ Launch(t, th[t].id, "user")
    BY <1>4 DEF LaunchUser, At
  <2>2. QED BY <1>1, <1>2, <2>1, SoundLaunch
<1>5. CASE LaunchUser(t) /\ ~(app.browser /\ app.entry)
  <2>1. th[t].pc = "spa" /\ Go(t, "user") /\ UNCHANGED <<store, launches, transit, exists>>
    BY <1>5 DEF LaunchUser, At
  <2>2. UNCHANGED <<app, memos, mail, site, running>> /\ Hung' = Hung
    BY <1>2, <2>1 DEF memos, mail, site, loop, Hung
  <2>3. Steady
    BY <2>2, SteadyMove
  <2>4. QED BY <2>1, <2>3, SignsOn DEF Go
<1>6. QED BY <1>3, <1>4, <1>5

\* What a poll leaves to its thread: a mail came to s, or all that was sent to it is missed.
Polled(t, s, found, empty, yes, no) ==
    \E x \in Thread : /\ th' = [th EXCEPT ![t] = x] /\ x.s = th[t].s /\ x.back = th[t].back /\ x.ret = th[t].ret
                      /\ \/ inbox'[s] # "none" /\ x.pc = found /\ x.out = yes
                         \/ inbox[s] = "none" /\ x.pc = empty /\ x.out = no /\ missed'[s] = missed[s] \cup transit[s]

\* A poll does so.
LEMMA Polls ==
    ASSUME Typed, LaunchInv, VerdictInv, NEW t \in Threads, NEW s \in Ids, NEW found \in Places, NEW empty \in Places,
           NEW yes \in Observation, NEW no \in Observation, Poll(t, s, found, empty, yes, no)
    PROVE  Steady /\ Polled(t, s, found, empty, yes, no)
<1>1. Steady
  BY SteadyPoll
<1>2. th[t] \in Thread
  BY Known
<1>3. inbox' = inbox /\ missed \in [Ids -> SUBSET {"confirm", "reset"}]
  BY DEF Poll, Typed, TypeOK, DataTyped
<1>4. CASE inbox[s] # "none"
  <2> DEFINE x == [th[t] EXCEPT !.pc = found, !.out = yes]
  <2>1. x \in Thread /\ x.s = th[t].s /\ x.back = th[t].back /\ x.ret = th[t].ret /\ x.pc = found /\ x.out = yes
    BY <1>2 DEF Thread
  <2>2. th' = [th EXCEPT ![t] = x]
    BY <1>4 DEF Poll
  <2> HIDE DEF x
  <2>3. QED BY <1>1, <1>3, <1>4, <2>1, <2>2 DEF Polled
<1>5. CASE inbox[s] = "none"
  <2> DEFINE x == [th[t] EXCEPT !.pc = empty, !.out = no]
  <2>1. x \in Thread /\ x.s = th[t].s /\ x.back = th[t].back /\ x.ret = th[t].ret /\ x.pc = empty /\ x.out = no
    BY <1>2 DEF Thread
  <2>2. th' = [th EXCEPT ![t] = x]
    BY <1>5 DEF Poll
  <2>3. missed'[s] = missed[s] \cup transit[s]
    BY <1>3, <1>5 DEF Poll
  <2> HIDE DEF x
  <2>4. QED BY <1>1, <1>5, <2>1, <2>2, <2>3 DEF Polled
<1>6. QED BY <1>4, <1>5

\* A thread in the middle of its polls.
LEMMA PollMoves ==
    ASSUME Typed, LaunchInv, VerdictInv, Steady, NEW t \in Threads, NEW x \in Thread, th' = [th EXCEPT ![t] = x],
           x.s = th[t].s, x.back = th[t].back, x.ret = th[t].ret, Mail(x)', ~x.out.acted,
           \/ /\ th[t].pc \in {"poll", "resend", "second"}
              /\ x.pc \in {"capture", "follow", "resend", "second"}
           \/ th[t].pc = "wait" /\ x.pc \in {"open", "no reset mail"}
    PROVE  VerdictInv'
<1>1. Kind(th[t], t)
  BY Known
<1>2. Kind(x, t)
  <2>1. x.pc \notin {"flow", "judge", "recover"}
    OBVIOUS
  <2>2. QED BY <1>1, <2>1 DEF Kind
<1>3. Flows(x, t)
  <2>1. CASE th[t].pc \in {"poll", "resend", "second"}
    BY <2>1 DEF Flows, Flowing
  <2>2. CASE th[t].pc = "wait" /\ x.pc \in {"open", "no reset mail"}
    BY <2>2 DEF Flows, Flowing
  <2>3. QED BY <2>1, <2>2
<1>4. Honest(x.out)
  BY DEF Honest
<1>5. QED BY <1>2, <1>3, <1>4, SteadyMoves

\* The poll for the mail of a reset.
LEMMA SoundAwaitReset == ASSUME Typed, LaunchInv, VerdictInv, NEW t \in Threads, AwaitReset(t) PROVE VerdictInv'
<1>1. /\ th[t].pc = "wait" /\ Poll(t, "me", "open", "no reset mail", Nothing, Nothing) /\ "me" \in Ids
      /\ "open" \in Places /\ "no reset mail" \in Places
  BY DEF AwaitReset, At, Ids, Places
<1>2. ResetSent
  BY <1>1, Known DEF Mail
<1>3. Steady /\ Polled(t, "me", "open", "no reset mail", Nothing, Nothing)
  BY <1>1, NothingTyped, Polls
<1>4. PICK x \in Thread : /\ th' = [th EXCEPT ![t] = x] /\ x.s = th[t].s /\ x.back = th[t].back /\ x.ret = th[t].ret
                          /\ \/ inbox'["me"] # "none" /\ x.pc = "open" /\ x.out = Nothing
                             \/ /\ inbox["me"] = "none" /\ x.pc = "no reset mail" /\ x.out = Nothing
                                /\ missed'["me"] = missed["me"] \cup transit["me"]
  BY <1>3 DEF Polled
<1>5. Mail(x)' /\ ~x.out.acted
  <2>1. ~Nothing.gated /\ ~Nothing.atSignup /\ ~Nothing.session /\ ~Nothing.acted
    BY DEF Nothing
  <2>2. x.pc = "no reset mail" => ResetMissed'
    <3>1. Grows
      BY <1>3 DEF Steady
    <3>2. app' = app /\ (exists["me"] => exists'["me"])
      BY <1>1, <3>1 DEF Grows
    <3>3. QED BY <1>2, <1>4, <3>2 DEF ResetSent, ResetMissed, Mailed
  <2>3. QED BY <1>4, <2>1, <2>2 DEF Mail, Accuses
<1>6. QED BY <1>1, <1>3, <1>4, <1>5, PollMoves

\* What a thread in the middle of its polls may have observed.
LEMMA PollMail ==
    ASSUME Steady, NEW x, NEW s \in Ids, s = x.s, x.pc \in {"follow", "resend", "second", "capture"}, ~x.out.acted,
           Accuses(x.out) => Promises /\ (app.mails => "confirm" \in missed'[s]),
           x.pc \in {"resend", "second", "follow"} \/ x.out.session => exists[s],
           x.pc = "follow" => inbox'[s] # "none"
    PROVE  Mail(x)'
<1>1. Grows /\ Promises' = Promises /\ app' = app /\ (exists[s] => exists'[s])
  BY Excuses DEF Steady, Grows
<1>2. Accuses(x.out) => Promises' /\ (app'.mails => "confirm" \in missed'[x.s])
  BY <1>1
<1>3. QED BY <1>1, <1>2 DEF Mail, Accuses, Excused

\* The observations of Observe, of a registration r: no poll, or no gate; let in and a mail
\* came, or none; gated and a mail came, or it is still waited for.
Tried(r)  == [Nothing EXCEPT !.attempted = r.submitted]
In(r)     == [Tried(r) EXCEPT !.atSignup = TRUE]
Gated(r)  == [Tried(r) EXCEPT !.gated = TRUE, !.ctl = r.ctl]
Seen(r)   == [In(r) EXCEPT !.announced = TRUE, !.arrived = TRUE]
Unseen(r) == [In(r) EXCEPT !.announced = r.announced]
Came(r)   == [Gated(r) EXCEPT !.arrived = TRUE]
Waited(r) == [Gated(r) EXCEPT !.late = TRUE]

\* An observation that begins.
LEMMA Begins ==
    ASSUME NEW r, r.submitted \in BOOLEAN, r.announced \in BOOLEAN, r.ctl \in BOOLEAN
    PROVE  /\ {Tried(r), Seen(r), Unseen(r), Came(r), Waited(r)} \subseteq Observation
           /\ ~Accuses(Tried(r)) /\ ~Accuses(Seen(r)) /\ ~Accuses(Came(r)) /\ (Accuses(Unseen(r)) => r.announced)
           /\ \A w \in {Tried(r), Seen(r), Unseen(r), Came(r), Waited(r)} : ~w.acted /\ ~w.session
<1>1. Tried(r) \in Observation
  BY NothingTyped, Observations DEF Tried
<1>2. In(r) \in Observation /\ Gated(r) \in Observation
  BY <1>1, Observations DEF In, Gated
<1>3. Seen(r) \in Observation /\ Unseen(r) \in Observation /\ Came(r) \in Observation /\ Waited(r) \in Observation
  BY <1>2, Observations DEF Seen, Unseen, Came, Waited
<1>4. ~Accuses(Tried(r)) /\ ~Accuses(Seen(r))
  BY DEF Tried, Seen, In, Nothing, Accuses
<1>5. ~Accuses(Came(r)) /\ (Accuses(Unseen(r)) => r.announced)
  BY DEF Came, Unseen, Gated, In, Tried, Nothing, Accuses
<1>6. ~Tried(r).acted /\ ~Tried(r).session
  BY DEF Tried, Nothing
<1>7. ~Seen(r).acted /\ ~Seen(r).session /\ ~Unseen(r).acted /\ ~Unseen(r).session
  BY DEF Seen, Unseen, In, Tried, Nothing
<1>8. ~Came(r).acted /\ ~Came(r).session /\ ~Waited(r).acted /\ ~Waited(r).session
  BY DEF Came, Waited, Gated, Tried, Nothing
<1>9. QED BY <1>1, <1>3, <1>4, <1>5, <1>6, <1>7, <1>8

\* The poll a signup calls for.
LEMMA SoundObserve == ASSUME Typed, LaunchInv, VerdictInv, NEW t \in Threads, Observe(t) PROVE VerdictInv'
<1>0. PICK s \in Ids : s = th[t].s
  BY Known
<1> DEFINE r == reg[s]
           o == Tried(r)
           seen == Seen(r)
           unseen == Unseen(r)
           came == Came(r)
           waits == Waited(r)
<1>1. th[t] \in Thread /\ th[t].pc = "poll" /\ th[t].out = Nothing /\ Memo(s)
  BY <1>0, Known DEF Observe, At, Calm, Places
<1>2. r.submitted \in BOOLEAN /\ r.session \in BOOLEAN /\ r.announced \in BOOLEAN /\ r.ctl \in BOOLEAN
  BY DEF Typed, TypeOK, DataTyped, Registration
<1>3. /\ o \in Observation /\ seen \in Observation /\ unseen \in Observation /\ came \in Observation /\ waits \in Observation
      /\ ~Accuses(o) /\ ~Accuses(seen) /\ ~Accuses(came) /\ (Accuses(unseen) => r.announced)
      /\ \A w \in {o, seen, unseen, came, waits} : ~w.acted /\ ~w.session
  BY <1>2, Begins
<1>4. (CASE ~r.submitted -> /\ Go(t, "capture")
                            /\ UNCHANGED <<app, memos, mail, site, tally, loop>>
         [] r.submitted /\ r.session -> Poll(t, s, "capture", "capture", seen, unseen)
         [] r.submitted /\ ~r.session /\ r.announced -> Poll(t, s, "follow", "resend", came, waits)
         [] OTHER -> Poll(t, s, "follow", "capture", came, o))
  BY <1>0 DEF Observe, Tried, Seen, Unseen, Came, Waited, In, Gated
<1>5. "capture" \in Places /\ "follow" \in Places /\ "resend" \in Places
  BY DEF Places
<1> HIDE DEF r, o, seen, unseen, came, waits
<1>6. /\ r.submitted => exists[s]
      /\ r.announced => Promises /\ (app.mails => Mailed(s, "confirm"))
  BY <1>1 DEF Memo, r
<1>7. CASE ~r.submitted
  <2> DEFINE y == [th[t] EXCEPT !.pc = "capture"]
  <2>0. /\ y \in Thread /\ y.pc = "capture" /\ y.s = s /\ y.back = th[t].back /\ y.ret = th[t].ret /\ y.out = Nothing
    BY <1>0, <1>1, <1>5, GoesOn
  <2>1. th' = [th EXCEPT ![t] = y] /\ UNCHANGED <<app, memos, mail, site, tally, loop>>
    BY <1>4, <1>7 DEF Go
  <2> HIDE DEF y
  <2>2. PICK x \in Thread : /\ th' = [th EXCEPT ![t] = x] /\ x.pc = "capture" /\ x.s = s /\ x.back = th[t].back
                            /\ x.ret = th[t].ret /\ x.out = Nothing
    BY <2>0, <2>1
  <2>3. Steady
    BY <2>1, SteadyMove DEF loop, Hung
  <2>4. ~Accuses(x.out) /\ ~x.out.acted /\ ~x.out.session
    BY <2>2 DEF Nothing, Accuses
  <2>5. Mail(x)'
    <3>1. /\ s = x.s /\ x.pc \in {"follow", "resend", "second", "capture"} /\ x.pc # "follow"
          /\ x.pc \notin {"resend", "second", "follow"}
      BY <2>2
    <3>2. QED BY <2>3, <2>4, <3>1, PollMail
  <2>6. x.s = th[t].s /\ x.pc \in {"capture", "follow", "resend", "second"}
    BY <1>0, <2>2
  <2>7. QED BY <1>1, <2>1, <2>2, <2>3, <2>4, <2>5, <2>6, PollMoves
<1>8. ASSUME NEW found \in {"capture", "follow"}, NEW empty \in {"capture", "resend"},
             NEW yes \in {seen, came}, NEW no \in {unseen, waits, o},
             Poll(t, s, found, empty, yes, no), r.submitted, Accuses(no) => r.announced
      PROVE  VerdictInv'
  <2>1. Steady /\ Polled(t, s, found, empty, yes, no)
    BY <1>3, <1>5, <1>8, Polls
  <2>2. PICK x \in Thread : /\ th' = [th EXCEPT ![t] = x] /\ x.s = th[t].s /\ x.back = th[t].back /\ x.ret = th[t].ret
                            /\ \/ inbox'[s] # "none" /\ x.pc = found /\ x.out = yes
                               \/ inbox[s] = "none" /\ x.pc = empty /\ x.out = no /\ missed'[s] = missed[s] \cup transit[s]
    BY <2>1 DEF Polled
  <2>3. ~x.out.acted /\ ~x.out.session
    BY <1>3, <2>2
  <2>4. Accuses(x.out) => Promises /\ (app.mails => "confirm" \in missed'[s])
    <3>1. CASE x.out = yes
      BY <1>3, <3>1
    <3>2. CASE x.out = no /\ inbox[s] = "none" /\ missed'[s] = missed[s] \cup transit[s]
      BY <1>6, <1>8, <3>2 DEF Mailed
    <3>3. QED BY <2>2, <3>1, <3>2
  <2>5. x.pc \in {"follow", "resend", "capture"} /\ (x.pc = "follow" => inbox'[s] # "none")
    BY <2>2
  <2>6. Mail(x)'
    BY <1>0, <1>6, <1>8, <2>1, <2>2, <2>3, <2>4, <2>5, PollMail
  <2>7. QED BY <1>1, <2>1, <2>2, <2>3, <2>5, <2>6, PollMoves
<1>9. CASE r.submitted /\ r.session
  <2>1. Poll(t, s, "capture", "capture", seen, unseen)
    BY <1>4, <1>9
  <2>2. QED BY <1>3, <1>8, <1>9, <2>1
<1>10. CASE r.submitted /\ ~r.session /\ r.announced
  <2>1. Poll(t, s, "follow", "resend", came, waits)
    BY <1>4, <1>10
  <2>2. QED BY <1>8, <1>10, <2>1
<1>11. CASE r.submitted /\ ~r.session /\ ~r.announced
  <2>1. Poll(t, s, "follow", "capture", came, o)
    BY <1>4, <1>11
  <2>2. QED BY <1>3, <1>8, <1>11, <2>1
<1>12. QED BY <1>2, <1>7, <1>9, <1>10, <1>11

\* The app's own resend control.
LEMMA SoundResend == ASSUME Typed, LaunchInv, VerdictInv, NEW t \in Threads, Resend(t) PROVE VerdictInv'
<1>0. PICK s \in Ids : s = th[t].s
  BY Known
<1> DEFINE m == IF app.resends THEN {"confirm"} ELSE {}
           y == [th[t] EXCEPT !.pc = "second"]
<1>1. th[t] \in Thread /\ th[t].pc = "resend" /\ Mail(th[t])
  BY Known DEF Resend, At
<1>2. UNCHANGED <<app, memos, inbox, missed, site, tally, loop>> /\ m \in SUBSET {"confirm"}
  BY DEF Resend
<1>3. UNCHANGED transit \/ Send(s, m)
  BY <1>0 DEF Resend
<1> HIDE DEF m
<1>4. Grows /\ (NoReset => \A i \in Ids : inbox'[i] # "reset" /\ "reset" \notin transit'[i])
  BY <1>2, <1>3, Confirms DEF site
<1>5. Steady
  <2>1. \A i \in Ids : Leaves(i)
    BY <1>2 DEF Leaves, memos
  <2>2. Hung' = Hung
    BY <1>2 DEF Hung, loop
  <2>3. QED BY <1>2, <1>4, <2>1, <2>2 DEF Steady, memos, site, loop
<1>6. "second" \in Places
  BY DEF Places
<1>7. y \in Thread /\ y.pc = "second" /\ y.s = s /\ y.back = th[t].back /\ y.ret = th[t].ret /\ y.out = th[t].out
  BY <1>0, <1>1, <1>6, GoesOn
<1>8. th' = [th EXCEPT ![t] = y]
  BY DEF Resend, Go
<1> HIDE DEF y
<1>9. PICK x \in Thread : /\ th' = [th EXCEPT ![t] = x] /\ x.pc = "second" /\ x.s = s /\ x.back = th[t].back
                          /\ x.ret = th[t].ret /\ x.out = th[t].out
  BY <1>7, <1>8
<1>10. /\ ~x.out.acted /\ exists[s]
       /\ Accuses(x.out) => Promises /\ (app.mails => "confirm" \in missed[s])
  BY <1>0, <1>1, <1>9 DEF Mail, Excused
<1>11. missed' = missed
  BY <1>2
<1>12. Mail(x)'
  BY <1>5, <1>9, <1>10, <1>11, PollMail
<1>13. QED BY <1>0, <1>1, <1>5, <1>9, <1>10, <1>12, PollMoves

\* The second leg of the poll.
LEMMA SoundSecondLeg == ASSUME Typed, LaunchInv, VerdictInv, NEW t \in Threads, SecondLeg(t) PROVE VerdictInv'
<1>0. PICK s \in Ids : s = th[t].s
  BY Known
<1> DEFINE no == th[t].out
           yes == [no EXCEPT !.arrived = TRUE]
<1>1. th[t] \in Thread /\ th[t].pc = "second" /\ Mail(th[t]) /\ no \in Observation
  BY Known, AtRest DEF SecondLeg, At
<1>2. yes \in Observation /\ ~Accuses(yes) /\ yes.acted = no.acted /\ yes.session = no.session
  <2>1. yes \in Observation
    BY <1>1, Observations
  <2>2. yes.arrived /\ yes.acted = no.acted /\ yes.session = no.session
    BY <1>1 DEF Observation
  <2>3. QED BY <2>1, <2>2 DEF Accuses
<1>3. "follow" \in Places /\ "capture" \in Places
  BY DEF Places
<1>4. Poll(t, s, "follow", "capture", yes, no)
  BY <1>0 DEF SecondLeg
<1>5. /\ ~no.acted /\ exists[s]
      /\ Accuses(no) => Promises /\ (app.mails => "confirm" \in missed[s])
  BY <1>0, <1>1 DEF Mail, Excused
<1> HIDE DEF yes
<1>6. Steady /\ Polled(t, s, "follow", "capture", yes, no)
  BY <1>1, <1>2, <1>3, <1>4, Polls
<1>7. PICK x \in Thread : /\ th' = [th EXCEPT ![t] = x] /\ x.s = th[t].s /\ x.back = th[t].back /\ x.ret = th[t].ret
                          /\ \/ inbox'[s] # "none" /\ x.pc = "follow" /\ x.out = yes
                             \/ inbox[s] = "none" /\ x.pc = "capture" /\ x.out = no /\ missed'[s] = missed[s] \cup transit[s]
  BY <1>6 DEF Polled
<1>8. ~x.out.acted /\ x.pc \in {"follow", "capture"} /\ (x.pc = "follow" => inbox'[s] # "none")
  BY <1>2, <1>5, <1>7
<1>9. Accuses(x.out) => Promises /\ (app.mails => "confirm" \in missed'[s])
  BY <1>2, <1>5, <1>7
<1>10. Mail(x)'
  BY <1>0, <1>5, <1>6, <1>7, <1>8, <1>9, PollMail
<1>11. QED BY <1>1, <1>6, <1>7, <1>8, <1>10, PollMoves

\* A session that was won is kept.
LEMMA SoundCapture == ASSUME Typed, LaunchInv, VerdictInv, NEW t \in Threads, Capture(t) PROVE VerdictInv'
<1>0. PICK s \in Ids : s = th[t].s
  BY Known
<1> DEFINE kept == th[t].out.session \/ reg[s].lane = "firebase_session"
           y == [th[t] EXCEPT !.pc = "store"]
<1>1. th[t] \in Thread /\ th[t].pc = "capture" /\ Mail(th[t]) /\ Kind(th[t], t) /\ Memo(s)
  BY <1>0, Known DEF Capture, At
<1>2. UNCHANGED <<app, reg, store, result, mail, site, tally, loop>>
  BY DEF Capture
<1>3. slot' = [slot EXCEPT ![s] = IF kept THEN <<"flow", s>> ELSE slot[s]]
  BY <1>0 DEF Capture
<1>4. acct' = [acct EXCEPT ![s] = IF kept /\ reg[s].lane = "httpx" THEN "closed" ELSE acct[s]]
  BY <1>0 DEF Capture
<1>5. kept => exists[s]
  BY <1>0, <1>1 DEF Mail, Memo
<1> HIDE DEF kept
<1>6. Grows /\ (NoReset => \A i \in Ids : inbox'[i] # "reset" /\ "reset" \notin transit'[i])
  BY <1>2 DEF Grows, VerdictInv, ResetInv, mail, site
<1>7. slot \in [Ids -> Person] /\ acct \in [Ids -> {"none", "open", "closed"}]
  BY DEF Typed, TypeOK, DataTyped
<1>8. /\ slot'[s] = slot[s] \/ exists[s]
      /\ acct'[s] = acct[s] \/ exists[s]
      /\ \A i \in Ids \ {s} : slot'[i] = slot[i] /\ acct'[i] = acct[i]
  BY <1>3, <1>4, <1>5, <1>7
<1>9. Memo(s)'
  <2>1. /\ Promises' = Promises /\ (Excused(s) => Excused(s)') /\ (Mailed(s, "confirm") => Mailed(s, "confirm")')
        /\ app' = app /\ exists' = exists
    BY <1>2, <1>6, Excuses DEF site
  <2>2. QED BY <1>1, <1>2, <1>8, <2>1 DEF Memo, Accuses
<1>10. Steady
  <2>1. \A i \in Ids \ {s} : Leaves(i)
    BY <1>2, <1>8 DEF Leaves
  <2>2. Hung' = Hung
    BY <1>2 DEF Hung, loop
  <2>3. QED BY <1>2, <1>6, <1>9, <2>1, <2>2 DEF Steady, site, loop
<1>11. y \in Thread /\ y.pc = "store" /\ y.s = s /\ y.back = th[t].back /\ y.ret = th[t].ret /\ y.out = th[t].out
  <2>1. "store" \in Places
    BY DEF Places
  <2>2. QED BY <1>0, <1>1, <2>1, GoesOn
<1>12. th' = [th EXCEPT ![t] = y]
  BY DEF Capture, Go
<1> HIDE DEF y
<1>13. PICK x \in Thread : /\ th' = [th EXCEPT ![t] = x] /\ x.pc = "store" /\ x.s = s /\ x.back = th[t].back
                           /\ x.ret = th[t].ret /\ x.out = th[t].out
  BY <1>11, <1>12
<1>14. Mail(x)'
  <2>1. /\ Accuses(x.out) => Excused(s)
        /\ x.out.session => exists[s]
    BY <1>0, <1>1, <1>13 DEF Mail, Excused
  <2>2. (Excused(s) => Excused(s)') /\ exists' = exists
    BY <1>2, <1>6, Excuses DEF site
  <2>3. QED BY <1>13, <2>1, <2>2 DEF Mail, Accuses, Excused
<1>15. Kind(x, t) /\ Flows(x, t)
  BY <1>0, <1>1, <1>13 DEF Kind, Flows, Flowing
<1>16. Works /\ NoReset => Honest(x.out)
  BY <1>13 DEF VerdictInv, HonestInv
<1>17. QED BY <1>10, <1>13, <1>14, <1>15, <1>16, SteadyMoves

\* What a thread comes to that opens the link of s.
Opened(t, s) ==
    \E x \in Thread :
       /\ th' = [th EXCEPT ![t] = x] /\ x.pc \in {"capture", "store"} /\ x.s = s /\ x.back = th[t].back /\ x.ret = th[t].ret
       /\ Accuses(x.out) => Accuses(th[t].out)
       /\ Works /\ NoReset => Honest(x.out)
       /\ \A i \in Ids \ {s} : used'[i] = used[i]

\* With no thread abandoned the link is opened for the first time.
LEMMA Opens ==
    ASSUME Typed, LaunchInv, VerdictInv, NEW t \in Threads, Follow(t), NEW s \in Ids, s = th[t].s
    PROVE  Opened(t, s)
<1> DEFINE works == inbox[s] = "confirm" /\ app.link # "inert" /\ ~(app.once /\ used[s])
           sess == works \/ LoggedIn(s)
           closed == reg[s].lane = "httpx" /\ acct[s] = "closed"
<1>1. /\ th[t] \in Thread /\ th[t].pc = "follow" /\ Mail(th[t]) /\ th[t].out \in Observation
      /\ "store" \in Places /\ "capture" \in Places /\ used \in [Ids -> BOOLEAN]
  BY Known, AtRest DEF Follow, At, Places, Typed, TypeOK, DataTyped
<1>2. CASE closed
  <2> DEFINE x == [th[t] EXCEPT !.pc = "store", !.out = Nothing]
  <2>1. x \in Thread /\ x.pc = "store" /\ x.s = s /\ x.back = th[t].back /\ x.ret = th[t].ret /\ x.out = Nothing
    BY <1>1, NothingTyped DEF Thread
  <2>2. th' = [th EXCEPT ![t] = x] /\ used' = used
    BY <1>2 DEF Follow
  <2> HIDE DEF x
  <2>3. ~Accuses(Nothing) /\ Honest(Nothing)
    BY DEF Accuses, Honest, Nothing
  <2>4. QED BY <2>1, <2>2, <2>3 DEF Opened
<1>3. CASE ~closed
  <2>1. PICK ok \in (IF app.link = "code" THEN {FALSE, reg[s].lane # "browser"} ELSE {TRUE}) :
           /\ th' = [th EXCEPT ![t].pc = "capture", ![t].out.acted = ok, ![t].out.session = ok /\ sess]
           /\ used' = [used EXCEPT ![s] = used[s] \/ inbox[s] = "confirm"]
    BY <1>3 DEF Follow
  <2>2. ok \in BOOLEAN
    OBVIOUS
  <2> DEFINE out == [th[t].out EXCEPT !.acted = ok, !.session = ok /\ sess]
             x == [th[t] EXCEPT !.pc = "capture", !.out = out]
  <2>3. out \in Observation
    BY <1>1, <2>2, Observations
  <2>4. th' = [th EXCEPT ![t] = x]
    <3>1. [th[t] EXCEPT !.pc = "capture", !.out.acted = ok, !.out.session = ok /\ sess] = x
      BY <1>1 DEF Thread
    <3>2. th' = [th EXCEPT ![t] = [th[t] EXCEPT !.pc = "capture", !.out.acted = ok, !.out.session = ok /\ sess]]
      BY <2>1 DEF Typed, LoopTyped
    <3>3. QED BY <3>1, <3>2
  <2>5. /\ out.arrived = th[t].out.arrived /\ out.gated = th[t].out.gated
        /\ out.atSignup = th[t].out.atSignup /\ out.announced = th[t].out.announced
    BY <1>1 DEF Observation
  <2>6. out.acted = ok /\ (out.session <=> ok /\ sess)
    BY <1>1 DEF Observation
  <2> HIDE DEF out
  <2>7. x \in Thread /\ x.pc = "capture" /\ x.s = s /\ x.back = th[t].back /\ x.ret = th[t].ret /\ x.out = out
    BY <1>1, <2>3 DEF Thread
  <2> HIDE DEF x
  <2>8. Accuses(out) => Accuses(th[t].out)
    BY <2>5 DEF Accuses
  <2>9. ASSUME Works, NoReset
        PROVE  Honest(out)
    <3>1. ~used[s] \/ ~app.once
      BY <1>1, <2>9 DEF VerdictInv, OnceInv, Flowing, Works
    <3>2. inbox[s] # "none" /\ inbox[s] # "reset" /\ inbox[s] \in {"none", "confirm", "reset"}
      BY <1>1, <2>9 DEF Mail, VerdictInv, ResetInv, Typed, TypeOK, DataTyped
    <3>3. works \/ app.link = "inert"
      BY <3>1, <3>2
    <3>4. QED BY <2>6, <3>3 DEF Honest
  <2>10. \A i \in Ids \ {s} : used'[i] = used[i]
    BY <1>1, <2>1
  <2>11. QED BY <2>4, <2>7, <2>8, <2>9, <2>10 DEF Opened
<1>4. QED BY <1>2, <1>3

\* A link that was opened stays so.
LEMMA StaysUsed == ASSUME Typed, NEW t \in Threads, Follow(t) PROVE \A i \in Ids : used[i] => used'[i]
<1>1. used \in [Ids -> BOOLEAN]
  BY DEF Typed, TypeOK, DataTyped
<1>2. CASE used' = used
  BY <1>2
<1>3. CASE used' = [used EXCEPT ![th[t].s] = used[th[t].s] \/ inbox[th[t].s] = "confirm"]
  <2>1. ASSUME NEW i \in Ids, used[i]
        PROVE  used'[i]
    <3>1. CASE i = th[t].s
      <4>1. used'[i] = (used[i] \/ inbox[i] = "confirm")
        BY <1>1, <1>3, <3>1
      <4>2. QED BY <2>1, <4>1
    <3>2. CASE i # th[t].s
      <4>1. used'[i] = used[i]
        BY <1>1, <1>3, <3>2
      <4>2. QED BY <2>1, <4>1
    <3>3. QED BY <3>1, <3>2
  <2>2. QED BY <2>1
<1>4. QED BY <1>2, <1>3 DEF Follow

\* The link is opened.
LEMMA SoundFollow == ASSUME Typed, LaunchInv, LiveInv, VerdictInv, NEW t \in Threads, Follow(t) PROVE VerdictInv'
<1>0. PICK s \in Ids : s = th[t].s
  BY Known
<1>1. th[t] \in Thread /\ th[t].pc = "follow" /\ Mail(th[t]) /\ Kind(th[t], t)
  BY Known DEF Follow, At
<1>2. UNCHANGED <<app, memos, mail, exists, tally, loop>>
  BY DEF Follow
<1>3. Opened(t, s)
  BY <1>0, Opens
<1>4. PICK x \in Thread :
         /\ th' = [th EXCEPT ![t] = x] /\ x.pc \in {"capture", "store"} /\ x.s = s /\ x.back = th[t].back /\ x.ret = th[t].ret
         /\ Accuses(x.out) => Accuses(th[t].out)
         /\ Works /\ NoReset => Honest(x.out)
         /\ \A i \in Ids \ {s} : used'[i] = used[i]
  BY <1>3 DEF Opened
<1>5. Grows /\ app' = app /\ Hung' = Hung /\ running' = running /\ result' = result
  BY <1>2, StaysUsed DEF Grows, mail, memos, loop, Hung
<1>6. Mail(x)'
  <2>1. /\ Accuses(x.out) => Excused(s)
        /\ exists[s]
    BY <1>0, <1>1, <1>4 DEF Mail, Excused
  <2>2. (Excused(s) => Excused(s)') /\ exists' = exists
    BY <1>2, <1>5, Excuses
  <2>3. QED BY <1>4, <2>1, <2>2 DEF Mail, Accuses, Excused
<1>7. Kind(x, t)
  BY <1>1, <1>4 DEF Kind
<1>8. MemoInv' /\ MailInv'
  <2>1. \A i \in Ids : Leaves(i)
    BY <1>2 DEF Leaves, memos
  <2>2. QED BY <1>4, <1>5, <1>6, <1>7, <2>1, MailMoves DEF VerdictInv
<1>9. ResetInv'
  BY <1>2, <1>5 DEF VerdictInv, ResetInv, NoReset, mail
<1>10. HonestInv'
  <2>1. Works /\ NoReset => Honest(x.out) /\ \A i \in Ids : Honest(result'[i])
    BY <1>4, <1>5 DEF VerdictInv, HonestInv
  <2>2. QED BY <1>4, <1>5, <2>1, HonestMoves DEF VerdictInv
<1>11. OnceInv'
  <2> SUFFICES ASSUME Hung = {}
               PROVE  /\ \A u \in Threads : ~Flowing(th[u])'
                      /\ \A i \in Ids : used'[i] => Followed(i)'
    BY <1>5 DEF OnceInv
  <2>1. th'[t] = x /\ \A u \in Threads : u # t => th'[u] = th[u]
    BY <1>4 DEF Typed, LoopTyped
  <2>2. ASSUME NEW u \in Threads
        PROVE  ~Flowing(th[u])'
    <3>1. CASE u = t
      BY <1>4, <2>1, <3>1 DEF Flowing
    <3>2. CASE u # t
      <4>1. th[u].pc = "idle"
        BY <1>1, <3>2, OneWorks
      <4>2. QED BY <2>1, <3>2, <4>1 DEF Flowing
    <3>3. QED BY <3>1, <3>2
  <2>3. Followed(s)'
    BY <1>4, <2>1 DEF Followed
  <2>4. ASSUME NEW i \in Ids \ {s}, used'[i]
        PROVE  Followed(i)'
    <3>1. Followed(i)
      BY <1>4, <2>4 DEF VerdictInv, OnceInv
    <3>2. CASE result[i].done
      BY <1>5, <3>2 DEF Followed
    <3>3. CASE \E u \in Threads : th[u].pc \in {"capture", "store"} /\ th[u].s = i
      <4>1. PICK u \in Threads : th[u].pc \in {"capture", "store"} /\ th[u].s = i
        BY <3>3
      <4>2. th'[u] = th[u]
        BY <1>1, <2>1, <4>1
      <4>3. QED BY <4>1, <4>2 DEF Followed
    <3>4. QED BY <3>1, <3>2, <3>3 DEF Followed
  <2>5. QED BY <2>2, <2>3, <2>4
<1>12. QED BY <1>8, <1>9, <1>10, <1>11 DEF VerdictInv

\* What was observed is memoised.
LEMMA SoundStore == ASSUME Typed, LaunchInv, VerdictInv, NEW t \in Threads, Store(t) PROVE VerdictInv'
<1>0. PICK s \in Ids : s = th[t].s
  BY Known
<1> DEFINE o == [th[t].out EXCEPT !.done = TRUE]
           y == [th[t] EXCEPT !.pc = th[t].ret, !.back = th[t].ret, !.out = Nothing]
<1>1. /\ th[t] \in Thread /\ th[t].pc = "store" /\ Mail(th[t]) /\ Kind(th[t], t) /\ th[t].ret \in Backs /\ Memo(s)
      /\ th[t].ret \in Places /\ th[t].ret \in Calm /\ th[t].out \in Observation
  BY <1>0, Known, AtRest, BacksCalm DEF Store, At, Calm
<1>2. UNCHANGED <<app, reg, acct, store, slot, mail, site, launches, loop>>
  BY DEF Store
<1>3. /\ o.done /\ o.arrived = th[t].out.arrived /\ o.gated = th[t].out.gated /\ o.atSignup = th[t].out.atSignup
      /\ o.announced = th[t].out.announced /\ o.acted = th[t].out.acted /\ o.session = th[t].out.session
  BY <1>1 DEF Observation
<1>4. result' = [result EXCEPT ![s] = o] /\ result \in [Ids -> Observation]
  BY <1>0 DEF Store, Typed, TypeOK, DataTyped
<1> HIDE DEF o
<1>5. result'[s] = o /\ \A i \in Ids \ {s} : result'[i] = result[i]
  BY <1>4
<1>6. y \in Thread /\ y.pc = th[t].ret /\ y.s = s /\ y.back = th[t].ret /\ y.ret = th[t].ret /\ y.out = Nothing
  BY <1>0, <1>1, NothingTyped DEF Thread
<1>7. th' = [th EXCEPT ![t] = y]
  BY DEF Store
<1> HIDE DEF y
<1>8. PICK x \in Thread : /\ th' = [th EXCEPT ![t] = x] /\ x.pc = th[t].ret /\ x.s = s /\ x.back = th[t].ret
                          /\ x.ret = th[t].ret /\ x.out = Nothing
  BY <1>6, <1>7
<1>9. Grows /\ app' = app /\ Hung' = Hung /\ running' = running
  BY <1>2 DEF Grows, mail, site, loop, Hung
<1>10. Mail(x)' /\ Honest(x.out)
  BY <1>1, <1>8, CalmMail
<1>11. Kind(x, t) /\ ~Flowing(x)
  BY <1>1, <1>8 DEF Kind, Flowing, Backs
<1>12. Memo(s)'
  <2>1. Accuses(th[t].out) => Excused(s)
    BY <1>0, <1>1 DEF Mail, Excused
  <2>2. Accuses(result'[s]) => Accuses(th[t].out)
    BY <1>3, <1>5 DEF Accuses
  <2>3. /\ Promises' = Promises /\ (Excused(s) => Excused(s)') /\ (Mailed(s, "confirm") => Mailed(s, "confirm")')
        /\ app' = app /\ exists' = exists
    BY <1>2, <1>9, Excuses DEF site
  <2>4. QED BY <1>1, <1>2, <2>1, <2>2, <2>3 DEF Memo, Accuses
<1>13. MemoInv' /\ MailInv'
  <2>1. \A i \in Ids \ {s} : Leaves(i)
    BY <1>2, <1>5 DEF Leaves
  <2>2. \A i \in Ids : Leaves(i) \/ Memo(i)'
    BY <1>12, <2>1
  <2>3. QED BY <1>8, <1>9, <1>10, <1>11, <2>2, MailMoves DEF VerdictInv
<1>14. ResetInv'
  BY <1>2, <1>9 DEF VerdictInv, ResetInv, NoReset, mail
<1>15. HonestInv'
  <2>1. ASSUME Works, NoReset
        PROVE  Honest(x.out) /\ \A i \in Ids : Honest(result'[i])
    <3>1. Honest(o)
      BY <1>3, <2>1 DEF VerdictInv, HonestInv, Honest
    <3>2. QED BY <1>5, <1>10, <2>1, <3>1 DEF VerdictInv, HonestInv
  <2>2. QED BY <1>8, <1>9, <2>1, HonestMoves DEF VerdictInv
<1>16. OnceInv'
  <2> SUFFICES ASSUME Hung = {}
               PROVE  /\ \A u \in Threads : Flowing(th[u])' => ~used'[th'[u].s]
                      /\ \A i \in Ids : used'[i] => Followed(i)'
    BY <1>9 DEF OnceInv
  <2>1. th'[t] = x /\ (\A u \in Threads : u # t => th'[u] = th[u]) /\ used' = used
    BY <1>2, <1>8 DEF Typed, LoopTyped, site
  <2>2. ASSUME NEW u \in Threads, Flowing(th[u])'
        PROVE  ~used'[th'[u].s]
    <3>1. u # t
      BY <1>11, <2>1, <2>2 DEF Flowing
    <3>2. Flowing(th[u]) /\ th'[u] = th[u]
      BY <2>1, <2>2, <3>1 DEF Flowing
    <3>3. QED BY <2>1, <3>2 DEF VerdictInv, OnceInv
  <2>3. Followed(s)'
    BY <1>3, <1>5 DEF Followed
  <2>4. ASSUME NEW i \in Ids \ {s}, used'[i]
        PROVE  Followed(i)'
    <3>1. Followed(i)
      BY <2>1, <2>4 DEF VerdictInv, OnceInv
    <3>2. CASE result[i].done
      BY <1>5, <3>2 DEF Followed
    <3>3. CASE \E u \in Threads : th[u].pc \in {"capture", "store"} /\ th[u].s = i
      <4>1. PICK u \in Threads : th[u].pc \in {"capture", "store"} /\ th[u].s = i
        BY <3>3
      <4>2. th'[u] = th[u]
        BY <1>0, <2>1, <4>1
      <4>3. QED BY <4>1, <4>2 DEF Followed
    <3>4. QED BY <3>1, <3>2, <3>3 DEF Followed
  <2>5. QED BY <2>2, <2>3, <2>4
<1>17. QED BY <1>13, <1>14, <1>15, <1>16 DEF VerdictInv

-----------------------------------------------------------------------------
(* The verdicts, and the battery.                                          *)

\* A thread that ends has observed nothing.
LEMMA SoundEnd ==
    ASSUME Typed, LaunchInv, LiveInv, VerdictInv, NEW t \in Threads, th[t].pc \notin {"idle", "capture", "store"},
           NEW v \in Verdicts \ {"none", "hung"}, End(t, v), UNCHANGED <<app, memos, mail, site, tally, running>>
    PROVE  VerdictInv' /\ Hung' = Hung
<1>1. Idle \in Thread /\ Idle.pc = "idle" /\ th' = [th EXCEPT ![t] = Idle]
  BY IdleTyped DEF End
<1>2. verdict' = [p \in Probes |-> IF p = t /\ verdict[p] = "none" THEN v ELSE verdict[p]]
  BY DEF End
<1>3. Hung' = Hung
  BY <1>1, <1>2, LiveKept DEF Typed
<1>4. Steady
  BY <1>3, SteadyMove
<1>5. PICK x \in Thread : x = Idle
  BY <1>1
<1>6. x.pc = "idle" /\ x.back = "idle" /\ x.ret = "idle" /\ x.out = Nothing /\ x.s = "me"
  BY <1>5 DEF Idle
<1>7. Mail(x)' /\ Honest(x.out)
  BY <1>6, CalmMail DEF Calm, Places
<1>8. Kind(x, t) /\ Flows(x, t)
  BY <1>6 DEF Kind, Flows, Flowing
<1>9. QED BY <1>1, <1>3, <1>4, <1>5, <1>7, <1>8, SteadyMoves

\* The link of the mail that the app sent its user was dead, a reset's or a confirmation's.
LinkIsDead ==
    /\ app.forgot = "site" /\ exists["me"]
    /\ ~app.alive \/ ((app.mails \/ app.resends) /\ (app.link = "inert" \/ (app.once /\ used["me"])))

\* A verdict is added that is right about the app.
LEMMA VerdictsEnd ==
    ASSUME VerdictsAreReal, NEW t \in Threads, NEW v, End(t, v), UNCHANGED <<app, exists, missed, used>>, Hung' = Hung,
           v \in {"lockout", "broken promise"} => Excused("me"),
           v = "inert" /\ t \in Probes /\ verdict[t] = "none" => app.link = "inert" \/ (app.once /\ Hung # {}),
           v = "no reset mail" => ResetMissed,
           v = "dead link" => LinkIsDead
    PROVE  VerdictsAreReal'
<1>1. \A p \in Probes : verdict'[p] = verdict[p] \/ (verdict'[p] = v /\ p = t /\ verdict[t] = "none")
  BY DEF End
<1>2. \A w : Said(w)' => Said(w) \/ (w = v /\ t \in Probes /\ verdict[t] = "none")
  BY <1>1 DEF Said
<1>3. Promises' = Promises
  BY DEF Promises, FormReply, MagicReply
<1>4. LockoutIsReal'
  BY <1>2, <1>3 DEF VerdictsAreReal, LockoutIsReal, Excused
<1>5. InertIsReal'
  BY <1>2 DEF VerdictsAreReal, InertIsReal
<1>6. ResetLockoutIsReal'
  BY <1>2 DEF VerdictsAreReal, ResetLockoutIsReal, ResetMissed
<1>7. DeadLinkIsReal'
  BY <1>2 DEF VerdictsAreReal, DeadLinkIsReal, LinkIsDead
<1>8. QED BY <1>4, <1>5, <1>6, <1>7 DEF VerdictsAreReal

\* A verdict that accuses nobody.
LEMMA HarmlessEnd ==
    ASSUME Typed, LaunchInv, LiveInv, VerdictInv, VerdictsAreReal, NEW t \in Threads,
           th[t].pc \notin {"idle", "capture", "store"},
           NEW v \in {"na", "tested", "raised", "clean"}, End(t, v),
           UNCHANGED <<app, memos, mail, site, tally, running>>
    PROVE  VerdictInv' /\ VerdictsAreReal'
<1>1. v \in Verdicts \ {"none", "hung"}
  BY DEF Verdicts
<1>2. VerdictInv' /\ Hung' = Hung
  BY <1>1, SoundEnd
<1>3. VerdictsAreReal'
  BY <1>2, VerdictsEnd DEF mail, site
<1>4. QED BY <1>2, <1>3

\* An account is had.
LEMMA SoundHave ==
    ASSUME Typed, LaunchInv, LiveInv, VerdictInv, VerdictsAreReal, NEW t \in Threads, th[t].pc \in {"register", "session", "user"},
           NEW user \in Person, Have(t, user), UNCHANGED <<app, memos, mail, site, tally, running>>
    PROVE  VerdictInv' /\ VerdictsAreReal'
<1>1. CASE th[t].id = "a"
  <2> DEFINE y == [Idle EXCEPT !.pc = "register", !.id = "b", !.got = <<user>>]
  <2>1. th' = [th EXCEPT ![t] = y] /\ UNCHANGED <<verdict, users>>
    BY <1>1 DEF Have
  <2>2. y \in Thread
    BY SecondThread
  <2>3. y.pc = "register" /\ y.back = "idle" /\ y.ret = "idle" /\ y.out = Nothing
    BY DEF Idle
  <2> HIDE DEF y
  <2>4. PICK x \in Thread : /\ th' = [th EXCEPT ![t] = x]
                            /\ x.pc = "register" /\ x.back = "idle" /\ x.ret = "idle" /\ x.out = Nothing
    BY <2>1, <2>2, <2>3
  <2>5. Hung' = Hung
    BY <2>1 DEF Hung
  <2>6. Steady
    BY <2>5, SteadyMove
  <2>7. Kind(x, t) /\ ~Flowing(x)
    BY <2>4 DEF Kind, Flowing
  <2>8. th[t].pc \in Calm /\ x.pc \in Calm
    BY <2>4 DEF Calm, Places
  <2>9. VerdictInv'
    BY <2>4, <2>6, <2>7, <2>8, CalmMoves
  <2>10. Grows
    BY <2>6 DEF Steady
  <2>11. VerdictsAreReal'
    BY <2>1, <2>10, VerdictsKept
  <2>12. QED BY <2>9, <2>11
<1>2. CASE th[t].id # "a"
  <2>1. PICK v \in {"na", "tested"} : End(t, v)
    BY <1>2 DEF Have
  <2>2. QED BY <2>1, HarmlessEnd
<1>3. QED BY <1>1, <1>2

\* register(): an account is had, or the next way to one is tried.
LEMMA SoundAccounts ==
    ASSUME Typed, LaunchInv, LiveInv, VerdictInv, VerdictsAreReal, NEW t \in Threads, Register(t) \/ Session(t) \/ User(t)
    PROVE  VerdictInv' /\ VerdictsAreReal'
<1>1. UNCHANGED <<app, memos, mail, site, tally, running>> /\ th[t].id \in Ids /\ slot \in [Ids -> Person] /\ "me" \in Ids
  BY AtRest DEF Register, Session, User, Typed, TypeOK, DataTyped, Ids
<1>2. th[t].pc \in {"register", "session", "user"}
  BY DEF Register, Session, User, At
<1>3. \/ \E user \in Person : Have(t, user)
      \/ UNCHANGED <<verdict, users>> /\ \/ th[t].pc = "register" /\ Go(t, "gate")
                                         \/ th[t].pc = "session" /\ Go(t, "spa")
  <2>1. slot["me"] \in Person /\ slot[th[t].id] \in Person /\ NoUser \in Person
    BY <1>1 DEF Person, NoUser
  <2>2. <<"fresh", th[t].id>> \in Person /\ <<"browser", th[t].id>> \in Person /\ <<"baas", th[t].id>> \in Person
    BY <1>1 DEF Person
  <2>3. CASE Register(t)
    BY <2>1, <2>2, <2>3 DEF Register, At
  <2>4. CASE Session(t)
    BY <2>1, <2>4 DEF Session, At
  <2>5. CASE User(t)
    BY <2>1, <2>2, <2>5 DEF User
  <2>6. QED BY <2>3, <2>4, <2>5
<1>4. CASE \E user \in Person : Have(t, user)
  BY <1>1, <1>2, <1>4, SoundHave
<1>5. CASE UNCHANGED <<verdict, users>> /\ (\/ th[t].pc = "register" /\ Go(t, "gate")
                                            \/ th[t].pc = "session" /\ Go(t, "spa"))
  <2>1. Hung' = Hung
    BY <1>5 DEF Hung
  <2>2. Steady
    BY <1>1, <2>1, SteadyMove
  <2>3. VerdictInv'
    BY <1>5, <2>2, SignsOn DEF Go
  <2>4. VerdictsAreReal'
    BY <1>5, <2>2, VerdictsKept DEF Steady
  <2>5. QED BY <2>3, <2>4
<1>6. QED BY <1>3, <1>4, <1>5

\* Whoever works has been started.
LEMMA Started ==
    ASSUME Typed, LiveInv, NEW t \in Threads, th[t].pc # "idle"
    PROVE  t <= running
  BY ThreadsFinite DEF LiveInv, Hung, Typed, LoopTyped, Threads, Probes

\* An observation with which the mail flow accuses an app.
LEMMA JudgeAccuses ==
    ASSUME NEW o \in Observation
    PROVE  /\ Never(o) \in {"lockout", "broken promise"} => Accuses(o)
           /\ Never(o) \notin {"inert", "no reset mail", "dead link"}
           /\ Inert(o) \notin {"lockout", "broken promise", "no reset mail", "dead link"}
           /\ Inert(o) = "inert" /\ Honest(o) => app.link = "inert"
<1>1. /\ o.attempted \in BOOLEAN /\ o.gated \in BOOLEAN /\ o.atSignup \in BOOLEAN /\ o.announced \in BOOLEAN
      /\ o.arrived \in BOOLEAN /\ o.late \in BOOLEAN /\ o.ctl \in BOOLEAN /\ o.acted \in BOOLEAN /\ o.session \in BOOLEAN
  BY DEF Observation
<1>2. Never(o) \in {"lockout", "broken promise"} => Accuses(o)
  BY <1>1 DEF Never, Accuses
<1>3. Never(o) \notin {"inert", "no reset mail", "dead link"}
  BY <1>1 DEF Never
<1>4. Inert(o) \in {"na", "clean", "inert"}
  BY <1>1 DEF Inert
<1>5. Inert(o) = "inert" => o.gated /\ o.arrived /\ o.acted /\ ~o.session
  BY <1>1 DEF Inert
<1>6. QED BY <1>2, <1>3, <1>4, <1>5 DEF Honest

\* A probe without a verdict is the one the battery is at.
LEMMA Judges ==
    ASSUME Typed, LiveInv, NEW t \in Probes, th[t].pc # "idle", verdict[t] = "none"
    PROVE  t = running
  BY Started, ThreadsFinite DEF LiveInv, Hung, Typed, LoopTyped, Threads, Probes

\* email_never_arrives and email_verification_inert.
LEMMA SoundJudge ==
    ASSUME Typed, LaunchInv, LiveInv, VerdictInv, VerdictsAreReal, NEW t \in Threads, Judge(t)
    PROVE  VerdictInv' /\ VerdictsAreReal'
<1> DEFINE o == result["me"]
           v == IF Battery[t] = "never" THEN Never(o) ELSE Inert(o)
<1>1. o \in Observation /\ "me" \in Ids /\ Memo("me")
  BY DEF Typed, TypeOK, DataTyped, Ids, VerdictInv, MemoInv
<1>2. v \in Verdicts \ {"none", "hung"}
  BY <1>1, JudgeTyped
<1>3. th[t].pc = "judge" /\ End(t, v) /\ UNCHANGED <<app, memos, mail, site, tally, running, users>>
  BY DEF Judge, At
<1>4. t \in Probes /\ Battery[t] \in {"never", "inert"}
  BY <1>3, Known DEF Kind
<1>5. v \in {"lockout", "broken promise"} => Excused("me")
  <2>1. v \in {"lockout", "broken promise"} => Accuses(o)
    BY <1>1, JudgeAccuses
  <2>2. QED BY <1>1, <2>1 DEF Memo
<1>6. ASSUME v = "inert", Works, verdict[t] = "none"
      PROVE  app.link = "inert"
  <2>1. t = running
    BY <1>3, <1>4, <1>6, Judges
  <2>2. Probes = DOMAIN Battery
    BY AccountsAssumption DEF AccountsAssumption, Probes
  <2>3. NoReset
    BY <1>4, <2>1, <2>2, AccountsAssumption DEF AccountsAssumption, NoReset
  <2>4. Honest(o)
    BY <1>1, <1>6, <2>3 DEF VerdictInv, HonestInv
  <2>5. v = Never(o) \/ v = Inert(o)
    OBVIOUS
  <2> HIDE DEF v, o
  <2>6. QED BY <1>1, <1>6, <2>4, <2>5, JudgeAccuses
<1>7. v # "no reset mail"
  BY <1>1, JudgeAccuses
<1>11. v # "dead link"
  BY <1>1, JudgeAccuses
<1>12. v = "inert" /\ verdict[t] = "none" => app.link = "inert" \/ (app.once /\ Hung # {})
  BY <1>6 DEF Works
<1> HIDE DEF v
<1>8. VerdictInv' /\ Hung' = Hung
  BY <1>2, <1>3, SoundEnd
<1>9. VerdictsAreReal'
  BY <1>3, <1>5, <1>7, <1>8, <1>11, <1>12, VerdictsEnd DEF mail, site
<1>10. QED BY <1>8, <1>9

\* No mail of the reset came.
LEMMA SoundLockout ==
    ASSUME Typed, LaunchInv, LiveInv, VerdictInv, VerdictsAreReal, NEW t \in Threads, ResetLockout(t)
    PROVE  VerdictInv' /\ VerdictsAreReal'
<1>1. /\ th[t].pc = "no reset mail" /\ End(t, "no reset mail")
      /\ UNCHANGED <<app, memos, mail, site, tally, running, users>>
  BY DEF ResetLockout, At
<1>2. ResetMissed /\ "no reset mail" \in Verdicts \ {"none", "hung"}
  BY <1>1, Known DEF Mail, Verdicts
<1>3. VerdictInv' /\ Hung' = Hung
  BY <1>1, <1>2, SoundEnd
<1>4. VerdictsAreReal'
  BY <1>1, <1>2, <1>3, VerdictsEnd DEF mail, site
<1>5. QED BY <1>3, <1>4

\* The link of the reset is opened.
LEMMA SoundOpenReset ==
    ASSUME Typed, LaunchInv, LiveInv, VerdictInv, SentInv, VerdictsAreReal, NEW t \in Threads, OpenReset(t)
    PROVE  VerdictInv' /\ VerdictsAreReal'
<1>1. PICK v : v = IF app.forgot = "site" /\ ~(IF inbox["me"] = "reset" THEN app.alive ELSE app.link # "inert" /\ ~(app.once /\ used["me"]))
                   THEN "dead link" ELSE "clean"
  OBVIOUS
<1>2. End(t, v)
  BY <1>1 DEF OpenReset
<1>3. th[t].pc = "open" /\ UNCHANGED <<app, memos, mail, site, tally, running>>
  BY DEF OpenReset, At
<1>4. v \in Verdicts \ {"none", "hung"} /\ v \in {"dead link", "clean"}
  BY <1>1 DEF Verdicts
<1>5. VerdictInv' /\ Hung' = Hung
  BY <1>2, <1>3, <1>4, SoundEnd
<1>6. /\ exists["me"]
      /\ inbox["me"] # "reset" => app.mails \/ app.resends
  <2>1. inbox["me"] # "none" /\ inbox["me"] \in {"none", "confirm", "reset"} /\ "me" \in Ids
    BY <1>3, Known DEF Mail, Typed, TypeOK, DataTyped, Ids
  <2>2. QED BY <2>1 DEF SentInv, Due
<1>7. v = "dead link" => LinkIsDead
  BY <1>1, <1>6 DEF LinkIsDead
<1>8. VerdictsAreReal'
  BY <1>2, <1>3, <1>4, <1>5, <1>7, VerdictsEnd DEF mail, site
<1>9. QED BY <1>5, <1>8

\* _run_reset_flow asks for a reset, of an account that is there.
LEMMA SoundRecover ==
    ASSUME Typed, LaunchInv, LiveInv, VerdictInv, VerdictsAreReal, NEW t \in Threads, Recover(t)
    PROVE  VerdictInv' /\ VerdictsAreReal'
<1> DEFINE none == ~Plausible("me") \/ app.forgot = "none"
           raises == ~none /\ app.forgot = "site" /\ acct["me"] = "closed"
           m == IF app.resets /\ exists["me"] THEN {"reset"} ELSE {}
           y == [th[t] EXCEPT !.pc = "wait"]
<1>1. /\ th[t] \in Thread /\ th[t].pc = "recover" /\ Kind(th[t], t) /\ th[t].out = Nothing /\ "wait" \in Places
      /\ "me" \in Ids /\ Memo("me")
  BY Known DEF Recover, At, Calm, Places, Ids, VerdictInv, MemoInv
<1>2. UNCHANGED <<app, memos, inbox, missed, site, tally, running, users>>
  BY DEF Recover
<1>3. CASE none \/ raises
  <2>1. PICK v \in {"na", "raised"} : End(t, v) /\ UNCHANGED transit
    BY <1>3 DEF Recover
  <2>2. UNCHANGED <<app, memos, mail, site, tally, running>>
    BY <1>2, <2>1 DEF mail
  <2>3. QED BY <1>1, <2>1, <2>2, HarmlessEnd
<1>4. CASE ~none /\ ~raises
  <2>1. Go(t, "wait") /\ Send("me", m) /\ UNCHANGED verdict
    BY <1>4 DEF Recover
  <2>2. transit' = [transit EXCEPT !["me"] = transit["me"] \cup m] /\ transit \in [Ids -> SUBSET {"confirm", "reset"}]
    BY <2>1 DEF Send, Typed, TypeOK, DataTyped
  <2>3. m \subseteq transit'["me"] /\ \A i \in Ids : transit[i] \subseteq transit'[i]
    BY <1>1, <2>2
  <2>4. Grows
    BY <1>2, <2>3 DEF Grows, site
  <2>5. app.crawled \/ exists["me"]
    BY <1>1, <1>4 DEF Plausible, Memo
  <2>6. ResetSent'
    BY <1>2, <2>3, <2>5 DEF ResetSent, Mailed, site
  <2>7. ~NoReset
    <3>1. t \in Probes /\ Battery[t] = "reset"
      BY <1>1 DEF Kind
    <3>2. t <= running /\ t \in Int /\ running \in Int
      BY <1>1, Started, ThreadsFinite DEF Typed, LoopTyped, Threads
    <3>3. QED BY <3>1, <3>2 DEF NoReset
  <2>8. Hung' = Hung
    BY <2>1 DEF Hung
  <2>9. Steady
    BY <1>2, <2>4, <2>7, <2>8 DEF Steady, Leaves, memos, site
  <2>10. y \in Thread /\ y.pc = "wait" /\ y.s = th[t].s /\ y.back = th[t].back /\ y.ret = th[t].ret /\ y.out = Nothing
    BY <1>1, GoesOn
  <2>11. th' = [th EXCEPT ![t] = y]
    BY <2>1 DEF Go
  <2> HIDE DEF y
  <2>12. PICK x \in Thread : /\ th' = [th EXCEPT ![t] = x] /\ x.pc = "wait" /\ x.s = th[t].s /\ x.back = th[t].back
                             /\ x.ret = th[t].ret /\ x.out = Nothing
    BY <2>10, <2>11
  <2>13. Mail(x)' /\ Honest(x.out)
    <3>1. ~x.out.gated /\ ~x.out.atSignup /\ ~x.out.session /\ ~x.out.acted
      BY <2>12 DEF Nothing
    <3>2. Mail(x)'
      BY <2>6, <2>12, <3>1 DEF Mail, Accuses
    <3>3. QED BY <3>1, <3>2 DEF Honest
  <2>14. Kind(x, t) /\ Flows(x, t)
    BY <1>1, <2>12 DEF Kind, Flows, Flowing
  <2>15. VerdictInv'
    BY <2>9, <2>12, <2>13, <2>14, SteadyMoves
  <2>16. VerdictsAreReal'
    BY <2>1, <2>4, VerdictsKept
  <2>17. QED BY <2>15, <2>16
<1>5. QED BY <1>3, <1>4

\* Every probe starts with nothing observed, and in no flow.
LEMMA FirstCalm ==
    ASSUME NEW p \in Probes
    PROVE  LET x == First(Battery[p])
           IN  x.out = Nothing /\ x.pc \in Calm /\ Kind(x, p) /\ ~Flowing(x)
<1>1. Battery[p] \in {"never", "inert", "reset", "authed", "pair"}
  BY AccountsAssumption DEF AccountsAssumption, Probes
<1> DEFINE x == First(Battery[p])
<1>2. CASE Battery[p] \in {"never", "inert"}
  <2>1. x.pc = "flow" /\ x.back = "judge" /\ x.ret = "idle" /\ x.out = Nothing
    BY <1>2 DEF First, Idle
  <2>2. QED BY <1>2, <2>1 DEF Calm, Places, Kind, Flowing
<1>3. CASE Battery[p] = "reset"
  <2>1. x.pc = "reg" /\ x.back = "recover" /\ x.ret = "idle" /\ x.out = Nothing
    BY <1>3 DEF First, Idle
  <2>2. QED BY <1>3, <2>1 DEF Calm, Places, Kind, Flowing
<1>4. CASE Battery[p] \in {"authed", "pair"}
  <2>1. x.pc = "register" /\ x.back = "idle" /\ x.ret = "idle" /\ x.out = Nothing
    BY <1>4 DEF First, Idle
  <2>2. QED BY <2>1 DEF Calm, Places, Kind, Flowing
<1>5. QED BY <1>1, <1>2, <1>3, <1>4

\* The next probe is started.
LEMMA SoundStart == ASSUME AccountsInv, VerdictInv, VerdictsAreReal, StartProbe PROVE VerdictInv' /\ VerdictsAreReal'
<1> DEFINE p == running + 1
<1>1. Typed /\ LiveInv
  BY DEF AccountsInv, Typed
<1>2. p \in Probes /\ p \in Threads /\ running \in Int
  BY <1>1, ThreadsFinite DEF StartProbe, Typed, LoopTyped, Probes, Threads
<1>3. UNCHANGED <<app, memos, mail, site, tally, verdict, users>> /\ running' = p
  BY DEF StartProbe
<1>4. th[p].pc = "idle"
  <2>1. p > running /\ verdict[p] = "none"
    BY <1>1, <1>2 DEF LiveInv
  <2>2. QED BY <1>1, <1>2, <2>1 DEF LiveInv, Hung
<1>5. Battery[p] \in {"never", "inert", "reset", "authed", "pair"}
  BY <1>2, AccountsAssumption DEF AccountsAssumption, Probes
<1>6. First(Battery[p]) \in Thread
  BY <1>5, FirstTyped
<1>7. LET x == First(Battery[p])
      IN  x.out = Nothing /\ x.pc \in Calm /\ Kind(x, p) /\ ~Flowing(x)
  BY <1>2, FirstCalm
<1>8. th' = [th EXCEPT ![p] = First(Battery[p])]
  BY DEF StartProbe
<1>9. PICK q \in Threads : q = p
  BY <1>2
<1> HIDE DEF p
<1>10. PICK x \in Thread : th' = [th EXCEPT ![q] = x] /\ x.out = Nothing /\ x.pc \in Calm /\ Kind(x, q) /\ ~Flowing(x)
  BY <1>6, <1>7, <1>8, <1>9
<1>11. Grows /\ app' = app /\ Hung' = Hung
  BY <1>3 DEF Grows, mail, site, Hung
<1>12. Mail(x)' /\ Honest(x.out)
  BY <1>10, CalmMail
<1>13. Flows(x, q)
  BY <1>4, <1>9, <1>10 DEF Flows
<1>14. MemoInv' /\ MailInv'
  <2>1. \A i \in Ids : Leaves(i)
    BY <1>3 DEF Leaves, memos
  <2>2. QED BY <1>1, <1>10, <1>11, <1>12, <2>1, MailMoves DEF VerdictInv
<1>15. OnceInv'
  BY <1>1, <1>3, <1>10, <1>11, <1>13, OnceMoves DEF VerdictInv, memos, site
<1>16. NoReset' => NoReset
  BY <1>2, <1>3 DEF NoReset, p, Probes
<1>17. ResetInv'
  BY <1>3, <1>16 DEF VerdictInv, ResetInv, mail
<1>18. HonestInv'
  <2>1. th'[q] = x /\ \A u \in Threads : u # q => th'[u] = th[u]
    BY <1>1, <1>10 DEF Typed, LoopTyped
  <2>2. ASSUME Works, NoReset
        PROVE  /\ \A s \in Ids : Honest(result[s])'
               /\ \A u \in Threads : Honest(th[u].out)'
    <3>1. (\A s \in Ids : Honest(result[s])) /\ (\A u \in Threads : Honest(th[u].out))
      BY <2>2 DEF VerdictInv, HonestInv
    <3>2. \A s \in Ids : Honest(result[s])'
      BY <1>3, <3>1 DEF Honest, memos
    <3>3. \A u \in Threads : Honest(th[u].out)'
      BY <1>11, <1>12, <2>1, <3>1 DEF Honest
    <3>4. QED BY <3>2, <3>3
  <2>3. QED BY <1>11, <1>16, <2>2 DEF HonestInv, Works
<1>19. VerdictsAreReal'
  BY <1>3, <1>11, VerdictsKept
<1>20. QED BY <1>14, <1>15, <1>17, <1>18, <1>19 DEF VerdictInv

\* What leaves the threads, the memos and the app alone keeps what is known of them.
LEMMA SoundStays ==
    ASSUME Typed, VerdictInv, Grows, UNCHANGED <<memos, used, th, running>>,
           NoReset => \A i \in Ids : inbox'[i] # "reset" /\ "reset" \notin transit'[i],
           Hung' = Hung \/ Hung' # {}
    PROVE  VerdictInv'
<1>1. app' = app /\ NoReset' = NoReset
  BY DEF Grows, NoReset
<1>2. MemoInv'
  <2> SUFFICES ASSUME NEW i \in Ids PROVE Memo(i)'
    BY DEF MemoInv
  <2>1. QED BY MemoKept DEF VerdictInv, MemoInv, memos
<1>3. MailInv'
  <2> SUFFICES ASSUME NEW u \in Threads PROVE Mail(th[u])' /\ Kind(th[u], u)'
    BY DEF MailInv
  <2>1. PICK y \in Thread : y = th[u]
    BY DEF Typed, LoopTyped
  <2>2. y.s \in Ids /\ Mail(y) /\ Kind(y, u) /\ th'[u] = y
    BY <2>1 DEF Thread, VerdictInv, MailInv
  <2>3. Mail(y)'
    BY <2>2, MailKept
  <2>4. QED BY <2>2, <2>3 DEF Mail, Kind, Excused
<1>4. ResetInv'
  BY <1>1 DEF ResetInv
<1>5. OnceInv'
  BY DEF VerdictInv, OnceInv, Flowing, Followed, memos
<1>6. HonestInv'
  BY <1>1 DEF VerdictInv, HonestInv, Honest, memos, Works
<1>7. QED BY <1>2, <1>3, <1>4, <1>5, <1>6 DEF VerdictInv

\* A probe is abandoned: its thread may open a one-time link again.
LEMMA SoundAbandon == ASSUME Typed, VerdictInv, VerdictsAreReal, Abandon PROVE VerdictInv' /\ VerdictsAreReal'
<1>1. verdict' = [verdict EXCEPT ![running] = "hung"] /\ verdict \in [Probes -> Verdicts] /\ running > 0
  BY DEF Abandon, Typed, LoopTyped
<1>2. UNCHANGED <<app, memos, mail, site, tally, th, running, users>>
  BY DEF Abandon
<1>3. running \in Probes
  BY <1>1, ThreadsFinite DEF Typed, LoopTyped, Probes
<1>4. Hung' # {}
  BY <1>1, <1>3 DEF Hung
<1>5. Grows /\ (NoReset => \A i \in Ids : inbox'[i] # "reset" /\ "reset" \notin transit'[i])
  BY <1>2 DEF Grows, VerdictInv, ResetInv, mail, site
<1>6. VerdictInv'
  BY <1>2, <1>4, <1>5, SoundStays DEF site
<1>7. VerdictsAreReal'
  <2>1. \A v : Said(v)' => Said(v) \/ v = "hung"
    BY <1>1 DEF Said
  <2>2. Promises' = Promises /\ UNCHANGED <<app, missed, exists, used>>
    BY <1>2, <1>5, Excuses DEF mail, site
  <2>3. LockoutIsReal'
    BY <2>1, <2>2 DEF VerdictsAreReal, LockoutIsReal
  <2>4. InertIsReal'
    BY <1>4, <2>1, <2>2 DEF VerdictsAreReal, InertIsReal
  <2>5. ResetLockoutIsReal'
    BY <2>1, <2>2 DEF VerdictsAreReal, ResetLockoutIsReal
  <2>6. DeadLinkIsReal'
    BY <2>1, <2>2 DEF VerdictsAreReal, DeadLinkIsReal
  <2>7. QED BY <2>3, <2>4, <2>5, <2>6 DEF VerdictsAreReal
<1>8. QED BY <1>6, <1>7

\* A mail arrives.
LEMMA SoundDeliver ==
    ASSUME Typed, VerdictInv, VerdictsAreReal, NEW s \in Ids, NEW m \in {"confirm", "reset"}, Deliver(s, m)
    PROVE  VerdictInv' /\ VerdictsAreReal'
<1>1. /\ m \in transit[s] /\ inbox' = [inbox EXCEPT ![s] = m] /\ transit' = [transit EXCEPT ![s] = transit[s] \ {m}]
      /\ UNCHANGED <<app, memos, missed, site, tally, th, loop>>
  BY DEF Deliver
<1>2. transit \in [Ids -> SUBSET {"confirm", "reset"}] /\ inbox \in [Ids -> {"none", "confirm", "reset"}]
  BY DEF Typed, TypeOK, DataTyped
<1>3. /\ inbox'[s] = m /\ transit'[s] = transit[s] \ {m}
      /\ \A i \in Ids \ {s} : inbox'[i] = inbox[i] /\ transit'[i] = transit[i]
  BY <1>1, <1>2
<1>4. Grows
  BY <1>1, <1>3 DEF Grows, site
<1>5. NoReset => \A i \in Ids : inbox'[i] # "reset" /\ "reset" \notin transit'[i]
  <2> SUFFICES ASSUME NoReset, NEW i \in Ids PROVE inbox'[i] # "reset" /\ "reset" \notin transit'[i]
    OBVIOUS
  <2>1. inbox[i] # "reset" /\ "reset" \notin transit[i] /\ "reset" \notin transit[s]
    BY DEF VerdictInv, ResetInv
  <2>2. QED BY <1>1, <1>3, <2>1
<1>6. Hung' = Hung
  BY <1>1 DEF Hung, loop
<1>7. VerdictInv'
  BY <1>1, <1>4, <1>5, <1>6, SoundStays DEF site, loop
<1>8. VerdictsAreReal'
  BY <1>1, <1>4, VerdictsKept DEF loop
<1>9. QED BY <1>7, <1>8

\* The main thread has primed the email.
LEMMA SoundPrime == ASSUME Typed, LaunchInv, VerdictInv, VerdictsAreReal, PrimeEnds PROVE VerdictInv' /\ VerdictsAreReal'
<1>1. 0 \in Threads
  BY ThreadsFinite DEF Threads
<1>2. th[0].pc = "end" /\ th' = [th EXCEPT ![0] = Idle] /\ UNCHANGED <<app, memos, mail, site, tally, loop>>
  BY DEF PrimeEnds, At
<1>3. Hung' = Hung
  BY <1>2 DEF Hung, loop
<1>4. Steady
  BY <1>2, <1>3, SteadyMove DEF loop
<1>5. PICK x \in Thread : x = Idle
  BY IdleTyped
<1>6. x.pc = "idle" /\ x.back = "idle" /\ x.ret = "idle" /\ x.out = Nothing
  BY <1>5 DEF Idle
<1>7. Kind(x, 0) /\ ~Flowing(x)
  BY <1>6 DEF Kind, Flowing
<1>8. th[0].pc \in Calm /\ x.pc \in Calm
  BY <1>2, <1>6 DEF Calm, Places
<1>9. VerdictInv'
  BY <1>1, <1>2, <1>4, <1>5, <1>6, <1>7, <1>8, CalmMoves
<1>10. VerdictsAreReal'
  BY <1>2, <1>4, VerdictsKept DEF Steady, loop
<1>11. QED BY <1>9, <1>10

\* A poll gives up on mails, and takes nothing back.
LEMMA PollWaits ==
    ASSUME Typed, NEW t \in Threads, NEW s \in Ids, NEW found, NEW empty, NEW o, NEW p, Poll(t, s, found, empty, o, p)
    PROVE  Waits
<1>1. missed' = missed \/ missed' = [missed EXCEPT ![s] = missed[s] \cup transit[s]]
  BY DEF Poll
<1>2. /\ missed \in [Ids -> SUBSET {"confirm", "reset"}]
      /\ app' = app /\ verdict' = verdict /\ exists' = exists /\ used' = used
  BY DEF Poll, Typed, TypeOK, DataTyped, loop, site
<1>3. QED BY <1>1, <1>2 DEF Waits

\* Most steps are no verdict.
LEMMA StepWaits ==
    ASSUME Typed, NEW t \in Threads,
           \/ CheckReg(t) \/ Signup(t) \/ LaunchFlow(t) \/ LaunchUser(t) \/ BrowserLane(t) \/ Gateway(t)
           \/ Flow(t) \/ Observe(t) \/ Resend(t) \/ SecondLeg(t) \/ Follow(t) \/ Capture(t) \/ Store(t)
           \/ AwaitReset(t) \/ Gate(t)
    PROVE  Waits
<1>1. th[t].s \in Ids /\ th[t].id \in Ids /\ "me" \in Ids /\ exists \in [Ids -> BOOLEAN]
  BY DEF Typed, TypeOK, DataTyped, LoopTyped, Thread, Ids
<1>2. CASE CheckReg(t) \/ Flow(t) \/ Capture(t) \/ Store(t) \/ BrowserLane(t) \/ Gate(t)
  BY <1>2 DEF Waits, CheckReg, Flow, Capture, Store, BrowserLane, Gate, mail, site, loop
<1>3. CASE Follow(t) \/ Resend(t)
  <2>1. UNCHANGED <<app, missed, exists, loop>>
    BY <1>3 DEF Follow, Resend, mail, site
  <2>2. \A i \in Ids : used[i] => used'[i]
    BY <1>3, StaysUsed DEF Resend, site
  <2>3. QED BY <2>1, <2>2 DEF Waits, loop
<1>4. CASE Signup(t) \/ Gateway(t)
  <2>1. UNCHANGED <<app, missed, used, loop>>
    BY <1>4 DEF Signup, Gateway
  <2>2. exists' = exists \/ exists' = [exists EXCEPT ![th[t].s] = TRUE]
    BY <1>4 DEF Signup, Gateway
  <2>3. QED BY <1>1, <2>1, <2>2 DEF Waits, loop
<1>5. CASE LaunchFlow(t) \/ LaunchUser(t)
  <2>1. UNCHANGED <<app, missed, used, loop>>
    BY <1>5 DEF LaunchFlow, LaunchUser
  <2>2. \/ exists' = exists \/ exists' = [exists EXCEPT ![th[t].s] = TRUE]
        \/ exists' = [exists EXCEPT ![th[t].id] = TRUE]
    BY <1>5 DEF LaunchFlow, LaunchUser, Launch
  <2>3. QED BY <1>1, <2>1, <2>2 DEF Waits, loop
<1>6. CASE SecondLeg(t) \/ AwaitReset(t)
  BY <1>1, <1>6, PollWaits DEF SecondLeg, AwaitReset
<1>7. CASE Observe(t)
  <2>1. \/ UNCHANGED <<app, memos, mail, site, tally, loop>>
        \/ \E found, empty, o, p : Poll(t, th[t].s, found, empty, o, p)
    BY <1>7 DEF Observe
  <2>2. QED BY <1>1, <2>1, PollWaits DEF Waits, mail, site, loop
<1>8. QED BY <1>2, <1>3, <1>4, <1>5, <1>6, <1>7

\* Every step of a thread keeps what the verdicts rest on.
LEMMA SoundStep ==
    ASSUME AccountsInv, VerdictInv, SentInv, VerdictsAreReal, NEW t \in Threads, Step(t)
    PROVE  VerdictInv' /\ VerdictsAreReal'
<1>1. Typed /\ LiveInv /\ LaunchInv
  BY DEF AccountsInv, Typed
<1>2. CASE \/ CheckReg(t) \/ Signup(t) \/ LaunchFlow(t) \/ LaunchUser(t) \/ BrowserLane(t) \/ Gateway(t)
           \/ Flow(t) \/ Observe(t) \/ Resend(t) \/ SecondLeg(t) \/ Follow(t) \/ Capture(t) \/ Store(t)
           \/ AwaitReset(t) \/ Gate(t)
  <2>1. VerdictInv'
    BY <1>1, <1>2, SoundCheckReg, SoundSignup, SoundLaunches, SoundBrowserLane, SoundGateway, SoundFlow, SoundObserve,
       SoundResend, SoundSecondLeg, SoundFollow, SoundCapture, SoundStore, SoundAwaitReset, SoundGate
  <2>2. Waits
    BY <1>1, <1>2, StepWaits
  <2>3. QED BY <2>1, <2>2, VerdictsStand
<1>3. CASE Register(t) \/ Session(t) \/ User(t)
  BY <1>1, <1>3, SoundAccounts
<1>4. CASE Judge(t) \/ Recover(t) \/ OpenReset(t) \/ ResetLockout(t)
  BY <1>1, <1>4, SoundJudge, SoundRecover, SoundOpenReset, SoundLockout
<1>5. QED BY <1>2, <1>3, <1>4 DEF Step

\* Nobody was asked for anything yet.
LEMMA SoundInit == Init => VerdictInv /\ VerdictsAreReal
<1> SUFFICES ASSUME Init PROVE VerdictInv /\ VerdictsAreReal
  OBVIOUS
<1>1. "me" \in Ids
  BY DEF Ids
<1>2. ASSUME NEW i \in Ids
      PROVE  Memo(i)
  <2>1. reg[i] = NoReg /\ acct[i] = "none" /\ store[i] = "absent" /\ result[i] = Nothing
    BY DEF Init
  <2>2. slot[i] = NoUser \/ app.crawled
    BY DEF Init
  <2>3. ~reg[i].submitted /\ reg[i].lane = "absent" /\ ~reg[i].announced
    BY <2>1 DEF NoReg
  <2>4. ~Accuses(result[i])
    BY <2>1 DEF Accuses, Nothing
  <2>5. QED BY <2>1, <2>2, <2>3, <2>4 DEF Memo
<1>3. ASSUME NEW u \in Threads
      PROVE  Mail(th[u]) /\ Kind(th[u], u) /\ ~Flowing(th[u]) /\ th[u].out = Nothing
  <2>1. /\ th[u].pc \in {"idle", "reg"} /\ th[u].back \in {"idle", "end"} /\ th[u].ret = "idle"
        /\ th[u].out = Nothing
    BY DEF Init, Idle
  <2>2. ~Nothing.gated /\ ~Nothing.atSignup /\ ~Nothing.session /\ ~Nothing.acted
    BY DEF Nothing
  <2>3. Mail(th[u])
    BY <2>1, <2>2 DEF Mail, Accuses
  <2>4. QED BY <2>1, <2>3 DEF Kind, Flowing
<1>4. ResetInv
  BY DEF ResetInv, Init
<1>5. OnceInv
  <2>1. \A i \in Ids : used[i] = FALSE
    BY DEF Init
  <2>2. \A u \in Threads : th[u].s \in Ids
    BY AccountsInit DEF AccountsInv, LoopTyped, Thread
  <2>3. QED BY <1>3, <2>1, <2>2 DEF OnceInv
<1>6. HonestInv
  <2>1. Honest(Nothing)
    BY DEF Honest, Nothing
  <2>2. \A i \in Ids : result[i] = Nothing
    BY DEF Init
  <2>3. QED BY <1>3, <2>1, <2>2 DEF HonestInv
<1>7. VerdictsAreReal
  <2>1. \A p \in Probes : verdict[p] = "none"
    BY DEF Init
  <2>2. \A v : Said(v) => v = "none"
    BY <2>1 DEF Said
  <2>3. QED BY <2>2 DEF VerdictsAreReal, LockoutIsReal, InertIsReal, ResetLockoutIsReal, DeadLinkIsReal
<1>8. QED BY <1>2, <1>3, <1>4, <1>5, <1>6, <1>7 DEF VerdictInv, MemoInv, MailInv

\* The mails of a step are those that were sent, and others that are due.
LEMMA SentMoves ==
    ASSUME SentInv, app' = app, \A i \in Ids : exists[i] => exists'[i],
           \A i \in Ids : inbox'[i] = inbox[i] \/ inbox'[i] \in transit[i],
           \A i \in Ids : \A m \in transit'[i] : m \in transit[i] \/ Due(i, m)'
    PROVE  SentInv'
<1>1. \A i \in Ids : \A m : Due(i, m) => Due(i, m)'
  BY DEF Due
<1>2. QED BY <1>1 DEF SentInv

\* A thread sends a mail only to who has an account.
LEMMA SentSteps == ASSUME Typed, VerdictInv, SentInv, NEW t \in Threads, Step(t) PROVE SentInv'
<1>1. /\ th[t].s \in Ids /\ th[t].id \in Ids /\ "me" \in Ids /\ exists \in [Ids -> BOOLEAN]
      /\ transit \in [Ids -> SUBSET {"confirm", "reset"}] /\ (acct[th[t].s] = "open" => exists[th[t].s])
  BY DEF Typed, TypeOK, DataTyped, LoopTyped, Thread, Ids, VerdictInv, MemoInv, Memo
<1>2. ASSUME UNCHANGED <<app, exists, inbox, transit>>
      PROVE  SentInv'
  BY <1>2, SentMoves
<1>3. ASSUME NEW s \in Ids, NEW m, UNCHANGED <<app, inbox>>, m \subseteq {"confirm", "reset"}, Send(s, m),
             exists' = exists \/ exists' = [exists EXCEPT ![s] = TRUE],
             m # {} => exists'[s], "confirm" \in m => app.mails \/ app.resends
      PROVE  SentInv'
  <2>1. transit' = [transit EXCEPT ![s] = transit[s] \cup m]
    BY <1>3 DEF Send
  <2>2. \A i \in Ids : exists[i] => exists'[i]
    BY <1>1, <1>3
  <2>3. \A i \in Ids : \A n \in transit'[i] : n \in transit[i] \/ Due(i, n)'
    BY <1>1, <1>3, <2>1 DEF Due
  <2>4. QED BY <1>3, <2>2, <2>3, SentMoves
<1>4. Confirm \subseteq {"confirm", "reset"} /\ ("confirm" \in Confirm => app.mails)
  BY DEF Confirm
<1>5. CASE Signup(t)
  <2>1. UNCHANGED <<app, inbox>>
    BY <1>5 DEF Signup
  <2>2. \/ Send(th[t].s, Confirm) /\ exists' = [exists EXCEPT ![th[t].s] = TRUE]
        \/ UNCHANGED <<transit, exists>>
    BY <1>5 DEF Signup
  <2>3. QED BY <1>1, <1>2, <1>3, <1>4, <2>1, <2>2
<1>6. CASE LaunchFlow(t) \/ LaunchUser(t)
  <2>1. UNCHANGED <<app, inbox>>
    BY <1>6 DEF LaunchFlow, LaunchUser
  <2>2. \/ UNCHANGED <<transit, exists>>
        \/ \E s \in {th[t].s, th[t].id} : Send(s, Confirm) /\ exists' = [exists EXCEPT ![s] = TRUE]
    BY <1>6 DEF LaunchFlow, LaunchUser, Launch
  <2>3. QED BY <1>1, <1>2, <1>3, <1>4, <2>1, <2>2
<1>7. CASE Gateway(t)
  <2>1. UNCHANGED <<app, inbox>>
    BY <1>7 DEF Gateway
  <2>2. \/ UNCHANGED <<transit, exists>>
        \/ \E m \in {Confirm, {}} : Send(th[t].s, m) /\ exists' = [exists EXCEPT ![th[t].s] = TRUE]
    BY <1>7 DEF Gateway
  <2>3. QED BY <1>1, <1>2, <1>3, <1>4, <2>1, <2>2
<1>8. CASE Resend(t)
  <2>1. UNCHANGED <<app, inbox, exists>>
    BY <1>8 DEF Resend, site
  <2>2. \/ UNCHANGED transit
        \/ acct[th[t].s] = "open" /\ Send(th[t].s, IF app.resends THEN {"confirm"} ELSE {})
    BY <1>8 DEF Resend
  <2>3. QED BY <1>1, <1>2, <1>3, <2>1, <2>2
<1>9. CASE Recover(t)
  <2>1. UNCHANGED <<app, inbox, exists>>
    BY <1>9 DEF Recover, site
  <2>2. \/ UNCHANGED transit
        \/ Send("me", IF app.resets /\ exists["me"] THEN {"reset"} ELSE {})
    BY <1>9 DEF Recover
  <2>3. QED BY <1>1, <1>2, <1>3, <2>1, <2>2
<1>10. CASE SecondLeg(t) \/ AwaitReset(t) \/ Observe(t)
  BY <1>2, <1>10 DEF SecondLeg, AwaitReset, Observe, Poll, mail, site
<1>11. CASE CheckReg(t) \/ BrowserLane(t) \/ Flow(t) \/ Follow(t) \/ Capture(t) \/ Store(t)
  BY <1>2, <1>11 DEF CheckReg, BrowserLane, Flow, Follow, Capture, Store, mail, site
<1>12. CASE Judge(t) \/ OpenReset(t) \/ ResetLockout(t) \/ Register(t) \/ Gate(t) \/ Session(t) \/ User(t)
  BY <1>2, <1>12 DEF Judge, OpenReset, ResetLockout, Register, Gate, Session, User, mail, site
<1>13. QED BY <1>5, <1>6, <1>7, <1>8, <1>9, <1>10, <1>11, <1>12 DEF Step

\* No step sends a mail to who has no account.
LEMMA SentNext == Typed /\ VerdictInv /\ SentInv /\ [Next]_vars => SentInv'
<1> SUFFICES ASSUME Typed, VerdictInv, SentInv, [Next]_vars PROVE SentInv'
  OBVIOUS
<1>1. CASE StartProbe \/ Abandon \/ PrimeEnds \/ UNCHANGED vars
  <2>1. UNCHANGED <<app, exists, inbox, transit>>
    BY <1>1 DEF StartProbe, Abandon, PrimeEnds, vars, mail, site
  <2>2. QED BY <2>1, SentMoves
<1>2. CASE \E t \in Threads : Step(t)
  BY <1>2, SentSteps
<1>3. ASSUME NEW s \in Ids, NEW m \in {"confirm", "reset"}, Deliver(s, m)
      PROVE  SentInv'
  <2>1. /\ m \in transit[s] /\ inbox' = [inbox EXCEPT ![s] = m] /\ transit' = [transit EXCEPT ![s] = transit[s] \ {m}]
        /\ UNCHANGED <<app, exists>>
    BY <1>3 DEF Deliver, site
  <2>2. transit \in [Ids -> SUBSET {"confirm", "reset"}] /\ inbox \in [Ids -> {"none", "confirm", "reset"}]
    BY DEF Typed, TypeOK, DataTyped
  <2>3. \A i \in Ids : /\ inbox'[i] = inbox[i] \/ inbox'[i] \in transit[i]
                       /\ transit'[i] \subseteq transit[i]
    BY <2>1, <2>2
  <2>4. QED BY <2>1, <2>3, SentMoves
<1>4. QED BY <1>1, <1>2, <1>3 DEF Next

\* Every step keeps what the verdicts rest on, and the verdicts right.
LEMMA SoundNext == AccountsInv /\ VerdictInv /\ SentInv /\ VerdictsAreReal /\ [Next]_vars => VerdictInv' /\ VerdictsAreReal'
<1> SUFFICES ASSUME AccountsInv, VerdictInv, SentInv, VerdictsAreReal, [Next]_vars PROVE VerdictInv' /\ VerdictsAreReal'
  OBVIOUS
<1>1. Typed /\ LaunchInv
  BY DEF AccountsInv, Typed
<1>2. CASE StartProbe \/ Abandon \/ PrimeEnds
  BY <1>1, <1>2, SoundStart, SoundAbandon, SoundPrime
<1>3. CASE \E t \in Threads : Step(t)
  BY <1>3, SoundStep
<1>4. CASE \E s \in Ids, m \in {"confirm", "reset"} : Deliver(s, m)
  BY <1>1, <1>4, SoundDeliver
<1>5. CASE UNCHANGED vars
  <2>1. /\ app' = app /\ memos' = memos /\ mail' = mail /\ site' = site /\ th' = th /\ loop' = loop
    BY <1>5 DEF vars
  <2>2. Grows /\ Hung' = Hung /\ verdict' = verdict
    BY <2>1 DEF Grows, Hung, mail, site, loop
  <2>3. NoReset => \A i \in Ids : inbox'[i] # "reset" /\ "reset" \notin transit'[i]
    BY <2>1 DEF VerdictInv, ResetInv, mail
  <2>4. VerdictInv'
    BY <1>1, <2>1, <2>2, <2>3, SoundStays DEF site, loop
  <2>5. QED BY <2>2, <2>4, VerdictsKept
<1>6. QED BY <1>2, <1>3, <1>4, <1>5 DEF Next

\* However many probes are in the battery, whichever of them are abandoned, and whatever
\* mail is late, lost or resent: a grade accuses an app of a mail that never arrives, or of a
\* reset that locks its user out, only when the app promised or owed it and none came in time; of
\* a confirmation that leads nowhere only when it leads nowhere, or works once and a probe was
\* abandoned; and of a dead recovery link only when that link or the one of the confirmation
\* that is found in its place is dead (email_never_arrives, email_verification_inert and
\* reset_email_unreliable).
THEOREM AccountsVerdicts == Spec => []VerdictsAreReal
<1>1. Init => AccountsInv /\ VerdictInv /\ SentInv /\ VerdictsAreReal
  <2>1. Init => SentInv
    BY DEF Init, SentInv
  <2>2. QED BY <2>1, AccountsInit, SoundInit
<1>2. /\ AccountsInv /\ VerdictInv /\ SentInv /\ VerdictsAreReal /\ [Next]_vars
      => (AccountsInv /\ VerdictInv /\ SentInv /\ VerdictsAreReal)'
  BY AccountsNext, SoundNext, SentNext DEF AccountsInv, Typed
<1>3. QED BY <1>1, <1>2, PTL DEF Spec
=============================================================================
