-------------------------------- MODULE Score --------------------------------
(***************************************************************************)
(* The score of one grade and its place on the reference curve:            *)
(* _run_probe's outcomes and prices (sloptic/pipeline.py), the dampers,     *)
(* contributions and axis subtotals (sloptic/aggregate.py), and rank()      *)
(* (scripts/benchmark.py).                                                 *)
(*                                                                         *)
(* Money is exact.  A penalty is an integer number of tenths of a point,   *)
(* the precision the score is published at; a damped term is an integer    *)
(* number of tenths divided by Unit, because the decay 0.6 is 3/5.  Unit   *)
(* is odd, so no term lies half way between two tenths and the rounding    *)
(* mode of the code's round() makes no difference.                         *)
(***************************************************************************)
EXTENDS Integers, Sequences, FiniteSets, Functions, SequencesExt

CONSTANTS
    Catalog,   \* the probes in order, as records: see CatalogAssumption
    Depth,     \* no category has more than Depth + 1 findings that count
    FracNum,   \* _MIN_VALID_FRACTION = FracNum / FracDen
    FracDen,
    Curve,     \* the frozen curve: [dist, axes], rows of keys and landmarks
    NoGroup,   \* variant_group_id is None
    Unranked   \* no ranking was asked for, or the axis has no surface

Probes  == DOMAIN Catalog
Bundles == {Catalog[p].bundle : p \in Probes}

\* targets = 0: an oracle predicate; otherwise a declarative probe that fans
\* out over that many targets.  rungs: the points of its escalators.  range:
\* its severity block, << >> without one; with one, the catalog loader has
\* set penalty to the default.  overrides: the penalty_override values the
\* predicate can compute.  quiet: it may mark a finding report_only.  tax: the
\* price _CORROBORATION raises it to, 0 for a probe that is not in the table.
\* gate: an absolute class (_is_gate).  browser: run inline, with no deadline.
CatalogAssumption ==
    /\ Catalog \in Seq([bundle : STRING, category : STRING,
                        group : STRING \cup {NoGroup}, penalty : Nat,
                        range : {<<>>} \cup (Nat \X Nat), rungs : SUBSET Nat,
                        overrides : SUBSET Nat, quiet : BOOLEAN,
                        targets : Nat, tax : Nat, gate : BOOLEAN,
                        browser : BOOLEAN])
    /\ \A p \in Probes : Catalog[p].range # <<>> =>
           /\ Catalog[p].range[1] <= Catalog[p].penalty
           /\ Catalog[p].penalty <= Catalog[p].range[2]
    \* what the catalog's files satisfy, and the dampers rely on
    /\ \A p, q \in Probes : Catalog[p].category = Catalog[q].category
           => Catalog[p].bundle = Catalog[q].bundle
    /\ \A p, q \in Probes :
           (Catalog[p].group = Catalog[q].group /\ Catalog[p].group # NoGroup)
           => Catalog[p].category = Catalog[q].category
ASSUME CatalogIsConsistent == CatalogAssumption
ASSUME DepthAssumption == Depth \in Nat

VARIABLES
    next,      \* the probe the loop is at
    outcomes,  \* the outcomes list: [probe, verdict, penalty]
    blocked,   \* blocked_probes
    stage,     \* challenge_stage
    phase,     \* "probing", "graded" or "ranked"
    ranking    \* what rank() returned

vars == <<next, outcomes, blocked, stage, phase, ranking>>

-----------------------------------------------------------------------------
(* What a probe's run puts on the outcomes list.                           *)

Most(S)  == CHOOSE x \in S : \A y \in S : y <= x
Least(S) == CHOOSE x \in S : \A y \in S : x <= y
Clamp(x, lo, hi) == Least({hi, Most({lo, x})})

Cap == 2500   \* _PENALTY_CAP

\* _severity_penalty: the default, lifted to the highest rung that was seen
SeverityPenalty(c, seen) ==
    Clamp(Most({c.penalty} \cup seen), c.range[1], c.range[2])

\* Every price a firing of a predicate probe can carry.
Prices(c) ==
    (IF c.quiet THEN {0} ELSE {})
    \cup IF c.range # <<>> THEN {SeverityPenalty(c, S) : S \in SUBSET c.rungs}
         ELSE IF c.overrides # {} THEN {Clamp(v, 10, Cap) : v \in c.overrides}
         ELSE {c.penalty}

Outcome(p, verdict, penalty) ==
    [probe |-> p, verdict |-> verdict, penalty |-> penalty]
NA(p)    == Outcome(p, "not_applicable", 0)
Clean(p) == Outcome(p, "clean", 0)
Slop(p, penalty) == Outcome(p, "slop_detected", penalty)

\* A predicate that raises, or that cannot establish its conditions, is N/A.
ByPredicate(p) == {<<NA(p)>>, <<Clean(p)>>}
                  \cup {<<Slop(p, x)>> : x \in Prices(Catalog[p])}

\* One outcome per target that could be read; a target that stays at 429, has
\* no such endpoint or raises is skipped, and N/A stands for "none was read".
ByFanOut(p) ==
    LET Read(answers) == SelectSeq(answers, LAMBDA o : o # NA(p))
        Answers == [1 .. Catalog[p].targets ->
                       {NA(p), Clean(p), Slop(p, Catalog[p].penalty)}]
    IN  {IF Read(a) = <<>> THEN <<NA(p)>> ELSE Read(a) : a \in Answers}

Produced(p) == IF Catalog[p].targets = 0 THEN ByPredicate(p) ELSE ByFanOut(p)

-----------------------------------------------------------------------------
(* aggregate.py, over a list of outcomes.                                  *)

Fired(outs) == SelectSeq(outs, LAMBDA o : o.verdict = "slop_detected")

XssCategories == {"xss", "dom-xss"}

\* _escalate_corroborated: a tax finding is re-priced, never downwards, when a
\* flaw it would have contained fired in the same grade.
Escalated(outs) ==
    LET corroborated == \E i \in DOMAIN outs :
                            /\ outs[i].verdict = "slop_detected"
                            /\ Catalog[outs[i].probe].category \in XssCategories
    IN  [i \in DOMAIN outs |->
            IF corroborated
            THEN [outs[i] EXCEPT
                     !.penalty = Most({@, Catalog[outs[i].probe].tax})]
            ELSE outs[i]]

\* The findings, at the price they are scored at.
Priced(outs) == Fired(Escalated(outs))

GroupOf(f, i) == Catalog[f[i].probe].group
KindOf(f, i)  == Catalog[f[i].probe].category

Mates(f, i) == {j \in DOMAIN f : GroupOf(f, j) = GroupOf(f, i)}

\* Of a variant group only its dearest member counts, the first one on a tie.
Counts(f, i) ==
    GroupOf(f, i) # NoGroup =>
        \A j \in Mates(f, i) : \/ f[j].penalty < f[i].penalty
                               \/ f[j].penalty = f[i].penalty /\ i <= j

\* The order in which a category is filled: findings of no group first, then
\* the groups by their first member.
FedBefore(f, i, j) ==
    IF GroupOf(f, i) = NoGroup /\ GroupOf(f, j) = NoGroup THEN i < j
    ELSE IF GroupOf(f, i) # NoGroup /\ GroupOf(f, j) # NoGroup
         THEN Least(Mates(f, i)) < Least(Mates(f, j))
         ELSE GroupOf(f, i) = NoGroup

Live(f) == {i \in DOMAIN f : Counts(f, i)}

\* The place of finding i in its category, dearest first (a stable sort).
RankOf(f, live, i) ==
    Cardinality({j \in live :
        /\ KindOf(f, j) = KindOf(f, i)
        /\ \/ f[j].penalty > f[i].penalty
           \/ f[j].penalty = f[i].penalty /\ FedBefore(f, j, i)})

Unit == 5 ^ Depth

\* The damped terms: a penalty times 0.6^rank, and 0 for the members of a
\* group that lost.
Terms(f) ==
    LET live == Live(f)
        Worth(x, r) == x * 3 ^ r * 5 ^ (Depth - r)
    IN  [i \in DOMAIN f |-> IF i \in live
                            THEN Worth(f[i].penalty, RankOf(f, live, i))
                            ELSE 0]

DampedTotal(f) == SumFunction(Terms(f))

Rounded(x) == (2 * x + Unit) \div (2 * Unit)

SlopScore(outs) == Rounded(DampedTotal(Priced(outs)))

OfBundle(f, b) == SelectSeq(f, LAMBDA o : Catalog[o.probe].bundle = b)

\* compute_axis_slop: the bundles that fired and their subtotals
AxisSlop(outs) ==
    LET f == Priced(outs)
    IN  [b \in {Catalog[f[i].probe].bundle : i \in DOMAIN f} |->
            Rounded(DampedTotal(OfBundle(f, b)))]

\* Mutant: every term is rounded on its own.
BugContributions(outs) ==
    LET term == Terms(Priced(outs))
    IN  [i \in DOMAIN term |-> Rounded(term[i])]

\* _largest_remainder: whole tenths, and the tenths that are left to the terms
\* with the largest fraction.  (The floors of exact terms never exceed the
\* total, so the branch that takes tenths back is for float error only.)
Contributions(outs) ==
    LET term  == Terms(Priced(outs))
        units == [i \in DOMAIN term |-> term[i] \div Unit]
        left  == SlopScore(outs) - SumFunction(units)
        Ahead(i, j) == LET a == term[i] % Unit
                           b == term[j] % Unit
                       IN  \/ a > b
                           \/ a = b /\ term[i] > term[j]
                           \/ a = b /\ term[i] = term[j] /\ i < j
        place(i) == Cardinality({j \in DOMAIN term : term[j] > 0 /\ Ahead(j, i)})
    IN  [i \in DOMAIN term |->
            units[i] + (IF term[i] > 0 /\ place(i) < left THEN 1 ELSE 0)]

\* coverage_metrics
Applied(outs) == {p \in Probes : \E i \in DOMAIN outs :
                     outs[i].probe = p /\ outs[i].verdict # "not_applicable"}
RanKinds(outs) == {Catalog[p].category : p \in Applied(outs)}

-----------------------------------------------------------------------------
(* benchmark.py: the rank of a record on the frozen curve.                 *)

\* _slop_potential: the score if every probe that applied had fired, each once
\* and at its catalog price
Potential(outs) ==
    LET all == [p \in Probes |-> Slop(p, Catalog[p].penalty)]
    IN  SlopScore(SelectSeq(all, LAMBDA o : o.probe \in Applied(outs)))

HasCatastrophe(outs) ==
    IF \E i \in DOMAIN Fired(outs) : Catalog[Fired(outs)[i].probe].gate
    THEN 1 ELSE 0

MaxPenalty(outs) ==
    Most({0} \cup {outs[i].penalty : i \in DOMAIN outs})

Key(slop, cat, maxpen, potential, ncats) ==
    <<slop, cat, maxpen, -potential, -ncats>>

RecordKey(outs) == Key(SlopScore(outs), HasCatastrophe(outs),
                       MaxPenalty(outs), Potential(outs),
                       Cardinality(RanKinds(outs)))

Before(a, b) == \E k \in DOMAIN a : /\ a[k] < b[k]
                                    /\ \A l \in 1 .. k - 1 : a[l] = b[l]

\* Python's round(a / b): half goes to the even neighbour.
RoundHalfEven(a, b) ==
    LET q == a \div b
        r == a % b
    IN  IF 2 * r < b \/ (2 * r = b /\ q % 2 = 0) THEN q ELSE q + 1

\* Mutant: the segment is interpolated from its upper end.
BugPercentileOf(marks, score) ==
    IF score <= marks[1][2] THEN 0
    ELSE IF score > marks[Len(marks)][2] THEN 100
    ELSE LET k  == Least({i \in 2 .. Len(marks) : score <= marks[i][2]})
             lo == marks[k - 1]
             hi == marks[k]
             dv == hi[2] - lo[2]
         IN  RoundHalfEven(lo[1] * dv + (hi[1] - lo[1]) * (hi[2] - score), dv)

\* _percentile_of: between the landmarks <<percentile, value>> of an axis
PercentileOf(marks, score) ==
    IF score <= marks[1][2] THEN 0
    ELSE IF score > marks[Len(marks)][2] THEN 100
    ELSE LET k  == Least({i \in 2 .. Len(marks) : score <= marks[i][2]})
             lo == marks[k - 1]
             hi == marks[k]
             dv == hi[2] - lo[2]
         IN  RoundHalfEven(lo[1] * dv + (hi[1] - lo[1]) * (score - lo[2]), dv)

\* rank() for a record: _rank_on_dist, then one percentile per axis that had
\* probes apply.
Ranked(outs) ==
    LET n      == Len(Curve.dist)
        key    == RecordKey(outs)
        better == {i \in 1 .. n : Before(Curve.dist[i], key)}
        worse  == {i \in 1 .. n : Before(key, Curve.dist[i])}
        axis   == AxisSlop(outs)
    IN  [percentile |-> RoundHalfEven(100 * Cardinality(better), n),
         cleaner    |-> RoundHalfEven(100 * Cardinality(worse), n),
         axes |-> [b \in DOMAIN Curve.axes |->
                      IF \E p \in Applied(outs) : Catalog[p].bundle = b
                      THEN PercentileOf(Curve.axes[b],
                               IF b \in DOMAIN axis THEN axis[b] ELSE 0)
                      ELSE Unranked]]

-----------------------------------------------------------------------------
(* The grade.                                                              *)

Init == /\ next = 1
        /\ outcomes = <<>>
        /\ blocked = {}
        /\ stage = ""
        /\ phase = "probing"
        /\ ranking = Unranked

\* The probe answers in time.
RunProbe == /\ phase = "probing" /\ next \in Probes
            /\ \E produced \in Produced(next) : outcomes' = outcomes \o produced
            /\ next' = next + 1
            /\ UNCHANGED <<blocked, stage, phase, ranking>>

\* The probe outlives its deadline: it is booked as blocked.
HangProbe == /\ phase = "probing" /\ next \in Probes
             /\ ~ Catalog[next].browser
             /\ blocked' = blocked \cup {next}
             /\ next' = next + 1
             /\ UNCHANGED <<outcomes, stage, phase, ranking>>

\* An app-wide challenge at this probe cuts the battery: the tail is booked,
\* and below the keepable fraction the grade is a limited one.
CutBattery == /\ phase = "probing" /\ next \in Probes
              /\ blocked' = blocked \cup (next .. Len(Catalog))
              /\ stage' = IF (next - 1) * FracDen < FracNum * Len(Catalog)
                          THEN "limited" ELSE "late"
              /\ phase' = "graded"
              /\ UNCHANGED <<next, outcomes, ranking>>

\* The loop is over; a challenge that starts only now keeps every outcome.
FinishGrade == /\ phase = "probing" /\ next \notin Probes
               /\ stage' \in {"", "late"}
               /\ phase' = "graded"
               /\ UNCHANGED <<next, outcomes, blocked, ranking>>

\* rank() refuses a battery that a challenge cut too early (ValueError).
Rank == /\ phase = "graded" /\ stage # "limited"
        /\ ranking' = Ranked(outcomes)
        /\ phase' = "ranked"
        /\ UNCHANGED <<next, outcomes, blocked, stage>>

Next == RunProbe \/ HangProbe \/ CutBattery \/ FinishGrade \/ Rank

Spec == Init /\ [][Next]_vars

-----------------------------------------------------------------------------
(* Properties.                                                             *)

Verdicts == {"not_applicable", "clean", "slop_detected"}

\* Every outcome is a known probe's, and only a finding has a price.
TypeOK ==
    /\ next \in 1 .. Len(Catalog) + 1
    /\ outcomes \in Seq([probe : Probes, verdict : Verdicts, penalty : Nat])
    /\ blocked \subseteq Probes
    /\ stage \in {"", "late", "limited"}
    /\ phase \in {"probing", "graded", "ranked"}
    /\ \A i \in DOMAIN outcomes :
           outcomes[i].verdict # "slop_detected" => outcomes[i].penalty = 0

\* The column of contributions adds up to the published score to the tenth:
\* fan-out, lost groups, ties, escalations and all (aggregate.contributions).
ContributionsSum ==
    phase = "graded" =>
    LET share == Contributions(outcomes)
        price == Priced(outcomes)
    IN  /\ SumFunction(share) = SlopScore(outcomes)
        /\ \A i \in DOMAIN share : share[i] <= price[i].penalty

\* The battery runs in a per-grade order (sorted by order_weight), and the score
\* does not depend on it, whichever member of a group or a tie comes first.
OrderIndependent ==
    phase = "graded" => SlopScore(Reverse(outcomes)) = SlopScore(outcomes)

\* The axis subtotals add up to the score but for their rounding: less than
\* half a tenth each and half a tenth for the score (compute_axis_slop).
AxesWithinRounding ==
    phase = "graded" =>
    LET axis == AxisSlop(outcomes)
        gap  == SumFunction(axis) - SlopScore(outcomes)
        n    == Cardinality(DOMAIN axis)
    IN  -(n + 1) < 2 * gap /\ 2 * gap < n + 1

OncePerProbe(f) == \A i, j \in DOMAIN f : f[i].probe = f[j].probe => i = j
AtCatalogPrice(f) ==
    \A i \in DOMAIN f : f[i].penalty = Catalog[f[i].probe].penalty

\* The worst case is no less than the score when each probe fired at most once
\* and at its catalog price (benchmark._slop_potential).
NominalPotentialCovers ==
    phase = "graded" =>
    LET f == Fired(outcomes)
    IN  OncePerProbe(f) /\ AtCatalogPrice(f)
        => Potential(outcomes) >= SlopScore(outcomes)

Fixed(outs, i) == [outs EXCEPT ![i] = Clean(outs[i].probe)]

\* What aggregate.py publishes of a grade are views of one ledger: rows, axes,
\* worst case and battery order never give two readings of the same findings.
NumbersAgree == /\ TypeOK
                /\ ContributionsSum
                /\ OrderIndependent
                /\ AxesWithinRounding
                /\ NominalPotentialCovers

\* A team that fixes a finding never scores or ranks worse for it, overall or on
\* an axis, although the fix moves others up their category, hands over a group
\* or re-prices a third probe (aggregate.priced, benchmark.rank).
FixingNeverHurts ==
    phase = "ranked" =>
        \A i \in DOMAIN outcomes :
            outcomes[i].verdict = "slop_detected" =>
                LET after == Ranked(Fixed(outcomes, i))
                IN  /\ SlopScore(Fixed(outcomes, i)) <= SlopScore(outcomes)
                    /\ after.percentile <= ranking.percentile
                    /\ after.cleaner >= ranking.cleaner
                    /\ \A b \in DOMAIN ranking.axes :
                           ranking.axes[b] # Unranked =>
                               after.axes[b] <= ranking.axes[b]
=============================================================================
