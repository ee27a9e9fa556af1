----------------------------- MODULE Estimator ------------------------------
(***************************************************************************)
(* The percentile-hysteresis estimator of one resource of one VPA, and the *)
(* scaling rules its policy adds: timestamped usage samples per container, *)
(* a sliding window, a percentile of what is in it once it covers enough   *)
(* time, and the rules that compare the result with the initial request.   *)
(*                                                                         *)
(* Percentiles, headrooms and percentages are float64 in the code; here    *)
(* they are hundredths.  A float product is exact or off by one unit in    *)
(* the last place, which shows only where the exact product is a whole     *)
(* number: RoundsUp and RoundsDown are the pairs <<amount, hundredths>> at *)
(* which it comes out above or below that number (100 * 1.1 is one).       *)
(***************************************************************************)
EXTENDS Integers, Sequences, SequencesExt, FiniteSetsExt

CONSTANTS
    Containers,   \* container names
    Specs,        \* the heuristic parameters and rules a policy may state
    Usages,       \* usage values a metrics snapshot may hold, negative ones too
    Requests,     \* requests of a container, 0 when it states none
    Minima,       \* per-container minima: the pod minimum over the containers
    None,         \* no initial request was captured
    RoundsUp, RoundsDown,
    MaxTime,      \* bound on time
    MaxFed,       \* bound on the samples fed to one container
    Pods          \* the pods a metrics snapshot may hold a usage of

VARIABLES
    spec,      \* the policy's parameters, fixed when the estimator is built
    now,       \* the clock
    samples,   \* container -> the samples kept, <<>> when it has no entry
    accessed,  \* container -> when its samples were last purged
    fed,       \* container -> history variable: every sample ever accepted
    last       \* container -> the last recommendation and what it was made from

vars == <<spec, now, samples, accessed, fed, last>>

Rule == [kind : {"request-ceiling", "request-floor"}, percent : Nat]

\* What the factory accepts: a percentile between 0 and 1, a non-negative
\* headroom (both from the CRD's schema), and a coverage below the window.
IsSpec(s) ==
    /\ s.percentile \in 0..100
    /\ s.headroom \in Nat
    /\ s.slidingWindow \in Nat
    /\ s.minimumCoverageWindow \in Int
    /\ s.minimumCoverageWindow < s.slidingWindow
    /\ s.scalingRules \in Seq(Rule)

ASSUME EstimatorAssumption ==
    /\ \A s \in Specs : IsSpec(s)
    /\ Usages \subseteq Int /\ Requests \subseteq Nat /\ Minima \subseteq Nat
    /\ None \notin Requests
    /\ \A e \in RoundsUp \cup RoundsDown :
            /\ e \in Nat \X Nat
            /\ e[1] > 0 /\ e[2] % 100 # 0 /\ (e[1] * e[2]) % 100 = 0
    /\ IsFiniteSet(Pods) /\ MaxTime \in Nat /\ MaxFed \in Nat

Sample == [value : Nat, time : Nat]
Rec    == [target : Int, lower : Int, upper : Int, uncapped : Int]

-----------------------------------------------------------------------------
(* Arithmetic.                                                              *)

\* math.Ceil of a float product, and the conversion to an integer of one.
CeilPercent(amount, percent) ==
    (amount * percent + 99) \div 100 + (IF <<amount, percent>> \in RoundsUp THEN 1 ELSE 0)

FloorPercent(amount, percent) ==
    (amount * percent) \div 100 - (IF <<amount, percent>> \in RoundsDown THEN 1 ELSE 0)

applyConstraints(amount, constraints) ==
    IF amount < constraints.Min THEN constraints.Min
    ELSE IF constraints.Max > 0 /\ amount > constraints.Max THEN constraints.Max
    ELSE amount

-----------------------------------------------------------------------------
(* The sliding window.                                                      *)

Fresh(s, t) == s.time >= t - spec.slidingWindow

\* Seeded bug: a sample is dropped when it reaches the window's age.
purgeTooEarly(s, t) ==
    LET young == {i \in DOMAIN s : s[i].time > t - spec.slidingWindow}
    IN  IF young = {} THEN <<>> ELSE SubSeq(s, Min(young), Len(s))

\* The leading samples older than the window go.
purgeSamples(s, t) ==
    LET fresh == {i \in DOMAIN s : Fresh(s[i], t)}
    IN  IF fresh = {} THEN <<>> ELSE SubSeq(s, Min(fresh), Len(s))

\* Seeded bug: both ends of the covered span are counted.
coverageOfBothEnds(s) ==
    IF Len(s) < 2 THEN 0 ELSE s[Len(s)].time - s[1].time + 1

windowCoverage(s) ==
    IF Len(s) < 2 THEN 0 ELSE s[Len(s)].time - s[1].time

\* Seeded bug: the percentile's rank is rounded down.
RankRoundedDown(n) == Max({(n * spec.percentile) \div 100, 1})

\* One more than the index of the percentile among n sorted values.
Rank(n) == Max({CeilPercent(n, spec.percentile), 1})

\* An order of the samples in which their values do not decrease.
Ascending(s) ==
    CHOOSE order \in Bijection(DOMAIN s, DOMAIN s) :
        \A i, j \in DOMAIN s : i < j => s[order[i]].value <= s[order[j]].value

\* 0 stands for no samples.
calculatePercentile(s) ==
    IF s = <<>> THEN 0 ELSE s[Ascending(s)[Rank(Len(s))]].value

-----------------------------------------------------------------------------
(* Recommending.                                                            *)

Fallback(constraints) ==
    LET amount == IF constraints.CurrentRequest > 0 THEN constraints.CurrentRequest
                  ELSE constraints.Min
    IN  [target |-> amount, lower |-> amount, upper |-> amount, uncapped |-> amount]

\* Seeded bug: the bounds are taken from the target before it is clamped.
FromUncapped(base, constraints) ==
    LET uncapped == CeilPercent(base, 100 + spec.headroom)
    IN  [target   |-> applyConstraints(uncapped, constraints),
         lower    |-> CeilPercent(uncapped, 90),
         upper    |-> CeilPercent(uncapped, 110),
         uncapped |-> uncapped]

FromPercentile(base, constraints) ==
    LET uncapped == CeilPercent(base, 100 + spec.headroom)
        target   == applyConstraints(uncapped, constraints)
    IN  [target   |-> target,
         lower    |-> CeilPercent(target, 90),
         upper    |-> CeilPercent(target, 110),
         uncapped |-> uncapped]

Covered(s) == windowCoverage(s) >= spec.minimumCoverageWindow

\* GetSingleResourceRecommendation, of samples already purged.
Heuristic(s, constraints) ==
    IF Covered(s) THEN FromPercentile(calculatePercentile(s), constraints)
    ELSE Fallback(constraints)

AtMost(rec, bound) ==
    [target |-> Min({rec.target, bound}), lower |-> Min({rec.lower, bound}),
     upper |-> Min({rec.upper, bound}), uncapped |-> rec.uncapped]

AtLeast(rec, bound) ==
    [target |-> Max({rec.target, bound}), lower |-> Max({rec.lower, bound}),
     upper |-> Max({rec.upper, bound}), uncapped |-> rec.uncapped]

ApplyRule(rec, rule, original) ==
    LET bound == FloorPercent(original, rule.percent)
    IN  IF rule.kind = "request-ceiling" THEN AtMost(rec, bound) ELSE AtLeast(rec, bound)

\* Seeded bug: the rules run in reverse order.
ApplyReversed(rules, rec, original) ==
    FoldRight(LAMBDA rule, r : ApplyRule(r, rule, original), rules, rec)

ApplyRules(rules, rec, original) ==
    FoldLeft(LAMBDA r, rule : ApplyRule(r, rule, original), rec, rules)

-----------------------------------------------------------------------------
(* The estimator's operations, each under its mutex.                        *)

NoRecommendation == [made |-> FALSE]

Init ==
    /\ spec \in Specs
    /\ now = 0
    /\ samples = [c \in Containers |-> <<>>]
    /\ accessed = [c \in Containers |-> 0]
    /\ fed = [c \in Containers |-> <<>>]
    /\ last = [c \in Containers |-> NoRecommendation]

\* The samples of one feed: they get the same timestamp, so that their order
\* (that of a range over the pods) does not matter.
Timed(usage, accepted) ==
    LET pods == SetToSeq(accepted)
    IN  [i \in 1..Cardinality(accepted) |-> [value |-> usage[pods[i]], time |-> now]]

\* Seeded bug: negative values are not skipped.
FeedAll(c, usage) ==
    LET timed == Timed(usage, DOMAIN usage)
    IN  /\ Len(fed[c]) + Len(timed) <= MaxFed
        /\ samples' = [samples EXCEPT ![c] = purgeSamples(@ \o timed, now)]
        /\ fed' = [fed EXCEPT ![c] = @ \o timed]
        /\ accessed' = [accessed EXCEPT ![c] = now]
        /\ UNCHANGED <<spec, now, last>>

\* One value per pod of the container's VPA; negative ones are skipped.
FeedSamples(c, usage) ==
    LET timed == Timed(usage, {p \in DOMAIN usage : usage[p] >= 0})
    IN  /\ Len(fed[c]) + Len(timed) <= MaxFed
        /\ samples' = [samples EXCEPT ![c] = purgeSamples(@ \o timed, now)]
        /\ fed' = [fed EXCEPT ![c] = @ \o timed]
        /\ accessed' = [accessed EXCEPT ![c] = now]
        /\ UNCHANGED <<spec, now, last>>

\* The part of recommendContainerResources that is about one resource: the
\* rules are skipped when the initial request is not known.
Recommend(c, constraints, original) ==
    LET kept      == purgeSamples(samples[c], now)
        heuristic == Heuristic(kept, constraints)
        rec       == IF original = None THEN heuristic
                     ELSE ApplyRules(spec.scalingRules, heuristic, original)
    IN  /\ samples' = [samples EXCEPT ![c] = kept]
        /\ accessed' = [accessed EXCEPT ![c] = now]
        /\ last' = [last EXCEPT ![c] =
                [made |-> TRUE, at |-> now, covered |-> Covered(kept),
                 constraints |-> constraints, original |-> original,
                 heuristic |-> heuristic, rec |-> rec]]
        /\ UNCHANGED <<spec, now, fed>>

Tick ==
    /\ now < MaxTime
    /\ now' = now + 1
    /\ UNCHANGED <<spec, samples, accessed, fed, last>>

\* The constraints the recommender passes: it sets no maximum.
Constraints == [Min : Minima, Max : {0}, CurrentRequest : Requests]

Next ==
    \/ \E c \in Containers, pods \in SUBSET Pods \ {{}} :
          \E usage \in [pods -> Usages] : FeedSamples(c, usage)
    \/ \E c \in Containers, constraints \in Constraints,
          original \in Requests \cup {None} : Recommend(c, constraints, original)
    \/ Tick

Spec == Init /\ [][Next]_vars

-----------------------------------------------------------------------------
(* Properties.                                                              *)

\* Type invariant.
TypeOK ==
    /\ spec \in Specs
    /\ now \in 0..MaxTime
    /\ samples \in [Containers -> Seq(Sample)]
    /\ accessed \in [Containers -> 0..MaxTime]
    /\ fed \in [Containers -> Seq(Sample)]
    /\ \A c \in Containers : last[c].made =>
            last[c].heuristic \in Rec /\ last[c].rec \in Rec

(* The window is exact: whatever the order of feeds, recommendations and   *)
(* idle time, the samples kept are all the samples ever accepted that were *)
(* inside the window when the container was last touched, and no other.    *)
WindowExact ==
    \A c \in Containers : \E k \in 0..Len(fed[c]) :
        /\ samples[c] = SubSeq(fed[c], k + 1, Len(fed[c]))
        /\ \A i \in 1..k : ~Fresh(fed[c][i], accessed[c])
        /\ \A i \in (k + 1)..Len(fed[c]) : Fresh(fed[c][i], accessed[c])

(* A percentile is taken only from data that covers enough time and is     *)
(* still inside the window when the recommendation is made; otherwise the  *)
(* current request (or the minimum) is recommended unchanged.              *)
LearnsFromCoveredWindow ==
    \A c \in Containers : last[c].made =>
        IF last[c].covered
        THEN spec.minimumCoverageWindow > 0 =>
                \E i, j \in DOMAIN fed[c] :
                    /\ Fresh(fed[c][i], last[c].at)
                    /\ fed[c][j].time <= last[c].at
                    /\ fed[c][j].time - fed[c][i].time >= spec.minimumCoverageWindow
        ELSE last[c].heuristic = Fallback(last[c].constraints)

(* The percentile is a sample, at least that share of the samples is not   *)
(* above it, and no more than that share is below it.                      *)
NearestRank ==
    \A c \in Containers : samples[c] # <<>> =>
        LET s    == samples[c]
            base == calculatePercentile(s)
            need == spec.percentile * Len(s)
        IN  /\ \E i \in DOMAIN s : s[i].value = base
            /\ 100 * Cardinality({i \in DOMAIN s : s[i].value <= base}) >= need
            /\ 100 * Cardinality({i \in DOMAIN s : s[i].value < base}) <= need

Ordered(rec) == rec.lower <= rec.target /\ rec.target <= rec.upper

(* The bounds the updater compares a pod with always enclose the target,   *)
(* before and after the rules: a pod that runs at the target is never      *)
(* outside them.                                                           *)
BoundsOrdered ==
    \A c \in Containers : last[c].made =>
        Ordered(last[c].heuristic) /\ Ordered(last[c].rec)

Bound(rule, original) == FloorPercent(original, rule.percent)

Respects(rec, rule, original) ==
    IF rule.kind = "request-ceiling"
    THEN Max({rec.target, rec.lower, rec.upper}) <= Bound(rule, original)
    ELSE Min({rec.target, rec.lower, rec.upper}) >= Bound(rule, original)

\* A later rule that can push a recommendation out of an earlier one.
Overrides(later, earlier, original) ==
    \/ /\ earlier.kind = "request-ceiling" /\ later.kind = "request-floor"
       /\ Bound(later, original) > Bound(earlier, original)
    \/ /\ earlier.kind = "request-floor" /\ later.kind = "request-ceiling"
       /\ Bound(later, original) < Bound(earlier, original)

(* Rules run in the order of the policy's list: each one holds of what is  *)
(* recommended unless a later one overrides it, and the uncapped target is *)
(* the heuristic's.                                                        *)
RulesInOrder ==
    \A c \in Containers : last[c].made /\ last[c].original # None =>
        LET rules    == spec.scalingRules
            original == last[c].original
        IN  /\ last[c].rec.uncapped = last[c].heuristic.uncapped
            /\ \A i \in DOMAIN rules :
                   \/ Respects(last[c].rec, rules[i], original)
                   \/ \E j \in DOMAIN rules :
                          j > i /\ Overrides(rules[j], rules[i], original)
=============================================================================
