-------------------------- MODULE EstimatorProofs ---------------------------
(***************************************************************************)
(* What holds of the estimator for every policy, every container, every    *)
(* usage and every length of the window:                                   *)
(*   Window                  Spec => []WindowExact                         *)
(*   EstimatorTypeCorrect    Spec => []TypeOK                              *)
(*   LearnsOnlyWhenCovered   Spec => []LearnsFromCoveredWindow             *)
(*   PercentilesRight        Spec => []NearestRank                         *)
(*   BoundsAlwaysOrdered     Spec => []BoundsOrdered                       *)
(*   RulesHoldInOrder        Spec => []RulesInOrder                        *)
(* and, of the algorithms alone, RankInRange, HeuristicOrdered,            *)
(* RuleKeepsOrder, RulesApplied (any list of rules) and                    *)
(* PercentileIsNearestRank (any samples).                                  *)
(*                                                                         *)
(* WindowExact is inductive together with WindowTypes: samples are fed in  *)
(* the order of time, so the samples a purge stops at are all fresh.  With *)
(* it, EstimatorInv is: the history only grows, so what a recommendation   *)
(* was made from stays there.                                              *)
(*                                                                         *)
(* A list of rules is a fold, and a fold is a function on the subsets of   *)
(* the rules' positions: FoldExists builds it position by position and     *)
(* StepByStep, an induction stated with a set, carries what holds of it    *)
(* along.  That samples can be sorted needs no induction: a sample's place *)
(* is the number of those before it, which is injective.                   *)
(***************************************************************************)
EXTENDS Estimator, Functions, FunctionTheorems, FiniteSetTheorems,
        SequenceTheorems, WellFoundedInduction, TLAPS

-----------------------------------------------------------------------------
(* Minima and maxima.                                                       *)

\* A non-empty set of naturals has a least member, and Min is it.
LEMMA MinOfNat ==
    ASSUME NEW S, S \subseteq Nat, S # {}
    PROVE  Min(S) \in S /\ \A y \in S : Min(S) <= y
<1> DEFINE R == OpToRel(<, Nat)
<1>1. IsWellFoundedOn(R, Nat)
  BY NatLessThanWellFounded
<1>2. R = {e \in Nat \X Nat : e[1] < e[2]}
  BY DEF OpToRel
<1> HIDE DEF R
<1>w. \E x \in S : \A y \in S : ~ (<<y, x>> \in R)
  BY <1>1, WFMin
<1>3. PICK x \in S : \A y \in S : ~ (<<y, x>> \in R)
  BY <1>w
<1>4. \A y \in S : x <= y
  <2> SUFFICES ASSUME NEW y \in S, y < x
               PROVE  FALSE
    OBVIOUS
  <2>1. <<y, x>> \in R
    BY <1>2
  <2> QED
    BY <1>3, <2>1
<1> QED
  BY <1>4 DEF Min

\* Max and Min of two integers.
LEMMA MaxMinOfTwo ==
    ASSUME NEW a \in Int, NEW b \in Int
    PROVE  /\ Max({a, b}) = IF a >= b THEN a ELSE b
           /\ Min({a, b}) = IF a <= b THEN a ELSE b
<1>1. CASE a >= b
  BY <1>1 DEF Max, Min
<1>2. CASE a < b
  BY <1>2 DEF Max, Min
<1> QED
  BY <1>1, <1>2

-----------------------------------------------------------------------------
(* Arithmetic.                                                              *)

\* A product that rounding can push up is positive and a multiple of 100.
LEMMA RoundingPairs ==
    ASSUME NEW a, NEW p, <<a, p>> \in RoundsUp
    PROVE  a \in Nat /\ p \in Nat /\ a > 0 /\ p % 100 # 0 /\ (a * p) % 100 = 0
BY EstimatorAssumption

\* math.Ceil of a share of at most everything stays within the amount.
LEMMA ShareWithin ==
    ASSUME NEW n \in Nat, n > 0, NEW p \in 0..100
    PROVE  CeilPercent(n, p) \in 0..n
<1>1. CASE p = 100
  <2>1. <<n, p>> \notin RoundsUp
    BY <1>1, RoundingPairs
  <2>2. CeilPercent(n, p) = (n * 100 + 99) \div 100
    BY <1>1, <2>1 DEF CeilPercent
  <2> QED
    BY <2>2
<1>2. CASE p < 100
  <2> DEFINE x == n * p
  <2>1. x \in Nat /\ x <= 99 * n
    BY <1>2
  <2> HIDE DEF x
  <2>2. (x + 99) \div 100 \in 0..n
    BY <2>1
  <2>3. x % 100 = 0 => (x + 99) \div 100 + 1 \in 0..n
    BY <2>1
  <2>4. CeilPercent(n, p) = (x + 99) \div 100 + (IF <<n, p>> \in RoundsUp THEN 1 ELSE 0)
    BY DEF CeilPercent, x
  <2>5. <<n, p>> \in RoundsUp => x % 100 = 0
    BY RoundingPairs DEF x
  <2> QED
    BY <2>2, <2>3, <2>4, <2>5
<1> QED
  BY <1>1, <1>2

(* The percentile never indexes outside the sorted samples: whatever the   *)
(* policy's percentile, the number of samples and the float rounding, the  *)
(* index calculatePercentile computes is one of theirs.                    *)
THEOREM RankInRange ==
    ASSUME spec \in Specs, NEW n \in Nat, n > 0
    PROVE  Rank(n) \in 1..n
<1>1. spec.percentile \in 0..100
  BY EstimatorAssumption DEF IsSpec
<1>2. CeilPercent(n, spec.percentile) \in 0..n
  BY <1>1, ShareWithin
<1> QED
  BY <1>2, MaxMinOfTwo DEF Rank

\* 90% of an amount rounded up is at most the amount, 110% at least.
LEMMA BoundsAround ==
    ASSUME NEW t \in Nat
    PROVE  /\ CeilPercent(t, 90) \in Nat /\ CeilPercent(t, 90) <= t
           /\ CeilPercent(t, 110) \in Nat /\ CeilPercent(t, 110) >= t
<1>1. <<t, 90>> \in RoundsUp => t > 0 /\ (t * 90) % 100 = 0
  BY RoundingPairs
<1>2. CeilPercent(t, 90) = (t * 90 + 99) \div 100 + (IF <<t, 90>> \in RoundsUp THEN 1 ELSE 0)
  BY DEF CeilPercent
<1>3. CeilPercent(t, 110) = (t * 110 + 99) \div 100 + (IF <<t, 110>> \in RoundsUp THEN 1 ELSE 0)
  BY DEF CeilPercent
<1> QED
  BY <1>1, <1>2, <1>3

\* Clamping keeps an amount a natural number.
LEMMA ClampType ==
    ASSUME NEW a \in Nat, NEW k, k.Min \in Nat, k.Max \in Nat
    PROVE  applyConstraints(a, k) \in Nat
BY DEF applyConstraints

(* The bounds enclose the target in every recommendation the heuristic     *)
(* makes from a percentile.                                                *)
THEOREM HeuristicOrdered ==
    ASSUME spec \in Specs, NEW base \in Nat, NEW k, k.Min \in Nat, k.Max \in Nat
    PROVE  Ordered(FromPercentile(base, k)) /\ FromPercentile(base, k) \in Rec
<1> DEFINE u == CeilPercent(base, 100 + spec.headroom)
           t == applyConstraints(u, k)
<1>1. spec.headroom \in Nat
  BY EstimatorAssumption DEF IsSpec
<1> DEFINE x == base * (100 + spec.headroom)
<1>2. x \in Nat
  BY <1>1
<1> HIDE DEF x
<1>3. (x + 99) \div 100 \in Nat
  BY <1>2
<1>4. u = (x + 99) \div 100 + (IF <<base, 100 + spec.headroom>> \in RoundsUp THEN 1 ELSE 0)
  BY DEF x, CeilPercent
<1>5. u \in Nat
  BY <1>3, <1>4
<1>6. t \in Nat
  BY <1>5, ClampType
<1> HIDE DEF u, t
<1>7. FromPercentile(base, k) = [target |-> t, lower |-> CeilPercent(t, 90),
                                 upper |-> CeilPercent(t, 110), uncapped |-> u]
  BY DEF FromPercentile, u, t
<1> QED
  BY <1>5, <1>6, <1>7, BoundsAround DEF Ordered, Rec

(* A scaling rule keeps the bounds around the target and leaves the        *)
(* uncapped target alone, so a list of them does.                          *)
THEOREM RuleKeepsOrder ==
    ASSUME NEW r \in Rec, Ordered(r), NEW rule, NEW original,
           FloorPercent(original, rule.percent) \in Int
    PROVE  /\ ApplyRule(r, rule, original) \in Rec
           /\ Ordered(ApplyRule(r, rule, original))
           /\ ApplyRule(r, rule, original).uncapped = r.uncapped
<1> DEFINE b == FloorPercent(original, rule.percent)
<1>1. b \in Int
  OBVIOUS
<1> HIDE DEF b
<1>2. r.target \in Int /\ r.lower \in Int /\ r.upper \in Int /\ r.uncapped \in Int
  BY DEF Rec
<1>3. AtMost(r, b) = [target |-> Min({r.target, b}), lower |-> Min({r.lower, b}),
                      upper |-> Min({r.upper, b}), uncapped |-> r.uncapped]
  BY DEF AtMost
<1>4. AtLeast(r, b) = [target |-> Max({r.target, b}), lower |-> Max({r.lower, b}),
                       upper |-> Max({r.upper, b}), uncapped |-> r.uncapped]
  BY DEF AtLeast
<1>m. \A f \in {r.target, r.lower, r.upper} :
          /\ Min({f, b}) = IF f <= b THEN f ELSE b
          /\ Max({f, b}) = IF f >= b THEN f ELSE b
  BY <1>1, <1>2, MaxMinOfTwo
<1>o. r.lower <= r.target /\ r.target <= r.upper
  BY DEF Ordered
<1>5. AtMost(r, b) \in Rec /\ Ordered(AtMost(r, b)) /\ AtMost(r, b).uncapped = r.uncapped
  <2> DEFINE t == IF r.target <= b THEN r.target ELSE b
             l == IF r.lower <= b THEN r.lower ELSE b
             u == IF r.upper <= b THEN r.upper ELSE b
  <2>1. AtMost(r, b) = [target |-> t, lower |-> l, upper |-> u, uncapped |-> r.uncapped]
    BY <1>3, <1>m
  <2>2. t \in Int /\ l \in Int /\ u \in Int /\ l <= t /\ t <= u
    BY <1>1, <1>2, <1>o
  <2> HIDE DEF t, l, u
  <2> QED
    BY <1>2, <2>1, <2>2 DEF Ordered, Rec
<1>6. AtLeast(r, b) \in Rec /\ Ordered(AtLeast(r, b)) /\ AtLeast(r, b).uncapped = r.uncapped
  <2> DEFINE t == IF r.target >= b THEN r.target ELSE b
             l == IF r.lower >= b THEN r.lower ELSE b
             u == IF r.upper >= b THEN r.upper ELSE b
  <2>1. AtLeast(r, b) = [target |-> t, lower |-> l, upper |-> u, uncapped |-> r.uncapped]
    BY <1>4, <1>m
  <2>2. t \in Int /\ l \in Int /\ u \in Int /\ l <= t /\ t <= u
    BY <1>1, <1>2, <1>o
  <2> HIDE DEF t, l, u
  <2> QED
    BY <1>2, <2>1, <2>2 DEF Ordered, Rec
<1>7. ApplyRule(r, rule, original) =
          IF rule.kind = "request-ceiling" THEN AtMost(r, b) ELSE AtLeast(r, b)
  BY DEF ApplyRule, b
<1> QED
  BY <1>5, <1>6, <1>7

-----------------------------------------------------------------------------
(* The sliding window.                                                      *)

Sorted(s) == \A i, j \in DOMAIN s : i <= j => s[i].time <= s[j].time

\* s is what a window that ends at t leaves of the samples g.
IsWindow(s, g, t) ==
    \E k \in 0..Len(g) :
        /\ s = SubSeq(g, k + 1, Len(g))
        /\ \A i \in 1..k : ~Fresh(g[i], t)
        /\ \A i \in (k + 1)..Len(g) : Fresh(g[i], t)

\* The samples of a sequence of them, and their times.
LEMMA SamplesTyped ==
    ASSUME NEW s \in Seq(Sample)
    PROVE  /\ Len(s) \in Nat /\ DOMAIN s = 1..Len(s)
           /\ \A i \in 1..Len(s) : s[i] \in Sample /\ s[i].time \in Nat
<1>1. Len(s) \in Nat /\ DOMAIN s = 1..Len(s) /\ s \in [1..Len(s) -> Sample]
  BY LenProperties
<1>2. \A x \in Sample : x.time \in Nat
  BY DEF Sample
<1> QED
  BY <1>1, <1>2

\* A suffix of samples, element by element.
LEMMA SuffixTyped ==
    ASSUME NEW g \in Seq(Sample), NEW k \in 0..Len(g)
    PROVE  /\ SubSeq(g, k + 1, Len(g)) \in Seq(Sample)
           /\ Len(SubSeq(g, k + 1, Len(g))) = Len(g) - k
           /\ \A i \in 1..(Len(g) - k) : SubSeq(g, k + 1, Len(g))[i] = g[k + i]
<1>1. Len(g) \in Nat /\ \A i \in (k + 1)..Len(g) : g[i] \in Sample
  BY SamplesTyped
<1> DEFINE u == SubSeq(g, k + 1, Len(g))
<1>2. /\ u \in Seq(Sample)
      /\ Len(u) = IF k + 1 <= Len(g) THEN Len(g) - (k + 1) + 1 ELSE 0
      /\ \A i \in 1..(Len(g) - (k + 1) + 1) : u[i] = g[(k + 1) + i - 1]
  BY <1>1, SubSeqProperties
<1> HIDE DEF u
<1>3. Len(u) = Len(g) - k /\ \A i \in 1..(Len(g) - k) : u[i] = g[k + i]
  BY <1>1, <1>2
<1> QED
  BY <1>2, <1>3 DEF u

\* What a purge keeps of samples in the order of time is their window.
LEMMA PurgeIsWindow ==
    ASSUME spec \in Specs, NEW s \in Seq(Sample), Sorted(s), NEW t \in Nat
    PROVE  IsWindow(purgeSamples(s, t), s, t)
<1> DEFINE fresh == {i \in DOMAIN s : Fresh(s[i], t)}
<1>w. spec.slidingWindow \in Nat
  BY EstimatorAssumption DEF IsSpec
<1>1. CASE fresh = {}
  <2>1. purgeSamples(s, t) = <<>>
    BY <1>1 DEF purgeSamples
  <2>2. SubSeq(s, Len(s) + 1, Len(s)) = <<>>
    BY SubSeqEmpty
  <2>3. \A i \in 1..Len(s) : ~Fresh(s[i], t)
    BY <1>1
  <2> QED
    BY <2>1, <2>2, <2>3 DEF IsWindow
<1>2. CASE fresh # {}
  <2> DEFINE m == Min(fresh)
  <2>d. fresh \subseteq Nat
    BY SamplesTyped
  <2> HIDE DEF fresh
  <2>1. m \in fresh /\ \A i \in fresh : m <= i
    BY <1>2, <2>d, MinOfNat
  <2> USE DEF fresh
  <2> HIDE DEF m
  <2>2. purgeSamples(s, t) = SubSeq(s, m, Len(s))
    BY <1>2 DEF purgeSamples, m
  <2>3. m \in 1..Len(s) /\ Fresh(s[m], t)
    BY <2>1
  <2>4. \A i \in 1..(m - 1) : ~Fresh(s[i], t)
    BY <2>1, <2>3
  <2>5. ASSUME NEW i \in m..Len(s)
        PROVE  Fresh(s[i], t)
    <3>1. s[m].time <= s[i].time
      BY <2>3, SamplesTyped DEF Sorted
    <3>2. s[m].time \in Int /\ s[i].time \in Int
      BY <2>3, SamplesTyped
    <3> QED
      BY <1>w, <2>3, <3>1, <3>2 DEF Fresh
  <2>6. m - 1 \in 0..Len(s) /\ (m - 1) + 1 = m
    BY <2>3
  <2> QED
    BY <2>2, <2>4, <2>5, <2>6 DEF IsWindow
<1> QED
  BY <1>1, <1>2

\* A purge at a later time turns a window into the window at that time.
LEMMA PurgeKeepsWindow ==
    ASSUME spec \in Specs, NEW g \in Seq(Sample), Sorted(g),
           NEW a \in Nat, NEW t \in Nat, a <= t,
           NEW k \in 0..Len(g), \A i \in 1..k : ~Fresh(g[i], a)
    PROVE  LET s == SubSeq(g, k + 1, Len(g))
           IN  IsWindow(purgeSamples(s, t), g, t) /\ purgeSamples(s, t) \in Seq(Sample)
<1> DEFINE s == SubSeq(g, k + 1, Len(g))
<1>w. spec.slidingWindow \in Nat
  BY EstimatorAssumption DEF IsSpec
<1>1. /\ s \in Seq(Sample) /\ Len(s) = Len(g) - k
      /\ \A i \in 1..(Len(g) - k) : s[i] = g[k + i]
  BY SuffixTyped
<1> HIDE DEF s
<1>l. Len(g) \in Nat /\ DOMAIN g = 1..Len(g) /\ DOMAIN s = 1..Len(s)
  BY <1>1, SamplesTyped
<1>2. Sorted(s)
  <2> SUFFICES ASSUME NEW i \in 1..Len(s), NEW j \in 1..Len(s), i <= j
               PROVE  s[i].time <= s[j].time
    BY <1>l DEF Sorted
  <2>1. s[i] = g[k + i] /\ s[j] = g[k + j] /\ k + i \in 1..Len(g) /\ k + j \in 1..Len(g)
    BY <1>1, <1>l
  <2> QED
    BY <1>l, <2>1 DEF Sorted
<1>3. PICK j \in 0..Len(s) :
          /\ purgeSamples(s, t) = SubSeq(s, j + 1, Len(s))
          /\ \A i \in 1..j : ~Fresh(s[i], t)
          /\ \A i \in (j + 1)..Len(s) : Fresh(s[i], t)
  BY <1>1, <1>2, PurgeIsWindow DEF IsWindow
<1>4. k + j \in 0..Len(g)
  BY <1>1, <1>l
<1>5. SubSeq(s, j + 1, Len(s)) = SubSeq(g, (k + j) + 1, Len(g))
  <2> DEFINE u == SubSeq(s, j + 1, Len(s))
             v == SubSeq(g, (k + j) + 1, Len(g))
  <2>1. /\ u \in Seq(Sample) /\ Len(u) = Len(s) - j
        /\ \A i \in 1..(Len(s) - j) : u[i] = s[j + i]
    BY <1>1, SuffixTyped
  <2>2. /\ v \in Seq(Sample) /\ Len(v) = Len(g) - (k + j)
        /\ \A i \in 1..(Len(g) - (k + j)) : v[i] = g[(k + j) + i]
    BY <1>4, SuffixTyped
  <2> HIDE DEF u, v
  <2>3. Len(u) = Len(v) /\ \A i \in 1..Len(u) : u[i] = v[i]
    BY <1>1, <1>l, <2>1, <2>2
  <2>4. u = v
    BY <2>1, <2>2, <2>3, SeqEqual
  <2> QED
    BY <2>4 DEF u, v
<1>s. ASSUME NEW i \in 1..Len(g), i > k
      PROVE  s[i - k] = g[i]
  <2>1. i - k \in 1..(Len(g) - k) /\ k + (i - k) = i
    BY <1>l, <1>s
  <2> QED
    BY <1>1, <2>1
<1>6. ASSUME NEW i \in 1..(k + j)
      PROVE  ~Fresh(g[i], t)
  <2>1. CASE i <= k
    <3>1. ~Fresh(g[i], a) /\ g[i].time \in Int
      BY <2>1, <1>l, SamplesTyped
    <3> QED
      BY <1>w, <3>1 DEF Fresh
  <2>2. CASE i > k
    <3>1. i - k \in 1..j /\ i \in 1..Len(g)
      BY <1>1, <1>l, <2>2
    <3> QED
      BY <1>3, <1>s, <2>2, <3>1
  <2> QED
    BY <2>1, <2>2
<1>7. ASSUME NEW i \in ((k + j) + 1)..Len(g)
      PROVE  Fresh(g[i], t)
  <2>1. i - k \in (j + 1)..Len(s) /\ i \in 1..Len(g) /\ i > k
    BY <1>1, <1>l
  <2> QED
    BY <1>3, <1>s, <2>1
<1>8. SubSeq(s, j + 1, Len(s)) \in Seq(Sample)
  BY <1>1, SuffixTyped
<1> QED
  BY <1>3, <1>4, <1>5, <1>6, <1>7, <1>8 DEF IsWindow, s

\* Appending to a suffix gives a suffix of what has the same appended.
LEMMA AppendToSuffix ==
    ASSUME NEW f \in Seq(Sample), NEW n \in Seq(Sample), NEW k \in 0..Len(f)
    PROVE  SubSeq(f, k + 1, Len(f)) \o n = SubSeq(f \o n, k + 1, Len(f \o n))
<1> DEFINE s == SubSeq(f, k + 1, Len(f))
           u == SubSeq(f \o n, k + 1, Len(f \o n))
           w == s \o n
<1>1. /\ s \in Seq(Sample) /\ Len(s) = Len(f) - k
      /\ \A i \in 1..(Len(f) - k) : s[i] = f[k + i]
  BY SuffixTyped
<1>l. Len(f) \in Nat /\ Len(n) \in Nat
  BY SamplesTyped
<1>2. /\ f \o n \in Seq(Sample) /\ Len(f \o n) = Len(f) + Len(n)
      /\ \A i \in 1..(Len(f) + Len(n)) :
             (f \o n)[i] = IF i <= Len(f) THEN f[i] ELSE n[i - Len(f)]
  BY ConcatProperties
<1>3. /\ u \in Seq(Sample) /\ Len(u) = Len(f) + Len(n) - k
      /\ \A i \in 1..(Len(f) + Len(n) - k) : u[i] = (f \o n)[k + i]
  BY <1>2, <1>l, SuffixTyped
<1> HIDE DEF s, u
<1>4. /\ w \in Seq(Sample) /\ Len(w) = Len(s) + Len(n)
      /\ \A i \in 1..(Len(s) + Len(n)) :
             w[i] = IF i <= Len(s) THEN s[i] ELSE n[i - Len(s)]
  BY <1>1, ConcatProperties
<1> HIDE DEF w
<1>5. \A i \in 1..(Len(f) + Len(n) - k) : w[i] = u[i]
  <2> SUFFICES ASSUME NEW i \in 1..(Len(f) + Len(n) - k)
               PROVE  w[i] = u[i]
    OBVIOUS
  <2>1. CASE i <= Len(f) - k
    <3>0. i \in 1..(Len(f) - k)
      BY <1>l, <2>1
    <3>s. w[i] = s[i]
      BY <1>1, <1>4, <1>l, <3>0
    <3>1. w[i] = f[k + i]
      BY <1>1, <3>0, <3>s
    <3>2. u[i] = f[k + i]
      BY <1>2, <1>3, <1>l, <2>1
    <3> QED
      BY <3>1, <3>2
  <2>2. CASE i > Len(f) - k
    <3>1. w[i] = n[i - (Len(f) - k)]
      BY <1>1, <1>4, <1>l, <2>2
    <3>2. u[i] = n[(k + i) - Len(f)]
      BY <1>2, <1>3, <1>l, <2>2
    <3>3. i - (Len(f) - k) = (k + i) - Len(f)
      BY <1>l
    <3> QED
      BY <3>1, <3>2, <3>3
  <2> QED
    BY <1>l, <2>1, <2>2
<1>e. Len(w) = Len(u) /\ Len(u) = Len(f) + Len(n) - k
  BY <1>1, <1>3, <1>4, <1>l
<1>6. w = u
  BY <1>3, <1>4, <1>5, <1>e, SeqEqual
<1> QED
  BY <1>6 DEF s, u, w

\* The samples of one feed: as many as there are values, all from now.
LEMMA TimedType ==
    ASSUME now \in Nat, NEW usage, NEW accepted, IsFiniteSet(accepted),
           \A p \in accepted : usage[p] \in Nat
    PROVE  /\ Timed(usage, accepted) \in Seq(Sample)
           /\ \A i \in DOMAIN Timed(usage, accepted) : Timed(usage, accepted)[i].time = now
<1> DEFINE n == Cardinality(accepted)
           pods == SetToSeq(accepted)
<1>1. n \in Nat /\ ExistsBijection(1..n, accepted)
  BY FS_CardinalityType
<1>2. PICK f \in Bijection(1..n, accepted) : TRUE
  BY <1>1 DEF ExistsBijection
<1>3. f \in [1..n -> accepted] /\ IsInjective(f)
  BY <1>2 DEF Bijection, Injection, IsInjective, Surjection
<1>4. pods \in [1..n -> accepted]
  BY <1>3 DEF SetToSeq
<1> HIDE DEF n, pods
<1>5. Timed(usage, accepted) = [i \in 1..n |-> [value |-> usage[pods[i]], time |-> now]]
  BY DEF Timed, n, pods
<1>6. \A i \in 1..n : [value |-> usage[pods[i]], time |-> now] \in Sample
  BY <1>4 DEF Sample
<1> QED
  BY <1>1, <1>5, <1>6

-----------------------------------------------------------------------------
(* The window is exact.                                                     *)

WindowTypes ==
    /\ spec \in Specs
    /\ now \in Nat
    /\ samples \in [Containers -> Seq(Sample)]
    /\ fed \in [Containers -> Seq(Sample)]
    /\ accessed \in [Containers -> Nat]

\* Samples are in the order of time, and none is from the future.
InOrder ==
    \A c \in Containers :
        /\ accessed[c] <= now
        /\ Sorted(fed[c])
        /\ \A i \in DOMAIN fed[c] : fed[c][i].time <= now

WindowInv == WindowTypes /\ InOrder /\ WindowExact

\* Before anything is fed, everything is in order.
LEMMA WindowInit == Init => WindowInv
<1> SUFFICES ASSUME Init
             PROVE  WindowInv
  OBVIOUS
<1>1. WindowTypes /\ InOrder
  BY DEF Init, WindowTypes, InOrder, Sorted
<1>2. WindowExact
  <2> SUFFICES ASSUME NEW c \in Containers
               PROVE  IsWindow(samples[c], fed[c], accessed[c])
    BY DEF WindowExact, IsWindow
  <2>1. samples[c] = <<>> /\ fed[c] = <<>> /\ Len(<<>>) = 0
    BY DEF Init
  <2>2. SubSeq(<<>>, 0 + 1, 0) = <<>>
    BY SubSeqEmpty
  <2> QED
    BY <2>1, <2>2 DEF IsWindow
<1> QED
  BY <1>1, <1>2 DEF WindowInv

\* Touching one container leaves its samples exact when its history only
\* grew by samples from now; the other containers keep theirs.
LEMMA TouchKeepsWindow ==
    ASSUME WindowInv, NEW c \in Containers, NEW n \in Seq(Sample),
           \A i \in DOMAIN n : n[i].time = now,
           spec' = spec, now' = now,
           samples' = [samples EXCEPT ![c] = purgeSamples(@ \o n, now)],
           fed' = [fed EXCEPT ![c] = @ \o n],
           accessed' = [accessed EXCEPT ![c] = now]
    PROVE  WindowInv'
<1> USE DEF WindowInv, WindowTypes
<1> DEFINE f == fed[c]
           g == f \o n
<1>1. f \in Seq(Sample) /\ Len(f) \in Nat /\ Len(n) \in Nat
  BY SamplesTyped
<1>2. /\ g \in Seq(Sample) /\ Len(g) = Len(f) + Len(n)
      /\ \A i \in 1..(Len(f) + Len(n)) :
             g[i] = IF i <= Len(f) THEN f[i] ELSE n[i - Len(f)]
  BY <1>1, ConcatProperties
<1>d. DOMAIN f = 1..Len(f) /\ DOMAIN g = 1..Len(g) /\ DOMAIN n = 1..Len(n)
  BY <1>1, <1>2, SamplesTyped
<1>3. \A i \in 1..Len(f) : f[i].time \in Int /\ f[i].time <= now
  BY <1>1, <1>d, SamplesTyped DEF InOrder
<1>s. Sorted(f) /\ accessed[c] <= now /\ accessed[c] \in Nat
  BY DEF InOrder
<1>4. PICK k \in 0..Len(f) :
          /\ samples[c] = SubSeq(f, k + 1, Len(f))
          /\ \A i \in 1..k : ~Fresh(f[i], accessed[c])
  BY DEF WindowExact
<1>5. samples[c] \o n = SubSeq(g, k + 1, Len(g))
  BY <1>4, AppendToSuffix
<1>n. fed'[c] = g /\ samples'[c] = purgeSamples(samples[c] \o n, now) /\ accessed'[c] = now
  OBVIOUS
<1>w. now \in Int
  OBVIOUS
<1> HIDE DEF f, g
<1>6. \A i \in 1..Len(g) : g[i].time <= now
  <2> SUFFICES ASSUME NEW i \in 1..Len(g)
               PROVE  g[i].time <= now
    OBVIOUS
  <2>1. CASE i <= Len(f)
    <3>1. i \in 1..Len(f) /\ g[i] = f[i]
      BY <1>1, <1>2, <2>1
    <3> QED
      BY <1>3, <3>1
  <2>2. CASE i > Len(f)
    <3>1. i - Len(f) \in 1..Len(n) /\ g[i] = n[i - Len(f)]
      BY <1>1, <1>2, <2>2
    <3>2. n[i - Len(f)].time = now
      BY <1>d, <3>1
    <3> QED
      BY <1>w, <3>1, <3>2
  <2> QED
    BY <1>1, <1>2, <2>1, <2>2
<1>7. Sorted(g)
  <2> SUFFICES ASSUME NEW i \in 1..Len(g), NEW j \in 1..Len(g), i <= j
               PROVE  g[i].time <= g[j].time
    BY <1>d DEF Sorted
  <2>1. CASE j <= Len(f)
    <3>1. i \in DOMAIN f /\ j \in DOMAIN f /\ g[i] = f[i] /\ g[j] = f[j]
      BY <1>1, <1>2, <1>d, <2>1
    <3> QED
      BY <1>s, <3>1 DEF Sorted
  <2>2. CASE j > Len(f)
    <3>1. j - Len(f) \in 1..Len(n) /\ g[j] = n[j - Len(f)]
      BY <1>1, <1>2, <2>2
    <3>2. g[j].time = now
      BY <1>d, <3>1
    <3> QED
      BY <1>6, <3>2
  <2> QED
    BY <1>1, <1>2, <2>1, <2>2
<1>8. k \in 0..Len(g) /\ \A i \in 1..k : ~Fresh(g[i], accessed[c])
  <2>1. k \in 0..Len(g)
    BY <1>1, <1>2
  <2>2. \A i \in 1..k : g[i] = f[i]
    BY <1>1, <1>2
  <2> QED
    BY <1>4, <2>1, <2>2
<1>9. /\ IsWindow(purgeSamples(samples[c] \o n, now), g, now)
      /\ purgeSamples(samples[c] \o n, now) \in Seq(Sample)
  BY <1>2, <1>5, <1>7, <1>8, <1>s, PurgeKeepsWindow
<1>10. WindowTypes'
  BY <1>2, <1>9 DEF f, g
<1>11. InOrder'
  <2> SUFFICES ASSUME NEW d \in Containers
               PROVE  /\ accessed'[d] <= now'
                      /\ Sorted(fed'[d])
                      /\ \A i \in DOMAIN fed'[d] : fed'[d][i].time <= now'
    BY DEF InOrder, Sorted
  <2>1. CASE d = c
    <3>1. fed'[d] = g /\ accessed'[d] = now
      BY <1>n, <2>1
    <3>2. accessed'[d] <= now'
      BY <1>w, <3>1
    <3>3. Sorted(fed'[d])
      BY <1>7, <3>1 DEF Sorted
    <3>4. \A i \in DOMAIN g : g[i].time <= now'
      BY <1>6, <1>d
    <3> QED
      BY <3>1, <3>2, <3>3, <3>4
  <2>2. CASE d # c
    BY <2>2 DEF InOrder
  <2> QED
    BY <2>1, <2>2
<1>12. WindowExact'
  <2> SUFFICES ASSUME NEW d \in Containers
               PROVE  \E j \in 0..Len(fed'[d]) :
                          /\ samples'[d] = SubSeq(fed'[d], j + 1, Len(fed'[d]))
                          /\ \A i \in 1..j : ~Fresh(fed'[d][i], accessed'[d])
                          /\ \A i \in (j + 1)..Len(fed'[d]) : Fresh(fed'[d][i], accessed'[d])
    BY DEF WindowExact, Fresh
  <2>1. CASE d = c
    BY <1>9, <1>n, <2>1 DEF IsWindow
  <2>2. CASE d # c
    <3>1. fed'[d] = fed[d] /\ samples'[d] = samples[d] /\ accessed'[d] = accessed[d]
      BY <2>2
    <3> QED
      BY <3>1 DEF WindowExact
  <2> QED
    BY <2>1, <2>2
<1> QED
  BY <1>10, <1>11, <1>12

\* Every step keeps the invariant.
LEMMA WindowStep == WindowInv /\ [Next]_vars => WindowInv'
<1> SUFFICES ASSUME WindowInv, [Next]_vars
             PROVE  WindowInv'
  OBVIOUS
<1>1. ASSUME NEW c \in Containers, NEW pods \in SUBSET Pods,
             NEW usage \in [pods -> Usages], FeedSamples(c, usage)
      PROVE  WindowInv'
  <2> DEFINE accepted == {p \in DOMAIN usage : usage[p] >= 0}
             n == Timed(usage, accepted)
  <2>1. IsFiniteSet(accepted)
    BY EstimatorAssumption, FS_Subset
  <2>2. \A p \in accepted : usage[p] \in Nat
    <3>1. \A p \in accepted : usage[p] \in Usages /\ usage[p] >= 0
      OBVIOUS
    <3>2. \A x \in Usages : x \in Int
      BY EstimatorAssumption
    <3> QED
      BY <3>1, <3>2
  <2>3. n \in Seq(Sample) /\ \A i \in DOMAIN n : n[i].time = now
    BY <2>1, <2>2, TimedType DEF WindowInv, WindowTypes
  <2>4. /\ spec' = spec /\ now' = now
        /\ samples' = [samples EXCEPT ![c] = purgeSamples(@ \o n, now)]
        /\ fed' = [fed EXCEPT ![c] = @ \o n]
        /\ accessed' = [accessed EXCEPT ![c] = now]
    BY <1>1 DEF FeedSamples
  <2> HIDE DEF n
  <2> QED
    BY <2>3, <2>4, TouchKeepsWindow
<1>2. ASSUME NEW c \in Containers, NEW constraints \in Constraints,
             NEW original, Recommend(c, constraints, original)
      PROVE  WindowInv'
  <2>1. samples[c] \in Seq(Sample) /\ fed[c] \in Seq(Sample)
    BY DEF WindowInv, WindowTypes
  <2>2. samples[c] \o <<>> = samples[c] /\ fed[c] \o <<>> = fed[c]
    BY <2>1
  <2>3. samples' = [samples EXCEPT ![c] = purgeSamples(@ \o <<>>, now)]
    BY <1>2, <2>2 DEF Recommend
  <2>4. fed' = [fed EXCEPT ![c] = @ \o <<>>]
    BY <1>2, <2>2 DEF Recommend, WindowInv, WindowTypes
  <2>5. /\ spec' = spec /\ now' = now
        /\ accessed' = [accessed EXCEPT ![c] = now]
    BY <1>2 DEF Recommend
  <2>6. <<>> \in Seq(Sample) /\ \A i \in DOMAIN <<>> : <<>>[i].time = now
    OBVIOUS
  <2> QED
    BY <2>3, <2>4, <2>5, <2>6, TouchKeepsWindow
<1>3. CASE Tick
  <2>1. WindowTypes'
    BY <1>3 DEF Tick, WindowInv, WindowTypes
  <2>2. WindowExact'
    BY <1>3 DEF Tick, WindowInv, WindowExact, Fresh
  <2>3. InOrder'
    <3>1. ASSUME NEW c \in Containers
          PROVE  /\ accessed[c] <= now + 1
                 /\ Sorted(fed[c])
                 /\ \A i \in DOMAIN fed[c] : fed[c][i].time <= now + 1
      <4>1. fed[c] \in Seq(Sample) /\ accessed[c] \in Nat /\ now \in Nat
        BY DEF WindowInv, WindowTypes
      <4> QED
        BY <4>1, SamplesTyped DEF WindowInv, InOrder
    <3>2. accessed' = accessed /\ fed' = fed /\ now' = now + 1
      BY <1>3 DEF Tick
    <3> QED
      BY <3>1, <3>2 DEF InOrder, Sorted
  <2> QED
    BY <2>1, <2>2, <2>3 DEF WindowInv
<1>4. CASE UNCHANGED vars
  BY <1>4 DEF vars, WindowInv, WindowTypes, InOrder, WindowExact, Fresh
<1>5. ASSUME Next
      PROVE  \/ \E c \in Containers, pods \in SUBSET Pods :
                    \E usage \in [pods -> Usages] : FeedSamples(c, usage)
             \/ \E c \in Containers, constraints \in Constraints,
                   original \in Requests \cup {None} : Recommend(c, constraints, original)
             \/ Tick
  BY <1>5, Zenon DEF Next
<1> QED
  BY <1>1, <1>2, <1>3, <1>4, <1>5, Zenon

(* Whatever the policy, the containers, the usages and the lengths of the  *)
(* window and of the run, the samples kept are exactly the accepted ones   *)
(* that were inside the window when the container was last touched: no     *)
(* fresh sample is lost and no expired one lingers.                        *)
THEOREM Window == Spec => []WindowExact
<1>1. WindowInv => WindowExact
  BY DEF WindowInv
<1> QED
  BY <1>1, WindowInit, WindowStep, PTL DEF Spec

-----------------------------------------------------------------------------
(* Counting up, and the greatest of a set.                                 *)

\* What holds of 0 and, below n, of the next number whenever it holds of one,
\* holds up to n: a least number it fails of would have a predecessor.
LEMMA StepByStep ==
    ASSUME NEW n \in Nat, NEW S, 0 \in S,
           \A i \in 0..(n - 1) : i \in S => i + 1 \in S
    PROVE  0..n \subseteq S
<1> DEFINE missing == (0..n) \ S
<1> SUFFICES ASSUME missing # {}
             PROVE  FALSE
  OBVIOUS
<1> DEFINE m == Min(missing)
<1>1. m \in missing /\ \A y \in missing : m <= y
  BY MinOfNat
<1> HIDE DEF m
<1>2. m \in 1..n
  BY <1>1
<1>3. m - 1 \in 0..(n - 1) /\ m - 1 \notin missing
  BY <1>1, <1>2
<1>4. m - 1 \in S
  BY <1>3
<1>5. (m - 1) + 1 \in S
  BY <1>3, <1>4
<1> QED
  BY <1>1, <1>2, <1>5

\* The greatest member of a set of positive numbers up to n that holds n.
LEMMA MaxIsLast ==
    ASSUME NEW n \in Nat, NEW T, T \subseteq 1..n, n \in T
    PROVE  Max(T) = n
<1>1. \A y \in T : n >= y
  OBVIOUS
<1>2. \A x \in T : (\A y \in T : x >= y) => x = n
  OBVIOUS
<1> QED
  BY <1>1, <1>2 DEF Max

-----------------------------------------------------------------------------
(* The list of rules.                                                       *)

\* The equation by which the community modules' fold defines itself, on the
\* subsets of the first m rules.
Folds(g, rules, rec, original, m) ==
    g = [s \in SUBSET (1..m) |->
            IF s = {} THEN rec
            ELSE ApplyRule(g[s \ {Max(s)}], rules[Max(s)], original)]

\* That equation has a solution for every number of rules.
LEMMA FoldExists ==
    ASSUME NEW rules, NEW rec, NEW original, NEW n \in Nat
    PROVE  \E g : Folds(g, rules, rec, original, n)
<1> DEFINE S == {m \in 0..n : \E g : Folds(g, rules, rec, original, m)}
<1>1. 0 \in S
  <2> DEFINE g == [s \in SUBSET (1..0) |-> rec]
  <2>1. \A s \in SUBSET (1..0) : s = {}
    OBVIOUS
  <2>2. Folds(g, rules, rec, original, 0)
    BY <2>1 DEF Folds
  <2> QED
    BY <2>2
<1>2. ASSUME NEW m \in 0..(n - 1), m \in S
      PROVE  m + 1 \in S
  <2>1. PICK g : Folds(g, rules, rec, original, m)
    BY <1>2
  <2> DEFINE step(x, e) == ApplyRule(x, rules[e], original)
  <2> DEFINE h == [s \in SUBSET (1..(m + 1)) |->
                      IF m + 1 \in s THEN step(g[s \ {m + 1}], m + 1) ELSE g[s]]
             k == [s \in SUBSET (1..(m + 1)) |->
                      IF s = {} THEN rec ELSE step(h[s \ {Max(s)}], Max(s))]
  <2>2. ASSUME NEW s \in SUBSET (1..m)
        PROVE  g[s] = IF s = {} THEN rec ELSE step(g[s \ {Max(s)}], Max(s))
    BY <2>1 DEF Folds
  <2>3. \A s \in SUBSET (1..m) : m + 1 \notin s /\ s \in SUBSET (1..(m + 1))
    OBVIOUS
  <2>4. \A s \in SUBSET (1..m) : h[s] = g[s]
    BY <2>3
  <2> HIDE DEF step
  <2>5. ASSUME NEW s \in SUBSET (1..(m + 1))
        PROVE  h[s] = k[s]
    <3>1. CASE m + 1 \in s
      <4>0. m + 1 \in Nat /\ s \subseteq 1..(m + 1)
        OBVIOUS
      <4>1. Max(s) = m + 1
        BY <3>1, <4>0, MaxIsLast
      <4>2. s \ {m + 1} \in SUBSET (1..m)
        OBVIOUS
      <4>3. h[s \ {m + 1}] = g[s \ {m + 1}]
        BY <2>4, <4>2
      <4>4. h[s] = step(g[s \ {m + 1}], m + 1)
        BY <3>1
      <4>5. k[s] = step(h[s \ {m + 1}], m + 1)
        BY <3>1, <4>1
      <4> QED
        BY <4>3, <4>4, <4>5
    <3>2. CASE m + 1 \notin s
      <4>0. \A i \in s : i \in 1..m
        BY <3>2
      <4>1. s \in SUBSET (1..m) /\ s \ {Max(s)} \in SUBSET (1..m)
        BY <4>0
      <4>2. h[s] = g[s] /\ h[s \ {Max(s)}] = g[s \ {Max(s)}]
        BY <2>4, <4>1
      <4>3. k[s] = IF s = {} THEN rec ELSE step(h[s \ {Max(s)}], Max(s))
        OBVIOUS
      <4> QED
        BY <2>2, <4>1, <4>2, <4>3
    <3> QED
      BY <3>1, <3>2
  <2>6. h = k
    BY <2>5
  <2>7. Folds(h, rules, rec, original, m + 1)
    <3> HIDE DEF h
    <3> QED
      BY <2>6 DEF Folds, step
  <2>8. m + 1 \in 0..n
    OBVIOUS
  <2> QED
    BY <2>7, <2>8
<1>3. n \in S
  <2> HIDE DEF S
  <2> QED
    BY <1>1, <1>2, StepByStep
<1> QED
  BY <1>3

\* f holds what is recommended after each of the rules.
Run(f, rules, rec, original) ==
    /\ f[0] = rec
    /\ \A i \in 1..Len(rules) : f[i] = ApplyRule(f[i - 1], rules[i], original)
    /\ ApplyRules(rules, rec, original) = f[Len(rules)]

\* The rules are applied one after the other, in the order of the list.
LEMMA RulesRunInOrder ==
    ASSUME NEW rules \in Seq(Rule), NEW rec, NEW original
    PROVE  \E f : Run(f, rules, rec, original)
<1> DEFINE n == Len(rules)
           g == CHOOSE g : g = [s \in SUBSET (DOMAIN rules) |->
                    IF s = {} THEN rec
                    ELSE ApplyRule(g[s \ {Max(s)}], rules[Max(s)], original)]
<1>1. n \in Nat /\ DOMAIN rules = 1..n
  BY LenProperties
<1>2. ApplyRules(rules, rec, original) = g[DOMAIN rules]
  BY DEF ApplyRules, FoldLeft, MapThenFoldSet
<1>3. \E h : h = [s \in SUBSET (DOMAIN rules) |->
                    IF s = {} THEN rec
                    ELSE ApplyRule(h[s \ {Max(s)}], rules[Max(s)], original)]
  <2> HIDE DEF g, n
  <2>1. \E h : Folds(h, rules, rec, original, n)
    BY <1>1, FoldExists
  <2> QED
    BY <1>1, <2>1, Zenon DEF Folds
<1>4. g = [s \in SUBSET (DOMAIN rules) |->
                    IF s = {} THEN rec
                    ELSE ApplyRule(g[s \ {Max(s)}], rules[Max(s)], original)]
  BY <1>3, Zenon
<1> HIDE DEF g, n
<1>5. \A s \in SUBSET (1..n) :
          g[s] = IF s = {} THEN rec
                 ELSE ApplyRule(g[s \ {Max(s)}], rules[Max(s)], original)
  BY <1>1, <1>4
<1> DEFINE f == [i \in 0..n |-> g[1..i]]
<1>6. f[0] = rec
  <2>1. 1..0 = {} /\ {} \in SUBSET (1..n) /\ 0 \in 0..n
    BY <1>1
  <2> QED
    BY <1>5, <2>1
<1>7. ASSUME NEW i \in 1..n
      PROVE  f[i] = ApplyRule(f[i - 1], rules[i], original)
  <2>1. Max(1..i) = i
    BY <1>1, MaxIsLast
  <2>2. (1..i) \ {i} = 1..(i - 1) /\ 1..i \in SUBSET (1..n) /\ 1..i # {}
    BY <1>1
  <2>3. f[i] = g[1..i] /\ f[i - 1] = g[1..(i - 1)]
    BY <1>1
  <2>4. g[1..i] = ApplyRule(g[(1..i) \ {Max(1..i)}], rules[Max(1..i)], original)
    BY <1>5, <2>2
  <2> QED
    BY <2>1, <2>2, <2>3, <2>4
<1>8. ApplyRules(rules, rec, original) = f[n]
  BY <1>1, <1>2
<1> QED
  BY <1>6, <1>7, <1>8 DEF n, Run

\* Max and Min of three integers against a bound.
LEMMA MaxMinOfThree ==
    ASSUME NEW a \in Int, NEW b \in Int, NEW c \in Int, NEW d \in Int
    PROVE  /\ Max({a, b, c}) <= d <=> a <= d /\ b <= d /\ c <= d
           /\ Min({a, b, c}) >= d <=> a >= d /\ b >= d /\ c >= d
<1> DEFINE T == {a, b, c}
<1>1. \E x \in T : \A y \in T : x >= y
  OBVIOUS
<1>2. \E x \in T : \A y \in T : x <= y
  OBVIOUS
<1>3. Max(T) \in T /\ \A y \in T : Max(T) >= y
  BY <1>1 DEF Max
<1>4. Min(T) \in T /\ \A y \in T : Min(T) <= y
  BY <1>2 DEF Min
<1> DEFINE x == Max(T)
           z == Min(T)
<1>5. x \in T /\ x >= a /\ x >= b /\ x >= c
  BY <1>3
<1>6. z \in T /\ z <= a /\ z <= b /\ z <= c
  BY <1>4
<1> HIDE DEF x, z
<1>7. x <= d <=> a <= d /\ b <= d /\ c <= d
  BY <1>5
<1>8. z >= d <=> a >= d /\ b >= d /\ c >= d
  BY <1>6
<1> QED
  BY <1>7, <1>8 DEF x, z

\* What a rule makes of each field, and when a recommendation respects one.
LEMMA RuleFields ==
    ASSUME NEW r \in Rec, NEW rule \in Rule, NEW original,
           Bound(rule, original) \in Int
    PROVE  LET b == Bound(rule, original)
               q == ApplyRule(r, rule, original)
           IN  /\ q \in Rec
               /\ rule.kind = "request-ceiling" =>
                      /\ q.target <= b /\ q.lower <= b /\ q.upper <= b
                      /\ q.target <= r.target /\ q.lower <= r.lower /\ q.upper <= r.upper
                      /\ q.target \in {r.target, b} /\ q.lower \in {r.lower, b}
                      /\ q.upper \in {r.upper, b}
               /\ rule.kind # "request-ceiling" =>
                      /\ q.target >= b /\ q.lower >= b /\ q.upper >= b
                      /\ q.target >= r.target /\ q.lower >= r.lower /\ q.upper >= r.upper
                      /\ q.target \in {r.target, b} /\ q.lower \in {r.lower, b}
                      /\ q.upper \in {r.upper, b}
<1> DEFINE b == Bound(rule, original)
           q == ApplyRule(r, rule, original)
<1>1. b \in Int
  OBVIOUS
<1>7. q = IF rule.kind = "request-ceiling" THEN AtMost(r, b) ELSE AtLeast(r, b)
  BY DEF ApplyRule, Bound
<1> HIDE DEF b, q
<1>2. r.target \in Int /\ r.lower \in Int /\ r.upper \in Int /\ r.uncapped \in Int
  BY DEF Rec
<1>m. \A f \in {r.target, r.lower, r.upper} :
          /\ Min({f, b}) = IF f <= b THEN f ELSE b
          /\ Max({f, b}) = IF f >= b THEN f ELSE b
  BY <1>1, <1>2, MaxMinOfTwo
<1>3. AtMost(r, b) = [target |-> IF r.target <= b THEN r.target ELSE b,
                      lower |-> IF r.lower <= b THEN r.lower ELSE b,
                      upper |-> IF r.upper <= b THEN r.upper ELSE b,
                      uncapped |-> r.uncapped]
  BY <1>m DEF AtMost
<1>4. AtLeast(r, b) = [target |-> IF r.target >= b THEN r.target ELSE b,
                       lower |-> IF r.lower >= b THEN r.lower ELSE b,
                       upper |-> IF r.upper >= b THEN r.upper ELSE b,
                       uncapped |-> r.uncapped]
  BY <1>m DEF AtLeast
<1>5. CASE rule.kind = "request-ceiling"
  <2>1. q = AtMost(r, b)
    BY <1>5, <1>7
  <2>2. q \in Rec
    BY <1>1, <1>2, <1>3, <2>1 DEF Rec
  <2> QED
    BY <1>1, <1>2, <1>3, <1>5, <2>1, <2>2 DEF b, q
<1>6. CASE rule.kind # "request-ceiling"
  <2>1. q = AtLeast(r, b)
    BY <1>6, <1>7
  <2>2. q \in Rec
    BY <1>1, <1>2, <1>4, <2>1 DEF Rec
  <2> QED
    BY <1>1, <1>2, <1>4, <1>6, <2>1, <2>2 DEF b, q
<1> QED
  BY <1>5, <1>6

\* Respecting a rule, without maxima and minima.
LEMMA RespectsFields ==
    ASSUME NEW r \in Rec, NEW rule, NEW original, Bound(rule, original) \in Int
    PROVE  LET b == Bound(rule, original)
           IN  Respects(r, rule, original) <=>
                   IF rule.kind = "request-ceiling"
                   THEN r.target <= b /\ r.lower <= b /\ r.upper <= b
                   ELSE r.target >= b /\ r.lower >= b /\ r.upper >= b
<1> DEFINE b == Bound(rule, original)
<1>1. b \in Int /\ r.target \in Int /\ r.lower \in Int /\ r.upper \in Int
  BY DEF Rec
<1>2. /\ Max({r.target, r.lower, r.upper}) <= b <=>
             r.target <= b /\ r.lower <= b /\ r.upper <= b
      /\ Min({r.target, r.lower, r.upper}) >= b <=>
             r.target >= b /\ r.lower >= b /\ r.upper >= b
  BY <1>1, MaxMinOfThree
<1> HIDE DEF b
<1>3. Respects(r, rule, original) <=>
          IF rule.kind = "request-ceiling"
          THEN Max({r.target, r.lower, r.upper}) <= b
          ELSE Min({r.target, r.lower, r.upper}) >= b
  BY DEF Respects, b
<1> QED
  BY <1>2, <1>3 DEF b

\* A rule holds of what it returns.
LEMMA RuleRespected ==
    ASSUME NEW r \in Rec, NEW rule \in Rule, NEW original,
           Bound(rule, original) \in Int
    PROVE  Respects(ApplyRule(r, rule, original), rule, original)
BY RuleFields, RespectsFields

\* A rule that a recommendation respects is respected after another one is
\* applied, unless that one overrides it.
LEMMA RuleStaysRespected ==
    ASSUME NEW r \in Rec, NEW earlier \in Rule, NEW later \in Rule, NEW original,
           Bound(earlier, original) \in Int, Bound(later, original) \in Int,
           Respects(r, earlier, original), ~Overrides(later, earlier, original)
    PROVE  Respects(ApplyRule(r, later, original), earlier, original)
<1> DEFINE b == Bound(earlier, original)
           l == Bound(later, original)
           q == ApplyRule(r, later, original)
<1>0. b \in Int /\ l \in Int
  OBVIOUS
<1>1. q \in Rec
  BY RuleFields
<1>k. /\ earlier.kind \in {"request-ceiling", "request-floor"}
      /\ later.kind \in {"request-ceiling", "request-floor"}
  BY DEF Rule
<1>2. /\ later.kind = "request-ceiling" =>
                      /\ q.target <= r.target /\ q.lower <= r.lower /\ q.upper <= r.upper
                      /\ q.target \in {r.target, l} /\ q.lower \in {r.lower, l}
                      /\ q.upper \in {r.upper, l}
      /\ later.kind # "request-ceiling" =>
                      /\ q.target >= r.target /\ q.lower >= r.lower /\ q.upper >= r.upper
                      /\ q.target \in {r.target, l} /\ q.lower \in {r.lower, l}
                      /\ q.upper \in {r.upper, l}
  BY RuleFields
<1>3. IF earlier.kind = "request-ceiling"
      THEN r.target <= b /\ r.lower <= b /\ r.upper <= b
      ELSE r.target >= b /\ r.lower >= b /\ r.upper >= b
  BY RespectsFields
<1>4. Respects(q, earlier, original) <=>
         IF earlier.kind = "request-ceiling"
         THEN q.target <= b /\ q.lower <= b /\ q.upper <= b
         ELSE q.target >= b /\ q.lower >= b /\ q.upper >= b
  BY <1>1, RespectsFields
<1>5. /\ earlier.kind = "request-ceiling" /\ later.kind = "request-floor" => l <= b
      /\ earlier.kind = "request-floor" /\ later.kind = "request-ceiling" => l >= b
  BY DEF Overrides
<1>6. /\ q.target \in Int /\ q.lower \in Int /\ q.upper \in Int
      /\ r.target \in Int /\ r.lower \in Int /\ r.upper \in Int
  BY <1>1 DEF Rec
<1> HIDE DEF b, l, q
<1>7. CASE earlier.kind = "request-ceiling"
  <2>1. CASE later.kind = "request-ceiling"
    BY <1>0, <1>2, <1>3, <1>4, <1>6, <1>7, <2>1 DEF q
  <2>2. CASE later.kind # "request-ceiling"
    BY <1>0, <1>k, <1>2, <1>3, <1>4, <1>5, <1>6, <1>7, <2>2 DEF q
  <2> QED
    BY <2>1, <2>2
<1>8. CASE earlier.kind # "request-ceiling"
  <2>1. CASE later.kind = "request-ceiling"
    BY <1>0, <1>k, <1>2, <1>3, <1>4, <1>5, <1>6, <1>8, <2>1 DEF q
  <2>2. CASE later.kind # "request-ceiling"
    BY <1>0, <1>2, <1>3, <1>4, <1>6, <1>8, <2>2 DEF q
  <2> QED
    BY <2>1, <2>2
<1> QED
  BY <1>7, <1>8

\* The amount of a rule is an integer.
LEMMA BoundType ==
    ASSUME NEW rule \in Rule, NEW original \in Nat
    PROVE  Bound(rule, original) \in Int
<1>1. rule.percent \in Nat
  BY DEF Rule
<1> DEFINE x == original * rule.percent
<1>2. x \in Nat
  BY <1>1
<1> HIDE DEF x
<1>3. x \div 100 \in Int
  BY <1>2
<1>4. Bound(rule, original) = x \div 100 - (IF <<original, rule.percent>> \in RoundsDown THEN 1 ELSE 0)
  BY DEF Bound, FloorPercent, x
<1> QED
  BY <1>3, <1>4

(* Whatever the rules of a policy, their number and their order, what they *)
(* make of an ordered recommendation is one, with the uncapped target it   *)
(* had, and each of them holds of it unless a later one overrides it.      *)
THEOREM RulesApplied ==
    ASSUME NEW rules \in Seq(Rule), NEW rec \in Rec, Ordered(rec), NEW original \in Nat
    PROVE  LET res == ApplyRules(rules, rec, original)
           IN  /\ res \in Rec /\ Ordered(res) /\ res.uncapped = rec.uncapped
               /\ \A i \in DOMAIN rules :
                      \/ Respects(res, rules[i], original)
                      \/ \E j \in DOMAIN rules :
                             j > i /\ Overrides(rules[j], rules[i], original)
<1> DEFINE n == Len(rules)
<1>1. n \in Nat /\ DOMAIN rules = 1..n /\ \A i \in 1..n : rules[i] \in Rule
  BY LenProperties
<1> HIDE DEF n
<1>f. PICK f : Run(f, rules, rec, original)
  BY RulesRunInOrder
<1>n. n = Len(rules)
  BY DEF n
<1>2. /\ f[0] = rec
      /\ \A i \in 1..n : f[i] = ApplyRule(f[i - 1], rules[i], original)
      /\ ApplyRules(rules, rec, original) = f[n]
  BY <1>f, <1>n DEF Run
<1> DEFINE Holds(j, i) ==
               \/ Respects(f[i], rules[j], original)
               \/ \E l \in (j + 1)..i : Overrides(rules[l], rules[j], original)
           S == {i \in 0..n :
                    /\ f[i] \in Rec /\ Ordered(f[i]) /\ f[i].uncapped = rec.uncapped
                    /\ \A j \in 1..i : Holds(j, i)}
<1>3. 0 \in S
  BY <1>1, <1>2
<1>4. ASSUME NEW i \in 0..(n - 1), i \in S
      PROVE  i + 1 \in S
  <2>1. i + 1 \in 1..n /\ (i + 1) - 1 = i
    BY <1>1
  <2>2. PICK k : k = i + 1
    OBVIOUS
  <2>3. k \in 1..n /\ k \in 0..n /\ k \in Int /\ i \in Int
    BY <1>1, <2>1, <2>2
  <2>4. rules[k] \in Rule /\ f[k] = ApplyRule(f[i], rules[k], original)
    BY <1>1, <1>2, <2>1, <2>2
  <2>5. \A j \in 1..n : Bound(rules[j], original) \in Int
    BY <1>1, BoundType
  <2>6. f[i] \in Rec /\ Ordered(f[i]) /\ f[i].uncapped = rec.uncapped
    BY <1>4
  <2>7. FloorPercent(original, rules[k].percent) \in Int
    BY <2>3, <2>5 DEF Bound
  <2>8. f[k] \in Rec /\ Ordered(f[k]) /\ f[k].uncapped = rec.uncapped
    BY <2>4, <2>6, <2>7, RuleKeepsOrder
  <2>9. ASSUME NEW j \in 1..k
        PROVE  Holds(j, k)
    <3>1. CASE j = k
      <4>1. Respects(f[k], rules[k], original)
        BY <2>3, <2>4, <2>5, <2>6, RuleRespected
      <4> QED
        BY <3>1, <4>1
    <3>2. CASE j # k
      <4>1. j \in 1..i /\ j \in 1..n /\ rules[j] \in Rule /\ k \in (j + 1)..k
        BY <1>1, <2>2, <2>3, <3>2
      <4>2. Holds(j, i)
        BY <1>4, <4>1
      <4>3. CASE Respects(f[i], rules[j], original)
        <5>1. CASE Overrides(rules[k], rules[j], original)
          BY <4>1, <5>1
        <5>2. CASE ~Overrides(rules[k], rules[j], original)
          BY <2>3, <2>4, <2>5, <2>6, <4>1, <4>3, <5>2, RuleStaysRespected
        <5> QED
          BY <5>1, <5>2
      <4>4. CASE \E l \in (j + 1)..i : Overrides(rules[l], rules[j], original)
        <5>1. \A l \in (j + 1)..i : l \in (j + 1)..k
          BY <2>2, <2>3
        <5> QED
          BY <4>4, <5>1
      <4> QED
        BY <4>2, <4>3, <4>4
    <3> QED
      BY <3>1, <3>2
  <2> QED
    BY <2>2, <2>3, <2>8, <2>9
<1>5. n \in S
  <2> HIDE DEF S
  <2> QED
    BY <1>1, <1>3, <1>4, StepByStep
<1>6. ASSUME NEW i \in 1..n
      PROVE  \/ Respects(f[n], rules[i], original)
             \/ \E j \in 1..n : j > i /\ Overrides(rules[j], rules[i], original)
  <2>1. Holds(i, n)
    BY <1>5
  <2>2. \A l \in (i + 1)..n : l \in 1..n /\ l > i
    BY <1>1
  <2> QED
    BY <2>1, <2>2
<1> QED
  BY <1>1, <1>2, <1>n, <1>5, <1>6

-----------------------------------------------------------------------------
(* The percentile.                                                         *)

\* An injection, from what the definition asks of it.
LEMMA InjectionOf ==
    ASSUME NEW A, NEW B, NEW f \in [A -> B], \A x, y \in A : f[x] = f[y] => x = y
    PROVE  f \in Injection(A, B)
BY DEF Injection, IsInjective

\* Samples can be put in the order of their values: a sample's place is one
\* more than the number of those that are smaller or, equal, come before.
LEMMA AscendingExists ==
    ASSUME NEW s \in Seq(Sample)
    PROVE  \E order \in Bijection(DOMAIN s, DOMAIN s) :
               \A i, j \in DOMAIN s : i < j => s[order[i]].value <= s[order[j]].value
<1> DEFINE D == DOMAIN s
           v(i) == s[i].value
           Before(i, j) == v(i) < v(j) \/ (v(i) = v(j) /\ i < j)
           below(j) == {i \in D : Before(i, j)}
           place == [j \in D |-> Cardinality(below(j)) + 1]
<1>1. /\ Len(s) \in Nat /\ D = 1..Len(s)
      /\ \A i \in D : v(i) \in Nat /\ i \in Nat
  <2>1. \A x \in Sample : x.value \in Nat
    BY DEF Sample
  <2> QED
    BY <2>1, SamplesTyped
<1>2. IsFiniteSet(D) /\ Cardinality(D) = Len(s)
  BY <1>1, FS_Interval
<1>3. ASSUME NEW j \in D
      PROVE  /\ below(j) \in SUBSET D /\ IsFiniteSet(below(j)) /\ j \notin below(j)
             /\ Cardinality(below(j)) \in Nat /\ Cardinality(below(j)) <= Len(s) - 1
  <2>1. below(j) \in SUBSET D /\ j \notin below(j)
    BY <1>1
  <2>2. IsFiniteSet(below(j))
    BY <1>2, <2>1, FS_Subset
  <2>3. /\ IsFiniteSet(below(j) \cup {j})
        /\ Cardinality(below(j) \cup {j}) = Cardinality(below(j)) + 1
    BY <2>1, <2>2, FS_AddElement
  <2>4. below(j) \cup {j} \in SUBSET D
    BY <2>1
  <2>5. Cardinality(below(j) \cup {j}) <= Cardinality(D)
    BY <1>2, <2>4, FS_Subset
  <2>6. Cardinality(below(j)) \in Nat
    BY <2>2, FS_CardinalityType
  <2> HIDE DEF below, D
  <2> QED
    BY <1>1, <1>2, <2>1, <2>2, <2>3, <2>5, <2>6
<1>4. ASSUME NEW i \in D, NEW j \in D, Before(i, j)
      PROVE  place[i] < place[j]
  <2>1. ASSUME NEW k \in below(i)
        PROVE  k \in below(j)
    <3>1. k \in D /\ Before(k, i)
      OBVIOUS
    <3>2. v(k) \in Nat /\ v(i) \in Nat /\ v(j) \in Nat /\ k \in Nat /\ i \in Nat /\ j \in Nat
      BY <1>1, <3>1
    <3> HIDE DEF v
    <3>3. Before(k, j)
      BY <1>4, <3>1, <3>2
    <3> QED
      BY <3>1, <3>3
  <2>2. below(i) \cup {i} \in SUBSET below(j)
    BY <1>4, <2>1
  <2>3. Cardinality(below(i) \cup {i}) = Cardinality(below(i)) + 1
    BY <1>3, FS_AddElement
  <2>4. Cardinality(below(i) \cup {i}) <= Cardinality(below(j))
    BY <1>3, <2>2, FS_Subset
  <2>5. place[i] = Cardinality(below(i)) + 1 /\ place[j] = Cardinality(below(j)) + 1
    OBVIOUS
  <2>6. Cardinality(below(i)) \in Nat /\ Cardinality(below(j)) \in Nat
    BY <1>3
  <2> HIDE DEF below, place
  <2> QED
    BY <2>3, <2>4, <2>5, <2>6
<1>5. place \in [D -> D]
  <2> SUFFICES ASSUME NEW j \in D
               PROVE  Cardinality(below(j)) + 1 \in D
    OBVIOUS
  <2>1. Cardinality(below(j)) \in Nat /\ Cardinality(below(j)) <= Len(s) - 1
    BY <1>3
  <2> HIDE DEF below, D
  <2> QED
    BY <1>1, <2>1
<1> HIDE DEF place
<1>6. \A i, j \in D : place[i] = place[j] => i = j
  <2> SUFFICES ASSUME NEW i \in D, NEW j \in D, i # j
               PROVE  place[i] # place[j]
    OBVIOUS
  <2>1. Before(i, j) \/ Before(j, i)
    BY <1>1
  <2>2. place[i] \in Nat /\ place[j] \in Nat
    BY <1>1, <1>5
  <2>3. place[i] < place[j] \/ place[j] < place[i]
    BY <1>4, <2>1
  <2> QED
    BY <2>2, <2>3
<1>7. place \in Injection(D, D)
  BY <1>5, <1>6, InjectionOf
<1>8. place \in Surjection(D, D)
  BY <1>2, <1>7, FS_Injection
<1>9. place \in Bijection(D, D)
  BY <1>7, <1>8 DEF Bijection
<1> DEFINE order == Inverse(place, D, D)
<1>10. order \in Bijection(D, D) /\ \A i \in D : order[place[i]] = i
  BY <1>9, Fun_BijInverse
<1> HIDE DEF order
<1>11. ASSUME NEW i \in D, NEW j \in D, i < j
       PROVE  v(order[i]) <= v(order[j])
  <2>1. PICK a \in D : place[a] = i
    BY <1>8 DEF Surjection
  <2>2. PICK b \in D : place[b] = j
    BY <1>8 DEF Surjection
  <2>3. order[i] = a /\ order[j] = b
    BY <1>10, <2>1, <2>2
  <2>4. v(a) \in Nat /\ v(b) \in Nat /\ i \in Nat /\ j \in Nat
    BY <1>1
  <2>5. v(a) > v(b) => Before(b, a)
    BY <2>4
  <2>6. ~Before(b, a)
    BY <1>4, <1>11, <2>1, <2>2, <2>4
  <2> QED
    BY <2>3, <2>4, <2>5, <2>6
<1> QED
  BY <1>10, <1>11

\* What calculatePercentile reads from: an order of the samples.
LEMMA AscendingIsOrder ==
    ASSUME NEW s \in Seq(Sample)
    PROVE  /\ Ascending(s) \in Bijection(DOMAIN s, DOMAIN s)
           /\ \A i, j \in DOMAIN s :
                  i < j => s[Ascending(s)[i]].value <= s[Ascending(s)[j]].value
BY AscendingExists DEF Ascending

\* The rank is the least that leaves enough of the samples at or below it.
LEMMA RankIsLeast ==
    ASSUME spec \in Specs, NEW n \in Nat, n > 0
    PROVE  /\ 100 * Rank(n) >= spec.percentile * n
           /\ 100 * (Rank(n) - 1) <= spec.percentile * n
<1>1. spec.percentile \in 0..100
  BY EstimatorAssumption DEF IsSpec
<1> DEFINE x == n * spec.percentile
           r == CeilPercent(n, spec.percentile)
<1>2. x \in Nat /\ spec.percentile * n = x
  BY <1>1
<1>3. r = (x + 99) \div 100 + (IF <<n, spec.percentile>> \in RoundsUp THEN 1 ELSE 0)
  BY DEF CeilPercent
<1>4. <<n, spec.percentile>> \in RoundsUp => x % 100 = 0
  BY RoundingPairs
<1>5. r \in Int
  <2>1. r \in 0..n
    BY <1>1, ShareWithin
  <2> HIDE DEF r
  <2> QED
    BY <2>1
<1>6. Rank(n) = IF r >= 1 THEN r ELSE 1
  BY <1>5, MaxMinOfTwo DEF Rank
<1> HIDE DEF x, r
<1>7. 100 * ((x + 99) \div 100) >= x /\ 100 * ((x + 99) \div 100) <= x + 99
  BY <1>2
<1>8. 100 * r >= x /\ 100 * (r - 1) <= x
  BY <1>2, <1>3, <1>4, <1>7
<1> QED
  BY <1>2, <1>5, <1>6, <1>8

(* Nearest rank: for every percentile, number of samples and values, what  *)
(* calculatePercentile returns is one of the samples, at least that share  *)
(* of them is not above it and no more than that share is below it.        *)
THEOREM PercentileIsNearestRank ==
    ASSUME spec \in Specs, NEW s \in Seq(Sample), s # <<>>
    PROVE  LET base == calculatePercentile(s)
               need == spec.percentile * Len(s)
           IN  /\ \E i \in DOMAIN s : s[i].value = base
               /\ 100 * Cardinality({i \in DOMAIN s : s[i].value <= base}) >= need
               /\ 100 * Cardinality({i \in DOMAIN s : s[i].value < base}) <= need
<1> DEFINE n == Len(s)
           D == DOMAIN s
           k == Rank(n)
           order == Ascending(s)
           base == calculatePercentile(s)
           upTo == {i \in D : s[i].value <= base}
           below == {i \in D : s[i].value < base}
<1>1. n \in Nat /\ n > 0 /\ D = 1..n
  BY SamplesTyped, EmptySeq
<1>2. \A i \in D : s[i].value \in Nat
  BY SamplesTyped DEF Sample
<1>3. IsFiniteSet(D)
  BY <1>1, FS_Interval
<1>4. k \in D
  BY <1>1, RankInRange
<1>5. order \in Bijection(D, D)
  BY AscendingIsOrder
<1>6. \A i, j \in D : i < j => s[order[i]].value <= s[order[j]].value
  BY AscendingIsOrder
<1>7. order \in [D -> D] /\ \A i, j \in D : order[i] = order[j] => i = j
  BY <1>5, Fun_BijectionProperties
<1>8. \A i \in D : \E j \in D : order[j] = i
  BY <1>5, Fun_BijectionProperties
<1>9. base = s[order[k]].value
  BY DEF calculatePercentile
<1>10. 100 * k >= spec.percentile * n /\ 100 * (k - 1) <= spec.percentile * n
  BY <1>1, RankIsLeast
<1>p. spec.percentile * n \in Int /\ k \in Int
  <2>1. spec.percentile \in 0..100
    BY EstimatorAssumption DEF IsSpec
  <2>2. PICK q \in 0..100 : q = spec.percentile
    BY <2>1
  <2> HIDE DEF k, n
  <2>3. q * n \in Int
    BY <1>1
  <2>4. k \in Int
    BY <1>1, <1>4
  <2> QED
    BY <2>2, <2>3, <2>4
<1> HIDE DEF n, D, k, order, base
<1>b. base \in Nat /\ order[k] \in D
  BY <1>2, <1>4, <1>7, <1>9
<1>f. upTo \in SUBSET D /\ below \in SUBSET D /\ IsFiniteSet(upTo) /\ IsFiniteSet(below)
  BY <1>3, FS_Subset
<1>11. k <= Cardinality(upTo)
  <2> DEFINE f == [i \in 1..k |-> order[i]]
  <2>1. ASSUME NEW i \in 1..k
        PROVE  order[i] \in upTo
    <3>1. i \in D /\ order[i] \in D
      BY <1>1, <1>4, <1>7
    <3>2. i < k \/ i = k
      BY <1>p
    <3>3. s[order[i]].value <= base
      BY <1>4, <1>6, <1>9, <1>b, <3>1, <3>2
    <3> QED
      BY <3>1, <3>3
  <2>2. f \in [1..k -> upTo]
    BY <2>1
  <2>3. \A i, j \in 1..k : f[i] = f[j] => i = j
    BY <1>1, <1>4, <1>7
  <2>4. f \in Injection(1..k, upTo)
    BY <2>2, <2>3, InjectionOf
  <2>5. Cardinality(1..k) <= Cardinality(upTo)
    BY <1>f, <2>4, FS_Injection
  <2>6. Cardinality(1..k) = k
    <3>1. k \in Int /\ ~(1 > k)
      BY <1>1, <1>4
    <3> QED
      BY <3>1, FS_Interval
  <2> QED
    BY <2>5, <2>6
<1>12. Cardinality(below) <= k - 1
  <2> DEFINE f == [i \in below |-> CHOOSE j \in D : order[j] = i]
  <2>1. ASSUME NEW i \in below
        PROVE  f[i] \in D /\ order[f[i]] = i
    BY <1>8
  <2> HIDE DEF f
  <2>2. ASSUME NEW i \in below
        PROVE  f[i] \in 1..(k - 1)
    <3>1. s[order[f[i]]].value < s[order[k]].value
      BY <1>9, <2>1
    <3>2. f[i] \in D /\ f[i] \in Int
      BY <1>1, <2>1
    <3>3. s[order[f[i]]].value \in Nat /\ s[order[k]].value \in Nat
      BY <1>2, <1>b, <2>1
    <3>4. ~(k < f[i]) /\ k # f[i]
      BY <1>4, <1>6, <3>1, <3>2, <3>3
    <3> QED
      BY <1>1, <1>p, <3>2, <3>4
  <2>3. f \in [below -> 1..(k - 1)]
    BY <2>2 DEF f
  <2>4. \A i, j \in below : f[i] = f[j] => i = j
    BY <2>1
  <2>5. f \in Injection(below, 1..(k - 1))
    BY <2>3, <2>4, InjectionOf
  <2>6. IsFiniteSet(1..(k - 1)) /\ Cardinality(1..(k - 1)) = k - 1
    <3>1. k - 1 \in Int /\ k >= 1
      BY <1>1, <1>4
    <3>2. Cardinality(1..(k - 1)) = IF 1 > k - 1 THEN 0 ELSE (k - 1) - 1 + 1
      BY <3>1, FS_Interval
    <3>3. IsFiniteSet(1..(k - 1))
      BY <3>1, FS_Interval
    <3>4. (IF 1 > k - 1 THEN 0 ELSE (k - 1) - 1 + 1) = k - 1
      BY <1>p, <3>1
    <3> QED
      BY <3>2, <3>3, <3>4
  <2> QED
    BY <2>5, <2>6, FS_Injection
<1>13. Cardinality(upTo) \in Nat /\ Cardinality(below) \in Nat
  BY <1>f, FS_CardinalityType
<1> HIDE DEF upTo, below
<1>14. /\ 100 * Cardinality(upTo) >= spec.percentile * n
       /\ 100 * Cardinality(below) <= spec.percentile * n
  BY <1>10, <1>11, <1>12, <1>13, <1>p
<1>15. \E i \in D : s[i].value = base
  BY <1>9, <1>b
<1> QED
  BY <1>14, <1>15 DEF n, D, base, upTo, below

-----------------------------------------------------------------------------
(* Recommendations.                                                         *)

\* The percentile of samples is an amount.
LEMMA PercentileType ==
    ASSUME spec \in Specs, NEW s \in Seq(Sample)
    PROVE  calculatePercentile(s) \in Nat
<1>1. CASE s = <<>>
  BY <1>1 DEF calculatePercentile
<1>2. CASE s # <<>>
  <2>1. \E i \in DOMAIN s : s[i].value = calculatePercentile(s)
    BY <1>2, PercentileIsNearestRank
  <2>2. \A i \in DOMAIN s : s[i].value \in Nat
    BY SamplesTyped DEF Sample
  <2> QED
    BY <2>1, <2>2
<1> QED
  BY <1>1, <1>2

\* What the heuristic returns, covered or not, has its bounds in order.
LEMMA HeuristicSound ==
    ASSUME spec \in Specs, NEW s \in Seq(Sample), NEW k \in Constraints
    PROVE  Heuristic(s, k) \in Rec /\ Ordered(Heuristic(s, k))
<1>1. k.Min \in Nat /\ k.Max \in Nat /\ k.CurrentRequest \in Nat
  <2>1. k.Min \in Minima /\ k.Max \in {0} /\ k.CurrentRequest \in Requests
    BY DEF Constraints
  <2>2. (\A x \in Minima : x \in Nat) /\ (\A x \in Requests : x \in Nat)
    BY EstimatorAssumption
  <2> QED
    BY <2>1, <2>2
<1>2. CASE Covered(s)
  <2>1. Heuristic(s, k) = FromPercentile(calculatePercentile(s), k)
    BY <1>2 DEF Heuristic
  <2> QED
    BY <1>1, <2>1, PercentileType, HeuristicOrdered
<1>3. CASE ~Covered(s)
  <2> DEFINE a == IF k.CurrentRequest > 0 THEN k.CurrentRequest ELSE k.Min
  <2>1. Heuristic(s, k) = [target |-> a, lower |-> a, upper |-> a, uncapped |-> a]
    BY <1>3 DEF Heuristic, Fallback
  <2>2. a \in Int
    BY <1>1
  <2> HIDE DEF a
  <2> QED
    BY <2>1, <2>2 DEF Rec, Ordered
<1> QED
  BY <1>2, <1>3

\* Coverage is the time between the first and the last of the samples kept,
\* which the history holds as well.
LEMMA CoveredInWindow ==
    ASSUME spec \in Specs, NEW g \in Seq(Sample), NEW t \in Nat, NEW s,
           \A i \in DOMAIN g : g[i].time <= t,
           IsWindow(s, g, t), Covered(s), spec.minimumCoverageWindow > 0
    PROVE  \E i, j \in DOMAIN g :
               /\ Fresh(g[i], t)
               /\ g[j].time <= t
               /\ g[j].time - g[i].time >= spec.minimumCoverageWindow
<1>1. PICK k \in 0..Len(g) :
          /\ s = SubSeq(g, k + 1, Len(g))
          /\ \A i \in (k + 1)..Len(g) : Fresh(g[i], t)
  BY DEF IsWindow
<1>2. /\ s \in Seq(Sample) /\ Len(s) = Len(g) - k
      /\ \A i \in 1..(Len(g) - k) : s[i] = g[k + i]
  BY <1>1, SuffixTyped
<1>3. Len(g) \in Nat /\ DOMAIN g = 1..Len(g)
  BY SamplesTyped
<1>4. spec.minimumCoverageWindow \in Int
  BY EstimatorAssumption DEF IsSpec
<1>5. Len(s) >= 2 /\ s[Len(s)].time - s[1].time >= spec.minimumCoverageWindow
  BY <1>2, <1>3, <1>4 DEF Covered, windowCoverage
<1>6. s[1] = g[k + 1] /\ s[Len(s)] = g[Len(g)]
  <2>1. 1 \in 1..(Len(g) - k) /\ Len(s) \in 1..(Len(g) - k) /\ k + Len(s) = Len(g)
    BY <1>2, <1>3, <1>5
  <2> QED
    BY <1>2, <2>1
<1>7. k + 1 \in DOMAIN g /\ Len(g) \in DOMAIN g /\ k + 1 \in (k + 1)..Len(g)
  BY <1>2, <1>3, <1>5
<1> QED
  BY <1>1, <1>5, <1>6, <1>7

\* The invariant of recommendations: each says what it was made from.
EstimatorInv ==
    /\ WindowInv
    /\ TypeOK
    /\ DOMAIN last = Containers
    /\ LearnsFromCoveredWindow
    /\ BoundsOrdered
    /\ RulesInOrder

\* Before anything is fed there is no recommendation.
LEMMA EstimatorInit == Init => EstimatorInv
<1> SUFFICES ASSUME Init
             PROVE  EstimatorInv
  OBVIOUS
<1>1. DOMAIN last = Containers /\ \A c \in Containers : last[c].made = FALSE
  BY DEF Init, NoRecommendation
<1>2. 0 \in 0..MaxTime /\ <<>> \in Seq(Sample)
  BY EstimatorAssumption
<1>3. TypeOK
  BY <1>1, <1>2 DEF Init, TypeOK
<1> QED
  BY <1>1, <1>3, WindowInit
     DEF EstimatorInv, LearnsFromCoveredWindow, BoundsOrdered, RulesInOrder

\* A step that makes no recommendation, and at most adds to the history, keeps
\* what the recommendations made say.
LEMMA HistoryOnlyGrows ==
    ASSUME EstimatorInv, spec' = spec, last' = last,
           \A c \in Containers : \A i \in DOMAIN fed[c] :
               i \in DOMAIN fed'[c] /\ fed'[c][i] = fed[c][i]
    PROVE  /\ DOMAIN last' = Containers
           /\ LearnsFromCoveredWindow' /\ BoundsOrdered' /\ RulesInOrder'
<1>0. BoundsOrdered'
  BY DEF EstimatorInv, BoundsOrdered, Ordered
<1>r. RulesInOrder'
  <2>1. PICK l, rules : l = last /\ rules = spec.scalingRules
    OBVIOUS
  <2>2. ASSUME NEW c \in Containers, l[c].made, l[c].original # None
        PROVE  /\ l[c].rec.uncapped = l[c].heuristic.uncapped
               /\ \A i \in DOMAIN rules :
                      \/ Respects(l[c].rec, rules[i], l[c].original)
                      \/ \E j \in DOMAIN rules :
                            j > i /\ Overrides(rules[j], rules[i], l[c].original)
    BY <2>1, <2>2 DEF EstimatorInv, RulesInOrder
  <2>3. last' = l /\ spec'.scalingRules = rules
    BY <2>1
  <2> QED
    BY <2>2, <2>3 DEF RulesInOrder
<1>1. BoundsOrdered' /\ RulesInOrder'
  BY <1>0, <1>r
<1>2. ASSUME NEW c \in Containers, last[c].made, last[c].covered,
             spec.minimumCoverageWindow > 0
      PROVE  \E i, j \in DOMAIN fed'[c] :
                 /\ fed'[c][i].time >= last[c].at - spec.slidingWindow
                 /\ fed'[c][j].time <= last[c].at
                 /\ fed'[c][j].time - fed'[c][i].time >= spec.minimumCoverageWindow
  <2>1. PICK i \in DOMAIN fed[c], j \in DOMAIN fed[c] :
                 /\ Fresh(fed[c][i], last[c].at)
                 /\ fed[c][j].time <= last[c].at
                 /\ fed[c][j].time - fed[c][i].time >= spec.minimumCoverageWindow
    BY <1>2 DEF EstimatorInv, LearnsFromCoveredWindow
  <2> QED
    BY <2>1 DEF Fresh
<1>3. \A c \in Containers : last[c].made /\ ~last[c].covered =>
          last[c].heuristic = Fallback(last[c].constraints)
  BY DEF EstimatorInv, LearnsFromCoveredWindow
<1>4. LearnsFromCoveredWindow'
  BY <1>2, <1>3 DEF LearnsFromCoveredWindow, Fresh, Fallback
<1> QED
  BY <1>1, <1>4 DEF EstimatorInv

\* What a recommendation records of itself.
LEMMA RecommendationSound ==
    ASSUME EstimatorInv, NEW c \in Containers, NEW constraints \in Constraints,
           NEW original \in Requests \cup {None}, NEW s \in Seq(Sample),
           IsWindow(s, fed[c], now), NEW rec,
           rec = IF original = None THEN Heuristic(s, constraints)
                 ELSE ApplyRules(spec.scalingRules, Heuristic(s, constraints), original)
    PROVE  /\ Heuristic(s, constraints) \in Rec /\ Ordered(Heuristic(s, constraints))
           /\ rec \in Rec /\ Ordered(rec)
           /\ IF Covered(s)
              THEN spec.minimumCoverageWindow > 0 =>
                     \E i, j \in DOMAIN fed[c] :
                        /\ Fresh(fed[c][i], now)
                        /\ fed[c][j].time <= now
                        /\ fed[c][j].time - fed[c][i].time >= spec.minimumCoverageWindow
              ELSE Heuristic(s, constraints) = Fallback(constraints)
           /\ original # None =>
                 /\ rec.uncapped = Heuristic(s, constraints).uncapped
                 /\ \A i \in DOMAIN spec.scalingRules :
                        \/ Respects(rec, spec.scalingRules[i], original)
                        \/ \E j \in DOMAIN spec.scalingRules :
                              j > i /\ Overrides(spec.scalingRules[j], spec.scalingRules[i], original)
<1>1. spec \in Specs /\ fed[c] \in Seq(Sample) /\ now \in Nat
      /\ \A i \in DOMAIN fed[c] : fed[c][i].time <= now
  BY DEF EstimatorInv, WindowInv, WindowTypes, InOrder
<1>2. spec.scalingRules \in Seq(Rule)
  BY <1>1, EstimatorAssumption DEF IsSpec
<1>3. Heuristic(s, constraints) \in Rec /\ Ordered(Heuristic(s, constraints))
  BY <1>1, HeuristicSound
<1>4. Covered(s) /\ spec.minimumCoverageWindow > 0 =>
          \E i, j \in DOMAIN fed[c] :
              /\ Fresh(fed[c][i], now)
              /\ fed[c][j].time <= now
              /\ fed[c][j].time - fed[c][i].time >= spec.minimumCoverageWindow
  BY <1>1, CoveredInWindow
<1>5. ~Covered(s) => Heuristic(s, constraints) = Fallback(constraints)
  BY DEF Heuristic
<1>6. original # None => original \in Nat
  BY EstimatorAssumption
<1>7. original = None => rec = Heuristic(s, constraints)
  OBVIOUS
<1>8. original # None =>
         /\ rec \in Rec /\ Ordered(rec) /\ rec.uncapped = Heuristic(s, constraints).uncapped
         /\ \A i \in DOMAIN spec.scalingRules :
                \/ Respects(rec, spec.scalingRules[i], original)
                \/ \E j \in DOMAIN spec.scalingRules :
                      j > i /\ Overrides(spec.scalingRules[j], spec.scalingRules[i], original)
  BY <1>2, <1>3, <1>6, RulesApplied
<1> QED
  BY <1>3, <1>4, <1>5, <1>7, <1>8

\* The types of what a touch of one container leaves.
LEMMA TouchTypes ==
    ASSUME EstimatorInv, WindowInv', spec' = spec, now' = now, NEW c \in Containers,
           accessed' = [accessed EXCEPT ![c] = now]
    PROVE  /\ spec' \in Specs /\ now' \in 0..MaxTime
           /\ samples' \in [Containers -> Seq(Sample)]
           /\ accessed' \in [Containers -> 0..MaxTime]
           /\ fed' \in [Containers -> Seq(Sample)]
<1>1. /\ samples' \in [Containers -> Seq(Sample)]
      /\ fed' \in [Containers -> Seq(Sample)]
  BY DEF WindowInv, WindowTypes
<1>2. spec \in Specs /\ now \in 0..MaxTime /\ accessed \in [Containers -> 0..MaxTime]
  BY DEF EstimatorInv, TypeOK
<1> QED
  BY <1>1, <1>2

\* Every step keeps the invariant.
LEMMA EstimatorStep == EstimatorInv /\ [Next]_vars => EstimatorInv'
<1> SUFFICES ASSUME EstimatorInv, [Next]_vars
             PROVE  EstimatorInv'
  OBVIOUS
<1>w. WindowInv'
  BY WindowStep DEF EstimatorInv
<1>t. /\ spec \in Specs /\ now \in 0..MaxTime
      /\ samples \in [Containers -> Seq(Sample)]
      /\ accessed \in [Containers -> 0..MaxTime]
      /\ fed \in [Containers -> Seq(Sample)]
      /\ \A d \in Containers : last[d].made =>
             last[d].heuristic \in Rec /\ last[d].rec \in Rec
      /\ DOMAIN last = Containers
  BY DEF EstimatorInv, TypeOK
<1>s. /\ samples' \in [Containers -> Seq(Sample)]
      /\ fed' \in [Containers -> Seq(Sample)]
      /\ WindowExact'
  BY <1>w DEF WindowInv, WindowTypes
<1>1. ASSUME NEW c \in Containers, NEW pods \in SUBSET Pods,
             NEW usage \in [pods -> Usages], FeedSamples(c, usage)
      PROVE  EstimatorInv'
  <2>1. PICK n : /\ n = Timed(usage, {p \in DOMAIN usage : usage[p] >= 0})
                 /\ fed' = [fed EXCEPT ![c] = @ \o n]
    BY <1>1 DEF FeedSamples
  <2>2. spec' = spec /\ now' = now /\ last' = last
        /\ accessed' = [accessed EXCEPT ![c] = now]
    BY <1>1 DEF FeedSamples
  <2>3. n \in Seq(Sample)
    <3>1. IsFiniteSet({p \in DOMAIN usage : usage[p] >= 0})
      BY EstimatorAssumption, FS_Subset
    <3>2. \A p \in {q \in DOMAIN usage : usage[q] >= 0} : usage[p] \in Nat
      <4>1. \A p \in DOMAIN usage : usage[p] \in Usages
        OBVIOUS
      <4>2. \A x \in Usages : x \in Int
        BY EstimatorAssumption
      <4> QED
        BY <4>1, <4>2
    <3>3. now \in Nat
      BY <1>t, EstimatorAssumption
    <3> QED
      BY <2>1, <3>1, <3>2, <3>3, TimedType
  <2>4. ASSUME NEW d \in Containers, NEW i \in DOMAIN fed[d]
        PROVE  i \in DOMAIN fed'[d] /\ fed'[d][i] = fed[d][i]
    <3>1. CASE d = c
      <4>1. fed'[d] = fed[d] \o n /\ fed[d] \in Seq(Sample)
        BY <1>t, <2>1, <3>1
      <4>2. /\ fed[d] \o n \in Seq(Sample)
            /\ Len(fed[d] \o n) = Len(fed[d]) + Len(n)
            /\ \A k \in 1..(Len(fed[d]) + Len(n)) :
                   (fed[d] \o n)[k] = IF k <= Len(fed[d]) THEN fed[d][k] ELSE n[k - Len(fed[d])]
        BY <2>3, <4>1, ConcatProperties
      <4>3. /\ i \in 1..Len(fed[d]) /\ Len(n) \in Nat /\ Len(fed[d]) \in Nat
            /\ DOMAIN (fed[d] \o n) = 1..Len(fed[d] \o n)
        BY <2>3, <4>1, <4>2, SamplesTyped
      <4>4. i \in 1..(Len(fed[d]) + Len(n)) /\ i <= Len(fed[d])
        BY <4>3
      <4> QED
        BY <4>1, <4>2, <4>3, <4>4
    <3>2. CASE d # c
      BY <1>t, <2>1, <3>2
    <3> QED
      BY <3>1, <3>2
  <2>5. /\ DOMAIN last' = Containers
        /\ LearnsFromCoveredWindow' /\ BoundsOrdered' /\ RulesInOrder'
    BY <2>2, <2>4, HistoryOnlyGrows
  <2>6. TypeOK'
    <3>1. /\ spec' \in Specs /\ now' \in 0..MaxTime
          /\ samples' \in [Containers -> Seq(Sample)]
          /\ accessed' \in [Containers -> 0..MaxTime]
          /\ fed' \in [Containers -> Seq(Sample)]
      BY <1>w, <2>2, TouchTypes
    <3> QED
      BY <1>t, <2>2, <3>1 DEF TypeOK
  <2> QED
    BY <1>w, <2>5, <2>6 DEF EstimatorInv
<1>2. ASSUME NEW c \in Containers, NEW constraints \in Constraints,
             NEW original \in Requests \cup {None}, Recommend(c, constraints, original)
      PROVE  EstimatorInv'
  <2>1. PICK kept : kept = purgeSamples(samples[c], now)
    OBVIOUS
  <2>2. PICK heuristic : heuristic = Heuristic(kept, constraints)
    OBVIOUS
  <2>3. PICK rec : rec = IF original = None THEN heuristic
                         ELSE ApplyRules(spec.scalingRules, heuristic, original)
    OBVIOUS
  <2>4. PICK r : r = [made |-> TRUE, at |-> now, covered |-> Covered(kept),
                      constraints |-> constraints, original |-> original,
                      heuristic |-> heuristic, rec |-> rec]
    OBVIOUS
  <2>5. /\ samples' = [samples EXCEPT ![c] = kept]
        /\ accessed' = [accessed EXCEPT ![c] = now]
        /\ last' = [last EXCEPT ![c] = r]
        /\ spec' = spec /\ now' = now /\ fed' = fed
    BY <1>2, <2>1, <2>2, <2>3, <2>4 DEF Recommend
  <2>6. kept \in Seq(Sample)
    <3>1. samples'[c] = kept
      BY <1>t, <2>5
    <3> QED
      BY <1>s, <3>1
  <2>7. IsWindow(kept, fed[c], now)
    <3>1. samples'[c] = kept /\ accessed'[c] = now
      BY <1>t, <2>5
    <3>2. PICK k \in 0..Len(fed'[c]) :
              /\ samples'[c] = SubSeq(fed'[c], k + 1, Len(fed'[c]))
              /\ \A i \in 1..k : ~Fresh(fed'[c][i], accessed'[c])
              /\ \A i \in (k + 1)..Len(fed'[c]) : Fresh(fed'[c][i], accessed'[c])
      BY <1>s, <2>5 DEF WindowExact, Fresh
    <3> QED
      BY <2>5, <3>1, <3>2 DEF IsWindow
  <2>8. /\ heuristic \in Rec /\ Ordered(heuristic)
        /\ rec \in Rec /\ Ordered(rec)
        /\ IF Covered(kept)
           THEN spec.minimumCoverageWindow > 0 =>
                  \E i, j \in DOMAIN fed[c] :
                     /\ Fresh(fed[c][i], now)
                     /\ fed[c][j].time <= now
                     /\ fed[c][j].time - fed[c][i].time >= spec.minimumCoverageWindow
           ELSE heuristic = Fallback(constraints)
        /\ original # None =>
              /\ rec.uncapped = heuristic.uncapped
              /\ \A i \in DOMAIN spec.scalingRules :
                     \/ Respects(rec, spec.scalingRules[i], original)
                     \/ \E j \in DOMAIN spec.scalingRules :
                           j > i /\ Overrides(spec.scalingRules[j], spec.scalingRules[i], original)
    BY <2>2, <2>3, <2>6, <2>7, RecommendationSound
  <2>9. /\ r.at = now /\ r.covered = Covered(kept) /\ r.constraints = constraints
        /\ r.original = original /\ r.heuristic = heuristic /\ r.rec = rec
    BY <2>4
  <2>10. /\ last'[c] = r /\ DOMAIN last' = Containers
         /\ \A d \in Containers : d # c => last'[d] = last[d]
    BY <1>t, <2>5
  <2>11. TypeOK'
    <3>1. /\ spec' \in Specs /\ now' \in 0..MaxTime
          /\ samples' \in [Containers -> Seq(Sample)]
          /\ accessed' \in [Containers -> 0..MaxTime]
          /\ fed' \in [Containers -> Seq(Sample)]
      BY <1>w, <2>5, TouchTypes
    <3>2. \A d \in Containers : last'[d].made =>
              last'[d].heuristic \in Rec /\ last'[d].rec \in Rec
      BY <1>t, <2>8, <2>9, <2>10
    <3> QED
      BY <3>1, <3>2 DEF TypeOK
  <2>12. BoundsOrdered'
    <3>1. \A d \in Containers : last[d].made =>
              Ordered(last[d].heuristic) /\ Ordered(last[d].rec)
      BY DEF EstimatorInv, BoundsOrdered
    <3>2. \A d \in Containers : last'[d].made =>
              Ordered(last'[d].heuristic) /\ Ordered(last'[d].rec)
      BY <2>8, <2>9, <2>10, <3>1
    <3> QED
      BY <3>2 DEF BoundsOrdered, Ordered
  <2>13. RulesInOrder'
    <3>1. PICK l, rules : l = last' /\ rules = spec.scalingRules
      OBVIOUS
    <3>2. ASSUME NEW d \in Containers, l[d].made, l[d].original # None
          PROVE  /\ l[d].rec.uncapped = l[d].heuristic.uncapped
                 /\ \A i \in DOMAIN rules :
                        \/ Respects(l[d].rec, rules[i], l[d].original)
                        \/ \E j \in DOMAIN rules :
                              j > i /\ Overrides(rules[j], rules[i], l[d].original)
      <4>1. CASE d = c
        BY <2>8, <2>9, <2>10, <3>1, <3>2, <4>1
      <4>2. CASE d # c
        BY <2>10, <3>1, <3>2, <4>2 DEF EstimatorInv, RulesInOrder
      <4> QED
        BY <4>1, <4>2
    <3>3. last' = l /\ spec'.scalingRules = rules
      BY <2>5, <3>1
    <3> QED
      BY <3>2, <3>3 DEF RulesInOrder
  <2>14. LearnsFromCoveredWindow'
    <3>1. PICK l, m, w : /\ l = last' /\ m = spec.minimumCoverageWindow
                         /\ w = spec.slidingWindow
      OBVIOUS
    <3>2. ASSUME NEW d \in Containers, l[d].made
          PROVE  IF l[d].covered
                 THEN m > 0 =>
                        \E i, j \in DOMAIN fed[d] :
                           /\ fed[d][i].time >= l[d].at - w
                           /\ fed[d][j].time <= l[d].at
                           /\ fed[d][j].time - fed[d][i].time >= m
                 ELSE l[d].heuristic = Fallback(l[d].constraints)
      <4>1. CASE d = c
        BY <2>8, <2>9, <2>10, <3>1, <4>1 DEF Fresh
      <4>2. CASE d # c
        BY <2>10, <3>1, <3>2, <4>2 DEF EstimatorInv, LearnsFromCoveredWindow, Fresh
      <4> QED
        BY <4>1, <4>2
    <3>3. /\ last' = l /\ spec'.minimumCoverageWindow = m
          /\ spec'.slidingWindow = w /\ fed' = fed
      BY <2>5, <3>1
    <3> QED
      BY <3>2, <3>3 DEF LearnsFromCoveredWindow, Fresh, Fallback
  <2> QED
    BY <1>w, <2>10, <2>11, <2>12, <2>13, <2>14 DEF EstimatorInv
<1>3. ASSUME Tick \/ UNCHANGED vars
      PROVE  EstimatorInv'
  <2>1. /\ spec' = spec /\ last' = last /\ fed' = fed
        /\ samples' = samples /\ accessed' = accessed
    BY <1>3 DEF Tick, vars
  <2>2. now' \in 0..MaxTime
    <3>1. now' = now \/ (now < MaxTime /\ now' = now + 1)
      BY <1>3 DEF Tick, vars
    <3> QED
      BY <1>t, <3>1, EstimatorAssumption
  <2>3. TypeOK'
    BY <1>t, <2>1, <2>2 DEF TypeOK
  <2>4. /\ DOMAIN last' = Containers
        /\ LearnsFromCoveredWindow' /\ BoundsOrdered' /\ RulesInOrder'
    BY <2>1, HistoryOnlyGrows
  <2> QED
    BY <1>w, <2>3, <2>4 DEF EstimatorInv
<1>5. ASSUME Next
      PROVE  \/ \E c \in Containers, pods \in SUBSET Pods :
                    \E usage \in [pods -> Usages] : FeedSamples(c, usage)
             \/ \E c \in Containers, constraints \in Constraints,
                   original \in Requests \cup {None} : Recommend(c, constraints, original)
             \/ Tick
  BY <1>5, Zenon DEF Next
<1> QED
  BY <1>1, <1>2, <1>3, <1>5, Zenon

\* Every reachable state satisfies the invariant.
LEMMA Invariant == Spec => []EstimatorInv
BY EstimatorInit, EstimatorStep, PTL DEF Spec

(* Whatever the policy, the usages and the order of feeds, recommendations *)
(* and idle time, the samples and the recommendations keep their types: no *)
(* percentile is taken outside the samples, no amount is undefined.        *)
THEOREM EstimatorTypeCorrect == Spec => []TypeOK
<1>1. EstimatorInv => TypeOK
  BY DEF EstimatorInv
<1> QED
  BY <1>1, Invariant, PTL

(* A recommendation is taken from a percentile only when samples accepted  *)
(* inside the window span the policy's minimum coverage; otherwise it is   *)
(* the current request, or the minimum, unchanged.                         *)
THEOREM LearnsOnlyWhenCovered == Spec => []LearnsFromCoveredWindow
<1>1. EstimatorInv => LearnsFromCoveredWindow
  BY DEF EstimatorInv
<1> QED
  BY <1>1, Invariant, PTL

(* The percentile of what is kept is the nearest rank, for every policy,   *)
(* number of samples and float rounding.                                   *)
THEOREM PercentilesRight == Spec => []NearestRank
<1>1. EstimatorInv => NearestRank
  <2> SUFFICES ASSUME EstimatorInv, NEW c \in Containers, samples[c] # <<>>
               PROVE  LET s    == samples[c]
                          base == calculatePercentile(s)
                          need == spec.percentile * Len(s)
                      IN  /\ \E i \in DOMAIN s : s[i].value = base
                          /\ 100 * Cardinality({i \in DOMAIN s : s[i].value <= base}) >= need
                          /\ 100 * Cardinality({i \in DOMAIN s : s[i].value < base}) <= need
    BY DEF NearestRank
  <2>1. spec \in Specs /\ samples[c] \in Seq(Sample)
    BY DEF EstimatorInv, TypeOK
  <2> QED
    BY <2>1, PercentileIsNearestRank
<1> QED
  BY <1>1, Invariant, PTL

(* The target of every recommendation lies between its bounds, before and  *)
(* after any list of rules.                                                *)
THEOREM BoundsAlwaysOrdered == Spec => []BoundsOrdered
<1>1. EstimatorInv => BoundsOrdered
  BY DEF EstimatorInv
<1> QED
  BY <1>1, Invariant, PTL

(* Each rule of a policy holds of what is recommended unless a later one   *)
(* overrides it, for any list of rules.                                    *)
THEOREM RulesHoldInOrder == Spec => []RulesInOrder
<1>1. EstimatorInv => RulesInOrder
  BY DEF EstimatorInv
<1> QED
  BY <1>1, Invariant, PTL
=============================================================================
