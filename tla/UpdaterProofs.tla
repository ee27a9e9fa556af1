---------------------------- MODULE UpdaterProofs -----------------------------
(***************************************************************************)
(* What holds of the updater for any number of pods, tolerance, timeouts   *)
(* and environment steps: its type invariant, and that it disrupts no more *)
(* pods than its budget allows.  The latter follows from BudgetInv: what   *)
(* the loop believes to be running does run, or was lost behind its back.  *)
(***************************************************************************)
EXTENDS UpdaterProperties, FiniteSetTheorems, TLAPS

Listing == [Pods -> Pod \cup {None}]

\* Sets of pods have sizes.
LEMMA Sizes ==
    /\ Cardinality(Pods) \in Nat
    /\ \A S \in SUBSET Pods : IsFiniteSet(S) /\ Cardinality(S) \in 0..Cardinality(Pods)
<1>1. IsFiniteSet(Pods)
  BY UpdaterAssumption
<1>2. Cardinality(Pods) \in Nat
  BY <1>1, FS_CardinalityType
<1>3. ASSUME NEW S \in SUBSET Pods
      PROVE  IsFiniteSet(S) /\ Cardinality(S) \in 0..Cardinality(Pods)
  <2>1. IsFiniteSet(S) /\ Cardinality(S) <= Cardinality(Pods)
    BY <1>1, FS_Subset
  <2>2. Cardinality(S) \in Nat
    BY <2>1, FS_CardinalityType
  <2> QED
    BY <1>2, <2>1, <2>2
<1> QED
  BY <1>2, <1>3

\* The pods of a listing that run, and those there are.
LEMMA ListingSizes ==
    ASSUME NEW ps
    PROVE  /\ Running(ps) \subseteq Live(ps) /\ Live(ps) \subseteq Pods
           /\ Cardinality(Running(ps)) \in 0..Cardinality(Pods)
           /\ Cardinality(Live(ps)) \in 0..Cardinality(Pods)
<1>1. Running(ps) \subseteq Live(ps) /\ Live(ps) \subseteq Pods
  BY DEF Running, Live
<1> QED
  BY <1>1, Sizes

\* A change of one pod stops at most that pod.
LEMMA OnePod ==
    ASSUME NEW ps, NEW qs, NEW p \in Pods, \A q \in Pods \ {p} : qs[q] = ps[q]
    PROVE  /\ Cardinality(Running(ps)) <= Cardinality(Running(qs)) + 1
           /\ (p \in Running(ps) => p \in Running(qs)) =>
                  Cardinality(Running(ps)) <= Cardinality(Running(qs))
<1>1. Running(ps) \in SUBSET Pods /\ Running(qs) \in SUBSET Pods
  BY ListingSizes
<1>2. IsFiniteSet(Running(ps)) /\ IsFiniteSet(Running(qs))
  BY <1>1, Sizes
<1>3. Running(ps) \ {p} \subseteq Running(qs)
  BY DEF Running, Live
<1>4. Cardinality(Running(ps) \ {p}) <= Cardinality(Running(qs))
  BY <1>2, <1>3, FS_Subset
<1>5. Cardinality(Running(ps)) <= Cardinality(Running(ps) \ {p}) + 1
  <2>1. Cardinality(Running(ps) \ {p}) = IF p \in Running(ps) THEN Cardinality(Running(ps)) - 1
                                         ELSE Cardinality(Running(ps))
    BY <1>2, FS_RemoveElement
  <2> QED
    BY <2>1, ListingSizes
<1>6. ASSUME p \in Running(ps) => p \in Running(qs)
      PROVE  Cardinality(Running(ps)) <= Cardinality(Running(qs))
  <2>1. Running(ps) \subseteq Running(qs)
    BY <1>3, <1>6
  <2> QED
    BY <1>2, <2>1, FS_Subset
<1>7. Cardinality(Running(ps) \ {p}) \in Nat
  BY <1>2, FS_RemoveElement, FS_CardinalityType
<1> QED
  BY <1>4, <1>5, <1>6, <1>7, ListingSizes

\* A tolerance is a number of pods.
LEMMA ToleranceType ==
    ASSUME NEW n \in 0..Cardinality(Pods)
    PROVE  Tolerance(n) \in Nat
BY Sizes, UpdaterAssumption

\* A group has stats, whatever is listed.
LEMMA GroupStatsType ==
    ASSUME replicas \in 0..Cardinality(Pods), NEW ps
    PROVE  /\ GroupStats(ps) \in Stats
           /\ GroupStats(ps).running <= Cardinality(Running(ps))
           /\ GroupStats(ps).evicted = 0
           /\ GroupStats(ps).grouped /\ ~GroupStats(ps).belowMin =>
                  ~(Cardinality(Live(ps)) < config.minReplicas)
<1>1. Cardinality(Pods) \in Nat
  BY Sizes
<1>2. Cardinality(Running(ps)) \in 0..Cardinality(Pods)
  BY ListingSizes
<1> DEFINE few == Cardinality(Live(ps)) < config.minReplicas
           n == Cardinality(Running(ps))
<1>3. few \in BOOLEAN
  OBVIOUS
<1>4. CASE GroupStats(ps) = NoStats
  BY <1>1, <1>2, <1>4 DEF NoStats, Stats
<1>5. CASE GroupStats(ps) = [grouped |-> TRUE, belowMin |-> few, configured |-> replicas,
                             running |-> n, evicted |-> 0, initiated |-> 0]
  <2>1. n \in 0..Cardinality(Pods)
    BY <1>2
  <2> HIDE DEF n
  <2>2. PICK b \in BOOLEAN : b = few
    BY <1>3
  <2>3. GroupStats(ps) = [grouped |-> TRUE, belowMin |-> b, configured |-> replicas,
                          running |-> n, evicted |-> 0, initiated |-> 0]
    BY <1>5, <2>2
  <2>4. GroupStats(ps) \in Stats
    BY <2>1, <2>3 DEF Stats
  <2>5. GroupStats(ps).running = n /\ GroupStats(ps).evicted = 0 /\ GroupStats(ps).belowMin = b
    BY <2>3
  <2>6. n <= n
    BY <1>1, <2>1
  <2> QED
    BY <2>2, <2>4, <2>5, <2>6 DEF n
<1> QED
  BY <1>4, <1>5 DEF GroupStats
-----------------------------------------------------------------------------
(* Types.                                                                   *)

\* A counted step leaves a budget of steps.
LEMMA SpendType ==
    ASSUME steps \in Budget, NEW kind, Spend(kind)
    PROVE  steps' \in Budget
BY DEF Budget, Spend

\* What a loop keeps is typed.
LoopOK ==
    /\ target \in Nat /\ view \in Listing /\ stats \in Stats
    /\ resizes \subseteq Live(view) /\ evictions \subseteq Live(view)
    /\ phase \in {"idle", "busy"}
    /\ phase = "idle" => resizes = {} /\ evictions = {}

WorldOK ==
    /\ config \in Config /\ replicas \in 0..Cardinality(Pods) /\ rec \in Nat
    /\ pods \in Listing

RestOK == age \in [Pods -> 0..MaxAge \cup {None}] /\ lost \in Nat /\ steps \in Budget

\* The type invariant in three parts.
LEMMA TypeParts ==
    /\ TypeOK <=> WorldOK /\ LoopOK /\ RestOK
    /\ TypeOK' <=> WorldOK' /\ LoopOK' /\ RestOK'
BY DEF TypeOK, WorldOK, LoopOK, RestOK, Listing
\* A new recommendation or size of the StatefulSet leaves pods and loop alone.
LEMMA ChangeStep ==
    ASSUME TypeOK, Recommend \/ Scale
    PROVE  TypeOK' /\ UNCHANGED <<config, loop, pods, lost>>
<1>t. WorldOK /\ LoopOK /\ RestOK
  BY TypeParts
<1>1. WorldOK' /\ RestOK' /\ UNCHANGED <<config, loop, pods, lost>>
  BY <1>t, SpendType DEF Recommend, Scale, WorldOK, RestOK
<1>2. LoopOK'
  BY <1>t, <1>1 DEF loop, LoopOK
<1> QED
  BY <1>1, <1>2, TypeParts

\* What pods do leaves the loop alone.
LEMMA WorldStep ==
    ASSUME TypeOK, NEW p \in Pods,
           Create(p) \/ Delete(p) \/ Disrupt(p) \/ Start(p) \/ React(p) \/ Proceed(p)
    PROVE  /\ TypeOK' /\ UNCHANGED <<config, loop>>
           /\ phase = "busy" => Cardinality(Running(pods)) + lost
                                    <= Cardinality(Running(pods')) + lost'
<1>t. WorldOK /\ LoopOK /\ RestOK
  BY TypeParts
<1>c. Cardinality(Pods) \in Nat
  BY Sizes
<1>l. ASSUME UNCHANGED loop
      PROVE  LoopOK'
  BY <1>t, <1>l DEF loop, LoopOK
<1>r. Cardinality(Running(pods)) \in Nat /\ Cardinality(Running(pods')) \in Nat /\ lost \in Nat
  BY <1>t, <1>c, ListingSizes DEF RestOK
<1>k. ASSUME pods' \in Listing, UNCHANGED <<config, replicas, rec, loop, age, lost>>, steps' \in Budget,
             \A q \in Pods \ {p} : pods'[q] = pods[q], p \in Running(pods) => p \in Running(pods')
      PROVE  /\ TypeOK' /\ UNCHANGED <<config, loop>>
             /\ Cardinality(Running(pods)) + lost <= Cardinality(Running(pods')) + lost'
  <2>1. WorldOK' /\ RestOK' /\ UNCHANGED loop
    BY <1>t, <1>k DEF WorldOK, RestOK
  <2>2. Cardinality(Running(pods)) <= Cardinality(Running(pods'))
    BY <1>k, OnePod
  <2> QED
    BY <1>k, <1>l, <1>r, <2>1, <2>2, TypeParts
<1>b. steps \in Budget /\ rec \in Nat /\ pods \in Listing
  BY <1>t DEF WorldOK, RestOK
<1>1. CASE Create(p)
  <2>1. PICK r \in Nat : pods' = [pods EXCEPT ![p] = Started(r)]
    BY <1>b, <1>1 DEF Create
  <2>2. Started(r) \in Pod
    BY DEF Started, Pod, Resize
  <2>3. pods' \in Listing
    BY <1>b, <2>1, <2>2 DEF Listing
  <2>4. p \notin Running(pods) /\ \A q \in Pods \ {p} : pods'[q] = pods[q]
    BY <1>b, <1>1, <2>1 DEF Create, Running, Live, Listing
  <2>5. steps' \in Budget /\ UNCHANGED <<config, replicas, rec, loop, age, lost>>
    BY <1>b, <1>1, SpendType DEF Create
  <2> QED
    BY <1>k, <2>3, <2>4, <2>5
<1>2. CASE Goes(p) /\ steps' \in Budget
  <2>1. pods[p] \in Pod
    BY <1>b, <1>2 DEF Goes, Listing
  <2>2. pods' \in Listing /\ (\A q \in Pods \ {p} : pods'[q] = pods[q])
        /\ UNCHANGED <<config, replicas, rec, loop, age>>
    BY <1>b, <1>2 DEF Goes, Listing
  <2>3. lost' \in Nat /\ (phase = "busy" /\ pods[p].running => lost' = lost + 1)
        /\ (~(phase = "busy" /\ pods[p].running) => lost' = lost)
    BY <1>r, <1>2 DEF Goes, Loss
  <2>4. WorldOK' /\ RestOK'
    BY <1>t, <1>2, <2>2, <2>3 DEF WorldOK, RestOK
  <2>5. p \in Running(pods) => pods[p].running
    BY DEF Running
  <2>6. Cardinality(Running(pods)) <= Cardinality(Running(pods')) + 1
        /\ (p \notin Running(pods) => Cardinality(Running(pods)) <= Cardinality(Running(pods')))
    BY <2>2, OnePod
  <2> QED
    BY <1>l, <1>r, <2>2, <2>3, <2>4, <2>5, <2>6, TypeParts
<1>3. CASE Start(p) \/ React(p) \/ Proceed(p)
  <2>1. PICK x \in Pod : pods' = [pods EXCEPT ![p] = x] /\ (pods[p].running => x.running)
    <3>1. pods[p] \in Pod
      BY <1>b, <1>3 DEF Start, React, Proceed, Listing
    <3>2. CASE Start(p)
      <4>1. [pods[p] EXCEPT !.running = TRUE] \in Pod /\ [pods[p] EXCEPT !.running = TRUE].running
        BY <3>1 DEF Pod
      <4> QED
        BY <3>2, <4>1 DEF Start
    <3>3. ASSUME NEW r \in Resize, pods' = [pods EXCEPT ![p].resize = r]
          PROVE  \E x \in Pod : pods' = [pods EXCEPT ![p] = x] /\ (pods[p].running => x.running)
      <4>1. [pods[p] EXCEPT !.resize = r] \in Pod
            /\ [pods[p] EXCEPT !.resize = r].running = pods[p].running
        BY <3>1 DEF Pod
      <4> QED
        BY <3>3, <4>1
    <3>4. CASE pods' = [pods EXCEPT ![p].resize = "none", ![p].has = pods[p].wants]
      <4>1. [pods[p] EXCEPT !.resize = "none", !.has = pods[p].wants] \in Pod
            /\ [pods[p] EXCEPT !.resize = "none", !.has = pods[p].wants].running = pods[p].running
        BY <3>1 DEF Pod, Resize
      <4>2. pods' = [pods EXCEPT ![p] = [pods[p] EXCEPT !.resize = "none", !.has = pods[p].wants]]
        BY <1>b, <3>4 DEF Listing
      <4> QED
        BY <4>1, <4>2
    <3> QED
      BY <1>3, <3>2, <3>3, <3>4 DEF React, Proceed, Resize, Stuck
  <2>2. UNCHANGED <<config, replicas, rec, loop, age, lost, steps>>
    BY <1>3 DEF Start, React, Proceed
  <2>3. pods' \in Listing /\ \A q \in Pods \ {p} : pods'[q] = pods[q]
    BY <1>b, <2>1 DEF Listing
  <2>4. p \in Running(pods) => p \in Running(pods')
    BY <1>b, <2>1, UpdaterAssumption DEF Running, Live, Listing
  <2> QED
    BY <1>b, <1>k, <2>2, <2>3, <2>4
<1> QED
  BY <1>1, <1>2, <1>3, <1>b, SpendType DEF Delete, Disrupt

-----------------------------------------------------------------------------
(* The loop.                                                                *)

(* What the loop counts on runs, or was lost; and it evicts running pods   *)
(* only of a group of enough of them.                                      *)
BudgetInv ==
    phase = "busy" =>
        /\ stats.running - stats.evicted <= Cardinality(Running(pods)) + lost
        /\ stats.grouped /\ ~stats.belowMin => Cardinality(Live(view)) >= config.minReplicas

Inv == TypeOK /\ BudgetInv

\* Initially nothing is listed.
LEMMA Starts == Init => Inv
<1> SUFFICES ASSUME Init
             PROVE  Inv
  OBVIOUS
<1>1. PICK s \in Scenarios :
        /\ config = s.config /\ replicas = Cardinality(s.running) /\ steps = s.steps
        /\ pods = [p \in Pods |-> IF p \in s.running THEN [Started(0) EXCEPT !.running = TRUE]
                                  ELSE None]
  BY DEF Init
<1>2. s.config \in Config /\ s.running \in SUBSET Pods /\ s.steps \in Budget
  BY UpdaterAssumption
<1>3. replicas \in 0..Cardinality(Pods)
  BY <1>1, <1>2, Sizes
<1>4. [Started(0) EXCEPT !.running = TRUE] \in Pod
  BY DEF Started, Pod, Resize
<1>5. WorldOK
  BY <1>1, <1>2, <1>3, <1>4 DEF WorldOK, Listing, Init
<1>6. LoopOK
  BY Sizes DEF LoopOK, Init, Listing, NoStats, Stats, Live
<1>7. RestOK
  BY <1>1, <1>2 DEF RestOK, Init
<1> QED
  BY <1>5, <1>6, <1>7, TypeParts DEF Inv, BudgetInv, Init

\* Time passes.
LEMMA TickStep == TypeOK /\ Tick => TypeOK' /\ UNCHANGED <<world, loop, lost>>
<1> SUFFICES ASSUME TypeOK, Tick
             PROVE  TypeOK' /\ UNCHANGED <<world, loop, lost>>
  OBVIOUS
<1>t. WorldOK /\ LoopOK /\ RestOK
  BY TypeParts
<1>1. UNCHANGED <<world, loop, lost, steps>>
  BY DEF Tick
<1>2. MaxAge \in Nat
  BY UpdaterAssumption DEF MaxAge
<1>3. age' \in [Pods -> 0..MaxAge \cup {None}]
  <2>1. ASSUME NEW p \in Pods
        PROVE  (IF age[p] # None /\ age[p] < MaxAge THEN age[p] + 1 ELSE age[p])
                   \in 0..MaxAge \cup {None}
    BY <1>t, <1>2 DEF RestOK
  <2>2. age' = [p \in Pods |-> IF age[p] # None /\ age[p] < MaxAge THEN age[p] + 1 ELSE age[p]]
    BY DEF Tick
  <2> QED
    BY <2>1, <2>2
<1>4. RestOK' /\ WorldOK' /\ LoopOK'
  BY <1>t, <1>1, <1>3 DEF RestOK, WorldOK, LoopOK, world, loop
<1> QED
  BY <1>1, <1>4, TypeParts

\* A listing is what runs at that moment.
LEMMA ListStep == TypeOK /\ ListPods => Inv' /\ stats'.evicted = 0
<1> SUFFICES ASSUME TypeOK, ListPods
             PROVE  Inv' /\ stats'.evicted = 0
  OBVIOUS
<1>t. WorldOK /\ LoopOK /\ RestOK
  BY TypeParts
<1>1. /\ view' = pods /\ target' = rec /\ stats' = GroupStats(pods)
      /\ UNCHANGED <<config, replicas, rec, pods, lost, steps>> /\ phase' = "busy"
  BY DEF ListPods, world
<1>2. stats' \in Stats /\ stats'.running <= Cardinality(Running(pods)) /\ stats'.evicted = 0
      /\ (stats'.grouped /\ ~stats'.belowMin => ~(Cardinality(Live(pods)) < config.minReplicas))
  BY <1>t, <1>1, GroupStatsType DEF WorldOK
<1>3. resizes' \subseteq Live(view') /\ evictions' \subseteq Live(view')
  BY DEF ListPods, Outdated
<1>4. MaxAge \in Nat
  BY UpdaterAssumption DEF MaxAge
<1>5. age' \in [Pods -> 0..MaxAge \cup {None}]
  <2>1. age' = age \/ age' = FirstSeen(pods)
    BY <1>1 DEF ListPods
  <2>2. FirstSeen(pods) \in [Pods -> 0..MaxAge \cup {None}]
    BY <1>t, <1>4 DEF FirstSeen, RestOK
  <2> QED
    BY <1>t, <2>1, <2>2 DEF RestOK
<1>6. WorldOK' /\ LoopOK' /\ RestOK'
  BY <1>t, <1>1, <1>2, <1>3, <1>5 DEF WorldOK, LoopOK, RestOK
<1>7. BudgetInv'
  <2>1. Cardinality(Live(pods)) \in Nat /\ Cardinality(Running(pods)) \in Nat /\ lost \in Nat
        /\ config.minReplicas \in Nat /\ stats'.running \in Nat
    BY <1>t, <1>2, Sizes, ListingSizes DEF WorldOK, RestOK, Config, Stats
  <2> QED
    BY <1>1, <1>2, <2>1 DEF BudgetInv
<1> QED
  BY <1>2, <1>6, <1>7, TypeParts DEF Inv

\* A patch keeps a pod where it is.
LEMMA PatchStep ==
    ASSUME pods \in Listing, target \in Nat, NEW p \in Pods, pods[p] # None
    PROVE  /\ Patched(p) \in Listing
           /\ Cardinality(Running(pods)) <= Cardinality(Running(Patched(p)))
<1> DEFINE r == IF pods[p].has = target THEN "none" ELSE "requested"
           x == [pods[p] EXCEPT !.wants = target, !.resize = r]
<1>1. CASE pods[p].wants = target
  <2>1. Cardinality(Running(pods)) \in Nat
    BY ListingSizes, Sizes
  <2> QED
    BY <1>1, <2>1 DEF Patched
<1>2. CASE pods[p].wants # target
  <2>1. pods[p] \in Pod
    BY DEF Listing
  <2>2. r \in Resize
    BY DEF Resize
  <2>3. x \in Pod /\ x.running = pods[p].running
    BY <2>1, <2>2 DEF Pod
  <2>4. Patched(p) = [pods EXCEPT ![p] = x]
    BY <1>2 DEF Patched, Listing
  <2> HIDE DEF x
  <2>5. Patched(p) \in Listing /\ \A q \in Pods \ {p} : Patched(p)[q] = pods[q]
    BY <2>3, <2>4 DEF Listing
  <2>6. p \in Running(pods) => p \in Running(Patched(p))
    BY <2>3, <2>4, UpdaterAssumption DEF Running, Live, Listing
  <2> QED
    BY <2>5, <2>6, OnePod
<1> QED
  BY <1>1, <1>2

\* What Disruptable says: one more may go.
LEMMA OneMore ==
    ASSUME stats \in Stats, Disruptable
    PROVE  stats.running - stats.evicted - stats.initiated - 1 >= Floor
<1>1. /\ stats.configured \in 0..Cardinality(Pods) /\ stats.running \in Nat
      /\ stats.evicted \in Nat /\ stats.initiated \in Nat
  BY Sizes DEF Stats
<1>2. Tolerance(stats.configured) \in Nat
  BY <1>1, ToleranceType
<1> QED
  BY <1>1, <1>2, Sizes DEF Disruptable, Floor

\* Resizing takes a pod off the list, and one that counts leaves enough.
LEMMA InPlaceStep ==
    ASSUME Inv, NEW p \in Pods, InPlace(p)
    PROVE  /\ Inv' /\ UNCHANGED <<config, view, phase, lost>>
           /\ stats'.evicted = stats.evicted
           /\ evictions \subseteq evictions' /\ resizes \ resizes' = {p}
           /\ stats'.initiated > stats.initiated /\ Budgeted =>
                  Cardinality(Running(pods')) + lost' - stats'.initiated >= Floor
<1>t. WorldOK /\ LoopOK /\ RestOK /\ BudgetInv
  BY TypeParts DEF Inv
<1>1. /\ UNCHANGED <<config, replicas, rec, view, target, phase, age, lost>>
      /\ p \in resizes /\ resizes' = resizes \ {p} /\ phase = "busy" /\ p \in Live(view)
  BY <1>t DEF InPlace, LoopOK
<1>n. /\ stats.running \in Nat /\ stats.evicted \in Nat /\ stats.initiated \in Nat /\ lost \in Nat
      /\ stats.configured \in 0..Cardinality(Pods)
      /\ Cardinality(Running(pods)) \in Nat /\ Cardinality(Running(pods')) \in Nat
  BY <1>t, Sizes, ListingSizes DEF LoopOK, RestOK, Stats
<1>f. Floor \in Int
  BY <1>n, ToleranceType, Sizes DEF Floor
<1>k. ASSUME pods' \in Listing, Cardinality(Running(pods)) <= Cardinality(Running(pods')),
             stats' \in Stats, stats'.running = stats.running, stats'.evicted = stats.evicted,
             stats'.grouped = stats.grouped, stats'.belowMin = stats.belowMin,
             evictions' = evictions \/ evictions' = evictions \cup {p}, steps' \in Budget
      PROVE  Inv'
  <2>1. WorldOK' /\ LoopOK' /\ RestOK'
    BY <1>t, <1>1, <1>k DEF WorldOK, LoopOK, RestOK
  <2>2. BudgetInv'
    BY <1>t, <1>1, <1>n, <1>k DEF BudgetInv
  <2> QED
    BY <2>1, <2>2, TypeParts DEF Inv
<1>2. CASE Approved(p) /\ Resized(p)
  <2>1. /\ pods[p] # None /\ pods' = Patched(p) /\ UNCHANGED <<evictions, steps>>
        /\ stats' = [stats EXCEPT !.initiated = @ + 1]
    BY <1>2 DEF Resized
  <2>2. pods' \in Listing /\ Cardinality(Running(pods)) <= Cardinality(Running(pods'))
    BY <1>t, <2>1, PatchStep DEF WorldOK, LoopOK
  <2>3. /\ stats' \in Stats /\ stats'.running = stats.running /\ stats'.evicted = stats.evicted
        /\ stats'.grouped = stats.grouped /\ stats'.belowMin = stats.belowMin
        /\ stats'.initiated = stats.initiated + 1
    BY <1>t, <2>1 DEF LoopOK, Stats
  <2>4. Inv'
    BY <1>k, <1>t, <2>1, <2>2, <2>3 DEF RestOK
  <2>5. ASSUME Budgeted
        PROVE  Cardinality(Running(pods')) + lost' - stats'.initiated >= Floor
    <3>1. Disruptable
      BY <1>2, <2>5 DEF Approved, Budgeted
    <3>2. stats.running - stats.evicted - stats.initiated - 1 >= Floor
      BY <1>t, <3>1, OneMore DEF LoopOK
    <3>3. stats.running - stats.evicted <= Cardinality(Running(pods)) + lost
      BY <1>t, <1>1 DEF BudgetInv
    <3> QED
      BY <1>1, <1>n, <1>f, <2>2, <2>3, <3>2, <3>3
  <2> QED
    BY <1>1, <2>1, <2>3, <2>4, <2>5
<1>3. CASE UNCHANGED stats /\ ~(Approved(p) /\ Resized(p))
  <2>1. \/ pods' \in {pods, Patched(p)} /\ pods[p] # None
        \/ pods' = pods
    BY <1>3 DEF InPlace, NotResized
  <2>2. pods' \in Listing /\ Cardinality(Running(pods)) <= Cardinality(Running(pods'))
    BY <1>t, <1>n, <2>1, PatchStep DEF WorldOK, LoopOK
  <2>3. evictions' = evictions \/ evictions' = evictions \cup {p}
    BY <1>3 DEF InPlace, NotResized
  <2>4. steps' \in Budget
    BY <1>3, <1>t, SpendType DEF InPlace, NotResized, RestOK
  <2>5. Inv'
    BY <1>k, <1>t, <1>3, <2>2, <2>3, <2>4 DEF LoopOK
  <2> QED
    BY <1>1, <1>3, <1>n, <2>3, <2>5
<1> QED
  BY <1>2, <1>3 DEF InPlace, NotResized

\* Evicting takes a pod off the list, and a running one leaves enough.
LEMMA EvictStep ==
    ASSUME Inv, NEW p \in Pods, Evict(p)
    PROVE  /\ Inv' /\ UNCHANGED <<config, view, resizes, phase>>
           /\ evictions \ evictions' = {p} /\ stats'.initiated = stats.initiated
           /\ view[p].running /\ stats' # stats =>
                  /\ Cardinality(Running(pods')) + lost' - stats'.initiated >= Floor
                  /\ Cardinality(Live(view)) >= config.minReplicas
<1>t. WorldOK /\ LoopOK /\ RestOK /\ BudgetInv
  BY TypeParts DEF Inv
<1>1. /\ UNCHANGED <<config, replicas, rec, view, target, resizes, phase, age>>
      /\ p \in evictions /\ evictions' = evictions \ {p} /\ phase = "busy"
  BY <1>t DEF Evict, LoopOK
<1>n. /\ stats.running \in Nat /\ stats.evicted \in Nat /\ stats.initiated \in Nat /\ lost \in Nat
      /\ stats.configured \in 0..Cardinality(Pods)
      /\ Cardinality(Running(pods)) \in Nat /\ Cardinality(Running(pods')) \in Nat
  BY <1>t, Sizes, ListingSizes DEF LoopOK, RestOK, Stats
<1>f. Floor \in Int
  BY <1>n, ToleranceType, Sizes DEF Floor
<1>k. ASSUME pods' \in Listing, steps' \in Budget, stats' \in Stats, lost' \in Nat,
             stats'.running = stats.running,
             stats'.grouped = stats.grouped, stats'.belowMin = stats.belowMin,
             Cardinality(Running(pods)) + lost + stats.evicted
                 <= Cardinality(Running(pods')) + lost' + stats'.evicted
      PROVE  Inv'
  <2>1. WorldOK' /\ LoopOK' /\ RestOK'
    BY <1>t, <1>1, <1>k DEF WorldOK, LoopOK, RestOK
  <2>2. stats'.evicted \in Nat
    BY <1>k DEF Stats
  <2>3. BudgetInv'
    BY <1>t, <1>1, <1>n, <1>k, <2>2 DEF BudgetInv
  <2> QED
    BY <2>1, <2>3, TypeParts DEF Inv
<1>g. ASSUME pods' = [pods EXCEPT ![p] = None], pods[p] # None
      PROVE  /\ pods' \in Listing
             /\ Cardinality(Running(pods)) <= Cardinality(Running(pods')) + 1
             /\ Loss(p) \in Nat
             /\ Cardinality(Running(pods)) <= Cardinality(Running(pods')) + Loss(p)
  <2>1. pods' \in Listing /\ \A q \in Pods \ {p} : pods'[q] = pods[q]
    BY <1>t, <1>g DEF WorldOK, Listing
  <2>2. pods[p].running \in BOOLEAN /\ (p \in Running(pods) => pods[p].running)
    BY <1>t, <1>g DEF WorldOK, Listing, Pod, Running
  <2> QED
    BY <1>1, <1>n, <2>1, <2>2, OnePod DEF Loss
<1>2. CASE CanEvict(p) /\ Evicted(p)
  <2>1. /\ pods[p] # None /\ pods' = [pods EXCEPT ![p] = None] /\ UNCHANGED steps
        /\ stats' = Counted(p)
        /\ lost' = IF view[p].running THEN lost ELSE lost + Loss(p)
    BY <1>2 DEF Evicted
  <2>2. CASE view[p].running
    <3>1. /\ stats' \in Stats /\ stats'.running = stats.running
          /\ stats'.grouped = stats.grouped /\ stats'.belowMin = stats.belowMin
          /\ stats'.initiated = stats.initiated /\ stats'.evicted = stats.evicted + 1
      BY <1>t, <2>1, <2>2 DEF Counted, LoopOK, Stats
    <3>2. lost' = lost
      BY <2>1, <2>2
    <3>3. Inv'
      BY <1>g, <1>k, <1>n, <1>t, <2>1, <3>1, <3>2 DEF RestOK
    <3>4. Disruptable /\ stats.grouped /\ ~stats.belowMin
      BY <1>2, <2>2 DEF CanEvict
    <3>5. stats.running - stats.evicted - stats.initiated - 1 >= Floor
      BY <1>t, <3>4, OneMore DEF LoopOK
    <3>6. stats.running - stats.evicted <= Cardinality(Running(pods)) + lost
          /\ Cardinality(Live(view)) >= config.minReplicas
      BY <1>t, <1>1, <3>4 DEF BudgetInv
    <3>7. Cardinality(Running(pods)) <= Cardinality(Running(pods')) + 1
      BY <1>g, <2>1
    <3>8. Cardinality(Running(pods')) + lost' - stats'.initiated >= Floor
      BY <1>f, <1>n, <3>1, <3>2, <3>5, <3>6, <3>7
    <3> QED
      BY <1>1, <3>1, <3>3, <3>6, <3>8
  <2>3. CASE ~view[p].running
    <3>1. stats' = stats /\ lost' = lost + Loss(p)
      BY <2>1, <2>3 DEF Counted
    <3>2. Inv'
      BY <1>g, <1>k, <1>n, <1>t, <2>1, <3>1 DEF RestOK, LoopOK
    <3> QED
      BY <1>1, <3>1, <3>2
  <2> QED
    BY <2>2, <2>3
<1>3. CASE stats' = stats /\ (NotEvicted(p) \/ UNCHANGED <<pods, lost, steps>>)
  <2>1. steps' \in Budget
    BY <1>3, <1>t, SpendType DEF NotEvicted, RestOK
  <2>2. CASE UNCHANGED <<pods, lost>>
    <3>1. Inv'
      BY <1>3, <1>k, <1>n, <1>t, <2>1, <2>2 DEF WorldOK, LoopOK, RestOK
    <3> QED
      BY <1>1, <1>3, <3>1
  <2>3. CASE pods[p] # None /\ pods' = [pods EXCEPT ![p] = None] /\ lost' = lost + Loss(p)
    <3>1. Inv'
      BY <1>3, <1>g, <1>k, <1>n, <1>t, <2>1, <2>3 DEF LoopOK
    <3> QED
      BY <1>1, <1>3, <3>1
  <2> QED
    BY <1>3, <2>2, <2>3 DEF NotEvicted
<1> QED
  BY <1>2, <1>3 DEF Evict, NotEvicted

\* A loop that ends forgets what it kept.
LEMMA EndStep ==
    ASSUME Inv, Done \/ Restart
    PROVE  Inv' /\ UNCHANGED pods /\ stats'.initiated = 0
<1>t. WorldOK /\ LoopOK /\ RestOK
  BY TypeParts DEF Inv
<1>1. Ends /\ UNCHANGED world
  BY DEF Done, Restart
<1>2. WorldOK'
  BY <1>t, <1>1 DEF WorldOK, world
<1>3. LoopOK' /\ lost' = 0 /\ stats'.initiated = 0 /\ phase' = "idle"
  BY <1>1, Sizes DEF LoopOK, Ends, Listing, NoStats, Stats, Live
<1>4. RestOK'
  <2>1. steps' \in Budget
    BY <1>t, SpendType DEF Done, Restart, RestOK
  <2>2. age' \in [Pods -> 0..MaxAge \cup {None}]
    BY <1>t DEF Done, Restart, RestOK
  <2> QED
    BY <1>3, <2>1, <2>2 DEF RestOK
<1> QED
  BY <1>1, <1>2, <1>3, <1>4, TypeParts DEF Inv, BudgetInv, world
-----------------------------------------------------------------------------
(* The theorems.                                                            *)

\* What one step does to the invariant, and to the pods' budget.
Disrupted(p) ==
    /\ Evicts(p) \/ Resizes(p) =>
          Cardinality(Running(pods')) + lost' - stats'.initiated >= Floor
    /\ Evicts(p) => Cardinality(Live(view)) >= config.minReplicas

\* Steps that leave the loop where it is disrupt nothing.
LEMMA LoopKept ==
    ASSUME Inv, TypeOK', UNCHANGED <<config, loop>>,
           phase = "busy" => Cardinality(Running(pods)) + lost
                                 <= Cardinality(Running(pods')) + lost'
    PROVE  Inv' /\ \A p \in Pods : Disrupted(p)
<1>1. /\ stats.running \in Nat /\ stats.evicted \in Nat /\ lost \in Nat /\ lost' \in Nat
      /\ Cardinality(Running(pods)) \in Nat /\ Cardinality(Running(pods')) \in Nat
  BY TypeParts, Sizes, ListingSizes DEF Inv, LoopOK, RestOK, Stats
<1>2. BudgetInv'
  BY <1>1 DEF Inv, BudgetInv, loop
<1>3. resizes' = resizes /\ evictions' = evictions
  BY DEF loop
<1> QED
  BY <1>2, <1>3 DEF Inv, Disrupted, Evicts, Resizes

\* Every step keeps the invariant and the budget.
LEMMA Step == Inv /\ [Next]_vars => Inv' /\ \A p \in Pods : Disrupted(p)
<1> SUFFICES ASSUME Inv, [Next]_vars
             PROVE  Inv' /\ \A p \in Pods : Disrupted(p)
  OBVIOUS
<1>t. TypeOK
  BY DEF Inv
<1>n. Cardinality(Running(pods)) \in Nat /\ lost \in Nat
  BY <1>t, Sizes, ListingSizes DEF TypeOK
<1>1. CASE ListPods
  <2>1. Inv' /\ phase = "idle"
    BY <1>t, <1>1, ListStep DEF ListPods
  <2>2. resizes = {} /\ evictions = {}
    BY <1>t, <2>1 DEF TypeOK
  <2> QED
    BY <2>1, <2>2 DEF Disrupted, Evicts, Resizes
<1>2. ASSUME NEW q \in Pods, InPlace(q)
      PROVE  Inv' /\ \A p \in Pods : Disrupted(p)
  <2>1. /\ Inv' /\ evictions \subseteq evictions'
        /\ stats'.initiated > stats.initiated /\ Budgeted =>
               Cardinality(Running(pods')) + lost' - stats'.initiated >= Floor
    BY <1>2, InPlaceStep
  <2>2. \A p \in Pods : ~Evicts(p)
    BY <2>1 DEF Evicts
  <2> QED
    BY <2>1, <2>2 DEF Disrupted, Resizes
<1>3. ASSUME NEW q \in Pods, Evict(q)
      PROVE  Inv' /\ \A p \in Pods : Disrupted(p)
  <2>1. /\ Inv' /\ resizes' = resizes /\ evictions \ evictions' = {q}
        /\ view[q].running /\ stats' # stats =>
               /\ Cardinality(Running(pods')) + lost' - stats'.initiated >= Floor
               /\ Cardinality(Live(view)) >= config.minReplicas
    BY <1>3, EvictStep
  <2>2. \A p \in Pods : ~Resizes(p)
    BY <2>1 DEF Resizes
  <2>3. \A p \in Pods : Evicts(p) => view[q].running /\ stats' # stats
    BY <2>1 DEF Evicts
  <2> QED
    BY <2>1, <2>2, <2>3 DEF Disrupted
<1>4. CASE Done \/ Restart
  <2>1. Inv' /\ UNCHANGED pods /\ stats'.initiated = 0
    BY <1>4, EndStep
  <2>2. \A p \in Pods : ~Evicts(p)
    BY <2>1 DEF Evicts
  <2>3. stats.initiated \in Nat
    BY <1>t DEF TypeOK, Stats
  <2>4. \A p \in Pods : ~Resizes(p)
    BY <2>1, <2>3 DEF Resizes
  <2> QED
    BY <2>1, <2>2, <2>4 DEF Disrupted
<1>5. ASSUME NEW q \in Pods,
             Create(q) \/ Delete(q) \/ Disrupt(q) \/ Start(q) \/ React(q) \/ Proceed(q)
      PROVE  Inv' /\ \A p \in Pods : Disrupted(p)
  BY <1>t, <1>5, WorldStep, LoopKept
<1>6. CASE Tick \/ UNCHANGED vars
  <2>1. TypeOK' /\ UNCHANGED <<config, pods, loop, lost>>
    BY <1>t, <1>6, TickStep DEF vars, world, loop, TypeOK
  <2> QED
    BY <1>n, <2>1, LoopKept
<1>7. CASE Recommend \/ Scale
  BY <1>t, <1>n, <1>7, ChangeStep, LoopKept
<1> QED
  BY <1>1, <1>2, <1>3, <1>4, <1>5, <1>6, <1>7 DEF Next, Works

\* The type invariant of Updater holds in every state.
THEOREM UpdaterTypeCorrect == Spec => []TypeOK
<1>1. Inv => TypeOK
  BY DEF Inv
<1>2. Inv /\ [Next]_vars => Inv'
  BY Step
<1> QED
  BY <1>1, <1>2, Starts, PTL DEF Spec

(* CanEvict, CanInPlaceUpdate: no eviction of a running pod and no resize  *)
(* that counts leaves fewer pods than the budget allows, and none is       *)
(* evicted of a group below minReplicas.                                   *)
THEOREM WithinBudget == Spec => DisruptionsWithinBudget
<1>1. Inv /\ [Next]_vars => Inv'
  BY Step
<1>2. Inv /\ [Next]_vars =>
        [\A p \in Pods :
            /\ Evicts(p) \/ Resizes(p) =>
                  Cardinality(Running(pods')) + lost' - stats'.initiated >= Floor
            /\ Evicts(p) => Cardinality(Live(view)) >= config.minReplicas]_vars
  BY Step DEF Disrupted
<1> QED
  BY <1>1, <1>2, Starts, PTL DEF Spec, DisruptionsWithinBudget
=============================================================================
