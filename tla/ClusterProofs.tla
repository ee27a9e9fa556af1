---------------------------- MODULE ClusterProofs ----------------------------
(***************************************************************************)
(* The recommender's count of a VPA's pods and its links to aggregations   *)
(* are exact, for any pods, VPAs and groups and any changes.  Neither is   *)
(* inductive without the types, and the count is a natural number, which   *)
(* TypeOK says, only because it is exact: the three are proved together.   *)
(* That marked aggregations have a VPA follows from the links and from no  *)
(* two groups sharing a pointer.  That the count is the number of listed   *)
(* pods, and that a group's request was one of its pods', once a round has *)
(* loaded them, needs in addition what each loading phase leaves behind    *)
(* (LoadInv) and the order of loading: VPAs, pods, then samples.           *)
(***************************************************************************)
EXTENDS ClusterProperties, FiniteSetTheorems, TLAPS

Matching(f, selector) == {q \in Tracked(f) : f[q].labels \in selector}

Bit(b) == IF b THEN 1 ELSE 0

Counts(x, selector) == x # None /\ x.labels \in selector

(* Replacing one pod's entry changes the number of matching pods by what   *)
(* the old and the new entry count for: the loops that count pods one by   *)
(* one and GetMatchingPods cannot drift apart.                             *)
LEMMA RecountLemma ==
    ASSUME NEW f \in [Pods -> Pod \cup {None}], NEW p \in Pods,
           NEW x \in Pod \cup {None}, NEW selector \in SUBSET Groups,
           NEW h, h = [f EXCEPT ![p] = x]
    PROVE  /\ Cardinality(Matching(f, selector)) \in Nat
           /\ Counts(f[p], selector) => Cardinality(Matching(f, selector)) > 0
           /\ Cardinality(Matching(h, selector)) =
                Cardinality(Matching(f, selector))
                    - Bit(Counts(f[p], selector)) + Bit(Counts(x, selector))
<1> DEFINE M == Matching(f, selector)
           R == M \ {p}
           N == Matching(h, selector)
<1>1. M \subseteq Pods /\ IsFiniteSet(M)
  <2>1. M \subseteq Pods
    BY DEF Matching, Tracked
  <2> QED
    BY <2>1, FS_Subset, ClusterAssumption DEF ClusterAssumption
<1>2. IsFiniteSet(R) /\ Cardinality(M) \in Nat /\ Cardinality(R) \in Nat
  <2>1. IsFiniteSet(R)
    BY <1>1, FS_RemoveElement
  <2> QED
    BY <1>1, <2>1, FS_CardinalityType
<1>3. p \in M <=> Counts(f[p], selector)
  BY DEF Matching, Tracked, Counts
<1>4. p \in N <=> Counts(x, selector)
  BY DEF Matching, Tracked, Counts
<1>5. N \ {p} = R
  BY DEF Matching, Tracked
<1>6. Cardinality(M) = Cardinality(R) + Bit(Counts(f[p], selector))
  <2>1. CASE p \in M
    <3>1. Cardinality(R) = Cardinality(M) - 1
      BY <1>1, <2>1, FS_RemoveElement
    <3> QED
      BY <1>2, <1>3, <2>1, <3>1 DEF Bit
  <2>2. CASE p \notin M
    <3>1. Cardinality(R) = Cardinality(M)
      BY <2>2
    <3>2. Bit(Counts(f[p], selector)) = 0
      BY <1>3, <2>2 DEF Bit
    <3> HIDE DEF M, R, N
    <3> QED
      BY <1>2, <3>1, <3>2
  <2> QED
    BY <2>1, <2>2
<1>7. Cardinality(N) = Cardinality(R) + Bit(Counts(x, selector))
  <2>1. CASE p \in N
    <3>1. N = R \cup {p} /\ p \notin R
      BY <1>5, <2>1
    <3>2. Cardinality(N) = Cardinality(R) + 1
      BY <1>2, <3>1, FS_AddElement
    <3> QED
      BY <1>2, <1>4, <2>1, <3>2 DEF Bit
  <2>2. CASE p \notin N
    <3>1. Cardinality(N) = Cardinality(R)
      BY <1>5, <2>2
    <3>2. Bit(Counts(x, selector)) = 0
      BY <1>4, <2>2 DEF Bit
    <3> HIDE DEF M, R, N
    <3> QED
      BY <1>2, <3>1, <3>2
  <2> QED
    BY <2>1, <2>2
<1> HIDE DEF M, R, N
<1>8. Counts(f[p], selector) => Cardinality(M) > 0
  BY <1>2, <1>6 DEF Bit
<1>9. Cardinality(N) = Cardinality(M) - Bit(Counts(f[p], selector)) + Bit(Counts(x, selector))
  BY <1>2, <1>6, <1>7 DEF Bit
<1> QED
  BY <1>2, <1>8, <1>9 DEF M, N

\* removePodFromItsVpa and addPodToItsVpa touch nothing of a VPA but its count.
LEMMA AddPodLemma ==
    ASSUME NEW vpa \in Vpa, NEW g \in Groups
    PROVE  /\ AddPod(vpa, g) \in Vpa
           /\ AddPod(vpa, g).selector = vpa.selector
           /\ AddPod(vpa, g).uses = vpa.uses
           /\ AddPod(vpa, g).podCount = vpa.podCount + Bit(g \in vpa.selector)
<1>1. CASE g \in vpa.selector
  <2>1. AddPod(vpa, g) = [vpa EXCEPT !.podCount = vpa.podCount + 1]
    BY <1>1 DEF AddPod
  <2> QED
    BY <1>1, <2>1 DEF Vpa, Bit
<1>2. CASE g \notin vpa.selector
  BY <1>2 DEF AddPod, Vpa, Bit
<1> QED
  BY <1>1, <1>2

\* Taking a pod out of a VPA lowers its count and touches nothing else.
LEMMA RemovePodLemma ==
    ASSUME NEW vpa \in Vpa, NEW g \in Groups, g \in vpa.selector => vpa.podCount > 0
    PROVE  /\ RemovePod(vpa, g) \in Vpa
           /\ RemovePod(vpa, g).selector = vpa.selector
           /\ RemovePod(vpa, g).uses = vpa.uses
           /\ RemovePod(vpa, g).podCount = vpa.podCount - Bit(g \in vpa.selector)
<1>1. CASE g \in vpa.selector
  <2>1. RemovePod(vpa, g) = [vpa EXCEPT !.podCount = vpa.podCount - 1]
    BY <1>1 DEF RemovePod
  <2>2. vpa.podCount - 1 \in Nat
    BY <1>1 DEF Vpa
  <2> QED
    BY <1>1, <2>1, <2>2 DEF Vpa, Bit
<1>2. CASE g \notin vpa.selector
  BY <1>2 DEF RemovePod, Vpa, Bit
<1> QED
  BY <1>1, <1>2

\* Linking a new aggregation adds the pointer exactly where it matches.
LEMMA LinkedLemma ==
    ASSUME NEW vpa \in Vpa, NEW g \in Groups, NEW i \in Ids,
           aggs \in [Groups -> Ids \cup {None}],
           \A h \in Groups : vpa.uses[h] = IF h \in vpa.selector THEN aggs[h] ELSE None,
           i \in Candidates(g)
    PROVE  /\ Linked(vpa, g, i) \in Vpa
           /\ Linked(vpa, g, i).selector = vpa.selector
           /\ Linked(vpa, g, i).podCount = vpa.podCount
           /\ \A h \in Groups : Linked(vpa, g, i).uses[h] =
                IF h \in vpa.selector THEN Mapped(g, i)[h] ELSE None
<1>1. CASE aggs[g] # None
  <2>1. Linked(vpa, g, i) = vpa /\ Mapped(g, i) = aggs
    BY <1>1 DEF Linked, Mapped, Candidates
  <2> QED
    BY <2>1
<1>2. CASE aggs[g] = None /\ g \in vpa.selector
  <2>1. Linked(vpa, g, i) = [vpa EXCEPT !.uses = [vpa.uses EXCEPT ![g] = i]]
    BY <1>2 DEF Linked, UseAggregationIfMatching
  <2>2. [vpa.uses EXCEPT ![g] = i] \in [Groups -> Ids \cup {None}]
    BY DEF Vpa
  <2>3. \A h \in Groups : [vpa.uses EXCEPT ![g] = i][h] =
            IF h \in vpa.selector THEN Mapped(g, i)[h] ELSE None
    BY <1>2 DEF Vpa, Mapped
  <2>4. Linked(vpa, g, i).uses = [vpa.uses EXCEPT ![g] = i]
    BY <2>1 DEF Vpa
  <2>5. Linked(vpa, g, i) \in Vpa /\ Linked(vpa, g, i).selector = vpa.selector
        /\ Linked(vpa, g, i).podCount = vpa.podCount
    BY <2>1, <2>2 DEF Vpa
  <2> QED
    BY <2>3, <2>4, <2>5
<1>3. CASE aggs[g] = None /\ g \notin vpa.selector
  <2>1. Linked(vpa, g, i) = vpa
    BY <1>3 DEF Linked, UseAggregationIfMatching
  <2>2. \A h \in Groups : h \in vpa.selector => Mapped(g, i)[h] = aggs[h]
    BY <1>3 DEF Mapped
  <2> QED
    BY <2>1, <2>2
<1> QED
  BY <1>1, <1>2, <1>3

\* A collected aggregation leaves the map and every VPA that used it.
LEMMA DeleteAggregationsLemma ==
    ASSUME NEW vpa \in Vpa, NEW groups
    PROVE  /\ DeleteAggregations(vpa, groups) \in Vpa
           /\ DeleteAggregations(vpa, groups).selector = vpa.selector
           /\ DeleteAggregations(vpa, groups).podCount = vpa.podCount
           /\ \A h \in Groups : DeleteAggregations(vpa, groups).uses[h] =
                IF h \in groups THEN None ELSE vpa.uses[h]
<1> DEFINE u == [g \in Groups |-> IF g \in groups THEN None ELSE vpa.uses[g]]
<1>1. DeleteAggregations(vpa, groups) = [vpa EXCEPT !.uses = u]
  BY DEF DeleteAggregations
<1>2. u \in [Groups -> Ids \cup {None}]
  BY DEF Vpa
<1>3. \A h \in Groups : u[h] = IF h \in groups THEN None ELSE vpa.uses[h]
  OBVIOUS
<1> HIDE DEF u
<1> QED
  BY <1>1, <1>2, <1>3 DEF Vpa

\* The inductive invariant, in the form its proof needs.
CountExact(v) == vpas[v].podCount = Cardinality(Matching(pods, vpas[v].selector))

LinkExact(v) ==
    \A g \in Groups : vpas[v].uses[g] = IF g \in vpas[v].selector THEN aggs[g] ELSE None

Exact == \A v \in VPAs : vpas[v] # None => CountExact(v) /\ LinkExact(v)

IInv == TypeOK /\ Exact

\* The counts and the links are exact, as the properties say.
LEMMA ExactLemma ==
    ASSUME TypeOK
    PROVE  Exact <=> PodCountExact /\ LinksExact
<1>1. \A v \in VPAs : vpas[v] # None <=> v \in Tracked(vpas)
  BY DEF Tracked, TypeOK
<1>2. Tracked(vpas) \subseteq VPAs
  BY DEF Tracked, TypeOK
<1> QED
  BY <1>1, <1>2 DEF Exact, CountExact, LinkExact, PodCountExact, LinksExact, MatchingPods, Matching

\* Nothing is loaded at the start.
LEMMA InitLemma == Init => IInv
<1> SUFFICES ASSUME Init PROVE IInv
  OBVIOUS
<1>1. PICK s \in Scenarios :
        /\ listedPods = s.start.pods /\ listedVPAs = s.start.vpas
        /\ memorySaver = s.start.memorySaver /\ steps = s.steps
  BY DEF Init
<1>2. s \in [start : Start, steps : Budget]
  BY ClusterAssumption DEF ClusterAssumption
<1>3. NewAggregate \in Aggregate
  BY DEF NewAggregate, Aggregate
<1>4. TypeOK
  BY <1>1, <1>2, <1>3 DEF Init, TypeOK, Start, Phases
<1> QED
  BY <1>4 DEF Init, IInv, Exact

\* The operators the actions are built from keep the types.
LEMMA ObjectsTyped ==
    ASSUME objects \in [Ids -> Aggregate]
    PROVE  /\ \A ids : MarkNotAutoscaled(ids) \in [Ids -> Aggregate]
           /\ \A g \in Groups, i \in Ids : Created(g, i) \in [Ids -> Aggregate]
<1>1. ASSUME NEW ids PROVE MarkNotAutoscaled(ids) \in [Ids -> Aggregate]
  BY DEF MarkNotAutoscaled, Aggregate
<1>2. ASSUME NEW g \in Groups, NEW i \in Ids PROVE Created(g, i) \in [Ids -> Aggregate]
  <2>1. ASSUME NEW b \in BOOLEAN PROVE [NewAggregate EXCEPT !.underVPA = b] \in Aggregate
    BY DEF NewAggregate, Aggregate
  <2>2. (MatchingVPAs(g) # {}) \in BOOLEAN
    OBVIOUS
  <2>3. [NewAggregate EXCEPT !.underVPA = MatchingVPAs(g) # {}] \in Aggregate
    BY <2>1, <2>2
  <2> QED
    BY <2>3 DEF Created
<1> QED
  BY <1>1, <1>2

\* Requests are pairs of groups.
LEMMA RequestsTyped ==
    ASSUME requests \subseteq Groups \X Groups
    PROVE  \A g \in Groups : ObserveRequest(g) \subseteq Groups \X Groups
BY DEF ObserveRequest, Observed

\* Mapping a group to a pointer keeps the map typed.
LEMMA MappedTyped ==
    ASSUME aggs \in [Groups -> Ids \cup {None}]
    PROVE  \A g \in Groups, i \in Ids : Mapped(g, i) \in [Groups -> Ids \cup {None}]
BY DEF Mapped

\* None is no object.
LEMMA NoneLemma == None \notin Vpa /\ None \notin Pod /\ None \notin PodSpec /\ None \notin VpaSpec
BY ClusterAssumption DEF ClusterAssumption

\* Spending a step leaves a budget.
LEMMA SpendLemma ==
    ASSUME steps \in Budget, NEW kind, Spend(kind)
    PROVE  steps' \in Budget
<1>1. steps' = [steps EXCEPT !.left = steps.left - 1] /\ steps.left > 0
  BY DEF Spend
<1>2. steps.left \in Nat /\ steps.left - 1 \in Nat
  BY <1>1 DEF Budget
<1> QED
  BY <1>1, <1>2 DEF Budget

\* A step that leaves pods, VPAs and the map alone keeps the counts and links.
LEMMA ExactKept ==
    ASSUME Exact, UNCHANGED <<pods, vpas, aggs>>
    PROVE  Exact'
BY DEF Exact, CountExact, LinkExact, Matching, Tracked

\* A pod is created, relabelled or deleted in the cluster.
LEMMA PodChangesLemma ==
    ASSUME IInv, NEW p \in Pods, PodChanges(p)
    PROVE  IInv'
<1>1. steps' \in Budget
  BY SpendLemma DEF PodChanges, IInv, TypeOK
<1>2. listedPods' \in [Pods -> PodSpec \cup {None}]
  <2> USE DEF PodSpec, TypeOK, IInv
  <2>1. CASE \E g \in Groups : listedPods' = [listedPods EXCEPT ![p] = [labels |-> g, active |-> TRUE]]
    BY <2>1
  <2>2. CASE listedPods[p] # None /\ \E g \in Groups : listedPods' = [listedPods EXCEPT ![p].labels = g]
    BY <2>2
  <2>3. CASE listedPods[p] # None /\ listedPods' = [listedPods EXCEPT ![p].active = FALSE]
    BY <2>3
  <2>4. CASE listedPods' = [listedPods EXCEPT ![p] = None]
    BY <2>4
  <2> QED
    BY <2>1, <2>2, <2>3, <2>4 DEF PodChanges
<1>3. UNCHANGED <<listedVPAs, memorySaver, cluster, phase, todo>>
  BY DEF PodChanges
<1> QED
  BY <1>1, <1>2, <1>3, ExactKept DEF IInv, TypeOK, cluster

\* A VPA is created, edited or deleted in the cluster.
LEMMA VPAChangesLemma ==
    ASSUME IInv, NEW v \in VPAs, VPAChanges(v)
    PROVE  IInv'
<1>1. steps' \in Budget
  BY SpendLemma DEF VPAChanges, IInv, TypeOK
<1>2. listedVPAs' \in [VPAs -> VpaSpec \cup {None}]
  BY DEF VPAChanges, IInv, TypeOK
<1>3. UNCHANGED <<listedPods, memorySaver, cluster, phase, todo>>
  BY DEF VPAChanges
<1> QED
  BY <1>1, <1>2, <1>3, ExactKept DEF IInv, TypeOK, cluster

\* An aggregation expires.
LEMMA ExpireLemma ==
    ASSUME IInv, NEW i \in Ids, Expire(i)
    PROVE  IInv'
<1>1. steps' \in Budget
  BY SpendLemma DEF Expire, IInv, TypeOK
<1>2. objects' \in [Ids -> Aggregate]
  BY DEF Expire, IInv, TypeOK, Aggregate
<1>3. UNCHANGED <<inputs, pods, vpas, aggs, requests, phase, todo>>
  BY DEF Expire
<1> QED
  BY <1>1, <1>2, <1>3, ExactKept DEF IInv, TypeOK, inputs

\* The steps of the cycle that move from one loop to the next.
LEMMA PhasesLemma ==
    ASSUME IInv,
           \/ LoadVPAs \/ VPAsAdded \/ VPAsLoaded \/ LoadPods
           \/ PodsDeleted \/ PodsLoaded \/ EndCycle \/ \E p \in Pods : SkipPod(p)
    PROVE  IInv'
<1>1. UNCHANGED <<inputs, cluster>>
  BY DEF LoadVPAs, VPAsAdded, VPAsLoaded, LoadPods, PodsDeleted, PodsLoaded, EndCycle, SkipPod
<1>2. phase' \in Phases
  BY DEF LoadVPAs, VPAsAdded, VPAsLoaded, LoadPods, PodsDeleted, PodsLoaded, EndCycle,
         SkipPod, Phases, IInv, TypeOK
<1>3. todo' \subseteq Pods \cup VPAs
  BY DEF LoadVPAs, VPAsAdded, VPAsLoaded, LoadPods, PodsDeleted, PodsLoaded, EndCycle,
         SkipPod, Tracked, IInv, TypeOK
<1>4. steps' \in Budget
  <2>1. UNCHANGED steps \/ Spend("fail")
    BY DEF LoadVPAs, VPAsAdded, VPAsLoaded, LoadPods, PodsDeleted, PodsLoaded, EndCycle, SkipPod
  <2> QED
    BY <2>1, SpendLemma DEF IInv, TypeOK
<1> QED
  BY <1>1, <1>2, <1>3, <1>4, ExactKept DEF IInv, TypeOK, inputs, cluster

\* A VPA that is added starts with the pods counted and the matching links.
LEMMA AddOrUpdateVpaLemma ==
    ASSUME IInv, NEW v \in VPAs, AddOrUpdateVpa(v), v \in Tracked(listedVPAs)
    PROVE  IInv'
<1> DEFINE selector == listedVPAs[v].selector
           uses == [g \in Groups |-> IF g \in selector THEN aggs[g] ELSE None]
           new == [selector |-> selector,
                   podCount |-> Cardinality(MatchingPods(selector)), uses |-> uses]
           left == IF vpas[v] = None THEN {} ELSE Uses(v)
<1>1. selector \in SUBSET Groups
  BY DEF Tracked, IInv, TypeOK, VpaSpec
<1>2. MatchingPods(selector) = Matching(pods, selector)
  BY DEF MatchingPods, Matching
<1>3. Cardinality(MatchingPods(selector)) \in Nat
  <2>1. MatchingPods(selector) \subseteq Pods
    BY DEF MatchingPods, Tracked, IInv, TypeOK
  <2> QED
    BY <2>1, FS_Subset, FS_CardinalityType, ClusterAssumption DEF ClusterAssumption
<1>4. uses \in [Groups -> Ids \cup {None}]
  BY DEF IInv, TypeOK
<1>5. new \in Vpa
  BY <1>1, <1>3, <1>4 DEF Vpa
<1>6. UNCHANGED <<inputs, pods, aggs, requests, phase, steps>> /\ todo' = todo \ {v}
  BY DEF AddOrUpdateVpa
<1>7. CASE UNCHANGED <<vpas, objects>>
  <2>1. Exact'
    BY <1>6, <1>7, ExactKept DEF IInv
  <2> QED
    BY <1>6, <1>7, <2>1 DEF IInv, TypeOK, inputs
<1>8. CASE /\ vpas' = [vpas EXCEPT ![v] = new]
           /\ objects' = [i \in Ids |->
                 IF \E g \in selector : aggs[g] = i
                 THEN [MarkNotAutoscaled(left)[i] EXCEPT !.underVPA = TRUE]
                 ELSE MarkNotAutoscaled(left)[i]]
  <2>1. objects' \in [Ids -> Aggregate]
    <3>1. MarkNotAutoscaled(left) \in [Ids -> Aggregate]
      BY ObjectsTyped DEF IInv, TypeOK
    <3> HIDE DEF left, selector
    <3> QED
      BY <1>8, <3>1 DEF Aggregate
  <2>2. vpas' \in [VPAs -> Vpa \cup {None}]
    <3> HIDE DEF new
    <3> QED
      BY <1>5, <1>8 DEF IInv, TypeOK
  <2>3. TypeOK'
    BY <1>6, <2>1, <2>2 DEF IInv, TypeOK, inputs
  <2>4. vpas'[v] = new
    BY <1>8 DEF IInv, TypeOK
  <2>5. CountExact(v)' /\ LinkExact(v)'
    BY <1>2, <1>6, <2>4 DEF CountExact, LinkExact, Matching, Tracked
  <2>6. ASSUME NEW w \in VPAs \ {v}, vpas'[w] # None PROVE CountExact(w)' /\ LinkExact(w)'
    <3>1. vpas'[w] = vpas[w]
      BY <1>8 DEF IInv, TypeOK
    <3>2. CountExact(w) /\ LinkExact(w)
      BY <2>6, <3>1 DEF IInv, Exact
    <3> QED
      BY <1>6, <3>1, <3>2 DEF CountExact, LinkExact, Matching, Tracked
  <2> QED
    BY <2>3, <2>5, <2>6 DEF IInv, Exact
<1> QED
  BY <1>7, <1>8 DEF AddOrUpdateVpa

\* A VPA that is gone is removed and its links with it.
LEMMA DeleteVpaLemma ==
    ASSUME IInv, NEW v \in VPAs, DeleteVpa(v)
    PROVE  IInv'
<1>1. objects' \in [Ids -> Aggregate]
  BY ObjectsTyped DEF DeleteVpa, IInv, TypeOK
<1>2. UNCHANGED <<inputs, pods, aggs, requests, phase, todo, steps>>
      /\ vpas' = [vpas EXCEPT ![v] = None]
  BY DEF DeleteVpa
<1>3. TypeOK'
  BY <1>1, <1>2 DEF IInv, TypeOK, inputs
<1>4. ASSUME NEW w \in VPAs, vpas'[w] # None PROVE CountExact(w)' /\ LinkExact(w)'
  <2>1. vpas'[w] = vpas[w]
    BY <1>2, <1>4 DEF IInv, TypeOK
  <2>2. CountExact(w) /\ LinkExact(w)
    BY <1>4, <2>1 DEF IInv, Exact
  <2> QED
    BY <1>2, <2>1, <2>2 DEF CountExact, LinkExact, Matching, Tracked
<1> QED
  BY <1>3, <1>4 DEF IInv, Exact

\* A pod that goes is taken out of every VPA that counted it.
LEMMA DeletePodLemma ==
    ASSUME IInv, NEW p \in Pods, DeletePod(p)
    PROVE  IInv'
<1> DEFINE g == pods[p].labels
<1>1. pods[p] # None /\ pods[p] \in Pod /\ g \in Groups
  BY DEF DeletePod, IInv, TypeOK, Pod
<1>2. /\ pods' = [pods EXCEPT ![p] = None]
      /\ vpas' = [v \in VPAs |-> IF vpas[v] = None THEN None ELSE RemovePod(vpas[v], g)]
      /\ UNCHANGED <<inputs, aggs, objects, requests, phase, todo, steps>>
  BY DEF DeletePod
<1>3. pods' \in [Pods -> Pod \cup {None}]
  BY <1>2 DEF IInv, TypeOK
<1>4. ASSUME NEW v \in VPAs, vpas[v] # None
      PROVE  vpas'[v] \in Vpa /\ CountExact(v)' /\ LinkExact(v)'
  <2>1. vpas[v] \in Vpa /\ CountExact(v) /\ LinkExact(v) /\ vpas[v].selector \in SUBSET Groups
    BY <1>4 DEF IInv, TypeOK, Exact, Vpa
  <2>2. vpas'[v] = RemovePod(vpas[v], g)
    BY <1>2, <1>4
  <2>3. /\ Counts(pods[p], vpas[v].selector) => Cardinality(Matching(pods, vpas[v].selector)) > 0
        /\ Cardinality(Matching(pods, vpas[v].selector)) \in Nat
        /\ Cardinality(Matching(pods', vpas[v].selector)) =
             Cardinality(Matching(pods, vpas[v].selector))
               - Bit(Counts(pods[p], vpas[v].selector)) + Bit(Counts(None, vpas[v].selector))
    <3>1. pods \in [Pods -> Pod \cup {None}] /\ None \in Pod \cup {None}
      BY DEF IInv, TypeOK
    <3>2. pods' = [pods EXCEPT ![p] = None]
      BY <1>2
    <3> QED
      BY <2>1, <3>1, <3>2, RecountLemma
  <2>4. Counts(pods[p], vpas[v].selector) <=> g \in vpas[v].selector
    BY <1>1 DEF Counts
  <2>5. /\ RemovePod(vpas[v], g) \in Vpa
        /\ RemovePod(vpas[v], g).selector = vpas[v].selector
        /\ RemovePod(vpas[v], g).uses = vpas[v].uses
        /\ RemovePod(vpas[v], g).podCount = vpas[v].podCount - Bit(g \in vpas[v].selector)
    <3> HIDE DEF g
    <3> QED
      BY <1>1, <2>1, <2>3, <2>4, RemovePodLemma DEF CountExact
  <2>6. Bit(Counts(None, vpas[v].selector)) = 0
    BY DEF Counts, Bit
  <2>7. Cardinality(Matching(pods', vpas[v].selector)) = RemovePod(vpas[v], g).podCount
    <3>1. Bit(Counts(pods[p], vpas[v].selector)) = Bit(g \in vpas[v].selector)
      BY <2>4 DEF Bit
    <3>2. Bit(g \in vpas[v].selector) \in {0, 1}
      BY DEF Bit
    <3> HIDE DEF g
    <3> QED
      BY <2>1, <2>3, <2>5, <2>6, <3>1, <3>2 DEF CountExact
  <2>8. CountExact(v)'
    BY <2>2, <2>5, <2>7 DEF CountExact, Matching, Tracked
  <2>9. LinkExact(v)'
    BY <1>2, <2>1, <2>2, <2>5 DEF LinkExact
  <2> QED
    BY <2>2, <2>5, <2>8, <2>9
<1>5. vpas' \in [VPAs -> Vpa \cup {None}]
  <2>1. \A v \in VPAs : vpas'[v] \in Vpa \cup {None}
    BY <1>2, <1>4
  <2>2. vpas' = [v \in VPAs |-> vpas'[v]]
    BY <1>2
  <2> QED
    BY <2>1, <2>2
<1>6. \A v \in VPAs : vpas'[v] # None => vpas[v] # None
  BY <1>2
<1>7. TypeOK'
  BY <1>2, <1>3, <1>5 DEF IInv, TypeOK, inputs
<1> QED
  BY <1>4, <1>6, <1>7 DEF IInv, Exact

(* A listed pod is counted in the VPAs of its labels, once: a new one is   *)
(* added, a relabelled one moves, another leaves the counts alone.         *)
LEMMA RecountedLemma ==
    ASSUME IInv, NEW p \in Pods, p \in Tracked(listedPods),
           NEW v \in VPAs, vpas[v] # None
    PROVE  /\ Recounted(vpas[v], p) \in Vpa
           /\ Recounted(vpas[v], p).selector = vpas[v].selector
           /\ Recounted(vpas[v], p).uses = vpas[v].uses
           /\ Recounted(vpas[v], p).podCount = vpas[v].podCount
                - Bit(Counts(pods[p], vpas[v].selector))
                + Bit(listedPods[p].labels \in vpas[v].selector)
<1> DEFINE vpa == vpas[v]
           new == listedPods[p].labels
           old == pods[p].labels
<1>1. vpa \in Vpa /\ CountExact(v) /\ vpa.selector \in SUBSET Groups /\ vpa.podCount \in Nat
  BY DEF IInv, TypeOK, Exact, Vpa
<1>2. new \in Groups
  BY DEF IInv, TypeOK, Tracked, PodSpec
<1>3. pods[p] # None => old \in Groups
  BY DEF IInv, TypeOK, Pod
<1>4. Counts(pods[p], vpa.selector) => vpa.podCount > 0
  <2>1. pods \in [Pods -> Pod \cup {None}] /\ pods = [pods EXCEPT ![p] = pods[p]]
    BY DEF IInv, TypeOK
  <2>2. pods[p] \in Pod \cup {None}
    BY <2>1
  <2>3. Counts(pods[p], vpa.selector) => Cardinality(Matching(pods, vpa.selector)) > 0
    BY <1>1, <2>1, <2>2, RecountLemma
  <2> QED
    BY <1>1, <2>3 DEF CountExact
<1>5. CASE pods[p] = None
  <2>1. Recounted(vpa, p) = AddPod(vpa, new)
    BY <1>5 DEF Recounted
  <2>2. Bit(Counts(pods[p], vpa.selector)) = 0
    BY <1>5 DEF Counts, Bit
  <2> HIDE DEF vpa, new
  <2>3. /\ AddPod(vpa, new) \in Vpa
        /\ AddPod(vpa, new).selector = vpa.selector
        /\ AddPod(vpa, new).uses = vpa.uses
        /\ AddPod(vpa, new).podCount = vpa.podCount + Bit(new \in vpa.selector)
    BY <1>1, <1>2, AddPodLemma
  <2>4. Bit(new \in vpa.selector) \in {0, 1}
    BY DEF Bit
  <2>5. Recounted(vpa, p).podCount = vpa.podCount - Bit(Counts(pods[p], vpa.selector))
                                       + Bit(new \in vpa.selector)
    BY <1>1, <2>1, <2>2, <2>3, <2>4
  <2> QED
    BY <2>1, <2>3, <2>5 DEF vpa, new
<1>6. CASE Relabelled(p)
  <2>1. Recounted(vpa, p) = AddPod(RemovePod(vpa, old), new) /\ pods[p] # None
    BY <1>6 DEF Recounted, Relabelled
  <2>2. Bit(Counts(pods[p], vpa.selector)) = Bit(old \in vpa.selector)
        /\ (Counts(pods[p], vpa.selector) <=> old \in vpa.selector)
    BY <2>1 DEF Counts, Bit
  <2> DEFINE less == RemovePod(vpa, old)
  <2> HIDE DEF vpa, new, old
  <2>3. /\ less \in Vpa
        /\ less.selector = vpa.selector
        /\ less.uses = vpa.uses
        /\ less.podCount = vpa.podCount - Bit(old \in vpa.selector)
    BY <1>1, <1>3, <1>4, <2>1, <2>2, RemovePodLemma
  <2>4. less.podCount \in Nat
    BY <2>3 DEF Vpa
  <2> HIDE DEF less
  <2>5. /\ AddPod(less, new) \in Vpa
        /\ AddPod(less, new).selector = less.selector
        /\ AddPod(less, new).uses = less.uses
        /\ AddPod(less, new).podCount = less.podCount + Bit(new \in less.selector)
    BY <1>2, <2>3, AddPodLemma
  <2>6. AddPod(less, new).podCount = vpa.podCount - Bit(Counts(pods[p], vpa.selector))
                                       + Bit(new \in vpa.selector)
    BY <2>2, <2>3, <2>5
  <2> QED
    BY <2>1, <2>3, <2>5, <2>6 DEF vpa, new, less
<1>7. CASE pods[p] # None /\ ~Relabelled(p)
  <2>1. Recounted(vpa, p) = vpa /\ old = new
    BY <1>7 DEF Recounted, Relabelled
  <2>2. Bit(Counts(pods[p], vpa.selector)) = Bit(new \in vpa.selector)
    BY <1>7, <2>1 DEF Counts, Bit
  <2>3. Bit(new \in vpa.selector) \in {0, 1}
    BY DEF Bit
  <2> HIDE DEF vpa, new, old
  <2>4. vpa.podCount = vpa.podCount - Bit(Counts(pods[p], vpa.selector))
                         + Bit(new \in vpa.selector)
    BY <1>1, <2>2, <2>3
  <2> QED
    BY <1>1, <2>1, <2>4 DEF vpa, new
<1> QED
  BY <1>5, <1>6, <1>7

\* A listed pod is added, or moves to another group.
LEMMA AddOrUpdatePodLemma ==
    ASSUME IInv, NEW p \in Pods, NEW i \in Ids, AddOrUpdatePod(p, i), p \in Tracked(listedPods)
    PROVE  IInv'
<1> DEFINE new == listedPods[p].labels
           x == [labels |-> new, active |-> listedPods[p].active, aggregator |-> Aggregator(p, i)]
<1>1. /\ pods' = [pods EXCEPT ![p] = x]
      /\ aggs' = Mapped(new, i)
      /\ objects' = Created(new, i)
      /\ vpas' = [v \in VPAs |-> IF vpas[v] = None THEN None
                                 ELSE Linked(Recounted(vpas[v], p), new, i)]
      /\ requests' = ObserveRequest(new)
      /\ i \in Candidates(new)
      /\ todo' = todo \ {p}
      /\ UNCHANGED <<inputs, phase, steps>>
  BY DEF AddOrUpdatePod
<1>2. listedPods[p] \in PodSpec /\ new \in Groups
  BY DEF IInv, TypeOK, Tracked, PodSpec
<1>3. Aggregator(p, i) \in Ids \cup {Proxy}
  BY DEF Aggregator, IInv, TypeOK, Pod
<1>4. x \in Pod /\ x # None
  <2>1. x \in Pod
    BY <1>2, <1>3 DEF Pod, PodSpec
  <2> QED
    BY <2>1, NoneLemma
<1>5. pods' \in [Pods -> Pod \cup {None}]
  BY <1>1, <1>4 DEF IInv, TypeOK
<1>6. aggs' \in [Groups -> Ids \cup {None}] /\ objects' \in [Ids -> Aggregate]
      /\ requests' \subseteq Groups \X Groups
  BY <1>1, <1>2, MappedTyped, ObjectsTyped, RequestsTyped DEF IInv, TypeOK
<1>7. ASSUME NEW v \in VPAs, vpas[v] # None
      PROVE  vpas'[v] \in Vpa /\ CountExact(v)' /\ LinkExact(v)'
  <2> DEFINE r == Recounted(vpas[v], p)
  <2>1. vpas[v] \in Vpa /\ CountExact(v) /\ LinkExact(v) /\ vpas[v].selector \in SUBSET Groups
    BY <1>7 DEF IInv, TypeOK, Exact, Vpa
  <2>2. /\ r \in Vpa /\ r.selector = vpas[v].selector /\ r.uses = vpas[v].uses
        /\ r.podCount = vpas[v].podCount - Bit(Counts(pods[p], vpas[v].selector))
                                         + Bit(new \in vpas[v].selector)
    BY <1>7, RecountedLemma
  <2>3. vpas'[v] = Linked(r, new, i)
    BY <1>1, <1>7
  <2> HIDE DEF r
  <2>4. \A h \in Groups : r.uses[h] = IF h \in r.selector THEN aggs[h] ELSE None
    BY <2>1, <2>2 DEF LinkExact
  <2>5. aggs \in [Groups -> Ids \cup {None}]
    BY DEF IInv, TypeOK
  <2>6. /\ Linked(r, new, i) \in Vpa
        /\ Linked(r, new, i).selector = r.selector
        /\ Linked(r, new, i).podCount = r.podCount
        /\ \A h \in Groups : Linked(r, new, i).uses[h] =
             IF h \in r.selector THEN Mapped(new, i)[h] ELSE None
    <3> HIDE DEF new
    <3> QED
      BY <1>1, <1>2, <2>2, <2>4, <2>5, LinkedLemma
  <2>7. Cardinality(Matching(pods', vpas[v].selector)) =
             Cardinality(Matching(pods, vpas[v].selector))
               - Bit(Counts(pods[p], vpas[v].selector)) + Bit(Counts(x, vpas[v].selector))
    <3>1. pods \in [Pods -> Pod \cup {None}] /\ x \in Pod \cup {None}
      BY <1>4 DEF IInv, TypeOK
    <3>2. pods' = [pods EXCEPT ![p] = x]
      BY <1>1
    <3> HIDE DEF x
    <3> QED
      BY <2>1, <3>1, <3>2, RecountLemma
  <2>8. Bit(Counts(x, vpas[v].selector)) = Bit(new \in vpas[v].selector)
    BY <1>4 DEF Counts, Bit
  <2>9. vpas'[v].podCount = Cardinality(Matching(pods', vpas'[v].selector))
    <3> HIDE DEF x, new
    <3> QED
      BY <2>1, <2>2, <2>3, <2>6, <2>7, <2>8 DEF CountExact
  <2>10. CountExact(v)'
    BY <2>9 DEF CountExact, Matching, Tracked
  <2>11. LinkExact(v)'
    BY <1>1, <2>2, <2>3, <2>6 DEF LinkExact
  <2> QED
    BY <2>3, <2>6, <2>10, <2>11
<1>8. vpas' \in [VPAs -> Vpa \cup {None}]
  <2>1. \A v \in VPAs : vpas'[v] \in Vpa \cup {None}
    BY <1>1, <1>7
  <2>2. vpas' = [v \in VPAs |-> vpas'[v]]
    BY <1>1
  <2> QED
    BY <2>1, <2>2
<1>9. \A v \in VPAs : vpas'[v] # None => vpas[v] # None
  BY <1>1
<1>10. TypeOK'
  BY <1>1, <1>5, <1>6, <1>8 DEF IInv, TypeOK, inputs
<1> QED
  BY <1>7, <1>9, <1>10 DEF IInv, Exact

\* A sample may create the aggregation it goes to.
LEMMA AddSampleLemma ==
    ASSUME IInv, NEW p \in Pods, NEW i \in Ids, AddSample(p, i)
    PROVE  IInv'
<1> DEFINE g == pods[p].labels
<1>1. pods[p] \in Pod /\ g \in Groups
  BY DEF AddSample, IInv, TypeOK, Pod
<1>2. UNCHANGED <<inputs, pods, requests, phase, todo, steps>>
  BY DEF AddSample
<1>3. CASE pods[p].aggregator # Proxy
  <2>1. objects' = [objects EXCEPT ![i].sampled = TRUE, ![i].fresh = TRUE]
        /\ UNCHANGED <<aggs, vpas>>
    BY <1>3 DEF AddSample
  <2>2. objects' \in [Ids -> Aggregate]
    BY <2>1 DEF IInv, TypeOK, Aggregate
  <2> QED
    BY <1>2, <2>1, <2>2, ExactKept DEF IInv, TypeOK, inputs
<1>4. CASE pods[p].aggregator = Proxy
  <2>1. /\ i \in Candidates(g)
        /\ aggs' = Mapped(g, i)
        /\ objects' = [Created(g, i) EXCEPT ![i].sampled = TRUE, ![i].fresh = TRUE]
        /\ vpas' = [v \in VPAs |-> IF vpas[v] = None THEN None ELSE Linked(vpas[v], g, i)]
    BY <1>4 DEF AddSample
  <2>2. objects' \in [Ids -> Aggregate]
    <3>1. Created(g, i) \in [Ids -> Aggregate]
      BY <1>1, ObjectsTyped DEF IInv, TypeOK
    <3> QED
      BY <2>1, <3>1 DEF Aggregate
  <2>3. aggs' \in [Groups -> Ids \cup {None}]
    BY <1>1, <2>1, MappedTyped DEF IInv, TypeOK
  <2>4. ASSUME NEW v \in VPAs, vpas[v] # None
        PROVE  vpas'[v] \in Vpa /\ CountExact(v)' /\ LinkExact(v)'
    <3>1. vpas[v] \in Vpa /\ CountExact(v) /\ LinkExact(v)
      BY <2>4 DEF IInv, TypeOK, Exact
    <3>2. /\ Linked(vpas[v], g, i) \in Vpa
          /\ Linked(vpas[v], g, i).selector = vpas[v].selector
          /\ Linked(vpas[v], g, i).podCount = vpas[v].podCount
          /\ \A h \in Groups : Linked(vpas[v], g, i).uses[h] =
               IF h \in vpas[v].selector THEN Mapped(g, i)[h] ELSE None
      <4>1. aggs \in [Groups -> Ids \cup {None}]
        BY DEF IInv, TypeOK
      <4>2. \A h \in Groups : vpas[v].uses[h] = IF h \in vpas[v].selector THEN aggs[h] ELSE None
        BY <3>1 DEF LinkExact
      <4> HIDE DEF g
      <4> QED
        BY <1>1, <2>1, <3>1, <4>1, <4>2, LinkedLemma
    <3>3. vpas'[v] = Linked(vpas[v], g, i)
      BY <2>1, <2>4
    <3>4. CountExact(v)'
      BY <1>2, <3>1, <3>2, <3>3 DEF CountExact, Matching, Tracked
    <3>5. LinkExact(v)'
      BY <2>1, <3>2, <3>3 DEF LinkExact
    <3> QED
      BY <3>2, <3>3, <3>4, <3>5
  <2>5. vpas' \in [VPAs -> Vpa \cup {None}]
    <3>1. \A v \in VPAs : vpas'[v] \in Vpa \cup {None}
      BY <2>1, <2>4
    <3>2. vpas' = [v \in VPAs |-> vpas'[v]]
      BY <2>1
    <3> QED
      BY <3>1, <3>2
  <2>6. \A v \in VPAs : vpas'[v] # None => vpas[v] # None
    BY <2>1
  <2>7. TypeOK'
    BY <1>2, <2>2, <2>3, <2>5 DEF IInv, TypeOK, inputs
  <2> QED
    BY <2>4, <2>6, <2>7 DEF IInv, Exact
<1> QED
  BY <1>3, <1>4

\* Expired aggregations are unmapped and unlinked.
LEMMA GarbageCollectLemma ==
    ASSUME IInv, GarbageCollect
    PROVE  IInv'
<1>1. PICK gone \in SUBSET Groups :
        /\ aggs' = [g \in Groups |-> IF g \in gone THEN None ELSE aggs[g]]
        /\ \E unlinked : objects' = MarkNotAutoscaled(unlinked)
        /\ vpas' = [v \in VPAs |-> IF vpas[v] = None THEN None
                                   ELSE DeleteAggregations(vpas[v], gone)]
        /\ requests' = {r \in requests : r[1] \notin gone /\ r[2] \notin gone}
  BY DEF GarbageCollect, Obsolete
<1>2. UNCHANGED <<inputs, pods, todo, steps>> /\ phase' \in Phases
  BY DEF GarbageCollect, Phases
<1>3. objects' \in [Ids -> Aggregate] /\ aggs' \in [Groups -> Ids \cup {None}]
      /\ requests' \subseteq Groups \X Groups
  BY <1>1, ObjectsTyped DEF IInv, TypeOK
<1>4. ASSUME NEW v \in VPAs, vpas[v] # None
      PROVE  vpas'[v] \in Vpa /\ CountExact(v)' /\ LinkExact(v)'
  <2>1. vpas[v] \in Vpa /\ CountExact(v) /\ LinkExact(v)
    BY <1>4 DEF IInv, TypeOK, Exact
  <2>2. vpas'[v] = DeleteAggregations(vpas[v], gone)
    BY <1>1, <1>4
  <2>3. /\ vpas'[v] \in Vpa
        /\ vpas'[v].selector = vpas[v].selector
        /\ vpas'[v].podCount = vpas[v].podCount
        /\ \A h \in Groups : vpas'[v].uses[h] = IF h \in gone THEN None ELSE vpas[v].uses[h]
    BY <2>1, <2>2, DeleteAggregationsLemma
  <2>4. CountExact(v)'
    BY <1>2, <2>1, <2>3 DEF CountExact, Matching, Tracked
  <2>5. LinkExact(v)'
    BY <1>1, <2>1, <2>3 DEF LinkExact
  <2> QED
    BY <2>3, <2>4, <2>5
<1>5. vpas' \in [VPAs -> Vpa \cup {None}]
  <2>1. \A v \in VPAs : vpas'[v] \in Vpa \cup {None}
    BY <1>1, <1>4
  <2>2. vpas' = [v \in VPAs |-> vpas'[v]]
    BY <1>1
  <2> QED
    BY <2>1, <2>2
<1>6. \A v \in VPAs : vpas'[v] # None => vpas[v] # None
  BY <1>1
<1>7. TypeOK'
  BY <1>2, <1>3, <1>5 DEF IInv, TypeOK, inputs
<1> QED
  BY <1>4, <1>6, <1>7 DEF IInv, Exact

(* The loops' items are listed still when their turn comes, because the    *)
(* listing they go through is one snapshot.                                *)
TodoListed ==
    /\ phase = "addVPAs" => todo \subseteq Tracked(listedVPAs)
    /\ phase \in {"deletePods", "addPods"} => todo \subseteq Tracked(listedPods)

\* What a round has still to load is listed.
LEMMA TodoLemma ==
    ASSUME TodoListed, [Next]_vars
    PROVE  TodoListed'
<1> USE DEF TodoListed, Tracked
<1>1. CASE UNCHANGED vars
  BY <1>1 DEF vars, inputs
<1>2. CASE \E p \in Pods : PodChanges(p)
  BY <1>2 DEF PodChanges
<1>3. CASE \E v \in VPAs : VPAChanges(v)
  BY <1>3 DEF VPAChanges
<1>4. CASE \E i \in Ids : Expire(i)
  BY <1>4 DEF Expire
<1>5. CASE \E p \in Pods : DeletePod(p) \/ SkipPod(p)
  BY <1>5 DEF DeletePod, SkipPod, inputs
<1>6. CASE \E p \in Pods, i \in Ids : AddOrUpdatePod(p, i) \/ AddSample(p, i)
  BY <1>6 DEF AddOrUpdatePod, AddSample, inputs
<1>7. CASE \E v \in VPAs : AddOrUpdateVpa(v) \/ DeleteVpa(v)
  BY <1>7 DEF AddOrUpdateVpa, DeleteVpa, inputs
<1>8. CASE LoadVPAs \/ VPAsAdded \/ VPAsLoaded
  BY <1>8 DEF LoadVPAs, VPAsAdded, VPAsLoaded, inputs
<1>9. CASE LoadPods \/ PodsDeleted \/ PodsLoaded
  BY <1>9 DEF LoadPods, PodsDeleted, PodsLoaded, inputs
<1>10. CASE GarbageCollect \/ EndCycle
  BY <1>10 DEF GarbageCollect, EndCycle, inputs
<1> QED
  BY <1>1, <1>2, <1>3, <1>4, <1>5, <1>6, <1>7, <1>8, <1>9, <1>10 DEF Next

\* Every step keeps the counts and the links exact.
LEMMA StepLemma ==
    ASSUME IInv, TodoListed, [Next]_vars
    PROVE  IInv'
<1>1. CASE UNCHANGED vars
  BY <1>1, ExactKept DEF vars, inputs, cluster, IInv, TypeOK
<1>2. CASE \E p \in Pods : PodChanges(p)
  <2>1. PICK p \in Pods : PodChanges(p)
    BY <1>2
  <2> QED
    BY <2>1, PodChangesLemma
<1>3. CASE \E v \in VPAs : VPAChanges(v)
  BY <1>3, VPAChangesLemma
<1>4. CASE \E i \in Ids : Expire(i)
  BY <1>4, ExpireLemma
<1>5. CASE \E p \in Pods : DeletePod(p)
  BY <1>5, DeletePodLemma
<1>6. CASE \E p \in Pods, i \in Ids : AddOrUpdatePod(p, i)
  <2>1. PICK p \in Pods, i \in Ids : AddOrUpdatePod(p, i)
    BY <1>6
  <2>2. p \in Tracked(listedPods)
    BY <2>1 DEF AddOrUpdatePod, TodoListed
  <2> QED
    BY <2>1, <2>2, AddOrUpdatePodLemma
<1>7. CASE \E p \in Pods, i \in Ids : AddSample(p, i)
  BY <1>7, AddSampleLemma
<1>8. CASE \E v \in VPAs : AddOrUpdateVpa(v)
  <2>1. PICK v \in VPAs : AddOrUpdateVpa(v)
    BY <1>8
  <2>2. v \in Tracked(listedVPAs)
    BY <2>1 DEF AddOrUpdateVpa, TodoListed
  <2> QED
    BY <2>1, <2>2, AddOrUpdateVpaLemma
<1>9. CASE \E v \in VPAs : DeleteVpa(v)
  BY <1>9, DeleteVpaLemma
<1>10. CASE GarbageCollect
  BY <1>10, GarbageCollectLemma
<1>11. CASE \/ LoadVPAs \/ VPAsAdded \/ VPAsLoaded \/ LoadPods
            \/ PodsDeleted \/ PodsLoaded \/ EndCycle \/ \E p \in Pods : SkipPod(p)
  BY <1>11, PhasesLemma
<1> QED
  BY <1>1, <1>2, <1>3, <1>4, <1>5, <1>6, <1>7, <1>8, <1>9, <1>10, <1>11 DEF Next

\* The inductive invariant holds throughout.
LEMMA Invariant == Spec => [](IInv /\ TodoListed)
<1>1. Init => TodoListed
  BY DEF Init, TodoListed
<1> QED
  BY <1>1, InitLemma, StepLemma, TodoLemma, PTL DEF Spec

\* The state of the cluster model is typed, and no count of pods is ever negative.
THEOREM ClusterTypeCorrect == Spec => []TypeOK
BY Invariant, PTL DEF IInv

(* PodCount is what GetMatchingPods would count, after any sequence of     *)
(* pods coming, going and being relabelled and VPAs changing selectors.    *)
THEOREM PodCountsExact == Spec => []PodCountExact
<1>1. IInv => PodCountExact
  BY ExactLemma DEF IInv
<1> QED
  BY <1>1, Invariant, PTL

(* A VPA is linked to exactly the aggregations of the map that match it,   *)
(* however collections, new aggregations and new VPAs interleave.          *)
THEOREM LinksAreExact == Spec => []LinksExact
<1>1. IInv => LinksExact
  BY ExactLemma DEF IInv
<1> QED
  BY <1>1, Invariant, PTL

\* What VPAs match does not change when pods are added or sampled.
LEMMA AddKeepsSelectors ==
    ASSUME IInv, NEW p \in Pods, NEW i \in Ids, AddOrUpdatePod(p, i), p \in Tracked(listedPods),
           NEW v \in VPAs
    PROVE  /\ vpas[v] = None <=> vpas'[v] = None
           /\ vpas[v] # None => vpas'[v].selector = vpas[v].selector
<1> DEFINE new == listedPods[p].labels
           r == Recounted(vpas[v], p)
<1>1. /\ vpas' = [x \in VPAs |-> IF vpas[x] = None THEN None
                                 ELSE Linked(Recounted(vpas[x], p), new, i)]
      /\ i \in Candidates(new)
  BY DEF AddOrUpdatePod
<1>2. new \in Groups
  BY DEF IInv, TypeOK, Tracked, PodSpec
<1>3. CASE vpas[v] = None
  BY <1>1, <1>3
<1>4. CASE vpas[v] # None
  <2>1. r \in Vpa /\ r.selector = vpas[v].selector /\ r.uses = vpas[v].uses
    BY <1>4, RecountedLemma
  <2>2. vpas'[v] = Linked(r, new, i)
    BY <1>1, <1>4
  <2> HIDE DEF r, new
  <2>3. aggs \in [Groups -> Ids \cup {None}]
    BY DEF IInv, TypeOK
  <2>4. \A h \in Groups : r.uses[h] = IF h \in r.selector THEN aggs[h] ELSE None
    BY <1>4, <2>1 DEF IInv, Exact, LinkExact
  <2>5. Linked(r, new, i) \in Vpa /\ Linked(r, new, i).selector = r.selector
    BY <1>1, <1>2, <2>1, <2>3, <2>4, LinkedLemma
  <2> QED
    BY <1>4, <2>1, <2>2, <2>5, NoneLemma
<1> QED
  BY <1>3, <1>4

\* A sample adds no VPA and changes no selector.
LEMMA SampleKeepsSelectors ==
    ASSUME IInv, NEW p \in Pods, NEW i \in Ids, AddSample(p, i), NEW v \in VPAs
    PROVE  /\ vpas[v] = None <=> vpas'[v] = None
           /\ vpas[v] # None => vpas'[v].selector = vpas[v].selector
<1> DEFINE g == pods[p].labels
<1>1. g \in Groups
  BY DEF AddSample, IInv, TypeOK, Pod
<1>2. CASE vpas' = vpas
  BY <1>2
<1>3. CASE i \in Candidates(g) /\ vpas' = [x \in VPAs |-> IF vpas[x] = None THEN None
                                                          ELSE Linked(vpas[x], g, i)]
  <2>1. CASE vpas[v] = None
    BY <1>3, <2>1
  <2>2. CASE vpas[v] # None
    <3>1. vpas[v] \in Vpa /\ aggs \in [Groups -> Ids \cup {None}]
      BY <2>2 DEF IInv, TypeOK
    <3>2. \A h \in Groups : vpas[v].uses[h] = IF h \in vpas[v].selector THEN aggs[h] ELSE None
      BY <2>2 DEF IInv, Exact, LinkExact
    <3>3. vpas'[v] = Linked(vpas[v], g, i)
      BY <1>3, <2>2
    <3> HIDE DEF g
    <3>4. Linked(vpas[v], g, i) \in Vpa /\ Linked(vpas[v], g, i).selector = vpas[v].selector
      BY <1>1, <1>3, <3>1, <3>2, LinkedLemma
    <3> QED
      BY <2>2, <3>3, <3>4, NoneLemma
  <2> QED
    BY <2>1, <2>2
<1> QED
  BY <1>2, <1>3 DEF AddSample

\* A pod that was added has the labels that were listed.
LEMMA PodAdded ==
    ASSUME TypeOK, NEW p \in Pods, NEW i \in Ids, AddOrUpdatePod(p, i), p \in Tracked(listedPods)
    PROVE  pods'[p] # None /\ pods'[p].labels = listedPods[p].labels
<1>1. pods'[p] = [labels |-> listedPods[p].labels, active |-> listedPods[p].active,
                  aggregator |-> Aggregator(p, i)]
  BY DEF AddOrUpdatePod, TypeOK
<1>2. listedPods[p] \in PodSpec
  BY DEF Tracked, TypeOK
<1>3. Aggregator(p, i) \in Ids \cup {Proxy}
  BY NoneLemma DEF Aggregator, TypeOK, Pod
<1>4. pods'[p] \in Pod
  BY <1>1, <1>2, <1>3 DEF PodSpec, Pod
<1> QED
  BY <1>1, <1>4, NoneLemma

\* Which VPAs match a group depends on the selectors alone.
LEMMA MatchingKept ==
    ASSUME TypeOK, vpas' \in [VPAs -> Vpa \cup {None}],
           \A v \in VPAs : /\ vpas[v] = None <=> vpas'[v] = None
                           /\ vpas[v] # None => vpas'[v].selector = vpas[v].selector
    PROVE  \A g \in Groups : MatchingVPAs(g)' = MatchingVPAs(g)
BY DEF MatchingVPAs, Tracked, TypeOK
-----------------------------------------------------------------------------
(* That a marked aggregation has a VPA rests on the links: a VPA that goes *)
(* unmarks what it uses, which is all it matches only because the links are*)
(* exact.  Marks are on objects, so that no two groups may share one.      *)
Distinct == \A g, h \in Groups : aggs[g] = aggs[h] /\ aggs[g] # None => g = h

Serves(v, g) == vpas[v] # None /\ g \in vpas[v].selector

Marked(g) == aggs[g] # None /\ objects[aggs[g]].underVPA => \E v \in VPAs : Serves(v, g)

MarkedInv == Distinct /\ \A g \in Groups : Marked(g)

\* A marked aggregation serves a VPA, so the group has one.
LEMMA MarkedLemma ==
    ASSUME TypeOK, MarkedInv
    PROVE  MarkedIsControlled
BY DEF MarkedInv, Marked, Serves, MarkedIsControlled, MatchingVPAs, Tracked, TypeOK

\* A group has a VPA when some VPA serves it.
LEMMA ServesLemma ==
    ASSUME TypeOK, NEW g \in Groups
    PROVE  MatchingVPAs(g) # {} <=> \E v \in VPAs : Serves(v, g)
BY DEF MatchingVPAs, Serves, Tracked, TypeOK

\* A step that maps and marks nothing new and takes no VPA away.
LEMMA MarksKept ==
    ASSUME TypeOK, MarkedInv,
           \A g \in Groups : aggs'[g] = aggs[g] \/ aggs'[g] = None,
           \A i \in Ids : objects'[i].underVPA => objects[i].underVPA,
           \A v \in VPAs, g \in Groups : Serves(v, g) => Serves(v, g)'
    PROVE  MarkedInv'
<1>1. Distinct'
  BY DEF MarkedInv, Distinct
<1>2. ASSUME NEW g \in Groups, aggs'[g] # None, objects'[aggs'[g]].underVPA
      PROVE  \E v \in VPAs : Serves(v, g)'
  <2>1. aggs'[g] = aggs[g] /\ aggs[g] \in Ids
    BY <1>2 DEF TypeOK
  <2>2. objects[aggs[g]].underVPA
    BY <1>2, <2>1
  <2>3. PICK v \in VPAs : Serves(v, g)
    BY <1>2, <2>1, <2>2 DEF MarkedInv, Marked
  <2> QED
    BY <2>3
<1> QED
  BY <1>1, <1>2 DEF MarkedInv, Marked

\* Only the VPA's own aggregations can lose their last VPA, and they are unmarked.
LEMMA MarksVpa ==
    ASSUME IInv, MarkedInv, NEW v \in VPAs, NEW T \in SUBSET Groups,
           UNCHANGED aggs,
           \A w \in VPAs : w # v => vpas'[w] = vpas[w],
           T # {} => vpas'[v] # None /\ vpas'[v].selector = T,
           \A g \in Groups : aggs[g] # None /\ objects'[aggs[g]].underVPA =>
                \/ g \in T
                \/ objects[aggs[g]].underVPA /\ (vpas[v] # None => aggs[g] \notin Uses(v))
    PROVE  MarkedInv'
<1>1. Distinct'
  BY DEF MarkedInv, Distinct
<1>2. ASSUME NEW g \in Groups, aggs'[g] # None, objects'[aggs'[g]].underVPA
      PROVE  \E w \in VPAs : Serves(w, g)'
  <2>1. CASE g \in T
    BY <2>1 DEF Serves
  <2>2. CASE g \notin T
    <3>1. /\ aggs[g] # None /\ objects[aggs[g]].underVPA
          /\ vpas[v] # None => aggs[g] \notin Uses(v)
      BY <1>2, <2>2
    <3>2. PICK w \in VPAs : Serves(w, g)
      BY <3>1 DEF MarkedInv, Marked
    <3>3. w # v
      <4>1. SUFFICES ASSUME Serves(v, g) PROVE FALSE
        BY <3>2
      <4>2. vpas[v].uses[g] = aggs[g]
        BY <4>1 DEF Serves, IInv, Exact, LinkExact
      <4> QED
        BY <3>1, <4>1, <4>2 DEF Serves, Uses
    <3> QED
      BY <3>2, <3>3 DEF Serves
  <2> QED
    BY <2>1, <2>2
<1> QED
  BY <1>1, <1>2 DEF MarkedInv, Marked

\* A VPA is loaded: the aggregations it links are marked for it.
LEMMA MarksAddOrUpdateVpa ==
    ASSUME IInv, MarkedInv, NEW v \in VPAs, AddOrUpdateVpa(v), v \in Tracked(listedVPAs)
    PROVE  MarkedInv'
<1> DEFINE T == listedVPAs[v].selector
           left == IF vpas[v] = None THEN {} ELSE Uses(v)
           new == [selector |-> T, podCount |-> Cardinality(MatchingPods(T)),
                   uses |-> [g \in Groups |-> IF g \in T THEN aggs[g] ELSE None]]
<1>1. UNCHANGED aggs /\ T \in SUBSET Groups
  BY DEF AddOrUpdateVpa, IInv, TypeOK, Tracked, VpaSpec
<1>2. CASE UNCHANGED <<vpas, objects>>
  BY <1>1, <1>2, MarksKept DEF IInv, Serves
<1>3. CASE /\ vpas' = [vpas EXCEPT ![v] = new]
           /\ objects' = [i \in Ids |->
                  IF \E g \in T : aggs[g] = i
                  THEN [MarkNotAutoscaled(left)[i] EXCEPT !.underVPA = TRUE]
                  ELSE MarkNotAutoscaled(left)[i]]
  <2>1. \A w \in VPAs : w # v => vpas'[w] = vpas[w]
    BY <1>3 DEF IInv, TypeOK
  <2>2. vpas'[v] = new
    BY <1>3 DEF IInv, TypeOK
  <2>3. new.selector = T
    OBVIOUS
  <2>4. new # None
    <3>1. new \in Vpa
      <4>1. Cardinality(MatchingPods(T)) \in Nat
        <5>1. IsFiniteSet(MatchingPods(T))
          <6>1. MatchingPods(T) \subseteq Pods
            BY DEF MatchingPods, Tracked, IInv, TypeOK
          <6> QED
            BY <6>1, FS_Subset, ClusterAssumption DEF ClusterAssumption
        <5> QED
          BY <5>1, FS_CardinalityType
      <4>2. [g \in Groups |-> IF g \in T THEN aggs[g] ELSE None] \in [Groups -> Ids \cup {None}]
        BY DEF IInv, TypeOK
      <4> QED
        BY <1>1, <4>1, <4>2 DEF Vpa
    <3> QED
      BY <3>1, NoneLemma
  <2>5. ASSUME NEW g \in Groups, aggs[g] # None, objects'[aggs[g]].underVPA, g \notin T
        PROVE  objects[aggs[g]].underVPA /\ (vpas[v] # None => aggs[g] \notin Uses(v))
    <3>1. aggs[g] \in Ids
      BY <2>5 DEF IInv, TypeOK
    <3>2. ~ \E h \in T : aggs[h] = aggs[g]
      BY <1>1, <2>5 DEF MarkedInv, Distinct
    <3>3. objects'[aggs[g]] = MarkNotAutoscaled(left)[aggs[g]]
      BY <1>3, <3>1, <3>2
    <3>4. aggs[g] \notin left /\ objects[aggs[g]].underVPA
      BY <2>5, <3>1, <3>3 DEF MarkNotAutoscaled, IInv, TypeOK, Aggregate
    <3> QED
      BY <3>4
  <2> HIDE DEF new, T, left
  <2> QED
    BY <1>1, <2>1, <2>2, <2>3, <2>4, <2>5, MarksVpa
<1> QED
  BY <1>2, <1>3 DEF AddOrUpdateVpa

\* A VPA goes: the aggregations it linked are unmarked.
LEMMA MarksDeleteVpa ==
    ASSUME IInv, MarkedInv, NEW v \in VPAs, DeleteVpa(v)
    PROVE  MarkedInv'
<1>1. /\ UNCHANGED aggs
      /\ vpas' = [vpas EXCEPT ![v] = None]
      /\ objects' = MarkNotAutoscaled(Uses(v))
  BY DEF DeleteVpa
<1>2. \A w \in VPAs : w # v => vpas'[w] = vpas[w]
  BY <1>1 DEF IInv, TypeOK
<1>3. ASSUME NEW g \in Groups, aggs[g] # None, objects'[aggs[g]].underVPA
      PROVE  objects[aggs[g]].underVPA /\ aggs[g] \notin Uses(v)
  <2>1. aggs[g] \in Ids
    BY <1>3 DEF IInv, TypeOK
  <2> QED
    BY <1>1, <1>3, <2>1 DEF MarkNotAutoscaled, IInv, TypeOK, Aggregate
<1> DEFINE T == {}
<1>4. T \in SUBSET Groups /\ T = {}
  OBVIOUS
<1> HIDE DEF T
<1> QED
  BY <1>1, <1>2, <1>3, <1>4, MarksVpa

(* A new aggregation starts marked exactly when a VPA matches it, and takes*)
(* a pointer no group has.                                                 *)
LEMMA MarksMapped ==
    ASSUME IInv, MarkedInv, NEW g \in Groups, NEW i \in Candidates(g),
           aggs' = Mapped(g, i),
           \A j \in Ids : objects'[j].underVPA = Created(g, i)[j].underVPA,
           \A v \in VPAs, h \in Groups : Serves(v, h) => Serves(v, h)'
    PROVE  MarkedInv'
<1>1. i \in Ids /\ aggs \in [Groups -> Ids \cup {None}]
  BY DEF Candidates, IInv, TypeOK
<1>2. CASE aggs[g] # None
  <2>1. aggs' = aggs
    BY <1>1, <1>2 DEF Mapped, Candidates
  <2>2. \A j \in Ids : objects'[j].underVPA => objects[j].underVPA
    BY <1>2 DEF Created
  <2> QED
    BY <2>1, <2>2, MarksKept DEF IInv
<1>3. CASE aggs[g] = None
  <2>1. \A h \in Groups : aggs[h] # i
    BY <1>3 DEF Candidates
  <2>2. aggs'[g] = i /\ \A h \in Groups : h # g => aggs'[h] = aggs[h]
    BY <1>1 DEF Mapped
  <2>3. Distinct'
    BY <2>1, <2>2 DEF MarkedInv, Distinct
  <2>4. ASSUME NEW h \in Groups, aggs'[h] # None, objects'[aggs'[h]].underVPA
        PROVE  \E v \in VPAs : Serves(v, h)'
    <3>1. CASE h = g
      <4>1. Created(g, i)[i].underVPA
        BY <1>1, <2>2, <2>4, <3>1
      <4>2. Created(g, i)[i] = [NewAggregate EXCEPT !.underVPA = MatchingVPAs(g) # {}]
        BY <1>1, <1>3 DEF Created, IInv, TypeOK
      <4>3. MatchingVPAs(g) # {}
        BY <4>1, <4>2 DEF NewAggregate
      <4>4. PICK v \in VPAs : Serves(v, g)
        BY <4>3, ServesLemma DEF IInv
      <4> QED
        BY <3>1, <4>4
    <3>2. CASE h # g
      <4>1. aggs'[h] = aggs[h] /\ aggs[h] \in Ids /\ aggs[h] # i
        BY <1>1, <2>1, <2>2, <2>4, <3>2
      <4>2. Created(g, i)[aggs[h]] = objects[aggs[h]]
        BY <1>3, <4>1 DEF Created, IInv, TypeOK
      <4>3. objects[aggs[h]].underVPA
        BY <2>4, <4>1, <4>2
      <4>4. PICK v \in VPAs : Serves(v, h)
        BY <2>4, <4>1, <4>3 DEF MarkedInv, Marked
      <4> QED
        BY <4>4
    <3> QED
      BY <3>1, <3>2
  <2> QED
    BY <2>3, <2>4 DEF MarkedInv, Marked
<1> QED
  BY <1>2, <1>3

\* A pod may bring a new aggregation, marked when a VPA matches.
LEMMA MarksAddOrUpdatePod ==
    ASSUME IInv, MarkedInv, NEW p \in Pods, NEW i \in Ids, AddOrUpdatePod(p, i),
           p \in Tracked(listedPods)
    PROVE  MarkedInv'
<1> DEFINE new == listedPods[p].labels
<1>1. /\ aggs' = Mapped(new, i)
      /\ objects' = Created(new, i)
      /\ vpas' = [v \in VPAs |-> IF vpas[v] = None THEN None
                                 ELSE Linked(Recounted(vpas[v], p), new, i)]
      /\ i \in Candidates(new)
  BY DEF AddOrUpdatePod
<1>2. new \in Groups
  BY DEF IInv, TypeOK, Tracked, PodSpec
<1>3. \A v \in VPAs, h \in Groups : Serves(v, h) => Serves(v, h)'
  BY AddKeepsSelectors DEF Serves
<1> HIDE DEF new
<1> QED
  BY <1>1, <1>2, <1>3, MarksMapped

\* A sample may bring a new aggregation, marked when a VPA matches.
LEMMA MarksAddSample ==
    ASSUME IInv, MarkedInv, NEW p \in Pods, NEW i \in Ids, AddSample(p, i)
    PROVE  MarkedInv'
<1> DEFINE g == pods[p].labels
<1>1. g \in Groups
  BY DEF AddSample, IInv, TypeOK, Pod
<1>2. CASE pods[p].aggregator # Proxy
  <2>1. objects' = [objects EXCEPT ![i].sampled = TRUE, ![i].fresh = TRUE]
        /\ UNCHANGED <<aggs, vpas>>
    BY <1>2 DEF AddSample
  <2>2. \A j \in Ids : objects'[j].underVPA = objects[j].underVPA
    BY <2>1 DEF IInv, TypeOK, Aggregate
  <2> QED
    BY <2>1, <2>2, MarksKept DEF IInv, Serves
<1>3. CASE pods[p].aggregator = Proxy
  <2>1. /\ i \in Candidates(g)
        /\ aggs' = Mapped(g, i)
        /\ objects' = [Created(g, i) EXCEPT ![i].sampled = TRUE, ![i].fresh = TRUE]
        /\ vpas' = [v \in VPAs |-> IF vpas[v] = None THEN None ELSE Linked(vpas[v], g, i)]
    BY <1>3 DEF AddSample
  <2>2. Created(g, i) \in [Ids -> Aggregate]
    BY <1>1, ObjectsTyped DEF IInv, TypeOK
  <2>3. \A j \in Ids : objects'[j].underVPA = Created(g, i)[j].underVPA
    <3> DEFINE c == Created(g, i)
    <3> HIDE DEF c
    <3>1. c \in [Ids -> Aggregate] /\ objects' = [c EXCEPT ![i].sampled = TRUE, ![i].fresh = TRUE]
      BY <2>1, <2>2 DEF c
    <3>2. \A j \in Ids : objects'[j].underVPA = c[j].underVPA
      BY <3>1 DEF Aggregate
    <3> QED
      BY <3>2 DEF c
  <2>4. \A v \in VPAs, h \in Groups : Serves(v, h) => Serves(v, h)'
    BY SampleKeepsSelectors DEF Serves
  <2> HIDE DEF g
  <2> QED
    BY <1>1, <2>1, <2>3, <2>4, MarksMapped
<1> QED
  BY <1>2, <1>3

\* Collected aggregations are unmarked.
LEMMA MarksGarbageCollect ==
    ASSUME IInv, MarkedInv, GarbageCollect
    PROVE  MarkedInv'
<1>1. PICK gone \in SUBSET Groups :
        /\ aggs' = [g \in Groups |-> IF g \in gone THEN None ELSE aggs[g]]
        /\ \E unlinked : objects' = MarkNotAutoscaled(unlinked)
        /\ vpas' = [v \in VPAs |-> IF vpas[v] = None THEN None
                                   ELSE DeleteAggregations(vpas[v], gone)]
  BY DEF GarbageCollect, Obsolete
<1>2. \A j \in Ids : objects'[j].underVPA => objects[j].underVPA
  BY <1>1 DEF MarkNotAutoscaled, IInv, TypeOK, Aggregate
<1>3. ASSUME NEW v \in VPAs, vpas[v] # None
      PROVE  vpas'[v] # None /\ vpas'[v].selector = vpas[v].selector
  <2>1. vpas[v] \in Vpa /\ vpas'[v] = DeleteAggregations(vpas[v], gone)
    BY <1>1, <1>3 DEF IInv, TypeOK
  <2>2. DeleteAggregations(vpas[v], gone) \in Vpa
        /\ DeleteAggregations(vpas[v], gone).selector = vpas[v].selector
    BY <2>1, DeleteAggregationsLemma
  <2> QED
    BY <2>1, <2>2, NoneLemma
<1>4. \A v \in VPAs, h \in Groups : Serves(v, h) => Serves(v, h)'
  BY <1>3 DEF Serves
<1> QED
  BY <1>1, <1>2, <1>4, MarksKept DEF IInv

\* A deleted pod leaves its aggregation as it is.
LEMMA MarksDeletePod ==
    ASSUME IInv, MarkedInv, NEW p \in Pods, DeletePod(p)
    PROVE  MarkedInv'
<1>1. /\ UNCHANGED <<aggs, objects>>
      /\ vpas' = [v \in VPAs |->
            IF vpas[v] = None THEN None ELSE RemovePod(vpas[v], pods[p].labels)]
  BY DEF DeletePod
<1>2. ASSUME NEW v \in VPAs, vpas[v] # None
      PROVE  vpas'[v] # None /\ vpas'[v].selector = vpas[v].selector
  <2>1. vpas[v] \in Vpa /\ vpas'[v] = RemovePod(vpas[v], pods[p].labels)
    BY <1>1, <1>2 DEF IInv, TypeOK
  <2>2. vpas'[v].selector = vpas[v].selector
    BY <2>1 DEF RemovePod, Vpa
  <2>3. vpas'[v] # None
    <3>1. pods[p] # None /\ pods[p].labels \in Groups
      BY DEF DeletePod, IInv, TypeOK, Pod
    <3>2. pods[p].labels \in vpas[v].selector => vpas[v].podCount > 0
      <4>1. pods \in [Pods -> Pod \cup {None}] /\ pods = [pods EXCEPT ![p] = pods[p]]
            /\ pods[p] \in Pod \cup {None} /\ vpas[v].selector \in SUBSET Groups
        BY <2>1 DEF IInv, TypeOK, Vpa
      <4>2. Counts(pods[p], vpas[v].selector) => Cardinality(Matching(pods, vpas[v].selector)) > 0
        BY <4>1, RecountLemma
      <4> QED
        BY <1>2, <3>1, <4>2 DEF Counts, IInv, Exact, CountExact
    <3>3. RemovePod(vpas[v], pods[p].labels) \in Vpa
      BY <2>1, <3>1, <3>2, RemovePodLemma
    <3> QED
      BY <2>1, <3>3, NoneLemma
  <2> QED
    BY <2>2, <2>3
<1>3. \A v \in VPAs, h \in Groups : Serves(v, h) => Serves(v, h)'
  BY <1>2 DEF Serves
<1> QED
  BY <1>1, <1>3, MarksKept DEF IInv

\* Every step keeps the marks.
LEMMA MarksStep ==
    ASSUME IInv, TodoListed, MarkedInv, [Next]_vars
    PROVE  MarkedInv'
<1>1. CASE UNCHANGED <<vpas, aggs, objects>>
  BY <1>1, MarksKept DEF IInv, Serves
<1>2. CASE UNCHANGED vars \/ \E p \in Pods : PodChanges(p) \/ SkipPod(p)
  <2>1. UNCHANGED <<vpas, aggs, objects>>
    BY <1>2 DEF vars, cluster, PodChanges, SkipPod
  <2> QED
    BY <1>1, <2>1
<1>3. CASE \E v \in VPAs : VPAChanges(v)
  <2>1. UNCHANGED <<vpas, aggs, objects>>
    BY <1>3 DEF cluster, VPAChanges
  <2> QED
    BY <1>1, <2>1
<1>4. CASE \/ LoadVPAs \/ VPAsAdded \/ VPAsLoaded \/ LoadPods
           \/ PodsDeleted \/ PodsLoaded \/ EndCycle
  <2>1. UNCHANGED <<vpas, aggs, objects>>
    BY <1>4 DEF cluster, LoadVPAs, VPAsAdded, VPAsLoaded, LoadPods, PodsDeleted, PodsLoaded, EndCycle
  <2> QED
    BY <1>1, <2>1
<1>5. CASE \E i \in Ids : Expire(i)
  <2>1. PICK i \in Ids : Expire(i)
    BY <1>5
  <2>2. UNCHANGED <<vpas, aggs>> /\ objects' = [objects EXCEPT ![i].fresh = FALSE]
    BY <2>1 DEF Expire
  <2>3. \A j \in Ids : objects'[j].underVPA => objects[j].underVPA
    BY <2>2 DEF IInv, TypeOK, Aggregate
  <2> QED
    BY <2>2, <2>3, MarksKept DEF IInv, Serves
<1>6. CASE \E p \in Pods : DeletePod(p)
  BY <1>6, MarksDeletePod
<1>7. CASE \E p \in Pods, i \in Ids : AddOrUpdatePod(p, i)
  <2>1. PICK p \in Pods, i \in Ids : AddOrUpdatePod(p, i)
    BY <1>7
  <2>2. p \in Tracked(listedPods)
    BY <2>1 DEF AddOrUpdatePod, TodoListed
  <2> QED
    BY <2>1, <2>2, MarksAddOrUpdatePod
<1>8. CASE \E p \in Pods, i \in Ids : AddSample(p, i)
  BY <1>8, MarksAddSample
<1>9. CASE \E v \in VPAs : AddOrUpdateVpa(v)
  <2>1. PICK v \in VPAs : AddOrUpdateVpa(v)
    BY <1>9
  <2>2. v \in Tracked(listedVPAs)
    BY <2>1 DEF AddOrUpdateVpa, TodoListed
  <2> QED
    BY <2>1, <2>2, MarksAddOrUpdateVpa
<1>10. CASE \E v \in VPAs : DeleteVpa(v)
  BY <1>10, MarksDeleteVpa
<1>11. CASE GarbageCollect
  BY <1>11, MarksGarbageCollect
<1> QED
  BY <1>2, <1>3, <1>4, <1>5, <1>6, <1>7, <1>8, <1>9, <1>10, <1>11 DEF Next

(* No aggregation counts as controlled by a VPA once no VPA matches it,    *)
(* whichever of them was deleted or changed its selector last.             *)
THEOREM MarkedAreControlled == Spec => []MarkedIsControlled
<1>1. Init => MarkedInv
  BY DEF Init, MarkedInv, Distinct, Marked
<1>2. IInv /\ MarkedInv => MarkedIsControlled
  BY MarkedLemma DEF IInv
<1>3. IInv /\ TodoListed /\ MarkedInv /\ [Next]_vars => MarkedInv'
  BY MarksStep
<1> QED
  BY <1>1, <1>2, <1>3, Invariant, PTL DEF Spec
-----------------------------------------------------------------------------
(* After LoadPods the model's pods are those listed, unless the listing    *)
(* failed or, in memory-saver mode, no VPA matches them.  In that mode a   *)
(* pod that gets other labels, or its name back with others, is passed     *)
(* over with the old ones: no theorem without SaverKeepsLabels.            *)
SaverKeepsLabels ==
    \A s \in Scenarios : s.start.memorySaver => s.steps.allowed \cap {"relabel", "gone"} = {}

LabelsKept ==
    memorySaver =>
        /\ steps.allowed \cap {"relabel", "gone"} = {}
        /\ \A p \in Pods : pods[p] # None =>
              listedPods[p] # None /\ listedPods[p].labels = pods[p].labels

\* What LoadPods leaves of a listed pod.
Loaded(p) ==
    \/ pods[p] # None /\ pods[p].labels = listedPods[p].labels
    \/ memorySaver /\ pods[p] = None /\ MatchingVPAs(listedPods[p].labels) = {}

ListingSeen ==
    /\ phase = "deletePods" => todo \in {Tracked(listedPods), {}}
    /\ phase \in {"addPods", "sample"} =>
          \/ Tracked(pods) = {} /\ todo = {}
          \/ /\ Tracked(pods) \subseteq Tracked(listedPods)
             /\ \A p \in Tracked(listedPods) \ todo : Loaded(p)
    /\ phase = "sample" => todo = {}

LoadInv == LabelsKept /\ ListingSeen

\* The requests observed in this cycle's LoadPods are later than the others.
Refreshed ==
    {listedPods[p].labels :
        p \in {x \in Tracked(listedPods) \ todo : pods[x] # None /\ ~Skipped(x)}}

WellOrdered ==
    \A S \in SUBSET Observed : S # {} => \E g \in S : \A h \in S : <<g, h>> \in requests

RefreshedLast ==
    phase \in {"addPods", "sample"} =>
        /\ Refreshed \subseteq Observed
        /\ \A g \in Refreshed, h \in Groups \ Refreshed : <<h, g>> \notin requests

RequestsInv == WellOrdered /\ RefreshedLast

\* Initially nothing is known and no listing was made.
LEMMA LoadInit == SaverKeepsLabels /\ Init => LoadInv /\ RequestsInv
<1> SUFFICES ASSUME SaverKeepsLabels, Init PROVE LoadInv /\ RequestsInv
  OBVIOUS
<1>1. LabelsKept
  BY DEF Init, SaverKeepsLabels, LabelsKept
<1>2. ListingSeen /\ RefreshedLast
  BY DEF Init, ListingSeen, RefreshedLast
<1>3. Observed = {}
  BY DEF Init, Observed
<1> QED
  BY <1>1, <1>2, <1>3 DEF LoadInv, RequestsInv, WellOrdered

\* Only the cluster's changes touch what labels are kept from.
LEMMA LabelsStep ==
    ASSUME TypeOK, TodoListed, LabelsKept, [Next]_vars
    PROVE  LabelsKept'
<1>1. CASE UNCHANGED <<pods, listedPods, memorySaver>> /\ steps'.allowed = steps.allowed
  BY <1>1 DEF LabelsKept
<1>2. \A kind : Spend(kind) => steps'.allowed = steps.allowed
  BY DEF Spend, TypeOK, Budget
<1>3. CASE UNCHANGED vars
  BY <1>1, <1>3 DEF vars, inputs, cluster
<1>4. CASE \E p \in Pods : PodChanges(p)
  <2>1. PICK p \in Pods : PodChanges(p)
    BY <1>4
  <2>2. UNCHANGED <<pods, memorySaver>> /\ steps'.allowed = steps.allowed
    BY <1>2, <2>1 DEF PodChanges, cluster
  <2>3. SUFFICES ASSUME memorySaver PROVE LabelsKept'
    BY <2>2 DEF LabelsKept
  <2>4. steps.allowed \cap {"relabel", "gone"} = {}
    BY <2>3 DEF LabelsKept
  <2>5. ~Spend("relabel") /\ ~Spend("gone")
    BY <2>4 DEF Spend
  <2>6. \A x \in Pods : listedPods[x] # None =>
            listedPods'[x] # None /\ listedPods'[x].labels = listedPods[x].labels
    <3>1. CASE \E g \in Groups : listedPods[p] = None
                /\ listedPods' = [listedPods EXCEPT ![p] = [labels |-> g, active |-> TRUE]]
      BY <3>1 DEF TypeOK
    <3>2. CASE listedPods[p] # None /\ listedPods' = [listedPods EXCEPT ![p].active = FALSE]
      <4>1. listedPods[p] \in PodSpec
        BY <3>2 DEF TypeOK
      <4>2. listedPods'[p] = [listedPods[p] EXCEPT !.active = FALSE]
        BY <3>2 DEF TypeOK
      <4>3. listedPods'[p] \in PodSpec /\ listedPods'[p].labels = listedPods[p].labels
        BY <4>1, <4>2 DEF PodSpec
      <4> QED
        BY <3>2, <4>3, NoneLemma DEF TypeOK
    <3> QED
      BY <2>1, <2>5, <3>1, <3>2 DEF PodChanges
  <2> QED
    BY <2>2, <2>6 DEF LabelsKept
<1>5. CASE \E v \in VPAs : VPAChanges(v)
  BY <1>1, <1>2, <1>5 DEF VPAChanges, cluster
<1>6. CASE \E i \in Ids : Expire(i)
  BY <1>1, <1>2, <1>6 DEF Expire, inputs
<1>7. CASE \E p \in Pods : DeletePod(p)
  BY <1>7 DEF DeletePod, inputs, LabelsKept, TypeOK
<1>8. CASE \E p \in Pods, i \in Ids : AddOrUpdatePod(p, i)
  <2>1. PICK p \in Pods, i \in Ids : AddOrUpdatePod(p, i)
    BY <1>8
  <2>2. listedPods[p] # None
    BY <2>1 DEF AddOrUpdatePod, TodoListed, Tracked
  <2>3. UNCHANGED <<listedPods, memorySaver, steps>>
    BY <2>1 DEF AddOrUpdatePod, inputs
  <2>4. \A x \in Pods \ {p} : pods'[x] = pods[x]
    BY <2>1 DEF AddOrUpdatePod, TypeOK
  <2>5. pods'[p].labels = listedPods[p].labels
    BY <2>1 DEF AddOrUpdatePod, TypeOK
  <2> QED
    BY <2>2, <2>3, <2>4, <2>5 DEF LabelsKept
<1>9. CASE \E p \in Pods, i \in Ids : AddSample(p, i)
  BY <1>1, <1>9 DEF AddSample, inputs
<1>10. CASE \E v \in VPAs : AddOrUpdateVpa(v) \/ DeleteVpa(v)
  BY <1>1, <1>10 DEF AddOrUpdateVpa, DeleteVpa, inputs
<1>11. CASE LoadPods
  BY <1>1, <1>2, <1>11 DEF LoadPods, inputs, cluster
<1>12. CASE \/ LoadVPAs \/ VPAsAdded \/ VPAsLoaded \/ PodsDeleted \/ PodsLoaded \/ EndCycle
            \/ GarbageCollect \/ \E p \in Pods : SkipPod(p)
  BY <1>1, <1>12 DEF LoadVPAs, VPAsAdded, VPAsLoaded, PodsDeleted, PodsLoaded, EndCycle,
                     GarbageCollect, SkipPod, inputs, cluster
<1> QED
  BY <1>3, <1>4, <1>5, <1>6, <1>7, <1>8, <1>9, <1>10, <1>11, <1>12 DEF Next

\* From one loop of LoadPods to the next.
LEMMA ListingStep ==
    ASSUME IInv, TodoListed, LoadInv, [Next]_vars
    PROVE  ListingSeen'
<1> USE DEF LoadInv, IInv
<1>1. ASSUME phase' \notin {"deletePods", "addPods", "sample"}
      PROVE  ListingSeen'
  BY <1>1 DEF ListingSeen
<1>2. ASSUME UNCHANGED <<pods, listedPods, memorySaver, phase, todo>>,
             \A g \in Groups : MatchingVPAs(g)' = MatchingVPAs(g)
      PROVE  ListingSeen'
  <2>1. \A p \in Tracked(listedPods) : listedPods[p].labels \in Groups
    BY DEF Tracked, TypeOK, PodSpec
  <2>2. \A p \in Tracked(listedPods) : Loaded(p)' <=> Loaded(p)
    BY <1>2, <2>1 DEF Loaded
  <2> QED
    BY <1>2, <2>2 DEF ListingSeen, Tracked
<1>3. CASE UNCHANGED vars
  BY <1>2, <1>3 DEF vars, inputs, cluster, MatchingVPAs, Tracked
<1>4. CASE \E p \in Pods : PodChanges(p)
  BY <1>1, <1>4 DEF PodChanges
<1>5. CASE \E v \in VPAs : VPAChanges(v) \/ AddOrUpdateVpa(v) \/ DeleteVpa(v)
  BY <1>1, <1>5 DEF VPAChanges, AddOrUpdateVpa, DeleteVpa
<1>6. CASE \E i \in Ids : Expire(i)
  BY <1>1, <1>6 DEF Expire
<1>7. CASE LoadVPAs \/ VPAsAdded \/ VPAsLoaded \/ GarbageCollect \/ EndCycle
  BY <1>1, <1>7 DEF LoadVPAs, VPAsAdded, VPAsLoaded, GarbageCollect, EndCycle
<1>8. CASE LoadPods
  BY <1>8 DEF LoadPods, ListingSeen, inputs
<1>9. CASE \E p \in Pods : DeletePod(p)
  BY <1>9 DEF DeletePod, ListingSeen, inputs
<1>10. CASE PodsDeleted
  BY <1>10 DEF PodsDeleted, ListingSeen, inputs, cluster, Tracked
<1>11. CASE PodsLoaded
  <2>1. UNCHANGED <<pods, vpas, listedPods, memorySaver, todo>> /\ todo = {}
    BY <1>11 DEF PodsLoaded, inputs, cluster
  <2>2. \A p : Loaded(p)' <=> Loaded(p)
    BY <2>1 DEF Loaded, MatchingVPAs, Tracked
  <2> QED
    BY <1>11, <2>1, <2>2 DEF PodsLoaded, ListingSeen, Tracked
<1>12. CASE \E p \in Pods : SkipPod(p)
  <2>1. PICK p \in Pods : SkipPod(p)
    BY <1>12
  <2>2. UNCHANGED <<pods, vpas, listedPods, memorySaver, phase>> /\ todo' = todo \ {p}
        /\ phase = "addPods" /\ p \in todo /\ Skipped(p)
    BY <2>1 DEF SkipPod, inputs, cluster
  <2>3. \A x : Loaded(x)' <=> Loaded(x)
    BY <2>2 DEF Loaded, MatchingVPAs, Tracked
  <2>4. Loaded(p)
    BY <2>2 DEF Skipped, Loaded, LabelsKept
  <2> QED
    BY <2>2, <2>3, <2>4 DEF ListingSeen, Tracked
<1>13. CASE \E p \in Pods, i \in Ids : AddOrUpdatePod(p, i)
  <2>1. PICK p \in Pods, i \in Ids : AddOrUpdatePod(p, i)
    BY <1>13
  <2>2. UNCHANGED <<listedPods, memorySaver, phase>> /\ todo' = todo \ {p}
        /\ phase = "addPods" /\ p \in todo /\ p \in Tracked(listedPods)
    BY <2>1 DEF AddOrUpdatePod, inputs, TodoListed
  <2>3. \A x \in Pods \ {p} : pods'[x] = pods[x]
    BY <2>1 DEF AddOrUpdatePod, TypeOK
  <2>4. pods'[p] # None /\ pods'[p].labels = listedPods[p].labels
    BY <2>1, <2>2, PodAdded
  <2>5. \A g \in Groups : MatchingVPAs(g)' = MatchingVPAs(g)
    <3>1. TypeOK'
      BY <2>1, <2>2, AddOrUpdatePodLemma DEF IInv
    <3> QED
      BY <2>1, <2>2, <3>1, AddKeepsSelectors, MatchingKept DEF IInv, TypeOK
  <2>6. \A x \in Tracked(listedPods) : x # p /\ Loaded(x) => Loaded(x)'
    BY <2>2, <2>3, <2>5 DEF Loaded, Tracked, TypeOK, PodSpec
  <2>7. Tracked(pods') = Tracked(pods) \cup {p}
    BY <2>3, <2>4, <2>1 DEF Tracked, AddOrUpdatePod, TypeOK
  <2>8. Loaded(p)'
    BY <2>2, <2>4 DEF Loaded
  <2> QED
    BY <2>2, <2>6, <2>7, <2>8 DEF ListingSeen
<1>14. CASE \E p \in Pods, i \in Ids : AddSample(p, i)
  <2>1. PICK p \in Pods, i \in Ids : AddSample(p, i)
    BY <1>14
  <2>2. TypeOK'
    BY <2>1, AddSampleLemma DEF IInv
  <2>3. \A g \in Groups : MatchingVPAs(g)' = MatchingVPAs(g)
    BY <2>1, <2>2, SampleKeepsSelectors, MatchingKept DEF IInv, TypeOK
  <2> QED
    BY <1>2, <2>1, <2>3 DEF AddSample, inputs
<1> QED
  BY <1>3, <1>4, <1>5, <1>6, <1>7, <1>8, <1>9, <1>10, <1>11, <1>12, <1>13, <1>14 DEF Next
\* The requests: observing one keeps the order and puts it last.
LEMMA OrderStep ==
    ASSUME TypeOK, TodoListed, WellOrdered, [Next]_vars
    PROVE  WellOrdered'
<1>1. CASE UNCHANGED requests
  BY <1>1 DEF WellOrdered, Observed
<1>2. ASSUME NEW g \in Groups, requests' = ObserveRequest(g)
      PROVE  WellOrdered'
  <2>1. \A a \in Observed \ {g} : \A b \in Observed \ {g} :
            <<a, b>> \in requests => <<a, b>> \in requests'
    BY <1>2 DEF ObserveRequest
  <2>2. Observed' \subseteq Observed \cup {g}
    BY <1>2 DEF ObserveRequest, Observed
  <2>3. \A h \in Observed \cup {g} : <<g, h>> \in requests'
    BY <1>2 DEF ObserveRequest
  <2> SUFFICES ASSUME NEW S \in SUBSET Observed', S # {}
               PROVE  \E a \in S : \A b \in S : <<a, b>> \in requests'
    BY DEF WellOrdered
  <2>4. CASE g \in S
    BY <2>2, <2>3, <2>4
  <2>5. CASE g \notin S
    <3>1. S \subseteq Observed \ {g}
      BY <2>2, <2>5
    <3>2. PICK a \in S : \A b \in S : <<a, b>> \in requests
      BY <3>1 DEF WellOrdered
    <3> QED
      BY <2>1, <3>1, <3>2
  <2> QED
    BY <2>4, <2>5
<1>3. CASE \E p \in Pods, i \in Ids : AddOrUpdatePod(p, i)
  <2>1. PICK p \in Pods, i \in Ids : AddOrUpdatePod(p, i)
    BY <1>3
  <2>2. listedPods[p].labels \in Groups
    BY <2>1 DEF AddOrUpdatePod, TodoListed, Tracked, TypeOK, PodSpec
  <2> QED
    BY <1>2, <2>1, <2>2 DEF AddOrUpdatePod
<1>4. CASE GarbageCollect
  <2>1. PICK X : requests' = {r \in requests : r[1] \notin X /\ r[2] \notin X}
    BY <1>4 DEF GarbageCollect
  <2>2. Observed' \subseteq Observed \ X
    BY <2>1 DEF Observed
  <2>3. \A a \in Observed \ X : \A b \in Observed \ X :
            <<a, b>> \in requests => <<a, b>> \in requests'
    BY <2>1
  <2> SUFFICES ASSUME NEW S \in SUBSET Observed', S # {}
               PROVE  \E a \in S : \A b \in S : <<a, b>> \in requests'
    BY DEF WellOrdered
  <2>4. PICK a \in S : \A b \in S : <<a, b>> \in requests
    BY <2>2 DEF WellOrdered
  <2> QED
    BY <2>2, <2>3, <2>4
<1>5. CASE UNCHANGED vars \/ \E p \in Pods : PodChanges(p) \/ DeletePod(p) \/ SkipPod(p)
  BY <1>1, <1>5 DEF vars, cluster, PodChanges, DeletePod, SkipPod
<1>6. CASE \E p \in Pods, i \in Ids : AddSample(p, i)
  BY <1>1, <1>6 DEF AddSample
<1>7. CASE \/ \E v \in VPAs : VPAChanges(v) \/ AddOrUpdateVpa(v) \/ DeleteVpa(v)
           \/ \E i \in Ids : Expire(i)
  BY <1>1, <1>7 DEF cluster, VPAChanges, AddOrUpdateVpa, DeleteVpa, Expire
<1>8. CASE \/ LoadVPAs \/ VPAsAdded \/ VPAsLoaded \/ LoadPods \/ PodsDeleted \/ PodsLoaded
           \/ EndCycle
  BY <1>1, <1>8 DEF cluster, LoadVPAs, VPAsAdded, VPAsLoaded, LoadPods, PodsDeleted, PodsLoaded, EndCycle
<1> QED
  BY <1>3, <1>4, <1>5, <1>6, <1>7, <1>8 DEF Next
\* LoadPods observes the requests of all the pods it lists and does not skip.
LEMMA RefreshedStep ==
    ASSUME IInv, TodoListed, LoadInv, RequestsInv, [Next]_vars
    PROVE  RefreshedLast'
<1> USE DEF IInv, RequestsInv
<1>1. ASSUME phase' \notin {"addPods", "sample"}
      PROVE  RefreshedLast'
  BY <1>1 DEF RefreshedLast
<1>2. ASSUME UNCHANGED <<pods, listedPods, memorySaver, requests, phase>>,
             \A p \in Tracked(listedPods) : Skipped(p)' <=> Skipped(p),
             \A p \in Tracked(listedPods) : p \in todo /\ p \notin todo' => Skipped(p),
             todo' \subseteq todo
      PROVE  RefreshedLast'
  <2>1. Refreshed' = Refreshed /\ Observed' = Observed
    BY <1>2 DEF Refreshed, Observed, Tracked
  <2> QED
    BY <1>2, <2>1 DEF RefreshedLast
<1>3. ASSUME UNCHANGED <<memorySaver, listedPods>>,
             \A g \in Groups : MatchingVPAs(g)' = MatchingVPAs(g)
      PROVE  \A p \in Tracked(listedPods) : Skipped(p)' <=> Skipped(p)
  BY <1>3 DEF Skipped, Tracked, TypeOK, PodSpec
<1>4. CASE UNCHANGED vars
  BY <1>2, <1>4 DEF vars, inputs, cluster, Skipped, MatchingVPAs, Tracked
<1>5. CASE \E p \in Pods : PodChanges(p) \/ DeletePod(p)
  BY <1>1, <1>5 DEF PodChanges, DeletePod
<1>6. CASE \/ \E v \in VPAs : VPAChanges(v) \/ AddOrUpdateVpa(v) \/ DeleteVpa(v)
           \/ \E i \in Ids : Expire(i)
  BY <1>1, <1>6 DEF VPAChanges, AddOrUpdateVpa, DeleteVpa, Expire
<1>7. CASE \/ LoadVPAs \/ VPAsAdded \/ VPAsLoaded \/ LoadPods \/ GarbageCollect \/ EndCycle
  BY <1>1, <1>7 DEF LoadVPAs, VPAsAdded, VPAsLoaded, LoadPods, GarbageCollect, EndCycle
<1>8. CASE PodsDeleted
  <2>1. UNCHANGED <<pods, listedPods, todo>> /\ Tracked(pods) \subseteq todo /\ phase = "deletePods"
    BY <1>8 DEF PodsDeleted, inputs, cluster
  <2>2. Refreshed' = {}
    BY <2>1 DEF Refreshed, Tracked, TypeOK
  <2> QED
    BY <2>2 DEF RefreshedLast
<1>9. CASE PodsLoaded
  <2>1. Refreshed' = Refreshed /\ Observed' = Observed /\ requests' = requests /\ phase = "addPods"
    BY <1>9 DEF PodsLoaded, inputs, cluster, Refreshed, Observed, Tracked, Skipped, MatchingVPAs
  <2> QED
    BY <2>1 DEF RefreshedLast
<1>10. CASE \E p \in Pods : SkipPod(p)
  BY <1>2, <1>10 DEF SkipPod, inputs, cluster, Skipped, MatchingVPAs, Tracked
<1>11. CASE \E p \in Pods, i \in Ids : AddSample(p, i)
  <2>1. PICK p \in Pods, i \in Ids : AddSample(p, i)
    BY <1>11
  <2>2. TypeOK'
    BY <2>1, AddSampleLemma
  <2>3. \A g \in Groups : MatchingVPAs(g)' = MatchingVPAs(g)
    BY <2>1, <2>2, SampleKeepsSelectors, MatchingKept DEF TypeOK
  <2>4. UNCHANGED <<memorySaver, listedPods, pods, requests, phase, todo>>
    BY <2>1 DEF AddSample, inputs
  <2> QED
    BY <1>2, <1>3, <2>3, <2>4
<1>12. CASE \E p \in Pods, i \in Ids : AddOrUpdatePod(p, i)
  <2>1. PICK p \in Pods, i \in Ids : AddOrUpdatePod(p, i)
    BY <1>12
  <2> DEFINE g == listedPods[p].labels
  <2>2. UNCHANGED <<listedPods, memorySaver, phase>> /\ todo' = todo \ {p} /\ ~Skipped(p)
        /\ phase = "addPods" /\ p \in todo /\ p \in Tracked(listedPods)
        /\ requests' = ObserveRequest(g)
    BY <2>1 DEF AddOrUpdatePod, inputs, TodoListed
  <2>3. g \in Groups
    BY <2>2 DEF Tracked, TypeOK, PodSpec
  <2>4. TypeOK'
    BY <2>1, <2>2, AddOrUpdatePodLemma
  <2>5. \A x \in Tracked(listedPods) : Skipped(x)' <=> Skipped(x)
    <3>1. \A h \in Groups : MatchingVPAs(h)' = MatchingVPAs(h)
      BY <2>1, <2>2, <2>4, AddKeepsSelectors, MatchingKept DEF TypeOK
    <3> QED
      BY <1>3, <2>2, <3>1
  <2>6. Refreshed' = Refreshed \cup {g}
    <3>1. \A x \in Pods \ {p} : pods'[x] = pods[x]
      BY <2>1 DEF AddOrUpdatePod, TypeOK
    <3>2. pods'[p] # None
      BY <2>1, <2>2, PodAdded
    <3> QED
      BY <2>2, <2>5, <3>1, <3>2 DEF Refreshed, Tracked, TypeOK
  <2>7. Refreshed \subseteq Observed /\ \A a \in Refreshed, h \in Groups \ Refreshed : <<h, a>> \notin requests
    BY <2>2 DEF RefreshedLast
  <2>8. Observed \cup {g} \subseteq Observed'
    <3>1. ASSUME NEW a \in Observed PROVE <<a, a>> \in requests
      <4>1. \E x \in {a} : \A y \in {a} : <<x, y>> \in requests
        BY <3>1 DEF WellOrdered
      <4> QED
        BY <4>1
    <3>2. \A a \in Observed \cup {g} : <<a, a>> \in requests'
      BY <2>2, <3>1 DEF ObserveRequest
    <3>3. \A a \in Observed \cup {g} : \E r \in requests' : r[1] = a
      <4> SUFFICES ASSUME NEW a \in Observed \cup {g} PROVE \E r \in requests' : r[1] = a
        OBVIOUS
      <4>1. <<a, a>> \in requests' /\ <<a, a>>[1] = a
        BY <3>2
      <4> QED
        BY <4>1
    <3>4. Observed' = {r[1] : r \in requests'}
      BY DEF Observed
    <3> QED
      BY <3>3, <3>4
  <2>9. ASSUME NEW a \in Refreshed', NEW h \in Groups \ Refreshed'
        PROVE  <<h, a>> \notin requests'
    BY <2>2, <2>6, <2>7, <2>9 DEF ObserveRequest
  <2> QED
    BY <2>6, <2>7, <2>8, <2>9 DEF RefreshedLast
<1> QED
  BY <1>4, <1>5, <1>6, <1>7, <1>8, <1>9, <1>10, <1>11, <1>12 DEF Next

\* What a loading phase has done stays done until the phase ends.
LEMMA LoadInvariant == SaverKeepsLabels /\ Spec => [](LoadInv /\ RequestsInv)
<1>1. IInv /\ TodoListed /\ LoadInv /\ RequestsInv /\ [Next]_vars => (LoadInv /\ RequestsInv)'
  BY LabelsStep, ListingStep, OrderStep, RefreshedStep DEF IInv, LoadInv, RequestsInv
<1> QED
  BY <1>1, LoadInit, Invariant, PTL DEF Spec

(* Once LoadPods has run PodCount is the number of listed pods the VPA     *)
(* matches, whatever the pods did since the last cycle.                    *)
THEOREM PodCountsListed == SaverKeepsLabels /\ Spec => []PodCountListed
<1>1. ASSUME IInv, LoadInv PROVE PodCountListed
  <2> SUFFICES ASSUME phase = "sample", Tracked(pods) # {}, NEW v \in Tracked(vpas)
               PROVE  vpas[v].podCount = Cardinality({p \in Tracked(listedPods) :
                                                listedPods[p].labels \in vpas[v].selector})
    BY DEF PodCountListed
  <2>1. v \in VPAs /\ vpas[v] # None
    BY <1>1 DEF Tracked, IInv, TypeOK
  <2>2. Tracked(pods) \subseteq Tracked(listedPods) /\ \A p \in Tracked(listedPods) : Loaded(p)
    BY <1>1 DEF LoadInv, ListingSeen
  <2>3. Matching(pods, vpas[v].selector) =
            {p \in Tracked(listedPods) : listedPods[p].labels \in vpas[v].selector}
    <3>1. ASSUME NEW p \in Tracked(listedPods), listedPods[p].labels \in vpas[v].selector
          PROVE  p \in Matching(pods, vpas[v].selector)
      <4>1. v \in MatchingVPAs(listedPods[p].labels)
        BY <3>1 DEF MatchingVPAs
      <4>2. pods[p] # None /\ pods[p].labels = listedPods[p].labels
        BY <2>2, <4>1 DEF Loaded
      <4> QED
        BY <1>1, <3>1, <4>2 DEF Matching, Tracked, IInv, TypeOK
    <3>2. ASSUME NEW p \in Matching(pods, vpas[v].selector)
          PROVE  p \in Tracked(listedPods) /\ listedPods[p].labels \in vpas[v].selector
      BY <2>2 DEF Matching, Loaded, Tracked
    <3> QED
      BY <3>1, <3>2
  <2> QED
    BY <1>1, <2>1, <2>3 DEF IInv, Exact, CountExact
<1> QED
  BY <1>1, LoadInvariant, Invariant, PTL

(* The request the rules compare with is of a pod that is listed, although *)
(* aggregations outlive their pods: the last observed is one LoadPods saw. *)
THEOREM ObservedRequestsListed == SaverKeepsLabels /\ Spec => []ObservedRequestListed
<1>1. ASSUME IInv, LoadInv, RequestsInv PROVE ObservedRequestListed
  <2> DEFINE labels == {listedPods[p].labels : p \in Tracked(listedPods)}
  <2> SUFFICES ASSUME phase = "sample", Tracked(pods) # {}, NEW v \in Tracked(vpas),
                      labels \cap vpas[v].selector # {}
               PROVE  LastObserved(vpas[v].selector) \in labels \cap vpas[v].selector
    BY DEF ObservedRequestListed
  <2> DEFINE selector == vpas[v].selector
             seen == Observed \cap selector
  <2>1. v \in VPAs /\ vpas[v] # None
    BY <1>1 DEF Tracked, IInv, TypeOK
  <2>2. todo = {} /\ \A p \in Tracked(listedPods) : Loaded(p)
    BY <1>1 DEF LoadInv, ListingSeen
  <2>3. Refreshed \subseteq labels
    BY DEF Refreshed
  <2>4. labels \cap selector \subseteq Refreshed
    <3> SUFFICES ASSUME NEW p \in Tracked(listedPods), listedPods[p].labels \in selector
                 PROVE  listedPods[p].labels \in Refreshed
      OBVIOUS
    <3>1. v \in MatchingVPAs(listedPods[p].labels)
      BY DEF MatchingVPAs
    <3>2. pods[p] # None /\ ~Skipped(p)
      BY <2>2, <3>1 DEF Loaded, Skipped
    <3> QED
      BY <2>2, <3>2 DEF Refreshed
  <2>5. Refreshed \subseteq Observed /\ \A g \in Refreshed, h \in Groups \ Refreshed : <<h, g>> \notin requests
    BY <1>1 DEF RequestsInv, RefreshedLast
  <2>6. Observed \subseteq Groups
    BY <1>1 DEF Observed, IInv, TypeOK
  <2> HIDE DEF labels, selector
  <2>7. seen # {} /\ seen \subseteq Observed
    BY <2>4, <2>5 DEF selector
  <2>8. \E g \in seen : \A h \in seen : <<g, h>> \in requests
    BY <1>1, <2>7 DEF RequestsInv, WellOrdered
  <2>9. LastObserved(selector) \in seen /\ \A h \in seen : <<LastObserved(selector), h>> \in requests
    BY <2>7, <2>8 DEF LastObserved
  <2>10. PICK h \in labels \cap selector : h \in Refreshed /\ h \in seen
    BY <2>4, <2>5 DEF selector
  <2>11. LastObserved(selector) \in Refreshed
    BY <2>5, <2>6, <2>9, <2>10
  <2> QED
    BY <2>3, <2>9, <2>11 DEF selector
<1> QED
  BY <1>1, LoadInvariant, Invariant, PTL
=============================================================================
