-------------------------- MODULE ClusterProperties --------------------------
(***************************************************************************)
(* What makes the recommender's memory of the cluster correct.             *)
(***************************************************************************)
EXTENDS ClusterModel

\* Type invariant.
TypeOK ==
    /\ listedPods \in [Pods -> PodSpec \cup {None}]
    /\ listedVPAs \in [VPAs -> VpaSpec \cup {None}]
    /\ memorySaver \in BOOLEAN
    /\ pods \in [Pods -> Pod \cup {None}]
    /\ vpas \in [VPAs -> Vpa \cup {None}]
    /\ aggs \in [Groups -> Ids \cup {None}]
    /\ objects \in [Ids -> Aggregate]
    /\ requests \subseteq Groups \X Groups
    /\ phase \in Phases
    /\ todo \subseteq Pods \cup VPAs
    /\ steps \in Budget

(* Vpa.PodCount is kept up to date one pod at a time, GetMatchingPods      *)
(* counts: routines/recommender.go:119-121 reports when the two disagree.  *)
PodCountExact ==
    \A v \in Tracked(vpas) : vpas[v].podCount = Cardinality(MatchingPods(vpas[v].selector))

(* A VPA's aggregations are those of aggregateStateMap that match it, the  *)
(* same objects: none is missed, outlives its collection in a VPA, or is   *)
(* replaced there by another one of the same key.                          *)
LinksExact ==
    \A v \in Tracked(vpas) : \A g \in Groups :
        vpas[v].uses[g] = IF g \in vpas[v].selector THEN aggs[g] ELSE None

(* routines/recommender.go:113 asks whether PodCount > 0 after the pods of *)
(* a cycle are loaded, while VPAs were loaded before them.  Then it counts *)
(* the pods listed, finished ones too, with the labels they have now,      *)
(* unless the listing failed and every pod was forgotten.                  *)
PodCountListed ==
    phase = "sample" /\ Tracked(pods) # {} =>
        \A v \in Tracked(vpas) :
            vpas[v].podCount = Cardinality({p \in Tracked(listedPods) :
                                                listedPods[p].labels \in vpas[v].selector})

(* The rules compare a recommendation with the last request observed in any*)
(* aggregation of the VPA, and aggregations outlive their pods.  After     *)
(* LoadPods that request is of a pod that is still listed, finished or not,*)
(* when the VPA has one.                                                   *)
ObservedRequestListed ==
    phase = "sample" /\ Tracked(pods) # {} =>
        \A v \in Tracked(vpas) :
            LET seen == {listedPods[p].labels : p \in Tracked(listedPods)} \cap vpas[v].selector
            IN  seen # {} => LastObserved(vpas[v].selector) \in seen

\* An aggregation counts as controlled by a VPA only while some VPA uses it.
MarkedIsControlled ==
    \A g \in Groups : aggs[g] # None /\ objects[aggs[g]].underVPA => MatchingVPAs(g) # {}
=============================================================================
