---------------------------- MODULE ClusterModel -----------------------------
(***************************************************************************)
(* The recommender's memory of the cluster: the pods, the VPAs and the     *)
(* aggregated usage of containers, and the feeder that reconciles it with  *)
(* the listers once per cycle.  The cycle is sequential and a listing is   *)
(* one snapshot, so the cluster changes only where the next listing can    *)
(* tell: between two cycles and between the listings of VPAs and pods.     *)
(*                                                                         *)
(* A group stands for a namespace and a set of labels, a selector for the  *)
(* groups it matches.  Every pod has one container, so that a group is the *)
(* key of one aggregation.  Ids stand for pointers to aggregations.        *)
(***************************************************************************)
EXTENDS Integers, FiniteSets

CONSTANTS
    Pods, VPAs, Groups,
    Ids,           \* pointers to AggregateContainerStates
    Proxy,         \* a ContainerStateAggregatorProxy, which looks its key up
    None,
    Scenarios      \* the flags, what is listed at the start, and the changes that may follow

VARIABLES
    listedPods, listedVPAs,   \* what the listers return
    memorySaver,              \* the flag --memory-saver
    pods, vpas,               \* clusterState.pods and .vpas
    aggs,                     \* clusterState.aggregateStateMap
    objects,                  \* the AggregateContainerStates pointed to
    requests,                 \* <<g, h>>: g's request was observed, no earlier than h's
    phase, todo,              \* where the cycle is, and what its loop has left
    steps                     \* changes that may still happen

inputs  == <<listedPods, listedVPAs, memorySaver>>
cluster == <<pods, vpas, aggs, objects, requests>>
vars    == <<inputs, cluster, phase, todo, steps>>

PodSpec == [labels : Groups, active : BOOLEAN]
VpaSpec == [selector : SUBSET Groups]
Pod == [labels : Groups, active : BOOLEAN, aggregator : Ids \cup {Proxy}]
Vpa == [selector : SUBSET Groups, podCount : Nat, uses : [Groups -> Ids \cup {None}]]

\* sampled: not isEmpty; fresh: not isExpired; underVPA: IsUnderVPA.
Aggregate == [sampled : BOOLEAN, fresh : BOOLEAN, underVPA : BOOLEAN]
NewAggregate == [sampled |-> FALSE, fresh |-> TRUE, underVPA |-> FALSE]

EnvSteps == {"pod", "relabel", "finish", "gone", "vpa", "selector",
             "expire", "fail"}
Phases == {"idle", "addVPAs", "deleteVPAs", "listPods", "deletePods", "addPods", "sample"}
Start == [pods : [Pods -> PodSpec \cup {None}], vpas : [VPAs -> VpaSpec \cup {None}],
          memorySaver : BOOLEAN]
Budget == [allowed : SUBSET EnvSteps, left : Nat]

ASSUME ClusterAssumption ==
    /\ IsFiniteSet(Pods)
    /\ None \notin Ids \cup PodSpec \cup VpaSpec \cup Pod \cup Vpa
    /\ Proxy \notin Ids
    /\ Scenarios \subseteq [start : Start, steps : Budget]
-----------------------------------------------------------------------------
Tracked(objs) == {x \in DOMAIN objs : objs[x] # None}

\* GetMatchingPods.
MatchingPods(selector) == {p \in Tracked(pods) : pods[p].labels \in selector}

MatchingVPAs(g) == {v \in Tracked(vpas) : g \in vpas[v].selector}

\* The pointer to g's aggregation, or one to a new AggregateContainerState.
Candidates(g) ==
    IF aggs[g] # None THEN {aggs[g]}
    ELSE {i \in Ids : /\ \A h \in Groups : aggs[h] # i
                      /\ \A p \in Tracked(pods) : pods[p].aggregator # i}

(* findOrCreateAggregateContainerState(g) in three parts, i being one of   *)
(* Candidates(g): the map, the objects and the VPAs it leaves.             *)
Mapped(g, i) == [aggs EXCEPT ![g] = i]

Created(g, i) ==
    IF aggs[g] # None THEN objects
    ELSE [objects EXCEPT ![i] = [NewAggregate EXCEPT !.underVPA = MatchingVPAs(g) # {}]]

\* Seeded bug: every VPA uses every new aggregation.
UseAggregationIfMatchingSeeded(vpa, g, i) == [vpa EXCEPT !.uses[g] = i]

UseAggregationIfMatching(vpa, g, i) ==
    IF vpa.uses[g] = None /\ g \in vpa.selector THEN [vpa EXCEPT !.uses[g] = i] ELSE vpa

Linked(vpa, g, i) == IF aggs[g] # None THEN vpa ELSE UseAggregationIfMatching(vpa, g, i)

\* Seeded bug: an aggregation that loses its VPA still counts as controlled.
MarkNotAutoscaledSeeded(ids) == objects

MarkNotAutoscaled(ids) ==
    [i \in Ids |-> IF i \in ids THEN [objects[i] EXCEPT !.underVPA = FALSE] ELSE objects[i]]

\* removePodFromItsVpa and addPodToItsVpa, for one VPA and a pod labelled g.
RemovePod(vpa, g) ==
    IF g \in vpa.selector THEN [vpa EXCEPT !.podCount = @ - 1] ELSE vpa

\* Seeded bug: a copy of the other one's body.
AddPodSeeded(vpa, g) == RemovePod(vpa, g)

AddPod(vpa, g) ==
    IF g \in vpa.selector THEN [vpa EXCEPT !.podCount = @ + 1] ELSE vpa

\* Seeded bug: a collected aggregation stays with the VPAs that use it.
DeleteAggregationsSeeded(vpa, groups) == vpa

DeleteAggregations(vpa, groups) ==
    [vpa EXCEPT !.uses = [g \in Groups |-> IF g \in groups THEN None ELSE @[g]]]

Uses(v) == {vpas[v].uses[g] : g \in Groups} \ {None}

(* The time of an observation matters only against the others' when the    *)
(* aggregations of a VPA are merged: the latest is kept.                   *)
Observed == {r[1] : r \in requests}

ObserveRequest(g) ==
    {r \in requests : r[1] # g /\ r[2] # g} \cup ({g} \X (Observed \cup {g}))

\* Seeded bug: merging keeps the earliest observation, Before instead of After.
LastObservedSeeded(selector) ==
    LET seen == Observed \cap selector
    IN  IF seen = {} THEN None
        ELSE CHOOSE g \in seen : \A h \in seen : <<h, g>> \in requests

LastObserved(selector) ==
    LET seen == Observed \cap selector
    IN  IF seen = {} THEN None
        ELSE CHOOSE g \in seen : \A h \in seen : <<g, h>> \in requests
-----------------------------------------------------------------------------
Init ==
    \E s \in Scenarios :
        /\ listedPods = s.start.pods /\ listedVPAs = s.start.vpas
        /\ memorySaver = s.start.memorySaver /\ steps = s.steps
        /\ pods = [p \in Pods |-> None]
        /\ vpas = [v \in VPAs |-> None]
        /\ aggs = [g \in Groups |-> None]
        /\ objects = [i \in Ids |-> NewAggregate]
        /\ requests = {}
        /\ phase = "idle" /\ todo = {}

Spend(kind) ==
    /\ kind \in steps.allowed /\ steps.left > 0
    /\ steps' = [steps EXCEPT !.left = @ - 1]

\* The cluster changes: pods come, are relabelled, finish and go.
PodChanges(p) ==
    /\ phase \in {"idle", "listPods"}
    /\ \/ /\ Spend("pod") /\ listedPods[p] = None
          /\ \E g \in Groups :
                listedPods' = [listedPods EXCEPT ![p] = [labels |-> g, active |-> TRUE]]
       \/ /\ Spend("relabel") /\ listedPods[p] # None
          /\ \E g \in Groups \ {listedPods[p].labels} :
                listedPods' = [listedPods EXCEPT ![p].labels = g]
       \/ /\ Spend("finish") /\ listedPods[p] # None /\ listedPods[p].active
          /\ listedPods' = [listedPods EXCEPT ![p].active = FALSE]
       \/ /\ Spend("gone") /\ listedPods[p] # None
          /\ listedPods' = [listedPods EXCEPT ![p] = None]
    /\ UNCHANGED <<listedVPAs, memorySaver, cluster, phase, todo>>

\* A VPA is created, deleted, or its target selects other pods.
VPAChanges(v) ==
    /\ phase \in {"idle", "listPods"}
    /\ \/ /\ Spend("vpa")
          /\ \E x \in IF listedVPAs[v] = None THEN VpaSpec ELSE {None} :
                listedVPAs' = [listedVPAs EXCEPT ![v] = x]
       \/ /\ Spend("selector") /\ listedVPAs[v] # None
          /\ \E x \in VpaSpec \ {listedVPAs[v]} :
                listedVPAs' = [listedVPAs EXCEPT ![v] = x]
    /\ UNCHANGED <<listedPods, memorySaver, cluster, phase, todo>>

\* The memory window, eight days, passes without a CPU sample in an aggregation.
Expire(i) ==
    /\ phase = "idle" /\ Spend("expire") /\ objects[i].fresh
    /\ \E g \in Groups : aggs[g] = i
    /\ objects' = [objects EXCEPT ![i].fresh = FALSE]
    /\ UNCHANGED <<inputs, pods, vpas, aggs, requests, phase, todo>>
-----------------------------------------------------------------------------
\* LoadVPAs lists the VPAs, adds or updates them, then deletes the others.
LoadVPAs ==
    /\ phase = "idle" /\ phase' = "addVPAs"
    /\ todo' = Tracked(listedVPAs)
    /\ UNCHANGED <<inputs, cluster, steps>>

(* A VPA whose selector changed is deleted and added: MarkNotAutoscaled    *)
(* first, then the links, each of which sets IsUnderVPA.                   *)
AddOrUpdateVpa(v) ==
    /\ phase = "addVPAs" /\ v \in todo /\ todo' = todo \ {v}
    /\ LET selector == listedVPAs[v].selector
           new == [selector |-> selector,
                   podCount |-> Cardinality(MatchingPods(selector)),
                   uses |-> [g \in Groups |-> IF g \in selector THEN aggs[g] ELSE None]]
           left == IF vpas[v] = None THEN {} ELSE Uses(v)
           marked == MarkNotAutoscaled(left)
       IN  IF vpas[v] # None /\ vpas[v].selector = selector
           THEN UNCHANGED <<vpas, objects>>
           ELSE /\ vpas' = [vpas EXCEPT ![v] = new]
                /\ objects' = [i \in Ids |->
                        IF \E g \in selector : aggs[g] = i
                        THEN [marked[i] EXCEPT !.underVPA = TRUE] ELSE marked[i]]
    /\ UNCHANGED <<inputs, pods, aggs, requests, phase, steps>>

VPAsAdded ==
    /\ phase = "addVPAs" /\ todo = {} /\ phase' = "deleteVPAs"
    /\ UNCHANGED <<inputs, cluster, todo, steps>>

DeleteVpa(v) ==
    /\ phase = "deleteVPAs" /\ vpas[v] # None /\ listedVPAs[v] = None
    /\ objects' = MarkNotAutoscaled(Uses(v))
    /\ vpas' = [vpas EXCEPT ![v] = None]
    /\ UNCHANGED <<inputs, pods, aggs, requests, phase, todo, steps>>

VPAsLoaded ==
    /\ phase = "deleteVPAs" /\ Tracked(vpas) \subseteq Tracked(listedVPAs)
    /\ phase' = "listPods"
    /\ UNCHANGED <<inputs, cluster, todo, steps>>

\* LoadPods lists the pods; a failing call is logged and lists none.
LoadPods ==
    /\ phase = "listPods" /\ phase' = "deletePods"
    /\ \/ todo' = Tracked(listedPods) /\ UNCHANGED steps
       \/ todo' = {} /\ Spend("fail")
    /\ UNCHANGED <<inputs, cluster>>

DeletePod(p) ==
    /\ phase = "deletePods" /\ pods[p] # None /\ p \notin todo
    /\ vpas' = [v \in VPAs |->
            IF vpas[v] = None THEN None ELSE RemovePod(vpas[v], pods[p].labels)]
    /\ pods' = [pods EXCEPT ![p] = None]
    /\ UNCHANGED <<inputs, aggs, objects, requests, phase, todo, steps>>

PodsDeleted ==
    /\ phase = "deletePods" /\ Tracked(pods) \subseteq todo /\ phase' = "addPods"
    /\ UNCHANGED <<inputs, cluster, todo, steps>>

\* In memory-saver mode a pod no VPA matches is passed over.
\* Seeded bug: the flag is not asked.
SkippedSeeded(p) == MatchingVPAs(listedPods[p].labels) = {}

Skipped(p) == memorySaver /\ MatchingVPAs(listedPods[p].labels) = {}

SkipPod(p) ==
    /\ phase = "addPods" /\ p \in todo /\ Skipped(p) /\ todo' = todo \ {p}
    /\ UNCHANGED <<inputs, cluster, phase, steps>>

(* AddOrUpdatePod and then AddOrUpdateContainer.  A new container looks its*)
(* aggregation up through a proxy; a relabelled pod moves from the VPAs of *)
(* its old labels to those of the new, and its container keeps the pointer.*)
Relabelled(p) == pods[p] # None /\ pods[p].labels # listedPods[p].labels

\* Seeded bug: a relabelled pod is not taken out of the VPAs of its old labels.
RecountedSeeded(vpa, p) ==
    IF pods[p] = None \/ Relabelled(p) THEN AddPod(vpa, listedPods[p].labels) ELSE vpa

Recounted(vpa, p) ==
    IF pods[p] = None THEN AddPod(vpa, listedPods[p].labels)
    ELSE IF Relabelled(p)
    THEN AddPod(RemovePod(vpa, pods[p].labels), listedPods[p].labels)
    ELSE vpa

Aggregator(p, i) ==
    IF pods[p] = None THEN Proxy ELSE IF Relabelled(p) THEN i ELSE pods[p].aggregator

AddOrUpdatePod(p, i) ==
    LET new == listedPods[p].labels
    IN  /\ phase = "addPods" /\ p \in todo /\ ~Skipped(p) /\ todo' = todo \ {p}
        /\ i \in Candidates(new)
        /\ pods' = [pods EXCEPT ![p] = [labels |-> new, active |-> listedPods[p].active,
                                        aggregator |-> Aggregator(p, i)]]
        /\ aggs' = Mapped(new, i)
        /\ objects' = Created(new, i)
        /\ vpas' = [v \in VPAs |-> IF vpas[v] = None THEN None
                                   ELSE Linked(Recounted(vpas[v], p), new, i)]
        /\ requests' = ObserveRequest(new)
        /\ UNCHANGED <<inputs, phase, steps>>

PodsLoaded ==
    /\ phase = "addPods" /\ todo = {} /\ phase' = "sample"
    /\ UNCHANGED <<inputs, cluster, todo, steps>>

\* LoadRealTimeMetrics has a CPU sample of p's container.
AddSample(p, i) ==
    /\ phase = "sample" /\ pods[p] # None
    /\ IF pods[p].aggregator = Proxy
       THEN LET g == pods[p].labels
            IN  /\ i \in Candidates(g)
                /\ aggs' = Mapped(g, i)
                /\ objects' = [Created(g, i) EXCEPT ![i].sampled = TRUE, ![i].fresh = TRUE]
                /\ vpas' = [v \in VPAs |-> IF vpas[v] = None THEN None
                                           ELSE Linked(vpas[v], g, i)]
       ELSE /\ i = pods[p].aggregator
            /\ objects' = [objects EXCEPT ![i].sampled = TRUE, ![i].fresh = TRUE]
            /\ UNCHANGED <<aggs, vpas>>
    /\ UNCHANGED <<inputs, pods, requests, phase, todo, steps>>

(* Whether a finished pod's controller still exists, the controller fetcher*)
(* says; it is asked only for a pod that some VPA matches.                 *)
ContributiveKeys(controlled) ==
    {pods[p].labels : p \in {q \in Tracked(pods) : pods[q].active \/ q \in controlled}}

Obsolete(contributive) ==
    {g \in Groups : aggs[g] # None /\ \/ g \notin contributive /\ ~objects[aggs[g]].sampled
                                      \/ ~objects[aggs[g]].fresh}

GarbageCollect ==
    /\ phase = "sample" /\ phase' = "idle"
    /\ \E controlled \in SUBSET {p \in Tracked(pods) : MatchingVPAs(pods[p].labels) # {}} :
        LET obsolete == Obsolete(ContributiveKeys(controlled))
            unlinked == UNION {Uses(v) : v \in Tracked(vpas)} \cap {aggs[g] : g \in obsolete}
        IN  /\ aggs' = [g \in Groups |-> IF g \in obsolete THEN None ELSE aggs[g]]
            /\ objects' = MarkNotAutoscaled(unlinked)
            /\ vpas' = [v \in VPAs |-> IF vpas[v] = None THEN None
                                       ELSE DeleteAggregations(vpas[v], obsolete)]
            /\ requests' = {r \in requests : r[1] \notin obsolete /\ r[2] \notin obsolete}
    /\ UNCHANGED <<inputs, pods, todo, steps>>

\* The collection is rate limited: most cycles end without one.
EndCycle ==
    /\ phase = "sample" /\ phase' = "idle"
    /\ UNCHANGED <<inputs, cluster, todo, steps>>

Next ==
    \/ \E p \in Pods : PodChanges(p) \/ DeletePod(p) \/ SkipPod(p)
    \/ \E p \in Pods, i \in Ids : AddOrUpdatePod(p, i) \/ AddSample(p, i)
    \/ \E v \in VPAs : VPAChanges(v) \/ AddOrUpdateVpa(v) \/ DeleteVpa(v)
    \/ \E i \in Ids : Expire(i)
    \/ LoadVPAs \/ VPAsAdded \/ VPAsLoaded
    \/ LoadPods \/ PodsDeleted \/ PodsLoaded
    \/ GarbageCollect \/ EndCycle

Spec == Init /\ [][Next]_vars
=============================================================================
