------------------------------- MODULE Updater -------------------------------
(***************************************************************************)
(* The updater's loop for one VPA and the StatefulSet it targets: it lists *)
(* the pods, resizes outdated ones in place and evicts others, within the  *)
(* budget of what it listed, while pods start, go, and resize or get stuck.*)
(*                                                                         *)
(* A pod's resources are the number of the recommendation they follow.  A  *)
(* StatefulSet gives the names of pods that went to new ones.              *)
(***************************************************************************)
EXTENDS Integers, FiniteSets

CONSTANTS
    Pods,                               \* names
    Tolerance(_),                       \* int(configured * evictionToleranceFraction)
    DeferredTimeout, InProgressTimeout, \* the fallback timeouts, in ticks
    None,
    Scenarios                           \* the configuration, and the changes that may happen

VARIABLES
    config,     \* flags, and what the VPA's and the pods' specifications say
    replicas,   \* spec.replicas
    rec,        \* the VPA's recommendation
    pods,       \* the pods of the API server
    view,       \* the pods as the loop listed them
    target,     \* the recommendation as the loop listed it
    stats,      \* singleGroupStats
    resizes,    \* podsForInPlace, and
    evictions,  \* podsForEviction, as far as the loop has not come to them
    age,        \* per name, the time since lastInPlaceAttemptTimeMap was set
    lost,       \* history: running pods the loop lost without counting them
    phase, steps

world == <<config, replicas, rec, pods>>
loop  == <<view, target, stats, resizes, evictions, phase>>
vars  == <<world, loop, age, lost, steps>>

\* What the conditions PodResizePending and PodResizeInProgress say.
Stuck  == {"deferred", "infeasible", "inProgress", "error"}
Resize == {"none", "requested"} \cup Stuck

Pod == [running : BOOLEAN, has : Nat, wants : Nat, resize : Resize]

\* skipBudget: --in-place-skip-disruption-budget; restarts: RestartContainer.
Config == [inPlace : BOOLEAN, skipBudget : BOOLEAN, restarts : BOOLEAN, minReplicas : Nat]

\* grouped: the group passed the checks of GetCreatorMaps.
Stats == [grouped : BOOLEAN, belowMin : BOOLEAN, configured : 0..Cardinality(Pods),
          running : 0..Cardinality(Pods), evicted : Nat, initiated : Nat]

NoStats == [grouped |-> FALSE, belowMin |-> FALSE, configured |-> 0,
            running |-> 0, evicted |-> 0, initiated |-> 0]

EnvSteps == {"recommend", "disrupt", "scale", "webhook", "fault", "deadline", "restart"}
Budget == [allowed : SUBSET EnvSteps, left : Nat]

MaxAge == InProgressTimeout + 1

ASSUME UpdaterAssumption ==
    /\ IsFiniteSet(Pods)
    /\ \A n \in 0..Cardinality(Pods) : Tolerance(n) \in 0..n
    /\ DeferredTimeout \in Nat /\ InProgressTimeout \in Nat
    /\ DeferredTimeout <= InProgressTimeout
    /\ None \notin Pod \cup Nat
    /\ Scenarios \subseteq [config : Config, running : SUBSET Pods, steps : Budget]
-----------------------------------------------------------------------------
Live(ps) == {p \in Pods : ps[p] # None}
Running(ps) == {p \in Live(ps) : ps[p].running}

isInPlaceUpdating(pod) == pod.resize \in Stuck

\* isPodDisruptable.
\* Seeded bug: what was evicted before is not counted.
DisruptableSeeded ==
    stats.running - stats.initiated > stats.configured - Tolerance(stats.configured)

Disruptable ==
    \/ stats.running - (stats.evicted + stats.initiated)
            > stats.configured - Tolerance(stats.configured)
    \/ /\ stats.configured = stats.running /\ Tolerance(stats.configured) = 0
       /\ stats.evicted = 0 /\ stats.initiated = 0

\* CanEvictInPlacingPod: whether the resize failed.
ResizeFailed(p) ==
    \/ view[p].resize \in {"infeasible", "error"}
    \/ view[p].resize = "deferred" /\ age[p] > DeferredTimeout
    \/ view[p].resize = "inProgress" /\ age[p] > InProgressTimeout

CanEvict(p) ==
    /\ stats.grouped
    /\ \/ ~view[p].running
       \/ /\ ~stats.belowMin /\ Disruptable
          /\ isInPlaceUpdating(view[p]) => ResizeFailed(p)

\* CanInPlaceUpdate is one of approved and evict, or deferred when neither.
Approved(p) ==
    /\ stats.grouped /\ view[p].running /\ ~isInPlaceUpdating(view[p])
    /\ (config.skipBudget /\ ~config.restarts) \/ Disruptable

FallsBack(p) ==
    /\ stats.grouped /\ view[p].running /\ isInPlaceUpdating(view[p])
    /\ Disruptable /\ ResizeFailed(p)
-----------------------------------------------------------------------------
Started(r) == [running |-> FALSE, has |-> r, wants |-> r, resize |-> "none"]

Init ==
    \E s \in Scenarios :
        /\ config = s.config /\ replicas = Cardinality(s.running) /\ steps = s.steps
        /\ rec = 1 /\ target = 0
        /\ pods = [p \in Pods |-> IF p \in s.running THEN [Started(0) EXCEPT !.running = TRUE]
                                  ELSE None]
        /\ view = [p \in Pods |-> None]
        /\ stats = NoStats /\ resizes = {} /\ evictions = {}
        /\ age = [p \in Pods |-> None] /\ lost = 0
        /\ phase = "idle"

Spend(kind) ==
    /\ kind \in steps.allowed /\ steps.left > 0
    /\ steps' = [steps EXCEPT !.left = @ - 1]

Recommend ==
    /\ Spend("recommend") /\ rec' = rec + 1
    /\ UNCHANGED <<config, replicas, pods, loop, age, lost>>

Scale ==
    /\ Spend("scale") /\ \E n \in 0..Cardinality(Pods) : n # replicas /\ replicas' = n
    /\ UNCHANGED <<config, rec, pods, loop, age, lost>>

\* The StatefulSet creates pods, which the admission controller gives the
\* recommendation, unless its webhook fails and is ignored.
Create(p) ==
    /\ pods[p] = None /\ Cardinality(Live(pods)) < replicas
    /\ \/ pods' = [pods EXCEPT ![p] = Started(rec)] /\ UNCHANGED steps
       \/ \E r \in 0..(rec - 1) : pods' = [pods EXCEPT ![p] = Started(r)] /\ Spend("webhook")
    /\ UNCHANGED <<config, replicas, rec, loop, age, lost>>

\* A running pod that goes while the loop runs is one it does not know of.
Loss(p) == IF phase = "busy" /\ pods[p].running THEN 1 ELSE 0

Goes(p) ==
    /\ pods[p] # None /\ pods' = [pods EXCEPT ![p] = None]
    /\ lost' = lost + Loss(p)
    /\ UNCHANGED <<config, replicas, rec, loop, age>>

\* The StatefulSet deletes a pod too many; something else takes a pod.
Delete(p) == Cardinality(Live(pods)) > replicas /\ Goes(p) /\ UNCHANGED steps

Disrupt(p) == Spend("disrupt") /\ Goes(p)

\* The kubelet starts a pod and reacts to a resize, which may be stuck for good.
Start(p) ==
    /\ pods[p] # None /\ ~pods[p].running
    /\ pods' = [pods EXCEPT ![p].running = TRUE]
    /\ UNCHANGED <<config, replicas, rec, loop, age, lost, steps>>

React(p) ==
    /\ pods[p] # None /\ pods[p].resize = "requested"
    /\ \E r \in Stuck \ {"error"} : pods' = [pods EXCEPT ![p].resize = r]
    /\ UNCHANGED <<config, replicas, rec, loop, age, lost, steps>>

Proceed(p) ==
    /\ pods[p] # None
    /\ \/ /\ pods[p].resize = "deferred"
          /\ \E r \in {"infeasible", "inProgress"} : pods' = [pods EXCEPT ![p].resize = r]
       \/ /\ pods[p].resize = "inProgress"
          /\ pods' = [pods EXCEPT ![p].resize = "error"]
       \/ /\ pods[p].resize = "inProgress"
          /\ pods' = [pods EXCEPT ![p].resize = "none", ![p].has = pods[p].wants]
    /\ UNCHANGED <<config, replicas, rec, loop, age, lost, steps>>

\* Time is counted only as far as a timeout can tell.
Tick ==
    /\ \E p \in Pods : age[p] # None /\ age[p] < MaxAge
    /\ age' = [p \in Pods |-> IF age[p] # None /\ age[p] < MaxAge THEN age[p] + 1 ELSE age[p]]
    /\ UNCHANGED <<world, loop, lost, steps>>
-----------------------------------------------------------------------------
(* GetCreatorMaps: a group of too few pods is left out, unless the check is*)
(* skipped; then it is only marked.                                        *)
GroupStats(ps) ==
    LET few == Cardinality(Live(ps)) < config.minReplicas
    IN  IF replicas = 0 \/ (few /\ ~(config.inPlace /\ config.skipBudget))
        THEN NoStats
        ELSE [grouped |-> TRUE, belowMin |-> few, configured |-> replicas,
              running |-> Cardinality(Running(ps)), evicted |-> 0, initiated |-> 0]

\* Seeded bug: the time of a resize is taken anew whenever it is looked at.
FirstSeenSeeded(ps) ==
    [p \in Pods |-> IF ps[p] # None /\ isInPlaceUpdating(ps[p]) THEN 0 ELSE age[p]]

(* The filters ask CanEvict or CanInPlaceUpdate of every pod, and so take  *)
(* the time of a resize when they first meet it under the pod's name.      *)
FirstSeen(ps) ==
    [p \in Pods |-> IF age[p] = None /\ ps[p] # None /\ ps[p].running
                       /\ isInPlaceUpdating(ps[p]) THEN 0 ELSE age[p]]

(* RunOnce up to the loops: the pods that need an update, in an order the  *)
(* model leaves open, that can be resized, or evicted.                     *)
Outdated(ps) == {p \in Live(ps) : ps[p].has # rec}

ListPods ==
    /\ phase = "idle" /\ phase' = "busy"
    /\ UNCHANGED world
    /\ view' = pods /\ target' = rec
    /\ stats' = GroupStats(view')
    /\ age' = IF stats'.grouped /\ (config.inPlace \/ ~stats'.belowMin)
              THEN FirstSeen(view') ELSE age
    /\ resizes' = {p \in Outdated(view') : config.inPlace /\ (Approved(p)' \/ FallsBack(p)')}
    /\ evictions' = {p \in Outdated(view') : ~config.inPlace /\ CanEvict(p)'}
    /\ UNCHANGED <<lost, steps>>

\* The patch of the resize subresource; one that changes nothing has no effect.
Patched(p) ==
    IF pods[p].wants = target THEN pods
    ELSE [pods EXCEPT ![p].wants = target,
                      ![p].resize = IF pods[p].has = target THEN "none" ELSE "requested"]

Resized(p) ==
    /\ pods[p] # None /\ pods' = Patched(p)
    /\ stats' = [stats EXCEPT !.initiated = @ + 1]
    /\ UNCHANGED <<evictions, steps>>

\* The patch fails, with or without effect: the pod is to be evicted.
NotResized(p) ==
    /\ \/ pods[p] = None /\ UNCHANGED <<pods, steps>>
       \/ pods[p] # None /\ pods' \in {pods, Patched(p)} /\ Spend("fault")
    /\ evictions' = evictions \cup {p}
    /\ UNCHANGED stats

InPlace(p) ==
    /\ p \in resizes /\ resizes' = resizes \ {p}
    /\ \/ Approved(p) /\ (Resized(p) \/ NotResized(p))
       \/ FallsBack(p) /\ evictions' = evictions \cup {p} /\ UNCHANGED <<pods, stats, steps>>
       \/ ~Approved(p) /\ ~FallsBack(p) /\ UNCHANGED <<pods, stats, evictions, steps>>
    /\ UNCHANGED <<config, replicas, rec, view, target, phase, age, lost>>

\* The API evicts a pod by its name; only a pod that was running is counted.
Counted(p) == IF view[p].running THEN [stats EXCEPT !.evicted = @ + 1] ELSE stats

Evicted(p) ==
    /\ pods[p] # None /\ pods' = [pods EXCEPT ![p] = None]
    /\ stats' = Counted(p)
    /\ lost' = IF view[p].running THEN lost ELSE lost + Loss(p)
    /\ UNCHANGED steps

\* The pod is gone, or the call fails, with or without effect.
NotEvicted(p) ==
    /\ \/ pods[p] = None /\ UNCHANGED <<pods, lost, steps>>
       \/ pods[p] # None /\ Spend("fault") /\ UNCHANGED <<pods, lost>>
       \/ /\ pods[p] # None /\ Spend("fault")
          /\ pods' = [pods EXCEPT ![p] = None] /\ lost' = lost + Loss(p)
    /\ UNCHANGED stats

Evict(p) ==
    /\ resizes = {} /\ p \in evictions /\ evictions' = evictions \ {p}
    /\ \/ CanEvict(p) /\ (Evicted(p) \/ NotEvicted(p))
       \/ ~CanEvict(p) /\ UNCHANGED <<pods, stats, lost, steps>>
    /\ UNCHANGED <<config, replicas, rec, view, target, resizes, phase, age>>

\* Seeded bug: what the loop had left is still there for the next one.
EndsSeeded ==
    /\ phase' = "idle" /\ UNCHANGED <<resizes, evictions>>
    /\ view' = [p \in Pods |-> None] /\ target' = 0 /\ stats' = NoStats /\ lost' = 0

Ends ==
    /\ phase' = "idle" /\ resizes' = {} /\ evictions' = {}
    /\ view' = [p \in Pods |-> None] /\ target' = 0 /\ stats' = NoStats /\ lost' = 0

\* The loop is through, or its deadline passes while it waits for a rate limiter.
Done ==
    /\ phase = "busy" /\ Ends
    /\ \/ resizes = {} /\ evictions = {} /\ UNCHANGED steps
       \/ resizes \cup evictions # {} /\ Spend("deadline")
    /\ UNCHANGED <<world, age>>

Restart ==
    /\ Spend("restart") /\ Ends
    /\ age' = [p \in Pods |-> None]
    /\ UNCHANGED world
-----------------------------------------------------------------------------
Works == ListPods \/ (\E p \in Pods : InPlace(p) \/ Evict(p)) \/ Done

Next ==
    \/ Recommend \/ Scale \/ Tick \/ Works \/ Restart
    \/ \E p \in Pods : Create(p) \/ Delete(p) \/ Disrupt(p) \/ Start(p) \/ React(p) \/ Proceed(p)

Spec == Init /\ [][Next]_vars

(* main runs RunOnce on a ticker, the StatefulSet keeps its replicas, the  *)
(* kubelet starts pods and reacts to resizes, and time passes.             *)
FairSpec ==
    /\ Spec /\ WF_vars(Works) /\ WF_vars(Tick)
    /\ \A p \in Pods : WF_vars(Create(p)) /\ WF_vars(Delete(p)) /\ WF_vars(Start(p)) /\ WF_vars(React(p))
=============================================================================
