----------------------------- MODULE Checkpoints -----------------------------
(***************************************************************************)
(* The recommender's only persistent memory: the checkpoints of memory     *)
(* peaks, stored once per cycle by a pool of workers under a deadline,     *)
(* collected, if time is left, when their VPA is gone, and loaded at       *)
(* start-up.                                                               *)
(*                                                                         *)
(* Every VPA has at most one container, in one pod that lives as long as   *)
(* the process.  A histogram is the set of the peaks it holds: one         *)
(* container adds one peak per window, so no peak is there twice.          *)
(***************************************************************************)
EXTENDS Integers, FiniteSets, Sequences

CONSTANTS
    VPAs, Workers,
    Usages,        \* memory usages and requests, in units of the bump after an OOM
    Interval,      \* the memory aggregation interval
    None,
    Scenarios      \* the VPAs listed at the start, those with pods, and the steps that may follow

VARIABLES
    listed,        \* the VPAs the lister returns
    running,       \* the VPAs that have a pod
    stored,        \* the peaks of each VPA's checkpoint, or None
    tracked,       \* clusterState.vpas
    aggs,          \* the memory peaks of each VPA's aggregation
    containers,    \* the ContainerState of each VPA's container
    phase,         \* where the cycle is
    queue, next,   \* the VPAs to checkpoint, and the index of the first not taken
    hands,         \* the write each worker of StoreCheckpoints has in hand, or None
    returned,      \* the workers that saw the deadline and returned
    expired,       \* whether the deadline of the cycle has passed
    orphans,       \* the VPAs not listed whose checkpoints are left to collect
    now, started,  \* the clock, and when the process started
    steps          \* steps of the environment that may still happen

stores == <<listed, running, stored>>
memory == <<tracked, aggs, containers>>
pool   == <<queue, next, hands, returned, expired>>
clock  == <<now, started>>
vars   == <<stores, memory, phase, pool, orphans, clock, steps>>

Peaks == [end : Nat, usage : Nat]
Checkpoint == [peaks : SUBSET Peaks]

\* What a Vpa holds: the state loaded from its checkpoint, and CheckpointWritten
\* as its rank among those of the others, 0 for the zero time.
Vpa == [initial : Checkpoint \cup {None}, written : Nat]
NewVpa == [initial |-> None, written |-> 0]

Container == [windowEnd : Nat, memoryPeak : Nat, oomPeak : Nat, lastSample : Nat]
NewContainer == [windowEnd |-> 0, memoryPeak |-> 0, oomPeak |-> 0, lastSample |-> 0]

EnvSteps == {"vpa", "tick", "sample", "oom", "restart", "fail"}
Phases == {"idle", "metrics", "ooms", "store", "collect"}
Budget == [allowed : SUBSET EnvSteps, left : Nat]
Write == [vpa : VPAs, saved : Checkpoint, stamp : Nat]

ASSUME CheckpointsAssumption ==
    /\ IsFiniteSet(VPAs)
    /\ Usages \subseteq Nat \ {0}
    /\ Interval \in Nat \ {0}
    /\ None \notin Checkpoint \cup Vpa \cup Write
    /\ Scenarios \subseteq [listed : SUBSET VPAs, running : SUBSET VPAs, steps : Budget]
-----------------------------------------------------------------------------
Tracked == {v \in VPAs : tracked[v] # None}

Larger(m, n) == IF m > n THEN m ELSE n

\* GetMaxMemoryPeak.
\* Seeded bug: peaks estimated from OOMs are forgotten.
MaxPeakSeeded(c) == c.memoryPeak

MaxPeak(c) == Larger(c.memoryPeak, c.oomPeak)

(* The end of the window a sample of time ts falls in; the first sample    *)
(* opens the first window.                                                 *)
\* Seeded bug: the shift is rounded up.
WindowSeeded(c, ts) ==
    LET last == IF c.windowEnd = 0 THEN ts ELSE c.windowEnd
    IN  IF ts < last THEN last
        ELSE last + Interval * ((ts - last + Interval) \div Interval + 1)

Window(c, ts) ==
    LET last == IF c.windowEnd = 0 THEN ts ELSE c.windowEnd
    IN  IF ts < last THEN last
        ELSE last + Interval * ((ts - last) \div Interval + 1)

\* Merging the aggregations of v's containers and what was loaded for them.
\* Seeded bug: what was loaded at start-up is left out.
MergedSeeded(v) == aggs[v]

Merged(v) == aggs[v] \cup (IF tracked[v].initial = None THEN {} ELSE tracked[v].initial.peaks)

\* The peak of the window that has not ended.
Current(v) ==
    IF now < containers[v].windowEnd
    THEN {[end |-> containers[v].windowEnd, usage |-> MaxPeak(containers[v])]} ELSE {}

\* Seeded bug: the current peak is saved too.
SavedSeeded(v) == [peaks |-> Merged(v)]

Saved(v) == [peaks |-> Merged(v) \ Current(v)]

\* AggregateStateByContainerName is not empty.
HasContainers(v) == v \in running \/ tracked[v].initial # None

Rank(v) ==
    IF tracked[v].written = 0 THEN 0
    ELSE Cardinality({u \in Tracked : 0 < tracked[u].written
                                      /\ tracked[u].written <= tracked[v].written})

\* getVpasToCheckpoint, from a map: those never written first, in any order.
\* Seeded bug: the order of the map.
ToCheckpointSeeded ==
    {q \in [1..Cardinality(Tracked) -> Tracked] : {q[k] : k \in DOMAIN q} = Tracked}

ToCheckpoint ==
    {q \in [1..Cardinality(Tracked) -> Tracked] :
        /\ {q[k] : k \in DOMAIN q} = Tracked
        /\ \A j, k \in DOMAIN q : j < k => Rank(q[j]) <= Rank(q[k])}
-----------------------------------------------------------------------------
\* InitFromCheckpoints, after its LoadVPAs.
Loaded == [v \in VPAs |-> IF v \in listed THEN [NewVpa EXCEPT !.initial = stored[v]] ELSE None]

Init ==
    \E s \in Scenarios :
        /\ listed = s.listed /\ running = s.running /\ steps = s.steps
        /\ stored = [v \in VPAs |-> None]
        /\ tracked = [v \in VPAs |-> IF v \in s.listed THEN NewVpa ELSE None]
        /\ aggs = [v \in VPAs |-> {}]
        /\ containers = [v \in VPAs |-> NewContainer]
        /\ phase = "idle" /\ orphans = {}
        /\ queue = <<>> /\ next = 1 /\ expired = FALSE
        /\ hands = [w \in Workers |-> None] /\ returned = {}
        /\ now = 1 /\ started = 1

Spend(kind) ==
    /\ kind \in steps.allowed /\ steps.left > 0
    /\ steps' = [steps EXCEPT !.left = @ - 1]

\* The process is killed and starts again, at any point; pods may go meanwhile.
Restart ==
    /\ Spend("restart")
    /\ tracked' = Loaded
    /\ aggs' = [v \in VPAs |-> {}]
    /\ containers' = [v \in VPAs |-> NewContainer]
    /\ phase' = "idle" /\ orphans' = {}
    /\ queue' = <<>> /\ next' = 1 /\ expired' = FALSE
    /\ hands' = [w \in Workers |-> None] /\ returned' = {}
    /\ started' = now /\ running' \in SUBSET running
    /\ UNCHANGED <<listed, stored, now>>

Tick ==
    /\ Spend("tick") /\ now' = now + 1
    /\ UNCHANGED <<stores, memory, phase, pool, orphans, started>>

\* A VPA is created or deleted.
VPAChanges(v) ==
    /\ Spend("vpa")
    /\ listed' = IF v \in listed THEN listed \ {v} ELSE listed \cup {v}
    /\ UNCHANGED <<running, stored, memory, phase, pool, orphans, clock>>
-----------------------------------------------------------------------------
LoadVPAs ==
    /\ phase = "idle" /\ phase' = "metrics"
    /\ tracked' = [v \in VPAs |-> IF v \notin listed THEN None
                                  ELSE IF tracked[v] = None THEN NewVpa ELSE tracked[v]]
    /\ UNCHANGED <<stores, aggs, containers, pool, orphans, clock, steps>>

(* addMemorySample: one peak per window, replaced by a larger one.  Samples*)
(* of before the process started do not reach it.                          *)
AddMemorySample(v, ts, usage, isOOM) ==
    LET c == containers[v]
        end == Window(c, ts)
        old == MaxPeak(c)
        shifts == end # c.windowEnd
        kept == IF shifts THEN [c EXCEPT !.memoryPeak = 0, !.oomPeak = 0] ELSE c
        isNew == shifts \/ (old # 0 /\ usage > old)
        replaced == IF shifts THEN {} ELSE {[end |-> end, usage |-> old]}
    IN  /\ containers' = [containers EXCEPT ![v] =
                [windowEnd |-> end, lastSample |-> ts,
                 memoryPeak |-> IF isNew /\ ~isOOM THEN usage ELSE kept.memoryPeak,
                 oomPeak |-> IF isNew /\ isOOM THEN usage ELSE kept.oomPeak]]
        /\ aggs' = IF isNew
                   THEN [aggs EXCEPT ![v] = (@ \ replaced) \cup {[end |-> end, usage |-> usage]}]
                   ELSE aggs

\* LoadRealTimeMetrics adds the samples it fetched, then the OOMs observed.
AddSample(v, ts, usage) ==
    /\ phase = "metrics" /\ v \in running /\ Spend("sample")
    /\ ts >= containers[v].lastSample
    /\ AddMemorySample(v, ts, usage, FALSE)
    /\ UNCHANGED <<stores, tracked, phase, pool, orphans, clock>>

RecordOOM(v, ts, request) ==
    /\ phase \in {"metrics", "ooms"} /\ phase' = "ooms"
    /\ v \in running /\ Spend("oom")
    /\ ts >= containers[v].windowEnd - Interval
    /\ AddMemorySample(v, ts, Larger(request, containers[v].memoryPeak) + 1, TRUE)
    /\ UNCHANGED <<stores, tracked, pool, orphans, clock>>
-----------------------------------------------------------------------------
(* Ranks stand for times and are counted anew in every cycle.  RunOnce sets*)
(* a new deadline for this step and the collection, and drops it after.    *)
StoreCheckpoints ==
    /\ phase \in {"metrics", "ooms"} /\ phase' = "store"
    /\ queue' \in ToCheckpoint /\ next' = 1
    /\ hands' = [w \in Workers |-> None] /\ returned' = {}
    /\ tracked' = [v \in VPAs |-> IF tracked[v] = None THEN None
                                  ELSE [tracked[v] EXCEPT !.written = Rank(v)]]
    /\ UNCHANGED <<stores, aggs, containers, expired, orphans, clock, steps>>

\* After a VPA the worker looks at the deadline, and goes on or returns.
AfterVPA(w, isExpired) == IF isExpired THEN returned \cup {w} ELSE returned

(* The time is read and the checkpoint built when the VPA is taken.  One   *)
(* without containers is done with; the deadline passes only during calls. *)
Take(w) ==
    /\ phase = "store" /\ hands[w] = None /\ w \notin returned /\ next <= Len(queue)
    /\ next' = next + 1
    /\ IF HasContainers(queue[next])
       THEN /\ hands' = [hands EXCEPT ![w] =
                    [vpa |-> queue[next], saved |-> Saved(queue[next]),
                     stamp |-> Cardinality(VPAs) + next]]
            /\ UNCHANGED returned
       ELSE UNCHANGED hands /\ returned' = AfterVPA(w, expired)
    /\ UNCHANGED <<stores, memory, phase, queue, expired, orphans, clock, steps>>

\* The call, however long it takes; it may fail with or without effect.
CreateOrUpdateVpaCheckpoint(w) ==
    /\ phase = "store" /\ hands[w] # None
    /\ expired' \in {expired, TRUE}
    /\ hands' = [hands EXCEPT ![w] = None]
    /\ returned' = AfterVPA(w, expired')
    /\ LET write == hands[w]
           changed == [stored EXCEPT ![write.vpa] = write.saved]
       IN  \/ /\ stored' = changed
              /\ tracked' = [tracked EXCEPT ![write.vpa].written = write.stamp]
              /\ UNCHANGED steps
           \/ /\ Spend("fail") /\ stored' \in {stored, changed}
              /\ UNCHANGED tracked
    /\ UNCHANGED <<listed, running, aggs, containers, phase, queue, next, orphans, clock>>

WorkersDone ==
    /\ phase = "store"
    /\ \A w \in Workers : hands[w] = None /\ (w \in returned \/ next > Len(queue))

\* The VPAs no lister returns.
\* Seeded bug: the condition is the other way round.
MissingSeeded == listed

Missing == VPAs \ listed

(* The collection is rate limited: most cycles end without one.  It has    *)
(* what is left of the deadline of the writes; once that has passed the    *)
(* namespaces cannot be listed, and nothing is collected until the next.   *)
GarbageCollectCheckpoints ==
    /\ WorkersDone /\ phase' = "collect" /\ expired' \in {expired, TRUE}
    /\ \/ ~expired /\ orphans' = Missing /\ UNCHANGED steps
       \/ expired' /\ orphans' = {} /\ UNCHANGED steps
       \/ Spend("fail") /\ orphans' = {}
    /\ UNCHANGED <<stores, memory, queue, next, hands, returned, clock>>

\* One that fails and has its effect all the same is like one that succeeds.
DeleteCheckpoint(v) ==
    /\ phase = "collect" /\ v \in orphans /\ stored[v] # None
    /\ orphans' = orphans \ {v} /\ expired' \in {expired, TRUE}
    /\ \/ ~expired /\ stored' = [stored EXCEPT ![v] = None] /\ UNCHANGED steps
       \/ expired' /\ UNCHANGED <<stored, steps>>
       \/ Spend("fail") /\ UNCHANGED stored
    /\ UNCHANGED <<listed, running, memory, phase, queue, next, hands, returned, clock>>

CheckpointsCollected ==
    /\ phase = "collect" /\ \A v \in orphans : stored[v] = None
    /\ phase' = "idle" /\ orphans' = {} /\ expired' = FALSE
    /\ UNCHANGED <<stores, memory, queue, next, hands, returned, clock, steps>>

EndCycle ==
    /\ WorkersDone /\ phase' = "idle" /\ expired' = FALSE
    /\ UNCHANGED <<stores, memory, queue, next, hands, returned, orphans, clock, steps>>

Next ==
    \/ Restart \/ Tick \/ \E v \in VPAs : VPAChanges(v)
    \/ \E v \in VPAs, ts \in started..now, usage \in Usages :
        AddSample(v, ts, usage) \/ RecordOOM(v, ts, usage)
    \/ LoadVPAs \/ StoreCheckpoints
    \/ \E w \in Workers : Take(w) \/ CreateOrUpdateVpaCheckpoint(w)
    \/ GarbageCollectCheckpoints \/ CheckpointsCollected \/ EndCycle
    \/ \E v \in VPAs : DeleteCheckpoint(v)

Spec == Init /\ [][Next]_vars

(* The main loop and the workers go on, and a process that lives runs into *)
(* the end of a cycle more than the collection interval after the last     *)
(* attempt.  An attempt that fails counts, so nothing says one succeeds.   *)
FairSpec ==
    /\ Spec
    /\ WF_vars(LoadVPAs) /\ WF_vars(StoreCheckpoints)
    /\ \A w \in Workers : WF_vars(Take(w) \/ CreateOrUpdateVpaCheckpoint(w))
    /\ WF_vars(EndCycle) /\ SF_vars(GarbageCollectCheckpoints)
    /\ WF_vars(CheckpointsCollected) /\ \A v \in VPAs : WF_vars(DeleteCheckpoint(v))
=============================================================================
