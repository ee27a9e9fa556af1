------------------------ MODULE CheckpointsProperties ------------------------
(***************************************************************************)
(* What makes the checkpoints of the recommender correct.                  *)
(***************************************************************************)
EXTENDS Checkpoints

\* Type invariant.
TypeOK ==
    /\ listed \subseteq VPAs /\ running \subseteq VPAs /\ orphans \subseteq VPAs
    /\ stored \in [VPAs -> Checkpoint \cup {None}]
    /\ tracked \in [VPAs -> Vpa \cup {None}]
    /\ aggs \in [VPAs -> SUBSET Peaks]
    /\ containers \in [VPAs -> Container]
    /\ \A v \in VPAs : containers[v].windowEnd <= now + Interval
    /\ phase \in Phases
    /\ queue \in Seq(VPAs) /\ next \in 1..(Len(queue) + 1)
    /\ hands \in [Workers -> Write \cup {None}] /\ returned \subseteq Workers
    /\ expired \in BOOLEAN
    /\ now \in Nat /\ started \in 1..now
    /\ steps \in Budget

(* checkpoint_writer.go:146: the current peak is left out of the checkpoint*)
(* to avoid having multiple peaks in the same interval after the state is  *)
(* restored.  So the windows of the peaks a VPA has, restored or its own,  *)
(* never overlap, however often and whenever the process restarts.         *)
OnePeakPerInterval ==
    \A v \in Tracked :
        /\ tracked[v].initial # None => tracked[v].initial.peaks \cap aggs[v] = {}
        /\ \A p, q \in Merged(v) : p.end <= q.end => p = q \/ p.end + Interval <= q.end

(* aggregate_container_state.go:235: a subtracted sample equals one that   *)
(* was added.  The peak a container would subtract, when a larger one comes*)
(* or a checkpoint is written, is the one its aggregation holds.           *)
SubtractsWhatWasAdded ==
    \A v \in VPAs :
        LET c == containers[v]
        IN  c.windowEnd # 0 =>
                {p \in aggs[v] : p.end = c.windowEnd} =
                    {[end |-> c.windowEnd,
                      usage |-> IF c.memoryPeak > c.oomPeak THEN c.memoryPeak ELSE c.oomPeak]}

(* checkpoint_writer.go:35: the model is restored after a restart from what*)
(* is stored.  As long as a VPA is tracked whose checkpoint was restored,  *)
(* a later checkpoint has every interval of an earlier one and no smaller  *)
(* peak, and none is collected unless the VPA was not listed.              *)
Keeps ==
    \A v \in Tracked :
        tracked[v].initial # None /\ stored[v] # None =>
            IF stored'[v] = None THEN v \in orphans
            ELSE \A p \in stored[v].peaks : \E q \in stored'[v].peaks :
                    q.end = p.end /\ q.usage >= p.usage

RestoredKept == [][Keeps]_vars

(* StoreCheckpoints writes checkpoints for at least concurrentWorkers VPAs,*)
(* those written longest ago first.  So a VPA that stays and has containers*)
(* is written over and over again, even when the deadline passes during the*)
(* first calls of every cycle.                                             *)
WrittenThisCycle(v) == tracked[v] # None /\ tracked[v].written > Cardinality(VPAs)

EventuallyWritten ==
    \A v \in VPAs : []<>(v \notin listed \/ v \notin running \/ WrittenThisCycle(v))

(* GarbageCollectCheckpoints: a checkpoint goes after its VPA went, unless *)
(* it comes back, or the collections run into the deadline over and over.  *)
(* One collection before the deadline is enough, whatever was left behind  *)
(* by earlier ones, by failing calls, restarts and late writes.            *)
OrphansCollected ==
    \A v \in VPAs : []<>(v \in listed \/ stored[v] = None \/ (phase = "collect" /\ expired))
=============================================================================
