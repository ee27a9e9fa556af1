# A TLA+ model of VHAPE

VHAPE keeps Kubernetes VerticalPodAutoscalers (VPAs) for Deployments. It lives in a tree that
also holds the upstream Kubernetes autoscaler (cluster-autoscaler, balancer, addon-resizer and the
upstream VPA updater and admission controller), none of which it changes. Its own logic is in two
processes under `src/vertical-pod-autoscaler/pkg`: the **watcher** (`vhapewatcher/`), which decides
which Deployments have a generated VPA and keeps those VPAs right, and the **recommender**
(`recommender/`), the upstream recommender with its own estimators and scaling rules. The **updater** (`updater/`,
upstream code that VHAPE runs as it is) then brings the recommendations to the pods.

This directory models all three. Section 1 lists the parts, 2 the modules and how they correspond to the
code, 3 to 5 what is checked and under which fairness and bounds, 6 what is proved, 7 and 8 where code and
documentation disagree, 9 what is left out.

## 1. Inventory

| component | state | operations | what is hard |
|---|---|---|---|
| watcher / objects (`apis/autoscaling.vhape.io`) | watched namespaces and namespace regexes, ignored namespaces and workloads, policies; Namespaces, Deployments, VPAs | written by users at any time; VPAs also by the watcher and by garbage collection | five kinds of objects decide about a sixth, with precedence |
| watcher / informers | per kind: the reflector's stream, the cache, the pending notifications; two by-Deployment indexes | list, watch, re-list, notify, `HasSynced` | seven independent orders; a re-list coalesces events; stale caches |
| watcher / event handlers | none | one per kind and event: which Deployments to enqueue | a change that enqueues too few keys is never repaired: no resync |
| watcher / scope | none | `ShouldManageDeployment` and helpers, on the caches | precedence, regex errors, ties between regexes |
| watcher / reconciler | the rate-limiting work queue, the workers | enqueue, process, retry, give up | duplicates and lost keys, `maxRetries`, several workers |
| watcher / VPA service | none | ensure one / ensure none, create, merge patch, delete | several calls, each may fail or lose its answer; computed from cached copies |
| watcher / process | none persisted | start, wait for caches, run, stop | events handled before all caches are filled; restarts |
| recommender / pod resource recommender | estimators per VPA and resource, cached with the policy's UID | feed, recommend, free, policy fetch | stale estimators after a policy is replaced; who frees what another component removed |
| recommender / estimators, scaling rules | sliding window of samples per container | feed, purge, percentile, ceiling and floor rules | boundaries of window and percentile index, float rounding |
| recommender / routine | none of its own | load VPAs, recommend, write statuses with a worker pool, initial-request annotations, checkpoints, garbage collection | a worker leaves the pool early; a write computed from a stale copy |
| recommender / cluster model and feeder | pods, containers, VPAs, aggregations linked to VPAs by selectors | add, update, delete, load, garbage-collect | links between maps that change independently; counts kept one pod at a time |
| recommender / checkpoints | checkpoint objects in the API server | write the oldest first, collect orphans, load at start | restarts between writes and collections; deadlines; windows that overlap after a restart |
| recommender / OOM observer | queue of OOM events | pod updates and events to samples | the same OOM seen twice |
| recommender / histograms, metrics and history sources | decaying histograms; none | - | floating point; pure I/O |
| updater | per loop the listing, the budget of each group and the lists of pods to update; across loops the time resizes were first seen | list, resize in place, evict, fall back | pods change while the budget counted from a listing is spent; stuck resizes; two limiters, one budget |
| admission controller, target fetcher | none; caches | admit, look up | upstream code |

How they interact: users write objects; the API server's watch streams feed the informers; the
handlers turn notifications into Deployment keys; the workers take keys, read **only caches** and
write VPAs, which come back as VPA events. The recommender selects the generated VPAs by their
recommender name, reads the policy named in the VPA's `vhape/policy` annotation, records the initial
requests in another annotation and writes the VPA status, both of which the watcher ignores. Inside
the recommender the feeder reconciles the cluster model with the listers once per cycle, the routine then
hands the observed VPAs to workers, and checkpoints are the only memory that outlives the process. The updater
reads VPAs and pods from listers once per loop and evicts or patches pods; controllers replace what it evicts and the admission
controller gives the replacements the recommendation.

What makes each part correct: *scope*: exactly the Deployments users asked for are managed, with
the configuration of the highest precedence. *Handlers*: every change whose effect is not
yet visible in a VPA reaches the queue. *Queue and workers*: no key is lost, none is processed twice
at once, retries are bounded. *VPA service*: one right generated VPA, or none; manual VPAs are
untouched. *Process*: nothing is decided on half-filled caches. *Estimators*: the window holds what it should,
bounds enclose targets, rules run in order. *Recommender cycle*: recommendations follow the policy in force,
estimators are freed exactly when unused, no VPA is skipped, nobody else's writes are undone. *Cluster model*:
counts and links agree with a recount at every point of a cycle. *Checkpoints*: history survives restarts and no
interval is counted twice. *Updater*: enough pods of a group stay undisturbed, and in the end every pod has the recommendation.

## 2. Modules

| module | models | state |
|---|---|---|
| `VhapeObjects` | the watcher's objects, reduced to what decisions depend on; *views*, functions from kinds to objects | - |
| `Scope` | `scope/scope.go` on a view | - |
| `VPAService` | the pure part of `vpa_service/`: the generated VPA, the tests on a VPA, the index, the merge patch | - |
| `WorkQueue` | client-go's rate-limiting queue (external code), as operators on a record | - |
| `Watcher` | informers, handlers, reconciler, VPA calls, users, garbage collection, failures, restarts | `api watch cache notifs running q worker dropped nextUid steps` |
| `Estimator` | `logic/estimators`, `logic/scalingrules`: one resource of one VPA | `spec now samples accessed fed last` |
| `VPAContract` | abstract: what the recommender may do to a VPA it shares | `vpa request seen` |
| `Recommender` | `routines/recommender.go`, `initial_requests.go`, `logic/recommender.go`, the feeder's `LoadVPAs`: the cycle of all VPAs | `vpas policies target seen tracked observed estimators phase pending worker ...` |
| `ClusterModel` | `model/cluster.go`, `model/vpa.go`, the aggregations, the feeder's `LoadVPAs` and `LoadPods` | `listedPods listedVPAs pods vpas aggs objects requests phase todo ...` |
| `Checkpoints` | `checkpoint/`, the feeder's start-up and collection, memory peaks of `model/container.go` | `listed stored tracked aggs containers queue hands returned expired now started ...` |
| `Updater` | `updater/logic`, `updater/restriction`: the loop of one VPA, with the StatefulSet and the kubelet | `config replicas rec pods view target stats resizes evictions age lost phase steps` |

Each has a properties module (`WatcherProperties`, `RecommenderProperties`, `ClusterProperties`,
`CheckpointsProperties`, `UpdaterProperties`; the estimator's properties are in its module), an `MC` module with its instances,
and a proofs module. The watcher has three, each extending the one before: `WatcherProofs` (types and queue), `WatcherWritesProofs` (what
workers write) and `WatcherConvergenceProofs` (what is in place when nothing is in flight).

`Recommender` and `Estimator` meet in `Feed` and `Recommendation`: the former keeps of an estimator whose policy
it was built from and whether it has enough history, the latter what a window with that history gives.
`ClusterModel` and `Checkpoints` share the cycle `Recommender` drives: a VPA tracked in one is a VPA tracked in the
others. They are separate specifications because what they keep is nearly disjoint and the cycle that
calls them is sequential. One interaction is lost by that: in the code a container's aggregator can be swapped, when its pod is
relabelled (`model/cluster.go:174`) or its aggregation is collected. `ClusterModel` has both, but no peaks;
`Checkpoints` has the peaks, and a container that keeps its aggregator.

### How `Watcher` corresponds to the code

- `api` is the API server; `Store` appends a change to the stream `watch[k]` of its kind. `Deliver`
  is the reflector (cache update, notification); `Relist` a broken watch: the stream is
  replaced by the difference between server and cache, so a deletion and re-creation arrives
  as one update. `InitialList` and `HasSynced` are the first list and the test for it.
  `Missed` is that difference; an object created and deleted while the watch was broken is not in it.
- `Handle(k)` is a listener goroutine calling the handler for the head of `notifs[k]`. There is one
  operator per handler group in `handler_functions.go` (`OnDeployment`, `OnVPA`, ...), returning the
  keys; no handler exists for Namespaces, as in `handler.go`.
- A worker goes through `ProcessNextWorkItem` (`Get`), `Decide` (Deployment lookup and scope),
  `List` (VPA index, choice between ensure-none and the three cases of ensure-one), then one
  action per API call (`ApplyVPA`, `PatchVPA`, `DeleteOutdated`, `DeleteOthers`, `DeleteGenerated`)
  and `FinishWorkItem` (`Forget` or `AddRateLimited`, then `Done`). Between any two of these everything
  else may run. `pc` names where the worker is.
- Every API call may succeed, fail without effect, or take effect and fail (`CallAPI`).
- `Retry(key)` is the end of a rate-limited delay. `dropped` is a history variable: the keys whose last
  reconciliation was given up after `maxRetries`.
- `UserWrites`, `UserCreatesVPA`, `UserDeletesVPA`, `UserEditsVPA` are users; `CollectGarbage` is
  Kubernetes' garbage collector following the controller owner reference; `Restart` loses everything but `api`.

Its abstractions, and why they are sound for its properties:

- A valid regex is the set of namespaces it matches; `InvalidPattern` stands for every
  regex `regexp.Compile` rejects. A configuration is a policy and an update mode, kept as separate
  fields because the merge patch treats them separately.
- `Decide` reads several caches in one step. In the code the reads are a few instructions apart;
  a cache that changes between them is followed by a notification for that change, which enqueues the
  key again, so a mixed decision is corrected like a decision taken just before the change. `List`
  is a separate step, so that the VPA index may be newer than the decision. `Handle` is atomic for the same
  reason, and adds its keys in any order.
- `AddRateLimited` and `Done` of one failing reconciliation are one step: the delay is never shorter than
  the way to the deferred `Done`.
- The order in which the first list delivers objects of one kind is fixed (`SetToSeq`): keys are enqueued
  per object and workers start only when all lists are in. Orders between kinds are all explored.
- The nil checks, the empty-name checks, unexpected object types in handlers and the errors of in-memory listers
  cannot happen with these informers and are left out. The bodies of logs are left out.
- Labels, annotations and spec fields other than the five in `VPA` are written by nobody in the
  model; a user's edit of another spec field behaves like one of `mode`.
- Generated names are distinct (`OwnName`): with the empty name prefix of `vpa_builder.go:20` the 253-byte cut of
  `NameForDeployment` never cuts a Deployment's name, which has at most 253 bytes.

### How `Estimator` corresponds to the code

- One resource of one VPA, per container. `FeedSamples` is the feed of a metrics snapshot (negative values are skipped,
  the feed's samples have one timestamp), `Recommend` is `GetSingleResourceRecommendation` with
  the scaling rules of `recommendContainerResources`: both purge first, as the code does under the
  estimator's mutex. `last` keeps what the last recommendation was made from.
- `purgeSamples`, `windowCoverage`, `calculatePercentile`, `Rank`, `applyConstraints`, `ApplyRules` have the code's
  names. Percentages are integers in hundredths. A float product is exact or off by one unit in the last place,
  so it differs after `Ceil` or truncation only where the exact product is a whole number; `RoundsUp` and `RoundsDown` say
  where it does. `MCEstimator` gives the pairs of its amounts for which IEEE 754 doubles really do
  (100 * 1.1 is above 110).
- `Ascending` is what `sort.Slice` leaves of the order of a copy of the values: any permutation in which they do not decrease. Which one is
  chosen among equal values cannot be seen in a percentile.
- `fed` is a history variable. Per-container minima are a constant. No maximum is passed, as in the recommender.

### How `Recommender` corresponds to the code

- `LoadVPAs(failing)` is `loadVPAs`: the feeder's filter, selector lookups (those in `failing` fail and give
  `labels.Nothing()`), `AddOrUpdateVpa`, and `Free` for what the comparison before and after says is gone. `id` stands for the
  pointer that comparison looks at.
- `UpdateVPAs` is the channel `pending` and the workers: `Take` (which ends the worker at an untracked VPA),
  then `processVPAUpdate` split at its API calls: `Capture` and `Update` (the initial-requests
  annotation, refused by the API server when the resource version is old), `Recommend` (policy
  lookup, `getOrCreateEstimators`, feed, recommend; metrics may fail or miss pods) and `Publish` (the status
  patch, by name, compared with the observed copy).
- `vpas[v]` and `policies[p]` are sequences of states, from the one the lister shows to the stored one: `SyncVPA`
  and `SyncPolicy` let the lister catch up. The target informer is never behind, and `seen`, a history variable, holds what it has shown.
- `Restart` forgets everything but the stores; users create, edit and delete VPAs, policies
  (whose spec is immutable, `vhape-policy.md:38`) and workloads.
- A recommendation is reduced to whose policy made it, whether from enough history, and with which initial
  request. Post-processors, conditions and metrics of latency are left out.

`VPAContract` is the abstract specification: a VPA is created, deleted, edited, gets a snapshot once from requests stated
during its life, and gets a recommendation; nothing else is touched. `RecommenderProperties` maps
`vpa` to the stored states (without the resource version), `request` to what the target states and `seen` to itself.

### How `ClusterModel` corresponds to the code

- A cycle goes through `LoadVPAs`, `AddOrUpdateVpa` per VPA, `DeleteVpa` for the others, `LoadPods`, `DeletePod` for those
  not listed, `AddOrUpdatePod` (with its containers) or `SkipPod` per listed pod, `AddSample`, and `GarbageCollect` or
  `EndCycle`. The properties hold between any two of these steps.
- A *group* is a namespace with a set of labels, so the key of one aggregation (each pod has one container); a
  selector is the set of groups it matches. `objects` are the `AggregateContainerState`s that
  pointers (`Ids`) point to; `Proxy` is the aggregator that looks its key up at every sample.
- `requests` orders the observations of requests: only which is later matters, when `AggregateStateByContainerName`
  merges. The listings of VPAs and of pods are two snapshots, between which the cluster changes.
- The cycle is sequential in the code (one goroutine), hence no interleaving inside a step.

### How `Checkpoints` corresponds to the code

- A cycle: `LoadVPAs`, samples and OOMs (`AddSample`, `RecordOOM`), `StoreCheckpoints` with its queue and workers (`Take` reads the
  clock and builds the checkpoint, `CreateOrUpdateVpaCheckpoint` is the call), then
  `GarbageCollectCheckpoints` with `DeleteCheckpoint`, or `EndCycle`. `Restart` can come at any point.
- A worker looks at the deadline after a VPA: it always takes one, and returns if the deadline has passed. The writes
  themselves do not run under it (`context.TODO()`).
- The collection does, with what the writes left of it (`routines/recommender.go:237`): once `expired`, the listing of namespaces
  that `GarbageCollectCheckpoints` begins with fails, and so do the deletions. A call that runs into the deadline may fail or not.
  `EndCycle` is also the end of a cycle in which the collection is not due, or failed before.
- A histogram is the set of the peaks in it. `Window`, `MaxPeak` and `AddMemorySample` follow
  `container.go` (`addMemorySample`, `RecordOOM`), with the interval, the subtraction of a smaller peak and the two
  kinds of peaks; `Merged`, `Current` and `Saved` are `buildAggregateContainerStateMap` and `subtractCurrentContainerMemoryPeak`.
- `written` is the rank of `CheckpointWritten` among the VPAs, counted anew every cycle so that it stays small.
- Assumed: one container per VPA, in a pod that lives as long as the process and with an aggregator that stays the same; usages
  are positive; samples and OOMs are of times between the process's start and now; a deadline passes only during API
  calls, those of the collection included. Section 8 says what happens without the second and third.

### How `Updater` corresponds to the code

- A loop (`RunOnce` for one VPA) goes through `ListPods` (listing, `GetCreatorMaps`, the filters and the update order), `InPlace` per
  pod of `podsForInPlace`, `Evict` per pod of `podsForEviction`, and `Done`, which is also the `return` when the deadline passes in a rate
  limiter's `Wait`. Between any two of them pods may go, start or react. `Restart` loses everything but the cluster.
- `view` is the listing the loop works with; what happens later is what it does not know. A listing
  that lags behind what others do is one taken earlier. One that lags behind the evictions or resizes of this updater's own previous loop
  is not covered (section 8).
- `stats` is the group's `singleGroupStats` in the map both limiters write. `Disruptable`, `CanEvict` are the code's; `Approved` and `FallsBack` are the
  answers "approved" and "evict" of `CanInPlaceUpdate` (with neither it is "deferred"), `ResizeFailed` the conditions of `CanEvictInPlacingPod`.
- A pod's resources are the number of the recommendation they follow: `wants` what its specification asks for, `has` what its containers
  run with, which is what the priority calculator compares. A patch that changes nothing has no effect on a resize under way.
- `resize` is what `PodResizePending` and `PodResizeInProgress` say; reasons the code does not know are treated like an error.
- `age` is the time since `lastInPlaceAttemptTimeMap` was set for a name, counted as far as a timeout can tell it.
- `lost`, a history variable, counts the running pods that went in a loop without being counted by it: taken by others, or by an
  eviction whose answer was lost or whose listed pod was pending.
- The target is a StatefulSet, whose new pods have the old names (a harder case than a ReplicaSet's, since age, view and eviction go by the name).
- Left open: the order by priority. Left out: the thresholds below which a difference is not worth an update and the lifetime after which it is (`AddPod`), so
  every difference counts; the eviction admission; the check of the admission controller's status, which skips a whole loop; pods of several groups or VPAs.

## 3. What the runs show

| run | question | properties |
|---|---|---|
| `lifecycle` | one Deployment: watched explicitly or by regexes of any age and validity, ignored, replaced; VPAs created, deleted and retargeted by users; API failures | `TypeOK`, `QuiescentConverged`, `ManualVPAPreserved` |
| `two_workers` | two workers, two Deployments, failures, a generated VPA that loses its label | `QueueInv`, `OneWriterPerVPA`, `QuiescentConverged` |
| `convergence` | any single change of any object; restarts and changes during start-up; failing calls; Deployments recreated while watches break | `IgnoredNeverManaged`, `Converges` |
| `estimator` | three policies, feeds of up to two pods, idle time and recommendations in any order | `TypeOK`, `WindowExact`, `LearnsFromCoveredWindow`, `NearestRank`, `BoundsOrdered`, `RulesInOrder` |
| `cycle` | three VPAs and two workers while VPAs move between recommenders, workloads come and go, selectors cannot be fetched, the process restarts | `TypeOK`, `EstimatorsOwned`, `NoneSkipped` |
| `recommends` | one VPA while it, policies (invalid ones too) and workloads are edited, deleted and re-created, calls fail, the process restarts | `HistoryKept`, `ImplementsContract`, `Converges` |
| `cluster` | two pods, two VPAs and two groups, any four changes (pods that finish are among them), expiry and failing listings; memory-saver mode | `TypeOK`, `PodCountExact`, `LinksExact`, `PodCountListed`, `ObservedRequestListed`, `MarkedIsControlled` |
| `checkpoints` | one container over several windows and restarts; three VPAs and two workers with failing calls, and deadlines that pass in any cycle, or in all | `TypeOK`, `SubtractsWhatWasAdded`, `OnePeakPerInterval`, `RestoredKept`, `EventuallyWritten`, `OrphansCollected` |
| `updater` | three pods evicted, or two resized within or beyond the budget, while pods go, start or get stuck, the StatefulSet and the recommendation change, calls fail, the updater restarts | `TypeOK`, `DisruptionsWithinBudget`, `Converges` |
| `manual_taken_over`, `namespace_lag`, `history_selector` | section 7 | one each, violated |

The watcher's properties:

- `QuiescentConverged`: when nothing is in flight (no undelivered change, unseen event, queued,
  waiting or processed key, no garbage), every Deployment has exactly the VPA the objects ask for, or was
  given up. This is the property a forgotten `Enqueue` breaks. The requirement (`Converged`) is written from
  the API server's objects with definitions of its own (`WantedConfigs`, `Oldest`), not with `Scope`.
- `QueueInv`: a key is in the fifo, once, exactly when it was added and is not being processed;
  the keys in process are those the workers hold, one worker each.
- `OneWriterPerVPA`: two workers never have writes of the same VPA in hand. It holds as long as nobody
  retargets a VPA, and `two_workers` does not: the by-Deployment index then lists one name for one Deployment.
- `ManualVPAPreserved`: no worker step changes or deletes a VPA without the watcher's label.
- `IgnoredNeverManaged`: a Deployment that is ignored all along never gets a generated VPA, not even
  while the watcher starts, unless a user points somebody else's VPA at it.
- `Converges`: once the environment's steps are used up, every Deployment ends up right and stays so,
  or was given up where API calls may fail.

The estimator's: the window holds exactly the accepted samples it should (`WindowExact`); a
percentile is taken only from data that covers enough time (`LearnsFromCoveredWindow`) and is the nearest-rank
percentile (`NearestRank`, stated without sorting); bounds enclose the target before and after the rules (`BoundsOrdered`); a rule
holds of the result unless a later one overrides it (`RulesInOrder`).

The cycle's: `NoneSkipped` (every observed VPA reaches a worker: as many untracked VPAs as workers would drop the rest),
`EstimatorsOwned` (cached estimators belong to the Vpa tracked now), `HistoryKept` (history goes only with its policy, its VPA, its target, the
target's selector, or the process), `ImplementsContract` (the refinement), `Converges` (the status ends up being that of the policy in force, from enough
history, with the initial requests).

The cluster model's: `PodCountExact` and `LinksExact` compare the incremental bookkeeping with a recount, between any two calls;
`PodCountListed` and `ObservedRequestListed` relate it to the cluster as listed, where a pod that finished is listed like any other (comments
say otherwise of the count: section 7); `MarkedIsControlled` says that only aggregations of some VPA count as controlled. It finds marks that
are left behind; the converse, that no mark is lost, is false (section 7).

The checkpoints': `SubtractsWhatWasAdded` (the peak a container would subtract is in its aggregation),
`OnePeakPerInterval` (the reason the code gives for leaving the current peak out), `RestoredKept` (a later checkpoint covers an earlier one, and none
is deleted unless its VPA was not listed), `EventuallyWritten` (every VPA again and again, even if each cycle's deadline passes early) and
`OrphansCollected` (no orphan stays, unless collections run into the deadline over and over; without this exception it is false, see section 7).

The updater's: `DisruptionsWithinBudget` (whenever a running pod is evicted, or one is resized in a way the budget is for, enough pods run
and are not being resized by this loop, apart from those the loop could not know to have gone; stated from the pods that exist, not from the counters) and `Converges` (the
StatefulSet ends up complete, running and with the recommendation, unless it is too small to be touched). `minReplicas` is asked of evictions
only, since resizes may break it (section 7).

Every property of a passing run has a seeded bug in the modelled code that breaks it under the same
configuration (a lost retry, a handler that forgets deletions, estimators reused whatever the policy's UID, a percentile's rank
rounded down, a collected aggregation left with its VPA, the current peak saved too, ...). The
definitions marked "Seeded bug" in the modules are these variants; no specification uses them. `PROJECT.json` pairs
them with the properties.

## 4. Fairness

*Watcher* (`convergence`): weak fairness of every reflector, listener, worker, retry, of the start and of garbage collection:
goroutines blocked on a channel or a queue are scheduled when there is something for them, watches
deliver, delays expire. Workers are fair as a whole, not per action.

*Recommender* (`recommends`): weak fairness of the load with no failing lookup (`main` runs the cycle on a ticker), of each
worker as a whole, of the cycle's end and of the listers' progress.

*Checkpoints* (`checkpoints`): weak fairness of the steps of the main loop and of each worker. Strong fairness of
`GarbageCollectCheckpoints` only: the loop calls it when more than its interval has passed since the last time, so in a process
that lives on a cycle ends with an attempt again and again, though every single cycle may end without one. It is fairness of the attempt:
`lastCheckpointGC` is set before the call (`routines/recommender.go:209`), and an action in which the deadline has passed and nothing
is collected satisfies it.

*Updater* (`updater`): weak fairness of the loop as a whole (`main` calls `RunOnce` on a ticker; a loop with anything to do goes on), of the StatefulSet's
creations and deletions, of the kubelet's starting a pod and reacting to a resize, and of time. A resize that is deferred or in
progress may stay so for ever: that is what the timeouts are for.

Nothing is assumed of users, failures, deadlines, re-lists and restarts. All but one kind are finite (`steps`), since the liveness
properties say what happens once they stop, and `EventuallyWritten` fails by the code's nature while writes keep failing. The exception is
the deadline of `Checkpoints`, which may pass in every cycle for ever.
`CHECK_DEADLOCK FALSE` is set in the watcher's runs only, because the watcher is
reactive: when the environment's steps are used up and the last key is processed, nothing is left to do, and
that state is the one `QuiescentConverged` looks at.

## 5. Bounds

| bound | value | why it is enough |
|---|---|---|
| `steps` of the watcher's scenarios | 1 to 3 environment steps of the kinds a scenario is about | each hazard listed needs at most three steps of the environment; the watcher's own steps are unbounded |
| `MaxRetries` | 1 instead of 12 | the counter is only compared with the limit; one retry and one give-up both happen |
| `MaxBacklog` | 2 | garbage collection waits while two VPA changes are in flight; otherwise a watcher that has not seen a deletion and the collector could pile up changes without limit |
| namespaces, Deployments, VPAs of the watcher | 1 or 2 each | one Deployment per interaction, two where VPAs or workers cross |
| policies, modes, regexes, timestamps | at most 2 | older/younger and equal, changed/unchanged |
| `MaxTime`, `MaxFed` of the estimator | 4, 3 | windows of 1 to 3: samples enter, reach the window's edge and leave it; ranks of 1 to 3 samples |
| selectors in `recommends` | 2 | a workload may come back with another selector than the one tracked |
| `Coverage` | 1 or 2 feeds | enough and not enough history |
| VPAs and workers of the cycle | 3 and 2 | more VPAs than workers, and as many unwanted ones as workers |
| `steps` of the recommender | 1 in `cycle`, 2 in `recommends` | an edit and its undoing, or a change during another's effect; cycles are unbounded |
| pods, VPAs, groups | 2 each, 4 pointers | one pod leaves a VPA or an aggregation another one shares; no pointer is reused while in use |
| `steps` of the cluster | 4, 3 in memory-saver mode | a pod goes and comes back, or changes twice, around a change of a VPA |
| `steps` of the checkpoints | 8 for one container, 3 for three VPAs | two samples or an OOM in one window, the window's end, a restart, and the same again; a failure, a deletion and a restart |
| `Interval`, `Usages` | 2; 1 and 2 | a time inside a window and its two ends; smaller, equal and larger |
| pods of the updater | 3, or 2 with resizes; tolerance half | one of two or of three may go at a time; none is tolerated of one, which a scaled StatefulSet asks for |
| timeouts of the updater | 0 and 1 ticks | a resize seen at once, within and after its time |
| `steps` of the updater | 1, 2 for failures of evictions | a change, or a failure, around a loop; loops are unbounded |
| workers | 1 or 2 | mutual exclusion is pairwise; a deadline that hits every worker |

Symmetry: VPAs and workers in `cycle`, pointers in `cluster` (both check safety only).

## 6. What is proved

All for any values of the constants, from the named assumptions of the modules, which TLC evaluates in the runs.

`WatcherProofs`

- `TypeCorrect == Spec => []TypeOK`. Beyond types this says that a key is never requeued more than `MaxRetries`
  times and, through `WorkerFits`, that a worker that creates, patches or deletes has the key,
  configuration and cached copy that call needs. The argument is one lemma per action over lemmas on the
  queue's operators, the decision, the merge patch and the first list (`SetToSeq` of a finite set).
- `QueueCorrect == Spec => []QueueInv`. `QueueInv` is inductive together with `TypeOK`: it splits into a fact on
  the queue record (`QueueSound`, preserved by `Add`, `Get`, `Done`) and one on who holds the keys
  (`WorkersSound`). Without "a key is in the fifo exactly when it is dirty and not processed", `Get` could hand
  out a key that a worker holds.

`WatcherWritesProofs`

- `OneWriter == Spec => []OneWriterPerVPA`, from `NobodyRetargets` (no step points a VPA at another workload, and the labelled
  VPAs of the start have the name generated for their target) and `DistinctNames` (`GeneratedName` is injective; the code cuts
  names at 253 bytes, see the hazards). `OneWriterPerVPA` is not inductive: a worker's deletions come from the cached
  index, which comes from the stream, which comes from the server. `WritesInv` follows that path: wherever
  a VPA with the watcher's label is, its name is its target's, so whatever a worker writes has the name of its key, and
  `QueueInv` gives a key to one worker. Without `NobodyRetargets` the code does let two workers write one VPA.
- `IgnoredStaysUnmanaged == Spec => []IgnoredNeverManaged`, from `StartsUnmanaged` (at the start no ignored Deployment has a generated VPA; a
  restarted watcher removes one it finds, but for a moment it is there). `IgnoredInv` says that the cache of what is ignored has all of it
  or gets it with the first list (`IgnoreKnown`), that no worker runs before it has, and that a worker which holds the key of an ignored
  Deployment is on the way to leaving it without a VPA (`LeavesIgnored`); a patch keeps the target of the copy it was computed from.
- `ManualVPAsPreserved == Spec => ManualVPAPreserved`, from `ManualNamesApart`: nobody removes the label, and users give their own VPAs
  neither a generated name nor that of a VPA labelled at the start. Both are needed: `manual_taken_over` shows the first, and with the second a worker
  that saw the old VPA deletes the new one. `ManualInv` says that a VPA that is a user's was never labelled anywhere a worker
  could learn it from: server, stream, cache, or another worker's hands. No assumption on streams is needed: stale caches and broken watches are covered.

`WatcherConvergenceProofs`

- `QuiescentConverges == Spec => []QuiescentConverged`. `QuiescentConverged` speaks of the states where nothing is in flight, so its invariant has to
  say of every other state where the work still to be done is. `Followed` does: a Deployment the cache has is queued, held back, named by an
  event the handlers will turn into its key, held by a worker, given up, settled as far as the caches tell, or has a VPA a change of which is on its way.
  A worker that ends leaves one of these behind, whatever changed while it worked. It rests on `StreamsInv` (a cache and the
  stream to it end with what the server holds), `NamespacesInv` (handlers of regexes find every Deployment's namespace), `UidsInv` (a UID seen in a VPA or a
  worker is its Deployment's, or of a past one, so that an owner reference tells a recreated Deployment from the old one), `EarlyInv` (what is cached
  before workers start is queued) and `WritesInv`. The hypotheses are behaviours in which the claim is false: `NobodyRetargets` and `DistinctNames` (two
  Deployments would share a VPA's name), `NobodyRelists` (section 8), `NamespacesExist` (run `namespace_lag`), and `UniqueUids`, which
  Kubernetes guarantees. Failing calls, restarts, recreated Deployments and any number of workers are covered.

`EstimatorProofs`

- `Window == Spec => []WindowExact`, inductive with `WindowTypes`: samples are fed in the order of time, so all those a purge stops at are fresh.
- `EstimatorTypeCorrect`, `LearnsOnlyWhenCovered`, `PercentilesRight`, `BoundsAlwaysOrdered`, `RulesHoldInOrder`: every invariant the run checks.
  `EstimatorInv` adds to them that the history only grows, so what the last recommendation was made from is still there.
- `RankInRange`, `HeuristicOrdered`, `RuleKeepsOrder`: the index of the percentile is inside the samples; the bounds enclose the target; a rule keeps it
  so, whatever the rounding.
- `RulesApplied`: any list of rules, of any length, keeps the order, and each rule holds of the result unless a later one overrides it. A list of rules is a fold. The
  library defines it by recursion on a set of positions, so `FoldExists` builds the function position by position, and `StepByStep`, an
  induction over a set of numbers instead of an operator, carries what holds of it along.
- `PercentileIsNearestRank`: for any samples, the percentile is a sample with the right shares below and not above it. `Ascending` chooses a sorting
  permutation, so it has to be shown that there is one: it sends a sample to the number of those before it, which is injective.

`RecommenderProofs`

- `Types`, `Skips` and `Ownership` (`TypeOK`, `NoneSkipped`, `EstimatorsOwned`) follow from `CycleInv`: what is
  observed is tracked, so no worker returns early, and pointers are never used twice.
- `HistoryIsKept == Spec => HistoryKept`, from `SelectorsFetched` (no lookup of a target's selector fails; `history_selector` shows what happens
  otherwise). A Vpa is replaced when its selector changes; that its target still has the old one, and the history is lost all the same, would need a
  Vpa that matches nothing and yet has history. `NothingFed` excludes it.
- `Refinement == Spec => ImplementsContract`. The step that could fail is `Update`, which writes a whole cached copy. `Versions` says that two states
  of a VPA with the same resource version are the same state, so a write that is accepted changes nothing but the snapshot; `Captures`
  says that a snapshot on its way to a VPA that has not changed was stated in that VPA's life.

`ClusterProofs`

- `ClusterTypeCorrect`, `PodCountsExact`, `LinksAreExact`. Neither is inductive without the types, and
  `PodCount` is a natural number only because it is exact, so the three are proved together (with `TodoListed`: the pods left to add are listed).
  `RecountLemma` says how a change of one pod changes the recount.
- `PodCountsListed` and `ObservedRequestsListed` relate them to the listing, from `SaverKeepsLabels` (in memory-saver mode no pod is relabelled or comes back
  under its name; section 8 says why). `LoadInv` says what `LoadPods` has done so far: the pods it is through with are
  as listed, the others are still in its list. `RequestsInv` says that an observation of this cycle is later than any of before, so that the merge prefers
  a pod that is listed.
- `MarkedAreControlled`. `MarkedInv` adds to the property that no two groups share a pointer (marks are on objects). A VPA that
  goes or changes its selector unmarks what it uses, which is what it matched only by `LinksAreExact`.

`CheckpointsProofs`

- `CheckpointsTypeCorrect`, `SubtractionsMatch`, `OnePeak`. `OnePeakPerInterval` is not inductive: a
  restart turns what is stored, or about to be, into what is restored. `IInv` adds when peaks end: those
  restored when the process started at the latest, those stored or in a worker's hands by now, a process's own
  at least one interval after its start, and only the current one may not have ended, which is the one left out of the checkpoint. `WindowLemma` does the arithmetic of
  windows, `GrowLemma` and `ShiftLemma` the two ways a sample changes the aggregation.
- `RestoredHistoryKept`. `KeptInv` says that what is stored of a restored VPA is covered by what a write would save now and by what each write
  in a worker's hands saves; `TakenOnce` (two workers never write the same VPA) follows from the queue being injective.

`UpdaterProofs`

- `UpdaterTypeCorrect`, `WithinBudget`. The budget holds because of `BudgetInv`: the pods the loop believes to run are at most those that run and those that
  were lost, and a group that may be evicted from had enough pods. Every eviction that counts moves one from the first to the counter, every other
  disappearance is in `lost`. `OneMore` is what `isPodDisruptable` guarantees by its arithmetic, `OnePod` that one change stops at most one pod.

What attempts at proofs exposed, and what was changed for it:

- The cases of `ShouldManageDeployment` overlapped in the model where the code returns early; they are a chain of conditions now.
- After a re-list the model's stream still announced objects that had come and gone unseen; a reflector's list cannot, and `Missed` leaves them out.
- `IgnoredNeverManaged` exempted scenarios that reconfigure VPAs, which cannot break it, and not those that retarget them, which can.
- `HistoryKept` did not excuse a target re-created with another selector, whose history goes rightly; `recommends` had one selector
  and could not tell. It has two now.
- A sorting function said to be the code's, but defined by recursion, could not be reasoned about; `Ascending` says what is needed of it.

Only model-checked: the liveness properties (`Converges` three times, `EventuallyWritten`, `OrphansCollected`), which are out of the prover's
reach. Every invariant and every action property of a passing run is a theorem. Outside the theorems' hypotheses TLC still looks at
some behaviours, on small instances: `QuiescentConverged` with a retargeted VPA (`lifecycle`) and with a removed label (`two_workers`), `Converges` with
breaking watches around recreated Deployments (`convergence`).

## 7. Disagreements with the documentation

Three runs expect a violation and show what the code does where a document or comment says something else:

- `manual_taken_over`: delete and patch name the VPA only. If a user removes the label (takes the VPA over)
  after the worker listed it, the worker deletes or patches the manual VPA (`watcher-guide.md:119`: "preserves the manual VPA").
- `namespace_lag`: a regex event is expanded with the Namespace cache; when the namespace arrives there later
  nothing happens, as no handler listens to Namespaces. The Deployments stay unmanaged.
- `history_selector`: one failing lookup of a target's selector replaces the Vpa by one that matches nothing and frees its estimators, although they
  "must be reused across recommendation cycles for the same VPA" (`logic/recommender.go:78`).

Six more were met in reading, and have no run of their own:

- The collection of orphaned checkpoints gets the context of the writes (`routines/recommender.go:239`). Once its deadline has passed, the listing of
  namespaces (`cluster_feeder.go:318`) and the deletions (`:363`) fail, and the next attempt is an interval away. Orphans stay for
  as long as the cycles that attempt it run out of time, although `docs/flags.md:65` describes the deadline as one "for writing checkpoints" and `:64`
  gives the collection a frequency of its own. `OrphansCollected` without its exception is violated by `checkpoints`, with one VPA that goes.
- A pod that succeeded or failed is counted as long as it is listed, by `PodCount` and by `GetMatchingPods`. Comments say
  "live Pods" (`model/vpa.go:206`) and "currently active pods" (`model/cluster.go:501`; "active" is neither succeeded nor failed at `:412` and `:466`), and that
  the lister is one of "only not terminated pods" (`cluster_feeder.go:164`). The selector a few lines further down (`:173`) leaves out pending pods only, on
  purpose ("we don't necessarily want to immediately delete them"), so it is the comments that mislead: a VPA with nothing but finished pods
  counts as one with pods. Hence `PodCountListed` speaks of listed pods; of active ones it is false as soon as a pod finishes.
- `LoadVPAs` adds before it deletes, and deleting marks the aggregations of the old VPA as controlled by none
  (`aggregate_container_state.go:180`), the ones included that its replacement for the same pods has just been linked to. They stay so marked, and
  `model/container.go:91` asks for the mark before it records the quality of a recommendation. `MarkedIsControlled` therefore says nothing of lost marks.
- With `--in-place-skip-disruption-budget` a group below `minReplicas` is kept and marked (`pods_restriction_factory.go:228`), but only `CanEvict`
  looks at the mark. A pod whose containers restart on a resize is still resized if the tolerance allows it, although `docs/features.md:131` to `138` says
  that budgets "(eviction tolerance, min replicas)" are then enforced. `DisruptionsWithinBudget` asks for `minReplicas` of evictions only.
- `checkpoints-timeout` is counted "since the start of the recommender's main loop" (`docs/flags.md:65`); the code counts from the
  end of `UpdateVPAs` (`routines/recommender.go:237`). The models have no durations that could tell.
- `lastInPlaceAttemptTimeMap` is keyed by name, set when a resize is first seen and never cleared: a later resize under the same name is evicted
  as soon as it is deferred, not after "more than 5 minutes" (`docs/features.md:159`).

## 8. Known behaviours no run is about

Met while modelling; nothing in the repository says otherwise, or the case is outside the assumptions of a module:

- One watched-namespace regex that does not compile makes every regex-dependent reconciliation fail until it is
  dropped; deleting that object enqueues nothing, as its pattern cannot be expanded. The watcher's properties exempt
  such Deployments (`Undecided`).
- A generated VPA whose target was changed keeps its name; `Create` answers `AlreadyExists` until the key is dropped.
- A generated VPA that a user deletes before the watcher's cache has it, while the watch of VPAs is broken, is never seen: the
  next list shows neither its creation nor its deletion, informers have no resync (`informers.go:45`), and its Deployment stays without a VPA
  until something else changes. Hence `NobodyRelists` in `QuiescentConverges`.
- When the pods cannot be listed, `LoadPods` takes the empty list: every pod is forgotten and built again
  in the next cycle. Counts and links stay right (the run has it), the peak of the current memory window is not known any more.
- A relabelled pod keeps a plain pointer instead of the proxy (`model/cluster.go:174`): when its aggregation is collected, its
  samples go to an object nothing reads.
- In memory-saver mode a pod relabelled away from every VPA is passed over and stays counted in the VPA of
  its old labels: `PodCountListed` fails, so that scenario leaves relabelling out (and the re-creation under the same name, which is the same).
- A selector that changes, or cannot be fetched once, also loses the restored history (`ContainersInitialAggregateState`), and the next
  write replaces the checkpoint by one without it.
- After a restart the watch of events replays evictions of up to an hour; one whose window was stored already adds a second peak.
- A window whose first memory sample is 0 never gets a larger peak (`model/container.go:163` asks for `oldMaxMem != 0`).
- VPAs whose checkpoint writes fail stay in front of the queue: as many of them as workers, with a deadline that
  passes early, keep the others from being written.
- `LoadPods` appends the init containers of every pod in every cycle, and the map of label sets never shrinks: both grow in a long-running process.
- The updater lists pods from an informer cache. One that lags past the evictions of the previous loop, or its resizes, shows
  pods as running that this updater disrupted itself, and their budget is spent again. In `Updater` a loop lists the pods as they are.
- `inPlaceUpdateOngoing` is counted but not looked at: resizes of successive loops may together exceed the tolerance, each loop within its own.
- An eviction names the pod without its UID: a StatefulSet's pod that was replaced since the listing is evicted instead. `DisruptionsWithinBudget` holds
  with that, counted as any eviction.

## 9. Not modelled

- Flags, client construction and logging of both processes: no state.
- Histograms (`recommender/util`): floating point with exponential decay, out of TLC's reach. The VHAPE estimators do not use them;
  `ClusterModel` keeps whether there are samples, `Checkpoints` which peaks there are.
- Metrics, history and spec clients: pure I/O. Start-up from Prometheus and the parsing of OOM events belong to them.
- Admission controller, target fetcher: upstream code that VHAPE runs unchanged; the former appears in `Updater` as what new pods get.
- The updater's priorities and thresholds (floats over resources), its eviction admission and the status check: see section 2.
- Generated clients and deep-copy functions.
- cluster-autoscaler, balancer, addon-resizer: other programs in the same tree, which VHAPE neither calls nor changes. Nearly all of the
  tree's lines are theirs (cloud provider SDKs above all), so the mapped lines are a small share of the tree and a large one of `vhapewatcher/` and of the recommender's
  own packages.

## 10. What could come next

An abstract watcher whose VPA changes in one step, implemented by `Watcher`;
the updater's loop over several VPAs, which share its rate limiters.
