------------------------------ MODULE Watcher -------------------------------
(***************************************************************************)
(* The VHAPE Watcher: seven informers (a reflector that applies the API    *)
(* server's change stream to a cache, and a listener that calls the event  *)
(* handlers), the work queue, the reconciler's workers, and what surrounds *)
(* them: users writing objects, Kubernetes' garbage collector, failing API *)
(* calls, watches that are re-established and restarts of the process.     *)
(***************************************************************************)
EXTENDS Scope, VPAService, WorkQueue, SequencesExt

CONSTANTS
    Workers,        \* the reconciler's worker goroutines
    Scenarios,      \* what exists at the start, and what may happen then
    ManualVPANames, \* names users give to VPAs they create
    Timestamps,     \* creationTimestamps of VhapeWatchedNamespaceRegex objects
    MaxBacklog      \* VPA changes in flight beyond which garbage waits

VARIABLES
    api,      \* the API server's objects (a view)
    watch,    \* per kind, the changes its reflector has not applied yet
    cache,    \* the informer caches (a view)
    notifs,   \* per kind, the notifications its handlers have not seen yet
    running,  \* WaitForCacheSync has returned and the workers are started
    q,        \* the work queue
    worker,   \* what each worker is doing
    dropped,  \* keys whose last reconciliation was given up after maxRetries
    nextUid,  \* UID of the next Deployment
    steps     \* the environment steps allowed, and how many are left

vars == <<api, watch, cache, notifs, running, q, worker, dropped, nextUid, steps>>

UserKinds == Kinds \ {"vpa"}
EnvSteps  == UserKinds \cup {"createVPA", "deleteVPA", "unlabel", "retarget",
                             "reconfigure", "fault", "relist", "restart", "early"}

\* The kinds of environment steps that may happen and how many of them in all.
Budget == [allowed : SUBSET EnvSteps, left : Nat]

FirstUid == 1 + Cardinality(Deployments)

ASSUME WatcherAssumption ==
    /\ \A s \in Scenarios :
          /\ IsView(s.start) /\ s.steps \in Budget
          /\ \A d \in Deployments : Exists(s.start, "deployment", d) =>
                s.start.deployment[d].uid < FirstUid
    /\ ManualVPANames \subseteq VPANames
    /\ Timestamps \subseteq Nat
    /\ MaxBacklog \in Nat \ {0}

(***************************************************************************)
(* A delta is one change of an object as a watch reports it; initial marks *)
(* the deltas of the first list, which HasSynced waits for.  A notification*)
(* carries the old and the new object to the handlers.                     *)
(***************************************************************************)
Delta(k) == [name : Names[k], val : Slot(k), initial : BOOLEAN]
Notif(k) == [name : Names[k], old : Slot(k), new : Slot(k)]

\* pc names the code a worker is in; dep and config are its copies of the
\* Deployment's UID and the decision's configuration, base the cached VPA it
\* patches, doomed the VPAs it still has to delete, failed its error result.
WorkerState == [pc : {"idle", "decide", "list", "create", "patch", "outdated",
                      "cleanup", "remove", "finish"},
                key    : Deployments \cup {None},
                uid    : Nat,
                config : Configs \cup {None},
                base   : VPA \cup {None},
                doomed : SUBSET VPANames,
                failed : BOOLEAN]

\* What each pc needs of the other fields.
WorkerFits(s) ==
    /\ s.pc # "idle" => s.key \in Deployments
    /\ s.pc \in {"create", "patch", "outdated", "cleanup"} => s.config \in Configs
    /\ s.pc = "patch" => s.base \in VPA

Idle == [pc |-> "idle", key |-> None, uid |-> 0, config |-> None,
         base |-> None, doomed |-> {}, failed |-> FALSE]

TypeOK ==
    /\ IsView(api)
    /\ IsView(cache)
    /\ DOMAIN watch = Kinds /\ \A k \in Kinds : watch[k] \in Seq(Delta(k))
    /\ DOMAIN notifs = Kinds /\ \A k \in Kinds : notifs[k] \in Seq(Notif(k))
    /\ running \in BOOLEAN
    /\ q \in Queue
    /\ worker \in [Workers -> {s \in WorkerState : WorkerFits(s)}]
    /\ dropped \subseteq Deployments
    /\ nextUid \in Nat \ {0}
    /\ steps \in Budget

-----------------------------------------------------------------------------
(* Starting and restarting.                                                 *)

\* What a reflector's list hands to an empty cache.
InitialList(view, k) ==
    LET names == {n \in Names[k] : Exists(view, k, n)}
        order == SetToSeq(names)
    IN  [i \in DOMAIN order |->
            [name |-> order[i], val |-> view[k][order[i]], initial |-> TRUE]]

Init ==
    /\ \E s \in Scenarios :
          /\ api = s.start
          /\ watch = [k \in Kinds |-> InitialList(s.start, k)]
          /\ steps = s.steps
    /\ cache = EmptyView
    /\ notifs = [k \in Kinds |-> <<>>]
    /\ running = FALSE
    /\ q = EmptyQueue
    /\ worker = [w \in Workers |-> Idle]
    /\ dropped = {}
    /\ nextUid = FirstUid

\* Seeded bug: the first list is not waited for.
NeverWaits(k) == TRUE

HasSynced(k) == \A i \in DOMAIN watch[k] : ~watch[k][i].initial

\* main.run: WaitForCacheSync returns and the workers are started.
WaitForCacheSync ==
    /\ ~running
    /\ \A k \in Kinds : HasSynced(k)
    /\ running' = TRUE
    /\ UNCHANGED <<api, watch, cache, notifs, q, worker, dropped, nextUid, steps>>

\* The environment takes one of its steps; before the workers run (an "early"
\* step) only in the runs about starting.
Spend(step) ==
    /\ step \in steps.allowed
    /\ running \/ "early" \in steps.allowed
    /\ steps.left > 0
    /\ steps' = [steps EXCEPT !.left = @ - 1]

\* The process dies and starts again: all it knew is gone.
Restart ==
    /\ Spend("restart")
    /\ watch' = [k \in Kinds |-> InitialList(api, k)]
    /\ cache' = EmptyView
    /\ notifs' = [k \in Kinds |-> <<>>]
    /\ running' = FALSE
    /\ q' = EmptyQueue
    /\ worker' = [w \in Workers |-> Idle]
    /\ dropped' = {}
    /\ UNCHANGED <<api, nextUid>>

-----------------------------------------------------------------------------
(* Informers.                                                               *)

\* The reflector applies the next change to the cache and, unless there is
\* nothing to tell (a deletion of what the cache never held), notifies.
Deliver(k) ==
    /\ watch[k] # <<>>
    /\ LET d   == Head(watch[k])
           old == cache[k][d.name]
       IN  /\ cache' = [cache EXCEPT ![k][d.name] = d.val]
           /\ notifs' = IF old = Absent /\ d.val = Absent
                        THEN notifs
                        ELSE [notifs EXCEPT ![k] =
                                Append(@, [name |-> d.name, old |-> old, new |-> d.val])]
    /\ watch' = [watch EXCEPT ![k] = Tail(@)]
    /\ UNCHANGED <<api, running, q, worker, dropped, nextUid, steps>>

\* The objects whose changes the reflector has not seen, as a new list shows them:
\* those that exist with another resourceVersion, and the cached ones that are gone.
Missed(k) ==
    {n \in Names[k] : IF Exists(api, k, n)
                      THEN \E i \in DOMAIN watch[k] : watch[k][i].name = n
                      ELSE Exists(cache, k, n)}

\* The watch breaks and the reflector lists again: of several changes of an
\* object only the last reaches the cache, so a deletion and re-creation
\* arrives as an update, and a creation and deletion not at all.
Relist(k) ==
    /\ Spend("relist")
    /\ HasSynced(k)
    /\ LET order == SetToSeq(Missed(k))
       IN  watch' = [watch EXCEPT ![k] =
               [i \in DOMAIN order |->
                   [name |-> order[i], val |-> api[k][order[i]], initial |-> FALSE]]]
    /\ UNCHANGED <<api, cache, notifs, running, q, worker, dropped, nextUid>>

-----------------------------------------------------------------------------
(* Event handlers: the keys a notification adds to the queue.               *)

EnqueueDeploymentsInNamespace(ns) ==
    {d \in Deployments : NamespaceOf[d] = ns /\ Exists(cache, "deployment", d)}

EnqueueDeploymentsMatchingNamespaceRegex(pattern) ==
    UNION {EnqueueDeploymentsInNamespace(ns) :
              ns \in GetNamespacesMatchingRegex(cache, pattern)}

\* A Deployment is enqueued when it is added; updates and deletions are ignored.
OnDeployment(n) == IF n.old = Absent THEN {n.name} ELSE {}

\* Seeded bug: only the new target of an updated object is enqueued.
NewTarget(n) == {x.target : x \in {n.new} \ {Absent}} \ {NoTarget}

\* The Deployments the old and the new object target, in the cache or not.
OldAndNewTarget(n) == {x.target : x \in {n.old, n.new} \ {Absent}} \ {NoTarget}

OnVPA(n) == OldAndNewTarget(n)

OnIgnoredWorkload(n) == OldAndNewTarget(n)

OnWatchedNamespace(n) == EnqueueDeploymentsInNamespace(n.name)

\* Seeded bug: deleting a VhapeIgnoredNamespace enqueues nothing.
IgnoresUnignoring(n) ==
    IF n.old = Absent THEN EnqueueDeploymentsInNamespace(n.name) ELSE {}

\* Updates are ignored: there is nothing in the object to change.
OnIgnoredNamespace(n) ==
    IF Absent \in {n.old, n.new} THEN EnqueueDeploymentsInNamespace(n.name) ELSE {}

\* Seeded bug: a deleted regex enqueues nothing.
IgnoresDeletedRegex(n) ==
    IF n.new = Absent THEN {}
    ELSE EnqueueDeploymentsMatchingNamespaceRegex(n.new.pattern)

OnWatchedNamespaceRegex(n) ==
    UNION {EnqueueDeploymentsMatchingNamespaceRegex(x.pattern) :
              x \in {n.old, n.new} \ {Absent}}

\* No handler is registered for Namespaces.
HandlerKeys(k, n) ==
    CASE k = "deployment"       -> OnDeployment(n)
      [] k = "vpa"              -> OnVPA(n)
      [] k = "watchedNamespace" -> OnWatchedNamespace(n)
      [] k = "watchedRegex"     -> OnWatchedNamespaceRegex(n)
      [] k = "ignoredNamespace" -> OnIgnoredNamespace(n)
      [] k = "ignoredWorkload"  -> OnIgnoredWorkload(n)
      [] k = "namespace"        -> {}

\* A listener passes its next notification to the handlers.
Handle(k) ==
    /\ notifs[k] # <<>>
    /\ LET keys == HandlerKeys(k, Head(notifs[k]))
       IN  \E order \in SetToSeqs(NewKeys(q, keys)) : q' = AddAll(q, keys, order)
    /\ notifs' = [notifs EXCEPT ![k] = Tail(@)]
    /\ UNCHANGED <<api, watch, cache, running, worker, dropped, nextUid, steps>>

-----------------------------------------------------------------------------
(* The API server.                                                          *)

\* An object is written; a write that changes nothing is no event.
Store(k, n, val) ==
    /\ api' = [api EXCEPT ![k][n] = val]
    /\ watch' = IF api[k][n] = val THEN watch
                ELSE [watch EXCEPT ![k] =
                        Append(@, [name |-> n, val |-> val, initial |-> FALSE])]

\* Worker w writes a VPA.  The call succeeds, or returns an error after it took
\* effect (a lost answer) or without effect.
CallAPI(w, n, val, ok, err) ==
    \/ /\ Store("vpa", n, val)
       /\ worker' = [worker EXCEPT ![w] = ok]
       /\ UNCHANGED steps
    \/ /\ Spend("fault")
       /\ Store("vpa", n, val) \/ UNCHANGED <<api, watch>>
       /\ worker' = [worker EXCEPT ![w] = err]

-----------------------------------------------------------------------------
(* The reconciler's workers.                                                *)

\* The start of processNextWorkItem.
ProcessNextWorkItem(w) ==
    /\ running
    /\ worker[w].pc = "idle"
    /\ q.fifo # <<>>
    /\ q' = Get(q)
    /\ worker' = [worker EXCEPT ![w].pc = "decide", ![w].key = Head(q.fifo)]
    /\ dropped' = dropped \ {Head(q.fifo)}
    /\ UNCHANGED <<api, watch, cache, notifs, running, nextUid, steps>>

\* ReconcileDeployment up to the decision: a Deployment that is not in the
\* cache ends the reconciliation without error.
Decide(w) ==
    /\ worker[w].pc = "decide"
    /\ LET d == worker[w].key
       IN  \/ /\ ~Exists(cache, "deployment", d)
              /\ worker' = [worker EXCEPT ![w].pc = "finish"]
           \/ /\ Exists(cache, "deployment", d)
              /\ \E dec \in ShouldManageDeployment(cache, d) :
                   worker' = [worker EXCEPT
                       ![w].pc     = IF dec.kind = "error" THEN "finish" ELSE "list",
                       ![w].failed = dec.kind = "error",
                       ![w].uid    = cache.deployment[d].uid,
                       ![w].config = dec.config]
    /\ UNCHANGED <<api, watch, cache, notifs, running, q, dropped, nextUid, steps>>

\* The VPA the worker wants for its key.
Desired(w) == GenerateVPAForDeployment(worker[w].key, worker[w].uid, worker[w].config)

\* Seeded bug: every VPA of the Deployment is deleted, whoever owns it.
RemovesManual(view, dep) == ListForDeployment(view, dep)

\* EnsureNoGeneratedVPAForDeployment: the generated VPAs go.
EnsureNoGenerated(view, dep) == ManagedVPAs(view, dep)

\* The rest of ReconcileDeployment: list the Deployment's VPAs and choose
\* between EnsureNoGeneratedVPAForDeployment and the three cases of
\* EnsureOneGeneratedVPAForDeployment.
List(w) ==
    /\ worker[w].pc = "list"
    /\ LET d       == worker[w].key
           name    == NameForDeployment(d)
           managed == ManagedVPAs(cache, d)
           manual  == ListForDeployment(cache, d) \ managed
           others  == managed \ {name}
       IN  worker' = [worker EXCEPT ![w] =
             CASE @.config = None \/ manual # {} ->
                    [@ EXCEPT !.pc = "remove", !.doomed = EnsureNoGenerated(cache, d)]
               [] @.config # None /\ manual = {} /\ name \notin managed ->
                    [@ EXCEPT !.pc = "create", !.doomed = others]
               [] @.config # None /\ manual = {} /\ name \in managed ->
                    IF IsDesiredGeneratedVPA(cache.vpa[name], Desired(w))
                    THEN [@ EXCEPT !.pc = "cleanup", !.doomed = others]
                    ELSE [@ EXCEPT !.pc = "patch", !.doomed = others,
                                   !.base = cache.vpa[name]]]
    /\ UNCHANGED <<api, watch, cache, notifs, running, q, dropped, nextUid, steps>>

\* Seeded bug: the error of the create or patch is lost.
LosesError(w, failed) == [worker[w] EXCEPT !.pc = "cleanup", !.base = None]

\* EnsureOne goes on to its last loop with the error so far.
CleanUp(w, failed) == [worker[w] EXCEPT !.pc = "cleanup", !.failed = failed, !.base = None]

\* ApplyVPA: a VPA of that name, whatever it is, makes Create fail.
ApplyVPA(w) ==
    /\ worker[w].pc = "create"
    /\ LET name == NameForDeployment(worker[w].key)
       IN  \/ /\ Exists(api, "vpa", name)
              /\ worker' = [worker EXCEPT ![w] = CleanUp(w, TRUE)]
              /\ UNCHANGED <<api, watch, steps>>
           \/ /\ ~Exists(api, "vpa", name)
              /\ CallAPI(w, name, Desired(w), CleanUp(w, FALSE), CleanUp(w, TRUE))
    /\ UNCHANGED <<cache, notifs, running, q, dropped, nextUid>>

\* PatchVPA; when it fails the VPA is deleted next.
PatchVPA(w) ==
    /\ worker[w].pc = "patch"
    /\ LET name    == NameForDeployment(worker[w].key)
           deleted == [worker[w] EXCEPT !.pc = "outdated", !.base = None]
       IN  \/ /\ ~Exists(api, "vpa", name)
              /\ worker' = [worker EXCEPT ![w] = deleted]
              /\ UNCHANGED <<api, watch, steps>>
           \/ /\ Exists(api, "vpa", name)
              /\ CallAPI(w, name,
                         MergePatch(worker[w].base, Desired(w), api.vpa[name]),
                         CleanUp(w, FALSE), deleted)
    /\ UNCHANGED <<cache, notifs, running, q, dropped, nextUid>>

\* DeleteVPA names the VPA and nothing else: what has that name is deleted, and
\* a VPA that is gone is no error.
DeleteVPA(w, v, ok, err) == CallAPI(w, v, Absent, ok, err)

\* The VPA PatchVPA failed on is deleted; the patch error stands either way.
DeleteOutdated(w) ==
    /\ worker[w].pc = "outdated"
    /\ DeleteVPA(w, NameForDeployment(worker[w].key), CleanUp(w, TRUE), CleanUp(w, TRUE))
    /\ UNCHANGED <<cache, notifs, running, q, dropped, nextUid>>

\* EnsureOne's last loop: every other generated VPA is deleted, errors or not.
DeleteOthers(w) ==
    /\ worker[w].pc = "cleanup"
    /\ \E v \in worker[w].doomed :
         LET rest == [worker[w] EXCEPT !.doomed = @ \ {v}]
         IN  DeleteVPA(w, v, rest, [rest EXCEPT !.failed = TRUE])
    /\ UNCHANGED <<cache, notifs, running, q, dropped, nextUid>>

\* EnsureNo's loop stops at the first error.
DeleteGenerated(w) ==
    /\ worker[w].pc = "remove"
    /\ \E v \in worker[w].doomed :
         DeleteVPA(w, v, [worker[w] EXCEPT !.doomed = @ \ {v}],
                         [worker[w] EXCEPT !.doomed = {}, !.failed = TRUE])
    /\ UNCHANGED <<cache, notifs, running, q, dropped, nextUid>>

\* Seeded bug: one retry too many.
GivesUpLate(w) == worker[w].failed /\ q.requeues[worker[w].key] > MaxRetries

GivesUp(w) == worker[w].failed /\ q.requeues[worker[w].key] >= MaxRetries

\* Seeded bugs: an error is not retried; the deferred Done is missing.
NoRetry(w) == Done(Forget(q, worker[w].key), worker[w].key)

NeverDone(w) ==
    IF worker[w].failed /\ ~GivesUp(w)
    THEN AddRateLimited(q, worker[w].key)
    ELSE Forget(q, worker[w].key)

\* The queue when worker w is through with its key.  An error is retried after a
\* delay until the key has been requeued maxRetries times, then it is forgotten.
QueueAfter(w) ==
    LET key == worker[w].key
    IN  Done(IF worker[w].failed /\ ~GivesUp(w)
             THEN AddRateLimited(q, key) ELSE Forget(q, key), key)

\* The end of processNextWorkItem.
FinishWorkItem(w) ==
    /\ \/ worker[w].pc = "finish"
       \/ worker[w].pc \in {"cleanup", "remove"} /\ worker[w].doomed = {}
    /\ q' = QueueAfter(w)
    /\ dropped' = IF GivesUp(w) THEN dropped \cup {worker[w].key} ELSE dropped
    /\ worker' = [worker EXCEPT ![w] = Idle]
    /\ UNCHANGED <<api, watch, cache, notifs, running, nextUid, steps>>

\* A held-back key comes due.
Retry(key) ==
    /\ key \in q.waiting
    /\ q' = DelayExpires(q, key)
    /\ UNCHANGED <<api, watch, cache, notifs, running, worker, dropped, nextUid, steps>>

-----------------------------------------------------------------------------
(* Users and the garbage collector.                                         *)

\* What a user may write over an object: creation, update, deletion (Absent).
UserValues(k, n) ==
    CASE k = "namespace"  -> {Present}
      [] k = "deployment" ->
            IF Exists(api, k, n) THEN {Absent}
            ELSE {[uid |-> nextUid] : x \in {api.namespace[NamespaceOf[n]]} \ {Absent}}
      [] k = "watchedNamespace" -> {[config |-> c] : c \in Configs} \cup {Absent}
      [] k = "watchedRegex" ->
            {v \in [pattern : Patterns, config : Configs, created : Timestamps] :
                IF Exists(api, k, n) THEN v.created = api[k][n].created
                ELSE \A r \in RegexNames :
                        Exists(api, k, r) => api[k][r].created <= v.created}
            \cup {Absent}
      [] k = "ignoredNamespace" -> {Present, Absent}
      [] k = "ignoredWorkload"  -> {[target |-> t] : t \in Targets} \cup {Absent}

\* A user creates, updates or deletes an object that is not a VPA.
UserWrites(k, n) ==
    /\ Spend(k)
    /\ \E val \in UserValues(k, n) \ {api[k][n]} :
         /\ Store(k, n, val)
         /\ nextUid' = IF k = "deployment" /\ val # Absent THEN nextUid + 1 ELSE nextUid
    /\ UNCHANGED <<cache, notifs, running, q, worker, dropped>>

UserStoresVPA(step, v, val) ==
    /\ Spend(step)
    /\ val # api.vpa[v]
    /\ Store("vpa", v, val)
    /\ UNCHANGED <<cache, notifs, running, q, worker, dropped, nextUid>>

\* A VPA's targetRef has no namespace: it names a workload of the VPA's own.
TargetsInNamespace(v) ==
    {NoTarget} \cup {d \in Deployments : NamespaceOf[d] = VPANamespace[v]}

\* The configuration of a user's own VPA plays no part.
ManualConfig == CHOOSE c \in Configs : TRUE

UserCreatesVPA(v) ==
    /\ v \in ManualVPANames /\ ~Exists(api, "vpa", v)
    /\ \E t \in TargetsInNamespace(v) :
         UserStoresVPA("createVPA", v,
             [managed |-> FALSE, target |-> t, policy |-> ManualConfig.policy,
              mode |-> ManualConfig.mode, owner |-> 0])

UserDeletesVPA(v) == UserStoresVPA("deleteVPA", v, Absent)

\* A user takes a VPA over by removing the watcher's label, points it at another
\* workload of the namespace, or changes its policy or update mode.
UserEditsVPA(v) ==
    /\ Exists(api, "vpa", v)
    /\ \/ UserStoresVPA("unlabel", v, [api.vpa[v] EXCEPT !.managed = FALSE])
       \/ \E t \in TargetsInNamespace(v) :
            UserStoresVPA("retarget", v, [api.vpa[v] EXCEPT !.target = t])
       \/ \E c \in Configs :
            UserStoresVPA("reconfigure", v,
                [api.vpa[v] EXCEPT !.policy = c.policy, !.mode = c.mode])

\* A VPA whose controller ownerReference names a Deployment incarnation that is
\* gone.  (While the Deployment's deletion has not reached the watcher it creates
\* the VPA anew each time it is collected; MaxBacklog bounds the changes that
\* piles up, not how often it happens.)
Orphaned(v) ==
    /\ Exists(api, "vpa", v) /\ api.vpa[v].owner # 0
    /\ \A d \in Deployments :
         Exists(api, "deployment", d) => api.deployment[d].uid # api.vpa[v].owner

CollectGarbage(v) ==
    /\ Orphaned(v)
    /\ Len(watch.vpa) + Len(notifs.vpa) < MaxBacklog
    /\ Store("vpa", v, Absent)
    /\ UNCHANGED <<cache, notifs, running, q, worker, dropped, nextUid, steps>>

-----------------------------------------------------------------------------
WorkerStep(w) ==
    \/ ProcessNextWorkItem(w) \/ Decide(w) \/ List(w)
    \/ ApplyVPA(w) \/ PatchVPA(w) \/ DeleteOutdated(w)
    \/ DeleteOthers(w) \/ DeleteGenerated(w) \/ FinishWorkItem(w)

Environment ==
    \/ \E k \in UserKinds : \E n \in Names[k] : UserWrites(k, n)
    \/ \E v \in VPANames : UserCreatesVPA(v) \/ UserDeletesVPA(v) \/ UserEditsVPA(v)
    \/ \E k \in Kinds : Relist(k)
    \/ Restart

Next ==
    \/ WaitForCacheSync
    \/ \E k \in Kinds : Deliver(k) \/ Handle(k)
    \/ \E w \in Workers : WorkerStep(w)
    \/ \E key \in Deployments : Retry(key)
    \/ \E v \in VPANames : CollectGarbage(v)
    \/ Environment

Spec == Init /\ [][Next]_vars

\* Goroutines are scheduled, watches deliver, delays expire and garbage is
\* collected; nobody owes the watcher a user's step, a restart or a failure.
Fairness ==
    /\ WF_vars(WaitForCacheSync)
    /\ \A k \in Kinds : WF_vars(Deliver(k)) /\ WF_vars(Handle(k))
    /\ \A w \in Workers : WF_vars(WorkerStep(w))
    /\ \A key \in Deployments : WF_vars(Retry(key))
    /\ \A v \in VPANames : WF_vars(CollectGarbage(v))

FairSpec == Spec /\ Fairness

=============================================================================
