---------------------------- MODULE Recommender -----------------------------
(***************************************************************************)
(* The recommender's cycle: LoadVPAs reconciles what it tracks with the    *)
(* VPA lister and frees estimators, then workers take the observed VPAs    *)
(* from a channel; each captures the initial requests, recommends from the *)
(* estimators of the VPA's policy, and patches the status.  Users write    *)
(* VPAs, policies and workloads meanwhile, API calls fail, and the process *)
(* may restart.                                                            *)
(*                                                                         *)
(* The data of a recommendation is reduced to where it comes from: the UID *)
(* of the policy the estimators were built from, whether they had enough   *)
(* history, and the initial request the rules compared with.  A VPA keeps  *)
(* its target; pods and their containers exist while the selector matches. *)
(***************************************************************************)
EXTENDS Integers, Sequences, FiniteSets

CONSTANTS
    VPAs, Policies,    \* names
    Requests,          \* requests a workload's template may state
    Selectors,         \* selectors a workload may have
    Workers,           \* the goroutines of UpdateVPAs
    None,              \* no object, no annotation, no status
    Nothing,           \* labels.Nothing()
    Empty,             \* a status whose recommendation has no container
    InitialVPAs,       \* the possible initial states of the VPAs, and
    InitialPolicies,   \* the other objects that exist when the recommender starts
    InitialTargets,
    FirstUid,          \* UID of the next policy
    Coverage,          \* feeds it takes to cover minimumCoverageWindow
    Allowed,           \* the kinds of environment steps that may happen
    MaxSteps           \* and how many of them in all

VARIABLES
    vpas,        \* per VPA, its states from the one the lister shows to the stored one
    policies,    \* per policy, the same
    target,      \* per VPA, its workload as the target informer shows it
    seen,        \* per VPA, history: the requests stated since it was created
    tracked,     \* clusterState.vpas
    observed,    \* clusterState.observedVPAs
    estimators,  \* podResourceRecommender.estimators
    phase,       \* whether UpdateVPAs is running
    pending,     \* the channel vpaUpdates
    worker,      \* what each worker is doing
    nextUid, nextRv, nextId,
    steps        \* environment steps left of MaxSteps

stores == <<vpas, policies, target, seen>>
memory == <<tracked, observed, estimators, phase, pending, worker>>
vars   == <<stores, memory, nextUid, nextRv, nextId, steps>>

Rec == [by : Nat, learned : BOOLEAN, original : Requests \cup {None}]
Status == {None, Empty} \cup Rec

\* mine: the VPA's recommender selector names this recommender.
VPA == [rv : Nat, mine : BOOLEAN, policy : Policies \cup {None},
        snapshot : Requests \cup {None}, rec : Status]

Policy == [uid : Nat, valid : BOOLEAN]
Target == [selector : Selectors, request : Requests]

\* id stands for the pointer: a Vpa that was removed and added is another one.
Tracked == [id : Nat, selector : Selectors \cup {Nothing},
            policy : Policies \cup {None}, snapshot : Requests \cup {None}]

\* owner, a history variable, is the Vpa the estimators were built for.
Estimators == [policyUID : Nat, fed : 0..Coverage, owner : Nat]

WorkerState == [pc : {"idle", "capture", "update", "recommend", "publish", "stopped"},
                vpa : VPAs \cup {None},
                snapshot : Requests \cup {None},
                status : Status]

Idle == [pc |-> "idle", vpa |-> None, snapshot |-> None, status |-> None]

EnvSteps == {"vpa", "assign", "policy", "invalid", "target", "selector",
             "fault", "restart"}

ASSUME RecommenderAssumption ==
    /\ InitialVPAs \subseteq [VPAs -> VPA \cup {None}]
    /\ InitialPolicies \in [Policies -> Policy \cup {None}]
    /\ InitialTargets \in [VPAs -> Target \cup {None}]
    /\ \A start \in InitialVPAs : \A v \in VPAs : start[v] # None => start[v].rv = 0
    /\ \A p \in Policies : InitialPolicies[p] # None => InitialPolicies[p].uid < FirstUid
    /\ FirstUid \in Nat /\ Coverage \in Nat \ {0} /\ MaxSteps \in Nat
    /\ None \notin Requests \cup VPAs \cup Policies
    /\ None \notin VPA \cup Policy \cup Target \cup Tracked \cup Estimators
    /\ Nothing \notin Selectors
    /\ Workers # {}
    /\ Allowed \subseteq EnvSteps

Listed(log) == log[1]
Stored(log) == log[Len(log)]

-----------------------------------------------------------------------------
(* The API server and its informers.                                        *)

TakesStep(kind) == kind \in Allowed /\ steps > 0 /\ steps' = steps - 1

Logs(S) == {log \in Seq(S) : log # <<>>}

\* The request a workload states, as a set.
Stated(t) == IF t = None THEN {} ELSE {t.request}

Init ==
    /\ \E start \in InitialVPAs : vpas = [v \in VPAs |-> <<start[v]>>]
    /\ policies = [p \in Policies |-> <<InitialPolicies[p]>>]
    /\ target = InitialTargets
    /\ seen = [v \in VPAs |-> Stated(target[v])]
    /\ tracked = [v \in VPAs |-> None]
    /\ observed = [v \in VPAs |-> None]
    /\ estimators = [v \in VPAs |-> None]
    /\ phase = "idle"
    /\ pending = {}
    /\ worker = [w \in Workers |-> Idle]
    /\ nextUid = FirstUid
    /\ nextRv = 1
    /\ nextId = 1
    /\ steps = MaxSteps

\* A write that changes the object gives it a new resource version.
StoreVPA(v, x) ==
    /\ vpas' = [vpas EXCEPT ![v] = Append(@, [x EXCEPT !.rv = nextRv])]
    /\ nextRv' = nextRv + 1

SyncVPA(v) ==
    /\ Len(vpas[v]) > 1
    /\ vpas' = [vpas EXCEPT ![v] = Tail(@)]
    /\ UNCHANGED <<policies, target, seen, memory, nextUid, nextRv, nextId, steps>>

SyncPolicy(p) ==
    /\ Len(policies[p]) > 1
    /\ policies' = [policies EXCEPT ![p] = Tail(@)]
    /\ UNCHANGED <<vpas, target, seen, memory, nextUid, nextRv, nextId, steps>>

CreateVPA(v) ==
    /\ TakesStep("vpa")
    /\ Stored(vpas[v]) = None
    /\ \E p \in Policies \cup {None} :
          StoreVPA(v, [rv |-> 0, mine |-> TRUE, policy |-> p,
                       snapshot |-> None, rec |-> None])
    /\ seen' = [seen EXCEPT ![v] = Stated(target[v])]
    /\ UNCHANGED <<policies, target, memory, nextUid, nextId>>

DeleteVPA(v) ==
    /\ TakesStep("vpa")
    /\ Stored(vpas[v]) # None
    /\ vpas' = [vpas EXCEPT ![v] = Append(@, None)]
    /\ UNCHANGED <<policies, target, seen, memory, nextUid, nextRv, nextId>>

\* The watcher, or a user, names another policy or another recommender.
EditVPA(v) ==
    /\ TakesStep("assign")
    /\ Stored(vpas[v]) # None
    /\ \E p \in Policies \cup {None}, mine \in BOOLEAN :
          /\ <<p, mine>> # <<Stored(vpas[v]).policy, Stored(vpas[v]).mine>>
          /\ StoreVPA(v, [Stored(vpas[v]) EXCEPT !.policy = p, !.mine = mine])
    /\ UNCHANGED <<policies, target, seen, memory, nextUid, nextId>>

\* A policy's spec is immutable: it changes by deleting and creating it.
CreatePolicy(p) ==
    /\ TakesStep("policy")
    /\ Stored(policies[p]) = None
    /\ \E valid \in {TRUE} \cup (IF "invalid" \in Allowed THEN {FALSE} ELSE {}) :
          policies' = [policies EXCEPT ![p] = Append(@, [uid |-> nextUid, valid |-> valid])]
    /\ nextUid' = nextUid + 1
    /\ UNCHANGED <<vpas, target, seen, memory, nextRv, nextId>>

DeletePolicy(p) ==
    /\ TakesStep("policy")
    /\ Stored(policies[p]) # None
    /\ policies' = [policies EXCEPT ![p] = Append(@, None)]
    /\ UNCHANGED <<vpas, target, seen, memory, nextUid, nextRv, nextId>>

\* The workload is created, or its template is edited; its selector is immutable.
WriteTarget(v) ==
    /\ TakesStep("target")
    /\ \E t \in Target \ {target[v]} :
          /\ target[v] # None => t.selector = target[v].selector
          /\ target' = [target EXCEPT ![v] = t]
          /\ seen' = [seen EXCEPT ![v] = @ \cup {t.request}]
    /\ UNCHANGED <<vpas, policies, memory, nextUid, nextRv, nextId>>

DeleteTarget(v) ==
    /\ TakesStep("target")
    /\ target[v] # None
    /\ target' = [target EXCEPT ![v] = None]
    /\ UNCHANGED <<vpas, policies, seen, memory, nextUid, nextRv, nextId>>

-----------------------------------------------------------------------------
(* loadVPAs: the feeder's LoadVPAs, then Free for what it removed.          *)

\* filterVPAs: the VPAs meant for this recommender.
filterVPAs == {v \in VPAs : Listed(vpas[v]) # None /\ Listed(vpas[v]).mine}

\* Seeded bug: the observed VPAs are recorded before they are filtered.
UnfilteredVPAs == [v \in VPAs |-> Listed(vpas[v])]

ObservedVPAs == [v \in VPAs |-> IF v \in filterVPAs THEN Listed(vpas[v]) ELSE None]

\* getSelector: nothing matches when the target is missing or the API fails.
getSelector(v, failing) ==
    IF v \in failing \/ target[v] = None THEN Nothing ELSE target[v].selector

\* Seeded bug: a changed object is always a new Vpa.
ReplacesChanged(v, selector) ==
    tracked[v] = None \/ tracked[v].selector # selector \/ observed[v] # Listed(vpas[v])

Replaces(v, selector) == tracked[v] = None \/ tracked[v].selector # selector

AddOrUpdateVpa(v, selector) ==
    [id       |-> IF Replaces(v, selector) THEN nextId ELSE tracked[v].id,
     selector |-> selector,
     policy   |-> Listed(vpas[v]).policy,
     snapshot |-> Listed(vpas[v]).snapshot]

\* Seeded bug: only estimators of VPAs that are gone are freed.
FreesRemoved(before, after) == before # None /\ after = None

Frees(before, after) == before # None /\ (after = None \/ after.id # before.id)

LoadVPAs(failing) ==
    LET loaded == filterVPAs
        after == [v \in VPAs |-> IF v \in loaded
                                 THEN AddOrUpdateVpa(v, getSelector(v, failing)) ELSE None]
    IN  /\ phase = "idle"
        /\ IF failing = {} THEN UNCHANGED steps
           ELSE TakesStep("selector") /\ failing \subseteq loaded
        /\ tracked' = after
        /\ nextId' = IF \E v \in loaded : Replaces(v, getSelector(v, failing))
                     THEN nextId + 1 ELSE nextId
        /\ estimators' = [v \in VPAs |-> IF Frees(tracked[v], after[v])
                                         THEN None ELSE estimators[v]]
        /\ observed' = ObservedVPAs
        /\ pending' = {v \in VPAs : ObservedVPAs[v] # None}
        /\ phase' = "updating"
        /\ worker' = [w \in Workers |-> Idle]
        /\ UNCHANGED <<stores, nextUid, nextRv>>

-----------------------------------------------------------------------------
(* UpdateVPAs: its workers, and processVPAUpdate split at the API calls.    *)

Goes(w, state) == worker' = [worker EXCEPT ![w] = state]

\* A worker returns, for good, at a VPA that is not in the cluster state.
Take(w, v) ==
    /\ phase = "updating" /\ worker[w].pc = "idle" /\ v \in pending
    /\ pending' = pending \ {v}
    /\ Goes(w, IF tracked[v] = None THEN [Idle EXCEPT !.pc = "stopped"]
               ELSE [Idle EXCEPT !.pc = "capture", !.vpa = v])
    /\ UNCHANGED <<stores, tracked, observed, estimators, phase, nextUid, nextRv, nextId, steps>>

\* ensureInitialRequestsAnnotation up to the call of Update.
Capture(w) ==
    LET v == worker[w].vpa
    IN  /\ worker[w].pc = "capture"
        /\ Goes(w, IF observed[v].snapshot # None \/ target[v] = None
                   THEN [worker[w] EXCEPT !.pc = "recommend"]
                   ELSE [worker[w] EXCEPT !.pc = "update", !.snapshot = target[v].request])
        /\ UNCHANGED <<stores, tracked, observed, estimators, phase, pending,
                       nextUid, nextRv, nextId, steps>>

\* Seeded bug: the copy that is written carries no resource version.
AnyVersion(v) == Stored(vpas[v]) # None

\* The API server refuses an Update of another version than the stored one.
SameVersion(v) == Stored(vpas[v]) # None /\ Stored(vpas[v]).rv = observed[v].rv

\* Update writes the whole cached copy, except for the status subresource.
Update(w) ==
    LET v == worker[w].vpa
        copy == [observed[v] EXCEPT !.snapshot = worker[w].snapshot,
                                    !.rec = Stored(vpas[v]).rec]
    IN  /\ worker[w].pc = "update"
        /\ \/ /\ SameVersion(v)
              /\ StoreVPA(v, copy)
              /\ UNCHANGED steps
           \/ /\ ~SameVersion(v)
              /\ UNCHANGED <<vpas, nextRv, steps>>
           \/ /\ TakesStep("fault")
              /\ UNCHANGED <<vpas, nextRv>>
        /\ Goes(w, [worker[w] EXCEPT !.pc = "recommend"])
        /\ UNCHANGED <<policies, target, seen, tracked, observed, estimators, phase,
                       pending, nextUid, nextId>>

fetchPolicy(v) ==
    IF tracked[v].policy = None THEN None ELSE Listed(policies[tracked[v].policy])

\* Seeded bug: estimators are cached by VPA alone.
ReusesAny(v, policy) == estimators[v] # None

Reuses(v, policy) == estimators[v] # None /\ estimators[v].policyUID = policy.uid

\* What getOrCreateEstimators returns, and caches; None is an error, which
\* leaves the cached ones in place.
getOrCreateEstimators(v, policy) ==
    IF Reuses(v, policy) THEN estimators[v]
    ELSE IF policy.valid
         THEN [policyUID |-> policy.uid, fed |-> 0, owner |-> tracked[v].id]
         ELSE None

Feed(e) == [e EXCEPT !.fed = IF @ < Coverage THEN @ + 1 ELSE @]

Recommendation(v, e) ==
    [by |-> e.policyUID, learned |-> e.fed = Coverage, original |-> tracked[v].snapshot]

Fails(w) ==
    /\ Goes(w, Idle)
    /\ UNCHANGED estimators

\* GetRecommendedPodResources: a metrics snapshot may miss the VPA's pods, the
\* pods may be gone, and the metrics API may fail.
Recommend(w) ==
    LET v == worker[w].vpa
        policy == fetchPolicy(v)
        e == getOrCreateEstimators(v, policy)
        Yields(est, status) ==
            /\ estimators' = [estimators EXCEPT ![v] = est]
            /\ Goes(w, [worker[w] EXCEPT !.pc = "publish", !.status = status])
    IN  /\ worker[w].pc = "recommend"
        /\ \/ /\ policy = None
              /\ Fails(w)
              /\ UNCHANGED steps
           \/ /\ policy # None /\ e = None
              /\ Fails(w)
              /\ UNCHANGED steps
           \/ /\ policy # None /\ e # None
              /\ \/ /\ tracked[v].selector = Nothing
                    /\ Yields(e, Empty)
                    /\ UNCHANGED steps
                 \/ /\ tracked[v].selector # Nothing
                    /\ Yields(Feed(e), Recommendation(v, Feed(e)))
                    /\ UNCHANGED steps
                 \/ /\ tracked[v].selector # Nothing
                    /\ TakesStep("fault")
                    /\ Yields(e, Recommendation(v, e))
                 \/ /\ tracked[v].selector # Nothing
                    /\ TakesStep("fault")
                    /\ Yields(e, Empty)
                 \/ /\ tracked[v].selector # Nothing
                    /\ TakesStep("fault")
                    /\ estimators' = [estimators EXCEPT ![v] = e]
                    /\ Goes(w, Idle)
        /\ UNCHANGED <<stores, tracked, observed, phase, pending, nextUid, nextRv, nextId>>

\* UpdateVpaStatusIfNeeded: compared with the observed status, patched by name.
Publish(w) ==
    LET v == worker[w].vpa
        stored == Stored(vpas[v])
    IN  /\ worker[w].pc = "publish"
        /\ \/ /\ worker[w].status # observed[v].rec
              /\ stored # None /\ stored.rec # worker[w].status
              /\ StoreVPA(v, [stored EXCEPT !.rec = worker[w].status])
              /\ UNCHANGED steps
           \/ /\ \/ worker[w].status = observed[v].rec
                 \/ stored = None
                 \/ stored # None /\ stored.rec = worker[w].status
              /\ UNCHANGED <<vpas, nextRv, steps>>
           \/ /\ TakesStep("fault")
              /\ UNCHANGED <<vpas, nextRv>>
        /\ Goes(w, Idle)
        /\ UNCHANGED <<policies, target, seen, tracked, observed, estimators, phase,
                       pending, nextUid, nextId>>

\* Seeded bug: the workers are not waited for.
EndsAnyTime == pending = {}

\* The channel is closed: a worker ends when it is drained or has returned.
Ended == \A w \in Workers :
            worker[w].pc = "stopped" \/ (worker[w].pc = "idle" /\ pending = {})

EndCycle ==
    /\ phase = "updating"
    /\ Ended
    /\ phase' = "idle"
    /\ UNCHANGED <<stores, tracked, observed, estimators, pending, worker,
                   nextUid, nextRv, nextId, steps>>

\* A new process remembers nothing; its listers wait for their first list.
Restart ==
    /\ TakesStep("restart")
    /\ vpas' = [v \in VPAs |-> <<Stored(vpas[v])>>]
    /\ policies' = [p \in Policies |-> <<Stored(policies[p])>>]
    /\ tracked' = [v \in VPAs |-> None]
    /\ observed' = [v \in VPAs |-> None]
    /\ estimators' = [v \in VPAs |-> None]
    /\ phase' = "idle"
    /\ pending' = {}
    /\ worker' = [w \in Workers |-> Idle]
    /\ UNCHANGED <<target, seen, nextUid, nextRv, nextId>>

-----------------------------------------------------------------------------
Works(w) ==
    \/ \E v \in VPAs : Take(w, v)
    \/ Capture(w) \/ Update(w) \/ Recommend(w) \/ Publish(w)

Informs ==
    \/ \E v \in VPAs : SyncVPA(v)
    \/ \E p \in Policies : SyncPolicy(p)

Writes ==
    \/ \E v \in VPAs : CreateVPA(v) \/ DeleteVPA(v) \/ EditVPA(v)
                       \/ WriteTarget(v) \/ DeleteTarget(v)
    \/ \E p \in Policies : CreatePolicy(p) \/ DeletePolicy(p)

Next ==
    \/ \E failing \in SUBSET VPAs : LoadVPAs(failing)
    \/ \E w \in Workers : Works(w)
    \/ EndCycle
    \/ Informs
    \/ Writes
    \/ Restart

Spec == Init /\ [][Next]_vars

\* main runs RunOnce on a ticker, goroutines are scheduled, calls return, and
\* watches deliver what they have.
FairSpec ==
    /\ Spec
    /\ WF_vars(LoadVPAs({}))
    /\ \A w \in Workers : WF_vars(Works(w))
    /\ WF_vars(EndCycle)
    /\ \A v \in VPAs : WF_vars(SyncVPA(v))
    /\ \A p \in Policies : WF_vars(SyncPolicy(p))
=============================================================================
