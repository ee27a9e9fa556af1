--------------------------- MODULE WatcherProofs ----------------------------
(***************************************************************************)
(* Proofs that hold for all sets of objects, workers and bounds:           *)
(*   TypeCorrect    Spec => []TypeOK                                       *)
(*   QueueCorrect   Spec => []QueueInv                                     *)
(* TypeOK is inductive because WorkerFits ties each pc to the fields the   *)
(* next call needs and because GivesUp is tested before AddRateLimited.    *)
(* QueueInv is inductive relative to TypeOK.  Both are proved action by    *)
(* action, the queue's operators first; they use ObjectsAssumption,        *)
(* WorkQueueAssumption and WatcherAssumption and nothing else.             *)
(***************************************************************************)
EXTENDS WatcherProperties, FiniteSetTheorems, TLAPS

-----------------------------------------------------------------------------
(* Sequences that enumerate finite sets.                                    *)

\* SetToSeq enumerates a finite set as a function on 1 .. Cardinality.
LEMMA SetToSeqType ==
    ASSUME NEW S, IsFiniteSet(S)
    PROVE  SetToSeq(S) \in [1 .. Cardinality(S) -> S] /\ Cardinality(S) \in Nat
<1>1. PICK f : f \in Bijection(1 .. Cardinality(S), S)
  BY FS_CardinalityType DEF ExistsBijection
<1>2. f \in [1 .. Cardinality(S) -> S] /\ IsInjective(f)
  BY <1>1 DEF Bijection, Injection, IsInjective
<1> QED
  BY <1>2, FS_CardinalityType DEF SetToSeq

\* A member of SetToSeqs is a sequence without repetitions.
LEMMA SetToSeqsType ==
    ASSUME NEW S, IsFiniteSet(S), NEW order \in SetToSeqs(S)
    PROVE  /\ order \in Seq(S)
           /\ \A i, j \in DOMAIN order : i # j => order[i] # order[j]
<1>1. Cardinality(S) \in Nat
  BY FS_CardinalityType
<1> QED
  BY <1>1 DEF SetToSeqs

\* An enumeration of a finite set lists all of it.
LEMMA SetToSeqsRange ==
    ASSUME NEW S, IsFiniteSet(S), NEW order \in SetToSeqs(S)
    PROVE  {order[i] : i \in DOMAIN order} = S
<1>1. Cardinality(S) \in Nat
  BY FS_CardinalityType
<1>2. order \in Injection(1 .. Cardinality(S), S)
  BY DEF SetToSeqs, Injection, IsInjective
<1>3. ExistsInjection(1 .. Cardinality(S), S) 
  BY <1>2 DEF ExistsInjection
<1>4. IsFiniteSet(1 .. Cardinality(S)) /\ Cardinality(1 .. Cardinality(S)) = Cardinality(S)
  BY <1>1, FS_Interval
<1>5. order \in Surjection(1 .. Cardinality(S), S)
  BY <1>2, <1>4, FS_Injection
<1> QED
  BY <1>5 DEF Surjection

-----------------------------------------------------------------------------
(* Types of the operators.                                                  *)

\* A view with one object replaced is a view.
LEMMA ViewUpdate ==
    ASSUME NEW view, IsView(view), NEW k \in Kinds, NEW n \in Names[k], NEW val \in Slot(k)
    PROVE  IsView([view EXCEPT ![k][n] = val])
BY DEF IsView

\* There are finitely many names of each kind.
LEMMA NamesFinite == \A k \in Kinds : IsFiniteSet(Names[k])
BY ObjectsAssumption DEF Kinds, Names

\* The first list of a reflector is a sequence of deltas.
LEMMA InitialListType ==
    ASSUME NEW view, IsView(view), NEW k \in Kinds
    PROVE  InitialList(view, k) \in Seq(Delta(k))
<1> DEFINE names == {n \in Names[k] : Exists(view, k, n)}
           order == SetToSeq(names)
<1>1. IsFiniteSet(names)
  BY NamesFinite, FS_Subset
<1>2. order \in [1 .. Cardinality(names) -> names] /\ Cardinality(names) \in Nat
  BY <1>1, SetToSeqType
<1>3. \A n \in names : [name |-> n, val |-> view[k][n], initial |-> TRUE] \in Delta(k)
  BY DEF IsView, Delta
<1>4. InitialList(view, k) = [i \in 1 .. Cardinality(names) |->
          [name |-> order[i], val |-> view[k][order[i]], initial |-> TRUE]]
  BY <1>2 DEF InitialList
<1> HIDE DEF names, order
<1> QED
  BY <1>2, <1>3, <1>4

\* An empty cache is a view.
LEMMA EmptyViewType == IsView(EmptyView)
BY DEF EmptyView, IsView, Slot

\* The generated VPA is a VPA.
LEMMA DesiredType ==
    ASSUME NEW dep \in Deployments, NEW uid \in Nat, NEW config \in Configs
    PROVE  GenerateVPAForDeployment(dep, uid, config) \in VPA
BY DEF GenerateVPAForDeployment, VPA, Configs, Targets

\* Patching a VPA gives a VPA, whatever copy the patch was computed from.
LEMMA MergePatchType ==
    ASSUME NEW cached \in VPA, NEW desired \in VPA, NEW actual \in VPA
    PROVE  MergePatch(cached, desired, actual) \in VPA
BY DEF MergePatch, VPA

\* Every decision is an error, unmanaged, or managed with some configuration.
LEMMA DecisionType ==
    ASSUME NEW view, IsView(view), NEW d \in Deployments
    PROVE  ShouldManageDeployment(view, d) \subseteq Decision
<1> DEFINE ns == NamespaceOf[d]
<1>1. ns \in Namespaces
  BY ObjectsAssumption
<1>2. Exists(view, "watchedNamespace", ns) => view.watchedNamespace[ns].config \in Configs
  BY <1>1 DEF IsView, Exists, Kinds, Names, Slot, Values
<1>3. \A r \in RegexNames : Exists(view, "watchedRegex", r) => view.watchedRegex[r].config \in Configs
  BY DEF IsView, Exists, Kinds, Names, Slot, Values
<1>4. {ScopeError, Unmanaged} \subseteq Decision /\ \A c \in Configs : ManagedWith(c) \in Decision
  BY DEF Decision, ScopeError, Unmanaged, ManagedWith
<1> HIDE DEF ns
<1> DEFINE regexes == GetWatchedNamespaceRegexesMatchingNamespace(view, ns)
<1>5. \A r \in OldestWatchedNamespaceRegex(view, regexes) :
          view.watchedRegex[r].config \in Configs
  BY <1>3 DEF OldestWatchedNamespaceRegex, GetWatchedNamespaceRegexesMatchingNamespace
<1> HIDE DEF regexes
<1> QED
  BY <1>2, <1>4, <1>5 DEF ShouldManageDeployment, ns, regexes

FitWorker == {s \in WorkerState : WorkerFits(s)}

WatchType == DOMAIN watch = Kinds /\ \A k \in Kinds : watch[k] \in Seq(Delta(k))
NotifsType == DOMAIN notifs = Kinds /\ \A k \in Kinds : notifs[k] \in Seq(Notif(k))

\* A write keeps the types of the API server and of the watches.
LEMMA StoreType ==
    ASSUME TypeOK, NEW k \in Kinds, NEW n \in Names[k], NEW val \in Slot(k), Store(k, n, val)
    PROVE  IsView(api)' /\ WatchType'
<1>1. IsView(api)'
  BY ViewUpdate DEF Store, TypeOK
<1>2. [name |-> n, val |-> val, initial |-> FALSE] \in Delta(k)
  BY DEF Delta
<1>3. WatchType'
  BY <1>2 DEF Store, TypeOK, WatchType
<1> QED
  BY <1>1, <1>3

\* Spending an environment step leaves a natural number of them.
LEMMA SpendType ==
    ASSUME TypeOK, NEW step, Spend(step)
    PROVE  steps' \in Budget
<1>1. steps \in Budget /\ steps.left > 0
  BY DEF Spend, TypeOK
<1>2. steps.left - 1 \in Nat
  BY <1>1 DEF Budget
<1> QED
  BY <1>1, <1>2 DEF Spend, Budget

\* A call of the API keeps all types, whichever way it ends.
LEMMA CallAPIType ==
    ASSUME TypeOK, NEW w \in Workers, NEW n \in VPANames, NEW val \in Slot("vpa"),
           NEW ok \in FitWorker, NEW err \in FitWorker, CallAPI(w, n, val, ok, err)
    PROVE  /\ IsView(api)' /\ WatchType'
           /\ worker' \in [Workers -> FitWorker]
           /\ steps' \in Budget
<1>0. "vpa" \in Kinds /\ n \in Names["vpa"]
  BY DEF Kinds, Names
<1>1. CASE Store("vpa", n, val) /\ worker' = [worker EXCEPT ![w] = ok] /\ UNCHANGED steps
  BY <1>0, <1>1, StoreType DEF TypeOK, FitWorker
<1>2. CASE /\ Spend("fault")
           /\ Store("vpa", n, val) \/ UNCHANGED <<api, watch>>
           /\ worker' = [worker EXCEPT ![w] = err]
  <2>1. IsView(api)' /\ WatchType'
    BY <1>0, <1>2, StoreType DEF TypeOK, WatchType
  <2>2. worker' \in [Workers -> FitWorker]
    BY <1>2 DEF TypeOK, FitWorker
  <2> QED
    BY <1>2, <2>1, <2>2, SpendType
<1> QED
  BY <1>1, <1>2 DEF CallAPI

-----------------------------------------------------------------------------
(* The work queue keeps its type.                                           *)

\* Adding keys keeps the type of the queue.
LEMMA AddAllType ==
    ASSUME NEW p \in Queue, NEW keys \in SUBSET Key, NEW order \in Seq(Key)
    PROVE  AddAll(p, keys, order) \in Queue
<1>1. p.fifo \in Seq(Key) /\ p.dirty \subseteq Key
  BY DEF Queue
<1>2. p.fifo \o order \in Seq(Key)
  BY <1>1
<1> QED
  BY <1>1, <1>2 DEF AddAll, Queue

\* Taking a key keeps the type of the queue.
LEMMA GetType ==
    ASSUME NEW p \in Queue, p.fifo # <<>>
    PROVE  Get(p) \in Queue /\ Head(p.fifo) \in Key
<1>1. p.fifo \in Seq(Key)
  BY DEF Queue
<1>2. Tail(p.fifo) \in Seq(Key) /\ Head(p.fifo) \in Key
  BY <1>1
<1> QED
  BY <1>2 DEF Get, Queue

\* Done keeps the type of the queue.
LEMMA DoneType ==
    ASSUME NEW p \in Queue, NEW key \in Key
    PROVE  Done(p, key) \in Queue
<1>1. p.fifo \in Seq(Key)
  BY DEF Queue
<1>2. Append(p.fifo, key) \in Seq(Key)
  BY <1>1
<1> QED
  BY <1>1, <1>2 DEF Done, Queue

\* Forget keeps the type of the queue.
LEMMA ForgetType ==
    ASSUME NEW p \in Queue, NEW key \in Key
    PROVE  Forget(p, key) \in Queue
<1>1. [p.requeues EXCEPT ![key] = 0] \in [Key -> 0 .. MaxRetries]
  BY WorkQueueAssumption DEF Queue
<1> QED
  BY <1>1 DEF Forget, Queue

\* AddRateLimited keeps the type of the queue while retries are left.
LEMMA AddRateLimitedType ==
    ASSUME NEW p \in Queue, NEW key \in Key, p.requeues[key] < MaxRetries
    PROVE  AddRateLimited(p, key) \in Queue
<1>1. [p.requeues EXCEPT ![key] = @ + 1] \in [Key -> 0 .. MaxRetries]
  BY WorkQueueAssumption DEF Queue
<1> QED
  BY <1>1 DEF AddRateLimited, Queue

\* A key whose delay expires keeps the type of the queue.
LEMMA DelayExpiresType ==
    ASSUME NEW p \in Queue, NEW key \in Key
    PROVE  DelayExpires(p, key) \in Queue
<1> DEFINE r == [p EXCEPT !.waiting = @ \ {key}]
<1>1. r \in Queue
  BY DEF Queue
<1>2. <<key>> \in Seq(Key) /\ <<>> \in Seq(Key) /\ {key} \in SUBSET Key
  OBVIOUS
<1> HIDE DEF r
<1>3. Add(r, key) \in Queue
  BY <1>1, <1>2, AddAllType DEF Add
<1> QED
  BY <1>3 DEF DelayExpires, r

-----------------------------------------------------------------------------
(* Type correctness.                                                        *)

\* The initial states are type correct.
LEMMA TypeInit == Init => TypeOK
<1> SUFFICES ASSUME Init PROVE TypeOK
  OBVIOUS
<1>1. IsView(api) /\ IsView(cache)
  BY WatcherAssumption, EmptyViewType DEF Init
<1>2. DOMAIN watch = Kinds /\ \A k \in Kinds : watch[k] \in Seq(Delta(k))
  BY WatcherAssumption, InitialListType DEF Init
<1>3. DOMAIN notifs = Kinds /\ \A k \in Kinds : notifs[k] \in Seq(Notif(k))
  BY DEF Init
<1>4. q \in Queue
  BY WorkQueueAssumption DEF Init, EmptyQueue, Queue
<1>5. worker \in [Workers -> {s \in WorkerState : WorkerFits(s)}]
  BY DEF Init, Idle, WorkerState, WorkerFits
<1>6. nextUid \in Nat \ {0}
  BY ObjectsAssumption, FS_CardinalityType DEF Init, FirstUid
<1> QED
  BY <1>1, <1>2, <1>3, <1>4, <1>5, <1>6, WatcherAssumption DEF Init, TypeOK

\* Each lemma below is the case of one action.
LEMMA RestartType == TypeOK /\ Restart => TypeOK'
<1> SUFFICES ASSUME TypeOK, Restart PROVE TypeOK'
  OBVIOUS
<1>1. IsView(api)' /\ IsView(cache)'
  BY EmptyViewType DEF TypeOK, Restart
<1>2. WatchType' /\ NotifsType'
  BY InitialListType DEF TypeOK, Restart, WatchType, NotifsType
<1>3. q' \in Queue
  BY WorkQueueAssumption DEF Restart, EmptyQueue, Queue
<1>4. worker' \in [Workers -> FitWorker]
  BY DEF Restart, Idle, WorkerState, WorkerFits, FitWorker
<1> QED
  BY <1>1, <1>2, <1>3, <1>4, SpendType
  DEF TypeOK, Restart, WatchType, NotifsType, FitWorker

\* A reflector step keeps the types.
LEMMA DeliverType ==
    ASSUME TypeOK, NEW k \in Kinds, Deliver(k)
    PROVE  TypeOK'
<1> DEFINE d == Head(watch[k])
<1>1. d \in Delta(k) /\ Tail(watch[k]) \in Seq(Delta(k))
  BY DEF TypeOK, Deliver
<1>2. d.name \in Names[k] /\ d.val \in Slot(k)
  BY <1>1 DEF Delta
<1>3. IsView(cache)'
  BY <1>2, ViewUpdate DEF TypeOK, Deliver
<1>4. WatchType'
  BY <1>1 DEF TypeOK, Deliver, WatchType
<1>5. [name |-> d.name, old |-> cache[k][d.name], new |-> d.val] \in Notif(k)
  BY <1>2 DEF Notif, TypeOK, IsView
<1>6. NotifsType'
  BY <1>5 DEF TypeOK, Deliver, NotifsType
<1> QED
  BY <1>3, <1>4, <1>6 DEF TypeOK, Deliver, WatchType, NotifsType

\* A re-list keeps the types.
LEMMA RelistType ==
    ASSUME TypeOK, NEW k \in Kinds, Relist(k)
    PROVE  TypeOK'
<1> DEFINE names == Missed(k)
           order == SetToSeq(names)
           list  == [i \in DOMAIN order |->
                        [name |-> order[i], val |-> api[k][order[i]], initial |-> FALSE]]
<1>1. IsFiniteSet(names)
  BY NamesFinite, FS_Subset DEF Missed
<1>2. order \in [1 .. Cardinality(names) -> names] /\ Cardinality(names) \in Nat
  BY <1>1, SetToSeqType
<1>3. \A n \in names : [name |-> n, val |-> api[k][n], initial |-> FALSE] \in Delta(k)
  BY DEF TypeOK, IsView, Delta, Missed
<1>4. watch' = [watch EXCEPT ![k] = list]
  BY DEF Relist
<1> HIDE DEF names, order
<1>5. list \in Seq(Delta(k))
  BY <1>2, <1>3
<1> HIDE DEF list
<1>6. WatchType'
  BY <1>4, <1>5 DEF TypeOK, WatchType
<1> QED
  BY <1>6, SpendType DEF TypeOK, Relist, WatchType

\* Handlers enqueue Deployment keys.
LEMMA HandlerKeysType ==
    ASSUME TypeOK, NEW k \in Kinds, NEW n \in Notif(k)
    PROVE  HandlerKeys(k, n) \in SUBSET Deployments
<1>1. \A ns : EnqueueDeploymentsInNamespace(ns) \subseteq Deployments
  BY DEF EnqueueDeploymentsInNamespace
<1>2. \A p : EnqueueDeploymentsMatchingNamespaceRegex(p) \subseteq Deployments
  BY <1>1 DEF EnqueueDeploymentsMatchingNamespaceRegex
<1>3. CASE k = "deployment"
  BY <1>3 DEF HandlerKeys, OnDeployment, Notif, Names
<1>4. CASE k = "vpa" \/ k = "ignoredWorkload"
  <2>1. \A x \in VPA : x.target \in Targets
    BY DEF VPA
  <2>2. \A x \in [target : Targets] : x.target \in Targets
    OBVIOUS
  <2>3. Values["vpa"] = VPA /\ Values["ignoredWorkload"] = [target : Targets]
    BY DEF Values
  <2>4. {n.old, n.new} \ {Absent} \subseteq Values[k]
    BY DEF Notif, Slot
  <2>5. OldAndNewTarget(n) \subseteq Deployments
    BY <1>4, <2>1, <2>2, <2>3, <2>4 DEF OldAndNewTarget, Targets
  <2> QED
    BY <1>4, <2>5 DEF HandlerKeys, OnVPA, OnIgnoredWorkload
<1>5. CASE k = "watchedRegex"
  BY <1>2, <1>5 DEF HandlerKeys, OnWatchedNamespaceRegex
<1>6. CASE k = "watchedNamespace" \/ k = "ignoredNamespace"
  BY <1>1, <1>6 DEF HandlerKeys, OnWatchedNamespace, OnIgnoredNamespace
<1>7. CASE k = "namespace"
  BY <1>7 DEF HandlerKeys
<1> QED
  BY <1>3, <1>4, <1>5, <1>6, <1>7 DEF Kinds

\* A listener step keeps the types.
LEMMA HandleType ==
    ASSUME TypeOK, NEW k \in Kinds, Handle(k)
    PROVE  TypeOK'
<1> DEFINE n == Head(notifs[k])
           keys == HandlerKeys(k, n)
<1>1. n \in Notif(k) /\ Tail(notifs[k]) \in Seq(Notif(k))
  BY DEF TypeOK, Handle
<1>2. keys \in SUBSET Key
  BY <1>1, HandlerKeysType DEF Key
<1>3. PICK order \in SetToSeqs(NewKeys(q, keys)) : q' = AddAll(q, keys, order)
  BY DEF Handle
<1>4. IsFiniteSet(NewKeys(q, keys)) /\ NewKeys(q, keys) \subseteq Key
  BY <1>2, ObjectsAssumption, FS_Subset DEF NewKeys, Key
<1>5. order \in Seq(Key)
  <2>1. order \in Seq(NewKeys(q, keys))
    BY <1>4, SetToSeqsType
  <2> QED
    BY <1>4, <2>1
<1> HIDE DEF keys
<1>6. q' \in Queue
  BY <1>2, <1>3, <1>5, AddAllType DEF TypeOK
<1>7. NotifsType'
  BY <1>1 DEF TypeOK, Handle, NotifsType
<1> QED
  BY <1>6, <1>7 DEF TypeOK, Handle, NotifsType

\* Taking a work item keeps the types.
LEMMA ProcessNextWorkItemType ==
    ASSUME TypeOK, NEW w \in Workers, ProcessNextWorkItem(w)
    PROVE  TypeOK'
<1>1. q' \in Queue /\ Head(q.fifo) \in Deployments
  BY GetType DEF TypeOK, ProcessNextWorkItem, Key
<1>2. [worker[w] EXCEPT !.pc = "decide", !.key = Head(q.fifo)] \in FitWorker
  BY <1>1 DEF TypeOK, FitWorker, WorkerState, WorkerFits
<1>3. worker' = [worker EXCEPT ![w] = [worker[w] EXCEPT !.pc = "decide", !.key = Head(q.fifo)]]
  BY DEF ProcessNextWorkItem, TypeOK
<1>4. worker' \in [Workers -> FitWorker]
  BY <1>2, <1>3 DEF TypeOK, FitWorker
<1> QED
  BY <1>1, <1>4 DEF TypeOK, ProcessNextWorkItem, FitWorker

\* The decision keeps the types.
LEMMA DecideType ==
    ASSUME TypeOK, NEW w \in Workers, Decide(w)
    PROVE  TypeOK'
<1> DEFINE d == worker[w].key
<1>1. d \in Deployments /\ worker[w] \in FitWorker
  BY DEF TypeOK, Decide, WorkerFits, FitWorker
<1>2. worker' \in [Workers -> FitWorker]
  <2>1. CASE worker' = [worker EXCEPT ![w].pc = "finish"]
    <3>1. [worker[w] EXCEPT !.pc = "finish"] \in FitWorker
      BY <1>1 DEF FitWorker, WorkerState, WorkerFits
    <3> QED
      BY <2>1, <3>1 DEF TypeOK, FitWorker
  <2>2. CASE /\ Exists(cache, "deployment", d)
             /\ \E dec \in ShouldManageDeployment(cache, d) :
                  worker' = [worker EXCEPT
                      ![w].pc     = IF dec.kind = "error" THEN "finish" ELSE "list",
                      ![w].failed = dec.kind = "error",
                      ![w].uid    = cache.deployment[d].uid,
                      ![w].config = dec.config]
    <3>1. PICK dec \in ShouldManageDeployment(cache, d) :
            worker' = [worker EXCEPT
                      ![w].pc     = IF dec.kind = "error" THEN "finish" ELSE "list",
                      ![w].failed = dec.kind = "error",
                      ![w].uid    = cache.deployment[d].uid,
                      ![w].config = dec.config]
      BY <2>2
    <3>2. dec.config \in Configs \cup {None}
      <4>1. dec \in Decision
        BY <1>1, <3>1, DecisionType DEF TypeOK
      <4> QED
        BY <4>1 DEF Decision
    <3>3. cache.deployment[d].uid \in Nat
      BY <1>1, <2>2 DEF TypeOK, IsView, Kinds, Names, Slot, Values, Exists
    <3> DEFINE s == [worker[w] EXCEPT
                       !.pc     = IF dec.kind = "error" THEN "finish" ELSE "list",
                       !.failed = dec.kind = "error",
                       !.uid    = cache.deployment[d].uid,
                       !.config = dec.config]
    <3>4. s \in FitWorker
      BY <1>1, <3>2, <3>3 DEF FitWorker, WorkerState, WorkerFits
    <3>5. worker' = [worker EXCEPT ![w] = s]
      BY <3>1 DEF TypeOK
    <3> QED
      BY <3>4, <3>5 DEF TypeOK, FitWorker
  <2> QED
    BY <2>1, <2>2 DEF Decide
<1> QED
  BY <1>2 DEF TypeOK, Decide, FitWorker

\* What the write of the desired VPA and the deletions have in common.
LEMMA WriteType ==
    ASSUME TypeOK, NEW w \in Workers, NEW n \in VPANames, NEW val \in Slot("vpa"),
           NEW ok \in FitWorker, NEW err \in FitWorker, CallAPI(w, n, val, ok, err),
           UNCHANGED <<cache, notifs, running, q, dropped, nextUid>>
    PROVE  TypeOK'
BY CallAPIType DEF TypeOK, WatchType, FitWorker

\* The worker state of the last loop is well formed.
LEMMA CleanUpType ==
    ASSUME TypeOK, NEW w \in Workers, NEW failed \in BOOLEAN,
           worker[w].pc \in {"create", "patch", "outdated"}
    PROVE  CleanUp(w, failed) \in FitWorker
<1>1. worker[w] \in WorkerState /\ WorkerFits(worker[w])
  BY DEF TypeOK
<1> QED
  BY <1>1 DEF CleanUp, FitWorker, WorkerState, WorkerFits

\* A worker that writes has a well-formed desired VPA.
LEMMA DesiredVPAType ==
    ASSUME TypeOK, NEW w \in Workers, worker[w].pc \in {"create", "patch"}
    PROVE  Desired(w) \in VPA /\ NameForDeployment(worker[w].key) \in VPANames
<1>1. worker[w] \in WorkerState /\ WorkerFits(worker[w])
  BY DEF TypeOK
<1>2. /\ worker[w].key \in Deployments
      /\ worker[w].uid \in Nat
      /\ worker[w].config \in Configs
  BY <1>1 DEF WorkerState, WorkerFits
<1> QED
  BY <1>2, DesiredType, ObjectsAssumption DEF Desired, NameForDeployment

\* The choice between the ensure cases keeps the types.
LEMMA ListStepType ==
    ASSUME TypeOK, NEW w \in Workers, List(w)
    PROVE  TypeOK'
<1> DEFINE s       == worker[w]
           d       == s.key
           name    == NameForDeployment(d)
           managed == ManagedVPAs(cache, d)
           manual  == ListForDeployment(cache, d) \ managed
           others  == managed \ {name}
           remove  == [s EXCEPT !.pc = "remove", !.doomed = EnsureNoGenerated(cache, d)]
           create  == [s EXCEPT !.pc = "create", !.doomed = others]
           cleanup == [s EXCEPT !.pc = "cleanup", !.doomed = others]
           patch   == [s EXCEPT !.pc = "patch", !.doomed = others, !.base = cache.vpa[name]]
<1>1. s \in WorkerState /\ d \in Deployments
  BY DEF TypeOK, List, WorkerFits
<1>2. managed \subseteq VPANames /\ EnsureNoGenerated(cache, d) \subseteq VPANames
  BY DEF ManagedVPAs, ListForDeployment, EnsureNoGenerated
<1>3. name \in managed => cache.vpa[name] \in VPA
  BY DEF ManagedVPAs, ListForDeployment, TypeOK, IsView, Exists, Kinds, Names, Slot, Values
<1> HIDE DEF managed, name
<1>4. remove \in FitWorker
  BY <1>1, <1>2 DEF FitWorker, WorkerState, WorkerFits
<1>5. s.config # None => create \in FitWorker /\ cleanup \in FitWorker
  BY <1>1, <1>2 DEF FitWorker, WorkerState, WorkerFits
<1>6. s.config # None /\ name \in managed => patch \in FitWorker
  BY <1>1, <1>2, <1>3 DEF FitWorker, WorkerState, WorkerFits
<1>7. \E t \in FitWorker : worker' = [worker EXCEPT ![w] = t]
  <2>1. CASE s.config = None \/ manual # {}
    <3>1. worker' = [worker EXCEPT ![w] = remove]
      BY <2>1 DEF List, TypeOK, managed, name
    <3> QED
      BY <3>1, <1>4
  <2>2. CASE s.config # None /\ manual = {} /\ name \notin managed
    <3>1. worker' = [worker EXCEPT ![w] = create]
      BY <2>2 DEF List, TypeOK, managed, name
    <3> QED
      BY <2>2, <3>1, <1>5
  <2>3. CASE s.config # None /\ manual = {} /\ name \in managed
    <3>1. \/ worker' = [worker EXCEPT ![w] = cleanup]
          \/ worker' = [worker EXCEPT ![w] = patch]
      BY <2>3 DEF List, TypeOK, managed, name
    <3> QED
      BY <2>3, <3>1, <1>5, <1>6
  <2> QED
    BY <2>1, <2>2, <2>3
<1> QED
  BY <1>7 DEF List, TypeOK, FitWorker

\* A create keeps the types.
LEMMA ApplyVPAType ==
    ASSUME TypeOK, NEW w \in Workers, ApplyVPA(w)
    PROVE  TypeOK'
<1> DEFINE name == NameForDeployment(worker[w].key)
<1>1. Desired(w) \in Slot("vpa") /\ name \in VPANames
  BY DesiredVPAType DEF ApplyVPA, Slot, Values
<1>2. CleanUp(w, TRUE) \in FitWorker /\ CleanUp(w, FALSE) \in FitWorker
  BY CleanUpType DEF ApplyVPA
<1>3. CASE worker' = [worker EXCEPT ![w] = CleanUp(w, TRUE)] /\ UNCHANGED <<api, watch, steps>>
  BY <1>2, <1>3 DEF ApplyVPA, TypeOK, FitWorker
<1>4. CASE CallAPI(w, name, Desired(w), CleanUp(w, FALSE), CleanUp(w, TRUE))
  BY <1>1, <1>2, <1>4, WriteType DEF ApplyVPA
<1> QED
  BY <1>3, <1>4 DEF ApplyVPA

\* A patch keeps the types.
LEMMA PatchVPAType ==
    ASSUME TypeOK, NEW w \in Workers, PatchVPA(w)
    PROVE  TypeOK'
<1> DEFINE name    == NameForDeployment(worker[w].key)
           deleted == [worker[w] EXCEPT !.pc = "outdated", !.base = None]
           merged  == MergePatch(worker[w].base, Desired(w), api.vpa[name])
<1>1. Desired(w) \in VPA /\ name \in VPANames
  BY DesiredVPAType DEF PatchVPA
<1>2. worker[w] \in WorkerState /\ WorkerFits(worker[w])
  BY DEF TypeOK
<1>3. CleanUp(w, FALSE) \in FitWorker /\ deleted \in FitWorker
  <2>1. CleanUp(w, FALSE) \in FitWorker
    BY CleanUpType DEF PatchVPA
  <2>2. deleted \in FitWorker
    BY <1>2 DEF PatchVPA, FitWorker, WorkerState, WorkerFits
  <2> QED
    BY <2>1, <2>2
<1>4. CASE worker' = [worker EXCEPT ![w] = deleted] /\ UNCHANGED <<api, watch, steps>>
  BY <1>3, <1>4 DEF PatchVPA, TypeOK, FitWorker
<1>5. CASE Exists(api, "vpa", name) /\ CallAPI(w, name, merged, CleanUp(w, FALSE), deleted)
  <2>1. api.vpa[name] \in VPA
    BY <1>1, <1>5 DEF TypeOK, IsView, Exists, Kinds, Names, Slot, Values
  <2>2. worker[w].base \in VPA
    BY <1>2 DEF PatchVPA, WorkerFits
  <2>3. merged \in Slot("vpa")
    BY <1>1, <2>1, <2>2, MergePatchType DEF Slot, Values
  <2> QED
    BY <1>1, <1>3, <1>5, <2>3, WriteType DEF PatchVPA
<1> QED
  BY <1>4, <1>5 DEF PatchVPA

\* The three deletions keep the types.
LEMMA DeleteType ==
    ASSUME TypeOK, NEW w \in Workers,
           DeleteOutdated(w) \/ DeleteOthers(w) \/ DeleteGenerated(w)
    PROVE  TypeOK'
<1>1. worker[w] \in WorkerState /\ WorkerFits(worker[w])
  BY DEF TypeOK
<1>2. Absent \in Slot("vpa")
  BY DEF Slot
<1>3. CASE DeleteOutdated(w)
  <2>1. NameForDeployment(worker[w].key) \in VPANames
    BY <1>1, <1>3, ObjectsAssumption DEF DeleteOutdated, WorkerFits, NameForDeployment
  <2>2. CleanUp(w, TRUE) \in FitWorker
    BY <1>3, CleanUpType DEF DeleteOutdated
  <2> QED
    BY <1>2, <1>3, <2>1, <2>2, WriteType DEF DeleteOutdated, DeleteVPA
<1>4. CASE DeleteOthers(w)
  <2> DEFINE rest(v) == [worker[w] EXCEPT !.doomed = @ \ {v}]
  <2>1. PICK v \in worker[w].doomed :
            DeleteVPA(w, v, rest(v), [rest(v) EXCEPT !.failed = TRUE])
    BY <1>4 DEF DeleteOthers
  <2>2. rest(v) \in FitWorker /\ [rest(v) EXCEPT !.failed = TRUE] \in FitWorker
    BY <1>1 DEF FitWorker, WorkerState, WorkerFits
  <2>3. v \in VPANames
    BY <1>1 DEF WorkerState
  <2> HIDE DEF rest
  <2> QED
    BY <1>2, <1>4, <2>1, <2>2, <2>3, WriteType DEF DeleteOthers, DeleteVPA
<1>5. CASE DeleteGenerated(w)
  <2> DEFINE rest(v) == [worker[w] EXCEPT !.doomed = @ \ {v}]
             stop    == [worker[w] EXCEPT !.doomed = {}, !.failed = TRUE]
  <2>1. PICK v \in worker[w].doomed : DeleteVPA(w, v, rest(v), stop)
    BY <1>5 DEF DeleteGenerated
  <2>2. rest(v) \in FitWorker /\ stop \in FitWorker
    BY <1>1 DEF FitWorker, WorkerState, WorkerFits
  <2>3. v \in VPANames
    BY <1>1 DEF WorkerState
  <2> HIDE DEF rest, stop
  <2> QED
    BY <1>2, <1>5, <2>1, <2>2, <2>3, WriteType DEF DeleteGenerated, DeleteVPA
<1> QED
  BY <1>3, <1>4, <1>5

\* The end of a reconciliation keeps the types: no requeue past maxRetries.
LEMMA FinishWorkItemType ==
    ASSUME TypeOK, NEW w \in Workers, FinishWorkItem(w)
    PROVE  TypeOK'
<1> DEFINE key == worker[w].key
<1>1. key \in Key /\ key \in Deployments
  BY DEF TypeOK, WorkerFits, FinishWorkItem, Key
<1>2. q' \in Queue
  <2>1. CASE worker[w].failed /\ ~GivesUp(w)
    <3>1. q.requeues[key] < MaxRetries
      BY <1>1, <2>1, WorkQueueAssumption DEF GivesUp, TypeOK, Queue
    <3> QED
      BY <1>1, <2>1, <3>1, AddRateLimitedType, DoneType DEF FinishWorkItem, QueueAfter, TypeOK
  <2>2. CASE ~(worker[w].failed /\ ~GivesUp(w))
    BY <1>1, <2>2, ForgetType, DoneType DEF FinishWorkItem, QueueAfter, TypeOK
  <2> QED
    BY <2>1, <2>2
<1>3. Idle \in FitWorker
  BY DEF Idle, FitWorker, WorkerState, WorkerFits
<1>4. worker' \in [Workers -> FitWorker]
  BY <1>3 DEF FinishWorkItem, TypeOK, FitWorker
<1>5. dropped' \subseteq Deployments
  BY <1>1 DEF FinishWorkItem, TypeOK
<1> QED
  BY <1>2, <1>4, <1>5 DEF FinishWorkItem, TypeOK, FitWorker

\* A due retry keeps the types.
LEMMA RetryType ==
    ASSUME TypeOK, NEW key \in Deployments, Retry(key)
    PROVE  TypeOK'
<1>1. q' \in Queue
  BY DelayExpiresType DEF Retry, TypeOK, Key
<1> QED
  BY <1>1 DEF Retry, TypeOK

\* Users write well-formed values.
LEMMA UserValuesType ==
    ASSUME TypeOK, NEW k \in UserKinds, NEW n \in Names[k]
    PROVE  UserValues(k, n) \subseteq Slot(k)
<1>1. CASE k = "namespace"
  BY <1>1 DEF UserValues, Slot, Values
<1>2. CASE k = "deployment"
  <2>1. [uid |-> nextUid] \in Slot("deployment") /\ Absent \in Slot("deployment")
    BY DEF TypeOK, Slot, Values
  <2>2. UserValues("deployment", n) \subseteq {[uid |-> nextUid], Absent}
    BY DEF UserValues
  <2> QED
    BY <1>2, <2>1, <2>2
<1>3. CASE k = "watchedNamespace"
  BY <1>3 DEF UserValues, Slot, Values
<1>4. CASE k = "watchedRegex"
  <2>1. UserValues("watchedRegex", n) \subseteq
          [pattern : Patterns, config : Configs, created : Timestamps] \cup {Absent}
    BY DEF UserValues
  <2>2. [pattern : Patterns, config : Configs, created : Timestamps] \subseteq
          [pattern : Patterns, config : Configs, created : Nat]
    BY WatcherAssumption
  <2> QED
    BY <1>4, <2>1, <2>2 DEF Slot, Values
<1>5. CASE k = "ignoredNamespace"
  BY <1>5 DEF UserValues, Slot, Values
<1>6. CASE k = "ignoredWorkload"
  BY <1>6 DEF UserValues, Slot, Values
<1> QED
  BY <1>1, <1>2, <1>3, <1>4, <1>5, <1>6 DEF UserKinds, Kinds

\* A user write keeps the types.
LEMMA UserWritesType ==
    ASSUME TypeOK, NEW k \in UserKinds, NEW n \in Names[k], UserWrites(k, n)
    PROVE  TypeOK'
<1>1. PICK val \in Slot(k) :
        /\ Store(k, n, val)
        /\ nextUid' = IF k = "deployment" /\ val # Absent THEN nextUid + 1 ELSE nextUid
  BY UserValuesType DEF UserWrites
<1>2. IsView(api)' /\ WatchType'
  BY <1>1, StoreType DEF UserKinds
<1>3. nextUid' \in Nat \ {0}
  BY <1>1 DEF TypeOK
<1> QED
  BY <1>2, <1>3, SpendType DEF UserWrites, TypeOK, WatchType

\* A user write of a VPA keeps the types.
LEMMA StoresVPAType ==
    ASSUME TypeOK, NEW v \in VPANames, NEW val \in Slot("vpa"), Store("vpa", v, val),
           steps' \in Budget,
           UNCHANGED <<cache, notifs, running, q, worker, dropped, nextUid>>
    PROVE  TypeOK'
<1>1. IsView(api)' /\ WatchType'
  BY StoreType DEF Kinds, Names
<1> QED
  BY <1>1 DEF TypeOK, WatchType

\* Every step of users and of the garbage collector on VPAs keeps the types.
LEMMA VPAStepType ==
    ASSUME TypeOK, NEW v \in VPANames,
           UserCreatesVPA(v) \/ UserDeletesVPA(v) \/ UserEditsVPA(v) \/ CollectGarbage(v)
    PROVE  TypeOK'
<1>1. ASSUME NEW step, NEW val \in Slot("vpa"), UserStoresVPA(step, v, val)
      PROVE  TypeOK'
  BY <1>1, SpendType, StoresVPAType DEF UserStoresVPA
<1>2. Absent \in Slot("vpa") /\ VPA \subseteq Slot("vpa")
  BY DEF Slot, Values
<1>3. TargetsInNamespace(v) \subseteq Targets
  BY DEF TargetsInNamespace, Targets
<1>4. CASE UserCreatesVPA(v)
  <2>1. ManualConfig \in Configs
    <3>1. PICK p \in Policies, u \in Modes : TRUE
      BY ObjectsAssumption
    <3>2. [policy |-> p, mode |-> u] \in Configs
      BY DEF Configs
    <3> QED
      BY <3>2 DEF ManualConfig
  <2>2. PICK t \in TargetsInNamespace(v) : UserStoresVPA("createVPA", v,
            [managed |-> FALSE, target |-> t, policy |-> ManualConfig.policy,
             mode |-> ManualConfig.mode, owner |-> 0])
    BY <1>4 DEF UserCreatesVPA
  <2>3. [managed |-> FALSE, target |-> t, policy |-> ManualConfig.policy,
         mode |-> ManualConfig.mode, owner |-> 0] \in VPA
    BY <1>3, <2>1 DEF VPA, Configs
  <2> QED
    BY <1>1, <1>2, <2>2, <2>3
<1>5. CASE UserDeletesVPA(v)
  BY <1>1, <1>2, <1>5 DEF UserDeletesVPA
<1>6. CASE UserEditsVPA(v)
  <2>1. api.vpa[v] \in VPA
    <3>1. "vpa" \in Kinds /\ Names["vpa"] = VPANames /\ Slot("vpa") = VPA \cup {Absent}
      BY DEF Kinds, Names, Slot, Values
    <3>2. api.vpa \in [VPANames -> VPA \cup {Absent}]
      BY <3>1 DEF TypeOK, IsView
    <3> QED
      BY <1>6, <3>2 DEF UserEditsVPA, Exists
  <2>2. CASE UserStoresVPA("unlabel", v, [api.vpa[v] EXCEPT !.managed = FALSE])
    <3>1. [api.vpa[v] EXCEPT !.managed = FALSE] \in VPA
      BY <2>1 DEF VPA
    <3> QED
      BY <1>1, <1>2, <2>2, <3>1
  <2>3. ASSUME NEW t \in TargetsInNamespace(v),
               UserStoresVPA("retarget", v, [api.vpa[v] EXCEPT !.target = t])
        PROVE  TypeOK'
    <3>1. [api.vpa[v] EXCEPT !.target = t] \in VPA
      BY <1>3, <2>1 DEF VPA
    <3> QED
      BY <1>1, <1>2, <2>3, <3>1
  <2>4. ASSUME NEW c \in Configs,
               UserStoresVPA("reconfigure", v,
                   [api.vpa[v] EXCEPT !.policy = c.policy, !.mode = c.mode])
        PROVE  TypeOK'
    <3>1. c.policy \in Policies /\ c.mode \in Modes
      BY DEF Configs
    <3>2. [api.vpa[v] EXCEPT !.policy = c.policy, !.mode = c.mode] \in VPA
      BY <2>1, <3>1 DEF VPA
    <3> QED
      BY <1>1, <1>2, <2>4, <3>2
  <2> QED
    BY <1>6, <2>2, <2>3, <2>4 DEF UserEditsVPA
<1>7. CASE CollectGarbage(v)
  BY <1>2, <1>7, StoresVPAType DEF CollectGarbage, TypeOK
<1> QED
  BY <1>4, <1>5, <1>6, <1>7

\* Every step keeps the types.
LEMMA TypeStep == TypeOK /\ [Next]_vars => TypeOK'
<1> SUFFICES ASSUME TypeOK, [Next]_vars PROVE TypeOK'
  OBVIOUS
<1>1. CASE WaitForCacheSync
  BY <1>1 DEF TypeOK, WaitForCacheSync
<1>2. ASSUME NEW k \in Kinds, Deliver(k) \/ Handle(k) PROVE TypeOK'
  BY <1>2, DeliverType, HandleType
<1>3. ASSUME NEW w \in Workers, WorkerStep(w) PROVE TypeOK'
  BY <1>3, ProcessNextWorkItemType, DecideType, ListStepType, ApplyVPAType, PatchVPAType,
     DeleteType, FinishWorkItemType DEF WorkerStep
<1>4. ASSUME NEW key \in Deployments, Retry(key) PROVE TypeOK'
  BY <1>4, RetryType
<1>5. ASSUME NEW v \in VPANames, CollectGarbage(v) PROVE TypeOK'
  BY <1>5, VPAStepType
<1>6. CASE Environment
  BY <1>6, UserWritesType, VPAStepType, RelistType, RestartType DEF Environment
<1>7. CASE UNCHANGED vars
  BY <1>7 DEF TypeOK, vars
<1> QED
  BY <1>1, <1>2, <1>3, <1>4, <1>5, <1>6, <1>7 DEF Next

\* Type correctness: caches, streams, queue and workers keep their types, which
\* includes that no key is requeued more than maxRetries times and that a worker
\* holds what its next call needs.
THEOREM TypeCorrect == Spec => []TypeOK
<1>1. Init => TypeOK
  BY TypeInit
<1>2. TypeOK /\ [Next]_vars => TypeOK'
  BY TypeStep
<1> QED
  BY <1>1, <1>2, PTL DEF Spec

-----------------------------------------------------------------------------
(* The work queue hands a key to one worker at a time.  QueueInv is the     *)
(* conjunction of what a queue promises by itself and of how it agrees with *)
(* the workers; together with TypeOK it is inductive.                       *)

QueueSound(p) ==
    /\ \A i, j \in DOMAIN p.fifo : i # j => p.fifo[i] # p.fifo[j]
    /\ Queued(p) = p.dirty \ p.processing

WorkersSound ==
    /\ q.processing = {worker[w].key : w \in {x \in Workers : Busy(x)}}
    /\ \A w1, w2 \in Workers :
          w1 # w2 /\ Busy(w1) /\ Busy(w2) => worker[w1].key # worker[w2].key

\* QueueInv is a fact about the queue and one about the workers.
LEMMA QueueInvParts == QueueInv <=> QueueSound(q) /\ WorkersSound
BY DEF QueueInv, QueueSound, WorkersSound

\* Adding new keys in any order keeps the queue sound.
LEMMA AddAllSound ==
    ASSUME NEW p \in Queue, QueueSound(p), NEW keys \in SUBSET Key, NEW order \in Seq(Key),
           \A i, j \in DOMAIN order : i # j => order[i] # order[j],
           {order[i] : i \in DOMAIN order} = NewKeys(p, keys)
    PROVE  QueueSound(AddAll(p, keys, order)) /\ AddAll(p, keys, order).processing = p.processing
<1> DEFINE r == AddAll(p, keys, order)
<1>1. p.fifo \in Seq(Key)
  BY DEF Queue
<1>2. r.fifo = p.fifo \o order /\ r.dirty = p.dirty \cup keys /\ r.processing = p.processing
  BY DEF AddAll, Queue
<1>3. Queued(r) = Queued(p) \cup NewKeys(p, keys)
  <2>1. /\ DOMAIN r.fifo = 1 .. Len(p.fifo) + Len(order)
        /\ \A i \in 1 .. Len(p.fifo) : r.fifo[i] = p.fifo[i]
        /\ \A j \in 1 .. Len(order) : r.fifo[Len(p.fifo) + j] = order[j]
    BY <1>1, <1>2
  <2>2. Len(p.fifo) \in Nat /\ Len(order) \in Nat
    BY <1>1
  <2> HIDE DEF r
  <2>3. ASSUME NEW k \in Queued(r) PROVE k \in Queued(p) \cup NewKeys(p, keys)
    <3>1. PICK i \in DOMAIN r.fifo : k = r.fifo[i]
      BY DEF Queued
    <3>2. CASE i \in 1 .. Len(p.fifo)
      BY <1>1, <2>1, <3>1, <3>2 DEF Queued
    <3>3. CASE i \notin 1 .. Len(p.fifo)
      <4>1. i - Len(p.fifo) \in 1 .. Len(order)
        BY <2>1, <2>2, <3>1, <3>3
      <4>2. k = order[i - Len(p.fifo)]
        BY <2>1, <2>2, <3>1, <4>1
      <4> QED
        BY <4>1, <4>2
    <3> QED
      BY <3>2, <3>3
  <2>4. ASSUME NEW k \in Queued(p) PROVE k \in Queued(r)
    <3>1. PICK i \in 1 .. Len(p.fifo) : k = p.fifo[i]
      BY <1>1 DEF Queued
    <3>2. i \in DOMAIN r.fifo /\ r.fifo[i] = k
      BY <2>1, <2>2, <3>1
    <3> QED
      BY <3>2 DEF Queued
  <2>5. ASSUME NEW k \in NewKeys(p, keys) PROVE k \in Queued(r)
    <3>1. PICK i \in 1 .. Len(order) : k = order[i]
      OBVIOUS
    <3>2. Len(p.fifo) + i \in DOMAIN r.fifo /\ r.fifo[Len(p.fifo) + i] = k
      BY <2>1, <2>2, <3>1
    <3> QED
      BY <3>2 DEF Queued
  <2> QED
    BY <2>3, <2>4, <2>5
<1>4. \A i, j \in DOMAIN r.fifo : i # j => r.fifo[i] # r.fifo[j]
  <2>1. \A i \in DOMAIN order : order[i] \notin Queued(p)
    BY DEF QueueSound, NewKeys
  <2>2. \A i \in 1 .. Len(p.fifo), j \in 1 .. Len(order) : p.fifo[i] # order[j]
    BY <1>1, <2>1 DEF Queued
  <2> QED
    BY <1>1, <1>2, <2>2 DEF QueueSound
<1>5. Queued(r) = r.dirty \ r.processing
  BY <1>2, <1>3 DEF QueueSound, NewKeys
<1> HIDE DEF r
<1>6. QueueSound(r) /\ r.processing = p.processing
  BY <1>2, <1>4, <1>5 DEF QueueSound
<1> QED
  BY <1>6 DEF r

\* Taking a key keeps the queue sound and the key was not processed before.
LEMMA GetSound ==
    ASSUME NEW p \in Queue, QueueSound(p), p.fifo # <<>>
    PROVE  /\ QueueSound(Get(p))
           /\ Head(p.fifo) \notin p.processing
           /\ Get(p).processing = p.processing \cup {Head(p.fifo)}
<1> DEFINE r == Get(p)
<1>1. p.fifo \in Seq(Key) /\ Len(p.fifo) >= 1
  BY DEF Queue
<1>2. /\ r.fifo = Tail(p.fifo)
      /\ r.dirty = p.dirty \ {Head(p.fifo)}
      /\ r.processing = p.processing \cup {Head(p.fifo)}
  BY DEF Get, Queue
<1>3. Head(p.fifo) = p.fifo[1] /\ Head(p.fifo) \in Queued(p)
  BY <1>1 DEF Queued
<1>4. /\ DOMAIN Tail(p.fifo) = 1 .. Len(p.fifo) - 1
      /\ \A i \in 1 .. Len(p.fifo) - 1 : Tail(p.fifo)[i] = p.fifo[i + 1]
  BY <1>1
<1>5. \A i, j \in DOMAIN r.fifo : i # j => r.fifo[i] # r.fifo[j]
  BY <1>1, <1>2, <1>4 DEF QueueSound
<1>6. Queued(r) = Queued(p) \ {Head(p.fifo)}
  <2>1. ASSUME NEW k \in Queued(r) PROVE k \in Queued(p) /\ k # Head(p.fifo)
    <3>1. PICK i \in 1 .. Len(p.fifo) - 1 : k = p.fifo[i + 1]
      BY <1>2, <1>4 DEF Queued
    <3>2. i + 1 \in DOMAIN p.fifo /\ 1 \in DOMAIN p.fifo /\ i + 1 # 1
      BY <1>1
    <3> QED
      BY <1>3, <3>1, <3>2 DEF Queued, QueueSound
  <2>2. ASSUME NEW k \in Queued(p), k # Head(p.fifo) PROVE k \in Queued(r)
    <3>1. PICK i \in 1 .. Len(p.fifo) : k = p.fifo[i]
      BY <1>1 DEF Queued
    <3>2. i - 1 \in 1 .. Len(p.fifo) - 1 /\ k = Tail(p.fifo)[i - 1]
      BY <1>1, <1>3, <1>4, <2>2, <3>1
    <3> QED
      BY <1>2, <1>4, <3>2 DEF Queued
  <2> QED
    BY <2>1, <2>2
<1>7. Queued(r) = r.dirty \ r.processing /\ Head(p.fifo) \notin p.processing
  BY <1>2, <1>3, <1>6 DEF QueueSound
<1> HIDE DEF r
<1>8. QueueSound(r) /\ r.processing = p.processing \cup {Head(p.fifo)}
  BY <1>2, <1>5, <1>7 DEF QueueSound
<1> QED
  BY <1>7, <1>8 DEF r

\* Done keeps the queue sound and releases the key.
LEMMA DoneSound ==
    ASSUME NEW p \in Queue, QueueSound(p), NEW key \in p.processing
    PROVE  QueueSound(Done(p, key)) /\ Done(p, key).processing = p.processing \ {key}
<1> DEFINE r == Done(p, key)
<1>1. p.fifo \in Seq(Key) /\ key \in Key
  BY DEF Queue
<1>2. /\ r.fifo = IF key \in p.dirty THEN Append(p.fifo, key) ELSE p.fifo
      /\ r.dirty = p.dirty
      /\ r.processing = p.processing \ {key}
  BY DEF Done, Queue
<1>3. key \notin Queued(p)
  BY DEF QueueSound
<1>4. CASE key \in p.dirty
  <2>1. /\ DOMAIN r.fifo = 1 .. Len(p.fifo) + 1
        /\ \A i \in 1 .. Len(p.fifo) : r.fifo[i] = p.fifo[i]
        /\ r.fifo[Len(p.fifo) + 1] = key
    BY <1>1, <1>2, <1>4
  <2>2. Queued(r) = Queued(p) \cup {key}
    <3>1. DOMAIN p.fifo = 1 .. Len(p.fifo) /\ Len(p.fifo) \in Nat
      BY <1>1
    <3>2. ASSUME NEW k \in Queued(r) PROVE k \in Queued(p) \/ k = key
      <4>1. PICK i \in 1 .. Len(p.fifo) + 1 : k = r.fifo[i]
        BY <2>1 DEF Queued
      <4>2. i \in 1 .. Len(p.fifo) \/ i = Len(p.fifo) + 1
        BY <3>1
      <4> QED
        BY <2>1, <3>1, <4>1, <4>2 DEF Queued
    <3>3. Len(p.fifo) + 1 \in DOMAIN r.fifo /\ \A i \in DOMAIN p.fifo : i \in DOMAIN r.fifo
      BY <2>1, <3>1
    <3> HIDE DEF r
    <3>4. key \in Queued(r) /\ \A k \in Queued(p) : k \in Queued(r)
      BY <2>1, <3>1, <3>3 DEF Queued
    <3> QED
      BY <3>2, <3>4
  <2>3. \A i, j \in DOMAIN r.fifo : i # j => r.fifo[i] # r.fifo[j]
    <3>1. DOMAIN p.fifo = 1 .. Len(p.fifo) /\ Len(p.fifo) \in Nat
      BY <1>1
    <3>2. \A i \in 1 .. Len(p.fifo) : p.fifo[i] # key
      BY <1>3, <3>1 DEF Queued
    <3> HIDE DEF r
    <3>3. \A i, j \in 1 .. Len(p.fifo) : i # j => r.fifo[i] # r.fifo[j]
      BY <2>1, <3>1 DEF QueueSound
    <3>4. \A i \in DOMAIN r.fifo : i \in 1 .. Len(p.fifo) \/ i = Len(p.fifo) + 1
      BY <2>1, <3>1
    <3> QED
      BY <2>1, <3>2, <3>3, <3>4
  <2>4. Queued(r) = r.dirty \ r.processing
    BY <1>2, <1>4, <2>2 DEF QueueSound
  <2> HIDE DEF r
  <2>5. QueueSound(r)
    BY <2>3, <2>4 DEF QueueSound
  <2> QED
    BY <1>2, <2>5 DEF r
<1>5. CASE key \notin p.dirty
  <2>1. Queued(r) = Queued(p) /\ r.fifo = p.fifo
    BY <1>2, <1>5 DEF Queued
  <2>2. Queued(r) = r.dirty \ r.processing
    BY <1>2, <1>5, <2>1 DEF QueueSound
  <2> HIDE DEF r
  <2>3. QueueSound(r)
    BY <2>1, <2>2 DEF QueueSound
  <2> QED
    BY <1>2, <2>3 DEF r
<1> QED
  BY <1>4, <1>5

\* A worker's step between taking its key and finishing leaves the queue alone
\* and keeps the key.
LEMMA KeepsKeySound ==
    ASSUME TypeOK, QueueInv, NEW w \in Workers, Busy(w), q' = q, NEW s,
           worker' = [worker EXCEPT ![w] = s], s.pc # "idle", s.key = worker[w].key
    PROVE  QueueInv'
<1>1. \A x \in Workers : (Busy(x)' <=> Busy(x)) /\ worker'[x].key = worker[x].key
  BY DEF TypeOK, Busy
<1>2. WorkersSound'
  BY <1>1, QueueInvParts DEF WorkersSound
<1>3. QueueSound(q)'
  BY QueueInvParts DEF QueueSound, Queued
<1> QED
  BY <1>2, <1>3 DEF QueueInv, QueueSound, WorkersSound

\* The worker steps between the first and the last one are such steps.
LEMMA MiddleStepSound ==
    ASSUME TypeOK, QueueInv, NEW w \in Workers,
           \/ Decide(w) \/ List(w) \/ ApplyVPA(w) \/ PatchVPA(w)
           \/ DeleteOutdated(w) \/ DeleteOthers(w) \/ DeleteGenerated(w)
    PROVE  QueueInv'
<1> DEFINE Keeps(s) == s.pc # "idle" /\ s.key = worker[w].key
<1>0. Busy(w) /\ q' = q
  BY DEF Busy, Decide, List, ApplyVPA, PatchVPA, DeleteOutdated, DeleteOthers, DeleteGenerated
<1>1. worker[w] \in WorkerState
  BY DEF TypeOK
<1>2. \A failed \in BOOLEAN : Keeps(CleanUp(w, failed))
  BY <1>1 DEF CleanUp, WorkerState
<1>3. SUFFICES \E s : Keeps(s) /\ worker' = [worker EXCEPT ![w] = s]
  BY <1>0, KeepsKeySound
<1>4. CASE Decide(w)
  <2>1. CASE worker' = [worker EXCEPT ![w].pc = "finish"]
    <3>1. Keeps([worker[w] EXCEPT !.pc = "finish"])
      BY <1>1 DEF WorkerState
    <3> QED
      BY <2>1, <3>1
  <2>2. ASSUME NEW dec,
               worker' = [worker EXCEPT
                   ![w].pc     = IF dec.kind = "error" THEN "finish" ELSE "list",
                   ![w].failed = dec.kind = "error",
                   ![w].uid    = cache.deployment[worker[w].key].uid,
                   ![w].config = dec.config]
        PROVE  \E s : Keeps(s) /\ worker' = [worker EXCEPT ![w] = s]
    <3> DEFINE s == [worker[w] EXCEPT
                       !.pc     = IF dec.kind = "error" THEN "finish" ELSE "list",
                       !.failed = dec.kind = "error",
                       !.uid    = cache.deployment[worker[w].key].uid,
                       !.config = dec.config]
    <3>1. Keeps(s)
      BY <1>1 DEF WorkerState
    <3>2. worker' = [worker EXCEPT ![w] = s]
      BY <2>2 DEF TypeOK
    <3> HIDE DEF s, Keeps
    <3> QED
      BY <3>1, <3>2
  <2> QED
    BY <1>4, <2>1, <2>2 DEF Decide
<1>5. CASE List(w)
  BY <1>1, <1>5 DEF List, WorkerState
<1>6. ASSUME NEW n, NEW val, NEW ok, NEW err, CallAPI(w, n, val, ok, err), Keeps(ok), Keeps(err)
      PROVE  \E s : Keeps(s) /\ worker' = [worker EXCEPT ![w] = s]
  BY <1>6 DEF CallAPI
<1>7. CASE ApplyVPA(w)
  BY <1>2, <1>6, <1>7 DEF ApplyVPA
<1>8. CASE PatchVPA(w)
  <2>1. Keeps([worker[w] EXCEPT !.pc = "outdated", !.base = None])
    BY <1>1 DEF WorkerState
  <2> QED
    BY <1>2, <1>6, <1>8, <2>1 DEF PatchVPA
<1>9. CASE DeleteOutdated(w)
  BY <1>2, <1>6, <1>9 DEF DeleteOutdated, DeleteVPA
<1>10. CASE DeleteOthers(w)
  <2>1. PICK v \in worker[w].doomed :
            DeleteVPA(w, v, [worker[w] EXCEPT !.doomed = @ \ {v}],
                            [[worker[w] EXCEPT !.doomed = @ \ {v}] EXCEPT !.failed = TRUE])
    BY <1>10 DEF DeleteOthers
  <2>2. /\ Keeps([worker[w] EXCEPT !.doomed = @ \ {v}])
        /\ Keeps([[worker[w] EXCEPT !.doomed = @ \ {v}] EXCEPT !.failed = TRUE])
    BY <1>1, <1>10 DEF DeleteOthers, WorkerState
  <2> QED
    BY <1>6, <2>1, <2>2 DEF DeleteVPA
<1>11. CASE DeleteGenerated(w)
  <2>1. PICK v \in worker[w].doomed :
            DeleteVPA(w, v, [worker[w] EXCEPT !.doomed = @ \ {v}],
                            [worker[w] EXCEPT !.doomed = {}, !.failed = TRUE])
    BY <1>11 DEF DeleteGenerated
  <2>2. /\ Keeps([worker[w] EXCEPT !.doomed = @ \ {v}])
        /\ Keeps([worker[w] EXCEPT !.doomed = {}, !.failed = TRUE])
    BY <1>1, <1>11 DEF DeleteGenerated, WorkerState
  <2> QED
    BY <1>6, <2>1, <2>2 DEF DeleteVPA
<1> QED
  BY <1>4, <1>5, <1>7, <1>8, <1>9, <1>10, <1>11

\* A listener step keeps the invariant.
LEMMA HandleSound ==
    ASSUME TypeOK, QueueInv, NEW k \in Kinds, Handle(k)
    PROVE  QueueInv'
<1> DEFINE keys == HandlerKeys(k, Head(notifs[k]))
           new  == NewKeys(q, keys)
<1>1. Head(notifs[k]) \in Notif(k)
  BY DEF TypeOK, Handle
<1>2. keys \in SUBSET Key
  BY <1>1, HandlerKeysType DEF Key
<1>3. PICK order \in SetToSeqs(new) : q' = AddAll(q, keys, order)
  BY DEF Handle
<1>4. IsFiniteSet(new) /\ new \subseteq Key
  BY <1>2, ObjectsAssumption, FS_Subset DEF NewKeys, Key
<1> HIDE DEF keys
<1>5. /\ order \in Seq(new)
      /\ \A i, j \in DOMAIN order : i # j => order[i] # order[j]
      /\ {order[i] : i \in DOMAIN order} = new
  BY <1>4, SetToSeqsType, SetToSeqsRange
<1>6. order \in Seq(Key)
  BY <1>4, <1>5
<1>7. QueueSound(q') /\ q'.processing = q.processing
  <2>1. q \in Queue /\ QueueSound(q)
    BY QueueInvParts DEF TypeOK
  <2> QED
    BY <1>2, <1>3, <1>5, <1>6, <2>1, AddAllSound
<1>8. WorkersSound'
  BY <1>7, QueueInvParts DEF WorkersSound, Busy, Handle
<1> QED
  BY <1>7, <1>8 DEF QueueInv, QueueSound, WorkersSound, Queued

\* A due retry keeps the invariant.
LEMMA RetrySound ==
    ASSUME TypeOK, QueueInv, NEW key \in Deployments, Retry(key)
    PROVE  QueueInv'
<1> DEFINE p     == [q EXCEPT !.waiting = @ \ {key}]
           order == IF key \in NewKeys(p, {key}) THEN <<key>> ELSE <<>>
<1>1. p \in Queue
  BY DEF TypeOK, Queue
<1>2. /\ p.fifo = q.fifo /\ p.dirty = q.dirty /\ p.processing = q.processing
  BY DEF TypeOK, Queue
<1>3. QueueSound(p)
  BY <1>2, QueueInvParts DEF QueueSound, Queued
<1>4. q' = AddAll(p, {key}, order)
  BY DEF Retry, DelayExpires, Add
<1> HIDE DEF p
<1>5. /\ order \in Seq(Key)
      /\ \A i, j \in DOMAIN order : i # j => order[i] # order[j]
      /\ {order[i] : i \in DOMAIN order} = NewKeys(p, {key})
  <2>1. CASE key \in NewKeys(p, {key})
    <3>1. order = <<key>> /\ NewKeys(p, {key}) = {key}
      BY <2>1 DEF NewKeys
    <3>2. order \in Seq(Key) /\ DOMAIN order = {1} /\ order[1] = key
      BY <3>1 DEF Key
    <3> HIDE DEF order
    <3>3. {order[i] : i \in DOMAIN order} = {key}
      BY <3>2
    <3> QED
      BY <3>1, <3>2, <3>3
  <2>2. CASE key \notin NewKeys(p, {key})
    <3>1. order = <<>> /\ NewKeys(p, {key}) = {}
      BY <2>2 DEF NewKeys
    <3>2. order \in Seq(Key) /\ DOMAIN order = {}
      BY <3>1
    <3> HIDE DEF order
    <3>3. {order[i] : i \in DOMAIN order} = {}
      BY <3>2
    <3> QED
      BY <3>1, <3>2, <3>3
  <2> QED
    BY <2>1, <2>2
<1> HIDE DEF order
<1>6. QueueSound(q') /\ q'.processing = q.processing
  <2>1. {key} \in SUBSET Key
    BY DEF Key
  <2> QED
    BY <1>1, <1>2, <1>3, <1>4, <1>5, <2>1, AddAllSound
<1>7. WorkersSound'
  BY <1>6, QueueInvParts DEF WorkersSound, Busy, Retry
<1> QED
  BY <1>6, <1>7 DEF QueueInv, QueueSound, WorkersSound, Queued

\* Taking a work item gives the key to this worker alone.
LEMMA ProcessNextWorkItemSound ==
    ASSUME TypeOK, QueueInv, NEW w \in Workers, ProcessNextWorkItem(w)
    PROVE  QueueInv'
<1> DEFINE key == Head(q.fifo)
<1>1. QueueSound(q') /\ key \notin q.processing /\ q'.processing = q.processing \cup {key}
  BY GetSound, QueueInvParts DEF TypeOK, ProcessNextWorkItem
<1>2. worker'[w].key = key /\ worker'[w].pc = "decide"
  BY DEF ProcessNextWorkItem, TypeOK, WorkerState
<1>3. \A x \in Workers \ {w} : worker'[x] = worker[x]
  BY DEF ProcessNextWorkItem, TypeOK
<1>4. ~Busy(w) /\ Busy(w)' /\ \A x \in Workers \ {w} : Busy(x)' <=> Busy(x)
  BY <1>2, <1>3 DEF Busy, ProcessNextWorkItem
<1>5. WorkersSound'
  <2>1. q.processing = {worker[x].key : x \in {y \in Workers : Busy(y)}}
    BY QueueInvParts DEF WorkersSound
  <2>2. q'.processing = {worker'[x].key : x \in {y \in Workers : Busy(y)'}}
    BY <1>1, <1>2, <1>3, <1>4, <2>1
  <2>3. \A w1, w2 \in Workers :
          w1 # w2 /\ Busy(w1)' /\ Busy(w2)' => worker'[w1].key # worker'[w2].key
    BY <1>1, <1>2, <1>3, <1>4, <2>1, QueueInvParts DEF WorkersSound
  <2> QED
    BY <2>2, <2>3 DEF WorkersSound
<1> QED
  BY <1>1, <1>5 DEF QueueInv, QueueSound, WorkersSound, Queued

\* The end of a reconciliation releases the key of this worker alone.
LEMMA FinishWorkItemSound ==
    ASSUME TypeOK, QueueInv, NEW w \in Workers, FinishWorkItem(w)
    PROVE  QueueInv'
<1> DEFINE key == worker[w].key
<1>1. Busy(w) /\ key \in Key /\ key \in q.processing
  BY QueueInvParts DEF Busy, FinishWorkItem, TypeOK, WorkerFits, Key, WorkersSound
<1>2. PICK p \in Queue : /\ q' = Done(p, key)
                         /\ p.fifo = q.fifo /\ p.dirty = q.dirty
                         /\ p.processing = q.processing
  <2>1. CASE worker[w].failed /\ ~GivesUp(w)
    <3>1. q.requeues[key] < MaxRetries
      BY <1>1, <2>1, WorkQueueAssumption DEF GivesUp, TypeOK, Queue
    <3>2. AddRateLimited(q, key) \in Queue
      BY <1>1, <3>1, AddRateLimitedType DEF TypeOK
    <3>3. /\ AddRateLimited(q, key).fifo = q.fifo
          /\ AddRateLimited(q, key).dirty = q.dirty
          /\ AddRateLimited(q, key).processing = q.processing
      BY DEF AddRateLimited, TypeOK, Queue
    <3>4. q' = Done(AddRateLimited(q, key), key)
      BY <2>1 DEF FinishWorkItem, QueueAfter
    <3> QED
      BY <3>2, <3>3, <3>4
  <2>2. CASE ~(worker[w].failed /\ ~GivesUp(w))
    <3>1. Forget(q, key) \in Queue
      BY <1>1, ForgetType DEF TypeOK
    <3>2. /\ Forget(q, key).fifo = q.fifo
          /\ Forget(q, key).dirty = q.dirty
          /\ Forget(q, key).processing = q.processing
      BY DEF Forget, TypeOK, Queue
    <3>3. q' = Done(Forget(q, key), key)
      BY <2>2 DEF FinishWorkItem, QueueAfter
    <3> QED
      BY <3>1, <3>2, <3>3
  <2> QED
    BY <2>1, <2>2
<1>3. QueueSound(p)
  BY <1>2, QueueInvParts DEF QueueSound, Queued
<1>4. QueueSound(q') /\ q'.processing = q.processing \ {key}
  BY <1>1, <1>2, <1>3, DoneSound
<1>5. ~Busy(w)' /\ \A x \in Workers \ {w} : worker'[x] = worker[x] /\ (Busy(x)' <=> Busy(x))
  BY DEF FinishWorkItem, TypeOK, Busy, Idle
<1>6. WorkersSound'
  <2>1. /\ q.processing = {worker[x].key : x \in {y \in Workers : Busy(y)}}
        /\ \A x \in Workers \ {w} : Busy(x) => worker[x].key # key
    BY <1>1, QueueInvParts DEF WorkersSound
  <2>2. q'.processing = {worker'[x].key : x \in {y \in Workers : Busy(y)'}}
    BY <1>1, <1>4, <1>5, <2>1
  <2>3. \A w1, w2 \in Workers :
          w1 # w2 /\ Busy(w1)' /\ Busy(w2)' => worker'[w1].key # worker'[w2].key
    BY <1>5, QueueInvParts DEF WorkersSound
  <2> QED
    BY <2>2, <2>3 DEF WorkersSound
<1> QED
  BY <1>4, <1>6 DEF QueueInv, QueueSound, WorkersSound, Queued

\* Every step keeps the invariant.
LEMMA QueueInvStep == TypeOK /\ QueueInv /\ [Next]_vars => QueueInv'
<1> SUFFICES ASSUME TypeOK, QueueInv, [Next]_vars PROVE QueueInv'
  OBVIOUS
<1>1. CASE UNCHANGED <<q, worker>>
  BY <1>1 DEF QueueInv, Queued, Busy
<1>2. ASSUME NEW k \in Kinds, Handle(k) PROVE QueueInv'
  BY <1>2, HandleSound
<1>3. ASSUME NEW w \in Workers, WorkerStep(w) PROVE QueueInv'
  BY <1>3, ProcessNextWorkItemSound, FinishWorkItemSound, MiddleStepSound DEF WorkerStep
<1>4. ASSUME NEW key \in Deployments, Retry(key) PROVE QueueInv'
  BY <1>4, RetrySound
<1>5. CASE Restart
  BY <1>5 DEF Restart, EmptyQueue, Idle, QueueInv, Queued, Busy
<1>6. ASSUME NEW k \in Kinds, Deliver(k) \/ Relist(k) PROVE UNCHANGED <<q, worker>>
  BY <1>6 DEF Deliver, Relist
<1>7. ASSUME NEW k \in UserKinds, NEW n \in Names[k], UserWrites(k, n)
      PROVE  UNCHANGED <<q, worker>>
  BY <1>7 DEF UserWrites
<1>8. ASSUME NEW v \in VPANames,
             UserCreatesVPA(v) \/ UserDeletesVPA(v) \/ UserEditsVPA(v) \/ CollectGarbage(v)
      PROVE  UNCHANGED <<q, worker>>
  BY <1>8 DEF UserCreatesVPA, UserDeletesVPA, UserEditsVPA, UserStoresVPA, CollectGarbage
<1>9. CASE WaitForCacheSync
  BY <1>1, <1>9 DEF WaitForCacheSync
<1>10. CASE UNCHANGED vars
  BY <1>1, <1>10 DEF vars
<1> QED
  BY <1>1, <1>2, <1>3, <1>4, <1>5, <1>6, <1>7, <1>8, <1>9, <1>10 DEF Next, Environment

\* The work queue never hands a key to a second worker and never loses one: a key
\* is in the fifo, once, exactly when it was added and is not being processed.
THEOREM QueueCorrect == Spec => []QueueInv
<1>1. Init => QueueInv
  BY DEF Init, EmptyQueue, Idle, QueueInv, Queued, Busy
<1>2. TypeOK /\ QueueInv /\ [Next]_vars => QueueInv'
  BY QueueInvStep
<1> QED
  BY <1>1, <1>2, TypeCorrect, PTL DEF Spec
=============================================================================
