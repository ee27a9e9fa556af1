------------------------- MODULE WatcherWritesProofs --------------------------
(***************************************************************************)
(* What workers may write, for any number of workers, Deployments and      *)
(* objects:                                                                *)
(*   OneWriter             two workers never have writes of one VPA in     *)
(*                         hand, as long as nobody points a VPA at another *)
(*                         workload and generated names are distinct       *)
(*   IgnoredStaysUnmanaged an ignored Deployment never gets a VPA          *)
(*   ManualVPAsPreserved   a VPA that never had the watcher's label is     *)
(*                         never written                                   *)
(* The first rests on a VPA with the label having the name of the          *)
(* Deployment it targets wherever it is: in the API server, on its way to  *)
(* the cache, in the cache; so all a worker takes from the index has the   *)
(* name of its key, and keys are held by one worker each (QueueInv).  The  *)
(* others follow one thing the watcher must not mistake - what is ignored, *)
(* which VPA is the user's - through the same places and into the workers. *)
(***************************************************************************)
EXTENDS WatcherProofs

\* A VPA with the watcher's label has the name of its target.
Own(v, x) ==
    x # Absent /\ x.managed => x.target \in Deployments /\ v = GeneratedName[x.target]

NobodyRetargets ==
    \A s \in Scenarios :
        "retarget" \notin s.steps.allowed /\ \A v \in VPANames : Own(v, s.start.vpa[v])

DistinctNames ==
    \A d, e \in Deployments : GeneratedName[d] = GeneratedName[e] => d = e

ObjectsOwn ==
    /\ "retarget" \notin steps.allowed
    /\ \A v \in VPANames : Own(v, api.vpa[v]) /\ Own(v, cache.vpa[v])
    /\ \A i \in DOMAIN watch.vpa : Own(watch.vpa[i].name, watch.vpa[i].val)

\* What a worker has in hand has the name of its key; what it patches is labelled.
HoldsOwn(s) ==
    /\ s.doomed # {} => s.pc # "idle" /\ s.doomed = {GeneratedName[s.key]}
    /\ s.pc = "patch" => s.base.managed /\ s.base.target = s.key

WritesInv == ObjectsOwn /\ \A w \in Workers : HoldsOwn(worker[w])

-----------------------------------------------------------------------------
(* Writes.                                                                  *)

\* The VPAs of a view.
LEMMA VPASlots ==
    /\ "vpa" \in Kinds /\ Names["vpa"] = VPANames /\ Slot("vpa") = VPA \cup {Absent}
    /\ TypeOK => /\ api.vpa \in [VPANames -> VPA \cup {Absent}]
                 /\ cache.vpa \in [VPANames -> VPA \cup {Absent}]
                 /\ watch.vpa \in Seq(Delta("vpa"))
<1>1. "vpa" \in Kinds /\ Names["vpa"] = VPANames /\ Slot("vpa") = VPA \cup {Absent}
  BY DEF Kinds, Names, Slot, Values
<1> QED
  BY <1>1 DEF TypeOK, IsView

\* Spending a step allows no other steps.
LEMMA SpendAllows == ASSUME TypeOK, NEW step, Spend(step) PROVE steps'.allowed = steps.allowed
BY DEF TypeOK, Spend, Budget

\* The kinds by name.
LEMMA KindNames ==
    /\ Kinds = {"namespace", "deployment", "vpa", "watchedNamespace",
                "watchedRegex", "ignoredNamespace", "ignoredWorkload"}
    /\ Names["namespace"] = Namespaces /\ Names["watchedNamespace"] = Namespaces
    /\ Names["ignoredNamespace"] = Namespaces /\ Names["watchedRegex"] = RegexNames
    /\ Names["ignoredWorkload"] = IgnoreRules /\ Names["deployment"] = Deployments
    /\ Names["vpa"] = VPANames
BY DEF Kinds, Names

\* The objects and the deltas of one kind.
LEMMA KindTypes ==
    ASSUME TypeOK, NEW k \in Kinds
    PROVE  /\ api[k] \in [Names[k] -> Slot(k)] /\ cache[k] \in [Names[k] -> Slot(k)]
           /\ watch[k] \in Seq(Delta(k)) /\ notifs[k] \in Seq(Notif(k))
BY DEF TypeOK, IsView

\* SetToSeq lists all of a finite set.
LEMMA SetToSeqOnto ==
    ASSUME NEW S, IsFiniteSet(S)
    PROVE  /\ SetToSeq(S) \in [1 .. Cardinality(S) -> S]
           /\ \A x \in S : \E i \in DOMAIN SetToSeq(S) : SetToSeq(S)[i] = x
<1> DEFINE f == SetToSeq(S)
<1>1. f \in [1 .. Cardinality(S) -> S] /\ Cardinality(S) \in Nat /\ IsInjective(f)
  <2>1. PICK g : g \in Bijection(1 .. Cardinality(S), S)
    BY FS_CardinalityType DEF ExistsBijection
  <2>2. g \in [1 .. Cardinality(S) -> S] /\ IsInjective(g)
    BY <2>1 DEF Bijection, Injection, IsInjective
  <2> QED
    BY <2>2, FS_CardinalityType DEF SetToSeq
<1> HIDE DEF f
<1>2. f \in Injection(1 .. Cardinality(S), S)
  BY <1>1 DEF Injection, IsInjective
<1>3. ExistsInjection(1 .. Cardinality(S), S)
  BY <1>2 DEF ExistsInjection
<1>4. IsFiniteSet(1 .. Cardinality(S)) /\ Cardinality(1 .. Cardinality(S)) = Cardinality(S)
  BY <1>1, FS_Interval
<1>5. f \in Surjection(1 .. Cardinality(S), S)
  BY <1>2, <1>4, FS_Injection
<1> QED
  BY <1>1, <1>5 DEF Surjection, f

\* The first list names each object that exists, once.
LEMMA InitialListParts ==
    ASSUME NEW view, IsView(view), NEW k \in Kinds
    PROVE  LET list == InitialList(view, k)
           IN  /\ \A i \in DOMAIN list :
                     /\ list[i].initial /\ list[i].name \in Names[k]
                     /\ Exists(view, k, list[i].name) /\ list[i].val = view[k][list[i].name]
               /\ \A n \in Names[k] : Exists(view, k, n) => \E i \in DOMAIN list : list[i].name = n
<1> DEFINE names == {n \in Names[k] : Exists(view, k, n)}
           order == SetToSeq(names)
<1>1. IsFiniteSet(names)
  BY NamesFinite, FS_Subset
<1>2. order \in [1 .. Cardinality(names) -> names] /\ \A n \in names : \E i \in DOMAIN order : order[i] = n
  BY <1>1, SetToSeqOnto
<1>3. InitialList(view, k) = [i \in 1 .. Cardinality(names) |->
          [name |-> order[i], val |-> view[k][order[i]], initial |-> TRUE]]
  BY <1>2 DEF InitialList
<1>4. \A n \in names : n \in Names[k] /\ Exists(view, k, n)
  OBVIOUS
<1>5. \A n \in Names[k] : Exists(view, k, n) => n \in names
  OBVIOUS
<1> HIDE DEF names, order
<1> QED
  BY <1>2, <1>3, <1>4, <1>5

\* What worker w may store: nothing over a VPA it is to delete, and its own VPA.
WorkerStores(w, v, val) ==
    \/ /\ val = Absent
       /\ \/ v \in worker[w].doomed
          \/ worker[w].pc = "outdated" /\ v = GeneratedName[worker[w].key]
    \/ /\ worker[w].pc = "create" /\ v = GeneratedName[worker[w].key]
       /\ ~Exists(api, "vpa", v) /\ val = Desired(w)
    \/ /\ worker[w].pc = "patch" /\ v = GeneratedName[worker[w].key]
       /\ Exists(api, "vpa", v) /\ val = MergePatch(worker[w].base, Desired(w), api.vpa[v])

\* A worker writes one VPA at a time: one it was to delete, or its own.
LEMMA WorkerWrites ==
    ASSUME TypeOK, NEW w \in Workers, WorkerStep(w)
    PROVE  /\ UNCHANGED <<cache, notifs, running, nextUid>> /\ steps'.allowed = steps.allowed
           /\ \/ UNCHANGED <<api, watch>>
              \/ \E v \in VPANames : \E val \in Slot("vpa") :
                    Store("vpa", v, val) /\ WorkerStores(w, v, val)
<1> DEFINE s    == worker[w]
           name == NameForDeployment(s.key)
<1>1. ASSUME NEW v \in VPANames, NEW val \in Slot("vpa"), WorkerStores(w, v, val),
             NEW ok, NEW err, CallAPI(w, v, val, ok, err)
      PROVE  /\ steps'.allowed = steps.allowed
             /\ \/ UNCHANGED <<api, watch>>
                \/ Store("vpa", v, val) /\ WorkerStores(w, v, val)
  BY <1>1, SpendAllows DEF CallAPI
<1>2. s \in WorkerState /\ WorkerFits(s)
  BY DEF TypeOK
<1>3. s.pc # "idle" => s.key \in Deployments /\ name \in VPANames /\ name = GeneratedName[s.key]
  BY <1>2, ObjectsAssumption DEF WorkerFits, NameForDeployment
<1>4. Absent \in Slot("vpa") /\ VPA \subseteq Slot("vpa")
  BY VPASlots
<1>5. \A v \in s.doomed : WorkerStores(w, v, Absent)
  BY DEF WorkerStores
<1>6. CASE ProcessNextWorkItem(w) \/ Decide(w) \/ List(w) \/ FinishWorkItem(w)
  BY <1>6 DEF ProcessNextWorkItem, Decide, List, FinishWorkItem
<1>7. CASE ApplyVPA(w)
  <2>1. Desired(w) \in VPA /\ name \in VPANames
        /\ (~Exists(api, "vpa", name) => WorkerStores(w, name, Desired(w)))
    BY <1>3, <1>7, DesiredVPAType DEF ApplyVPA, WorkerStores
  <2> QED
    BY <1>1, <1>4, <1>7, <2>1 DEF ApplyVPA
<1>8. CASE PatchVPA(w)
  <2> DEFINE merged == MergePatch(s.base, Desired(w), api.vpa[name])
             gone   == [worker[w] EXCEPT !.pc = "outdated", !.base = None]
  <2>1. name \in VPANames /\ Desired(w) \in VPA /\ s.base \in VPA /\ s.pc = "patch"
    BY <1>2, <1>3, <1>8, DesiredVPAType DEF PatchVPA, WorkerFits
  <2>2. ASSUME Exists(api, "vpa", name)
        PROVE  merged \in VPA /\ WorkerStores(w, name, merged)
    <3>1. api.vpa[name] \in VPA
      BY <2>1, <2>2, VPASlots DEF Exists
    <3> QED
      BY <1>3, <2>1, <2>2, <3>1, MergePatchType DEF WorkerStores
  <2> HIDE DEF merged
  <2>3. \/ UNCHANGED <<api, watch, steps>>
        \/ Exists(api, "vpa", name) /\ CallAPI(w, name, merged, CleanUp(w, FALSE), gone)
    BY <1>8 DEF PatchVPA, merged
  <2>4. UNCHANGED <<cache, notifs, running, nextUid>>
    BY <1>8 DEF PatchVPA
  <2> HIDE DEF gone
  <2> QED
    BY <1>1, <1>4, <2>1, <2>2, <2>3, <2>4
<1>9. CASE DeleteOutdated(w)
  <2>1. name \in VPANames /\ WorkerStores(w, name, Absent)
    BY <1>3, <1>9 DEF DeleteOutdated, WorkerStores
  <2> QED
    BY <1>1, <1>4, <1>9, <2>1 DEF DeleteOutdated, DeleteVPA
<1>10. ASSUME NEW v \in s.doomed, NEW ok, NEW err, DeleteVPA(w, v, ok, err),
              UNCHANGED <<cache, notifs, running, q, dropped, nextUid>>
       PROVE  /\ UNCHANGED <<cache, notifs, running, nextUid>> /\ steps'.allowed = steps.allowed
              /\ \/ UNCHANGED <<api, watch>>
                 \/ \E x \in VPANames : \E val \in Slot("vpa") :
                       Store("vpa", x, val) /\ WorkerStores(w, x, val)
  <2>1. v \in VPANames
    BY <1>2 DEF WorkerState
  <2> QED
    BY <1>1, <1>4, <1>5, <1>10, <2>1 DEF DeleteVPA
<1>11. CASE DeleteOthers(w)
  BY <1>10, <1>11 DEF DeleteOthers
<1>12. CASE DeleteGenerated(w)
  BY <1>10, <1>12 DEF DeleteGenerated
<1> QED
  BY <1>6, <1>7, <1>8, <1>9, <1>11, <1>12 DEF WorkerStep

\* What users and the garbage collector may store.
UsersStore(v, val) ==
    \/ val = Absent
    \/ val # Absent /\ ~val.managed /\ v \in ManualVPANames /\ "createVPA" \in steps.allowed
    \/ Exists(api, "vpa", v) /\ val # Absent /\ ~val.managed /\ "unlabel" \in steps.allowed
    \/ /\ Exists(api, "vpa", v) /\ val # Absent
       /\ val.managed = api.vpa[v].managed /\ val.owner = api.vpa[v].owner
       /\ val.target = api.vpa[v].target \/ "retarget" \in steps.allowed

\* Nobody but a worker puts the label on a VPA; users create, take over and point
\* elsewhere what they may.
LEMMA UserWritesVPA ==
    ASSUME TypeOK, NEW v \in VPANames,
           UserCreatesVPA(v) \/ UserDeletesVPA(v) \/ UserEditsVPA(v) \/ CollectGarbage(v)
    PROVE  /\ UNCHANGED <<cache, notifs, running, q, worker, dropped, nextUid>>
           /\ steps'.allowed = steps.allowed
           /\ \E val \in Slot("vpa") : Store("vpa", v, val) /\ UsersStore(v, val)
<1> DEFINE Done1 ==
             /\ UNCHANGED <<cache, notifs, running, q, worker, dropped, nextUid>>
             /\ steps'.allowed = steps.allowed
             /\ \E val \in Slot("vpa") : Store("vpa", v, val) /\ UsersStore(v, val)
<1>1. ASSUME NEW step, NEW val \in Slot("vpa"), UserStoresVPA(step, v, val), UsersStore(v, val)
      PROVE  Done1
  BY <1>1, SpendAllows DEF UserStoresVPA
<1>2. Absent \in Slot("vpa") /\ VPA \subseteq Slot("vpa") /\ Absent \notin VPA /\ UsersStore(v, Absent)
  BY VPASlots, AbsentAssumption DEF UsersStore, Values
<1>3. CASE UserCreatesVPA(v)
  <2>1. ManualConfig \in Configs
    <3>1. PICK p \in Policies, u \in Modes : TRUE
      BY ObjectsAssumption
    <3>2. [policy |-> p, mode |-> u] \in Configs
      BY DEF Configs
    <3> QED
      BY <3>2 DEF ManualConfig
  <2> DEFINE x(t) == [managed |-> FALSE, target |-> t, policy |-> ManualConfig.policy,
                      mode |-> ManualConfig.mode, owner |-> 0]
  <2>2. PICK t \in TargetsInNamespace(v) : UserStoresVPA("createVPA", v, x(t))
    BY <1>3 DEF UserCreatesVPA
  <2>3. x(t) \in VPA /\ ~x(t).managed
    BY <2>1 DEF VPA, Configs, TargetsInNamespace, Targets
  <2> HIDE DEF x
  <2>4. v \in ManualVPANames /\ "createVPA" \in steps.allowed
    BY <1>3, <2>2 DEF UserCreatesVPA, UserStoresVPA, Spend
  <2>5. x(t) \in Slot("vpa") /\ UsersStore(v, x(t))
    BY <1>2, <2>3, <2>4 DEF UsersStore
  <2> QED
    BY <1>1, <2>2, <2>5
<1>4. CASE UserDeletesVPA(v)
  BY <1>1, <1>2, <1>4 DEF UserDeletesVPA
<1>5. CASE UserEditsVPA(v)
  <2>1. api.vpa[v] \in VPA /\ Exists(api, "vpa", v)
    BY <1>5, VPASlots DEF UserEditsVPA, Exists
  <2>2. CASE UserStoresVPA("unlabel", v, [api.vpa[v] EXCEPT !.managed = FALSE])
    <3> DEFINE x == [api.vpa[v] EXCEPT !.managed = FALSE]
    <3>1. x \in VPA /\ ~x.managed /\ "unlabel" \in steps.allowed
      BY <2>1, <2>2 DEF VPA, UserStoresVPA, Spend
    <3> HIDE DEF x
    <3>2. x \in Slot("vpa") /\ UsersStore(v, x)
      BY <1>2, <2>1, <3>1 DEF UsersStore
    <3> QED
      BY <1>1, <2>2, <3>2 DEF x
  <2>3. ASSUME NEW t \in TargetsInNamespace(v),
               UserStoresVPA("retarget", v, [api.vpa[v] EXCEPT !.target = t])
        PROVE  Done1
    <3> DEFINE x == [api.vpa[v] EXCEPT !.target = t]
    <3>1. /\ x \in VPA /\ x.managed = api.vpa[v].managed /\ x.owner = api.vpa[v].owner
          /\ "retarget" \in steps.allowed
      BY <2>1, <2>3 DEF VPA, UserStoresVPA, Spend, TargetsInNamespace, Targets
    <3> HIDE DEF x
    <3>2. x \in Slot("vpa") /\ UsersStore(v, x)
      BY <1>2, <2>1, <3>1 DEF UsersStore
    <3> QED
      BY <1>1, <2>3, <3>2 DEF x
  <2>4. ASSUME NEW c \in Configs,
               UserStoresVPA("reconfigure", v,
                   [api.vpa[v] EXCEPT !.policy = c.policy, !.mode = c.mode])
        PROVE  Done1
    <3> DEFINE x == [api.vpa[v] EXCEPT !.policy = c.policy, !.mode = c.mode]
    <3>1. /\ x \in VPA /\ x.managed = api.vpa[v].managed /\ x.owner = api.vpa[v].owner
          /\ x.target = api.vpa[v].target
      BY <2>1 DEF VPA, Configs
    <3> HIDE DEF x
    <3>2. x \in Slot("vpa") /\ UsersStore(v, x)
      BY <1>2, <2>1, <3>1 DEF UsersStore
    <3> QED
      BY <1>1, <2>4, <3>2 DEF x
  <2> QED
    BY <1>5, <2>2, <2>3, <2>4 DEF UserEditsVPA
<1>6. CASE CollectGarbage(v)
  BY <1>2, <1>6 DEF CollectGarbage
<1> QED
  BY <1>3, <1>4, <1>5, <1>6

\* What may happen is fixed.
LEMMA AllowedSame == ASSUME TypeOK, [Next]_vars PROVE steps'.allowed = steps.allowed
<1>1. \A w \in Workers : WorkerStep(w) => steps'.allowed = steps.allowed
  BY WorkerWrites
<1>2. \A v \in VPANames :
         UserCreatesVPA(v) \/ UserDeletesVPA(v) \/ UserEditsVPA(v) \/ CollectGarbage(v)
           => steps'.allowed = steps.allowed
  BY UserWritesVPA
<1>3. \A step : Spend(step) => steps'.allowed = steps.allowed
  BY SpendAllows
<1> QED
  BY <1>1, <1>2, <1>3 DEF Next, Environment, WaitForCacheSync, Deliver, Handle, Retry,
     UserWrites, Relist, Restart, vars

\* A write of a VPA with the name of its target.
LEMMA StoreOwn ==
    ASSUME TypeOK, ObjectsOwn, NEW v \in VPANames, NEW val, Own(v, val),
           Store("vpa", v, val), UNCHANGED cache, steps'.allowed = steps.allowed
    PROVE  ObjectsOwn'
<1>1. \A n \in VPANames : Own(n, api'.vpa[n])
  BY VPASlots DEF Store, ObjectsOwn, TypeOK, IsView
<1>2. \A i \in DOMAIN watch'.vpa : Own(watch'.vpa[i].name, watch'.vpa[i].val)
  <2>1. CASE watch' = watch
    BY <2>1 DEF ObjectsOwn
  <2>2. CASE watch' = [watch EXCEPT !.vpa = Append(@, [name |-> v, val |-> val, initial |-> FALSE])]
    <3>1. watch'.vpa = Append(watch.vpa, [name |-> v, val |-> val, initial |-> FALSE])
      BY <2>2 DEF TypeOK, Kinds
    <3> QED
      BY <3>1, VPASlots DEF ObjectsOwn
  <2> QED
    BY <2>1, <2>2 DEF Store
<1> QED
  BY <1>1, <1>2 DEF ObjectsOwn

\* A write of anything else.
LEMMA OtherStore ==
    ASSUME TypeOK, ObjectsOwn, NEW k \in UserKinds, NEW n, NEW val,
           Store(k, n, val), UNCHANGED cache, steps'.allowed = steps.allowed
    PROVE  ObjectsOwn'
<1>1. api'.vpa = api.vpa /\ watch'.vpa = watch.vpa
  BY VPASlots DEF Store, UserKinds, TypeOK, IsView
<1> QED
  BY <1>1 DEF ObjectsOwn

\* A step of one worker.
LEMMA OneHolds ==
    ASSUME TypeOK, WritesInv, NEW w \in Workers, NEW s, HoldsOwn(s),
           worker' = [worker EXCEPT ![w] = s]
    PROVE  \A x \in Workers : HoldsOwn(worker'[x])
BY DEF TypeOK, WritesInv

\* Steps that touch no VPA, no cache of them and no worker.
LEMMA NothingHeld ==
    ASSUME WritesInv, UNCHANGED worker, ObjectsOwn'
    PROVE  WritesInv'
BY DEF WritesInv

\* A call of the API.
LEMMA CallOwn ==
    ASSUME TypeOK, WritesInv, NEW w \in Workers, NEW v \in VPANames, NEW val, Own(v, val),
           NEW ok, NEW err, HoldsOwn(ok), HoldsOwn(err), CallAPI(w, v, val, ok, err),
           UNCHANGED cache
    PROVE  WritesInv'
<1>1. \E s \in {ok, err} : worker' = [worker EXCEPT ![w] = s]
  BY DEF CallAPI
<1>2. steps'.allowed = steps.allowed
  BY SpendAllows DEF CallAPI
<1>3. ObjectsOwn'
  <2>1. CASE Store("vpa", v, val)
    BY <1>2, <2>1, StoreOwn DEF WritesInv
  <2>2. CASE UNCHANGED <<api, watch>>
    BY <1>2, <2>2 DEF WritesInv, ObjectsOwn
  <2> QED
    BY <2>1, <2>2 DEF CallAPI
<1> QED
  BY <1>1, <1>3, OneHolds DEF WritesInv

-----------------------------------------------------------------------------
(* Workers.                                                                 *)

\* What the index lists for a Deployment has its generated name.
LEMMA ListedOwn ==
    ASSUME TypeOK, WritesInv, NEW d \in Deployments
    PROVE  /\ ManagedVPAs(cache, d) \subseteq {GeneratedName[d]}
           /\ \A v \in ManagedVPAs(cache, d) : cache.vpa[v].managed /\ cache.vpa[v].target = d
<1>1. \A v \in ManagedVPAs(cache, d) :
          /\ v \in VPANames /\ cache.vpa[v] # Absent /\ cache.vpa[v].managed
          /\ cache.vpa[v].target = d
  BY DEF ManagedVPAs, ListForDeployment, Exists, IsManagedByWatcher
<1> QED
  BY <1>1 DEF WritesInv, ObjectsOwn, Own

\* Taking a key, deciding and the end of a reconciliation.
LEMMA InMemoryOwn ==
    ASSUME TypeOK, WritesInv, NEW w \in Workers,
           ProcessNextWorkItem(w) \/ Decide(w) \/ FinishWorkItem(w)
    PROVE  WritesInv'
<1>1. ObjectsOwn'
  BY DEF ProcessNextWorkItem, Decide, FinishWorkItem, WritesInv, ObjectsOwn
<1>2. worker[w] \in WorkerState /\ HoldsOwn(worker[w])
  BY DEF TypeOK, WritesInv
<1>3. \E s : HoldsOwn(s) /\ worker' = [worker EXCEPT ![w] = s]
  <2>1. CASE ProcessNextWorkItem(w)
    <3> DEFINE s == [worker[w] EXCEPT !.pc = "decide", !.key = Head(q.fifo)]
    <3>1. HoldsOwn(s)
      BY <1>2, <2>1 DEF ProcessNextWorkItem, HoldsOwn, WorkerState
    <3>2. worker' = [worker EXCEPT ![w] = s]
      BY <2>1 DEF ProcessNextWorkItem, TypeOK
    <3> HIDE DEF s
    <3> QED
      BY <3>1, <3>2
  <2>2. CASE Decide(w)
    <3>1. CASE worker' = [worker EXCEPT ![w].pc = "finish"]
      <4> DEFINE s == [worker[w] EXCEPT !.pc = "finish"]
      <4>1. HoldsOwn(s)
        BY <1>2, <2>2 DEF Decide, HoldsOwn, WorkerState
      <4> QED
        BY <3>1, <4>1
    <3>2. ASSUME NEW dec,
                 worker' = [worker EXCEPT
                     ![w].pc     = IF dec.kind = "error" THEN "finish" ELSE "list",
                     ![w].failed = dec.kind = "error",
                     ![w].uid    = cache.deployment[worker[w].key].uid,
                     ![w].config = dec.config]
          PROVE  \E s : HoldsOwn(s) /\ worker' = [worker EXCEPT ![w] = s]
      <4> DEFINE s == [worker[w] EXCEPT
                         !.pc     = IF dec.kind = "error" THEN "finish" ELSE "list",
                         !.failed = dec.kind = "error",
                         !.uid    = cache.deployment[worker[w].key].uid,
                         !.config = dec.config]
      <4>1. /\ s.doomed = worker[w].doomed /\ s.key = worker[w].key
            /\ s.pc \in {"finish", "list"}
        BY <1>2 DEF WorkerState
      <4>2. worker' = [worker EXCEPT ![w] = s]
        BY <3>2 DEF TypeOK
      <4> HIDE DEF s
      <4>3. HoldsOwn(s)
        BY <1>2, <2>2, <4>1 DEF Decide, HoldsOwn
      <4> QED
        BY <4>2, <4>3
    <3> QED
      BY <2>2, <3>1, <3>2 DEF Decide
  <2>3. CASE FinishWorkItem(w)
    <3>1. HoldsOwn(Idle)
      BY DEF HoldsOwn, Idle
    <3> QED
      BY <2>3, <3>1 DEF FinishWorkItem
  <2> QED
    BY <2>1, <2>2, <2>3
<1> QED
  BY <1>1, <1>3, OneHolds DEF WritesInv

\* The choice between the ensure cases.
LEMMA ListOwn ==
    ASSUME TypeOK, WritesInv, NEW w \in Workers, List(w)
    PROVE  WritesInv'
<1> DEFINE s       == worker[w]
           d       == s.key
           name    == NameForDeployment(d)
           managed == ManagedVPAs(cache, d)
           others  == managed \ {name}
           remove  == [s EXCEPT !.pc = "remove", !.doomed = EnsureNoGenerated(cache, d)]
           create  == [s EXCEPT !.pc = "create", !.doomed = others]
           cleanup == [s EXCEPT !.pc = "cleanup", !.doomed = others]
           patch   == [s EXCEPT !.pc = "patch", !.doomed = others, !.base = cache.vpa[name]]
<1>1. s \in WorkerState /\ d \in Deployments
  BY DEF TypeOK, List, WorkerFits
<1>2. managed \subseteq {GeneratedName[d]} /\ EnsureNoGenerated(cache, d) = managed
      /\ name = GeneratedName[d]
  BY <1>1, ListedOwn DEF EnsureNoGenerated, NameForDeployment
<1>3. name \in managed => cache.vpa[name].managed /\ cache.vpa[name].target = d
  BY <1>1, ListedOwn
<1> HIDE DEF managed, name
<1>4. others = {}
  BY <1>2
<1>5. managed = {} \/ managed = {GeneratedName[d]}
  BY <1>2
<1>6. HoldsOwn(remove) /\ HoldsOwn(create) /\ HoldsOwn(cleanup)
      /\ (name \in managed => HoldsOwn(patch))
  <2>1. HoldsOwn(remove)
    BY <1>1, <1>2, <1>5 DEF HoldsOwn, WorkerState
  <2>2. HoldsOwn(create) /\ HoldsOwn(cleanup)
    BY <1>1, <1>4 DEF HoldsOwn, WorkerState
  <2>3. ASSUME name \in managed
        PROVE  HoldsOwn(patch)
    <3>1. patch.doomed = {} /\ patch.base = cache.vpa[name] /\ patch.key = d
      BY <1>1, <1>4 DEF WorkerState
    <3> QED
      BY <1>3, <2>3, <3>1 DEF HoldsOwn
  <2> QED
    BY <2>1, <2>2, <2>3
<1>7. \/ worker' = [worker EXCEPT ![w] = remove]
      \/ worker' = [worker EXCEPT ![w] = create]
      \/ worker' = [worker EXCEPT ![w] = cleanup]
      \/ name \in managed /\ worker' = [worker EXCEPT ![w] = patch]
  <2> DEFINE manual == ListForDeployment(cache, d) \ managed
  <2>1. CASE s.config = None \/ manual # {}
    BY <2>1 DEF List, TypeOK, managed, name
  <2>2. CASE s.config # None /\ manual = {} /\ name \notin managed
    BY <2>2 DEF List, TypeOK, managed, name
  <2>3. CASE s.config # None /\ manual = {} /\ name \in managed
    BY <2>3 DEF List, TypeOK, managed, name
  <2> QED
    BY <2>1, <2>2, <2>3
<1> HIDE DEF remove, create, cleanup, patch
<1>8. ObjectsOwn'
  BY DEF List, WritesInv, ObjectsOwn
<1> QED
  BY <1>6, <1>7, <1>8, OneHolds DEF WritesInv

\* Creating and patching.
LEMMA EnsureOneOwn ==
    ASSUME TypeOK, WritesInv, NEW w \in Workers, ApplyVPA(w) \/ PatchVPA(w)
    PROVE  WritesInv'
<1> DEFINE s       == worker[w]
           name    == NameForDeployment(s.key)
           deleted == [s EXCEPT !.pc = "outdated", !.base = None]
           merged  == MergePatch(s.base, Desired(w), api.vpa[name])
<1>1. s \in WorkerState /\ WorkerFits(s) /\ HoldsOwn(s)
  BY DEF TypeOK, WritesInv
<1>2. s.key \in Deployments /\ name = GeneratedName[s.key] /\ name \in VPANames
  BY <1>1, ObjectsAssumption DEF ApplyVPA, PatchVPA, WorkerFits, NameForDeployment
<1>3. HoldsOwn(deleted) /\ \A failed \in BOOLEAN : HoldsOwn(CleanUp(w, failed))
  BY <1>1 DEF ApplyVPA, PatchVPA, CleanUp, HoldsOwn, WorkerState
<1>4. Desired(w).managed /\ Desired(w).target = s.key
  BY DEF Desired, GenerateVPAForDeployment
<1>5. Own(name, Desired(w))
  BY <1>2, <1>4 DEF Own
<1> HIDE DEF deleted
<1>6. ASSUME NEW x, HoldsOwn(x), worker' = [worker EXCEPT ![w] = x], UNCHANGED <<api, watch, steps, cache>>
      PROVE  WritesInv'
  <2>1. ObjectsOwn'
    BY <1>6 DEF WritesInv, ObjectsOwn
  <2> QED
    BY <1>6, <2>1, OneHolds DEF WritesInv
<1>7. CASE ApplyVPA(w)
  BY <1>2, <1>3, <1>5, <1>6, <1>7, CallOwn DEF ApplyVPA
<1>8. CASE PatchVPA(w)
  <2>1. ASSUME Exists(api, "vpa", name)
        PROVE  Own(name, merged)
    <3>1. api.vpa[name] \in VPA /\ Own(name, api.vpa[name]) /\ api.vpa[name] # Absent
      BY <1>2, <2>1, VPASlots DEF Exists, WritesInv, ObjectsOwn
    <3>2. s.base.managed /\ s.base.target = s.key /\ s.base \in VPA
      BY <1>1, <1>8 DEF PatchVPA, HoldsOwn, WorkerFits
    <3>3. s.base.managed = Desired(w).managed /\ s.base.target = Desired(w).target
      BY <1>4, <3>2, DesiredVPAType, <1>8 DEF VPA, PatchVPA
    <3>4. merged.managed = api.vpa[name].managed /\ merged.target = api.vpa[name].target
      BY <3>1, <3>3 DEF MergePatch, VPA
    <3> QED
      BY <3>1, <3>4 DEF Own
  <2> HIDE DEF merged
  <2>2. \/ worker' = [worker EXCEPT ![w] = deleted] /\ UNCHANGED <<api, watch, steps>>
        \/ Exists(api, "vpa", name) /\ CallAPI(w, name, merged, CleanUp(w, FALSE), deleted)
    BY <1>8 DEF PatchVPA, deleted, merged
  <2>3. UNCHANGED cache
    BY <1>8 DEF PatchVPA
  <2> QED
    BY <1>2, <1>3, <1>6, <2>1, <2>2, <2>3, CallOwn
<1> QED
  BY <1>7, <1>8

\* Deleting.
LEMMA DeleteOwn ==
    ASSUME TypeOK, WritesInv, NEW w \in Workers,
           DeleteOutdated(w) \/ DeleteOthers(w) \/ DeleteGenerated(w)
    PROVE  WritesInv'
<1> DEFINE s == worker[w]
<1>1. s \in WorkerState /\ WorkerFits(s) /\ HoldsOwn(s)
  BY DEF TypeOK, WritesInv
<1>2. \A v \in VPANames : Own(v, Absent)
  BY DEF Own
<1>3. CASE DeleteOutdated(w)
  <2>1. NameForDeployment(s.key) \in VPANames
    BY <1>1, <1>3, ObjectsAssumption DEF DeleteOutdated, WorkerFits, NameForDeployment
  <2>2. HoldsOwn(CleanUp(w, TRUE))
    BY <1>1, <1>3 DEF DeleteOutdated, CleanUp, HoldsOwn, WorkerState
  <2> QED
    BY <1>2, <1>3, <2>1, <2>2, CallOwn DEF DeleteOutdated, DeleteVPA
<1>4. ASSUME NEW v \in s.doomed, NEW e \in BOOLEAN, NEW D \in {s.doomed \ {v}, {}},
             s.pc \in {"cleanup", "remove"}
      PROVE  v \in VPANames /\ HoldsOwn([s EXCEPT !.doomed = D])
             /\ HoldsOwn([s EXCEPT !.doomed = D, !.failed = e])
  <2>1. v \in VPANames /\ D = {}
    BY <1>1, <1>4 DEF WorkerState, HoldsOwn
  <2> QED
    BY <1>1, <1>4, <2>1 DEF HoldsOwn, WorkerState
<1>5. CASE DeleteOthers(w)
  <2> DEFINE rest(v) == [s EXCEPT !.doomed = @ \ {v}]
  <2>1. PICK v \in s.doomed : DeleteVPA(w, v, rest(v), [rest(v) EXCEPT !.failed = TRUE])
    BY <1>5 DEF DeleteOthers
  <2>2. s.pc \in {"cleanup", "remove"}
    BY <1>5 DEF DeleteOthers
  <2>3. rest(v) = [s EXCEPT !.doomed = s.doomed \ {v}]
        /\ [rest(v) EXCEPT !.failed = TRUE] = [s EXCEPT !.doomed = s.doomed \ {v}, !.failed = TRUE]
    BY <1>1 DEF WorkerState
  <2>4. v \in VPANames /\ HoldsOwn(rest(v)) /\ HoldsOwn([rest(v) EXCEPT !.failed = TRUE])
    BY <1>4, <2>2, <2>3
  <2> HIDE DEF rest
  <2> QED
    BY <1>2, <1>5, <2>1, <2>4, CallOwn DEF DeleteOthers, DeleteVPA
<1>6. CASE DeleteGenerated(w)
  <2> DEFINE rest(v) == [s EXCEPT !.doomed = @ \ {v}]
             stop    == [s EXCEPT !.doomed = {}, !.failed = TRUE]
  <2>1. PICK v \in s.doomed : DeleteVPA(w, v, rest(v), stop)
    BY <1>6 DEF DeleteGenerated
  <2>2. s.pc \in {"cleanup", "remove"}
    BY <1>6 DEF DeleteGenerated
  <2>3. rest(v) = [s EXCEPT !.doomed = s.doomed \ {v}]
    BY <1>1 DEF WorkerState
  <2>4. v \in VPANames /\ HoldsOwn(rest(v)) /\ HoldsOwn(stop)
    BY <1>4, <2>2, <2>3
  <2> HIDE DEF rest, stop
  <2> QED
    BY <1>2, <1>6, <2>1, <2>4, CallOwn DEF DeleteGenerated, DeleteVPA
<1> QED
  BY <1>3, <1>5, <1>6

-----------------------------------------------------------------------------
(* The environment.                                                         *)

\* The first list has what the API server has.
LEMMA InitialOwn ==
    ASSUME NEW view, IsView(view), \A v \in VPANames : Own(v, view.vpa[v])
    PROVE  LET list == InitialList(view, "vpa")
           IN  \A i \in DOMAIN list : Own(list[i].name, list[i].val)
<1> DEFINE names == {n \in Names["vpa"] : Exists(view, "vpa", n)}
           order == SetToSeq(names)
<1>1. "vpa" \in Kinds /\ Names["vpa"] = VPANames
  BY VPASlots
<1>2. IsFiniteSet(names)
  BY <1>1, NamesFinite, FS_Subset
<1>3. order \in [1 .. Cardinality(names) -> names]
  BY <1>2, SetToSeqType
<1>4. names \subseteq VPANames
  BY <1>1
<1>5. InitialList(view, "vpa") = [i \in 1 .. Cardinality(names) |->
          [name |-> order[i], val |-> view["vpa"][order[i]], initial |-> TRUE]]
  BY <1>3 DEF InitialList
<1> HIDE DEF names, order
<1> DEFINE list == [i \in 1 .. Cardinality(names) |->
                       [name |-> order[i], val |-> view["vpa"][order[i]], initial |-> TRUE]]
<1>6. \A i \in DOMAIN list : Own(list[i].name, list[i].val)
  BY <1>3, <1>4
<1> HIDE DEF list
<1> QED
  BY <1>5, <1>6 DEF list

\* Initially and after a restart.
LEMMA StartsOwn ==
    /\ NobodyRetargets /\ Init => WritesInv
    /\ TypeOK /\ WritesInv /\ Restart => WritesInv'
<1>1. \A v \in VPANames : Own(v, EmptyView.vpa[v])
  BY VPASlots DEF EmptyView, Own
<1>2. HoldsOwn(Idle)
  BY DEF HoldsOwn, Idle
<1>3. ASSUME NobodyRetargets, Init
      PROVE  WritesInv
  <2>1. PICK s \in Scenarios : /\ api = s.start /\ steps = s.steps
                               /\ watch = [k \in Kinds |-> InitialList(s.start, k)]
    BY <1>3 DEF Init
  <2>2. \A v \in VPANames : Own(v, api.vpa[v])
    BY <1>3, <2>1 DEF NobodyRetargets
  <2>3. IsView(api) /\ watch.vpa = InitialList(api, "vpa")
    BY <2>1, WatcherAssumption, VPASlots
  <2>4. \A i \in DOMAIN watch.vpa : Own(watch.vpa[i].name, watch.vpa[i].val)
    BY <2>2, <2>3, InitialOwn
  <2> QED
    BY <1>1, <1>2, <1>3, <2>1, <2>2, <2>4 DEF WritesInv, ObjectsOwn, Init, NobodyRetargets
<1>4. ASSUME TypeOK, WritesInv, Restart
      PROVE  WritesInv'
  <2>1. \A v \in VPANames : Own(v, api.vpa[v])
    BY <1>4 DEF WritesInv, ObjectsOwn
  <2>2. IsView(api) /\ watch'.vpa = InitialList(api, "vpa")
    BY <1>4, VPASlots DEF TypeOK, Restart
  <2>3. \A i \in DOMAIN watch'.vpa : Own(watch'.vpa[i].name, watch'.vpa[i].val)
    BY <2>1, <2>2, InitialOwn
  <2>4. steps'.allowed = steps.allowed
    BY <1>4, SpendAllows DEF Restart
  <2> QED
    BY <1>1, <1>2, <1>4, <2>1, <2>3, <2>4 DEF WritesInv, ObjectsOwn, Restart
<1> QED
  BY <1>3, <1>4

\* A change reaches the cache.
LEMMA DeliverOwn ==
    ASSUME TypeOK, WritesInv, NEW k \in Kinds, Deliver(k)
    PROVE  WritesInv'
<1> DEFINE d == Head(watch[k])
<1>1. UNCHANGED <<api, worker, steps>>
  BY DEF Deliver
<1>2. CASE k = "vpa"
  <2>1. watch.vpa # <<>> /\ watch.vpa \in Seq(Delta("vpa"))
    BY <1>2, VPASlots DEF Deliver
  <2>2. d = watch.vpa[1] /\ 1 \in DOMAIN watch.vpa /\ watch.vpa[1] \in Delta("vpa")
    BY <1>2, <2>1
  <2>3. Own(d.name, d.val) /\ d.name \in VPANames
    BY <2>2, VPASlots DEF WritesInv, ObjectsOwn, Delta
  <2>4. watch'.vpa = Tail(watch.vpa)
    BY <1>2, VPASlots DEF Deliver, TypeOK
  <2>5. \A i \in DOMAIN watch'.vpa : Own(watch'.vpa[i].name, watch'.vpa[i].val)
    BY <2>1, <2>4 DEF WritesInv, ObjectsOwn
  <2>6. cache'.vpa = [cache.vpa EXCEPT ![d.name] = d.val]
    BY <1>2, VPASlots DEF Deliver, TypeOK, IsView
  <2>7. \A v \in VPANames : Own(v, cache'.vpa[v])
    BY <2>3, <2>6, VPASlots DEF WritesInv, ObjectsOwn
  <2> QED
    BY <1>1, <2>5, <2>7 DEF WritesInv, ObjectsOwn
<1>3. CASE k # "vpa"
  <2>1. cache'.vpa = cache.vpa /\ watch'.vpa = watch.vpa
    BY <1>3, VPASlots DEF Deliver, TypeOK, IsView
  <2> QED
    BY <1>1, <2>1 DEF WritesInv, ObjectsOwn
<1> QED
  BY <1>2, <1>3

\* A watch breaks.
LEMMA RelistOwn ==
    ASSUME TypeOK, WritesInv, NEW k \in Kinds, Relist(k)
    PROVE  WritesInv'
<1> DEFINE names == Missed(k)
           order == SetToSeq(names)
           list  == [i \in DOMAIN order |->
                        [name |-> order[i], val |-> api[k][order[i]], initial |-> FALSE]]
<1>1. UNCHANGED <<api, cache, worker>> /\ steps'.allowed = steps.allowed
  BY SpendAllows DEF Relist
<1>2. watch' = [watch EXCEPT ![k] = list]
  BY DEF Relist
<1>3. order \in [1 .. Cardinality(names) -> names] /\ Cardinality(names) \in Nat
  BY NamesFinite, FS_Subset, SetToSeqType DEF Missed
<1>4. k = "vpa" => names \subseteq VPANames
  BY VPASlots DEF Missed
<1> HIDE DEF names, order
<1>5. k = "vpa" => \A i \in DOMAIN list : Own(list[i].name, list[i].val)
  BY <1>3, <1>4 DEF WritesInv, ObjectsOwn
<1>6. IF k = "vpa" THEN watch'.vpa = list ELSE watch'.vpa = watch.vpa
  BY <1>2, VPASlots DEF TypeOK
<1> HIDE DEF list
<1>7. \A i \in DOMAIN watch'.vpa : Own(watch'.vpa[i].name, watch'.vpa[i].val)
  BY <1>5, <1>6 DEF WritesInv, ObjectsOwn
<1> QED
  BY <1>1, <1>7 DEF WritesInv, ObjectsOwn

\* Users and the garbage collector: labels are only removed, targets only set anew.
LEMMA UserVPAOwn ==
    ASSUME TypeOK, WritesInv, NEW v \in VPANames,
           UserCreatesVPA(v) \/ UserDeletesVPA(v) \/ UserEditsVPA(v) \/ CollectGarbage(v)
    PROVE  WritesInv'
<1>1. ASSUME NEW step, NEW val, UserStoresVPA(step, v, val), Own(v, val)
      PROVE  WritesInv'
  BY <1>1, SpendAllows, StoreOwn, NothingHeld DEF UserStoresVPA, WritesInv
<1>2. Own(v, Absent)
  BY DEF Own
<1>3. CASE UserCreatesVPA(v)
  <2>1. PICK t \in TargetsInNamespace(v) : UserStoresVPA("createVPA", v,
            [managed |-> FALSE, target |-> t, policy |-> ManualConfig.policy,
             mode |-> ManualConfig.mode, owner |-> 0])
    BY <1>3 DEF UserCreatesVPA
  <2>2. Own(v, [managed |-> FALSE, target |-> t, policy |-> ManualConfig.policy,
                mode |-> ManualConfig.mode, owner |-> 0])
    BY DEF Own
  <2> QED
    BY <1>1, <2>1, <2>2
<1>4. CASE UserDeletesVPA(v)
  BY <1>1, <1>2, <1>4 DEF UserDeletesVPA
<1>5. CASE UserEditsVPA(v)
  <2>1. api.vpa[v] \in VPA /\ Own(v, api.vpa[v]) /\ api.vpa[v] # Absent
    BY <1>5, VPASlots DEF UserEditsVPA, Exists, WritesInv, ObjectsOwn
  <2>2. CASE UserStoresVPA("unlabel", v, [api.vpa[v] EXCEPT !.managed = FALSE])
    <3>1. Own(v, [api.vpa[v] EXCEPT !.managed = FALSE])
      BY <2>1 DEF Own, VPA
    <3> QED
      BY <1>1, <2>2, <3>1
  <2>3. ASSUME NEW t, UserStoresVPA("retarget", v, [api.vpa[v] EXCEPT !.target = t])
        PROVE  FALSE
    BY <2>3 DEF UserStoresVPA, Spend, WritesInv, ObjectsOwn
  <2>4. ASSUME NEW c \in Configs,
               UserStoresVPA("reconfigure", v,
                   [api.vpa[v] EXCEPT !.policy = c.policy, !.mode = c.mode])
        PROVE  WritesInv'
    <3>1. Own(v, [api.vpa[v] EXCEPT !.policy = c.policy, !.mode = c.mode])
      BY <2>1 DEF Own, VPA
    <3> QED
      BY <1>1, <2>4, <3>1
  <2> QED
    BY <1>5, <2>2, <2>3, <2>4 DEF UserEditsVPA
<1>6. CASE CollectGarbage(v)
  BY <1>2, <1>6, StoreOwn, NothingHeld DEF CollectGarbage, WritesInv
<1> QED
  BY <1>3, <1>4, <1>5, <1>6

\* Every step keeps it.
LEMMA WritesStep == TypeOK /\ WritesInv /\ [Next]_vars => WritesInv'
<1> SUFFICES ASSUME TypeOK, WritesInv, [Next]_vars
             PROVE  WritesInv'
  OBVIOUS
<1>1. CASE UNCHANGED <<api, watch, cache, worker, steps>>
  BY <1>1 DEF WritesInv, ObjectsOwn
<1>2. ASSUME NEW k \in Kinds, Deliver(k) \/ Handle(k) PROVE WritesInv'
  BY <1>1, <1>2, DeliverOwn DEF Handle
<1>3. ASSUME NEW w \in Workers, WorkerStep(w) PROVE WritesInv'
  BY <1>3, InMemoryOwn, ListOwn, EnsureOneOwn, DeleteOwn DEF WorkerStep
<1>4. ASSUME NEW v \in VPANames, CollectGarbage(v) PROVE WritesInv'
  BY <1>4, UserVPAOwn
<1>5. ASSUME NEW k \in UserKinds, NEW n \in Names[k], UserWrites(k, n) PROVE WritesInv'
  BY <1>5, SpendAllows, OtherStore, NothingHeld DEF UserWrites, WritesInv
<1>6. CASE Environment
  BY <1>5, <1>6, UserVPAOwn, RelistOwn, StartsOwn DEF Environment
<1>7. CASE WaitForCacheSync \/ (\E key \in Deployments : Retry(key)) \/ UNCHANGED vars
  BY <1>1, <1>7 DEF WaitForCacheSync, Retry, vars
<1> QED
  BY <1>2, <1>3, <1>4, <1>6, <1>7 DEF Next

\* EnsureOne and EnsureNo of two workers never write the same VPA: what they
\* list has the name of their key, and the queue gives a key to one of them.
THEOREM OneWriter ==
    ASSUME NobodyRetargets, DistinctNames
    PROVE  Spec => []OneWriterPerVPA
<1>1. Init => WritesInv
  BY StartsOwn
<1>2. TypeOK /\ WritesInv /\ [Next]_vars => WritesInv'
  BY WritesStep
<1>3. TypeOK /\ QueueInv /\ WritesInv => OneWriterPerVPA
  <2> SUFFICES ASSUME TypeOK, QueueInv, WritesInv, NEW w1 \in Workers, NEW w2 \in Workers, w1 # w2,
                      NEW v \in Writing(w1) \cap Writing(w2)
               PROVE  FALSE
    BY DEF OneWriterPerVPA
  <2>1. \A w \in {w1, w2} : Busy(w) /\ worker[w].key \in Deployments
                            /\ v = GeneratedName[worker[w].key]
    <3> SUFFICES ASSUME NEW w \in {w1, w2}
                 PROVE  Busy(w) /\ worker[w].key \in Deployments /\ v = GeneratedName[worker[w].key]
      OBVIOUS
    <3>1. HoldsOwn(worker[w]) /\ WorkerFits(worker[w])
      BY DEF WritesInv, TypeOK
    <3>2. CASE v \in worker[w].doomed
      BY <3>1, <3>2 DEF HoldsOwn, WorkerFits, Busy
    <3>3. CASE worker[w].pc \in {"create", "patch", "outdated"} /\ v = GeneratedName[worker[w].key]
      BY <3>1, <3>3 DEF WorkerFits, Busy
    <3> QED
      BY <3>2, <3>3 DEF Writing
  <2>2. worker[w1].key = worker[w2].key
    BY <2>1 DEF DistinctNames
  <2> QED
    BY <2>1, <2>2 DEF QueueInv
<1> QED
  BY <1>1, <1>2, <1>3, TypeCorrect, QueueCorrect, PTL DEF Spec

-----------------------------------------------------------------------------
(* Ignored Deployments.                                                     *)

\* At the start no ignored Deployment has a generated VPA.
StartsUnmanaged ==
    \A s \in Scenarios : \A v \in VPANames : \A d \in Deployments :
        s.start.vpa[v] # Absent /\ s.start.vpa[v].managed /\ s.start.vpa[v].target = d =>
            /\ ~Exists(s.start, "ignoredNamespace", NamespaceOf[d])
            /\ GetIgnoredWorkload(s.start, d) = {}

IgnoreKinds == {"ignoredNamespace", "ignoredWorkload"}

\* What says what is ignored does not change: a cache has it, or has yet to get
\* it with the first list.
IgnoreKnown(k) ==
    /\ \A i \in DOMAIN watch[k] : watch[k][i].val = api[k][watch[k][i].name]
    /\ \A n \in Names[k] : \/ cache[k][n] = api[k][n]
                           \/ \E i \in DOMAIN watch[k] : watch[k][i].name = n /\ watch[k][i].initial
    /\ running => cache[k] = api[k]

\* A worker decides on an ignored Deployment to leave it without a VPA.
LeavesIgnored(s) ==
    /\ s.pc # "idle" /\ Ignored(s.key) => /\ s.pc \in {"decide", "list", "remove", "finish"}
                                          /\ s.pc = "list" => s.config = None
    /\ s.pc = "patch" => s.base.managed /\ s.base.target = s.key

\* No labelled VPA targets an ignored Deployment.
NoneIgnored ==
    \A v \in VPANames :
        Exists(api, "vpa", v) /\ api.vpa[v].managed /\ api.vpa[v].target \in Deployments =>
            ~Ignored(api.vpa[v].target)

IgnoredInv ==
    IgnoringFixed =>
        /\ \A k \in IgnoreKinds : IgnoreKnown(k)
        /\ \A w \in Workers : LeavesIgnored(worker[w]) /\ (Busy(w) => running)
        /\ NoneIgnored

\* Nothing is written to the ignore markers.
LEMMA IgnoreKindNames ==
    /\ IgnoreKinds \subseteq Kinds /\ IgnoreKinds \subseteq UserKinds
    /\ Names["ignoredNamespace"] = Namespaces /\ Names["ignoredWorkload"] = IgnoreRules
BY KindNames DEF IgnoreKinds, UserKinds

\* Ignored is about the markers alone.
LEMMA SameIgnored ==
    ASSUME \A k \in IgnoreKinds : api'[k] = api[k]
    PROVE  \A d : Ignored(d)' <=> Ignored(d)
<1>1. api'.ignoredNamespace = api.ignoredNamespace /\ api'.ignoredWorkload = api.ignoredWorkload
  BY DEF IgnoreKinds
<1> QED
  BY <1>1 DEF Ignored, Exists

\* A write of another kind leaves the markers alone.
LEMMA StoreKeepsMarkers ==
    ASSUME TypeOK, NEW k \in Kinds \ IgnoreKinds, NEW n, NEW val, Store(k, n, val)
    PROVE  \A j \in IgnoreKinds : api'[j] = api[j] /\ watch'[j] = watch[j]
<1>1. DOMAIN api = Kinds /\ DOMAIN watch = Kinds
  BY DEF TypeOK, IsView
<1> QED
  BY <1>1, IgnoreKindNames DEF Store

\* The markers stay known where neither they nor what is known of them changes.
LEMMA MarkersSame ==
    ASSUME \A k \in IgnoreKinds : IgnoreKnown(k), UNCHANGED <<cache, running>>,
           \A k \in IgnoreKinds : api'[k] = api[k] /\ watch'[k] = watch[k]
    PROVE  \A k \in IgnoreKinds : IgnoreKnown(k)'
BY DEF IgnoreKnown

\* Nothing is cached of what does not exist, and the first list has the rest.
LEMMA MarkersStart ==
    ASSUME NEW view, IsView(view), NEW k \in IgnoreKinds
    PROVE  LET list == InitialList(view, k)
           IN  /\ \A i \in DOMAIN list : list[i].val = view[k][list[i].name]
               /\ \A n \in Names[k] : \/ EmptyView[k][n] = view[k][n]
                                      \/ \E i \in DOMAIN list : list[i].name = n /\ list[i].initial
<1> DEFINE list == InitialList(view, k)
<1>1. k \in Kinds
  BY IgnoreKindNames
<1>2. \A i \in DOMAIN list : list[i].initial /\ list[i].val = view[k][list[i].name]
  BY <1>1, InitialListParts
<1>3. \A n \in Names[k] : Exists(view, k, n) => \E i \in DOMAIN list : list[i].name = n
  BY <1>1, InitialListParts
<1>4. \A n \in Names[k] : EmptyView[k][n] = Absent
  BY <1>1 DEF EmptyView
<1> HIDE DEF list
<1> SUFFICES /\ \A i \in DOMAIN list : list[i].val = view[k][list[i].name]
             /\ \A n \in Names[k] : \/ EmptyView[k][n] = view[k][n]
                                    \/ \E i \in DOMAIN list : list[i].name = n /\ list[i].initial
  BY DEF list
<1> QED
  BY <1>2, <1>3, <1>4 DEF Exists

\* A marker reaches the cache.
LEMMA MarkersDelivered ==
    ASSUME TypeOK, \A k \in IgnoreKinds : IgnoreKnown(k), NEW j \in Kinds, Deliver(j)
    PROVE  \A k \in IgnoreKinds : IgnoreKnown(k)'
<1> SUFFICES ASSUME NEW k \in IgnoreKinds PROVE IgnoreKnown(k)'
  OBVIOUS
<1>1. UNCHANGED <<api, running>> /\ k \in Kinds
  BY IgnoreKindNames DEF Deliver
<1>2. DOMAIN watch = Kinds /\ DOMAIN cache = Kinds
  BY DEF TypeOK, IsView
<1>3. CASE j # k
  <2>1. cache'[k] = cache[k] /\ watch'[k] = watch[k]
    BY <1>1, <1>2, <1>3 DEF Deliver
  <2> QED
    BY <1>1, <2>1 DEF IgnoreKnown
<1>4. CASE j = k
  <2> DEFINE d == Head(watch[k])
             T == Tail(watch[k])
  <2>1. /\ watch[k] \in Seq(Delta(k)) /\ watch[k] # <<>>
        /\ cache[k] \in [Names[k] -> Slot(k)] /\ api[k] \in [Names[k] -> Slot(k)]
    BY <1>1, <1>4, KindTypes DEF Deliver
  <2>2. watch'[k] = T /\ cache'[k] = [cache[k] EXCEPT ![d.name] = d.val]
    BY <1>1, <1>2, <1>4 DEF Deliver
  <2>3. /\ d = watch[k][1] /\ 1 \in DOMAIN watch[k] /\ d \in Delta(k)
        /\ DOMAIN T = 1 .. Len(watch[k]) - 1 /\ DOMAIN watch[k] = 1 .. Len(watch[k])
        /\ Len(watch[k]) \in Nat
        /\ \A i \in DOMAIN T : T[i] = watch[k][i + 1] /\ i + 1 \in DOMAIN watch[k]
    <3> DEFINE D == Delta(k)
    <3> HIDE DEF D
    <3>1. watch[k] \in Seq(D) /\ watch[k] # <<>>
      BY <2>1 DEF D
    <3> QED
      BY <3>1 DEF D
  <2>4. d.val = api[k][d.name] /\ d.name \in Names[k]
    BY <2>3 DEF IgnoreKnown, Delta
  <2> HIDE DEF d, T
  <2>5. \A i \in DOMAIN T : T[i].val = api[k][T[i].name]
    BY <2>3 DEF IgnoreKnown
  <2>6. cache'[k][d.name] = api[k][d.name] /\ \A n \in Names[k] \ {d.name} : cache'[k][n] = cache[k][n]
    BY <2>1, <2>2, <2>4
  <2>7. ASSUME NEW n \in Names[k]
        PROVE  cache'[k][n] = api[k][n] \/ \E i \in DOMAIN T : T[i].name = n /\ T[i].initial
    <3>1. CASE n = d.name
      BY <2>6, <3>1
    <3>2. ASSUME n # d.name, NEW i \in DOMAIN watch[k], watch[k][i].name = n, watch[k][i].initial
          PROVE  \E x \in DOMAIN T : T[x].name = n /\ T[x].initial
      <4>1. i - 1 \in DOMAIN T /\ (i - 1) + 1 = i
        BY <2>3, <3>2
      <4> QED
        BY <2>3, <3>2, <4>1
    <3>3. CASE n # d.name /\ cache[k][n] = api[k][n]
      BY <2>6, <3>3
    <3> QED
      BY <3>1, <3>2, <3>3 DEF IgnoreKnown
  <2>8. running => cache'[k] = api[k]
    <3> SUFFICES ASSUME running PROVE cache'[k] = api[k]
      OBVIOUS
    <3>1. cache[k] = api[k]
      BY DEF IgnoreKnown
    <3> QED
      BY <2>1, <2>2, <2>4, <3>1
  <2> QED
    BY <1>1, <2>2, <2>5, <2>7, <2>8 DEF IgnoreKnown
<1> QED
  BY <1>3, <1>4

\* A broken watch lists the markers again.
LEMMA MarkersRelisted ==
    ASSUME TypeOK, \A k \in IgnoreKinds : IgnoreKnown(k), NEW j \in Kinds, Relist(j)
    PROVE  \A k \in IgnoreKinds : IgnoreKnown(k)'
<1> SUFFICES ASSUME NEW k \in IgnoreKinds PROVE IgnoreKnown(k)'
  OBVIOUS
<1>1. UNCHANGED <<api, cache, running>> /\ k \in Kinds
  BY IgnoreKindNames DEF Relist
<1>2. DOMAIN watch = Kinds
  BY DEF TypeOK
<1>3. CASE j # k
  <2>1. watch'[k] = watch[k]
    BY <1>1, <1>2, <1>3 DEF Relist
  <2> QED
    BY <1>1, <2>1 DEF IgnoreKnown
<1>4. CASE j = k
  <2> DEFINE order == SetToSeq(Missed(k))
             list  == [i \in DOMAIN order |->
                          [name |-> order[i], val |-> api[k][order[i]], initial |-> FALSE]]
  <2>1. watch'[k] = list
    BY <1>1, <1>2, <1>4 DEF Relist
  <2>2. \A n \in Names[k] : cache[k][n] = api[k][n]
    <3>1. \A i \in DOMAIN watch[k] : ~watch[k][i].initial
      BY <1>4 DEF Relist, HasSynced
    <3> QED
      BY <3>1 DEF IgnoreKnown
  <2>3. \A i \in DOMAIN list : list[i].val = api[k][list[i].name]
    OBVIOUS
  <2> HIDE DEF list
  <2> QED
    BY <1>1, <2>1, <2>2, <2>3 DEF IgnoreKnown
<1> QED
  BY <1>3, <1>4

\* The markers of the cache give the verdict of the API server's.
LEMMA CachedVerdict ==
    ASSUME TypeOK, \A k \in IgnoreKinds : IgnoreKnown(k), running, NEW d \in Deployments, Ignored(d)
    PROVE  ShouldManageDeployment(cache, d) = {Unmanaged}
<1>1. cache.ignoredNamespace = api.ignoredNamespace /\ cache.ignoredWorkload = api.ignoredWorkload
  BY DEF IgnoreKnown, IgnoreKinds
<1>2. GetIgnoredWorkload(cache, d) # {} \/ Exists(cache, "ignoredNamespace", NamespaceOf[d])
  BY <1>1 DEF Ignored, GetIgnoredWorkload, Exists
<1> QED
  BY <1>2 DEF ShouldManageDeployment

\* A worker that does not decide or list.
LEMMA LeavesWriting ==
    ASSUME TypeOK, NEW w \in Workers, LeavesIgnored(worker[w]), WorkerStep(w),
           ~ProcessNextWorkItem(w), ~Decide(w), ~List(w)
    PROVE  \E s : LeavesIgnored(s) /\ worker' = [worker EXCEPT ![w] = s]
<1> DEFINE s == worker[w]
<1>1. s \in WorkerState
  BY DEF TypeOK
<1>2. ASSUME NEW t, t.key = s.key, t.pc # "patch", t.pc # "list",
             t.pc = s.pc \/ s.pc \in {"create", "patch", "outdated"}, s.pc # "idle"
      PROVE  LeavesIgnored(t)
  BY <1>2 DEF LeavesIgnored
<1>3. LeavesIgnored(Idle)
  BY DEF LeavesIgnored, Idle
<1>4. ASSUME NEW v, NEW val, NEW ok, NEW err, CallAPI(w, v, val, ok, err),
             LeavesIgnored(ok), LeavesIgnored(err)
      PROVE  \E t : LeavesIgnored(t) /\ worker' = [worker EXCEPT ![w] = t]
  BY <1>4 DEF CallAPI
<1>5. s.pc \in {"create", "patch", "outdated"} =>
          \A failed \in BOOLEAN : LeavesIgnored(CleanUp(w, failed))
  <2> SUFFICES ASSUME s.pc \in {"create", "patch", "outdated"}, NEW failed \in BOOLEAN
               PROVE  LeavesIgnored(CleanUp(w, failed))
    OBVIOUS
  <2>1. CleanUp(w, failed).key = s.key /\ CleanUp(w, failed).pc = "cleanup"
    BY <1>1 DEF CleanUp, WorkerState
  <2> QED
    BY <1>2, <2>1
<1>6. CASE ApplyVPA(w)
  BY <1>4, <1>5, <1>6 DEF ApplyVPA
<1>7. CASE PatchVPA(w)
  <2> DEFINE gone == [worker[w] EXCEPT !.pc = "outdated", !.base = None]
  <2>1. gone.key = s.key /\ gone.pc = "outdated" /\ s.pc = "patch"
    BY <1>1, <1>7 DEF PatchVPA, WorkerState
  <2> HIDE DEF gone
  <2>2. LeavesIgnored(gone)
    BY <1>2, <2>1
  <2>3. \/ worker' = [worker EXCEPT ![w] = gone]
        \/ \E val : CallAPI(w, NameForDeployment(s.key), val, CleanUp(w, FALSE), gone)
    BY <1>7 DEF PatchVPA, gone
  <2> QED
    BY <1>4, <1>5, <2>1, <2>2, <2>3
<1>8. CASE DeleteOutdated(w)
  BY <1>4, <1>5, <1>8 DEF DeleteOutdated, DeleteVPA
<1>9. ASSUME s.pc \in {"cleanup", "remove"}, NEW D, NEW e
      PROVE  LeavesIgnored([s EXCEPT !.doomed = D])
             /\ LeavesIgnored([s EXCEPT !.doomed = D, !.failed = e])
  <2>1. [s EXCEPT !.doomed = D].key = s.key /\ [s EXCEPT !.doomed = D].pc = s.pc
    BY <1>1 DEF WorkerState
  <2>2. [s EXCEPT !.doomed = D, !.failed = e].key = s.key
        /\ [s EXCEPT !.doomed = D, !.failed = e].pc = s.pc
    BY <1>1 DEF WorkerState
  <2> QED
    BY <1>2, <1>9, <2>1, <2>2
<1>10. CASE DeleteOthers(w)
  <2> DEFINE rest(v) == [s EXCEPT !.doomed = @ \ {v}]
  <2>1. PICK v \in s.doomed : DeleteVPA(w, v, rest(v), [rest(v) EXCEPT !.failed = TRUE])
    BY <1>10 DEF DeleteOthers
  <2>2. rest(v) = [s EXCEPT !.doomed = s.doomed \ {v}]
        /\ [rest(v) EXCEPT !.failed = TRUE] = [s EXCEPT !.doomed = s.doomed \ {v}, !.failed = TRUE]
    BY <1>1 DEF WorkerState
  <2>3. LeavesIgnored(rest(v)) /\ LeavesIgnored([rest(v) EXCEPT !.failed = TRUE])
    BY <1>9, <1>10, <2>2 DEF DeleteOthers
  <2> HIDE DEF rest
  <2> QED
    BY <1>4, <2>1, <2>3 DEF DeleteVPA
<1>11. CASE DeleteGenerated(w)
  <2> DEFINE rest(v) == [s EXCEPT !.doomed = @ \ {v}]
             stop    == [s EXCEPT !.doomed = {}, !.failed = TRUE]
  <2>1. PICK v \in s.doomed : DeleteVPA(w, v, rest(v), stop)
    BY <1>11 DEF DeleteGenerated
  <2>2. rest(v) = [s EXCEPT !.doomed = s.doomed \ {v}]
    BY <1>1 DEF WorkerState
  <2>3. LeavesIgnored(rest(v)) /\ LeavesIgnored(stop)
    BY <1>9, <1>11, <2>2 DEF DeleteGenerated
  <2> HIDE DEF rest, stop
  <2> QED
    BY <1>4, <2>1, <2>3 DEF DeleteVPA
<1>12. CASE FinishWorkItem(w)
  BY <1>3, <1>12 DEF FinishWorkItem
<1> QED
  BY <1>6, <1>7, <1>8, <1>10, <1>11, <1>12 DEF WorkerStep

\* A worker that takes a key, decides or lists.
LEMMA LeavesDeciding ==
    ASSUME TypeOK, \A k \in IgnoreKinds : IgnoreKnown(k), running,
           NEW w \in Workers, LeavesIgnored(worker[w]),
           ProcessNextWorkItem(w) \/ Decide(w) \/ List(w)
    PROVE  \E s : LeavesIgnored(s) /\ worker' = [worker EXCEPT ![w] = s]
<1> DEFINE s == worker[w]
<1>1. s \in WorkerState /\ WorkerFits(s)
  BY DEF TypeOK
<1>2. CASE ProcessNextWorkItem(w)
  <2> DEFINE t == [s EXCEPT !.pc = "decide", !.key = Head(q.fifo)]
  <2>1. worker' = [worker EXCEPT ![w] = t]
    BY <1>2 DEF ProcessNextWorkItem, TypeOK
  <2>2. t.pc = "decide"
    BY <1>1 DEF WorkerState
  <2> HIDE DEF t
  <2> QED
    BY <2>1, <2>2 DEF LeavesIgnored
<1>3. CASE Decide(w)
  <2> DEFINE d == s.key
  <2>1. d \in Deployments
    BY <1>1, <1>3 DEF Decide, WorkerFits
  <2>2. CASE worker' = [worker EXCEPT ![w].pc = "finish"]
    <3> DEFINE t == [s EXCEPT !.pc = "finish"]
    <3>1. worker' = [worker EXCEPT ![w] = t]
      BY <2>2 DEF TypeOK
    <3>2. t.pc = "finish"
      BY <1>1 DEF WorkerState
    <3> HIDE DEF t
    <3> QED
      BY <3>1, <3>2 DEF LeavesIgnored
  <2>3. ASSUME NEW dec \in ShouldManageDeployment(cache, d),
               worker' = [worker EXCEPT
                   ![w].pc     = IF dec.kind = "error" THEN "finish" ELSE "list",
                   ![w].failed = dec.kind = "error",
                   ![w].uid    = cache.deployment[d].uid,
                   ![w].config = dec.config]
        PROVE  \E t : LeavesIgnored(t) /\ worker' = [worker EXCEPT ![w] = t]
    <3> DEFINE t == [s EXCEPT
                       !.pc     = IF dec.kind = "error" THEN "finish" ELSE "list",
                       !.failed = dec.kind = "error",
                       !.uid    = cache.deployment[d].uid,
                       !.config = dec.config]
    <3>1. worker' = [worker EXCEPT ![w] = t]
      BY <2>3 DEF TypeOK
    <3>2. t.key = d /\ t.config = dec.config /\ t.pc \in {"finish", "list"}
      BY <1>1 DEF WorkerState
    <3>3. Ignored(d) => dec.config = None
      BY <2>1, <2>3, CachedVerdict DEF Unmanaged
    <3> HIDE DEF t, d
    <3>4. LeavesIgnored(t)
      BY <3>2, <3>3 DEF LeavesIgnored
    <3> QED
      BY <3>1, <3>4
  <2> QED
    BY <1>3, <2>2, <2>3 DEF Decide
<1>4. CASE List(w)
  <2> DEFINE d       == s.key
             name    == NameForDeployment(d)
             managed == ManagedVPAs(cache, d)
             manual  == ListForDeployment(cache, d) \ managed
             others  == managed \ {name}
             remove  == [s EXCEPT !.pc = "remove", !.doomed = EnsureNoGenerated(cache, d)]
             create  == [s EXCEPT !.pc = "create", !.doomed = others]
             cleanup == [s EXCEPT !.pc = "cleanup", !.doomed = others]
             patch   == [s EXCEPT !.pc = "patch", !.doomed = others, !.base = cache.vpa[name]]
  <2>1. Ignored(d) => s.config = None
    BY <1>4 DEF LeavesIgnored, List
  <2>2. /\ remove.pc = "remove" /\ create.pc = "create" /\ cleanup.pc = "cleanup"
        /\ patch.pc = "patch" /\ patch.base = cache.vpa[name]
        /\ remove.key = d /\ create.key = d /\ cleanup.key = d /\ patch.key = d
    BY <1>1 DEF WorkerState
  <2>3. name \in managed => cache.vpa[name].managed /\ cache.vpa[name].target = d
    BY DEF ManagedVPAs, ListForDeployment, IsManagedByWatcher
  <2>4. \/ worker' = [worker EXCEPT ![w] = remove]
        \/ s.config # None /\ worker' = [worker EXCEPT ![w] = create]
        \/ s.config # None /\ worker' = [worker EXCEPT ![w] = cleanup]
        \/ s.config # None /\ name \in managed /\ worker' = [worker EXCEPT ![w] = patch]
    <3> HIDE DEF managed, name
    <3>1. CASE s.config = None \/ manual # {}
      BY <1>4, <3>1 DEF List, TypeOK, managed, name
    <3>2. CASE s.config # None /\ manual = {} /\ name \notin managed
      BY <1>4, <3>2 DEF List, TypeOK, managed, name
    <3>3. CASE s.config # None /\ manual = {} /\ name \in managed
      BY <1>4, <3>3 DEF List, TypeOK, managed, name
    <3> QED
      BY <3>1, <3>2, <3>3
  <2> HIDE DEF remove, create, cleanup, patch, managed, name, d
  <2>5. LeavesIgnored(remove)
    BY <2>2 DEF LeavesIgnored
  <2>6. s.config # None => LeavesIgnored(create) /\ LeavesIgnored(cleanup)
    BY <2>1, <2>2 DEF LeavesIgnored
  <2>7. s.config # None /\ name \in managed => LeavesIgnored(patch)
    BY <2>1, <2>2, <2>3 DEF LeavesIgnored
  <2> QED
    BY <2>4, <2>5, <2>6, <2>7
<1> QED
  BY <1>2, <1>3, <1>4

\* What a worker stores targets no ignored Deployment.
LEMMA WritesUnignored ==
    ASSUME TypeOK, IgnoredInv, IgnoringFixed, NEW w \in Workers, NEW v \in VPANames,
           NEW val \in Slot("vpa"), WorkerStores(w, v, val), val # Absent, val.managed,
           val.target \in Deployments
    PROVE  ~Ignored(val.target)
<1> DEFINE s == worker[w]
<1>1. s \in WorkerState /\ WorkerFits(s) /\ LeavesIgnored(s)
  BY DEF TypeOK, IgnoredInv
<1>2. s.pc \in {"create", "patch"} => ~Ignored(s.key)
  BY <1>1 DEF LeavesIgnored
<1>3. Desired(w).target = s.key /\ Desired(w).managed
  BY DEF Desired, GenerateVPAForDeployment
<1>4. CASE s.pc = "create" /\ val = Desired(w)
  BY <1>2, <1>3, <1>4
<1>5. CASE s.pc = "patch" /\ Exists(api, "vpa", v) /\ val = MergePatch(s.base, Desired(w), api.vpa[v])
  <2>1. s.base.managed /\ s.base.target = s.key /\ s.base \in VPA
    BY <1>1, <1>5 DEF LeavesIgnored, WorkerFits
  <2>2. api.vpa[v] \in VPA
    BY <1>5, VPASlots DEF Exists
  <2>3. s.base.managed = Desired(w).managed
    BY <1>3, <1>5, <2>1, DesiredVPAType DEF VPA
  <2>4. val.managed = api.vpa[v].managed /\ val.target = api.vpa[v].target
    BY <1>3, <1>5, <2>1, <2>2, <2>3 DEF MergePatch, VPA
  <2> QED
    BY <1>5, <2>4 DEF IgnoredInv, NoneIgnored
<1> QED
  BY <1>4, <1>5 DEF WorkerStores

\* A VPA is written that targets no ignored Deployment.
LEMMA UnignoredStored ==
    ASSUME TypeOK, IgnoredInv, IgnoringFixed, NEW v \in VPANames, NEW val \in Slot("vpa"),
           Store("vpa", v, val),
           val # Absent /\ val.managed /\ val.target \in Deployments => ~Ignored(val.target)
    PROVE  /\ \A k \in IgnoreKinds : api'[k] = api[k] /\ watch'[k] = watch[k]
           /\ NoneIgnored'
<1>1. \A k \in IgnoreKinds : api'[k] = api[k] /\ watch'[k] = watch[k]
  BY StoreKeepsMarkers, VPASlots DEF IgnoreKinds
<1>2. \A d : Ignored(d)' <=> Ignored(d)
  BY <1>1, SameIgnored
<1>3. api'.vpa = [api.vpa EXCEPT ![v] = val]
  BY VPASlots DEF Store, TypeOK, IsView
<1>4. ASSUME NEW n \in VPANames, api'.vpa[n] # Absent, api'.vpa[n].managed,
             api'.vpa[n].target \in Deployments
      PROVE  ~Ignored(api'.vpa[n].target)
  <2>1. CASE n = v
    BY <1>3, <1>4, <2>1, VPASlots
  <2>2. CASE n # v
    <3>1. api'.vpa[n] = api.vpa[n]
      BY <1>3, <2>2, VPASlots
    <3> QED
      BY <1>4, <3>1 DEF IgnoredInv, NoneIgnored, Exists
  <2> QED
    BY <2>1, <2>2
<1> QED
  BY <1>1, <1>2, <1>4 DEF Exists, Ignored, NoneIgnored

\* Every step keeps it.
LEMMA IgnoredStep == TypeOK /\ IgnoredInv /\ [Next]_vars => IgnoredInv'
<1> SUFFICES ASSUME TypeOK, IgnoredInv, [Next]_vars, IgnoringFixed'
             PROVE  (/\ \A k \in IgnoreKinds : IgnoreKnown(k)
                     /\ \A w \in Workers : LeavesIgnored(worker[w]) /\ (Busy(w) => running)
                     /\ NoneIgnored)'
  BY DEF IgnoredInv
<1> DEFINE Kept == /\ \A k \in IgnoreKinds : IgnoreKnown(k)
                   /\ \A w \in Workers : LeavesIgnored(worker[w]) /\ (Busy(w) => running)
                   /\ NoneIgnored
<1>1. steps'.allowed = steps.allowed
  BY AllowedSame
<1>2. IgnoringFixed
  BY <1>1 DEF IgnoringFixed
<1>3. Kept
  BY <1>2 DEF IgnoredInv
<1>4. CASE UNCHANGED <<api, worker, running>> /\ \A k \in IgnoreKinds : IgnoreKnown(k)'
  <2>1. \A d : Ignored(d)' <=> Ignored(d)
    BY <1>4, SameIgnored
  <2>2. NoneIgnored'
    BY <1>3, <1>4, <2>1 DEF NoneIgnored, Exists, Ignored
  <2>3. \A w \in Workers : LeavesIgnored(worker[w])'
    BY <1>3, <1>4, <2>1 DEF LeavesIgnored, Ignored, Exists
  <2> QED
    BY <1>3, <1>4, <2>2, <2>3 DEF Busy
<1>5. CASE UNCHANGED <<api, watch, cache, worker, running>>
  BY <1>3, <1>4, <1>5, MarkersSame
<1>6. ASSUME NEW v \in VPANames, NEW val \in Slot("vpa"), Store("vpa", v, val),
             val # Absent /\ val.managed /\ val.target \in Deployments => ~Ignored(val.target),
             UNCHANGED <<cache, running>>,
             \A w \in Workers : Busy(w)' => running,
             \A w \in Workers : LeavesIgnored(worker'[w])
      PROVE  Kept'
  <2>1. \A k \in IgnoreKinds : api'[k] = api[k] /\ watch'[k] = watch[k]
    BY <1>2, <1>6, UnignoredStored
  <2>2. NoneIgnored'
    BY <1>2, <1>6, UnignoredStored
  <2>3. \A d : Ignored(d)' <=> Ignored(d)
    BY <2>1, SameIgnored
  <2>4. \A w \in Workers : LeavesIgnored(worker[w])'
    BY <1>6, <2>3 DEF LeavesIgnored, Ignored, Exists
  <2>5. \A k \in IgnoreKinds : IgnoreKnown(k)'
    BY <1>3, <1>6, <2>1, MarkersSame
  <2> QED
    BY <1>6, <2>2, <2>4, <2>5
<1>7. CASE WaitForCacheSync
  <2>1. \A k \in IgnoreKinds : cache[k] = api[k]
    <3> SUFFICES ASSUME NEW k \in IgnoreKinds PROVE cache[k] = api[k]
      OBVIOUS
    <3>1. k \in Kinds /\ \A i \in DOMAIN watch[k] : ~watch[k][i].initial
      BY <1>7, IgnoreKindNames DEF WaitForCacheSync, HasSynced
    <3>2. \A n \in Names[k] : cache[k][n] = api[k][n]
      BY <1>3, <3>1 DEF IgnoreKnown
    <3> QED
      BY <3>1, <3>2, KindTypes
  <2>2. UNCHANGED <<api, watch, cache, worker>> /\ running' = TRUE
    BY <1>7 DEF WaitForCacheSync
  <2>3. \A k \in IgnoreKinds : IgnoreKnown(k)'
    BY <1>3, <2>1, <2>2 DEF IgnoreKnown
  <2>4. \A k \in IgnoreKinds : api'[k] = api[k]
    BY <2>2
  <2>5. \A d : Ignored(d)' <=> Ignored(d)
    BY <2>4, SameIgnored
  <2>6. NoneIgnored' /\ \A w \in Workers : LeavesIgnored(worker[w])'
    BY <1>3, <2>2, <2>5 DEF NoneIgnored, LeavesIgnored, Exists, Ignored
  <2> QED
    BY <2>2, <2>3, <2>6
<1>8. ASSUME NEW k \in Kinds, Deliver(k)
      PROVE  Kept'
  BY <1>3, <1>4, <1>8, MarkersDelivered DEF Deliver
<1>9. ASSUME NEW k \in Kinds, Relist(k)
      PROVE  Kept'
  BY <1>3, <1>4, <1>9, MarkersRelisted DEF Relist
<1>10. ASSUME NEW w \in Workers, WorkerStep(w)
       PROVE  Kept'
  <2>1. running
    <3>1. ProcessNextWorkItem(w) \/ Busy(w)
      BY <1>10 DEF WorkerStep, Decide, List, ApplyVPA, PatchVPA, DeleteOutdated, DeleteOthers,
             DeleteGenerated, FinishWorkItem, Busy
    <3> QED
      BY <1>3, <3>1 DEF ProcessNextWorkItem
  <2>2. PICK s : LeavesIgnored(s) /\ worker' = [worker EXCEPT ![w] = s]
    BY <1>3, <1>10, <2>1, LeavesDeciding, LeavesWriting
  <2>3. \A x \in Workers : LeavesIgnored(worker'[x])
    BY <1>3, <2>2 DEF TypeOK
  <2>4. UNCHANGED <<cache, running>>
    BY <1>10, WorkerWrites
  <2>5. CASE UNCHANGED <<api, watch>>
    <3>1. \A k \in IgnoreKinds : api'[k] = api[k] /\ watch'[k] = watch[k]
      BY <2>5
    <3>2. \A d : Ignored(d)' <=> Ignored(d)
      BY <3>1, SameIgnored
    <3>3. NoneIgnored' /\ \A x \in Workers : LeavesIgnored(worker[x])'
      BY <1>3, <2>3, <2>5, <3>2 DEF NoneIgnored, LeavesIgnored, Exists, Ignored
    <3>4. \A k \in IgnoreKinds : IgnoreKnown(k)'
      BY <1>3, <2>4, <3>1, MarkersSame
    <3> QED
      BY <2>1, <2>4, <3>3, <3>4
  <2>6. ASSUME NEW v \in VPANames, NEW val \in Slot("vpa"),
               Store("vpa", v, val), WorkerStores(w, v, val)
        PROVE  Kept'
    <3>1. val # Absent /\ val.managed /\ val.target \in Deployments => ~Ignored(val.target)
      BY <1>2, <2>6, WritesUnignored
    <3> QED
      BY <1>6, <2>1, <2>3, <2>4, <2>6, <3>1
  <2> QED
    BY <1>10, <2>5, <2>6, WorkerWrites
<1>11. ASSUME NEW v \in VPANames,
              UserCreatesVPA(v) \/ UserDeletesVPA(v) \/ UserEditsVPA(v) \/ CollectGarbage(v)
       PROVE  Kept'
  <2>1. PICK val \in Slot("vpa") : Store("vpa", v, val) /\ UsersStore(v, val)
    BY <1>11, UserWritesVPA
  <2>2. UNCHANGED <<cache, running, worker>>
    BY <1>11, UserWritesVPA
  <2>3. val # Absent /\ val.managed /\ val.target \in Deployments => ~Ignored(val.target)
    BY <1>2, <1>3, <2>1 DEF UsersStore, NoneIgnored, IgnoringFixed
  <2> QED
    BY <1>3, <1>6, <2>1, <2>2, <2>3 DEF Busy
<1>12. ASSUME NEW k \in UserKinds, NEW n \in Names[k], UserWrites(k, n)
       PROVE  Kept'
  <2>1. k \in Kinds \ IgnoreKinds /\ k # "vpa" /\ UNCHANGED <<cache, running, worker>>
    BY <1>2, <1>12 DEF UserWrites, Spend, IgnoringFixed, UserKinds, IgnoreKinds
  <2>2. PICK val : Store(k, n, val)
    BY <1>12 DEF UserWrites
  <2>3. \A j \in IgnoreKinds : api'[j] = api[j] /\ watch'[j] = watch[j]
    BY <2>1, <2>2, StoreKeepsMarkers
  <2>4. \A d : Ignored(d)' <=> Ignored(d)
    BY <2>3, SameIgnored
  <2>5. api'.vpa = api.vpa
    BY <2>1, <2>2, VPASlots DEF Store, TypeOK, IsView
  <2>6. NoneIgnored' /\ \A w \in Workers : LeavesIgnored(worker[w])'
    BY <1>3, <2>1, <2>4, <2>5 DEF NoneIgnored, LeavesIgnored, Exists, Ignored
  <2>7. \A j \in IgnoreKinds : IgnoreKnown(j)'
    BY <1>3, <2>1, <2>3, MarkersSame
  <2> QED
    BY <1>3, <2>1, <2>6, <2>7 DEF Busy
<1>13. CASE Restart
  <2>1. UNCHANGED api /\ cache' = EmptyView /\ ~running' /\ IsView(api)
        /\ \A w \in Workers : worker'[w] = Idle
    BY <1>13 DEF Restart, TypeOK
  <2>2. \A k \in IgnoreKinds : watch'[k] = InitialList(api, k)
    BY <1>13, IgnoreKindNames DEF Restart
  <2>3. \A k \in IgnoreKinds : IgnoreKnown(k)'
    BY <2>1, <2>2, MarkersStart DEF IgnoreKnown
  <2>4. \A d : Ignored(d)' <=> Ignored(d)
    BY <2>1, SameIgnored
  <2>5. NoneIgnored'
    BY <1>3, <2>1, <2>4 DEF NoneIgnored, Exists, Ignored
  <2>6. \A w \in Workers : LeavesIgnored(worker[w])' /\ ~Busy(w)'
    BY <2>1 DEF LeavesIgnored, Busy, Idle
  <2> QED
    BY <2>3, <2>5, <2>6
<1>14. CASE (\E k \in Kinds : Handle(k)) \/ (\E key \in Deployments : Retry(key)) \/ UNCHANGED vars
  BY <1>5, <1>14 DEF Handle, Retry, vars
<1> QED
  BY <1>7, <1>8, <1>9, <1>10, <1>11, <1>12, <1>13, <1>14 DEF Next, Environment

\* At the start.
LEMMA IgnoredInit == ASSUME StartsUnmanaged, Init PROVE IgnoredInv
<1>1. PICK s \in Scenarios : /\ api = s.start /\ IsView(api)
                             /\ watch = [k \in Kinds |-> InitialList(s.start, k)]
  BY WatcherAssumption DEF Init
<1>2. cache = EmptyView /\ ~running /\ \A w \in Workers : worker[w] = Idle
  BY DEF Init
<1>3. \A k \in IgnoreKinds : watch[k] = InitialList(api, k)
  BY <1>1, IgnoreKindNames
<1>4. \A k \in IgnoreKinds : IgnoreKnown(k)
  BY <1>1, <1>2, <1>3, MarkersStart DEF IgnoreKnown
<1>5. NoneIgnored
  BY <1>1 DEF NoneIgnored, StartsUnmanaged, Ignored, GetIgnoredWorkload, Exists
<1>6. \A w \in Workers : LeavesIgnored(worker[w]) /\ ~Busy(w)
  BY <1>2 DEF LeavesIgnored, Busy, Idle
<1> QED
  BY <1>4, <1>5, <1>6 DEF IgnoredInv

\* An ignored Deployment that nobody stops ignoring never gets a generated VPA,
\* whatever else happens, restarts and broken watches included: no worker runs
\* before the caches know what is ignored.
THEOREM IgnoredStaysUnmanaged ==
    ASSUME StartsUnmanaged
    PROVE  Spec => []IgnoredNeverManaged
<1>1. Init => IgnoredInv
  BY IgnoredInit
<1>2. TypeOK /\ IgnoredInv /\ [Next]_vars => IgnoredInv'
  BY IgnoredStep
<1>3. IgnoredInv => IgnoredNeverManaged
  BY DEF IgnoredInv, IgnoredNeverManaged, NoneIgnored, GeneratedVPAs
<1> QED
  BY <1>1, <1>2, <1>3, TypeCorrect, PTL DEF Spec

-----------------------------------------------------------------------------
(* Manual VPAs.                                                             *)

Labelled(x) == x # Absent /\ x.managed

\* Nobody removes the watcher's label, and users give their own VPAs no name that
\* a labelled VPA has at the start or the watcher generates.
ManualNamesApart ==
    \A s \in Scenarios :
        /\ "unlabel" \notin s.steps.allowed
        /\ "createVPA" \in s.steps.allowed =>
              \A v \in ManualVPANames : /\ ~Labelled(s.start.vpa[v])
                                        /\ \A d \in Deployments : v # GeneratedName[d]

\* A VPA that is the user's, or a name a user may give one.
OwnedByUser(v) ==
    \/ v \in ManualVPANames /\ "createVPA" \in steps.allowed
    \/ Exists(api, "vpa", v) /\ ~api.vpa[v].managed

\* What a worker has in hand is not v.
Spares(s, v) ==
    /\ v \notin s.doomed
    /\ s.pc \in {"patch", "outdated"} => v # GeneratedName[s.key]

\* Nobody who acts later takes v for a generated VPA.
NeverLabelled(v) ==
    /\ ~Labelled(api.vpa[v])
    /\ ~Labelled(cache.vpa[v])
    /\ \A i \in DOMAIN watch.vpa : watch.vpa[i].name = v => ~Labelled(watch.vpa[i].val)
    /\ \A w \in Workers : Spares(worker[w], v)

ManualInv ==
    /\ "unlabel" \notin steps.allowed
    /\ "createVPA" \in steps.allowed =>
          \A v \in ManualVPANames : \A d \in Deployments : v # GeneratedName[d]
    /\ \A v \in VPANames : OwnedByUser(v) => NeverLabelled(v)

\* A worker only takes in hand what its cache has with the label.
LEMMA SparesStep ==
    ASSUME TypeOK, NEW v \in VPANames, ~Labelled(cache.vpa[v]),
           NEW w \in Workers, Spares(worker[w], v), WorkerStep(w)
    PROVE  \E s : Spares(s, v) /\ worker' = [worker EXCEPT ![w] = s]
<1> DEFINE s == worker[w]
<1>1. s \in WorkerState /\ WorkerFits(s)
  BY DEF TypeOK
<1>2. ASSUME NEW t, t.doomed \subseteq s.doomed, t.pc \notin {"patch", "outdated"}
      PROVE  Spares(t, v)
  BY <1>2 DEF Spares
<1>3. ASSUME NEW n, NEW val, NEW ok, NEW err, CallAPI(w, n, val, ok, err),
             Spares(ok, v), Spares(err, v)
      PROVE  \E t : Spares(t, v) /\ worker' = [worker EXCEPT ![w] = t]
  BY <1>3 DEF CallAPI
<1>4. \A failed \in BOOLEAN : Spares(CleanUp(w, failed), v)
  <2> SUFFICES ASSUME NEW failed \in BOOLEAN PROVE Spares(CleanUp(w, failed), v)
    OBVIOUS
  <2>1. CleanUp(w, failed).doomed = s.doomed /\ CleanUp(w, failed).pc = "cleanup"
    BY <1>1 DEF CleanUp, WorkerState
  <2> QED
    BY <1>2, <2>1
<1>5. CASE ProcessNextWorkItem(w)
  <2> DEFINE t == [s EXCEPT !.pc = "decide", !.key = Head(q.fifo)]
  <2>1. worker' = [worker EXCEPT ![w] = t]
    BY <1>5 DEF ProcessNextWorkItem, TypeOK
  <2>2. t.pc = "decide" /\ t.doomed = s.doomed
    BY <1>1 DEF WorkerState
  <2> HIDE DEF t
  <2> QED
    BY <1>2, <2>1, <2>2
<1>6. CASE Decide(w)
  <2>1. CASE worker' = [worker EXCEPT ![w].pc = "finish"]
    <3> DEFINE t == [s EXCEPT !.pc = "finish"]
    <3>1. worker' = [worker EXCEPT ![w] = t]
      BY <2>1 DEF TypeOK
    <3>2. t.pc = "finish" /\ t.doomed = s.doomed
      BY <1>1 DEF WorkerState
    <3> HIDE DEF t
    <3> QED
      BY <1>2, <3>1, <3>2
  <2>2. ASSUME NEW dec,
               worker' = [worker EXCEPT
                   ![w].pc     = IF dec.kind = "error" THEN "finish" ELSE "list",
                   ![w].failed = dec.kind = "error",
                   ![w].uid    = cache.deployment[s.key].uid,
                   ![w].config = dec.config]
        PROVE  \E t : Spares(t, v) /\ worker' = [worker EXCEPT ![w] = t]
    <3> DEFINE t == [s EXCEPT
                       !.pc     = IF dec.kind = "error" THEN "finish" ELSE "list",
                       !.failed = dec.kind = "error",
                       !.uid    = cache.deployment[s.key].uid,
                       !.config = dec.config]
    <3>1. worker' = [worker EXCEPT ![w] = t]
      BY <2>2 DEF TypeOK
    <3>2. t.doomed = s.doomed /\ t.pc \in {"finish", "list"}
      BY <1>1 DEF WorkerState
    <3> HIDE DEF t
    <3> QED
      BY <1>2, <3>1, <3>2
  <2> QED
    BY <1>6, <2>1, <2>2 DEF Decide
<1>7. CASE List(w)
  <2> DEFINE d       == s.key
             name    == NameForDeployment(d)
             managed == ManagedVPAs(cache, d)
             manual  == ListForDeployment(cache, d) \ managed
             others  == managed \ {name}
             remove  == [s EXCEPT !.pc = "remove", !.doomed = EnsureNoGenerated(cache, d)]
             create  == [s EXCEPT !.pc = "create", !.doomed = others]
             cleanup == [s EXCEPT !.pc = "cleanup", !.doomed = others]
             patch   == [s EXCEPT !.pc = "patch", !.doomed = others, !.base = cache.vpa[name]]
  <2>1. v \notin managed /\ EnsureNoGenerated(cache, d) = managed /\ name = GeneratedName[d]
    BY DEF Labelled, ManagedVPAs, ListForDeployment, IsManagedByWatcher, EnsureNoGenerated,
           Exists, NameForDeployment
  <2>2. /\ remove.pc = "remove" /\ create.pc = "create" /\ cleanup.pc = "cleanup"
        /\ remove.doomed = EnsureNoGenerated(cache, d) /\ create.doomed = others
        /\ cleanup.doomed = others /\ patch.doomed = others /\ patch.key = d
    BY <1>1 DEF WorkerState
  <2>3. \/ worker' = [worker EXCEPT ![w] = remove]
        \/ worker' = [worker EXCEPT ![w] = create]
        \/ worker' = [worker EXCEPT ![w] = cleanup]
        \/ name \in managed /\ worker' = [worker EXCEPT ![w] = patch]
    <3> HIDE DEF managed, name
    <3>1. CASE s.config = None \/ manual # {}
      BY <1>7, <3>1 DEF List, TypeOK, managed, name
    <3>2. CASE s.config # None /\ manual = {} /\ name \notin managed
      BY <1>7, <3>2 DEF List, TypeOK, managed, name
    <3>3. CASE s.config # None /\ manual = {} /\ name \in managed
      BY <1>7, <3>3 DEF List, TypeOK, managed, name
    <3> QED
      BY <3>1, <3>2, <3>3
  <2> HIDE DEF remove, create, cleanup, patch, managed, name, d
  <2>4. Spares(remove, v) /\ Spares(create, v) /\ Spares(cleanup, v)
    BY <2>1, <2>2 DEF Spares
  <2>5. name \in managed => Spares(patch, v)
    BY <2>1, <2>2 DEF Spares
  <2> QED
    BY <2>3, <2>4, <2>5
<1>8. CASE ApplyVPA(w)
  BY <1>3, <1>4, <1>8 DEF ApplyVPA
<1>9. CASE PatchVPA(w)
  <2> DEFINE gone == [worker[w] EXCEPT !.pc = "outdated", !.base = None]
  <2>1. gone.key = s.key /\ gone.pc = "outdated" /\ gone.doomed = s.doomed /\ s.pc = "patch"
    BY <1>1, <1>9 DEF PatchVPA, WorkerState
  <2> HIDE DEF gone
  <2>2. Spares(gone, v)
    BY <2>1 DEF Spares
  <2>3. \/ worker' = [worker EXCEPT ![w] = gone]
        \/ \E val : CallAPI(w, NameForDeployment(s.key), val, CleanUp(w, FALSE), gone)
    BY <1>9 DEF PatchVPA, gone
  <2> QED
    BY <1>3, <1>4, <2>2, <2>3
<1>10. CASE DeleteOutdated(w)
  BY <1>3, <1>4, <1>10 DEF DeleteOutdated, DeleteVPA
<1>11. ASSUME s.pc \in {"cleanup", "remove"}, NEW D \in SUBSET s.doomed, NEW e
       PROVE  Spares([s EXCEPT !.doomed = D], v) /\ Spares([s EXCEPT !.doomed = D, !.failed = e], v)
  <2>1. [s EXCEPT !.doomed = D].doomed = D /\ [s EXCEPT !.doomed = D].pc = s.pc
    BY <1>1 DEF WorkerState
  <2>2. [s EXCEPT !.doomed = D, !.failed = e].doomed = D
        /\ [s EXCEPT !.doomed = D, !.failed = e].pc = s.pc
    BY <1>1 DEF WorkerState
  <2> QED
    BY <1>2, <1>11, <2>1, <2>2
<1>12. CASE DeleteOthers(w)
  <2> DEFINE rest(x) == [s EXCEPT !.doomed = @ \ {x}]
  <2>1. PICK x \in s.doomed : DeleteVPA(w, x, rest(x), [rest(x) EXCEPT !.failed = TRUE])
    BY <1>12 DEF DeleteOthers
  <2>2. rest(x) = [s EXCEPT !.doomed = s.doomed \ {x}]
        /\ [rest(x) EXCEPT !.failed = TRUE] = [s EXCEPT !.doomed = s.doomed \ {x}, !.failed = TRUE]
    BY <1>1 DEF WorkerState
  <2>3. Spares(rest(x), v) /\ Spares([rest(x) EXCEPT !.failed = TRUE], v)
    BY <1>11, <1>12, <2>2 DEF DeleteOthers
  <2> HIDE DEF rest
  <2> QED
    BY <1>3, <2>1, <2>3 DEF DeleteVPA
<1>13. CASE DeleteGenerated(w)
  <2> DEFINE rest(x) == [s EXCEPT !.doomed = @ \ {x}]
             stop    == [s EXCEPT !.doomed = {}, !.failed = TRUE]
  <2>1. PICK x \in s.doomed : DeleteVPA(w, x, rest(x), stop)
    BY <1>13 DEF DeleteGenerated
  <2>2. rest(x) = [s EXCEPT !.doomed = s.doomed \ {x}]
    BY <1>1 DEF WorkerState
  <2>3. Spares(rest(x), v) /\ Spares(stop, v)
    BY <1>11, <1>13, <2>2 DEF DeleteGenerated
  <2> HIDE DEF rest, stop
  <2> QED
    BY <1>3, <2>1, <2>3 DEF DeleteVPA
<1>14. CASE FinishWorkItem(w)
  <2>1. Spares(Idle, v)
    BY DEF Spares, Idle
  <2> QED
    BY <1>14, <2>1 DEF FinishWorkItem
<1> QED
  BY <1>5, <1>6, <1>7, <1>8, <1>9, <1>10, <1>12, <1>13, <1>14 DEF WorkerStep

\* A worker stores nothing over a VPA it spares, but a labelled one where there is none.
LEMMA SparedStored ==
    ASSUME TypeOK, NEW w \in Workers, NEW v \in VPANames, NEW val \in Slot("vpa"),
           WorkerStores(w, v, val), Spares(worker[w], v)
    PROVE  /\ ~Exists(api, "vpa", v) /\ val # Absent /\ val.managed
           /\ \E d \in Deployments : v = GeneratedName[d]
<1>1. worker[w].pc = "create" /\ val = Desired(w) /\ v = GeneratedName[worker[w].key]
      /\ ~Exists(api, "vpa", v)
  BY DEF WorkerStores, Spares
<1>2. worker[w].key \in Deployments /\ val \in VPA /\ val.managed
  BY <1>1, DesiredVPAType DEF TypeOK, WorkerFits, Desired, GenerateVPAForDeployment
<1>3. val # Absent
  BY <1>2, AbsentAssumption, VPASlots DEF Values
<1> QED
  BY <1>1, <1>2, <1>3

\* A VPA is written.
LEMMA NeverLabelledStored ==
    ASSUME TypeOK, NEW v \in VPANames, NeverLabelled(v), NEW n \in VPANames, NEW val,
           Store("vpa", n, val), n = v => ~Labelled(val), cache' = cache,
           \A w \in Workers : Spares(worker'[w], v)
    PROVE  NeverLabelled(v)'
<1>1. api'.vpa = [api.vpa EXCEPT ![n] = val]
  BY VPASlots DEF Store, TypeOK, IsView
<1>2. ~Labelled(api'.vpa[v])
  BY <1>1, VPASlots DEF NeverLabelled
<1>3. \A i \in DOMAIN watch'.vpa : watch'.vpa[i].name = v => ~Labelled(watch'.vpa[i].val)
  <2>1. CASE watch' = watch
    BY <2>1 DEF NeverLabelled
  <2>2. CASE watch' = [watch EXCEPT !.vpa = Append(@, [name |-> n, val |-> val, initial |-> FALSE])]
    <3> DEFINE x == [name |-> n, val |-> val, initial |-> FALSE]
               D == Delta("vpa")
    <3>1. watch'.vpa = Append(watch.vpa, x) /\ watch.vpa \in Seq(D)
      BY <2>2, VPASlots DEF TypeOK, Kinds
    <3>2. x.name = n /\ x.val = val
      OBVIOUS
    <3> HIDE DEF x, D
    <3>3. \A i \in DOMAIN watch'.vpa :
             \/ i \in DOMAIN watch.vpa /\ watch'.vpa[i] = watch.vpa[i]
             \/ watch'.vpa[i] = x
      BY <3>1
    <3> QED
      BY <3>2, <3>3 DEF NeverLabelled
  <2> QED
    BY <2>1, <2>2 DEF Store
<1> QED
  BY <1>2, <1>3 DEF NeverLabelled

\* A change reaches the cache.
LEMMA NeverLabelledDelivered ==
    ASSUME TypeOK, NEW v \in VPANames, NeverLabelled(v), NEW k \in Kinds, Deliver(k)
    PROVE  NeverLabelled(v)'
<1>1. UNCHANGED <<api, worker>>
  BY DEF Deliver
<1>2. CASE k = "vpa"
  <2> DEFINE D == Delta("vpa")
             d == Head(watch.vpa)
  <2>1. watch.vpa # <<>> /\ watch.vpa \in Seq(D)
    BY <1>2, VPASlots DEF Deliver
  <2>2. watch'.vpa = Tail(watch.vpa) /\ cache'.vpa = [cache.vpa EXCEPT ![d.name] = d.val]
    BY <1>2, VPASlots DEF Deliver, TypeOK, IsView
  <2> HIDE DEF D
  <2>3. d = watch.vpa[1] /\ 1 \in DOMAIN watch.vpa
        /\ \A i \in DOMAIN Tail(watch.vpa) :
              i + 1 \in DOMAIN watch.vpa /\ Tail(watch.vpa)[i] = watch.vpa[i + 1]
    BY <2>1
  <2>4. ~Labelled(cache'.vpa[v])
    <3>1. cache'.vpa[v] = IF d.name = v THEN d.val ELSE cache.vpa[v]
      BY <2>2, VPASlots
    <3>2. d.name = v => ~Labelled(d.val)
      BY <2>3 DEF NeverLabelled
    <3> QED
      BY <3>1, <3>2 DEF NeverLabelled
  <2>5. \A i \in DOMAIN watch'.vpa : watch'.vpa[i].name = v => ~Labelled(watch'.vpa[i].val)
    BY <2>2, <2>3 DEF NeverLabelled
  <2> QED
    BY <1>1, <2>4, <2>5 DEF NeverLabelled
<1>3. CASE k # "vpa"
  <2>1. cache'.vpa = cache.vpa /\ watch'.vpa = watch.vpa
    BY <1>3, VPASlots DEF Deliver, TypeOK, IsView
  <2> QED
    BY <1>1, <2>1 DEF NeverLabelled
<1> QED
  BY <1>2, <1>3

\* A watch breaks: the new list has what the API server has.
LEMMA NeverLabelledRelisted ==
    ASSUME TypeOK, NEW v \in VPANames, NeverLabelled(v), NEW k \in Kinds, Relist(k)
    PROVE  NeverLabelled(v)'
<1> DEFINE order == SetToSeq(Missed(k))
           list  == [i \in DOMAIN order |->
                        [name |-> order[i], val |-> api[k][order[i]], initial |-> FALSE]]
<1>1. UNCHANGED <<api, cache, worker>>
  BY DEF Relist
<1>2. IF k = "vpa" THEN watch'.vpa = list ELSE watch'.vpa = watch.vpa
  BY VPASlots DEF Relist, TypeOK
<1>3. k = "vpa" => \A i \in DOMAIN list : list[i].name = v => list[i].val = api.vpa[v]
  OBVIOUS
<1> HIDE DEF list
<1>4. \A i \in DOMAIN watch'.vpa : watch'.vpa[i].name = v => ~Labelled(watch'.vpa[i].val)
  BY <1>2, <1>3 DEF NeverLabelled
<1> QED
  BY <1>1, <1>4 DEF NeverLabelled

\* Nothing of v is known when the process starts, but what the API server has.
LEMMA NeverLabelledStart ==
    ASSUME NEW view, IsView(view), NEW v \in VPANames, ~Labelled(view.vpa[v])
    PROVE  /\ ~Labelled(EmptyView.vpa[v]) /\ Spares(Idle, v)
           /\ LET list == InitialList(view, "vpa")
              IN  \A i \in DOMAIN list : list[i].name = v => ~Labelled(list[i].val)
<1>1. ~Labelled(EmptyView.vpa[v]) /\ Spares(Idle, v)
  BY VPASlots DEF EmptyView, Labelled, Spares, Idle
<1> DEFINE list == InitialList(view, "vpa")
<1>2. \A i \in DOMAIN list : list[i].val = view["vpa"][list[i].name]
  BY VPASlots, InitialListParts
<1> HIDE DEF list
<1>3. \A i \in DOMAIN list : list[i].name = v => ~Labelled(list[i].val)
  BY <1>2
<1> QED
  BY <1>1, <1>3 DEF list

\* What a worker writes is not the user's, and does not become it.
LEMMA WorkerSpares ==
    ASSUME TypeOK, ManualInv, NEW w \in Workers, WorkerStep(w), NEW v \in VPANames
    PROVE  /\ OwnedByUser(v)' => OwnedByUser(v) /\ NeverLabelled(v)'
           /\ Exists(api, "vpa", v) /\ ~api.vpa[v].managed => api'.vpa[v] = api.vpa[v]
<1>1. cache' = cache /\ steps'.allowed = steps.allowed
  BY WorkerWrites
<1>2. ASSUME OwnedByUser(v)
      PROVE  NeverLabelled(v) /\ \A x \in Workers : Spares(worker'[x], v)
  <2>1. NeverLabelled(v)
    BY <1>2 DEF ManualInv
  <2>2. PICK s : Spares(s, v) /\ worker' = [worker EXCEPT ![w] = s]
    BY <2>1, SparesStep DEF NeverLabelled
  <2> QED
    BY <2>1, <2>2 DEF NeverLabelled, TypeOK
<1>3. CASE UNCHANGED <<api, watch>>
  <2>1. OwnedByUser(v)' => OwnedByUser(v)
    BY <1>1, <1>3 DEF OwnedByUser, Exists
  <2>2. OwnedByUser(v) => NeverLabelled(v)'
    BY <1>1, <1>2, <1>3 DEF NeverLabelled
  <2> QED
    BY <1>3, <2>1, <2>2
<1>4. ASSUME NEW n \in VPANames, NEW val \in Slot("vpa"), Store("vpa", n, val), WorkerStores(w, n, val)
      PROVE  /\ OwnedByUser(v)' => OwnedByUser(v) /\ NeverLabelled(v)'
             /\ Exists(api, "vpa", v) /\ ~api.vpa[v].managed => api'.vpa[v] = api.vpa[v]
  <2>1. api'.vpa = [api.vpa EXCEPT ![n] = val]
    BY <1>4, VPASlots DEF Store, TypeOK, IsView
  <2>2. api'.vpa[n] = val /\ (n # v => api'.vpa[v] = api.vpa[v])
    BY <2>1, VPASlots
  <2>3. CASE n # v
    <3>1. OwnedByUser(v)' => OwnedByUser(v)
      BY <1>1, <2>2, <2>3 DEF OwnedByUser, Exists
    <3>2. OwnedByUser(v) => NeverLabelled(v)'
      BY <1>1, <1>2, <1>4, <2>3, NeverLabelledStored
    <3> QED
      BY <2>2, <2>3, <3>1, <3>2
  <2>4. ASSUME n = v, OwnedByUser(v)
        PROVE  ~Exists(api, "vpa", v) /\ ~OwnedByUser(v)'
    <3>1. Spares(worker[w], v)
      BY <1>2, <2>4 DEF NeverLabelled
    <3>2. /\ ~Exists(api, "vpa", v) /\ val # Absent /\ val.managed
          /\ \E d \in Deployments : v = GeneratedName[d]
      BY <1>4, <2>4, <3>1, SparedStored
    <3>3. ~(v \in ManualVPANames /\ "createVPA" \in steps.allowed)
      BY <3>2 DEF ManualInv
    <3> QED
      BY <1>1, <2>2, <2>4, <3>2, <3>3 DEF OwnedByUser, Exists
  <2>5. ASSUME n = v, ~OwnedByUser(v)
        PROVE  ~OwnedByUser(v)'
    <3>1. val = Absent \/ val.managed
      <4>1. CASE val = Desired(w)
        BY <4>1 DEF Desired, GenerateVPAForDeployment
      <4>2. CASE /\ worker[w].pc = "patch" /\ Exists(api, "vpa", v)
                 /\ val = MergePatch(worker[w].base, Desired(w), api.vpa[v])
        <5>1. api.vpa[v] \in VPA /\ api.vpa[v].managed
          BY <2>5, <4>2, VPASlots DEF Exists, OwnedByUser
        <5>2. Desired(w).managed = TRUE
          BY DEF Desired, GenerateVPAForDeployment
        <5>3. api.vpa[v].managed = TRUE
          BY <5>1 DEF VPA
        <5> QED
          BY <4>2, <5>1, <5>2, <5>3 DEF MergePatch, VPA
      <4> QED
        BY <1>4, <2>5, <4>1, <4>2 DEF WorkerStores
    <3> QED
      BY <1>1, <2>2, <2>5, <3>1 DEF OwnedByUser, Exists
  <2>6. Exists(api, "vpa", v) /\ ~api.vpa[v].managed => OwnedByUser(v)
    BY DEF OwnedByUser
  <2> QED
    BY <2>3, <2>4, <2>5, <2>6
<1> QED
  BY <1>3, <1>4, WorkerWrites

\* Users and the garbage collector make no labelled VPA a manual one.
LEMMA UserSpares ==
    ASSUME TypeOK, ManualInv, NEW n \in VPANames, NEW v \in VPANames,
           UserCreatesVPA(n) \/ UserDeletesVPA(n) \/ UserEditsVPA(n) \/ CollectGarbage(n)
    PROVE  OwnedByUser(v)' => NeverLabelled(v)'
<1>1. PICK val \in Slot("vpa") : Store("vpa", n, val) /\ UsersStore(n, val)
  BY UserWritesVPA
<1>2. UNCHANGED <<cache, worker>> /\ steps'.allowed = steps.allowed
  BY UserWritesVPA
<1>3. api'.vpa = [api.vpa EXCEPT ![n] = val]
  BY <1>1, VPASlots DEF Store, TypeOK, IsView
<1>4. api'.vpa[n] = val /\ (n # v => api'.vpa[v] = api.vpa[v])
  BY <1>3, VPASlots
<1>5. OwnedByUser(v)' => OwnedByUser(v)
  <2>1. CASE n # v
    BY <1>2, <1>4, <2>1 DEF OwnedByUser, Exists
  <2>2. CASE n = v
    BY <1>1, <1>2, <1>4, <2>2 DEF OwnedByUser, Exists, UsersStore, ManualInv
  <2> QED
    BY <2>1, <2>2
<1>6. ASSUME OwnedByUser(v)', n = v
      PROVE  ~Labelled(val)
  <2>1. OwnedByUser(v) /\ NeverLabelled(v)
    BY <1>5, <1>6 DEF ManualInv
  <2> QED
    BY <1>1, <1>6, <2>1 DEF UsersStore, NeverLabelled, Labelled, Exists
<1>7. ASSUME OwnedByUser(v)'
      PROVE  NeverLabelled(v)'
  <2>1. NeverLabelled(v)
    BY <1>5, <1>7 DEF ManualInv
  <2>2. \A w \in Workers : Spares(worker'[w], v)
    BY <1>2, <2>1 DEF NeverLabelled
  <2> QED
    BY <1>1, <1>2, <1>6, <1>7, <2>1, <2>2, NeverLabelledStored
<1> QED
  BY <1>7

\* Every step keeps it.
LEMMA ManualStep == TypeOK /\ ManualInv /\ [Next]_vars => ManualInv'
<1> SUFFICES ASSUME TypeOK, ManualInv, [Next]_vars
             PROVE  ManualInv'
  OBVIOUS
<1>1. steps'.allowed = steps.allowed
  BY AllowedSame
<1> SUFFICES ASSUME NEW v \in VPANames, OwnedByUser(v)'
             PROVE  NeverLabelled(v)'
  BY <1>1 DEF ManualInv
<1>2. CASE UNCHANGED api
  <2>1. NeverLabelled(v)
    BY <1>1, <1>2 DEF ManualInv, OwnedByUser, Exists
  <2>2. CASE UNCHANGED <<watch, cache, worker>>
    BY <1>2, <2>1, <2>2 DEF NeverLabelled
  <2>3. ASSUME NEW k \in Kinds, Deliver(k) \/ Relist(k)
        PROVE  NeverLabelled(v)'
    BY <2>1, <2>3, NeverLabelledDelivered, NeverLabelledRelisted
  <2>4. CASE Restart
    <3>1. watch'.vpa = InitialList(api, "vpa") /\ cache' = EmptyView
          /\ \A w \in Workers : worker'[w] = Idle
      BY <2>4, VPASlots DEF Restart
    <3>2. IsView(api) /\ ~Labelled(api.vpa[v])
      BY <2>1 DEF NeverLabelled, TypeOK
    <3> QED
      BY <1>2, <3>1, <3>2, NeverLabelledStart DEF NeverLabelled
  <2>5. ASSUME NEW w \in Workers, WorkerStep(w)
        PROVE  NeverLabelled(v)'
    BY <2>5, WorkerSpares
  <2>6. ASSUME NEW n \in VPANames,
               UserCreatesVPA(n) \/ UserDeletesVPA(n) \/ UserEditsVPA(n) \/ CollectGarbage(n)
        PROVE  NeverLabelled(v)'
    BY <2>6, UserSpares
  <2>7. ASSUME NEW k \in UserKinds, NEW n \in Names[k], UserWrites(k, n)
        PROVE  NeverLabelled(v)'
    <3>1. watch'.vpa = watch.vpa /\ cache' = cache /\ worker' = worker
      BY <2>7, VPASlots DEF UserWrites, Store, UserKinds, TypeOK
    <3> QED
      BY <1>2, <2>1, <3>1 DEF NeverLabelled
  <2> QED
    BY <2>2, <2>3, <2>4, <2>5, <2>6, <2>7 DEF Next, Environment, WaitForCacheSync, Handle, Retry, vars
<1>3. ASSUME NEW w \in Workers, WorkerStep(w)
      PROVE  NeverLabelled(v)'
  BY <1>3, WorkerSpares
<1>4. ASSUME NEW n \in VPANames,
             UserCreatesVPA(n) \/ UserDeletesVPA(n) \/ UserEditsVPA(n) \/ CollectGarbage(n)
      PROVE  NeverLabelled(v)'
  BY <1>4, UserSpares
<1>5. ASSUME NEW k \in UserKinds, NEW n \in Names[k], UserWrites(k, n)
      PROVE  NeverLabelled(v)'
  <2>1. api'.vpa = api.vpa /\ watch'.vpa = watch.vpa /\ cache' = cache /\ worker' = worker
    BY <1>5, VPASlots DEF UserWrites, Store, UserKinds, TypeOK, IsView
  <2>2. NeverLabelled(v)
    BY <1>1, <2>1 DEF ManualInv, OwnedByUser, Exists
  <2> QED
    BY <2>1, <2>2 DEF NeverLabelled
<1> QED
  BY <1>2, <1>3, <1>4, <1>5 DEF Next, Environment, WaitForCacheSync, Deliver, Handle, Retry,
     Relist, Restart, vars

\* At the start.
LEMMA ManualInit == ASSUME ManualNamesApart, Init PROVE ManualInv
<1>1. PICK s \in Scenarios : /\ api = s.start /\ IsView(api) /\ steps = s.steps
                             /\ watch = [k \in Kinds |-> InitialList(s.start, k)]
  BY WatcherAssumption DEF Init
<1>2. cache = EmptyView /\ \A w \in Workers : worker[w] = Idle
  BY DEF Init
<1>3. watch.vpa = InitialList(api, "vpa")
  BY <1>1, VPASlots
<1>4. /\ "unlabel" \notin steps.allowed
      /\ "createVPA" \in steps.allowed =>
            \A v \in ManualVPANames : /\ ~Labelled(api.vpa[v])
                                      /\ \A d \in Deployments : v # GeneratedName[d]
  BY <1>1 DEF ManualNamesApart
<1>5. ASSUME NEW v \in VPANames, OwnedByUser(v)
      PROVE  NeverLabelled(v)
  <2>1. ~Labelled(api.vpa[v])
    BY <1>4, <1>5 DEF OwnedByUser, Labelled, Exists
  <2> QED
    BY <1>1, <1>2, <1>3, <2>1, NeverLabelledStart DEF NeverLabelled
<1> QED
  BY <1>4, <1>5 DEF ManualInv

\* A VPA without the watcher's label is never changed or deleted by a worker, as
\* long as none ever had it: a worker names the VPA it writes and nothing else.
THEOREM ManualVPAsPreserved ==
    ASSUME ManualNamesApart
    PROVE  Spec => ManualVPAPreserved
<1> DEFINE Kept == \A w \in Workers : WorkerStep(w) =>
                      \A v \in VPANames :
                          Exists(api, "vpa", v) /\ ~api.vpa[v].managed => api'.vpa[v] = api.vpa[v]
<1>1. Init => ManualInv
  BY ManualInit
<1>2. TypeOK /\ ManualInv /\ [Next]_vars => ManualInv'
  BY ManualStep
<1>3. TypeOK /\ ManualInv => Kept
  BY WorkerSpares
<1>4. ManualVPAPreserved <=> [][Kept]_vars
  BY DEF ManualVPAPreserved
<1> HIDE DEF Kept
<1> QED
  BY <1>1, <1>2, <1>3, <1>4, TypeCorrect, PTL DEF Spec
=============================================================================
