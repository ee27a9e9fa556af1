---------------------- MODULE WatcherConvergenceProofs ------------------------
(***************************************************************************)
(* When nothing is in flight the VPAs are those the objects ask for, for   *)
(* any number of workers, objects, events, failures and restarts, in       *)
(* whatever order the seven informers deliver.  The invariant follows each *)
(* Deployment through everything the code holds it in:                     *)
(*   StreamsInv     a cache and the changes on their way to it end with    *)
(*                  what the API server holds                              *)
(*   NamespacesInv  when workers run the cache has every Deployment's      *)
(*                  namespace, so the handler of a regex finds it          *)
(*   UidsInv        a UID in a VPA, a worker or a stream is of the         *)
(*                  Deployment it is used for, or of a past one            *)
(*   EarlyInv       before the workers start what is cached is queued      *)
(*   Followed       every Deployment the cache has is queued, held back,   *)
(*                  named by an event, held by a worker, given up, settled *)
(*                  as far as the cache tells, or has a VPA a change of    *)
(*                  which is on its way; a worker ends with one of these.  *)
(* Each hypothesis excludes a behaviour in which the claim is false: a VPA *)
(* pointed at another workload, two Deployments with one generated name, a *)
(* watch that breaks (a list hides a VPA created and deleted meanwhile), a *)
(* Deployment whose namespace the watcher hears of later.                  *)
(***************************************************************************)
EXTENDS WatcherWritesProofs

\* No watch breaks.
NobodyRelists == \A s \in Scenarios : "relist" \notin s.steps.allowed

\* The namespace of every Deployment exists from the start; none is ever deleted.
NamespacesExist ==
    \A s \in Scenarios : \A d \in Deployments : Exists(s.start, "namespace", NamespaceOf[d])

\* In a view, no Deployment but d has the UID u.
OnlyOf(view, d, u) ==
    \A e \in Deployments \ {d} : Exists(view, "deployment", e) => view.deployment[e].uid # u

\* Kubernetes gives no UID twice, and the labelled VPAs of the start have the UID
\* of a Deployment of their target's name, of then or of the past.
UniqueUids ==
    \A s \in Scenarios :
        /\ \A d \in Deployments : Exists(s.start, "deployment", d) =>
              OnlyOf(s.start, d, s.start.deployment[d].uid)
        /\ \A v \in VPANames : LET x == s.start.vpa[v] IN
              x # Absent /\ x.managed =>
                  x.owner \in 1 .. FirstUid - 1 /\ OnlyOf(s.start, x.target, x.owner)

-----------------------------------------------------------------------------
(* Streams.                                                                 *)

\* A cache that applies the deltas ends with what the API server holds.
Follows(deltas, cached, actual) ==
    /\ \A i \in DOMAIN deltas :
          (\A j \in DOMAIN deltas : j > i => deltas[j].name # deltas[i].name) =>
              deltas[i].val = actual[deltas[i].name]
    /\ \A n \in DOMAIN actual :
          (\A i \in DOMAIN deltas : deltas[i].name # n) => cached[n] = actual[n]

StreamsInv ==
    /\ "relist" \notin steps.allowed
    /\ \A k \in Kinds : Follows(watch[k], cache[k], api[k])

\* An object is written.
LEMMA FollowsAppend ==
    ASSUME NEW Name, NEW Val, NEW deltas \in Seq([name : Name, val : Val, initial : BOOLEAN]),
           NEW cached \in [Name -> Val], NEW actual \in [Name -> Val],
           Follows(deltas, cached, actual), NEW n \in Name, NEW val \in Val
    PROVE  Follows(Append(deltas, [name |-> n, val |-> val, initial |-> FALSE]), cached,
                   [actual EXCEPT ![n] = val])
<1> DEFINE x   == [name |-> n, val |-> val, initial |-> FALSE]
           D   == Append(deltas, x)
           act == [actual EXCEPT ![n] = val]
<1>1. /\ DOMAIN deltas = 1 .. Len(deltas) /\ Len(deltas) \in Nat
      /\ DOMAIN D = 1 .. Len(deltas) + 1 /\ D[Len(deltas) + 1] = x
      /\ \A i \in DOMAIN deltas : D[i] = deltas[i] /\ deltas[i].name \in Name
      /\ DOMAIN act = Name /\ act[n] = val /\ \A m \in Name \ {n} : act[m] = actual[m]
  <2> DEFINE Ds == [name : Name, val : Val, initial : BOOLEAN]
  <2>1. x \in Ds /\ \A y \in Ds : y.name \in Name
    OBVIOUS
  <2>2. DOMAIN act = Name /\ act[n] = val /\ \A m \in Name \ {n} : act[m] = actual[m]
    OBVIOUS
  <2> HIDE DEF Ds, x
  <2>3. deltas \in Seq(Ds)
    BY DEF Ds
  <2>4. /\ DOMAIN deltas = 1 .. Len(deltas) /\ Len(deltas) \in Nat
        /\ \A i \in DOMAIN deltas : deltas[i] \in Ds
    BY <2>3
  <2>5. /\ DOMAIN D = 1 .. Len(deltas) + 1 /\ D[Len(deltas) + 1] = x
        /\ \A i \in DOMAIN deltas : D[i] = deltas[i]
    BY <2>1, <2>3
  <2> QED
    BY <2>1, <2>2, <2>4, <2>5
<1> HIDE DEF D, act
<1>2. ASSUME NEW i \in DOMAIN D, \A j \in DOMAIN D : j > i => D[j].name # D[i].name
      PROVE  D[i].val = act[D[i].name]
  <2>1. CASE i = Len(deltas) + 1
    BY <1>1, <2>1
  <2>2. CASE i # Len(deltas) + 1
    <3>1. i \in DOMAIN deltas /\ Len(deltas) + 1 > i /\ Len(deltas) + 1 \in DOMAIN D
      BY <1>1, <2>2
    <3>2. D[i].name # n
      BY <1>1, <1>2, <3>1
    <3>3. \A j \in DOMAIN deltas : j > i => deltas[j].name # deltas[i].name
      BY <1>1, <1>2, <3>1
    <3> QED
      BY <1>1, <3>1, <3>2, <3>3 DEF Follows
  <2> QED
    BY <2>1, <2>2
<1>3. ASSUME NEW m \in DOMAIN act, \A i \in DOMAIN D : D[i].name # m
      PROVE  cached[m] = act[m]
  <2>1. m # n
    BY <1>1, <1>3
  <2>2. \A i \in DOMAIN deltas : deltas[i].name # m
    BY <1>1, <1>3
  <2> QED
    BY <1>1, <2>1, <2>2 DEF Follows
<1> QED
  BY <1>2, <1>3 DEF Follows, D, act

\* The next delta is applied.
LEMMA FollowsTail ==
    ASSUME NEW Name, NEW Val, NEW deltas \in Seq([name : Name, val : Val, initial : BOOLEAN]),
           NEW cached \in [Name -> Val], NEW actual \in [Name -> Val],
           Follows(deltas, cached, actual), deltas # <<>>
    PROVE  Follows(Tail(deltas), [cached EXCEPT ![Head(deltas).name] = Head(deltas).val], actual)
<1> DEFINE D == Tail(deltas)
           n == Head(deltas).name
           C == [cached EXCEPT ![n] = Head(deltas).val]
<1>1. /\ DOMAIN deltas = 1 .. Len(deltas) /\ Len(deltas) \in Nat \ {0}
      /\ DOMAIN D = 1 .. Len(deltas) - 1
      /\ \A i \in DOMAIN D : D[i] = deltas[i + 1]
      /\ Head(deltas) = deltas[1] /\ n \in Name /\ 1 \in DOMAIN deltas
      /\ C[n] = Head(deltas).val /\ \A m \in Name \ {n} : C[m] = cached[m]
      /\ DOMAIN actual = Name
  <2> DEFINE Ds == [name : Name, val : Val, initial : BOOLEAN]
  <2>1. \A y \in Ds : y.name \in Name /\ y.val \in Val
    OBVIOUS
  <2> HIDE DEF Ds
  <2>2. deltas \in Seq(Ds)
    BY DEF Ds
  <2>3. /\ DOMAIN deltas = 1 .. Len(deltas) /\ Len(deltas) \in Nat \ {0}
        /\ 1 \in DOMAIN deltas /\ Head(deltas) = deltas[1] /\ Head(deltas) \in Ds
    BY <2>2
  <2>4. DOMAIN D = 1 .. Len(deltas) - 1 /\ \A i \in DOMAIN D : D[i] = deltas[i + 1]
    BY <2>2, <2>3
  <2> QED
    BY <2>1, <2>3, <2>4
<1> HIDE DEF D, C, n
<1>2. ASSUME NEW i \in DOMAIN D, \A j \in DOMAIN D : j > i => D[j].name # D[i].name
      PROVE  D[i].val = actual[D[i].name]
  <2>1. i + 1 \in DOMAIN deltas /\ D[i] = deltas[i + 1]
    BY <1>1
  <2>2. ASSUME NEW j \in DOMAIN deltas, j > i + 1
        PROVE  deltas[j].name # deltas[i + 1].name
    <3>1. j - 1 \in DOMAIN D /\ j - 1 > i /\ D[j - 1] = deltas[j]
      BY <1>1, <2>2
    <3> QED
      BY <1>2, <2>1, <3>1
  <2> QED
    BY <2>1, <2>2 DEF Follows
<1>3. ASSUME NEW m \in Name, \A i \in DOMAIN D : D[i].name # m
      PROVE  C[m] = actual[m]
  <2>1. \A j \in DOMAIN deltas : j > 1 => deltas[j].name # m
    <3> SUFFICES ASSUME NEW j \in DOMAIN deltas, j > 1 PROVE deltas[j].name # m
      OBVIOUS
    <3>1. j - 1 \in DOMAIN D /\ D[j - 1] = deltas[j]
      BY <1>1
    <3> QED
      BY <1>3, <3>1
  <2>2. CASE m = n
    <3>1. deltas[1].name = m
      BY <1>1, <2>2 DEF n
    <3>2. deltas[1].val = actual[m]
      BY <1>1, <2>1, <3>1 DEF Follows
    <3> QED
      BY <1>1, <2>2, <3>2
  <2>3. CASE m # n
    <3>1. \A j \in DOMAIN deltas : deltas[j].name # m
      BY <1>1, <2>1, <2>3 DEF n
    <3> QED
      BY <1>1, <2>3, <3>1 DEF Follows
  <2> QED
    BY <2>2, <2>3
<1> QED
  BY <1>1, <1>2, <1>3 DEF Follows, D, C, n

-----------------------------------------------------------------------------
(* What steps write.                                                        *)

\* What users and the garbage collector may store where nobody points a VPA elsewhere.
OthersStore(v, val) ==
    \/ val = Absent \/ ~val.managed
    \/ /\ Exists(api, "vpa", v) /\ val.managed = api.vpa[v].managed
       /\ val.owner = api.vpa[v].owner /\ val.target = api.vpa[v].target

\* Nobody but a worker puts the label on a VPA.
LEMMA OtherWrites ==
    ASSUME TypeOK, WritesInv, NEW v \in VPANames,
           UserCreatesVPA(v) \/ UserDeletesVPA(v) \/ UserEditsVPA(v) \/ CollectGarbage(v)
    PROVE  /\ UNCHANGED <<cache, notifs, running, q, worker, dropped, nextUid>>
           /\ steps'.allowed = steps.allowed
           /\ \E val \in Slot("vpa") : Store("vpa", v, val) /\ OthersStore(v, val)
BY UserWritesVPA DEF UsersStore, OthersStore, WritesInv, ObjectsOwn

\* A step but a delivery, a broken watch or a restart writes one object or none.
LEMMA ObjectWrites ==
    ASSUME TypeOK, WritesInv, [Next]_vars,
           ~Restart, \A k \in Kinds : ~Deliver(k) /\ ~Relist(k)
    PROVE  /\ cache' = cache /\ steps'.allowed = steps.allowed
           /\ \/ UNCHANGED <<api, watch>>
              \/ \E k \in Kinds : \E n \in Names[k] : \E val \in Slot(k) : Store(k, n, val)
<1>1. ASSUME NEW w \in Workers, WorkerStep(w)
      PROVE  /\ cache' = cache /\ steps'.allowed = steps.allowed
             /\ \/ UNCHANGED <<api, watch>>
                \/ \E k \in Kinds : \E n \in Names[k] : \E val \in Slot(k) : Store(k, n, val)
  BY <1>1, WorkerWrites, VPASlots
<1>2. ASSUME NEW v \in VPANames,
             UserCreatesVPA(v) \/ UserDeletesVPA(v) \/ UserEditsVPA(v) \/ CollectGarbage(v)
      PROVE  /\ cache' = cache /\ steps'.allowed = steps.allowed
             /\ \E k \in Kinds : \E n \in Names[k] : \E val \in Slot(k) : Store(k, n, val)
  BY <1>2, OtherWrites, VPASlots
<1>3. ASSUME NEW k \in UserKinds, NEW n \in Names[k], UserWrites(k, n)
      PROVE  /\ cache' = cache /\ steps'.allowed = steps.allowed
             /\ \E val \in Slot(k) : Store(k, n, val)
  <2>1. PICK val \in UserValues(k, n) : Store(k, n, val)
    BY <1>3 DEF UserWrites
  <2>2. steps'.allowed = steps.allowed /\ cache' = cache
    BY <1>3, SpendAllows DEF UserWrites
  <2> QED
    BY <2>1, <2>2, UserValuesType
<1>4. CASE WaitForCacheSync \/ UNCHANGED vars \/ (\E k \in Kinds : Handle(k))
           \/ (\E key \in Deployments : Retry(key))
  BY <1>4 DEF WaitForCacheSync, Handle, Retry, vars
<1>5. CASE Environment
  BY <1>2, <1>3, <1>5 DEF Environment, UserKinds
<1> QED
  BY <1>1, <1>2, <1>4, <1>5 DEF Next

\* A write is the last change of its object.
LEMMA StoreFollows ==
    ASSUME TypeOK, StreamsInv, NEW k \in Kinds, NEW n \in Names[k], NEW val \in Slot(k),
           Store(k, n, val), cache' = cache
    PROVE  \A x \in Kinds : Follows(watch'[x], cache'[x], api'[x])
<1>1. ASSUME NEW x \in Kinds, x # k
      PROVE  watch'[x] = watch[x] /\ api'[x] = api[x]
  BY <1>1 DEF Store, TypeOK, IsView
<1>2. api'[k] = [api[k] EXCEPT ![n] = val]
  BY DEF Store, TypeOK, IsView
<1>3. Follows(watch[k], cache[k], api[k])
  BY DEF StreamsInv
<1>4. Follows(watch'[k], cache[k], api'[k])
  <2>1. CASE api[k][n] = val
    <3>1. watch' = watch
      BY <2>1 DEF Store
    <3>2. api'[k] = api[k]
      BY <1>2, <2>1, KindTypes
    <3> QED
      BY <1>3, <3>1, <3>2
  <2>2. CASE api[k][n] # val
    <3>1. watch'[k] = Append(watch[k], [name |-> n, val |-> val, initial |-> FALSE])
      BY <2>2 DEF Store, TypeOK
    <3>2. Follows(Append(watch[k], [name |-> n, val |-> val, initial |-> FALSE]), cache[k],
                  [api[k] EXCEPT ![n] = val])
      BY <1>3, KindTypes, FollowsAppend DEF Delta
    <3> QED
      BY <1>2, <3>1, <3>2
  <2> QED
    BY <2>1, <2>2
<1> QED
  BY <1>1, <1>4 DEF StreamsInv

\* What a delivery does to the cache and the watches.
LEMMA DeliverParts ==
    ASSUME TypeOK, NEW k \in Kinds, Deliver(k)
    PROVE  LET d == Head(watch[k])
           IN  /\ watch[k] # <<>> /\ watch[k][1] = d /\ 1 \in DOMAIN watch[k]
               /\ d.name \in Names[k] /\ d.val \in Slot(k)
               /\ watch'[k] = Tail(watch[k])
               /\ cache'[k] = [cache[k] EXCEPT ![d.name] = d.val]
               /\ \A x \in Kinds \ {k} : watch'[x] = watch[x] /\ cache'[x] = cache[x]
<1>1. watch[k] # <<>> /\ watch[k] \in Seq(Delta(k))
  BY KindTypes DEF Deliver
<1>2. Head(watch[k]) \in Delta(k) /\ watch[k][1] = Head(watch[k]) /\ 1 \in DOMAIN watch[k]
  BY <1>1
<1>3. Head(watch[k]).name \in Names[k] /\ Head(watch[k]).val \in Slot(k)
  BY <1>2 DEF Delta
<1> HIDE DEF Delta
<1>4. watch'[k] = Tail(watch[k]) /\ \A x \in Kinds \ {k} : watch'[x] = watch[x]
  BY DEF Deliver, TypeOK
<1>5. cache'[k] = [cache[k] EXCEPT ![Head(watch[k]).name] = Head(watch[k]).val]
      /\ \A x \in Kinds \ {k} : cache'[x] = cache[x]
  BY DEF Deliver, TypeOK, IsView
<1> QED
  BY <1>1, <1>2, <1>3, <1>4, <1>5

\* At the start and after a restart.
LEMMA InitialFollows ==
    ASSUME NEW view, IsView(view), NEW k \in Kinds
    PROVE  Follows(InitialList(view, k), EmptyView[k], view[k])
<1> DEFINE list == InitialList(view, k)
<1>1. /\ \A i \in DOMAIN list : list[i].val = view[k][list[i].name]
      /\ \A n \in Names[k] : Exists(view, k, n) => \E i \in DOMAIN list : list[i].name = n
  BY InitialListParts
<1>2. DOMAIN view[k] = Names[k] /\ \A n \in Names[k] : EmptyView[k][n] = Absent
  BY DEF IsView, EmptyView
<1> HIDE DEF list
<1> QED
  BY <1>1, <1>2 DEF Follows, Exists, list

\* Whatever the watcher has not seen is on its way, last changes last.
LEMMA StreamsStep ==
    ASSUME TypeOK, WritesInv, StreamsInv, [Next]_vars
    PROVE  StreamsInv'
<1>1. CASE Restart
  <2>1. steps'.allowed = steps.allowed
    BY <1>1, SpendAllows DEF Restart
  <2>2. \A k \in Kinds : watch'[k] = InitialList(api, k) /\ cache' = EmptyView /\ api' = api
    BY <1>1 DEF Restart
  <2>3. \A k \in Kinds : Follows(watch'[k], cache'[k], api'[k])
    BY <2>2, InitialFollows DEF TypeOK
  <2> QED
    BY <2>1, <2>3 DEF StreamsInv
<1>2. ASSUME NEW k \in Kinds, Deliver(k)
      PROVE  StreamsInv'
  <2>1. UNCHANGED <<api, steps>>
    BY <1>2 DEF Deliver
  <2>2. Follows(watch'[k], cache'[k], api[k])
    <3>1. Follows(watch[k], cache[k], api[k])
      BY DEF StreamsInv
    <3>2. /\ watch[k] \in Seq([name : Names[k], val : Slot(k), initial : BOOLEAN])
          /\ cache[k] \in [Names[k] -> Slot(k)] /\ api[k] \in [Names[k] -> Slot(k)]
      BY KindTypes DEF Delta
    <3>3. watch[k] # <<>> /\ watch'[k] = Tail(watch[k])
          /\ cache'[k] = [cache[k] EXCEPT ![Head(watch[k]).name] = Head(watch[k]).val]
      BY <1>2, DeliverParts
    <3>4. Follows(Tail(watch[k]), [cache[k] EXCEPT ![Head(watch[k]).name] = Head(watch[k]).val], api[k])
      BY <3>1, <3>2, <3>3, FollowsTail
    <3> QED
      BY <3>3, <3>4
  <2>3. \A x \in Kinds \ {k} : Follows(watch'[x], cache'[x], api[x])
    BY <1>2, DeliverParts DEF StreamsInv
  <2> QED
    BY <2>1, <2>2, <2>3 DEF StreamsInv
<1>3. ASSUME NEW k \in Kinds, Relist(k)
      PROVE  FALSE
  BY <1>3 DEF Relist, Spend, StreamsInv
<1>4. CASE ~Restart /\ \A k \in Kinds : ~Deliver(k) /\ ~Relist(k)
  BY <1>4, ObjectWrites, StoreFollows DEF StreamsInv
<1> QED
  BY <1>1, <1>2, <1>3, <1>4

-----------------------------------------------------------------------------
(* Namespaces.                                                              *)

\* Every Deployment's namespace exists, and is in the cache when workers run.
NamespacesInv ==
    /\ \A d \in Deployments :
          /\ Exists(api, "namespace", NamespaceOf[d])
          /\ \/ Exists(cache, "namespace", NamespaceOf[d])
             \/ \E i \in DOMAIN watch.namespace :
                   watch.namespace[i].initial /\ watch.namespace[i].name = NamespaceOf[d]
    /\ \A i \in DOMAIN watch.namespace : watch.namespace[i].val # Absent
    /\ running => \A d \in Deployments : Exists(cache, "namespace", NamespaceOf[d])

\* Nothing happened to namespaces.
LEMMA NamespacesSame ==
    ASSUME NamespacesInv, api'.namespace = api.namespace, cache'.namespace = cache.namespace,
           watch'.namespace = watch.namespace, running' = running
    PROVE  NamespacesInv'
BY DEF NamespacesInv, Exists

\* A namespace is created.
LEMMA NamespaceStored ==
    ASSUME TypeOK, NamespacesInv, NEW n \in Namespaces, NEW val \in Slot("namespace"), val # Absent,
           Store("namespace", n, val), cache' = cache, running' = running
    PROVE  NamespacesInv'
<1> DEFINE x == [name |-> n, val |-> val, initial |-> FALSE]
<1>1. "namespace" \in Kinds /\ Names["namespace"] = Namespaces
  BY DEF Kinds, Names
<1>2. api'.namespace = [api.namespace EXCEPT ![n] = val]
  BY <1>1 DEF Store, TypeOK, IsView
<1>3. \A m \in Namespaces : Exists(api, "namespace", m) => Exists(api', "namespace", m)
  BY <1>1, <1>2, KindTypes DEF Exists
<1>4. watch.namespace \in Seq(Delta("namespace")) /\ x \in Delta("namespace")
  BY <1>1, KindTypes DEF Delta
<1>5. watch'.namespace = watch.namespace \/ watch'.namespace = Append(watch.namespace, x)
  BY <1>1 DEF Store, TypeOK
<1> HIDE DEF x
<1>6. /\ \A i \in DOMAIN watch.namespace :
            i \in DOMAIN watch'.namespace /\ watch'.namespace[i] = watch.namespace[i]
      /\ \A i \in DOMAIN watch'.namespace :
            \/ i \in DOMAIN watch.namespace /\ watch'.namespace[i] = watch.namespace[i]
            \/ watch'.namespace[i] = x
  BY <1>4, <1>5
<1>7. x.val # Absent
  BY DEF x
<1> QED
  BY <1>3, <1>6, <1>7, ObjectsAssumption DEF NamespacesInv, Exists

\* A namespace reaches the cache.
LEMMA NamespaceDelivered ==
    ASSUME TypeOK, NamespacesInv, Deliver("namespace")
    PROVE  NamespacesInv'
<1> DEFINE x == Head(watch.namespace)
<1>1. "namespace" \in Kinds /\ Names["namespace"] = Namespaces
  BY DEF Kinds, Names
<1>2. /\ watch.namespace # <<>> /\ watch.namespace[1] = x /\ 1 \in DOMAIN watch.namespace
      /\ x.name \in Namespaces
      /\ watch'.namespace = Tail(watch.namespace)
      /\ cache'.namespace = [cache.namespace EXCEPT ![x.name] = x.val]
  BY <1>1, DeliverParts
<1>3. watch.namespace \in Seq(Delta("namespace"))
      /\ cache.namespace \in [Namespaces -> Slot("namespace")]
  BY <1>1, KindTypes
<1> HIDE DEF x
<1>4. /\ \A i \in DOMAIN watch.namespace : i # 1 =>
            i - 1 \in DOMAIN watch'.namespace /\ watch'.namespace[i - 1] = watch.namespace[i]
      /\ \A i \in DOMAIN watch'.namespace :
            i + 1 \in DOMAIN watch.namespace /\ watch'.namespace[i] = watch.namespace[i + 1]
  BY <1>2, <1>3
<1>5. UNCHANGED <<api, running>> /\ x.val # Absent
  BY <1>2 DEF Deliver, NamespacesInv
<1>6. \A m \in Namespaces : Exists(cache, "namespace", m) \/ m = x.name => Exists(cache', "namespace", m)
  BY <1>2, <1>3, <1>5 DEF Exists
<1>7. ASSUME NEW d \in Deployments
      PROVE  \/ Exists(cache', "namespace", NamespaceOf[d])
             \/ \E i \in DOMAIN watch'.namespace :
                   watch'.namespace[i].initial /\ watch'.namespace[i].name = NamespaceOf[d]
  <2>1. NamespaceOf[d] \in Namespaces
    BY ObjectsAssumption
  <2>2. CASE Exists(cache, "namespace", NamespaceOf[d])
    BY <1>6, <2>1, <2>2
  <2>3. ASSUME NEW i \in DOMAIN watch.namespace,
               watch.namespace[i].initial, watch.namespace[i].name = NamespaceOf[d], i # 1
        PROVE  \E j \in DOMAIN watch'.namespace :
                  watch'.namespace[j].initial /\ watch'.namespace[j].name = NamespaceOf[d]
    BY <1>4, <2>3
  <2>4. CASE watch.namespace[1].name = NamespaceOf[d]
    BY <1>2, <1>6, <2>1, <2>4
  <2> QED
    BY <2>2, <2>3, <2>4 DEF NamespacesInv
<1> QED
  BY <1>4, <1>5, <1>6, <1>7, ObjectsAssumption DEF NamespacesInv

\* The namespaces of Deployments are there to stay.
LEMMA NamespacesStep ==
    ASSUME TypeOK, WritesInv, StreamsInv, NamespacesInv, [Next]_vars
    PROVE  NamespacesInv'
<1>0. "namespace" \in Kinds /\ Names["namespace"] = Namespaces /\ "namespace" # "vpa"
      /\ Present # Absent /\ Present \in Slot("namespace")
  BY AbsentAssumption DEF Kinds, Names, Values, Slot
<1>1. CASE Restart
  <2> DEFINE list == InitialList(api, "namespace")
  <2>1. watch'.namespace = list /\ api' = api /\ ~running'
    BY <1>0, <1>1 DEF Restart
  <2>2. /\ \A i \in DOMAIN list :
              list[i].initial /\ Exists(api, "namespace", list[i].name)
              /\ list[i].val = api.namespace[list[i].name]
        /\ \A n \in Namespaces : Exists(api, "namespace", n) =>
              \E i \in DOMAIN list : list[i].name = n
    BY <1>0, InitialListParts DEF TypeOK
  <2> HIDE DEF list
  <2> QED
    BY <2>1, <2>2, ObjectsAssumption DEF NamespacesInv, Exists
<1>2. ASSUME NEW k \in Kinds, Deliver(k)
      PROVE  NamespacesInv'
  <2>1. CASE k # "namespace"
    <3>1. UNCHANGED <<api, running>>
      BY <1>2 DEF Deliver
    <3> QED
      BY <1>0, <1>2, <2>1, <3>1, DeliverParts, NamespacesSame
  <2> QED
    BY <1>2, <2>1, NamespaceDelivered
<1>3. ASSUME NEW k \in Kinds, Relist(k)
      PROVE  FALSE
  BY <1>3 DEF Relist, Spend, StreamsInv
<1>4. CASE WaitForCacheSync
  <2>1. HasSynced("namespace") /\ UNCHANGED <<api, watch, cache>>
    BY <1>0, <1>4 DEF WaitForCacheSync
  <2>2. \A d \in Deployments : Exists(cache, "namespace", NamespaceOf[d])
    BY <2>1 DEF NamespacesInv, HasSynced
  <2> QED
    BY <2>1, <2>2 DEF NamespacesInv
<1>5. ASSUME NEW k \in UserKinds, NEW n \in Names[k], UserWrites(k, n)
      PROVE  NamespacesInv'
  <2>1. PICK val \in UserValues(k, n) : Store(k, n, val)
    BY <1>5 DEF UserWrites
  <2>2. cache' = cache /\ running' = running /\ k \in Kinds
    BY <1>5 DEF UserWrites, UserKinds
  <2>3. CASE k = "namespace"
    BY <1>0, <1>5, <2>1, <2>2, <2>3, NamespaceStored DEF UserValues
  <2>4. CASE k # "namespace"
    <3>1. api'.namespace = api.namespace /\ watch'.namespace = watch.namespace
      BY <1>0, <2>1, <2>2, <2>4 DEF Store, TypeOK, IsView
    <3> QED
      BY <2>2, <3>1, NamespacesSame
  <2> QED
    BY <2>3, <2>4
<1>6. ASSUME NEW v, NEW val, Store("vpa", v, val), cache' = cache, running' = running
      PROVE  NamespacesInv'
  <2>1. api'.namespace = api.namespace /\ watch'.namespace = watch.namespace
    BY <1>0, <1>6 DEF Store, TypeOK, IsView
  <2> QED
    BY <1>6, <2>1, NamespacesSame
<1>7. ASSUME NEW w \in Workers, WorkerStep(w)
      PROVE  NamespacesInv'
  BY <1>6, <1>7, WorkerWrites, NamespacesSame
<1>8. ASSUME NEW v \in VPANames,
             UserCreatesVPA(v) \/ UserDeletesVPA(v) \/ UserEditsVPA(v) \/ CollectGarbage(v)
      PROVE  NamespacesInv'
  BY <1>6, <1>8, OtherWrites
<1>9. CASE UNCHANGED vars \/ (\E k \in Kinds : Handle(k)) \/ (\E key \in Deployments : Retry(key))
  BY <1>9, NamespacesSame DEF Handle, Retry, vars
<1>10. CASE Environment
  BY <1>1, <1>3, <1>5, <1>8, <1>10 DEF Environment
<1> QED
  BY <1>2, <1>4, <1>7, <1>8, <1>9, <1>10 DEF Next

-----------------------------------------------------------------------------
(* UIDs.                                                                    *)

\* The UID is one of the Deployment d, of today or of the past.
Belongs(u, d) == u \in 1 .. nextUid - 1 /\ OnlyOf(api, d, u)

DeploymentUids ==
    /\ \A d \in Deployments :
          /\ Exists(api, "deployment", d) => Belongs(api.deployment[d].uid, d)
          /\ Exists(cache, "deployment", d) => Belongs(cache.deployment[d].uid, d)
    /\ \A i \in DOMAIN watch.deployment :
          watch.deployment[i].val # Absent =>
              Belongs(watch.deployment[i].val.uid, watch.deployment[i].name)

OwnerUid(x) == x # Absent /\ x.managed => Belongs(x.owner, x.target)

WorkerUid(s) == s.pc \in {"list", "create", "patch"} => Belongs(s.uid, s.key)

\* No UID a worker or a generated VPA has is another Deployment's.
UidsInv ==
    /\ DeploymentUids
    /\ \A v \in VPANames : OwnerUid(api.vpa[v])
    /\ \A w \in Workers : WorkerUid(worker[w])

\* The Deployments of a view.
LEMMA DeploymentSlots ==
    /\ "deployment" \in Kinds /\ Names["deployment"] = Deployments /\ "deployment" # "vpa"
    /\ Slot("deployment") = [uid : Nat \ {0}] \cup {Absent} /\ Absent \notin [uid : Nat \ {0}]
    /\ TypeOK => /\ api.deployment \in [Deployments -> [uid : Nat \ {0}] \cup {Absent}]
                 /\ cache.deployment \in [Deployments -> [uid : Nat \ {0}] \cup {Absent}]
                 /\ watch.deployment \in Seq(Delta("deployment"))
<1>1. /\ "deployment" \in Kinds /\ Names["deployment"] = Deployments
      /\ Slot("deployment") = [uid : Nat \ {0}] \cup {Absent}
      /\ Values["deployment"] = [uid : Nat \ {0}]
  BY DEF Kinds, Names, Slot, Values
<1> QED
  BY <1>1, AbsentAssumption, KindTypes

\* Which UIDs belong to whom depends on the Deployments alone.
LEMMA BelongsSame ==
    ASSUME api'.deployment = api.deployment, nextUid' = nextUid
    PROVE  \A u, d : Belongs(u, d)' <=> Belongs(u, d)
BY DEF Belongs, OnlyOf, Exists

\* Nothing happened to Deployments.
LEMMA DeploymentUidsSame ==
    ASSUME DeploymentUids, api'.deployment = api.deployment, nextUid' = nextUid,
           cache'.deployment = cache.deployment, watch'.deployment = watch.deployment
    PROVE  DeploymentUids'
BY BelongsSame DEF DeploymentUids, Exists

\* A worker takes its UID from the cache and keeps it.
LEMMA WorkerUidStep ==
    ASSUME TypeOK, UidsInv, NEW w \in Workers, WorkerStep(w)
    PROVE  \A x \in Workers : WorkerUid(worker'[x])
<1> DEFINE s == worker[w]
<1>1. s \in WorkerState /\ WorkerFits(s) /\ WorkerUid(s)
  BY DEF TypeOK, UidsInv
<1>2. ASSUME NEW t, WorkerUid(t), worker' = [worker EXCEPT ![w] = t]
      PROVE  \A x \in Workers : WorkerUid(worker'[x])
  BY <1>2 DEF TypeOK, UidsInv
<1>3. CASE ProcessNextWorkItem(w)
  <2> DEFINE t == [s EXCEPT !.pc = "decide", !.key = Head(q.fifo)]
  <2>1. WorkerUid(t) /\ worker' = [worker EXCEPT ![w] = t]
    BY <1>1, <1>3 DEF ProcessNextWorkItem, WorkerUid, WorkerState, TypeOK
  <2> HIDE DEF t
  <2> QED
    BY <1>2, <2>1
<1>4. CASE Decide(w)
  <2>1. CASE worker' = [worker EXCEPT ![w].pc = "finish"]
    <3> DEFINE t == [s EXCEPT !.pc = "finish"]
    <3>1. WorkerUid(t) /\ worker' = [worker EXCEPT ![w] = t]
      BY <1>1, <2>1 DEF WorkerUid, WorkerState, TypeOK
    <3> HIDE DEF t
    <3> QED
      BY <1>2, <3>1
  <2>2. ASSUME Exists(cache, "deployment", s.key), NEW dec,
               worker' = [worker EXCEPT
                     ![w].pc     = IF dec.kind = "error" THEN "finish" ELSE "list",
                     ![w].failed = dec.kind = "error",
                     ![w].uid    = cache.deployment[s.key].uid,
                     ![w].config = dec.config]
        PROVE  \A x \in Workers : WorkerUid(worker'[x])
    <3> DEFINE t == [s EXCEPT
                       !.pc     = IF dec.kind = "error" THEN "finish" ELSE "list",
                       !.failed = dec.kind = "error",
                       !.uid    = cache.deployment[s.key].uid,
                       !.config = dec.config]
    <3>1. t.uid = cache.deployment[s.key].uid /\ t.key = s.key
      BY <1>1 DEF WorkerState
    <3>2. worker' = [worker EXCEPT ![w] = t]
      BY <2>2 DEF TypeOK
    <3> HIDE DEF t
    <3>3. s.key \in Deployments
      BY <1>1, <1>4 DEF Decide, WorkerFits
    <3>4. WorkerUid(t)
      BY <2>2, <3>1, <3>3 DEF WorkerUid, UidsInv, DeploymentUids
    <3> QED
      BY <1>2, <3>2, <3>4
  <2> QED
    BY <1>4, <2>1, <2>2 DEF Decide
<1>5. CASE List(w)
  <2> DEFINE d       == s.key
             name    == NameForDeployment(d)
             managed == ManagedVPAs(cache, d)
             others  == managed \ {name}
             remove  == [s EXCEPT !.pc = "remove", !.doomed = EnsureNoGenerated(cache, d)]
             create  == [s EXCEPT !.pc = "create", !.doomed = others]
             cleanup == [s EXCEPT !.pc = "cleanup", !.doomed = others]
             patch   == [s EXCEPT !.pc = "patch", !.doomed = others, !.base = cache.vpa[name]]
             manual  == ListForDeployment(cache, d) \ managed
  <2>1. \A t \in {remove, create, cleanup, patch} : t.uid = s.uid /\ t.key = s.key
    BY <1>1 DEF WorkerState
  <2>2. Belongs(s.uid, s.key)
    BY <1>1, <1>5 DEF List, WorkerUid
  <2> HIDE DEF remove, create, cleanup, patch
  <2>3. \E t \in {remove, create, cleanup, patch} : worker' = [worker EXCEPT ![w] = t]
    <3>1. CASE s.config = None \/ manual # {}
      BY <1>5, <3>1 DEF List, TypeOK, remove
    <3>2. CASE s.config # None /\ manual = {} /\ name \notin managed
      BY <1>5, <3>2 DEF List, TypeOK, create
    <3>3. CASE s.config # None /\ manual = {} /\ name \in managed
      BY <1>5, <3>3 DEF List, TypeOK, cleanup, patch
    <3> QED
      BY <3>1, <3>2, <3>3
  <2> QED
    BY <1>2, <2>1, <2>2, <2>3 DEF WorkerUid
<1>6. ASSUME NEW t, t.pc \notin {"list", "create", "patch"}, worker' = [worker EXCEPT ![w] = t]
      PROVE  \A x \in Workers : WorkerUid(worker'[x])
  BY <1>2, <1>6 DEF WorkerUid
<1>7. ASSUME NEW v, NEW val, NEW ok, NEW err, CallAPI(w, v, val, ok, err),
             ok.pc \notin {"list", "create", "patch"}, err.pc \notin {"list", "create", "patch"}
      PROVE  \A x \in Workers : WorkerUid(worker'[x])
  BY <1>6, <1>7 DEF CallAPI
<1>8. \A failed \in BOOLEAN : CleanUp(w, failed).pc = "cleanup"
  BY <1>1 DEF CleanUp, WorkerState
<1>9. CASE ApplyVPA(w)
  BY <1>6, <1>7, <1>8, <1>9 DEF ApplyVPA
<1>10. CASE PatchVPA(w)
  <2>1. [worker[w] EXCEPT !.pc = "outdated", !.base = None].pc = "outdated"
    BY <1>1 DEF WorkerState
  <2> QED
    BY <1>6, <1>7, <1>8, <1>10, <2>1 DEF PatchVPA
<1>11. CASE DeleteOutdated(w)
  BY <1>7, <1>8, <1>11 DEF DeleteOutdated, DeleteVPA
<1>12. CASE DeleteOthers(w)
  <2>1. PICK v \in s.doomed :
           DeleteVPA(w, v, [s EXCEPT !.doomed = @ \ {v}],
                           [[s EXCEPT !.doomed = @ \ {v}] EXCEPT !.failed = TRUE])
    BY <1>12 DEF DeleteOthers
  <2>2. [s EXCEPT !.doomed = @ \ {v}].pc = "cleanup"
        /\ [[s EXCEPT !.doomed = @ \ {v}] EXCEPT !.failed = TRUE].pc = "cleanup"
    BY <1>1, <1>12 DEF WorkerState, DeleteOthers
  <2> QED
    BY <1>7, <2>1, <2>2 DEF DeleteVPA
<1>13. CASE DeleteGenerated(w)
  <2>1. PICK v \in s.doomed :
           DeleteVPA(w, v, [s EXCEPT !.doomed = @ \ {v}],
                           [s EXCEPT !.doomed = {}, !.failed = TRUE])
    BY <1>13 DEF DeleteGenerated
  <2>2. [s EXCEPT !.doomed = @ \ {v}].pc = "remove"
        /\ [s EXCEPT !.doomed = {}, !.failed = TRUE].pc = "remove"
    BY <1>1, <1>13 DEF WorkerState, DeleteGenerated
  <2> QED
    BY <1>7, <2>1, <2>2 DEF DeleteVPA
<1>14. CASE FinishWorkItem(w)
  BY <1>6, <1>14 DEF FinishWorkItem, Idle
<1> QED
  BY <1>3, <1>4, <1>5, <1>9, <1>10, <1>11, <1>12, <1>13, <1>14 DEF WorkerStep

\* What a worker stores is owned by the Deployment it targets.
LEMMA StoredOwner ==
    ASSUME DistinctNames, TypeOK, WritesInv, UidsInv, NEW w \in Workers, NEW v \in VPANames,
           NEW val, WorkerStores(w, v, val)
    PROVE  OwnerUid(val)
<1> DEFINE s == worker[w]
<1>1. s \in WorkerState /\ WorkerFits(s) /\ WorkerUid(s) /\ HoldsOwn(s)
  BY DEF TypeOK, UidsInv, WritesInv
<1>2. Desired(w).managed /\ Desired(w).target = s.key /\ Desired(w).owner = s.uid
  BY DEF Desired, GenerateVPAForDeployment
<1>3. CASE val = Absent
  BY <1>3 DEF OwnerUid
<1>4. CASE s.pc \in {"create", "patch"} /\ val = Desired(w)
  BY <1>1, <1>2, <1>4 DEF OwnerUid, WorkerUid
<1>5. CASE /\ s.pc = "patch" /\ v = GeneratedName[s.key] /\ Exists(api, "vpa", v)
           /\ val = MergePatch(s.base, Desired(w), api.vpa[v])
  <2>1. s.base \in VPA /\ s.base.managed /\ s.base.target = s.key /\ s.key \in Deployments
        /\ Belongs(s.uid, s.key)
    BY <1>1, <1>5 DEF WorkerFits, HoldsOwn, WorkerUid
  <2>2. api.vpa[v] \in VPA /\ api.vpa[v] # Absent /\ Own(v, api.vpa[v]) /\ OwnerUid(api.vpa[v])
    BY <1>5, VPASlots DEF Exists, WritesInv, ObjectsOwn, UidsInv
  <2>3. /\ val.managed = api.vpa[v].managed /\ val.target = api.vpa[v].target
        /\ val.owner \in {api.vpa[v].owner, s.uid}
    <3>1. DOMAIN api.vpa[v] = {"managed", "target", "policy", "mode", "owner"}
      BY <2>2 DEF VPA
    <3> QED
      BY <1>2, <1>5, <2>1, <3>1 DEF MergePatch
  <2>4. api.vpa[v].managed => api.vpa[v].target = s.key
    BY <1>5, <2>1, <2>2 DEF Own, DistinctNames
  <2> QED
    BY <2>1, <2>2, <2>3, <2>4 DEF OwnerUid
<1> QED
  BY <1>3, <1>4, <1>5 DEF WorkerStores

\* A VPA is written.
LEMMA OwnersStored ==
    ASSUME TypeOK, UidsInv, NEW v \in VPANames, NEW val, OwnerUid(val), Store("vpa", v, val),
           nextUid' = nextUid, cache' = cache
    PROVE  DeploymentUids' /\ \A x \in VPANames : OwnerUid(api.vpa[x])'
<1>1. api'.deployment = api.deployment /\ watch'.deployment = watch.deployment
      /\ api'.vpa = [api.vpa EXCEPT ![v] = val]
  BY VPASlots, DeploymentSlots DEF Store, TypeOK, IsView
<1>2. DeploymentUids'
  BY <1>1, DeploymentUidsSame DEF UidsInv
<1>3. \A x \in VPANames : OwnerUid(api'.vpa[x])
  BY <1>1, VPASlots DEF UidsInv
<1>4. \A x \in VPANames : OwnerUid(api.vpa[x])' <=> OwnerUid(api'.vpa[x])
  BY <1>1, BelongsSame DEF OwnerUid
<1> QED
  BY <1>2, <1>3, <1>4

\* Owners and workers keep their UIDs.
LEMMA UidsKept ==
    ASSUME UidsInv, DeploymentUids', api'.vpa = api.vpa, worker' = worker,
           \A d : \A u : Belongs(u, d) => Belongs(u, d)'
    PROVE  UidsInv'
<1>1. \A v \in VPANames : OwnerUid(api.vpa[v])'
  BY DEF UidsInv, OwnerUid
<1>2. \A w \in Workers : WorkerUid(worker[w])'
  BY DEF UidsInv, WorkerUid
<1> QED
  BY <1>1, <1>2 DEF UidsInv

\* A Deployment is created or deleted.
LEMMA DeploymentStored ==
    ASSUME TypeOK, UidsInv, NEW n \in Deployments, UserWrites("deployment", n)
    PROVE  UidsInv'
<1>1. PICK val \in UserValues("deployment", n) :
        /\ Store("deployment", n, val)
        /\ nextUid' = IF val # Absent THEN nextUid + 1 ELSE nextUid
  BY DEF UserWrites
<1>2. cache' = cache /\ worker' = worker
  BY DEF UserWrites
<1>3. \/ val = Absent
      \/ val = [uid |-> nextUid] /\ nextUid' = nextUid + 1 /\ val # Absent
  <2>1. UserValues("deployment", n) \subseteq {Absent, [uid |-> nextUid]}
    BY DEF UserValues
  <2>2. [uid |-> nextUid] \in [uid : Nat \ {0}]
    BY DEF TypeOK
  <2> QED
    BY <1>1, <2>1, <2>2, DeploymentSlots
<1>4. nextUid \in Nat \ {0} /\ (nextUid' = nextUid \/ nextUid' = nextUid + 1)
  BY <1>1 DEF TypeOK
<1>5. api'.deployment = [api.deployment EXCEPT ![n] = val] /\ api'.vpa = api.vpa
  BY <1>1, VPASlots, DeploymentSlots DEF Store, TypeOK, IsView
<1>6. /\ api.deployment \in [Deployments -> [uid : Nat \ {0}] \cup {Absent}]
      /\ Absent \notin [uid : Nat \ {0}]
  BY DeploymentSlots
<1>7. ASSUME NEW d, NEW u, Belongs(u, d)
      PROVE  Belongs(u, d)'
  <2>1. u \in 1 .. nextUid' - 1
    BY <1>4, <1>7 DEF Belongs
  <2>2. ASSUME NEW e \in Deployments \ {d}, Exists(api', "deployment", e)
        PROVE  api'.deployment[e].uid # u
    <3>1. CASE e = n
      <4>1. api'.deployment[e] = [uid |-> nextUid]
        BY <1>3, <1>5, <1>6, <2>2, <3>1 DEF Exists
      <4> QED
        BY <1>4, <1>7, <4>1 DEF Belongs
    <3>2. CASE e # n
      BY <1>5, <1>6, <1>7, <2>2, <3>2 DEF Belongs, OnlyOf, Exists
    <3> QED
      BY <3>1, <3>2
  <2> QED
    BY <2>1, <2>2 DEF Belongs, OnlyOf
<1>8. val # Absent => Belongs(val.uid, n)'
  <2> SUFFICES ASSUME val # Absent PROVE Belongs(val.uid, n)'
    OBVIOUS
  <2>1. val.uid = nextUid /\ nextUid' = nextUid + 1
    BY <1>3
  <2>2. ASSUME NEW e \in Deployments \ {n}, Exists(api', "deployment", e)
        PROVE  api'.deployment[e].uid # val.uid
    <3>1. api'.deployment[e] = api.deployment[e] /\ Exists(api, "deployment", e)
      BY <1>5, <1>6, <2>2 DEF Exists
    <3>2. api.deployment[e].uid \in 1 .. nextUid - 1
      BY <3>1 DEF UidsInv, DeploymentUids, Belongs
    <3> QED
      BY <1>4, <2>1, <3>1, <3>2
  <2>3. val.uid \in 1 .. nextUid' - 1
    BY <1>4, <2>1
  <2> QED
    BY <2>2, <2>3 DEF Belongs, OnlyOf
<1>9. DeploymentUids'
  <2>1. ASSUME NEW d \in Deployments
        PROVE  /\ Exists(api', "deployment", d) => Belongs(api.deployment[d].uid, d)'
               /\ Exists(cache', "deployment", d) => Belongs(cache.deployment[d].uid, d)'
    <3>1. Exists(cache', "deployment", d) => Belongs(cache.deployment[d].uid, d)'
      BY <1>2, <1>7 DEF UidsInv, DeploymentUids, Exists
    <3>2. CASE d = n
      BY <1>5, <1>6, <1>8, <3>1, <3>2 DEF Exists
    <3>3. CASE d # n
      BY <1>5, <1>6, <1>7, <3>1, <3>3 DEF UidsInv, DeploymentUids, Exists
    <3> QED
      BY <3>2, <3>3
  <2>2. ASSUME NEW i \in DOMAIN watch'.deployment, watch'.deployment[i].val # Absent
        PROVE  Belongs(watch.deployment[i].val.uid, watch.deployment[i].name)'
    <3> DEFINE x == [name |-> n, val |-> val, initial |-> FALSE]
    <3>1. watch'.deployment = watch.deployment \/ watch'.deployment = Append(watch.deployment, x)
      BY <1>1, DeploymentSlots DEF Store, TypeOK
    <3>2. \/ i \in DOMAIN watch.deployment /\ watch'.deployment[i] = watch.deployment[i]
          \/ watch'.deployment[i] = x
      BY <3>1, DeploymentSlots
    <3> QED
      BY <1>7, <1>8, <2>2, <3>2 DEF UidsInv, DeploymentUids
  <2> QED
    BY <2>1, <2>2 DEF DeploymentUids
<1> QED
  BY <1>2, <1>5, <1>7, <1>9, UidsKept

\* A Deployment reaches the cache.
LEMMA DeploymentDelivered ==
    ASSUME TypeOK, UidsInv, NEW k \in Kinds, Deliver(k)
    PROVE  UidsInv'
<1>1. UNCHANGED <<api, worker, nextUid>>
  BY DEF Deliver
<1>2. \A u, d : Belongs(u, d)' <=> Belongs(u, d)
  BY <1>1, BelongsSame
<1>3. CASE k = "deployment"
  <2> DEFINE x == Head(watch.deployment)
  <2>1. /\ watch.deployment # <<>> /\ watch.deployment[1] = x /\ 1 \in DOMAIN watch.deployment
        /\ x.name \in Deployments
        /\ watch'.deployment = Tail(watch.deployment)
        /\ cache'.deployment = [cache.deployment EXCEPT ![x.name] = x.val]
    BY <1>3, DeliverParts, DeploymentSlots
  <2>2. \A i \in DOMAIN watch'.deployment :
            i + 1 \in DOMAIN watch.deployment /\ watch'.deployment[i] = watch.deployment[i + 1]
    BY <2>1, DeploymentSlots
  <2>3. x.val # Absent => Belongs(x.val.uid, x.name)
    BY <2>1 DEF UidsInv, DeploymentUids
  <2> HIDE DEF x
  <2>4. \A d \in Deployments : Exists(cache', "deployment", d) => Belongs(cache'.deployment[d].uid, d)
    BY <2>1, <2>3, DeploymentSlots DEF UidsInv, DeploymentUids, Exists
  <2>5. \A i \in DOMAIN watch'.deployment :
          watch'.deployment[i].val # Absent =>
              Belongs(watch'.deployment[i].val.uid, watch'.deployment[i].name)
    BY <2>2 DEF UidsInv, DeploymentUids
  <2>6. DeploymentUids'
    BY <1>1, <1>2, <2>4, <2>5 DEF UidsInv, DeploymentUids, Exists
  <2> QED
    BY <1>1, <1>2, <2>6, UidsKept
<1>4. CASE k # "deployment"
  <2>1. cache'.deployment = cache.deployment /\ watch'.deployment = watch.deployment
    BY <1>4, DeliverParts, DeploymentSlots
  <2>2. DeploymentUids'
    BY <1>1, <2>1, DeploymentUidsSame DEF UidsInv
  <2> QED
    BY <1>1, <1>2, <2>2, UidsKept
<1> QED
  BY <1>3, <1>4

\* UIDs stay apart.
LEMMA UidsStep ==
    ASSUME DistinctNames, TypeOK, WritesInv, StreamsInv, UidsInv, [Next]_vars
    PROVE  UidsInv'
<1>1. CASE Restart
  <2> DEFINE list == InitialList(api, "deployment")
  <2>1. watch'.deployment = list /\ api' = api /\ nextUid' = nextUid /\ cache' = EmptyView
        /\ \A w \in Workers : worker'[w] = Idle
    BY <1>1, DeploymentSlots DEF Restart
  <2>2. \A u, d : Belongs(u, d)' <=> Belongs(u, d)
    BY <2>1, BelongsSame
  <2>3. \A i \in DOMAIN list :
              /\ Exists(api, "deployment", list[i].name) /\ list[i].name \in Deployments
              /\ list[i].val = api.deployment[list[i].name]
    BY InitialListParts, DeploymentSlots DEF TypeOK
  <2> HIDE DEF list
  <2>4. \A d \in Deployments : ~Exists(EmptyView, "deployment", d)
    BY DeploymentSlots DEF EmptyView, Exists
  <2>5. DeploymentUids'
    BY <2>1, <2>2, <2>3, <2>4 DEF UidsInv, DeploymentUids
  <2>6. \A w \in Workers : WorkerUid(worker[w])'
    BY <2>1 DEF WorkerUid, Idle
  <2>7. \A v \in VPANames : OwnerUid(api.vpa[v])'
    BY <2>1, <2>2 DEF UidsInv, OwnerUid
  <2> QED
    BY <2>5, <2>6, <2>7 DEF UidsInv
<1>2. ASSUME NEW k \in Kinds, Deliver(k)
      PROVE  UidsInv'
  BY <1>2, DeploymentDelivered
<1>3. ASSUME NEW k \in Kinds, Relist(k)
      PROVE  FALSE
  BY <1>3 DEF Relist, Spend, StreamsInv
<1>4. ASSUME api'.deployment = api.deployment, api'.vpa = api.vpa, worker' = worker,
             nextUid' = nextUid, cache' = cache, watch'.deployment = watch.deployment
      PROVE  UidsInv'
  <2>1. DeploymentUids'
    BY <1>4, DeploymentUidsSame DEF UidsInv
  <2> QED
    BY <1>4, <2>1, UidsKept, BelongsSame
<1>5. ASSUME NEW k \in UserKinds, NEW n \in Names[k], UserWrites(k, n)
      PROVE  UidsInv'
  <2>1. CASE k = "deployment"
    BY <1>5, <2>1, DeploymentStored, DeploymentSlots
  <2>2. CASE k # "deployment"
    <3>1. PICK val : Store(k, n, val)
      BY <1>5 DEF UserWrites
    <3>2. /\ api'.deployment = api.deployment /\ api'.vpa = api.vpa
          /\ watch'.deployment = watch.deployment
      BY <2>2, <3>1, DeploymentSlots, VPASlots DEF Store, TypeOK, IsView, UserKinds
    <3>3. worker' = worker /\ nextUid' = nextUid /\ cache' = cache
      BY <1>5, <2>2 DEF UserWrites
    <3> QED
      BY <1>4, <3>2, <3>3
  <2> QED
    BY <2>1, <2>2
<1>6. ASSUME NEW v \in VPANames,
             UserCreatesVPA(v) \/ UserDeletesVPA(v) \/ UserEditsVPA(v) \/ CollectGarbage(v)
      PROVE  UidsInv'
  <2>1. PICK val \in Slot("vpa") : Store("vpa", v, val) /\ OthersStore(v, val)
    BY <1>6, OtherWrites
  <2>2. UNCHANGED <<cache, worker, nextUid>>
    BY <1>6, OtherWrites
  <2>3. OwnerUid(val)
    BY <2>1 DEF OthersStore, OwnerUid, UidsInv, Exists
  <2>4. DeploymentUids' /\ \A x \in VPANames : OwnerUid(api.vpa[x])'
    BY <2>1, <2>2, <2>3, OwnersStored
  <2>5. api'.deployment = api.deployment
    BY <2>1, VPASlots, DeploymentSlots DEF Store, TypeOK, IsView
  <2>6. \A x \in Workers : WorkerUid(worker[x])'
    BY <2>2, <2>5, BelongsSame DEF UidsInv, WorkerUid
  <2> QED
    BY <2>4, <2>6 DEF UidsInv
<1>7. ASSUME NEW w \in Workers, WorkerStep(w)
      PROVE  UidsInv'
  <2>1. \A x \in Workers : WorkerUid(worker'[x])
    BY <1>7, WorkerUidStep
  <2>2. UNCHANGED <<cache, nextUid>>
    BY <1>7, WorkerWrites
  <2>3. api'.deployment = api.deployment /\ DeploymentUids' /\ \A x \in VPANames : OwnerUid(api.vpa[x])'
    <3>1. CASE UNCHANGED <<api, watch>>
      BY <2>2, <3>1, DeploymentUidsSame, BelongsSame DEF UidsInv, OwnerUid
    <3>2. ASSUME NEW v \in VPANames, NEW val \in Slot("vpa"), Store("vpa", v, val),
                 WorkerStores(w, v, val)
          PROVE  api'.deployment = api.deployment /\ DeploymentUids'
                 /\ \A x \in VPANames : OwnerUid(api.vpa[x])'
      <4>1. api'.deployment = api.deployment
        BY <3>2, VPASlots, DeploymentSlots DEF Store, TypeOK, IsView
      <4> QED
        BY <2>2, <3>2, <4>1, StoredOwner, OwnersStored
    <3> QED
      BY <1>7, <3>1, <3>2, WorkerWrites
  <2>4. \A x \in Workers : WorkerUid(worker[x])'
    BY <2>1, <2>2, <2>3, BelongsSame DEF WorkerUid
  <2> QED
    BY <2>3, <2>4 DEF UidsInv
<1>8. CASE UNCHANGED vars \/ WaitForCacheSync \/ (\E k \in Kinds : Handle(k))
           \/ (\E key \in Deployments : Retry(key))
  BY <1>4, <1>8 DEF Handle, Retry, WaitForCacheSync, vars
<1>9. CASE Environment
  BY <1>1, <1>3, <1>5, <1>6, <1>9 DEF Environment
<1> QED
  BY <1>2, <1>6, <1>7, <1>8, <1>9 DEF Next

-----------------------------------------------------------------------------
(* What the watcher still has to do.                                        *)

TargetsDep(x, d) == x # Absent /\ x.target = d

\* The Deployment is queued, held back, or an event is about to enqueue it.
InHand(d) ==
    \/ d \in q.dirty \cup q.waiting
    \/ \E k \in Kinds : \E i \in DOMAIN notifs[k] : d \in HandlerKeys(k, notifs[k][i])

\* A change of one of its VPAs is on its way to the cache.
Coming(d) ==
    \E i \in DOMAIN watch.vpa : \/ TargetsDep(watch.vpa[i].val, d)
                                \/ TargetsDep(cache.vpa[watch.vpa[i].name], d)

\* The Deployment is unknown or will be looked at again.
Triggered(d) == ~Exists(cache, "deployment", d) \/ InHand(d) \/ Coming(d)

\* What the rules of a view give the Deployment, None for no generated VPA;
\* regexes that do not compile are passed over.
Allowed(view, d) ==
    LET ns      == NamespaceOf[d]
        regexes == GetWatchedNamespaceRegexesMatchingNamespace(view, ns)
    IN  IF GetIgnoredWorkload(view, d) # {} \/ Exists(view, "ignoredNamespace", ns) THEN {None}
        ELSE IF Exists(view, "watchedNamespace", ns) THEN {view.watchedNamespace[ns].config}
        ELSE IF regexes = {} THEN {None}
        ELSE {view.watchedRegex[r].config : r \in OldestWatchedNamespaceRegex(view, regexes)}

\* As far as the cache tells the Deployment has the VPAs it should have.
Settled(d) ==
    LET managed == ManagedVPAs(cache, d)
        manual  == ListForDeployment(cache, d) \ managed
    IN  \/ managed = {} /\ (manual # {} \/ None \in Allowed(cache, d))
        \/ /\ managed = {GeneratedName[d]} /\ manual = {}
           /\ \E c \in Allowed(cache, d) \ {None} :
                 /\ cache.vpa[GeneratedName[d]].policy = c.policy
                 /\ cache.vpa[GeneratedName[d]].mode = c.mode

\* The Deployment was added to the cache and its handler has yet to hear of it.
Arriving(d) ==
    \E i \in DOMAIN notifs.deployment : d \in OnDeployment(notifs.deployment[i])

\* Before the workers start every cached Deployment is queued or about to be.
EarlyInv ==
    ~running => /\ \A w \in Workers : ~Busy(w)
                /\ \A d \in Deployments :
                      Exists(cache, "deployment", d) => d \in q.dirty \/ Arriving(d)

\* A worker in state s ends with its key settled, held back, given up, or
\* triggered by what it wrote.
OnTrack(s) ==
    \/ Triggered(s.key)
    \/ s.pc \in {"decide", "create", "outdated"}
    \/ s.pc = "list" /\ s.config \in Allowed(cache, s.key)
    \/ /\ s.pc = "patch" /\ cache.vpa[GeneratedName[s.key]] = s.base
       /\ s.base # GenerateVPAForDeployment(s.key, s.uid, s.config)
    \/ s.pc \in {"cleanup", "remove", "finish"} /\ (s.failed \/ Settled(s.key))
    \/ /\ s.pc \in {"cleanup", "remove"} /\ s.doomed # {}
       /\ \A v \in s.doomed : TargetsDep(cache.vpa[v], s.key)

\* No Deployment is forgotten.
Followed ==
    /\ \A d \in Deployments :
          \/ Triggered(d) \/ d \in dropped \/ Settled(d)
          \/ \E w \in Workers : Busy(w) /\ worker[w].key = d
    /\ \A w \in Workers : Busy(w) => OnTrack(worker[w])

\* A decision without an error is one the rules give.
LEMMA DecisionAllowed ==
    ASSUME NEW view, NEW d, NEW dec \in ShouldManageDeployment(view, d)
    PROVE  dec.kind = "error" \/ dec.config \in Allowed(view, d)
<1> DEFINE ns      == NamespaceOf[d]
           regexes == GetWatchedNamespaceRegexesMatchingNamespace(view, ns)
<1> HIDE DEF regexes
<1>0. Unmanaged.config = None /\ ScopeError.kind = "error" /\ \A c : ManagedWith(c).config = c
  BY DEF Unmanaged, ScopeError, ManagedWith
<1>1. CASE GetIgnoredWorkload(view, d) # {}
  <2>1. ShouldManageDeployment(view, d) = {Unmanaged} /\ Allowed(view, d) = {None}
    BY <1>1 DEF ShouldManageDeployment, Allowed
  <2> QED
    BY <1>0, <2>1
<1>2. CASE GetIgnoredWorkload(view, d) = {} /\ Exists(view, "ignoredNamespace", ns)
  <2>1. ShouldManageDeployment(view, d) = {Unmanaged} /\ Allowed(view, d) = {None}
    BY <1>2 DEF ShouldManageDeployment, Allowed
  <2> QED
    BY <1>0, <2>1
<1>3. CASE GetIgnoredWorkload(view, d) = {} /\ ~Exists(view, "ignoredNamespace", ns)
  <2>1. CASE Exists(view, "watchedNamespace", ns)
    <3>1. /\ ShouldManageDeployment(view, d) = {ManagedWith(view.watchedNamespace[ns].config)}
          /\ Allowed(view, d) = {view.watchedNamespace[ns].config}
      BY <1>3, <2>1 DEF ShouldManageDeployment, Allowed
    <3> QED
      BY <1>0, <3>1
  <2>2. CASE ~Exists(view, "watchedNamespace", ns) /\ CompileFails(view)
    <3>1. ShouldManageDeployment(view, d) = {ScopeError}
      BY <1>3, <2>2 DEF ShouldManageDeployment
    <3> QED
      BY <1>0, <3>1
  <2>3. CASE ~Exists(view, "watchedNamespace", ns) /\ ~CompileFails(view) /\ regexes # {}
    <3>1. PICK r \in OldestWatchedNamespaceRegex(view, regexes) :
             dec = ManagedWith(view.watchedRegex[r].config)
      BY <1>3, <2>3 DEF ShouldManageDeployment, regexes
    <3>2. dec.config = view.watchedRegex[r].config
      BY <3>1 DEF ManagedWith
    <3> QED
      BY <1>3, <2>3, <3>1, <3>2 DEF Allowed, regexes
  <2>4. CASE ~Exists(view, "watchedNamespace", ns) /\ ~CompileFails(view) /\ regexes = {}
    <3>1. ShouldManageDeployment(view, d) = {Unmanaged} /\ Allowed(view, d) = {None}
      BY <1>3, <2>4 DEF ShouldManageDeployment, Allowed, regexes
    <3> QED
      BY <1>0, <3>1
  <2> QED
    BY <2>1, <2>2, <2>3, <2>4
<1> QED
  BY <1>1, <1>2, <1>3

-----------------------------------------------------------------------------
(* Triggers.                                                                *)

\* Before the workers start everything known is triggered.
LEMMA EarlyTriggers ==
    ASSUME EarlyInv, ~running
    PROVE  (\A d \in Deployments : Triggered(d)) /\ Followed
<1>1. "deployment" \in Kinds /\ \A n : HandlerKeys("deployment", n) = OnDeployment(n)
  BY DEF Kinds, HandlerKeys
<1>2. \A d \in Deployments : Triggered(d)
  BY <1>1 DEF EarlyInv, Arriving, Triggered, InHand
<1> QED
  BY <1>2 DEF EarlyInv, Followed

\* A write of a VPA the cache shows for d, or of one for d, is a trigger.
LEMMA StoreTriggers ==
    ASSUME TypeOK, StreamsInv, NEW v \in VPANames, NEW val, Store("vpa", v, val), cache' = cache,
           NEW d,
           \/ TargetsDep(cache.vpa[v], d) /\ cache.vpa[v] # val
           \/ TargetsDep(val, d) /\ api.vpa[v] # val
    PROVE  Coming(d)'
<1> DEFINE x == [name |-> v, val |-> val, initial |-> FALSE]
<1>1. CASE api.vpa[v] # val
  <2>1. watch'.vpa = Append(watch.vpa, x)
    BY <1>1, VPASlots DEF Store, TypeOK
  <2>2. Len(watch.vpa) + 1 \in DOMAIN watch'.vpa /\ watch'.vpa[Len(watch.vpa) + 1] = x
    BY <2>1, VPASlots
  <2>3. x.name = v /\ x.val = val
    OBVIOUS
  <2> HIDE DEF x
  <2> QED
    BY <2>2, <2>3 DEF Coming
<1>2. CASE api.vpa[v] = val
  <2>1. watch' = watch /\ TargetsDep(cache.vpa[v], d) /\ cache.vpa[v] # api.vpa[v]
    BY <1>2 DEF Store
  <2>2. Follows(watch.vpa, cache.vpa, api.vpa) /\ DOMAIN api.vpa = VPANames
    BY VPASlots DEF StreamsInv
  <2>3. PICK i \in DOMAIN watch.vpa : watch.vpa[i].name = v
    BY <2>1, <2>2 DEF Follows
  <2> QED
    BY <2>1, <2>3 DEF Coming
<1> QED
  BY <1>1, <1>2

\* The keys of an event depend on the cache alone.
LEMMA SameKeys ==
    ASSUME cache' = cache
    PROVE  \A k, n : HandlerKeys(k, n)' = HandlerKeys(k, n)
BY DEF HandlerKeys, OnDeployment, OnVPA, OldAndNewTarget, OnIgnoredWorkload,
       OnWatchedNamespace, OnIgnoredNamespace, OnWatchedNamespaceRegex,
       EnqueueDeploymentsInNamespace, EnqueueDeploymentsMatchingNamespaceRegex

\* A write takes no trigger away.
LEMMA StoreKeepsTriggers ==
    ASSUME TypeOK, NEW k \in Kinds, NEW n \in Names[k], NEW val \in Slot(k), Store(k, n, val),
           UNCHANGED <<cache, notifs>>, NEW d, Triggered(d),
           d \in q.dirty \cup q.waiting => d \in q'.dirty \cup q'.waiting
    PROVE  Triggered(d)'
<1>1. InHand(d) => InHand(d)'
  BY SameKeys DEF InHand
<1>2. \A i \in DOMAIN watch.vpa : i \in DOMAIN watch'.vpa /\ watch'.vpa[i] = watch.vpa[i]
  <2>1. CASE k = "vpa"
    <3> DEFINE x == [name |-> n, val |-> val, initial |-> FALSE]
    <3>1. watch'.vpa = watch.vpa \/ watch'.vpa = Append(watch.vpa, x)
      BY <2>1, VPASlots DEF Store, TypeOK
    <3>2. x \in Delta("vpa") /\ watch.vpa \in Seq(Delta("vpa"))
      BY <2>1, VPASlots DEF Delta
    <3> HIDE DEF x
    <3> QED
      BY <3>1, <3>2
  <2>2. CASE k # "vpa"
    <3>1. watch'.vpa = watch.vpa
      BY <2>2, VPASlots DEF Store, TypeOK
    <3> QED
      BY <3>1
  <2> QED
    BY <2>1, <2>2
<1>3. Coming(d) => Coming(d)'
  BY <1>2 DEF Coming
<1> QED
  BY <1>1, <1>3 DEF Triggered

\* Steps that only look.
LEMMA SameTriggers ==
    ASSUME UNCHANGED <<watch, cache, notifs>>, NEW d,
           d \in q.dirty \cup q.waiting => d \in q'.dirty \cup q'.waiting, Triggered(d)
    PROVE  Triggered(d)'
<1> QED
  BY SameKeys DEF Triggered, InHand, Coming

\* The cache alone settles.
LEMMA SettledSame ==
    ASSUME cache' = cache
    PROVE  /\ \A d : Settled(d)' <=> Settled(d)
           /\ \A d : Allowed(cache', d) = Allowed(cache, d)
BY DEF Settled

\* Nobody is forgotten when workers, cache and triggers stay.
LEMMA FollowedSame ==
    ASSUME TypeOK, Followed, UNCHANGED <<cache, worker, dropped>>,
           \A d \in Deployments : Triggered(d) => Triggered(d)'
    PROVE  Followed'
<1>1. \A w \in Workers : Busy(w) => worker[w].key \in Deployments
  BY DEF TypeOK, WorkerFits, Busy
<1>2. \A w \in Workers : Busy(w)' <=> Busy(w)
  BY DEF Busy
<1>3. \A w \in Workers : Busy(w) => OnTrack(worker[w])'
  BY <1>1, SettledSame DEF Followed, OnTrack
<1> QED
  BY <1>2, <1>3, SettledSame DEF Followed

-----------------------------------------------------------------------------
(* Deliveries.                                                              *)

\* The rest of what a delivery does.
LEMMA DeliverNotifies ==
    ASSUME TypeOK, NEW k \in Kinds, Deliver(k)
    PROVE  LET x   == Head(watch[k])
               old == cache[k][x.name]
               new == [name |-> x.name, old |-> old, new |-> x.val]
           IN  /\ UNCHANGED <<api, running, q, worker, dropped, nextUid, steps>>
               /\ \A y \in Kinds : \A i \in DOMAIN notifs[y] :
                     i \in DOMAIN notifs'[y] /\ notifs'[y][i] = notifs[y][i]
               /\ \/ old = Absent /\ x.val = Absent
                  \/ \E i \in DOMAIN notifs'[k] : notifs'[k][i] = new
<1> DEFINE x   == Head(watch[k])
           old == cache[k][x.name]
           new == [name |-> x.name, old |-> old, new |-> x.val]
<1>1. UNCHANGED <<api, running, q, worker, dropped, nextUid, steps>>
  BY DEF Deliver
<1>2. CASE old = Absent /\ x.val = Absent
  <2>1. notifs' = notifs
    BY <1>2 DEF Deliver
  <2> QED
    BY <1>1, <1>2, <2>1
<1>3. CASE ~(old = Absent /\ x.val = Absent)
  <2>1. notifs' = [notifs EXCEPT ![k] = Append(@, new)]
    BY <1>3 DEF Deliver
  <2> HIDE DEF new
  <2>2. notifs'[k] = Append(notifs[k], new) /\ \A y \in Kinds \ {k} : notifs'[y] = notifs[y]
    BY <2>1 DEF TypeOK
  <2>3. Len(notifs[k]) \in Nat /\ DOMAIN notifs[k] = 1 .. Len(notifs[k])
    BY KindTypes
  <2>4. /\ DOMAIN notifs'[k] = 1 .. Len(notifs[k]) + 1
        /\ notifs'[k][Len(notifs[k]) + 1] = new
        /\ \A i \in DOMAIN notifs[k] : notifs'[k][i] = notifs[k][i]
    BY <2>2, <2>3, KindTypes
  <2> QED
    BY <1>1, <2>2, <2>3, <2>4 DEF new
<1> QED
  BY <1>2, <1>3

\* Namespaces stay in the cache.
LEMMA NamespacesStay ==
    ASSUME TypeOK, NamespacesInv, NEW k \in Kinds, Deliver(k), NEW n \in Namespaces,
           Exists(cache, "namespace", n)
    PROVE  Exists(cache', "namespace", n)
<1>1. CASE k = "namespace"
  <2> DEFINE x == Head(watch.namespace)
  <2>1. /\ watch.namespace[1] = x /\ 1 \in DOMAIN watch.namespace
        /\ cache'.namespace = [cache.namespace EXCEPT ![x.name] = x.val]
    BY <1>1, DeliverParts
  <2>2. x.val # Absent
    BY <2>1 DEF NamespacesInv
  <2>3. cache.namespace \in [Namespaces -> Slot("namespace")]
    BY <1>1, KindTypes, KindNames
  <2> HIDE DEF x
  <2> QED
    BY <2>1, <2>2, <2>3 DEF Exists
<1>2. CASE k # "namespace"
  BY <1>2, DeliverParts, KindNames DEF Exists
<1> QED
  BY <1>1, <1>2

\* An event enqueues a Deployment as long as it is in the cache.
LEMMA KeysStay ==
    ASSUME TypeOK, NamespacesInv, NEW k \in Kinds, Deliver(k), NEW d \in Deployments,
           Exists(cache', "deployment", d), NEW y \in Kinds, NEW n, d \in HandlerKeys(y, n)
    PROVE  d \in HandlerKeys(y, n)'
<1>1. \A ns : d \in EnqueueDeploymentsInNamespace(ns) => d \in EnqueueDeploymentsInNamespace(ns)'
  BY DEF EnqueueDeploymentsInNamespace
<1>2. \A p : d \in EnqueueDeploymentsMatchingNamespaceRegex(p) =>
             d \in EnqueueDeploymentsMatchingNamespaceRegex(p)'
  <2> SUFFICES ASSUME NEW p, NEW ns \in GetNamespacesMatchingRegex(cache, p),
                      d \in EnqueueDeploymentsInNamespace(ns)
               PROVE  d \in EnqueueDeploymentsMatchingNamespaceRegex(p)'
    BY DEF EnqueueDeploymentsMatchingNamespaceRegex
  <2>1. ns \in GetNamespacesMatchingRegex(cache', p)
    BY NamespacesStay DEF GetNamespacesMatchingRegex
  <2> QED
    BY <1>1, <2>1 DEF EnqueueDeploymentsMatchingNamespaceRegex
<1>3. CASE y \in {"deployment", "vpa", "ignoredWorkload", "namespace"}
  BY <1>3 DEF HandlerKeys, OnDeployment, OnVPA, OldAndNewTarget, OnIgnoredWorkload
<1>4. CASE y = "watchedNamespace"
  BY <1>1, <1>4 DEF HandlerKeys, OnWatchedNamespace
<1>5. CASE y = "ignoredNamespace"
  BY <1>1, <1>5 DEF HandlerKeys, OnIgnoredNamespace
<1>6. CASE y = "watchedRegex"
  BY <1>2, <1>6 DEF HandlerKeys, OnWatchedNamespaceRegex
<1> QED
  BY <1>3, <1>4, <1>5, <1>6, KindNames

\* An event that enqueues the Deployment has come up.
LEMMA EventInHand ==
    ASSUME TypeOK, NEW k \in Kinds, Deliver(k), NEW d, NEW new,
           new = [name |-> Head(watch[k]).name, old |-> cache[k][Head(watch[k]).name],
                  new |-> Head(watch[k]).val],
           ~(new.old = Absent /\ new.new = Absent),
           d \in HandlerKeys(k, new)'
    PROVE  InHand(d)'
<1>1. PICK i \in DOMAIN notifs'[k] : notifs'[k][i] = new
  BY DeliverNotifies
<1> QED
  BY <1>1 DEF InHand

\* A delivery takes no trigger away: a change on its way becomes an event, and
\* an unknown Deployment arrives with one.
LEMMA DeliverTriggers ==
    ASSUME TypeOK, NamespacesInv, NEW k \in Kinds, Deliver(k), NEW d \in Deployments, Triggered(d)
    PROVE  Triggered(d)'
<1> SUFFICES ASSUME Exists(cache', "deployment", d)
             PROVE  InHand(d)' \/ Coming(d)'
  BY DEF Triggered
<1> DEFINE x == Head(watch[k])
<1>0. PICK new : new = [name |-> x.name, old |-> cache[k][x.name], new |-> x.val]
  OBVIOUS
<1>1. new.name = x.name /\ new.old = cache[k][x.name] /\ new.new = x.val
  BY <1>0
<1>2. CASE ~Exists(cache, "deployment", d)
  <2>1. k = "deployment"
    BY <1>2, DeliverParts, KindNames DEF Exists
  <2>2. x.name = d /\ x.val # Absent /\ cache[k][x.name] = Absent
    <3>1. cache'.deployment = [cache.deployment EXCEPT ![x.name] = x.val]
      BY <2>1, DeliverParts
    <3> QED
      BY <1>2, <2>1, <3>1, DeploymentSlots DEF Exists
  <2>3. d \in HandlerKeys(k, new)'
    BY <1>1, <2>1, <2>2 DEF HandlerKeys, OnDeployment
  <2> QED
    BY <1>0, <1>1, <2>2, <2>3, EventInHand
<1>3. CASE InHand(d)
  <2>1. CASE d \in q.dirty \cup q.waiting
    BY <2>1 DEF InHand, Deliver
  <2>2. ASSUME NEW y \in Kinds, NEW i \in DOMAIN notifs[y], d \in HandlerKeys(y, notifs[y][i])
        PROVE  InHand(d)'
    <3>1. i \in DOMAIN notifs'[y] /\ notifs'[y][i] = notifs[y][i]
      BY DeliverNotifies
    <3>2. PICK n : n = notifs[y][i]
      OBVIOUS
    <3>3. d \in HandlerKeys(y, n)'
      BY <2>2, <3>2, KeysStay
    <3> QED
      BY <3>1, <3>2, <3>3 DEF InHand
  <2> QED
    BY <1>3, <2>1, <2>2 DEF InHand
<1>4. CASE Coming(d)
  <2>1. CASE k # "vpa"
    BY <1>4, <2>1, DeliverParts, KindNames DEF Coming
  <2>2. CASE k = "vpa"
    <3>1. /\ watch.vpa[1] = x /\ 1 \in DOMAIN watch.vpa /\ x.name \in VPANames
          /\ watch'.vpa = Tail(watch.vpa) /\ watch.vpa # <<>>
          /\ cache'.vpa = [cache.vpa EXCEPT ![x.name] = x.val]
      BY <2>2, DeliverParts, KindNames
    <3>2. TargetsDep(x.val, d) \/ TargetsDep(cache.vpa[x.name], d) => InHand(d)'
      <4> SUFFICES ASSUME TargetsDep(x.val, d) \/ TargetsDep(cache.vpa[x.name], d)
                   PROVE  InHand(d)'
        OBVIOUS
      <4>1. d \in HandlerKeys(k, new)'
        BY <1>1, <2>2, ObjectsAssumption DEF HandlerKeys, OnVPA, OldAndNewTarget, TargetsDep
      <4>2. ~(new.old = Absent /\ new.new = Absent)
        BY <1>1, <2>2 DEF TargetsDep
      <4> QED
        BY <1>0, <4>1, <4>2, EventInHand
    <3>3. \A i \in DOMAIN watch.vpa : i # 1 =>
              i - 1 \in DOMAIN watch'.vpa /\ watch'.vpa[i - 1] = watch.vpa[i]
      BY <3>1, VPASlots
    <3> HIDE DEF x
    <3>4. PICK i \in DOMAIN watch.vpa : \/ TargetsDep(watch.vpa[i].val, d)
                                        \/ TargetsDep(cache.vpa[watch.vpa[i].name], d)
      BY <1>4 DEF Coming
    <3>5. CASE i = 1
      BY <3>1, <3>2, <3>4, <3>5
    <3>6. CASE i # 1 /\ TargetsDep(watch.vpa[i].val, d)
      BY <3>3, <3>6 DEF Coming
    <3>7. CASE i # 1 /\ TargetsDep(cache.vpa[watch.vpa[i].name], d)
      <4>1. CASE watch.vpa[i].name = x.name
        BY <3>2, <3>7, <4>1
      <4>2. CASE watch.vpa[i].name # x.name
        <5>1. cache'.vpa[watch.vpa[i].name] = cache.vpa[watch.vpa[i].name]
          <6>1. watch.vpa[i] \in Delta("vpa")
            BY VPASlots
          <6>2. watch.vpa[i].name \in VPANames
            BY <6>1, VPASlots DEF Delta
          <6> QED
            BY <3>1, <4>2, <6>2, VPASlots
        <5> QED
          BY <3>3, <3>7, <5>1 DEF Coming
      <4> QED
        BY <4>1, <4>2
    <3> QED
      BY <3>4, <3>5, <3>6, <3>7
  <2> QED
    BY <2>1, <2>2
<1> QED
  BY <1>2, <1>3, <1>4 DEF Triggered

\* The VPAs of the Deployment, before or after the step, are the same.
SameVPAs(d) ==
    \A v \in VPANames : TargetsDep(cache.vpa[v], d) \/ TargetsDep(cache'.vpa[v], d) =>
        cache'.vpa[v] = cache.vpa[v]

\* Same rules, same configurations.
LEMMA SameRules ==
    ASSUME NEW v1, NEW v2, NEW d,
           GetIgnoredWorkload(v2, d) = GetIgnoredWorkload(v1, d),
           v2.ignoredNamespace[NamespaceOf[d]] = v1.ignoredNamespace[NamespaceOf[d]],
           v2.watchedNamespace[NamespaceOf[d]] = v1.watchedNamespace[NamespaceOf[d]],
           GetWatchedNamespaceRegexesMatchingNamespace(v2, NamespaceOf[d]) =
               GetWatchedNamespaceRegexesMatchingNamespace(v1, NamespaceOf[d]),
           \A r \in GetWatchedNamespaceRegexesMatchingNamespace(v1, NamespaceOf[d]) :
               v2.watchedRegex[r] = v1.watchedRegex[r]
    PROVE  Allowed(v2, d) = Allowed(v1, d)
<1> DEFINE ns      == NamespaceOf[d]
           regexes == GetWatchedNamespaceRegexesMatchingNamespace(v1, ns)
<1>1. (Exists(v2, "ignoredNamespace", ns) <=> Exists(v1, "ignoredNamespace", ns))
      /\ (Exists(v2, "watchedNamespace", ns) <=> Exists(v1, "watchedNamespace", ns))
  BY DEF Exists
<1> HIDE DEF regexes
<1>2. OldestWatchedNamespaceRegex(v2, regexes) = OldestWatchedNamespaceRegex(v1, regexes)
  BY DEF OldestWatchedNamespaceRegex, regexes
<1>3. {v2.watchedRegex[r].config : r \in OldestWatchedNamespaceRegex(v2, regexes)} =
      {v1.watchedRegex[r].config : r \in OldestWatchedNamespaceRegex(v1, regexes)}
  BY <1>2 DEF OldestWatchedNamespaceRegex, regexes
<1> QED
  BY <1>1, <1>3 DEF Allowed, regexes

\* A delivery that changes what the Deployment should have, or has, is an event
\* that enqueues it.
LEMMA DeliverEnqueues ==
    ASSUME TypeOK, NamespacesInv, running, NEW k \in Kinds, Deliver(k), NEW d \in Deployments,
           Exists(cache', "deployment", d)
    PROVE  InHand(d)' \/ (Allowed(cache', d) = Allowed(cache, d) /\ SameVPAs(d))
<1> DEFINE x  == Head(watch[k])
           ns == NamespaceOf[d]
<1>0. PICK new : new = [name |-> x.name, old |-> cache[k][x.name], new |-> x.val]
  OBVIOUS
<1>1. new.name = x.name /\ new.old = cache[k][x.name] /\ new.new = x.val
  BY <1>0
<1>2. /\ x.name \in Names[k] /\ cache[k] \in [Names[k] -> Slot(k)]
      /\ cache'[k] = [cache[k] EXCEPT ![x.name] = new.new]
      /\ \A y \in Kinds \ {k} : cache'[y] = cache[y]
  <2>1. x.name \in Names[k] /\ cache'[k] = [cache[k] EXCEPT ![x.name] = x.val]
        /\ \A y \in Kinds \ {k} : cache'[y] = cache[y]
    BY DeliverParts
  <2>2. cache[k] \in [Names[k] -> Slot(k)]
    BY KindTypes
  <2> HIDE DEF x
  <2> QED
    BY <1>1, <2>1, <2>2
<1>3. d \in HandlerKeys(k, new)' /\ new.old # new.new => InHand(d)'
  BY <1>0, EventInHand
<1>4. ns \in Namespaces /\ Exists(cache, "namespace", ns)
  BY ObjectsAssumption DEF NamespacesInv
<1>5. /\ cache'[k][x.name] = new.new /\ cache[k][x.name] = new.old
      /\ \A n \in Names[k] \ {x.name} : cache'[k][n] = cache[k][n]
  BY <1>1, <1>2
<1>6. new.old = new.new => cache'[k] = cache[k]
  BY <1>2, <1>5
<1>7. new.old = new.new => \A y \in Kinds : cache'[y] = cache[y]
  BY <1>2, <1>6
<1> HIDE DEF x
<1>8. ASSUME \A y \in {"vpa", "ignoredWorkload", "ignoredNamespace", "watchedNamespace", "watchedRegex"} :
                cache'[y] = cache[y]
      PROVE  Allowed(cache', d) = Allowed(cache, d) /\ SameVPAs(d)
  <2>1. SameVPAs(d)
    BY <1>8 DEF SameVPAs
  <2>2. /\ cache'.ignoredWorkload = cache.ignoredWorkload
        /\ cache'.ignoredNamespace = cache.ignoredNamespace
        /\ cache'.watchedNamespace = cache.watchedNamespace
        /\ cache'.watchedRegex = cache.watchedRegex
    BY <1>8
  <2>3. GetIgnoredWorkload(cache', d) = GetIgnoredWorkload(cache, d)
    BY <2>2 DEF GetIgnoredWorkload, Exists
  <2>4. GetWatchedNamespaceRegexesMatchingNamespace(cache', ns) =
        GetWatchedNamespaceRegexesMatchingNamespace(cache, ns)
    BY <2>2 DEF GetWatchedNamespaceRegexesMatchingNamespace, Exists
  <2> QED
    BY <2>1, <2>2, <2>3, <2>4, SameRules
<1>9. CASE new.old = new.new \/ k \in {"namespace", "deployment"}
  BY <1>2, <1>7, <1>8, <1>9, KindNames
<1>10. CASE new.old # new.new /\ k = "vpa"
  <2>1. Allowed(cache', d) = Allowed(cache, d)
    <3>1. /\ cache'.ignoredWorkload = cache.ignoredWorkload
          /\ cache'.ignoredNamespace = cache.ignoredNamespace
          /\ cache'.watchedNamespace = cache.watchedNamespace
          /\ cache'.watchedRegex = cache.watchedRegex
      BY <1>2, <1>10, KindNames
    <3>2. GetIgnoredWorkload(cache', d) = GetIgnoredWorkload(cache, d)
      BY <3>1 DEF GetIgnoredWorkload, Exists
    <3>3. GetWatchedNamespaceRegexesMatchingNamespace(cache', ns) =
          GetWatchedNamespaceRegexesMatchingNamespace(cache, ns)
      BY <3>1 DEF GetWatchedNamespaceRegexesMatchingNamespace, Exists
    <3> QED
      BY <3>1, <3>2, <3>3, SameRules
  <2>2. TargetsDep(new.old, d) \/ TargetsDep(new.new, d) => d \in HandlerKeys(k, new)'
    BY <1>10, ObjectsAssumption DEF HandlerKeys, OnVPA, OldAndNewTarget, TargetsDep
  <2>3. ~TargetsDep(new.old, d) /\ ~TargetsDep(new.new, d) => SameVPAs(d)
    BY <1>5, <1>10, KindNames DEF SameVPAs
  <2> QED
    BY <1>3, <1>10, <2>1, <2>2, <2>3
<1>11. ASSUME k # "vpa"
       PROVE  SameVPAs(d)
  BY <1>2, <1>11, KindNames DEF SameVPAs
<1>12. CASE new.old # new.new /\ k = "ignoredWorkload"
  <2>1. TargetsDep(new.old, d) \/ TargetsDep(new.new, d) => d \in HandlerKeys(k, new)'
    BY <1>12, ObjectsAssumption DEF HandlerKeys, OnIgnoredWorkload, OldAndNewTarget, TargetsDep
  <2>2. ASSUME ~TargetsDep(new.old, d), ~TargetsDep(new.new, d)
        PROVE  Allowed(cache', d) = Allowed(cache, d)
    <3>1. GetIgnoredWorkload(cache', d) = GetIgnoredWorkload(cache, d)
      BY <1>5, <1>12, <2>2, KindNames DEF GetIgnoredWorkload, Exists, TargetsDep
    <3>2. /\ cache'.ignoredNamespace = cache.ignoredNamespace
          /\ cache'.watchedNamespace = cache.watchedNamespace
          /\ cache'.watchedRegex = cache.watchedRegex
      BY <1>2, <1>12, KindNames
    <3>3. GetWatchedNamespaceRegexesMatchingNamespace(cache', ns) =
          GetWatchedNamespaceRegexesMatchingNamespace(cache, ns)
      BY <3>2 DEF GetWatchedNamespaceRegexesMatchingNamespace, Exists
    <3> QED
      BY <3>1, <3>2, <3>3, SameRules
  <2> QED
    BY <1>3, <1>11, <1>12, <2>1, <2>2
<1>13. CASE new.old # new.new /\ k \in {"ignoredNamespace", "watchedNamespace"}
  <2>1. ASSUME x.name = ns
        PROVE  d \in HandlerKeys(k, new)'
    <3>1. d \in EnqueueDeploymentsInNamespace(new.name)'
      BY <1>1, <1>13, <2>1 DEF EnqueueDeploymentsInNamespace
    <3>2. CASE k = "watchedNamespace"
      BY <3>1, <3>2 DEF HandlerKeys, OnWatchedNamespace
    <3>3. CASE k = "ignoredNamespace"
      <4>1. Slot(k) = {Present, Absent} /\ Names[k] = Namespaces
        BY <3>3 DEF Slot, Values, Names
      <4>2. cache[k][x.name] \in Slot(k) /\ cache'[k][x.name] \in Slot(k)
        <5>1. x.name \in Names[k] /\ Head(watch[k]).val \in Slot(k)
          BY <1>2, DeliverParts
        <5> QED
          BY <1>1, <1>2, <1>5, <5>1 DEF x
      <4>3. Absent \in {new.old, new.new}
        BY <1>5, <1>13, <4>1, <4>2
      <4> QED
        BY <3>1, <3>3, <4>3 DEF HandlerKeys, OnIgnoredNamespace
    <3> QED
      BY <1>13, <3>2, <3>3
  <2>2. ASSUME x.name # ns
        PROVE  Allowed(cache', d) = Allowed(cache, d)
    <3>1. /\ cache'.ignoredWorkload = cache.ignoredWorkload
          /\ cache'.ignoredNamespace[ns] = cache.ignoredNamespace[ns]
          /\ cache'.watchedNamespace[ns] = cache.watchedNamespace[ns]
          /\ cache'.watchedRegex = cache.watchedRegex
      BY <1>2, <1>4, <1>5, <1>13, <2>2, KindNames
    <3>2. GetIgnoredWorkload(cache', d) = GetIgnoredWorkload(cache, d)
      BY <3>1 DEF GetIgnoredWorkload, Exists
    <3>3. GetWatchedNamespaceRegexesMatchingNamespace(cache', ns) =
          GetWatchedNamespaceRegexesMatchingNamespace(cache, ns)
      BY <3>1 DEF GetWatchedNamespaceRegexesMatchingNamespace, Exists
    <3> QED
      BY <3>1, <3>2, <3>3, SameRules
  <2> QED
    BY <1>3, <1>11, <1>13, <2>1, <2>2
<1>14. CASE new.old # new.new /\ k = "watchedRegex"
  <2> DEFINE Selects(y) == y # Absent /\ Valid(y.pattern) /\ ns \in y.pattern
  <2>1. ASSUME NEW y \in {new.old, new.new}, Selects(y)
        PROVE  d \in HandlerKeys(k, new)'
    <3>1. ns \in GetNamespacesMatchingRegex(cache', y.pattern)
      BY <1>2, <1>4, <1>14, <2>1, KindNames DEF GetNamespacesMatchingRegex, Exists
    <3>2. d \in EnqueueDeploymentsInNamespace(ns)'
      BY DEF EnqueueDeploymentsInNamespace
    <3>3. d \in EnqueueDeploymentsMatchingNamespaceRegex(y.pattern)'
      BY <3>1, <3>2 DEF EnqueueDeploymentsMatchingNamespaceRegex
    <3>4. d \in OnWatchedNamespaceRegex(new)'
      BY <2>1, <3>3 DEF OnWatchedNamespaceRegex
    <3> QED
      BY <1>14, <3>4 DEF HandlerKeys
  <2>2. ASSUME ~Selects(new.old), ~Selects(new.new)
        PROVE  Allowed(cache', d) = Allowed(cache, d)
    <3>1. /\ cache'.ignoredWorkload = cache.ignoredWorkload
          /\ cache'.ignoredNamespace = cache.ignoredNamespace
          /\ cache'.watchedNamespace = cache.watchedNamespace
      BY <1>2, <1>14, KindNames
    <3>2. GetIgnoredWorkload(cache', d) = GetIgnoredWorkload(cache, d)
      BY <3>1 DEF GetIgnoredWorkload, Exists
    <3>3. \A r \in RegexNames :
            /\ Selects(cache'.watchedRegex[r]) <=> Selects(cache.watchedRegex[r])
            /\ Selects(cache.watchedRegex[r]) => cache'.watchedRegex[r] = cache.watchedRegex[r]
      BY <1>5, <1>14, <2>2, KindNames
    <3>4. GetWatchedNamespaceRegexesMatchingNamespace(cache, ns) =
              {r \in RegexNames : Selects(cache.watchedRegex[r])}
          /\ GetWatchedNamespaceRegexesMatchingNamespace(cache', ns) =
              {r \in RegexNames : Selects(cache'.watchedRegex[r])}
      BY DEF GetWatchedNamespaceRegexesMatchingNamespace, Exists
    <3> HIDE DEF Selects
    <3>5. GetWatchedNamespaceRegexesMatchingNamespace(cache', ns) =
          GetWatchedNamespaceRegexesMatchingNamespace(cache, ns)
      BY <3>3, <3>4
    <3>6. \A r \in GetWatchedNamespaceRegexesMatchingNamespace(cache, ns) :
              cache'.watchedRegex[r] = cache.watchedRegex[r]
      BY <3>3, <3>4
    <3> QED
      BY <3>1, <3>2, <3>5, <3>6, SameRules
  <2> HIDE DEF Selects
  <2> QED
    BY <1>3, <1>11, <1>14, <2>1, <2>2
<1> QED
  BY <1>9, <1>10, <1>12, <1>13, <1>14, KindNames

-----------------------------------------------------------------------------
(* Events and retries.                                                      *)

\* A handler queues the keys of its event and touches no other.
LEMMA HandleParts ==
    ASSUME TypeOK, NEW k \in Kinds, Handle(k)
    PROVE  /\ UNCHANGED <<api, watch, cache, running, worker, dropped>>
           /\ q'.dirty = q.dirty \cup HandlerKeys(k, notifs[k][1]) /\ q'.waiting = q.waiting
           /\ \A y \in Kinds : \A i \in DOMAIN notifs[y] :
                 \/ y = k /\ i = 1
                 \/ \E j \in DOMAIN notifs'[y] : notifs'[y][j] = notifs[y][i]
<1>1. UNCHANGED <<api, watch, cache, running, worker, dropped>>
  BY DEF Handle
<1>2. notifs[k] # <<>> /\ notifs[k] \in Seq(Notif(k))
  BY KindTypes DEF Handle
<1>3. Head(notifs[k]) = notifs[k][1]
  BY <1>2
<1>4. \E order : q' = AddAll(q, HandlerKeys(k, notifs[k][1]), order)
  BY <1>3 DEF Handle
<1>5. q'.dirty = q.dirty \cup HandlerKeys(k, notifs[k][1]) /\ q'.waiting = q.waiting
  BY <1>4 DEF TypeOK, Queue, AddAll
<1>6. notifs'[k] = Tail(notifs[k]) /\ \A y \in Kinds \ {k} : notifs'[y] = notifs[y]
  BY DEF Handle, TypeOK
<1>7. \A i \in DOMAIN notifs[k] : i # 1 =>
          i - 1 \in DOMAIN notifs'[k] /\ notifs'[k][i - 1] = notifs[k][i]
  BY <1>2, <1>6
<1> QED
  BY <1>1, <1>5, <1>6, <1>7

\* An event becomes a key.
LEMMA HandleTriggers ==
    ASSUME TypeOK, NEW k \in Kinds, Handle(k), NEW d, Triggered(d)
    PROVE  Triggered(d)'
<1>1. cache' = cache /\ watch' = watch
  BY HandleParts
<1>2. CASE InHand(d)
  <2>1. CASE d \in q.dirty \cup q.waiting
    BY <2>1, HandleParts DEF InHand, Triggered
  <2>2. ASSUME NEW y \in Kinds, NEW i \in DOMAIN notifs[y], d \in HandlerKeys(y, notifs[y][i])
        PROVE  InHand(d)'
    <3>1. CASE y = k /\ i = 1
      BY <2>2, <3>1, HandleParts DEF InHand
    <3>2. ASSUME NEW j \in DOMAIN notifs'[y], notifs'[y][j] = notifs[y][i]
          PROVE  InHand(d)'
      <4>1. PICK n : n = notifs[y][i]
        OBVIOUS
      <4>2. d \in HandlerKeys(y, n)'
        BY <1>1, <2>2, <4>1, SameKeys
      <4> QED
        BY <3>2, <4>1, <4>2 DEF InHand
    <3> QED
      BY <3>1, <3>2, HandleParts
  <2> QED
    BY <1>2, <2>1, <2>2 DEF InHand, Triggered
<1>3. CASE ~InHand(d)
  BY <1>1, <1>3 DEF Triggered, Coming
<1> QED
  BY <1>2, <1>3

\* A key that comes due is queued.
LEMMA RetryParts ==
    ASSUME TypeOK, NEW key \in Deployments, Retry(key)
    PROVE  /\ UNCHANGED <<api, watch, cache, notifs, running, worker, dropped>>
           /\ q.dirty \subseteq q'.dirty
           /\ q.dirty \cup q.waiting \subseteq q'.dirty \cup q'.waiting
<1> DEFINE r == [q EXCEPT !.waiting = @ \ {key}]
<1>1. r.dirty = q.dirty /\ r.waiting = q.waiting \ {key} /\ r \in Queue
  BY DEF TypeOK, Queue, Key
<1> HIDE DEF r
<1>2. \E order : q' = AddAll(r, {key}, order)
  BY DEF Retry, DelayExpires, Add, r
<1>3. q'.dirty = q.dirty \cup {key} /\ q'.waiting = q.waiting \ {key}
  BY <1>1, <1>2 DEF AddAll, Queue
<1> QED
  BY <1>3 DEF Retry

\* A worker only works while it runs.
LEMMA OnlyRunning ==
    ASSUME EarlyInv, NEW w \in Workers, WorkerStep(w)
    PROVE  running
<1>1. ProcessNextWorkItem(w) \/ Busy(w)
  BY DEF WorkerStep, Decide, List, ApplyVPA, PatchVPA, DeleteOutdated, DeleteOthers,
         DeleteGenerated, FinishWorkItem, Busy
<1> QED
  BY <1>1 DEF ProcessNextWorkItem, EarlyInv

\* Nothing happened to what is known and queued.
LEMMA EarlySame ==
    ASSUME EarlyInv, cache'.deployment = cache.deployment, notifs'.deployment = notifs.deployment,
           UNCHANGED <<worker, running>>, q.dirty \subseteq q'.dirty
    PROVE  EarlyInv'
BY DEF EarlyInv, Arriving, OnDeployment, Busy, Exists

\* Starting loses nobody.
LEMMA EarlyStep ==
    ASSUME TypeOK, WritesInv, EarlyInv, [Next]_vars
    PROVE  EarlyInv'
<1>0. "deployment" \in Kinds
  BY DEF Kinds
<1>1. CASE Restart
  <2>1. cache' = EmptyView /\ worker' = [w \in Workers |-> Idle]
    BY <1>1 DEF Restart
  <2>2. \A d \in Deployments : ~Exists(cache', "deployment", d)
    BY <2>1, DeploymentSlots DEF EmptyView, Exists
  <2>3. \A w \in Workers : worker'[w].pc = "idle"
    BY <2>1 DEF Idle
  <2> QED
    BY <2>2, <2>3 DEF EarlyInv, Busy
<1>2. ASSUME NEW k \in Kinds, Deliver(k)
      PROVE  EarlyInv'
  <2>1. UNCHANGED <<running, q, worker>>
    BY <1>2 DEF Deliver
  <2>2. CASE running
    BY <2>1, <2>2 DEF EarlyInv
  <2>3. CASE ~running
    <3> SUFFICES ASSUME NEW d \in Deployments, Exists(cache', "deployment", d), d \notin q.dirty
                 PROVE  Arriving(d)'
      BY <2>1, <2>3 DEF EarlyInv, Busy
    <3>1. CASE Exists(cache, "deployment", d)
      <4>1. PICK i \in DOMAIN notifs.deployment :
                d \in OnDeployment(notifs.deployment[i])
        BY <2>1, <2>3, <3>1 DEF EarlyInv, Arriving
      <4>2. i \in DOMAIN notifs'.deployment /\ notifs'.deployment[i] = notifs.deployment[i]
        BY <1>0, <1>2, DeliverNotifies
      <4> QED
        BY <4>1, <4>2 DEF Arriving, OnDeployment
    <3>2. CASE ~Exists(cache, "deployment", d)
      <4> DEFINE x == Head(watch[k])
      <4>1. k = "deployment"
        BY <1>2, <3>2, DeliverParts, KindNames DEF Exists
      <4>2. x.name = d /\ x.val # Absent /\ cache[k][x.name] = Absent
        <5>1. cache'.deployment = [cache.deployment EXCEPT ![x.name] = x.val]
          BY <1>2, <4>1, DeliverParts
        <5> QED
          BY <3>2, <4>1, <5>1, DeploymentSlots DEF Exists
      <4>3. PICK i \in DOMAIN notifs'[k] :
              notifs'[k][i] = [name |-> x.name, old |-> cache[k][x.name], new |-> x.val]
        BY <1>2, <4>2, DeliverNotifies
      <4>4. notifs'[k][i].old = Absent /\ notifs'[k][i].name = d
        BY <4>2, <4>3
      <4> QED
        BY <4>1, <4>3, <4>4 DEF Arriving, OnDeployment
    <3> QED
      BY <3>1, <3>2
  <2> QED
    BY <2>2, <2>3
<1>3. ASSUME NEW k \in Kinds, Handle(k)
      PROVE  EarlyInv'
  <2>1. /\ UNCHANGED <<cache, running, worker>>
        /\ q'.dirty = q.dirty \cup HandlerKeys(k, notifs[k][1])
    BY <1>3, HandleParts
  <2>3. ASSUME ~running, NEW d \in Deployments, Exists(cache, "deployment", d), d \notin q'.dirty
        PROVE  Arriving(d)'
    <3>1. PICK i \in DOMAIN notifs.deployment : d \in OnDeployment(notifs.deployment[i])
      BY <2>1, <2>3 DEF EarlyInv, Arriving
    <3>2. ~(k = "deployment" /\ i = 1)
      BY <2>1, <2>3, <3>1 DEF HandlerKeys
    <3>3. PICK j \in DOMAIN notifs'.deployment : notifs'.deployment[j] = notifs.deployment[i]
      BY <1>0, <1>3, <3>2, HandleParts
    <3> QED
      BY <3>1, <3>3 DEF Arriving, OnDeployment
  <2> QED
    BY <2>1, <2>3 DEF EarlyInv, Busy
<1>4. ASSUME NEW key \in Deployments, Retry(key)
      PROVE  EarlyInv'
  BY <1>4, RetryParts, EarlySame
<1>5. ASSUME NEW w \in Workers, WorkerStep(w)
      PROVE  EarlyInv'
  BY <1>5, OnlyRunning, WorkerWrites DEF EarlyInv
<1>6. ASSUME NEW v \in VPANames,
             UserCreatesVPA(v) \/ UserDeletesVPA(v) \/ UserEditsVPA(v) \/ CollectGarbage(v)
      PROVE  EarlyInv'
  BY <1>6, OtherWrites, EarlySame
<1>7. CASE WaitForCacheSync
  BY <1>7 DEF WaitForCacheSync, EarlyInv
<1>8. ASSUME UNCHANGED <<cache, notifs, worker, running, q>>
      PROVE  EarlyInv'
  BY <1>8, EarlySame
<1>9. CASE UNCHANGED vars \/ (\E k \in UserKinds : \E n \in Names[k] : UserWrites(k, n))
           \/ (\E k \in Kinds : Relist(k))
  BY <1>8, <1>9 DEF vars, UserWrites, Relist
<1> QED
  BY <1>1, <1>2, <1>3, <1>4, <1>5, <1>6, <1>7, <1>9 DEF Next, Environment

-----------------------------------------------------------------------------
(* Deliveries lose nobody.                                                  *)

\* The same rules and VPAs: what was settled is, and a worker stays on track.
LEMMA SameSettled ==
    ASSUME TypeOK, NEW d \in Deployments, SameVPAs(d), Allowed(cache', d) = Allowed(cache, d)
    PROVE  Settled(d)' <=> Settled(d)
<1>1. \A v \in VPANames : TargetsDep(cache.vpa[v], d) <=> TargetsDep(cache'.vpa[v], d)
  BY DEF SameVPAs, TargetsDep
<1>2. ListForDeployment(cache', d) = ListForDeployment(cache, d)
  BY <1>1 DEF ListForDeployment, TargetsDep, Exists
<1>3. \A v \in ListForDeployment(cache, d) : v \in VPANames /\ cache'.vpa[v] = cache.vpa[v]
  BY DEF ListForDeployment, SameVPAs, TargetsDep, Exists
<1>4. ManagedVPAs(cache', d) = ManagedVPAs(cache, d)
  BY <1>2, <1>3 DEF ManagedVPAs, IsManagedByWatcher
<1>5. ManagedVPAs(cache, d) = {GeneratedName[d]} =>
          cache'.vpa[GeneratedName[d]] = cache.vpa[GeneratedName[d]]
  BY <1>3 DEF ManagedVPAs
<1> QED
  BY <1>2, <1>4, <1>5 DEF Settled

\* A worker's key is found by what comes, or nothing that matters to it came.
LEMMA SameOnTrack ==
    ASSUME TypeOK, NEW s, s \in WorkerState, WorkerFits(s), HoldsOwn(s), s.pc # "idle",
           SameVPAs(s.key), Allowed(cache', s.key) = Allowed(cache, s.key),
           OnTrack(s), ~Triggered(s.key)
    PROVE  OnTrack(s)'
<1>1. s.key \in Deployments /\ s.doomed \subseteq VPANames
  BY DEF WorkerFits, WorkerState
<1>2. CASE s.pc = "patch" /\ cache.vpa[GeneratedName[s.key]] = s.base
           /\ s.base # GenerateVPAForDeployment(s.key, s.uid, s.config)
  <2>1. s.base \in VPA /\ s.base.target = s.key /\ Absent \notin VPA
    BY <1>2, AbsentAssumption, VPASlots DEF WorkerFits, HoldsOwn, Values
  <2>2. TargetsDep(cache.vpa[GeneratedName[s.key]], s.key)
    BY <1>2, <2>1 DEF TargetsDep
  <2>3. GeneratedName[s.key] \in VPANames
    BY <1>1, ObjectsAssumption
  <2>4. cache'.vpa[GeneratedName[s.key]] = s.base
    BY <1>2, <2>2, <2>3 DEF SameVPAs
  <2> QED
    BY <1>2, <2>4 DEF OnTrack
<1>3. CASE s.pc \in {"cleanup", "remove"} /\ s.doomed # {}
           /\ \A v \in s.doomed : TargetsDep(cache.vpa[v], s.key)
  <2>1. \A v \in s.doomed : TargetsDep(cache'.vpa[v], s.key)
    BY <1>1, <1>3 DEF SameVPAs
  <2> QED
    BY <1>3, <2>1 DEF OnTrack
<1>4. CASE s.pc \in {"cleanup", "remove", "finish"} /\ (s.failed \/ Settled(s.key))
  <2>1. Settled(s.key) => Settled(s.key)'
    BY <1>1, SameSettled
  <2> QED
    BY <1>4, <2>1 DEF OnTrack
<1>5. CASE s.pc \in {"decide", "create", "outdated"}
  BY <1>5 DEF OnTrack
<1>6. CASE s.pc = "list" /\ s.config \in Allowed(cache, s.key)
  BY <1>6 DEF OnTrack
<1> QED
  BY <1>2, <1>3, <1>4, <1>5, <1>6 DEF OnTrack

\* A delivery loses nobody.
LEMMA DeliverFollowed ==
    ASSUME TypeOK, WritesInv, NamespacesInv, Followed, running, NEW k \in Kinds, Deliver(k)
    PROVE  Followed'
<1>1. UNCHANGED <<worker, dropped>>
  BY DEF Deliver
<1>2. ASSUME NEW d \in Deployments, ~Triggered(d)'
      PROVE  ~Triggered(d) /\ Allowed(cache', d) = Allowed(cache, d) /\ SameVPAs(d)
  <2>1. ~Triggered(d)
    BY <1>2, DeliverTriggers
  <2>2. Exists(cache', "deployment", d) /\ ~InHand(d)'
    BY <1>2 DEF Triggered
  <2> QED
    BY <2>1, <2>2, DeliverEnqueues
<1>3. ASSUME NEW d \in Deployments
      PROVE  \/ Triggered(d)' \/ d \in dropped' \/ Settled(d)'
             \/ \E w \in Workers : Busy(w)' /\ worker'[w].key = d
  <2>1. \/ Triggered(d) \/ d \in dropped \/ Settled(d)
        \/ \E w \in Workers : Busy(w) /\ worker[w].key = d
    BY DEF Followed
  <2>2. \A w \in Workers : Busy(w)' <=> Busy(w)
    BY <1>1 DEF Busy
  <2>3. ~Triggered(d)' => ~Triggered(d) /\ (Settled(d)' <=> Settled(d))
    BY <1>2, SameSettled
  <2> QED
    BY <1>1, <2>1, <2>2, <2>3
<1>4. ASSUME NEW w \in Workers, Busy(w)'
      PROVE  OnTrack(worker[w])'
  <2>1. PICK s : s = worker[w]
    OBVIOUS
  <2>2. worker'[w] = s /\ s.pc # "idle" /\ OnTrack(s)
    BY <1>1, <1>4, <2>1 DEF Busy, Followed
  <2>3. s \in WorkerState /\ WorkerFits(s) /\ HoldsOwn(s) /\ s.key \in Deployments
    BY <2>1, <2>2 DEF TypeOK, WritesInv, WorkerFits
  <2>4. OnTrack(s)'
    <3>1. CASE Triggered(s.key)'
      BY <3>1 DEF OnTrack
    <3>2. CASE ~Triggered(s.key)'
      BY <1>2, <2>2, <2>3, <3>2, SameOnTrack
    <3> QED
      BY <3>1, <3>2
  <2> QED
    BY <2>2, <2>4
<1> QED
  BY <1>3, <1>4 DEF Followed

-----------------------------------------------------------------------------
(* Workers lose nobody.                                                     *)

\* A worker takes no trigger away but the one it takes the key for.
LEMMA WorkerTriggers ==
    ASSUME TypeOK, NEW w \in Workers, WorkerStep(w), NEW d, Triggered(d),
           d \in q.dirty \cup q.waiting => d \in q'.dirty \cup q'.waiting
    PROVE  Triggered(d)'
<1>1. UNCHANGED <<cache, notifs>>
  BY WorkerWrites
<1>2. CASE UNCHANGED <<api, watch>>
  BY <1>1, <1>2, SameTriggers
<1>3. ASSUME NEW v \in VPANames, NEW val \in Slot("vpa"), Store("vpa", v, val)
      PROVE  Triggered(d)'
  BY <1>1, <1>3, VPASlots, StoreKeepsTriggers
<1> QED
  BY <1>2, <1>3, WorkerWrites

\* A worker goes on with its key.
LEMMA WorkerStays ==
    ASSUME TypeOK, Followed, NEW w \in Workers, Busy(w), NEW t, t.pc # "idle",
           t.key = worker[w].key, worker' = [worker EXCEPT ![w] = t],
           UNCHANGED <<cache, dropped>>, \A d \in Deployments : Triggered(d) => Triggered(d)',
           OnTrack(t)'
    PROVE  Followed'
<1>1. /\ worker'[w] = t
      /\ \A x \in Workers \ {w} : worker'[x] = worker[x]
      /\ \A x \in Workers : worker'[x].key = worker[x].key /\ (Busy(x)' <=> Busy(x))
  BY DEF TypeOK, Busy
<1>2. \A x \in Workers : Busy(x) => worker[x].key \in Deployments
  BY DEF TypeOK, WorkerFits, Busy
<1>3. \A d \in Deployments :
          \/ Triggered(d)' \/ d \in dropped' \/ Settled(d)'
          \/ \E x \in Workers : Busy(x)' /\ worker'[x].key = d
  BY <1>1, SettledSame DEF Followed
<1>4. ASSUME NEW x \in Workers \ {w}, Busy(x)
      PROVE  OnTrack(worker[x])'
  <2>1. PICK s : s = worker[x]
    OBVIOUS
  <2>2. worker'[x] = s /\ OnTrack(s) /\ s.key \in Deployments
    BY <1>1, <1>2, <1>4, <2>1 DEF Followed
  <2>3. OnTrack(s)'
    BY <2>2, SettledSame DEF OnTrack
  <2> QED
    BY <2>2, <2>3
<1>5. OnTrack(worker[w])'
  BY <1>1
<1> QED
  BY <1>1, <1>3, <1>4, <1>5 DEF Followed

\* Taking a key: it is held by nobody else.
LEMMA TakeFollowed ==
    ASSUME TypeOK, QueueInv, Followed, NEW w \in Workers, ProcessNextWorkItem(w)
    PROVE  Followed'
<1>0. PICK key : key = Head(q.fifo)
  OBVIOUS
<1>1. /\ UNCHANGED <<api, watch, cache, notifs>> /\ worker[w].pc = "idle"
      /\ q' = Get(q) /\ dropped' = dropped \ {key} /\ q.fifo # <<>>
      /\ worker' = [worker EXCEPT ![w].pc = "decide", ![w].key = key]
  BY <1>0 DEF ProcessNextWorkItem
<1>2. q'.dirty = q.dirty \ {key} /\ q'.waiting = q.waiting
  BY <1>0, <1>1 DEF Get, TypeOK, Queue
<1>3. key \notin q.processing
  BY <1>0, <1>1, GetSound, QueueInvParts DEF TypeOK
<1>4. \A x \in Workers : Busy(x) => x # w /\ worker[x].key # key /\ worker[x].key \in Deployments
  BY <1>1, <1>3 DEF QueueInv, Busy, TypeOK, WorkerFits
<1>5. /\ worker'[w].pc = "decide" /\ worker'[w].key = key
      /\ \A x \in Workers \ {w} : worker'[x] = worker[x]
  BY <1>1 DEF TypeOK, WorkerState
<1>6. \A d : d # key /\ Triggered(d) => Triggered(d)'
  BY <1>1, <1>2, SameTriggers
<1>7. ASSUME NEW d \in Deployments
      PROVE  \/ Triggered(d)' \/ d \in dropped' \/ Settled(d)'
             \/ \E x \in Workers : Busy(x)' /\ worker'[x].key = d
  <2>1. CASE d = key
    BY <1>5, <2>1 DEF Busy
  <2>2. CASE d # key
    <3>1. \/ Triggered(d) \/ d \in dropped \/ Settled(d)
          \/ \E x \in Workers : Busy(x) /\ worker[x].key = d
      BY DEF Followed
    <3>2. Settled(d)' <=> Settled(d)
      BY <1>1, SettledSame
    <3>3. \A x \in Workers : Busy(x) => Busy(x)' /\ worker'[x].key = worker[x].key
      BY <1>4, <1>5 DEF Busy
    <3> QED
      BY <1>1, <1>6, <2>2, <3>1, <3>2, <3>3
  <2> QED
    BY <2>1, <2>2
<1>8. ASSUME NEW x \in Workers, Busy(x)'
      PROVE  OnTrack(worker[x])'
  <2>1. CASE x = w
    BY <1>5, <2>1 DEF OnTrack
  <2>2. CASE x # w
    <3>1. PICK s : s = worker[x]
      OBVIOUS
    <3>2. worker'[x] = s /\ Busy(x) /\ OnTrack(s) /\ s.key # key
      BY <1>4, <1>5, <1>8, <2>2, <3>1 DEF Busy, Followed
    <3>3. OnTrack(s)'
      BY <1>1, <1>6, <3>2, SettledSame DEF OnTrack
    <3> QED
      BY <3>2, <3>3
  <2> QED
    BY <2>1, <2>2
<1> QED
  BY <1>7, <1>8 DEF Followed

\* The end of a reconciliation: retried, given up or done.
LEMMA FinishFollowed ==
    ASSUME TypeOK, QueueInv, Followed, NEW w \in Workers, FinishWorkItem(w)
    PROVE  Followed'
<1>0. PICK s : s = worker[w]
  OBVIOUS
<1>1. /\ UNCHANGED <<api, watch, cache, notifs>> /\ worker' = [worker EXCEPT ![w] = Idle]
      /\ \/ s.pc = "finish"
         \/ s.pc \in {"cleanup", "remove"} /\ s.doomed = {}
      /\ q' = QueueAfter(w)
      /\ dropped' = IF GivesUp(w) THEN dropped \cup {s.key} ELSE dropped
  BY <1>0 DEF FinishWorkItem
<1>2. s.key \in Deployments /\ Busy(w)
  BY <1>0, <1>1 DEF TypeOK, WorkerFits, Busy
<1>3. /\ q'.dirty = q.dirty /\ q.waiting \subseteq q'.waiting
      /\ s.failed /\ ~GivesUp(w) => s.key \in q'.waiting
  <2> DEFINE r == IF s.failed /\ ~GivesUp(w) THEN AddRateLimited(q, s.key) ELSE Forget(q, s.key)
  <2>1. /\ r.dirty = q.dirty /\ q.waiting \subseteq r.waiting
        /\ s.failed /\ ~GivesUp(w) => s.key \in r.waiting
    BY DEF AddRateLimited, Forget, TypeOK, Queue
  <2>2. q' = Done(r, s.key)
    BY <1>0, <1>1 DEF QueueAfter
  <2>3. r \in [fifo : {q.fifo}, dirty : {q.dirty}, processing : {q.processing},
               waiting : SUBSET Key, requeues : {r.requeues}]
    BY <1>2 DEF AddRateLimited, Forget, TypeOK, Queue, Key
  <2> HIDE DEF r
  <2>4. q'.dirty = r.dirty /\ q'.waiting = r.waiting
    BY <2>2, <2>3 DEF Done
  <2> QED
    BY <2>1, <2>4
<1>4. \A d : Triggered(d) => Triggered(d)'
  BY <1>1, <1>3, SameTriggers
<1>5. /\ \A x \in Workers \ {w} : worker'[x] = worker[x]
      /\ \A x \in Workers : Busy(x)' => x # w
  BY <1>1 DEF TypeOK, Busy, Idle
<1>6. Triggered(s.key)' \/ s.key \in dropped' \/ Settled(s.key)'
  <2>1. OnTrack(s)
    BY <1>0, <1>2 DEF Followed
  <2>2. Triggered(s.key) \/ s.failed \/ Settled(s.key)
    BY <1>1, <2>1 DEF OnTrack
  <2>3. s.failed /\ GivesUp(w) => s.key \in dropped'
    BY <1>1
  <2>4. s.failed /\ ~GivesUp(w) => Triggered(s.key)'
    BY <1>3 DEF Triggered, InHand
  <2>5. Settled(s.key)' <=> Settled(s.key)
    BY <1>1, SettledSame
  <2> QED
    BY <1>4, <2>2, <2>3, <2>4, <2>5
<1>7. ASSUME NEW d \in Deployments, d # s.key
      PROVE  \/ Triggered(d)' \/ d \in dropped' \/ Settled(d)'
             \/ \E x \in Workers : Busy(x)' /\ worker'[x].key = d
  <2>1. \/ Triggered(d) \/ d \in dropped \/ Settled(d)
        \/ \E x \in Workers : Busy(x) /\ worker[x].key = d
    BY DEF Followed
  <2>2. Settled(d)' <=> Settled(d)
    BY <1>1, SettledSame
  <2>3. dropped \subseteq dropped'
    BY <1>1
  <2>4. \A x \in Workers : Busy(x) /\ worker[x].key = d => Busy(x)' /\ worker'[x].key = d
    BY <1>0, <1>5, <1>7 DEF Busy
  <2> QED
    BY <1>4, <2>1, <2>2, <2>3, <2>4
<1>8. ASSUME NEW x \in Workers, Busy(x)'
      PROVE  OnTrack(worker[x])'
  <2>1. PICK t : t = worker[x]
    OBVIOUS
  <2>2. worker'[x] = t /\ OnTrack(t)
    BY <1>5, <1>8, <2>1 DEF Busy, Followed
  <2>3. OnTrack(t)'
    BY <1>1, <1>4, <2>2, SettledSame DEF OnTrack
  <2> QED
    BY <2>2, <2>3
<1> QED
  BY <1>6, <1>7, <1>8 DEF Followed

\* Deciding.
LEMMA DecideFollowed ==
    ASSUME TypeOK, Followed, NEW w \in Workers, Decide(w)
    PROVE  Followed'
<1>0. PICK s : s = worker[w]
  OBVIOUS
<1>1. /\ s.pc = "decide" /\ s \in WorkerState /\ s.key \in Deployments /\ Busy(w)
      /\ UNCHANGED <<watch, cache, notifs, q, dropped>>
  BY <1>0 DEF Decide, TypeOK, WorkerFits, Busy
<1>2. \A d \in Deployments : Triggered(d) => Triggered(d)'
  BY <1>1, SameTriggers
<1>3. ASSUME NEW t, t.pc # "idle", t.key = s.key, OnTrack(t)', worker' = [worker EXCEPT ![w] = t]
      PROVE  Followed'
  BY <1>0, <1>1, <1>2, <1>3, WorkerStays
<1>4. CASE ~Exists(cache, "deployment", s.key) /\ worker' = [worker EXCEPT ![w].pc = "finish"]
  <2>1. PICK t : t = [s EXCEPT !.pc = "finish"]
    OBVIOUS
  <2>2. t.pc = "finish" /\ t.key = s.key
    BY <1>1, <2>1 DEF WorkerState
  <2>3. worker' = [worker EXCEPT ![w] = t]
    BY <1>0, <1>4, <2>1 DEF TypeOK
  <2>4. Triggered(t.key)'
    BY <1>1, <1>2, <1>4, <2>2 DEF Triggered
  <2> QED
    BY <1>3, <2>2, <2>3, <2>4 DEF OnTrack
<1>5. ASSUME NEW dec \in ShouldManageDeployment(cache, s.key),
             worker' = [worker EXCEPT
                 ![w].pc     = IF dec.kind = "error" THEN "finish" ELSE "list",
                 ![w].failed = dec.kind = "error",
                 ![w].uid    = cache.deployment[s.key].uid,
                 ![w].config = dec.config]
      PROVE  Followed'
  <2>0. PICK u : u = cache.deployment[s.key].uid
    OBVIOUS
  <2>1. PICK t : t = [s EXCEPT !.pc     = IF dec.kind = "error" THEN "finish" ELSE "list",
                               !.failed = dec.kind = "error",
                               !.uid    = u, !.config = dec.config]
    OBVIOUS
  <2>2. /\ t.key = s.key /\ t.config = dec.config
        /\ t.pc = IF dec.kind = "error" THEN "finish" ELSE "list"
        /\ t.failed = (dec.kind = "error")
    BY <1>1, <2>1 DEF WorkerState
  <2>3. worker' = [worker EXCEPT ![w] = t]
    BY <1>0, <1>5, <2>0, <2>1 DEF TypeOK
  <2>4. dec.kind = "error" \/ dec.config \in Allowed(cache, s.key)
    BY DecisionAllowed
  <2>5. OnTrack(t)'
    BY <1>1, <2>2, <2>4 DEF OnTrack
  <2> QED
    BY <1>3, <2>2, <2>3, <2>5
<1> QED
  BY <1>0, <1>4, <1>5 DEF Decide

\* Choosing between the ensure cases.
LEMMA ListFollowed ==
    ASSUME TypeOK, WritesInv, Followed, NEW w \in Workers, List(w)
    PROVE  Followed'
<1>0. PICK s : s = worker[w]
  OBVIOUS
<1> DEFINE d       == s.key
           name    == GeneratedName[d]
           managed == ManagedVPAs(cache, d)
           manual  == ListForDeployment(cache, d) \ managed
           others  == managed \ {name}
<1>1. /\ s.pc = "list" /\ s \in WorkerState /\ d \in Deployments /\ Busy(w)
      /\ UNCHANGED <<watch, cache, notifs, q, dropped>>
  BY <1>0 DEF List, TypeOK, WorkerFits, Busy
<1>2. \A e \in Deployments : Triggered(e) => Triggered(e)'
  BY <1>1, SameTriggers
<1>3. managed \subseteq {name} /\ EnsureNoGenerated(cache, d) = managed
      /\ NameForDeployment(d) = name
      /\ \A v \in managed : TargetsDep(cache.vpa[v], d) /\ v \in VPANames
  <2>1. \A v \in managed : cache.vpa[v] # Absent /\ v \in VPANames
    BY DEF ManagedVPAs, ListForDeployment, Exists
  <2> QED
    BY <1>1, <2>1, ListedOwn DEF EnsureNoGenerated, NameForDeployment, TargetsDep
<1>4. Triggered(d)' \/ s.config \in Allowed(cache, d)
  BY <1>0, <1>1, <1>2 DEF Followed, OnTrack
<1> HIDE DEF managed, manual
<1>5. ASSUME NEW t, t.pc # "idle", t.key = d, worker' = [worker EXCEPT ![w] = t],
             s.config \in Allowed(cache, d) => OnTrack(t)'
      PROVE  Followed'
  <2>1. OnTrack(t)'
    BY <1>4, <1>5 DEF OnTrack
  <2> QED
    BY <1>0, <1>1, <1>2, <1>5, <2>1, WorkerStays
<1>6. Settled(d)' <=> Settled(d)
  BY <1>1, SettledSame
<1>7. CASE s.config = None \/ manual # {}
  <2>1. PICK t : t = [s EXCEPT !.pc = "remove", !.doomed = managed]
    OBVIOUS
  <2>2. worker' = [worker EXCEPT ![w] = t]
    BY <1>0, <1>3, <1>7, <2>1 DEF List, TypeOK, managed, manual
  <2>3. t.pc = "remove" /\ t.key = d /\ t.doomed = managed
    BY <1>1, <2>1 DEF WorkerState
  <2>4. ASSUME s.config \in Allowed(cache, d)
        PROVE  OnTrack(t)'
    <3>1. CASE managed = {}
      <4>1. Settled(d)
        BY <1>7, <2>4, <3>1 DEF Settled, managed, manual
      <4> QED
        BY <1>6, <2>3, <4>1 DEF OnTrack
    <3>2. CASE managed # {}
      <4>1. \A v \in managed : TargetsDep(cache'.vpa[v], d)
        BY <1>1, <1>3
      <4> QED
        BY <2>3, <3>2, <4>1 DEF OnTrack
    <3> QED
      BY <3>1, <3>2
  <2> QED
    BY <1>5, <2>2, <2>3, <2>4
<1>8. CASE s.config # None /\ manual = {} /\ name \notin managed
  <2>1. PICK t : t = [s EXCEPT !.pc = "create", !.doomed = others]
    OBVIOUS
  <2>2. worker' = [worker EXCEPT ![w] = t]
    BY <1>0, <1>3, <1>8, <2>1 DEF List, TypeOK, managed, manual
  <2>3. t.pc = "create" /\ t.key = d
    BY <1>1, <2>1 DEF WorkerState
  <2> QED
    BY <1>5, <2>2, <2>3 DEF OnTrack
<1>9. CASE s.config # None /\ manual = {} /\ name \in managed
  <2> DEFINE desired == GenerateVPAForDeployment(d, s.uid, s.config)
  <2>1. CASE cache.vpa[name] = desired
    <3>1. PICK t : t = [s EXCEPT !.pc = "cleanup", !.doomed = others]
      OBVIOUS
    <3>2. worker' = [worker EXCEPT ![w] = t]
      BY <1>0, <1>3, <1>9, <2>1, <3>1
         DEF List, TypeOK, managed, manual, IsDesiredGeneratedVPA, Desired
    <3>3. t.pc = "cleanup" /\ t.key = d
      BY <1>1, <3>1 DEF WorkerState
    <3>4. ASSUME s.config \in Allowed(cache, d)
          PROVE  Settled(d)
      <4>1. desired.policy = s.config.policy /\ desired.mode = s.config.mode
        BY DEF GenerateVPAForDeployment
      <4>2. managed = {name}
        BY <1>3, <1>9
      <4> HIDE DEF desired
      <4> QED
        BY <1>9, <2>1, <3>4, <4>1, <4>2 DEF Settled, managed, manual
    <3> QED
      BY <1>5, <1>6, <3>2, <3>3, <3>4 DEF OnTrack
  <2>2. CASE cache.vpa[name] # desired
    <3>0. PICK b : b = cache.vpa[name]
      OBVIOUS
    <3>1. PICK t : t = [s EXCEPT !.pc = "patch", !.doomed = others, !.base = b]
      OBVIOUS
    <3>2. worker' = [worker EXCEPT ![w] = t]
      BY <1>0, <1>3, <1>9, <2>2, <3>0, <3>1
         DEF List, TypeOK, managed, manual, IsDesiredGeneratedVPA, Desired
    <3>3. t.pc = "patch" /\ t.key = d /\ t.base = b /\ t.uid = s.uid /\ t.config = s.config
      BY <1>1, <3>1 DEF WorkerState
    <3>4. OnTrack(t)'
      BY <1>1, <2>2, <3>0, <3>3 DEF OnTrack
    <3> QED
      BY <1>5, <3>2, <3>3, <3>4
  <2> QED
    BY <2>1, <2>2
<1> QED
  BY <1>7, <1>8, <1>9

\* A call that takes effect is a trigger, one that does not leaves the worker on
\* track; the worker goes on either way.
LEMMA CallFollowed ==
    ASSUME TypeOK, StreamsInv, Followed, NEW w \in Workers, Busy(w), WorkerStep(w),
           UNCHANGED <<cache, q, dropped>>, NEW v \in VPANames, NEW val, NEW ok, NEW err,
           CallAPI(w, v, val, ok, err),
           ok.pc # "idle", err.pc # "idle", ok.key = worker[w].key, err.key = worker[w].key,
           Triggered(worker[w].key) \/ OnTrack(err)',
           \/ Triggered(worker[w].key) \/ OnTrack(ok)'
           \/ TargetsDep(cache.vpa[v], worker[w].key) /\ cache.vpa[v] # val
           \/ TargetsDep(val, worker[w].key) /\ api.vpa[v] # val
    PROVE  Followed'
<1>0. PICK d : d = worker[w].key
  OBVIOUS
<1>1. d \in Deployments
  BY <1>0 DEF Busy, TypeOK, WorkerFits
<1>2. \A e \in Deployments : Triggered(e) => Triggered(e)'
  BY WorkerTriggers
<1>3. CASE worker' = [worker EXCEPT ![w] = err]
  <2>1. OnTrack(err)'
    BY <1>0, <1>1, <1>2 DEF OnTrack
  <2> QED
    BY <1>2, <1>3, <2>1, WorkerStays
<1>4. CASE Store("vpa", v, val) /\ worker' = [worker EXCEPT ![w] = ok]
  <2>1. Triggered(d)' \/ OnTrack(ok)'
    <3>1. CASE Triggered(d) \/ OnTrack(ok)'
      BY <1>1, <1>2, <3>1
    <3>2. CASE \/ TargetsDep(cache.vpa[v], d) /\ cache.vpa[v] # val
               \/ TargetsDep(val, d) /\ api.vpa[v] # val
      BY <1>4, <3>2, StoreTriggers DEF Triggered
    <3> QED
      BY <1>0, <3>1, <3>2
  <2>2. OnTrack(ok)'
    BY <1>0, <2>1 DEF OnTrack
  <2> QED
    BY <1>2, <1>4, <2>2, WorkerStays
<1> QED
  BY <1>3, <1>4 DEF CallAPI

\* Creating: a VPA that is there already is an error.
LEMMA ApplyFollowed ==
    ASSUME TypeOK, StreamsInv, Followed, NEW w \in Workers, ApplyVPA(w)
    PROVE  Followed'
<1>0. PICK s : s = worker[w]
  OBVIOUS
<1>1. /\ s.pc = "create" /\ s \in WorkerState /\ s.key \in Deployments /\ Busy(w) /\ WorkerStep(w)
      /\ UNCHANGED <<cache, notifs, q, dropped>>
  BY <1>0 DEF ApplyVPA, TypeOK, WorkerFits, Busy, WorkerStep
<1>2. PICK name \in VPANames : name = NameForDeployment(s.key)
  BY <1>1, ObjectsAssumption DEF NameForDeployment
<1>3. PICK ok, err : ok = CleanUp(w, FALSE) /\ err = CleanUp(w, TRUE)
  OBVIOUS
<1>4. /\ ok.pc = "cleanup" /\ ok.key = s.key
      /\ err.pc = "cleanup" /\ err.key = s.key /\ err.failed = TRUE
  BY <1>0, <1>1, <1>3 DEF CleanUp, WorkerState
<1>5. OnTrack(err)'
  BY <1>4 DEF OnTrack
<1>6. CASE Exists(api, "vpa", name) /\ worker' = [worker EXCEPT ![w] = err] /\ UNCHANGED <<api, watch>>
  <2>1. \A d \in Deployments : Triggered(d) => Triggered(d)'
    BY <1>1, <1>6, SameTriggers
  <2> QED
    BY <1>0, <1>1, <1>4, <1>5, <1>6, <2>1, WorkerStays
<1>7. CASE ~Exists(api, "vpa", name) /\ CallAPI(w, name, Desired(w), ok, err)
  <2>0. PICK val : val = Desired(w)
    OBVIOUS
  <2>1. val \in VPA /\ val.target = s.key
    BY <1>0, <1>1, <2>0, DesiredVPAType DEF Desired, GenerateVPAForDeployment
  <2>2. Absent \notin VPA
    BY AbsentAssumption, VPASlots DEF Values
  <2>3. TargetsDep(val, s.key) /\ api.vpa[name] # val
    BY <1>7, <2>1, <2>2 DEF TargetsDep, Exists
  <2>4. CallAPI(w, name, val, ok, err)
    BY <1>7, <2>0
  <2> QED
    BY <1>0, <1>1, <1>4, <1>5, <2>3, <2>4, CallFollowed
<1> QED
  BY <1>0, <1>2, <1>3, <1>6, <1>7 DEF ApplyVPA

\* Patching: what was to be changed in the cached VPA is, so it is reported.
LEMMA PatchFollowed ==
    ASSUME TypeOK, WritesInv, StreamsInv, Followed, NEW w \in Workers, PatchVPA(w)
    PROVE  Followed'
<1>0. PICK s : s = worker[w]
  OBVIOUS
<1>1. /\ s.pc = "patch" /\ s \in WorkerState /\ s.key \in Deployments /\ s.base \in VPA
      /\ Busy(w) /\ WorkerStep(w) /\ HoldsOwn(s)
      /\ UNCHANGED <<cache, notifs, q, dropped>>
  BY <1>0 DEF PatchVPA, TypeOK, WorkerFits, Busy, WorkerStep, WritesInv
<1>2. PICK name \in VPANames : name = GeneratedName[s.key] /\ NameForDeployment(s.key) = name
  BY <1>1, ObjectsAssumption DEF NameForDeployment
<1>3. PICK ok, err : ok = CleanUp(w, FALSE) /\ err = [s EXCEPT !.pc = "outdated", !.base = None]
  OBVIOUS
<1>4. /\ ok.pc = "cleanup" /\ ok.key = s.key
      /\ err.pc = "outdated" /\ err.key = s.key
  BY <1>0, <1>1, <1>3 DEF CleanUp, WorkerState
<1>5. OnTrack(err)'
  BY <1>4 DEF OnTrack
<1>6. CASE worker' = [worker EXCEPT ![w] = err] /\ UNCHANGED <<api, watch>>
  <2>1. \A d \in Deployments : Triggered(d) => Triggered(d)'
    BY <1>1, <1>6, SameTriggers
  <2> QED
    BY <1>0, <1>1, <1>4, <1>5, <1>6, <2>1, WorkerStays
<1>7. ASSUME Exists(api, "vpa", name),
             CallAPI(w, name, MergePatch(s.base, Desired(w), api.vpa[name]), ok, err)
      PROVE  Followed'
  <2>0. PICK val, desired, actual : /\ val = MergePatch(s.base, Desired(w), api.vpa[name])
                                    /\ desired = Desired(w) /\ actual = api.vpa[name]
    OBVIOUS
  <2>1. desired \in VPA /\ actual \in VPA
        /\ desired = GenerateVPAForDeployment(s.key, s.uid, s.config)
    BY <1>0, <1>1, <1>7, <2>0, DesiredVPAType, VPASlots DEF Desired, Exists
  <2>2. CASE Triggered(s.key)
    BY <1>0, <1>1, <1>4, <1>7, <2>2, CallFollowed
  <2>3. CASE ~Triggered(s.key)
    <3>1. cache.vpa[name] = s.base /\ s.base # desired
      BY <1>0, <1>1, <1>2, <2>1, <2>3 DEF Followed, OnTrack
    <3>2. TargetsDep(cache.vpa[name], s.key)
      <4>1. Absent \notin VPA
        BY AbsentAssumption, VPASlots DEF Values
      <4> QED
        BY <1>1, <3>1, <4>1 DEF TargetsDep, HoldsOwn
    <3>3. val # s.base
      <4>1. PICK f \in {"managed", "target", "policy", "mode", "owner"} : s.base[f] # desired[f]
        BY <1>1, <2>1, <3>1 DEF VPA
      <4>2. f \in DOMAIN actual
        BY <2>1, <4>1 DEF VPA
      <4>3. val = MergePatch(s.base, desired, actual)
        BY <2>0
      <4>4. val[f] = desired[f]
        BY <4>1, <4>2, <4>3 DEF MergePatch
      <4> QED
        BY <4>1, <4>4
    <3>4. CallAPI(w, name, val, ok, err)
      BY <1>7, <2>0
    <3> QED
      BY <1>0, <1>1, <1>4, <1>5, <3>1, <3>2, <3>3, <3>4, CallFollowed
  <2> QED
    BY <2>2, <2>3
<1> QED
  BY <1>0, <1>2, <1>3, <1>6, <1>7 DEF PatchVPA

\* Deleting: what the cache shows and is deleted is reported.
LEMMA DeleteFollowed ==
    ASSUME TypeOK, StreamsInv, Followed, NEW w \in Workers,
           DeleteOutdated(w) \/ DeleteOthers(w) \/ DeleteGenerated(w)
    PROVE  Followed'
<1>0. PICK s : s = worker[w]
  OBVIOUS
<1>1. /\ s.pc \in {"outdated", "cleanup", "remove"}
      /\ s \in WorkerState /\ s.key \in Deployments /\ Busy(w) /\ WorkerStep(w)
      /\ UNCHANGED <<cache, notifs, q, dropped>>
  BY <1>0 DEF DeleteOutdated, DeleteOthers, DeleteGenerated, TypeOK, WorkerFits, Busy, WorkerStep
<1>2. CASE DeleteOutdated(w)
  <2>1. PICK name \in VPANames : name = NameForDeployment(s.key)
    BY <1>1, ObjectsAssumption DEF NameForDeployment
  <2>2. PICK err : err = CleanUp(w, TRUE)
    OBVIOUS
  <2>3. err.pc = "cleanup" /\ err.key = s.key /\ err.failed = TRUE
    BY <1>0, <1>1, <2>2 DEF CleanUp, WorkerState
  <2>4. OnTrack(err)'
    BY <2>3 DEF OnTrack
  <2>5. CallAPI(w, name, Absent, err, err)
    BY <1>0, <1>2, <2>1, <2>2 DEF DeleteOutdated, DeleteVPA
  <2> QED
    BY <1>0, <1>1, <2>3, <2>4, <2>5, CallFollowed
<1>3. ASSUME s.pc \in {"cleanup", "remove"}, NEW v \in s.doomed, NEW ok, NEW err,
             ok = [s EXCEPT !.doomed = s.doomed \ {v}],
             err.pc = s.pc, err.key = s.key, err.failed = TRUE, CallAPI(w, v, Absent, ok, err)
      PROVE  Followed'
  <2>1. v \in VPANames /\ ok.pc = s.pc /\ ok.key = s.key /\ ok.failed = s.failed
    BY <1>1, <1>3 DEF WorkerState
  <2>2. OnTrack(err)'
    BY <1>3 DEF OnTrack
  <2>3. \/ Triggered(s.key) \/ OnTrack(ok)'
        \/ TargetsDep(cache.vpa[v], s.key) /\ cache.vpa[v] # Absent
    <3>1. OnTrack(s)
      BY <1>0, <1>1 DEF Followed
    <3>2. s.failed \/ Settled(s.key) => OnTrack(ok)'
      <4>1. Settled(s.key)' <=> Settled(s.key)
        BY <1>1, SettledSame
      <4> QED
        BY <1>3, <2>1, <4>1 DEF OnTrack
    <3> QED
      BY <1>3, <3>1, <3>2 DEF OnTrack, TargetsDep
  <2> QED
    BY <1>0, <1>1, <1>3, <2>1, <2>2, <2>3, CallFollowed
<1>4. CASE DeleteOthers(w)
  <2>1. PICK v \in s.doomed : DeleteVPA(w, v, [s EXCEPT !.doomed = @ \ {v}],
                                        [[s EXCEPT !.doomed = @ \ {v}] EXCEPT !.failed = TRUE])
    BY <1>0, <1>4 DEF DeleteOthers
  <2>2. PICK ok, err : /\ ok = [s EXCEPT !.doomed = s.doomed \ {v}]
                       /\ err = [ok EXCEPT !.failed = TRUE]
    OBVIOUS
  <2>3. err.pc = s.pc /\ err.key = s.key /\ err.failed = TRUE
    BY <1>1, <2>2 DEF WorkerState
  <2>4. CallAPI(w, v, Absent, ok, err)
    BY <2>1, <2>2 DEF DeleteVPA
  <2>5. s.pc = "cleanup"
    BY <1>0, <1>4 DEF DeleteOthers
  <2> QED
    BY <1>3, <2>2, <2>3, <2>4, <2>5
<1>5. CASE DeleteGenerated(w)
  <2>1. PICK v \in s.doomed : DeleteVPA(w, v, [s EXCEPT !.doomed = @ \ {v}],
                                        [s EXCEPT !.doomed = {}, !.failed = TRUE])
    BY <1>0, <1>5 DEF DeleteGenerated
  <2>2. PICK ok, err : /\ ok = [s EXCEPT !.doomed = s.doomed \ {v}]
                       /\ err = [s EXCEPT !.doomed = {}, !.failed = TRUE]
    OBVIOUS
  <2>3. err.pc = s.pc /\ err.key = s.key /\ err.failed = TRUE
    BY <1>1, <2>2 DEF WorkerState
  <2>4. CallAPI(w, v, Absent, ok, err)
    BY <2>1, <2>2 DEF DeleteVPA
  <2>5. s.pc = "remove"
    BY <1>0, <1>5 DEF DeleteGenerated
  <2> QED
    BY <1>3, <2>2, <2>3, <2>4, <2>5
<1> QED
  BY <1>2, <1>4, <1>5

\* No step loses a Deployment.
LEMMA FollowedStep ==
    ASSUME TypeOK, QueueInv, WritesInv, StreamsInv, NamespacesInv, EarlyInv, Followed, [Next]_vars
    PROVE  Followed'
<1>1. EarlyInv'
  BY EarlyStep
<1>2. ASSUME ~running'
      PROVE  Followed'
  <2>1. ~running' => (\A d \in Deployments : Triggered(d)') /\ Followed'
    <3>1. ASSUME EarlyInv', ~running'
          PROVE  (\A d \in Deployments : Triggered(d)') /\ Followed'
      <4>1. "deployment" \in Kinds /\ \A n : HandlerKeys("deployment", n)' = OnDeployment(n)'
        BY DEF Kinds, HandlerKeys
      <4>2. \A d \in Deployments : Triggered(d)'
        <5> SUFFICES ASSUME NEW d \in Deployments, Exists(cache', "deployment", d), d \notin q'.dirty
                     PROVE  InHand(d)'
          BY DEF Triggered, InHand
        <5>1. PICK i \in DOMAIN notifs'.deployment : d \in OnDeployment(notifs.deployment[i])'
          BY <3>1 DEF EarlyInv, Arriving
        <5>2. PICK n : n = notifs'.deployment[i]
          OBVIOUS
        <5>3. d \in HandlerKeys("deployment", n)'
          BY <4>1, <5>1, <5>2
        <5> QED
          BY <4>1, <5>1, <5>2, <5>3 DEF InHand
      <4> QED
        BY <3>1, <4>2 DEF EarlyInv, Followed
    <3> QED
      BY <1>1, <3>1
  <2> QED
    BY <1>2, <2>1
<1>3. CASE UNCHANGED <<cache, worker, dropped>> /\ \A d \in Deployments : Triggered(d) => Triggered(d)'
  BY <1>3, FollowedSame
<1>4. CASE UNCHANGED <<watch, cache, notifs, q, worker, dropped>>
  BY <1>3, <1>4, SameTriggers
<1>5. ASSUME NEW k \in Kinds, NEW n \in Names[k], NEW val \in Slot(k), Store(k, n, val),
             UNCHANGED <<cache, notifs, q, worker, dropped>>
      PROVE  Followed'
  BY <1>3, <1>5, StoreKeepsTriggers
<1>6. CASE WaitForCacheSync
  BY <1>4, <1>6 DEF WaitForCacheSync
<1>7. ASSUME NEW k \in Kinds, Deliver(k)
      PROVE  Followed'
  <2>1. running' = running
    BY <1>7 DEF Deliver
  <2> QED
    BY <1>2, <1>7, <2>1, DeliverFollowed
<1>8. ASSUME NEW k \in Kinds, Handle(k)
      PROVE  Followed'
  BY <1>3, <1>8, HandleParts, HandleTriggers
<1>9. ASSUME NEW w \in Workers, WorkerStep(w)
      PROVE  Followed'
  BY <1>9, TakeFollowed, DecideFollowed, ListFollowed, ApplyFollowed, PatchFollowed,
     DeleteFollowed, FinishFollowed DEF WorkerStep
<1>10. ASSUME NEW key \in Deployments, Retry(key)
       PROVE  Followed'
  BY <1>3, <1>10, RetryParts, SameTriggers
<1>11. ASSUME NEW v \in VPANames,
              UserCreatesVPA(v) \/ UserDeletesVPA(v) \/ UserEditsVPA(v) \/ CollectGarbage(v)
       PROVE  Followed'
  BY <1>5, <1>11, OtherWrites, VPASlots
<1>12. ASSUME NEW k \in UserKinds, NEW n \in Names[k], UserWrites(k, n)
       PROVE  Followed'
  <2>1. PICK val \in UserValues(k, n) : Store(k, n, val)
    BY <1>12 DEF UserWrites
  <2>2. UNCHANGED <<cache, notifs, q, worker, dropped>>
    BY <1>12 DEF UserWrites
  <2> QED
    BY <1>5, <2>1, <2>2, UserValuesType DEF UserKinds
<1>13. ASSUME NEW k \in Kinds, Relist(k)
       PROVE  FALSE
  BY <1>13 DEF Relist, Spend, StreamsInv
<1>14. CASE Restart
  BY <1>2, <1>14 DEF Restart
<1>15. CASE UNCHANGED vars
  BY <1>4, <1>15 DEF vars
<1> QED
  BY <1>6, <1>7, <1>8, <1>9, <1>10, <1>11, <1>12, <1>13, <1>14, <1>15 DEF Next, Environment

-----------------------------------------------------------------------------
(* Initial states.                                                          *)

\* What the scenarios' start gives.
LEMMA InitParts ==
    ASSUME Init
    PROVE  \E s \in Scenarios :
              /\ api = s.start /\ IsView(api) /\ steps = s.steps
              /\ \A k \in Kinds : watch[k] = InitialList(api, k)
              /\ cache = EmptyView /\ nextUid = FirstUid /\ FirstUid \in Nat \ {0} /\ ~running
              /\ \A w \in Workers : worker[w] = Idle
<1>1. PICK s \in Scenarios : /\ api = s.start /\ steps = s.steps
                             /\ watch = [k \in Kinds |-> InitialList(s.start, k)]
  BY DEF Init
<1>2. IsView(api) /\ \A k \in Kinds : watch[k] = InitialList(api, k)
  BY <1>1, WatcherAssumption
<1>3. FirstUid \in Nat \ {0}
  BY ObjectsAssumption, FS_CardinalityType DEF FirstUid
<1> QED
  BY <1>1, <1>2, <1>3 DEF Init

\* The first lists hold what the API server holds.
LEMMA StreamsInit == ASSUME NobodyRelists, Init PROVE StreamsInv
<1>1. PICK s \in Scenarios : /\ IsView(api) /\ steps = s.steps /\ cache = EmptyView
                             /\ \A k \in Kinds : watch[k] = InitialList(api, k)
  BY InitParts
<1>2. \A k \in Kinds : Follows(watch[k], cache[k], api[k])
  BY <1>1, InitialFollows
<1> QED
  BY <1>1, <1>2 DEF StreamsInv, NobodyRelists

\* The first list has every Deployment's namespace.
LEMMA NamespacesInit == ASSUME NamespacesExist, Init PROVE NamespacesInv
<1>1. PICK s \in Scenarios : /\ api = s.start /\ IsView(api) /\ ~running
                             /\ \A k \in Kinds : watch[k] = InitialList(api, k)
  BY InitParts
<1>2. "namespace" \in Kinds /\ Names["namespace"] = Namespaces
  BY KindNames
<1>3. \A d \in Deployments : NamespaceOf[d] \in Namespaces
                             /\ Exists(api, "namespace", NamespaceOf[d])
  BY <1>1, ObjectsAssumption DEF NamespacesExist
<1> DEFINE list == InitialList(api, "namespace")
<1>4. watch.namespace = list
  BY <1>1, <1>2
<1>5. /\ \A i \in DOMAIN list : list[i].initial /\ list[i].val # Absent
      /\ \A n \in Namespaces : Exists(api, "namespace", n) => \E i \in DOMAIN list : list[i].name = n
  <2>1. \A i \in DOMAIN list :
           /\ list[i].initial /\ Exists(api, "namespace", list[i].name)
           /\ list[i].val = api["namespace"][list[i].name]
    BY <1>1, <1>2, InitialListParts
  <2>2. \A n \in Namespaces : Exists(api, "namespace", n) => \E i \in DOMAIN list : list[i].name = n
    BY <1>1, <1>2, InitialListParts
  <2> QED
    BY <2>1, <2>2 DEF Exists
<1> HIDE DEF list
<1> QED
  BY <1>1, <1>3, <1>4, <1>5 DEF NamespacesInv

\* UIDs are distinct at the start.
LEMMA UidsInit == ASSUME UniqueUids, Init PROVE UidsInv
<1>1. PICK s \in Scenarios : /\ api = s.start /\ IsView(api) /\ cache = EmptyView
                             /\ nextUid = FirstUid /\ FirstUid \in Nat \ {0}
                             /\ \A k \in Kinds : watch[k] = InitialList(api, k)
                             /\ \A w \in Workers : worker[w] = Idle
  BY InitParts
<1>2. api.deployment \in [Deployments -> [uid : Nat \ {0}] \cup {Absent}]
  BY <1>1, DeploymentSlots DEF IsView
<1>3. ASSUME NEW d \in Deployments, Exists(api, "deployment", d)
      PROVE  Belongs(api.deployment[d].uid, d)
  <2>1. api.deployment[d].uid \in Nat \ {0} /\ api.deployment[d].uid < FirstUid
    BY <1>1, <1>2, <1>3, WatcherAssumption DEF Exists
  <2>2. OnlyOf(api, d, api.deployment[d].uid)
    BY <1>1, <1>3 DEF UniqueUids
  <2> QED
    BY <1>1, <2>1, <2>2 DEF Belongs
<1>4. \A v \in VPANames : OwnerUid(api.vpa[v])
  BY <1>1 DEF UniqueUids, OwnerUid, Belongs
<1>5. \A d \in Deployments : ~Exists(cache, "deployment", d)
  BY <1>1, DeploymentSlots DEF EmptyView, Exists
<1>6. \A w \in Workers : WorkerUid(worker[w])
  BY <1>1 DEF WorkerUid, Idle
<1> DEFINE list == InitialList(api, "deployment")
<1>7. watch.deployment = list
  BY <1>1, DeploymentSlots
<1>8. \A i \in DOMAIN list : /\ list[i].name \in Deployments
                             /\ Exists(api, "deployment", list[i].name)
                             /\ list[i].val = api.deployment[list[i].name]
  BY <1>1, InitialListParts, DeploymentSlots
<1> HIDE DEF list
<1>9. \A i \in DOMAIN list : Belongs(list[i].val.uid, list[i].name)
  BY <1>3, <1>8
<1> QED
  BY <1>3, <1>4, <1>5, <1>6, <1>7, <1>9 DEF UidsInv, DeploymentUids

\* Nothing is known yet.
LEMMA FollowedInit == ASSUME Init PROVE EarlyInv /\ Followed
<1>1. cache = EmptyView /\ ~running /\ \A w \in Workers : worker[w] = Idle
  BY InitParts
<1>2. EarlyInv
  BY <1>1, DeploymentSlots DEF EarlyInv, Busy, Idle, EmptyView, Exists
<1> QED
  BY <1>1, <1>2, EarlyTriggers

-----------------------------------------------------------------------------
(* Convergence.                                                             *)

\* The configurations the requirements ask for are the ones the rules allow.
LEMMA WantedByRules ==
    ASSUME TypeOK, NEW d \in Deployments, Exists(api, "deployment", d)
    PROVE  /\ \A c \in Allowed(api, d) \ {None} : c \in WantedConfigs(d)
           /\ None \in Allowed(api, d) => WantedConfigs(d) = {}
<1> DEFINE ns      == NamespaceOf[d]
           regexes == GetWatchedNamespaceRegexesMatchingNamespace(api, ns)
<1>1. /\ ns \in Namespaces
      /\ api.watchedNamespace \in [Namespaces -> Slot("watchedNamespace")]
      /\ api.watchedRegex \in [RegexNames -> Slot("watchedRegex")]
  BY ObjectsAssumption, KindNames DEF TypeOK, IsView
<1>2. /\ Exists(api, "watchedNamespace", ns) => api.watchedNamespace[ns].config \in Configs
      /\ \A r \in RegexNames : Exists(api, "watchedRegex", r) =>
            api.watchedRegex[r].config \in Configs /\ api.watchedRegex[r].created \in Nat
  BY <1>1 DEF Exists, Slot, Values
<1>3. GetIgnoredWorkload(api, d) # {} \/ Exists(api, "ignoredNamespace", ns) <=> Ignored(d)
  BY DEF GetIgnoredWorkload, Ignored
<1>4. Selecting(d) = regexes
  BY DEF Selecting, GetWatchedNamespaceRegexesMatchingNamespace
<1>5. Oldest(d) = OldestWatchedNamespaceRegex(api, regexes)
  <2>1. \A r \in regexes : r \in RegexNames /\ Exists(api, "watchedRegex", r)
    BY DEF GetWatchedNamespaceRegexesMatchingNamespace
  <2> HIDE DEF regexes
  <2>2. \A r, s \in regexes : ~(api.watchedRegex[s].created < api.watchedRegex[r].created)
                              <=> api.watchedRegex[r].created <= api.watchedRegex[s].created
    BY <1>2, <2>1
  <2> QED
    BY <1>4, <2>2 DEF Oldest, OldestWatchedNamespaceRegex
<1>6. OldestWatchedNamespaceRegex(api, regexes) \subseteq regexes
      /\ \A r \in regexes : api.watchedRegex[r].config \in Configs
  BY <1>2 DEF OldestWatchedNamespaceRegex, GetWatchedNamespaceRegexesMatchingNamespace
<1> HIDE DEF regexes
<1>7. CASE Ignored(d)
  BY <1>3, <1>7 DEF Allowed, WantedConfigs
<1>8. CASE ~Ignored(d) /\ Exists(api, "watchedNamespace", ns)
  <2>1. Allowed(api, d) = {api.watchedNamespace[ns].config}
    BY <1>3, <1>8 DEF Allowed
  <2> QED
    BY <1>2, <1>8, <2>1, NoneAssumption DEF WantedConfigs, Exists
<1>9. CASE ~Ignored(d) /\ ~Exists(api, "watchedNamespace", ns) /\ regexes = {}
  <2>1. Allowed(api, d) = {None}
    BY <1>3, <1>9 DEF Allowed, regexes
  <2>2. Oldest(d) = {}
    BY <1>5, <1>6, <1>9
  <2> QED
    BY <1>9, <2>1, <2>2 DEF WantedConfigs, Exists
<1>10. CASE ~Ignored(d) /\ ~Exists(api, "watchedNamespace", ns) /\ regexes # {}
  <2>1. Allowed(api, d) = {api.watchedRegex[r].config : r \in Oldest(d)}
    BY <1>3, <1>5, <1>10 DEF Allowed, regexes
  <2>2. \A r \in Oldest(d) : api.watchedRegex[r].config \in Configs
    BY <1>5, <1>6
  <2> QED
    BY <1>10, <2>1, <2>2, NoneAssumption DEF WantedConfigs, Exists
<1> QED
  BY <1>7, <1>8, <1>9, <1>10

\* A labelled VPA that is no garbage is owned by the Deployment it targets.
LEMMA OwnedByTarget ==
    ASSUME TypeOK, UidsInv, NEW v \in VPANames, ~Orphaned(v), NEW d \in Deployments,
           Exists(api, "vpa", v), api.vpa[v].managed, api.vpa[v].target = d
    PROVE  Exists(api, "deployment", d) /\ api.vpa[v].owner = api.deployment[d].uid
<1>1. Belongs(api.vpa[v].owner, d)
  BY DEF UidsInv, OwnerUid, Exists
<1>2. api.vpa[v].owner # 0
  BY <1>1 DEF Belongs
<1>3. PICK e \in Deployments : Exists(api, "deployment", e)
                               /\ api.deployment[e].uid = api.vpa[v].owner
  BY <1>2 DEF Orphaned
<1> QED
  BY <1>1, <1>3 DEF Belongs, OnlyOf

\* With nothing in flight the cache is the API server's state, nobody is triggered,
\* and what is settled has converged.
LEMMA QuietConverged ==
    ASSUME TypeOK, QueueInv, StreamsInv, UidsInv, Followed
    PROVE  QuiescentConverged
<1> SUFFICES ASSUME Quiescent, NEW d \in Deployments, d \notin dropped
             PROVE  Converged(d)
  BY DEF QuiescentConverged
<1>1. \A k \in Kinds : cache[k] = api[k] /\ watch[k] = <<>> /\ notifs[k] = <<>>
  <2> SUFFICES ASSUME NEW k \in Kinds
               PROVE  cache[k] = api[k] /\ watch[k] = <<>> /\ notifs[k] = <<>>
    OBVIOUS
  <2>1. watch[k] = <<>> /\ notifs[k] = <<>> /\ Follows(watch[k], cache[k], api[k])
    BY DEF Quiescent, StreamsInv
  <2>2. \A n \in Names[k] : cache[k][n] = api[k][n]
    BY <2>1, KindTypes DEF Follows
  <2> QED
    BY <2>1, <2>2, KindTypes
<1>2. /\ cache.vpa = api.vpa /\ cache.deployment = api.deployment
      /\ cache.ignoredWorkload = api.ignoredWorkload
      /\ cache.ignoredNamespace = api.ignoredNamespace
      /\ cache.watchedNamespace = api.watchedNamespace
      /\ cache.watchedRegex = api.watchedRegex /\ watch.vpa = <<>>
  BY <1>1, KindNames
<1>3. q.dirty = {} /\ q.waiting = {} /\ \A w \in Workers : ~Busy(w)
  BY DEF Quiescent, QueueInv, Queued
<1>4. ~InHand(d) /\ ~Coming(d)
  BY <1>1, <1>2, <1>3 DEF InHand, Coming
<1>5. Exists(api, "deployment", d) => Settled(d)
  BY <1>2, <1>3, <1>4 DEF Followed, Triggered, Exists
<1>6. Allowed(cache, d) = Allowed(api, d)
  <2>1. GetIgnoredWorkload(cache, d) = GetIgnoredWorkload(api, d)
    BY <1>2 DEF GetIgnoredWorkload, Exists
  <2>2. GetWatchedNamespaceRegexesMatchingNamespace(cache, NamespaceOf[d]) =
        GetWatchedNamespaceRegexesMatchingNamespace(api, NamespaceOf[d])
    BY <1>2 DEF GetWatchedNamespaceRegexesMatchingNamespace, Exists
  <2> QED
    BY <1>2, <2>1, <2>2, SameRules
<1> DEFINE managed == ManagedVPAs(cache, d)
           manual  == ListForDeployment(cache, d) \ managed
<1>7. managed = GeneratedVPAs(d) /\ manual = ManualVPAs(d)
  BY <1>2 DEF ManagedVPAs, ListForDeployment, IsManagedByWatcher, GeneratedVPAs, ManualVPAs, Exists
<1>8. \A v \in GeneratedVPAs(d) : /\ Exists(api, "deployment", d)
                                  /\ api.vpa[v].owner = api.deployment[d].uid
  BY OwnedByTarget DEF GeneratedVPAs, Quiescent
<1>9. CASE ~Exists(api, "deployment", d)
  <2>1. GeneratedVPAs(d) = {} /\ WantedConfigs(d) = {}
    BY <1>8, <1>9 DEF WantedConfigs
  <2> QED
    BY <2>1 DEF Converged
<1>10. CASE Exists(api, "deployment", d)
  <2>1. CASE managed = {} /\ (manual # {} \/ None \in Allowed(cache, d))
    <3>1. GeneratedVPAs(d) = {} /\ (ManualVPAs(d) # {} \/ WantedConfigs(d) = {})
      BY <1>6, <1>7, <1>10, <2>1, WantedByRules
    <3> QED
      BY <3>1 DEF Converged
  <2>2. ASSUME managed = {GeneratedName[d]}, manual = {}, NEW c \in Allowed(cache, d) \ {None},
               cache.vpa[GeneratedName[d]].policy = c.policy,
               cache.vpa[GeneratedName[d]].mode = c.mode
        PROVE  Converged(d)
    <3>1. c \in WantedConfigs(d)
      BY <1>6, <1>10, WantedByRules
    <3>2. api.vpa[GeneratedName[d]].policy = c.policy /\ api.vpa[GeneratedName[d]].mode = c.mode
      BY <1>2, <2>2
    <3>3. GeneratedVPAs(d) = {GeneratedName[d]} /\ ManualVPAs(d) = {}
      BY <1>7, <2>2
    <3>4. api.vpa[GeneratedName[d]].owner = api.deployment[d].uid
      BY <1>8, <3>3
    <3> QED
      BY <3>1, <3>2, <3>3, <3>4 DEF Converged
  <2>3. Settled(d)
    BY <1>5, <1>10
  <2> QED
    BY <2>1, <2>2, <2>3 DEF Settled
<1> QED
  BY <1>9, <1>10

\* When nothing is in flight every Deployment has the VPA the objects ask for,
\* unless its last reconciliation was given up: whatever the order of events, no
\* handler forgets to turn one into a key and no worker drops a key unsettled.
THEOREM QuiescentConverges ==
    ASSUME NobodyRetargets, DistinctNames, NobodyRelists, NamespacesExist, UniqueUids
    PROVE  Spec => []QuiescentConverged
<1> DEFINE Inv == /\ WritesInv /\ StreamsInv /\ NamespacesInv /\ UidsInv /\ EarlyInv /\ Followed
<1>1. Init => Inv
  BY StartsOwn, StreamsInit, NamespacesInit, UidsInit, FollowedInit
<1>2. TypeOK /\ QueueInv /\ Inv /\ [Next]_vars => Inv'
  BY WritesStep, StreamsStep, NamespacesStep, UidsStep, EarlyStep, FollowedStep
<1>3. TypeOK /\ QueueInv /\ Inv => QuiescentConverged
  BY QuietConverged
<1> QED
  BY <1>1, <1>2, <1>3, TypeCorrect, QueueCorrect, PTL DEF Spec
=============================================================================
