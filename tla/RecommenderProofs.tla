-------------------------- MODULE RecommenderProofs ---------------------------
(***************************************************************************)
(* What holds of the recommender's cycle for any number of VPAs, policies, *)
(* workers and environment steps:                                          *)
(*   Types, Skips, Ownership   the invariants TypeOK, NoneSkipped and      *)
(*                             EstimatorsOwned                             *)
(*   HistoryIsKept             the action property HistoryKept, while no   *)
(*                             call for a target's selector fails          *)
(*   Refinement                the cycle implements VPAContract            *)
(* The first three follow from CycleInv: what is observed is tracked, so   *)
(* that no worker ever returns early, and pointers are never reused; the   *)
(* fourth from NothingFed as well: what matches no pod learns nothing. The *)
(* refinement rests on Versions (states of a VPA with the same resource    *)
(* version are the same state) and Captures (a snapshot on its way to an   *)
(* unchanged VPA was stated in that VPA's life).                           *)
(***************************************************************************)
EXTENDS RecommenderProperties, SequenceTheorems, TLAPS

-----------------------------------------------------------------------------
(* Logs of an object's states.                                              *)

\* The states at both ends of a log belong to it.
LEMMA LogEnds ==
    ASSUME NEW S, NEW log \in Logs(S)
    PROVE  /\ Len(log) \in Nat \ {0} /\ DOMAIN log = 1..Len(log)
           /\ \A i \in DOMAIN log : log[i] \in S
           /\ Listed(log) \in S /\ Stored(log) \in S
           /\ 1 \in DOMAIN log /\ Len(log) \in DOMAIN log
<1>1. log \in Seq(S) /\ log # <<>>
  BY DEF Logs
<1>2. Len(log) \in Nat \ {0} /\ DOMAIN log = 1..Len(log)
  BY <1>1, EmptySeq, LenProperties
<1>3. \A i \in 1..Len(log) : log[i] \in S
  BY <1>1, ElementOfSeq
<1> QED
  BY <1>2, <1>3 DEF Listed, Stored

\* A write adds a state at the end.
LEMMA LogAppend ==
    ASSUME NEW S, NEW log \in Logs(S), NEW x \in S
    PROVE  /\ Append(log, x) \in Logs(S)
           /\ Stored(Append(log, x)) = x /\ Listed(Append(log, x)) = Listed(log)
           /\ \A i \in DOMAIN Append(log, x) :
                  Append(log, x)[i] = x \/ \E j \in DOMAIN log : Append(log, x)[i] = log[j]
<1>1. log \in Seq(S)
  BY DEF Logs
<1>2. Len(log) \in Nat \ {0} /\ DOMAIN log = 1..Len(log)
  BY LogEnds
<1>3. /\ Append(log, x) \in Seq(S) /\ Len(Append(log, x)) = Len(log) + 1
      /\ \A i \in 1..Len(log) : Append(log, x)[i] = log[i]
      /\ Append(log, x)[Len(log) + 1] = x
  BY <1>1, AppendProperties
<1>4. DOMAIN Append(log, x) = 1..(Len(log) + 1)
  BY <1>3, LenProperties
<1>5. Append(log, x) # <<>>
  BY <1>2, <1>3, EmptySeq
<1> QED
  BY <1>2, <1>3, <1>4, <1>5 DEF Logs, Stored, Listed

\* A lister that catches up drops the state it showed.
LEMMA LogTail ==
    ASSUME NEW S, NEW log \in Logs(S), Len(log) > 1
    PROVE  /\ Tail(log) \in Logs(S) /\ Stored(Tail(log)) = Stored(log)
           /\ \A i \in DOMAIN Tail(log) : \E j \in DOMAIN log : Tail(log)[i] = log[j]
<1>1. log \in Seq(S) /\ log # <<>>
  BY DEF Logs
<1>2. Len(log) \in Nat \ {0} /\ DOMAIN log = 1..Len(log)
  BY LogEnds
<1>3. /\ Tail(log) \in Seq(S) /\ Len(Tail(log)) = Len(log) - 1
      /\ \A i \in 1..(Len(log) - 1) : Tail(log)[i] = log[i + 1]
  BY <1>1, HeadTailProperties
<1>4. DOMAIN Tail(log) = 1..(Len(log) - 1)
  BY <1>2, <1>3, LenProperties
<1>e. Len(<<>>) = 0
  OBVIOUS
<1>g. Len(Tail(log)) # 0
  BY <1>2, <1>3
<1>5. Tail(log) # <<>>
  BY <1>e, <1>g, Zenon
<1>6. Tail(log)[Len(log) - 1] = log[Len(log)]
  BY <1>2, <1>3
<1>7. \A i \in DOMAIN Tail(log) : i + 1 \in DOMAIN log /\ Tail(log)[i] = log[i + 1]
  BY <1>2, <1>3, <1>4
<1> QED
  BY <1>3, <1>5, <1>6, <1>7 DEF Logs, Stored

\* A log of one state.
LEMMA LogOne ==
    ASSUME NEW S, NEW x \in S
    PROVE  /\ <<x>> \in Logs(S) /\ Stored(<<x>>) = x /\ Listed(<<x>>) = x
           /\ \A i \in DOMAIN <<x>> : <<x>>[i] = x
BY DEF Logs, Stored, Listed

-----------------------------------------------------------------------------
(* Types.                                                                   *)

StoresOK ==
    /\ vpas \in [VPAs -> Logs(VPA \cup {None})]
    /\ policies \in [Policies -> Logs(Policy \cup {None})]
    /\ target \in [VPAs -> Target \cup {None}]
    /\ seen \in [VPAs -> SUBSET Requests]
    /\ nextUid \in Nat /\ nextRv \in Nat
    /\ steps \in 0..MaxSteps

MemoryOK ==
    /\ tracked \in [VPAs -> Tracked \cup {None}]
    /\ observed \in [VPAs -> VPA \cup {None}]
    /\ estimators \in [VPAs -> Estimators \cup {None}]
    /\ phase \in {"idle", "updating"}
    /\ pending \subseteq VPAs
    /\ nextId \in Nat

WorkersOK ==
    /\ worker \in [Workers -> WorkerState]
    /\ \A w \in Workers : worker[w].pc \notin {"idle", "stopped"} =>
            worker[w].vpa \in VPAs /\ phase = "updating"

(* What is observed is tracked, and so is what a worker works on; a Vpa's  *)
(* id is taken; estimators belong to what is tracked.                      *)
CycleInv ==
    /\ \A v \in VPAs : observed[v] # None <=> tracked[v] # None
    /\ \A v \in pending : tracked[v] # None
    /\ \A w \in Workers : worker[w].pc # "stopped"
    /\ \A w \in Workers : worker[w].pc # "idle" =>
            tracked[worker[w].vpa] # None /\ observed[worker[w].vpa] # None
    /\ phase = "idle" => pending = {}
    /\ \A v \in VPAs : tracked[v] # None => tracked[v].id < nextId
    /\ EstimatorsOwned

\* Idle is a state of a worker.
LEMMA IdleType == Idle \in WorkerState /\ Idle.pc = "idle"
BY DEF Idle, WorkerState, Status

\* A counted step leaves a bounded number of them.
LEMMA StepType ==
    ASSUME steps \in 0..MaxSteps, NEW kind, TakesStep(kind)
    PROVE  steps' \in 0..MaxSteps
BY RecommenderAssumption DEF TakesStep

\* The stored and the listed VPA of a name.
LEMMA VPAEnds ==
    ASSUME StoresOK, NEW v \in VPAs
    PROVE  /\ Stored(vpas[v]) \in VPA \cup {None} /\ Listed(vpas[v]) \in VPA \cup {None}
           /\ vpas[v] \in Logs(VPA \cup {None})
<1>1. vpas[v] \in Logs(VPA \cup {None})
  BY DEF StoresOK
<1> QED
  BY <1>1, LogEnds

\* Writing a VPA keeps the types.
LEMMA StoreType ==
    ASSUME StoresOK, NEW v \in VPAs, NEW x \in VPA, StoreVPA(v, x)
    PROVE  /\ vpas' \in [VPAs -> Logs(VPA \cup {None})]
           /\ nextRv' \in Nat
           /\ vpas' = [vpas EXCEPT ![v] = Append(@, [x EXCEPT !.rv = nextRv])]
           /\ [x EXCEPT !.rv = nextRv] \in VPA
<1>1. [x EXCEPT !.rv = nextRv] \in VPA
  BY DEF VPA, StoresOK
<1>2. Append(vpas[v], [x EXCEPT !.rv = nextRv]) \in Logs(VPA \cup {None})
  BY <1>1, VPAEnds, LogAppend
<1>3. vpas' = [vpas EXCEPT ![v] = Append(@, [x EXCEPT !.rv = nextRv])]
  BY DEF StoreVPA
<1>4. nextRv' \in Nat
  BY DEF StoreVPA, StoresOK
<1> DEFINE y == [x EXCEPT !.rv = nextRv]
<1> HIDE DEF y
<1>5. vpas' \in [VPAs -> Logs(VPA \cup {None})]
  <2>1. vpas' = [vpas EXCEPT ![v] = Append(@, y)]
    BY <1>3 DEF y
  <2>2. Append(vpas[v], y) \in Logs(VPA \cup {None})
    BY <1>2 DEF y
  <2> QED
    BY <2>1, <2>2 DEF StoresOK
<1> QED
  BY <1>1, <1>3, <1>4, <1>5

\* Every step of the API server and the informers keeps their types.
LEMMA StoresStep == TypeOK /\ CycleInv /\ [Next]_vars => StoresOK'
<1> SUFFICES ASSUME TypeOK, CycleInv, [Next]_vars
             PROVE  StoresOK'
  OBVIOUS
<1>t. StoresOK /\ WorkersOK /\ MemoryOK
  BY DEF TypeOK, StoresOK, WorkersOK, MemoryOK
<1>n. None \in Status /\ Empty \in Status
  BY DEF Status
<1>s. ASSUME UNCHANGED stores, UNCHANGED <<nextUid, nextRv>>, steps' \in 0..MaxSteps
      PROVE  StoresOK'
  BY <1>t, <1>s DEF stores, StoresOK
<1>k. steps \in 0..MaxSteps
  BY <1>t DEF StoresOK
<1>1. ASSUME NEW failing \in SUBSET VPAs, LoadVPAs(failing)
      PROVE  StoresOK'
  <2>1. steps' = steps \/ TakesStep("selector")
    BY <1>1 DEF LoadVPAs
  <2>2. UNCHANGED stores /\ UNCHANGED <<nextUid, nextRv>>
    BY <1>1 DEF LoadVPAs
  <2> QED
    BY <1>s, <1>k, <2>1, <2>2, StepType
<1>2. ASSUME NEW w \in Workers, NEW v \in VPAs, Take(w, v)
      PROVE  StoresOK'
  BY <1>2, <1>s, <1>k DEF Take
<1>3. ASSUME NEW w \in Workers, Capture(w)
      PROVE  StoresOK'
  BY <1>3, <1>s, <1>k DEF Capture
<1>4. ASSUME NEW w \in Workers, Update(w)
      PROVE  StoresOK'
  <2> DEFINE v == worker[w].vpa
             copy == [observed[v] EXCEPT !.snapshot = worker[w].snapshot,
                                         !.rec = Stored(vpas[v]).rec]
  <2>1. worker[w].pc = "update" /\ UNCHANGED <<policies, target, seen, nextUid>>
    BY <1>4 DEF Update
  <2>2. v \in VPAs /\ worker[w].snapshot \in Requests \cup {None}
    BY <1>t, <2>1 DEF WorkersOK, WorkerState
  <2>3. CASE SameVersion(v) /\ StoreVPA(v, copy) /\ UNCHANGED steps
    <3>1. Stored(vpas[v]) \in VPA
      BY <1>t, <2>2, <2>3, VPAEnds DEF SameVersion
    <3>2. CASE observed[v] \in VPA
      <4>1. copy \in VPA
        BY <2>2, <3>1, <3>2 DEF VPA
      <4> QED
        BY <1>t, <2>1, <2>2, <2>3, <4>1, StoreType DEF StoresOK
    <3> QED
      BY <1>t, <2>1, <2>2, <3>2 DEF MemoryOK, CycleInv
  <2>4. CASE UNCHANGED <<vpas, nextRv>> /\ (steps' = steps \/ TakesStep("fault"))
    BY <1>k, <1>t, <2>1, <2>4, StepType DEF StoresOK
  <2> QED
    BY <1>4, <2>3, <2>4 DEF Update
<1>5. ASSUME NEW w \in Workers, Recommend(w)
      PROVE  StoresOK'
  <2>1. steps' = steps \/ TakesStep("fault")
    BY <1>5 DEF Recommend
  <2>2. UNCHANGED stores /\ UNCHANGED <<nextUid, nextRv>>
    BY <1>5 DEF Recommend
  <2> QED
    BY <1>s, <1>k, <2>1, <2>2, StepType
<1>6. ASSUME NEW w \in Workers, Publish(w)
      PROVE  StoresOK'
  <2> DEFINE v == worker[w].vpa
             new == [Stored(vpas[v]) EXCEPT !.rec = worker[w].status]
  <2>1. worker[w].pc = "publish" /\ UNCHANGED <<policies, target, seen, nextUid>>
    BY <1>6 DEF Publish
  <2>2. v \in VPAs /\ worker[w].status \in Status
    BY <1>t, <2>1 DEF WorkersOK, WorkerState
  <2>3. CASE Stored(vpas[v]) # None /\ StoreVPA(v, new) /\ UNCHANGED steps
    <3>1. Stored(vpas[v]) \in VPA
      BY <1>t, <2>2, <2>3, VPAEnds
    <3>2. new \in VPA
      BY <2>2, <3>1 DEF VPA
    <3> QED
      BY <1>t, <2>1, <2>2, <2>3, <3>2, StoreType DEF StoresOK
  <2>4. CASE UNCHANGED <<vpas, nextRv>> /\ (steps' = steps \/ TakesStep("fault"))
    BY <1>k, <1>t, <2>1, <2>4, StepType DEF StoresOK
  <2> QED
    BY <1>6, <2>3, <2>4 DEF Publish
<1>7. CASE EndCycle
  BY <1>7, <1>s, <1>k DEF EndCycle
<1>8. ASSUME NEW v \in VPAs, SyncVPA(v)
      PROVE  StoresOK'
  <2>1. Tail(vpas[v]) \in Logs(VPA \cup {None})
    BY <1>8, <1>t, VPAEnds, LogTail DEF SyncVPA
  <2> QED
    BY <1>8, <1>t, <2>1 DEF SyncVPA, StoresOK
<1>9. ASSUME NEW p \in Policies, SyncPolicy(p)
      PROVE  StoresOK'
  <2>1. policies[p] \in Logs(Policy \cup {None}) /\ Len(policies[p]) > 1
    BY <1>9, <1>t DEF SyncPolicy, StoresOK
  <2>2. Tail(policies[p]) \in Logs(Policy \cup {None})
    BY <2>1, LogTail
  <2> QED
    BY <1>9, <1>t, <2>2 DEF SyncPolicy, StoresOK
<1>10. ASSUME NEW v \in VPAs, CreateVPA(v)
       PROVE  StoresOK'
  <2>1. PICK p \in Policies \cup {None} :
            StoreVPA(v, [rv |-> 0, mine |-> TRUE, policy |-> p,
                         snapshot |-> None, rec |-> None])
    BY <1>10 DEF CreateVPA
  <2>2. [rv |-> 0, mine |-> TRUE, policy |-> p, snapshot |-> None, rec |-> None] \in VPA
    BY <1>n DEF VPA
  <2>3. vpas' \in [VPAs -> Logs(VPA \cup {None})] /\ nextRv' \in Nat
    BY <1>t, <2>1, <2>2, StoreType
  <2>4. Stated(target[v]) \subseteq Requests
    BY <1>t DEF Stated, StoresOK, Target
  <2> QED
    BY <1>10, <1>t, <1>k, <2>3, <2>4, StepType DEF CreateVPA, StoresOK
<1>11. ASSUME NEW v \in VPAs, DeleteVPA(v)
       PROVE  StoresOK'
  <2>1. Append(vpas[v], None) \in Logs(VPA \cup {None})
    BY <1>t, VPAEnds, LogAppend
  <2> QED
    BY <1>11, <1>t, <1>k, <2>1, StepType DEF DeleteVPA, StoresOK
<1>12. ASSUME NEW v \in VPAs, EditVPA(v)
       PROVE  StoresOK'
  <2>1. PICK p \in Policies \cup {None}, mine \in BOOLEAN :
            StoreVPA(v, [Stored(vpas[v]) EXCEPT !.policy = p, !.mine = mine])
    BY <1>12 DEF EditVPA
  <2>2. Stored(vpas[v]) \in VPA
    BY <1>12, <1>t, VPAEnds DEF EditVPA
  <2>3. [Stored(vpas[v]) EXCEPT !.policy = p, !.mine = mine] \in VPA
    BY <2>2 DEF VPA
  <2>4. vpas' \in [VPAs -> Logs(VPA \cup {None})] /\ nextRv' \in Nat
    BY <1>t, <2>1, <2>3, StoreType
  <2> QED
    BY <1>12, <1>t, <1>k, <2>4, StepType DEF EditVPA, StoresOK
<1>13. ASSUME NEW v \in VPAs, WriteTarget(v)
       PROVE  StoresOK'
  <2>1. PICK t \in Target : /\ target' = [target EXCEPT ![v] = t]
                            /\ seen' = [seen EXCEPT ![v] = @ \cup {t.request}]
    BY <1>13 DEF WriteTarget
  <2>2. t.request \in Requests
    BY DEF Target
  <2> QED
    BY <1>13, <1>t, <1>k, <2>1, <2>2, StepType DEF WriteTarget, StoresOK
<1>14. ASSUME NEW v \in VPAs, DeleteTarget(v)
       PROVE  StoresOK'
  BY <1>14, <1>t, <1>k, StepType DEF DeleteTarget, StoresOK
<1>15. ASSUME NEW p \in Policies, CreatePolicy(p)
       PROVE  StoresOK'
  <2>1. PICK valid \in BOOLEAN :
            policies' = [policies EXCEPT ![p] = Append(@, [uid |-> nextUid, valid |-> valid])]
    BY <1>15 DEF CreatePolicy
  <2>2. [uid |-> nextUid, valid |-> valid] \in Policy \cup {None}
    BY <1>t DEF Policy, StoresOK
  <2>3. policies[p] \in Logs(Policy \cup {None})
    BY <1>t DEF StoresOK
  <2>4. Append(policies[p], [uid |-> nextUid, valid |-> valid]) \in Logs(Policy \cup {None})
    BY <2>2, <2>3, LogAppend
  <2>5. policies' \in [Policies -> Logs(Policy \cup {None})]
    <3> DEFINE new == Append(policies[p], [uid |-> nextUid, valid |-> valid])
    <3>1. policies' = [policies EXCEPT ![p] = new] /\ new \in Logs(Policy \cup {None})
      BY <2>1, <2>4
    <3> HIDE DEF new
    <3> QED
      BY <1>t, <3>1 DEF StoresOK
  <2>6. nextUid' \in Nat
    BY <1>15, <1>t DEF CreatePolicy, StoresOK
  <2>7. steps' \in 0..MaxSteps
    BY <1>15, <1>k, StepType DEF CreatePolicy
  <2>8. UNCHANGED <<vpas, target, seen, nextRv>>
    BY <1>15 DEF CreatePolicy
  <2> QED
    BY <1>t, <2>5, <2>6, <2>7, <2>8 DEF StoresOK
<1>16. ASSUME NEW p \in Policies, DeletePolicy(p)
       PROVE  StoresOK'
  <2>1. policies[p] \in Logs(Policy \cup {None})
    BY <1>t DEF StoresOK
  <2>2. Append(policies[p], None) \in Logs(Policy \cup {None})
    BY <2>1, LogAppend
  <2> QED
    BY <1>16, <1>t, <1>k, <2>2, StepType DEF DeletePolicy, StoresOK
<1>17. CASE Restart
  <2>1. \A v \in VPAs : <<Stored(vpas[v])>> \in Logs(VPA \cup {None})
    BY <1>t, VPAEnds, LogOne
  <2>2. \A p \in Policies : <<Stored(policies[p])>> \in Logs(Policy \cup {None})
    <3> SUFFICES ASSUME NEW p \in Policies
                 PROVE  <<Stored(policies[p])>> \in Logs(Policy \cup {None})
      OBVIOUS
    <3>1. policies[p] \in Logs(Policy \cup {None})
      BY <1>t DEF StoresOK
    <3>2. Stored(policies[p]) \in Policy \cup {None}
      BY <3>1, LogEnds
    <3> QED
      BY <3>2, LogOne
  <2> QED
    BY <1>17, <1>t, <1>k, <2>1, <2>2, StepType DEF Restart, StoresOK
<1>18. CASE UNCHANGED vars
  BY <1>18, <1>s, <1>k DEF vars
<1> QED
  BY <1>1, <1>2, <1>3, <1>4, <1>5, <1>6, <1>7, <1>8, <1>9, <1>10, <1>11, <1>12,
     <1>13, <1>14, <1>15, <1>16, <1>17, <1>18 DEF Next, Works, Informs, Writes

-----------------------------------------------------------------------------
(* The cycle.                                                               *)

MemInv == MemoryOK /\ WorkersOK /\ CycleInv

\* A worker that goes on leaves what is tracked and observed alone.
LEMMA WorkerMoves ==
    ASSUME MemInv, NEW w \in Workers, NEW s \in WorkerState, Goes(w, s),
           UNCHANGED <<tracked, observed, phase, nextId>>,
           pending' \subseteq pending,
           estimators' \in [VPAs -> Estimators \cup {None}], EstimatorsOwned',
           s.pc # "stopped",
           s.pc # "idle" => /\ s.vpa \in VPAs /\ phase = "updating"
                            /\ tracked[s.vpa] # None /\ observed[s.vpa] # None
    PROVE  MemInv'
<1>1. worker' = [worker EXCEPT ![w] = s] /\ worker \in [Workers -> WorkerState]
  BY DEF Goes, MemInv, WorkersOK
<1>2. worker' \in [Workers -> WorkerState] /\ worker'[w] = s
      /\ \A x \in Workers \ {w} : worker'[x] = worker[x]
  BY <1>1
<1>3. MemoryOK'
  BY DEF MemInv, MemoryOK
<1>4. WorkersOK'
  <2> SUFFICES ASSUME NEW x \in Workers, worker'[x].pc \notin {"idle", "stopped"}
               PROVE  worker'[x].vpa \in VPAs /\ phase' = "updating"
    BY <1>2 DEF WorkersOK
  <2> QED
    BY <1>2 DEF MemInv, WorkersOK
<1>5. \A x \in Workers : worker'[x].pc # "stopped"
  BY <1>2 DEF MemInv, CycleInv
<1>6. \A x \in Workers : worker'[x].pc # "idle" =>
          tracked'[worker'[x].vpa] # None /\ observed'[worker'[x].vpa] # None
  BY <1>2 DEF MemInv, CycleInv
<1>7. phase' = "idle" => pending' = {}
  BY DEF MemInv, CycleInv
<1> QED
  BY <1>3, <1>4, <1>5, <1>6, <1>7 DEF MemInv, CycleInv

\* What LoadVPAs keeps of a loaded VPA.
LEMMA LoadedType ==
    ASSUME StoresOK, MemoryOK, NEW v \in filterVPAs, NEW failing
    PROVE  /\ v \in VPAs
           /\ getSelector(v, failing) \in Selectors \cup {Nothing}
           /\ AddOrUpdateVpa(v, getSelector(v, failing)) \in Tracked
<1>1. v \in VPAs /\ Listed(vpas[v]) # None
  BY DEF filterVPAs
<1>2. Listed(vpas[v]) \in VPA
  BY <1>1, VPAEnds
<1>3. getSelector(v, failing) \in Selectors \cup {Nothing}
  BY <1>1 DEF getSelector, StoresOK, Target
<1>4. tracked[v] \in Tracked \cup {None} /\ nextId \in Nat
  BY <1>1 DEF MemoryOK
<1>5. ~Replaces(v, getSelector(v, failing)) => tracked[v].id \in Nat
  BY <1>4 DEF Replaces, Tracked
<1> QED
  BY <1>1, <1>2, <1>3, <1>4, <1>5 DEF AddOrUpdateVpa, Tracked, VPA

(* LoadVPAs tracks what it observes, gives new Vpas ids nobody had and      *)
(* keeps the estimators of the Vpas that stay.                             *)
LEMMA LoadStep ==
    ASSUME StoresOK, MemInv, NEW failing \in SUBSET VPAs, LoadVPAs(failing)
    PROVE  MemInv'
<1> DEFINE add(v) == AddOrUpdateVpa(v, getSelector(v, failing))
<1>1. /\ tracked' = [v \in VPAs |-> IF v \in filterVPAs THEN add(v) ELSE None]
      /\ nextId' = IF \E v \in filterVPAs : Replaces(v, getSelector(v, failing))
                   THEN nextId + 1 ELSE nextId
      /\ estimators' = [v \in VPAs |-> IF Frees(tracked[v], tracked'[v])
                                       THEN None ELSE estimators[v]]
      /\ observed' = ObservedVPAs
      /\ pending' = {v \in VPAs : ObservedVPAs[v] # None}
      /\ phase' = "updating"
      /\ worker' = [w \in Workers |-> Idle]
  BY DEF LoadVPAs
<1>2. \A v \in filterVPAs : v \in VPAs /\ add(v) \in Tracked
  BY LoadedType DEF MemInv
<1>3. nextId \in Nat /\ nextId' \in Nat /\ nextId <= nextId'
  BY <1>1 DEF MemInv, MemoryOK
<1>4. \A v \in filterVPAs : add(v).id < nextId'
  <2> SUFFICES ASSUME NEW v \in filterVPAs
               PROVE  add(v).id < nextId'
    OBVIOUS
  <2>1. CASE Replaces(v, getSelector(v, failing))
    BY <1>1, <1>3, <2>1 DEF AddOrUpdateVpa
  <2>2. CASE ~Replaces(v, getSelector(v, failing))
    <3>1. add(v).id = tracked[v].id /\ tracked[v] # None
      BY <2>2 DEF AddOrUpdateVpa, Replaces
    <3>2. tracked[v].id < nextId /\ tracked[v].id \in Nat
      BY <1>2, <3>1 DEF MemInv, CycleInv, MemoryOK, Tracked
    <3> QED
      BY <1>3, <3>1, <3>2
  <2> QED
    BY <2>1, <2>2
<1>5. \A v \in VPAs : tracked'[v] = IF v \in filterVPAs THEN add(v) ELSE None
  BY <1>1
<1> HIDE DEF add
<1>6. None \notin Tracked /\ None \notin VPA
  BY RecommenderAssumption
<1>7. tracked' \in [VPAs -> Tracked \cup {None}]
  BY <1>1, <1>2
<1>8. \A v \in VPAs : /\ observed'[v] \in VPA \cup {None}
                      /\ observed'[v] # None <=> v \in filterVPAs
  BY <1>1, <1>6, VPAEnds DEF ObservedVPAs, filterVPAs, MemInv
<1>9. observed' \in [VPAs -> VPA \cup {None}]
  BY <1>1, <1>8 DEF ObservedVPAs
<1>10. estimators' \in [VPAs -> Estimators \cup {None}]
  BY <1>1 DEF MemInv, MemoryOK
<1>11. MemoryOK'
  BY <1>1, <1>3, <1>7, <1>9, <1>10 DEF MemoryOK
<1>12. WorkersOK' /\ \A w \in Workers : worker'[w] = Idle
  BY <1>1, IdleType DEF WorkersOK
<1>13. \A v \in VPAs : observed'[v] # None <=> tracked'[v] # None
  BY <1>2, <1>5, <1>6, <1>8
<1>14. \A v \in pending' : tracked'[v] # None
  BY <1>1, <1>13
<1>15. \A v \in VPAs : tracked'[v] # None => tracked'[v].id < nextId'
  BY <1>4, <1>5
<1>16. EstimatorsOwned'
  <2> SUFFICES ASSUME NEW v \in VPAs, estimators'[v] # None
               PROVE  tracked'[v] # None /\ estimators'[v].owner = tracked'[v].id
    BY DEF EstimatorsOwned
  <2>1. ~Frees(tracked[v], tracked'[v]) /\ estimators'[v] = estimators[v]
    BY <1>1
  <2>2. tracked[v] # None /\ estimators[v].owner = tracked[v].id
    BY <2>1 DEF MemInv, CycleInv, EstimatorsOwned
  <2> QED
    BY <2>1, <2>2 DEF Frees
<1>17. phase' = "idle" => pending' = {}
  BY <1>1
<1> QED
  BY <1>11, <1>12, <1>13, <1>14, <1>15, <1>16, <1>17, IdleType DEF MemInv, CycleInv

\* The estimators a worker goes on with belong to the Vpa it works on.
LEMMA EstimatorsType ==
    ASSUME StoresOK, MemInv, NEW v \in VPAs, tracked[v] # None,
           fetchPolicy(v) # None, getOrCreateEstimators(v, fetchPolicy(v)) # None
    PROVE  LET e == getOrCreateEstimators(v, fetchPolicy(v))
           IN  /\ e \in Estimators /\ e.owner = tracked[v].id
               /\ Feed(e) \in Estimators /\ Feed(e).owner = tracked[v].id
               /\ Recommendation(v, e) \in Status /\ Recommendation(v, Feed(e)) \in Status
<1> DEFINE policy == fetchPolicy(v)
           e == getOrCreateEstimators(v, policy)
<1>1. tracked[v] \in Tracked
  BY DEF MemInv, MemoryOK
<1>2. policy \in Policy
  <2>1. tracked[v].policy \in Policies
    BY <1>1 DEF Tracked, fetchPolicy
  <2>2. policies[tracked[v].policy] \in Logs(Policy \cup {None})
    BY <2>1 DEF StoresOK
  <2>3. Listed(policies[tracked[v].policy]) \in Policy \cup {None}
    BY <2>2, LogEnds
  <2> QED
    BY <2>3 DEF fetchPolicy
<1>3. Coverage \in Nat \ {0}
  BY RecommenderAssumption
<1>4. e \in Estimators /\ e.owner = tracked[v].id
  <2>1. CASE Reuses(v, policy)
    <3>1. e = estimators[v] /\ estimators[v] # None
      BY <2>1 DEF getOrCreateEstimators, Reuses
    <3> QED
      BY <3>1 DEF MemInv, MemoryOK, CycleInv, EstimatorsOwned
  <2>2. CASE ~Reuses(v, policy)
    <3>1. e = [policyUID |-> policy.uid, fed |-> 0, owner |-> tracked[v].id]
      BY <2>2 DEF getOrCreateEstimators
    <3>2. policy.uid \in Nat /\ tracked[v].id \in Nat
      BY <1>1, <1>2 DEF Policy, Tracked
    <3> HIDE DEF e, policy
    <3> QED
      BY <1>3, <3>1, <3>2 DEF Estimators
  <2> QED
    BY <2>1, <2>2
<1> HIDE DEF e
<1>5. \A x \in Estimators : Feed(x) \in Estimators /\ Feed(x).owner = x.owner
  BY <1>3 DEF Feed, Estimators
<1>6. tracked[v].snapshot \in Requests \cup {None}
  BY <1>1 DEF Tracked
<1>7. \A x \in Estimators : Recommendation(v, x) \in Status
  BY <1>6 DEF Recommendation, Estimators, Status, Rec
<1>8. /\ e \in Estimators /\ e.owner = tracked[v].id
      /\ Feed(e) \in Estimators /\ Feed(e).owner = tracked[v].id
      /\ Recommendation(v, e) \in Status /\ Recommendation(v, Feed(e)) \in Status
  BY <1>4, <1>5, <1>7
<1> QED
  BY <1>8 DEF e

\* Recommend caches estimators of the Vpa it works on, or changes nothing.
LEMMA RecommendStep ==
    ASSUME StoresOK, MemInv, NEW w \in Workers, Recommend(w)
    PROVE  MemInv'
<1> DEFINE v == worker[w].vpa
           policy == fetchPolicy(v)
           e == getOrCreateEstimators(v, policy)
<1>1. /\ worker[w].pc = "recommend"
      /\ UNCHANGED <<tracked, observed, phase, pending, nextId>>
  BY DEF Recommend
<1>2. /\ v \in VPAs /\ phase = "updating" /\ tracked[v] # None /\ observed[v] # None
      /\ worker[w] \in WorkerState
      /\ estimators \in [VPAs -> Estimators \cup {None}]
  BY <1>1 DEF MemInv, WorkersOK, CycleInv, MemoryOK
<1>3. None \in Status /\ Empty \in Status
  BY DEF Status
<1>4. CASE Fails(w)
  <2>1. Goes(w, Idle) /\ UNCHANGED estimators
    BY <1>4 DEF Fails
  <2>2. estimators' \in [VPAs -> Estimators \cup {None}] /\ EstimatorsOwned'
    BY <1>1, <1>2, <2>1 DEF MemInv, CycleInv, EstimatorsOwned
  <2> QED
    BY <1>1, <2>1, <2>2, IdleType, WorkerMoves
<1>5. ASSUME NEW est \in Estimators, est.owner = tracked[v].id,
             estimators' = [estimators EXCEPT ![v] = est]
      PROVE  estimators' \in [VPAs -> Estimators \cup {None}] /\ EstimatorsOwned'
  <2>1. estimators' \in [VPAs -> Estimators \cup {None}]
        /\ estimators'[v] = est /\ \A x \in VPAs \ {v} : estimators'[x] = estimators[x]
    BY <1>2, <1>5
  <2> QED
    BY <1>1, <1>2, <1>5, <2>1 DEF MemInv, CycleInv, EstimatorsOwned
<1>6. ASSUME NEW est \in Estimators, est.owner = tracked[v].id,
             estimators' = [estimators EXCEPT ![v] = est],
             NEW status \in Status,
             \/ Goes(w, Idle)
             \/ Goes(w, [worker[w] EXCEPT !.pc = "publish", !.status = status])
      PROVE  MemInv'
  <2>1. estimators' \in [VPAs -> Estimators \cup {None}] /\ EstimatorsOwned'
    BY <1>5, <1>6
  <2>2. CASE Goes(w, Idle)
    BY <1>1, <2>1, <2>2, IdleType, WorkerMoves
  <2>3. CASE Goes(w, [worker[w] EXCEPT !.pc = "publish", !.status = status])
    <3> DEFINE next == [worker[w] EXCEPT !.pc = "publish", !.status = status]
    <3>1. next \in WorkerState /\ next.pc = "publish" /\ next.vpa = v
      BY <1>2 DEF WorkerState
    <3>2. Goes(w, next)
      BY <2>3
    <3> HIDE DEF next
    <3> QED
      BY <1>1, <1>2, <2>1, <3>1, <3>2, WorkerMoves
  <2> QED
    BY <1>6, <2>2, <2>3
<1>7. CASE policy # None /\ e # None /\ ~Fails(w)
  <2>1. /\ e \in Estimators /\ e.owner = tracked[v].id
        /\ Feed(e) \in Estimators /\ Feed(e).owner = tracked[v].id
        /\ Recommendation(v, e) \in Status /\ Recommendation(v, Feed(e)) \in Status
    BY <1>2, <1>7, EstimatorsType
  <2>2. \E est \in {e, Feed(e)}, status \in {Empty, Recommendation(v, e), Recommendation(v, Feed(e))} :
          /\ estimators' = [estimators EXCEPT ![v] = est]
          /\ \/ Goes(w, Idle)
             \/ Goes(w, [worker[w] EXCEPT !.pc = "publish", !.status = status])
    BY <1>7 DEF Recommend
  <2> HIDE DEF e, v, policy
  <2> QED
    BY <1>3, <1>6, <2>1, <2>2
<1> QED
  BY <1>4, <1>7 DEF Recommend

\* Every step keeps the recommender's memory consistent.
LEMMA MemStep == StoresOK /\ MemInv /\ [Next]_vars => MemInv'
<1> SUFFICES ASSUME StoresOK, MemInv, [Next]_vars
             PROVE  MemInv'
  OBVIOUS
<1>e. UNCHANGED <<estimators, tracked>> =>
          estimators' \in [VPAs -> Estimators \cup {None}] /\ EstimatorsOwned'
  BY DEF MemInv, MemoryOK, CycleInv, EstimatorsOwned
<1>s. ASSUME UNCHANGED memory, UNCHANGED nextId
      PROVE  MemInv'
  BY <1>s DEF MemInv, MemoryOK, WorkersOK, CycleInv, EstimatorsOwned, memory
<1>w. ASSUME NEW w \in Workers, worker[w].pc \notin {"idle", "stopped"}
      PROVE  /\ worker[w].vpa \in VPAs /\ phase = "updating"
             /\ tracked[worker[w].vpa] # None /\ observed[worker[w].vpa] # None
             /\ worker[w] \in WorkerState
  BY <1>w DEF MemInv, WorkersOK, CycleInv
<1>1. ASSUME NEW failing \in SUBSET VPAs, LoadVPAs(failing)
      PROVE  MemInv'
  BY <1>1, LoadStep
<1>2. ASSUME NEW w \in Workers, NEW v \in VPAs, Take(w, v)
      PROVE  MemInv'
  <2> DEFINE next == [Idle EXCEPT !.pc = "capture", !.vpa = v]
  <2>1. tracked[v] # None /\ observed[v] # None /\ phase = "updating"
    BY <1>2 DEF Take, MemInv, CycleInv
  <2>2. Goes(w, next) /\ UNCHANGED <<tracked, observed, estimators, phase, nextId>>
        /\ pending' \subseteq pending
    BY <1>2, <2>1 DEF Take
  <2>3. next \in WorkerState /\ next.pc = "capture" /\ next.vpa = v
    BY IdleType DEF WorkerState, Idle
  <2> HIDE DEF next
  <2> QED
    BY <1>e, <2>1, <2>2, <2>3, WorkerMoves
<1>3. ASSUME NEW w \in Workers, Capture(w)
      PROVE  MemInv'
  <2> DEFINE v == worker[w].vpa
             skip == [worker[w] EXCEPT !.pc = "recommend"]
             take == [worker[w] EXCEPT !.pc = "update", !.snapshot = target[v].request]
  <2>1. worker[w].pc = "capture" /\ UNCHANGED <<tracked, observed, estimators, phase, pending, nextId>>
    BY <1>3 DEF Capture
  <2>2. skip \in WorkerState /\ skip.pc = "recommend" /\ skip.vpa = v
    BY <1>w, <2>1 DEF WorkerState
  <2>3. ASSUME target[v] # None
        PROVE  take \in WorkerState /\ take.pc = "update" /\ take.vpa = v
    <3>1. target[v].request \in Requests
      BY <1>w, <2>1, <2>3 DEF StoresOK, Target
    <3> QED
      BY <1>w, <2>1, <3>1 DEF WorkerState
  <2>4. Goes(w, skip) \/ (target[v] # None /\ Goes(w, take))
    BY <1>3 DEF Capture
  <2> HIDE DEF skip, take
  <2>5. CASE Goes(w, skip)
    BY <1>e, <1>w, <2>1, <2>2, <2>5, WorkerMoves
  <2>6. CASE target[v] # None /\ Goes(w, take)
    BY <1>e, <1>w, <2>1, <2>3, <2>6, WorkerMoves
  <2> QED
    BY <2>4, <2>5, <2>6
<1>4. ASSUME NEW w \in Workers, Update(w)
      PROVE  MemInv'
  <2> DEFINE next == [worker[w] EXCEPT !.pc = "recommend"]
  <2>1. /\ worker[w].pc = "update" /\ Goes(w, next)
        /\ UNCHANGED <<tracked, observed, estimators, phase, pending, nextId>>
    BY <1>4 DEF Update
  <2>2. next \in WorkerState /\ next.pc = "recommend" /\ next.vpa = worker[w].vpa
    BY <1>w, <2>1 DEF WorkerState
  <2> HIDE DEF next
  <2> QED
    BY <1>e, <1>w, <2>1, <2>2, WorkerMoves
<1>5. ASSUME NEW w \in Workers, Recommend(w)
      PROVE  MemInv'
  BY <1>5, RecommendStep
<1>6. ASSUME NEW w \in Workers, Publish(w)
      PROVE  MemInv'
  <2>1. /\ Goes(w, Idle)
        /\ UNCHANGED <<tracked, observed, estimators, phase, pending, nextId>>
    BY <1>6 DEF Publish
  <2> QED
    BY <1>e, <2>1, IdleType, WorkerMoves
<1>7. CASE EndCycle
  <2>1. \A w \in Workers : worker[w].pc = "idle" /\ pending = {}
    BY <1>7 DEF EndCycle, Ended, MemInv, CycleInv
  <2>2. pending = {}
    BY <2>1, RecommenderAssumption
  <2>3. phase' = "idle" /\ UNCHANGED <<tracked, observed, estimators, pending, worker, nextId>>
    BY <1>7 DEF EndCycle
  <2>4. MemoryOK'
    BY <2>3 DEF MemInv, MemoryOK
  <2>5. WorkersOK'
    BY <2>1, <2>3 DEF MemInv, WorkersOK
  <2>6. CycleInv'
    BY <2>2, <2>3 DEF MemInv, CycleInv, EstimatorsOwned
  <2> QED
    BY <2>4, <2>5, <2>6 DEF MemInv
<1>8. CASE Informs
  <2>1. UNCHANGED memory /\ UNCHANGED nextId
    BY <1>8 DEF Informs, SyncVPA, SyncPolicy
  <2> QED
    BY <1>s, <2>1
<1>9. CASE Writes
  <2>1. UNCHANGED memory /\ UNCHANGED nextId
    BY <1>9 DEF Writes, CreateVPA, DeleteVPA, EditVPA, WriteTarget, DeleteTarget,
                CreatePolicy, DeletePolicy
  <2> QED
    BY <1>s, <2>1
<1>10. CASE Restart
  <2>1. /\ tracked' = [v \in VPAs |-> None]
        /\ observed' = [v \in VPAs |-> None]
        /\ estimators' = [v \in VPAs |-> None]
        /\ phase' = "idle" /\ pending' = {} /\ nextId' = nextId
        /\ worker' = [w \in Workers |-> Idle]
    BY <1>10 DEF Restart
  <2>2. MemoryOK'
    BY <2>1 DEF MemInv, MemoryOK
  <2>3. WorkersOK'
    BY <2>1, IdleType DEF WorkersOK
  <2>4. CycleInv'
    BY <2>1, IdleType DEF CycleInv, EstimatorsOwned
  <2> QED
    BY <2>2, <2>3, <2>4 DEF MemInv
<1>11. CASE UNCHANGED vars
  <2>1. UNCHANGED memory /\ UNCHANGED nextId
    BY <1>11 DEF vars
  <2> QED
    BY <1>s, <2>1
<1> QED
  BY <1>1, <1>2, <1>3, <1>4, <1>5, <1>6, <1>7, <1>8, <1>9, <1>10, <1>11 DEF Next, Works

\* It starts consistent, with nothing remembered.
LEMMA Starts == Init => StoresOK /\ MemInv
<1> SUFFICES ASSUME Init
             PROVE  StoresOK /\ MemInv
  OBVIOUS
<1>0. PICK start \in InitialVPAs : vpas = [v \in VPAs |-> <<start[v]>>]
  BY DEF Init
<1>1. \A v \in VPAs : <<start[v]>> \in Logs(VPA \cup {None})
  BY RecommenderAssumption, LogOne
<1>2. \A p \in Policies : <<InitialPolicies[p]>> \in Logs(Policy \cup {None})
  BY RecommenderAssumption, LogOne
<1>3. vpas \in [VPAs -> Logs(VPA \cup {None})] /\ policies \in [Policies -> Logs(Policy \cup {None})]
  BY <1>0, <1>1, <1>2 DEF Init
<1>4. target \in [VPAs -> Target \cup {None}]
  BY RecommenderAssumption DEF Init
<1>5. seen \in [VPAs -> SUBSET Requests]
  <2>1. \A v \in VPAs : Stated(target[v]) \subseteq Requests
    BY <1>4 DEF Stated, Target
  <2> QED
    BY <2>1 DEF Init
<1>6. nextUid \in Nat /\ nextRv \in Nat /\ steps \in 0..MaxSteps
  BY RecommenderAssumption DEF Init
<1>7. StoresOK
  BY <1>3, <1>4, <1>5, <1>6 DEF StoresOK
<1>8. MemoryOK
  BY DEF Init, MemoryOK
<1>9. WorkersOK /\ CycleInv
  BY IdleType DEF Init, WorkersOK, CycleInv, EstimatorsOwned
<1> QED
  BY <1>7, <1>8, <1>9 DEF MemInv

\* The inductive invariant of the first three theorems.
LEMMA Invariant == Spec => [](StoresOK /\ MemInv)
<1>1. Init => StoresOK /\ MemInv
  BY Starts
<1>2. StoresOK /\ MemInv /\ [Next]_vars => (StoresOK /\ MemInv)'
  <2>1. StoresOK /\ MemInv => TypeOK /\ CycleInv
    BY DEF StoresOK, MemInv, MemoryOK, WorkersOK, TypeOK
  <2> QED
    BY <2>1, StoresStep, MemStep
<1> QED
  BY <1>1, <1>2, PTL DEF Spec

(* Every value has its type, and no worker outlives its cycle.              *)
THEOREM Types == Spec => []TypeOK
<1>1. StoresOK /\ MemInv => TypeOK
  BY DEF StoresOK, MemInv, MemoryOK, WorkersOK, TypeOK
<1> QED
  BY <1>1, Invariant, PTL

(* A cycle of UpdateVPAs ends with every observed VPA given to a worker.    *)
THEOREM Skips == Spec => []NoneSkipped
<1>1. StoresOK /\ MemInv => NoneSkipped
  BY DEF MemInv, CycleInv, NoneSkipped
<1> QED
  BY <1>1, Invariant, PTL

(* Cached estimators were built for the VPA that is tracked.                *)
THEOREM Ownership == Spec => []EstimatorsOwned
<1>1. StoresOK /\ MemInv => EstimatorsOwned
  BY DEF MemInv, CycleInv
<1> QED
  BY <1>1, Invariant, PTL

-----------------------------------------------------------------------------
(* Usage history is kept while the API answers.                             *)

\* No failing call makes the selector of a target that exists unknown.
SelectorsFetched == "selector" \notin Allowed

(* Estimators that were kept while their VPA matched no pod have learnt     *)
(* nothing: a Vpa whose selector changed is another one.                   *)
NothingFed ==
    \A v \in VPAs : estimators[v] # None /\ tracked[v].selector = Nothing =>
        estimators[v].fed = 0

\* What LoadVPAs does to the estimators of a VPA when no call fails.
LEMMA LoadKeeps ==
    ASSUME StoresOK, MemInv, SelectorsFetched,
           NEW failing \in SUBSET VPAs, LoadVPAs(failing), NEW v \in VPAs
    PROVE  \/ /\ estimators'[v] = None
              /\ estimators[v] # None =>
                    \/ v \notin filterVPAs
                    \/ tracked[v].selector # getSelector(v, {})
           \/ /\ estimators'[v] = estimators[v] /\ estimators[v] # None
              /\ tracked'[v].selector = tracked[v].selector
<1> DEFINE add == AddOrUpdateVpa(v, getSelector(v, {}))
<1>1. failing = {}
  BY DEF LoadVPAs, TakesStep, SelectorsFetched
<1>2. /\ tracked'[v] = IF v \in filterVPAs THEN add ELSE None
      /\ estimators'[v] = IF Frees(tracked[v], tracked'[v]) THEN None ELSE estimators[v]
  BY <1>1 DEF LoadVPAs
<1>3. estimators[v] # None => tracked[v] # None /\ tracked[v].id < nextId
                              /\ tracked[v].id \in Nat /\ nextId \in Nat
  BY DEF MemInv, CycleInv, EstimatorsOwned, MemoryOK, Tracked
<1>4. CASE estimators[v] = None
  BY <1>2, <1>4
<1>5. CASE estimators[v] # None /\ v \notin filterVPAs
  BY <1>2, <1>3, <1>5 DEF Frees
<1>6. CASE estimators[v] # None /\ v \in filterVPAs
  <2>1. CASE Replaces(v, getSelector(v, {}))
    <3>1. add.id = nextId
      BY <2>1 DEF AddOrUpdateVpa
    <3>2. tracked[v].selector # getSelector(v, {})
      BY <1>3, <1>6, <2>1 DEF Replaces
    <3> HIDE DEF add
    <3> QED
      BY <1>2, <1>3, <1>6, <3>1, <3>2 DEF Frees
  <2>2. CASE ~Replaces(v, getSelector(v, {}))
    <3>1. add.id = tracked[v].id /\ add.selector = tracked[v].selector
      BY <2>2 DEF AddOrUpdateVpa, Replaces
    <3>2. add # None
      BY <1>6, LoadedType, RecommenderAssumption DEF MemInv
    <3> HIDE DEF add
    <3> QED
      BY <1>2, <1>3, <1>6, <3>1, <3>2 DEF Frees
  <2> QED
    BY <2>1, <2>2
<1> QED
  BY <1>4, <1>5, <1>6

\* What Recommend does to them: the same ones, fed or not, or new ones.
LEMMA RecommendKeeps ==
    ASSUME StoresOK, MemInv, NEW w \in Workers, Recommend(w), NEW v \in VPAs
    PROVE  \/ estimators'[v] = estimators[v]
           \/ /\ estimators'[v] \in Estimators
              /\ \/ /\ estimators[v] # None /\ estimators'[v].fed >= estimators[v].fed
                    /\ tracked[v].selector = Nothing => estimators'[v].fed = estimators[v].fed
                 \/ /\ tracked[v].selector = Nothing => estimators'[v].fed = 0
                    /\ estimators[v] # None =>
                           estimators'[v].policyUID # estimators[v].policyUID
<1> DEFINE u == worker[w].vpa
           policy == fetchPolicy(u)
           e == getOrCreateEstimators(u, policy)
<1>1. worker[w].pc = "recommend"
  BY DEF Recommend
<1>2. u \in VPAs /\ tracked[u] # None /\ estimators \in [VPAs -> Estimators \cup {None}]
  BY <1>1 DEF MemInv, WorkersOK, CycleInv, MemoryOK
<1>3. CASE UNCHANGED estimators
  BY <1>3
<1>4. CASE policy # None /\ e # None /\ estimators' # estimators
  <2>1. e \in Estimators /\ Feed(e) \in Estimators
    BY <1>2, <1>4, EstimatorsType
  <2>2. \E est \in {e, Feed(e)} : /\ estimators' = [estimators EXCEPT ![u] = est]
                                  /\ tracked[u].selector = Nothing => est = e
    BY <1>4 DEF Recommend, Fails
  <2>3. PICK est \in Estimators :
            /\ estimators' = [estimators EXCEPT ![u] = est]
            /\ tracked[u].selector = Nothing => est = e
            /\ est = e \/ est = Feed(e)
    BY <2>1, <2>2
  <2>4. \/ /\ e = estimators[u] /\ estimators[u] # None
        \/ /\ e = [policyUID |-> policy.uid, fed |-> 0, owner |-> tracked[u].id]
           /\ estimators[u] # None => estimators[u].policyUID # policy.uid
    BY <1>4 DEF getOrCreateEstimators, Reuses
  <2>5. \/ /\ e.fed = 0 /\ e.policyUID = policy.uid
           /\ estimators[u] # None => estimators[u].policyUID # policy.uid
        \/ e = estimators[u] /\ estimators[u] # None
    BY <2>4
  <2>6. \A x \in Estimators : Feed(x).fed >= x.fed /\ Feed(x).policyUID = x.policyUID
    BY RecommenderAssumption DEF Feed, Estimators
  <2>7. e.fed \in Nat
    BY <2>1, RecommenderAssumption DEF Estimators
  <2>8. est.fed >= e.fed /\ est.policyUID = e.policyUID
        /\ (tracked[u].selector = Nothing => est.fed = e.fed)
    BY <2>1, <2>3, <2>6, <2>7
  <2>9. estimators'[u] = est /\ \A x \in VPAs \ {u} : estimators'[x] = estimators[x]
    BY <1>2, <2>3
  <2> HIDE DEF e, u, policy
  <2> QED
    BY <1>2, <2>5, <2>8, <2>9
<1> QED
  BY <1>3, <1>4 DEF Recommend, Fails

\* No other step touches the estimators, or what is tracked.
LEMMA OthersKeep ==
    ASSUME [Next]_vars
    PROVE  \/ \E failing \in SUBSET VPAs : LoadVPAs(failing)
           \/ \E w \in Workers : Recommend(w)
           \/ Restart
           \/ UNCHANGED <<estimators, tracked>>
BY DEF Next, Works, Take, Capture, Update, Publish, EndCycle, Informs, SyncVPA, SyncPolicy,
       Writes, CreateVPA, DeleteVPA, EditVPA, WriteTarget, DeleteTarget, CreatePolicy,
       DeletePolicy, vars, memory

\* NothingFed is inductive.
LEMMA NothingFedStep ==
    ASSUME StoresOK, MemInv, NothingFed, SelectorsFetched, [Next]_vars
    PROVE  NothingFed'
<1> SUFFICES ASSUME NEW v \in VPAs, estimators'[v] # None, tracked'[v].selector = Nothing
             PROVE  estimators'[v].fed = 0
  BY DEF NothingFed
<1>1. ASSUME NEW failing \in SUBSET VPAs, LoadVPAs(failing)
      PROVE  estimators'[v].fed = 0
  BY <1>1, LoadKeeps DEF NothingFed
<1>2. ASSUME NEW w \in Workers, Recommend(w)
      PROVE  estimators'[v].fed = 0
  <2>1. tracked' = tracked
    BY <1>2 DEF Recommend
  <2> QED
    BY <1>2, <2>1, RecommendKeeps DEF NothingFed
<1>3. CASE Restart
  BY <1>3 DEF Restart
<1>4. CASE UNCHANGED <<estimators, tracked>>
  BY <1>4 DEF NothingFed
<1> QED
  BY <1>1, <1>2, <1>3, <1>4, OthersKeep

\* The reasons for which a VPA may lose its history in a step.
Excused(v) ==
    \/ Restart
    \/ Listed(vpas[v]) = None \/ ~Listed(vpas[v]).mine \/ TargetGone(v)
    \/ estimators'[v] # None /\ estimators'[v].policyUID # estimators[v].policyUID

\* A step that loses history has one of them.
LEMMA LossExcused ==
    ASSUME StoresOK, MemInv, NothingFed, SelectorsFetched, [Next]_vars,
           NEW v \in VPAs, Loses(v)
    PROVE  Excused(v)
<1>1. estimators[v] \in Estimators /\ estimators[v].fed > 0 /\ estimators[v].fed \in Nat
  <2>1. estimators[v] \in Estimators \cup {None} /\ estimators[v] # None
    BY DEF MemInv, MemoryOK, Loses
  <2> QED
    BY <2>1, RecommenderAssumption DEF Loses, Estimators
<1>2. /\ estimators[v] # None
      /\ estimators'[v] = None \/ estimators'[v].fed < estimators[v].fed
      /\ tracked[v].selector # Nothing
  BY <1>1 DEF Loses, NothingFed
<1>3. ASSUME NEW failing \in SUBSET VPAs, LoadVPAs(failing)
      PROVE  Excused(v)
  <2>1. v \notin filterVPAs \/ tracked[v].selector # getSelector(v, {})
    BY <1>1, <1>2, <1>3, LoadKeeps
  <2>2. CASE v \notin filterVPAs
    BY <2>2 DEF filterVPAs, Excused
  <2>3. CASE tracked[v].selector # getSelector(v, {})
    BY <1>2, <2>3 DEF getSelector, TargetGone, Excused
  <2> QED
    BY <2>1, <2>2, <2>3
<1>4. ASSUME NEW w \in Workers, Recommend(w)
      PROVE  Excused(v)
  <2>0. None \notin Estimators
    BY RecommenderAssumption
  <2>1. estimators'[v] # estimators[v]
    BY <1>1, <1>2
  <2>2. /\ estimators'[v] # None
        /\ \/ estimators'[v].fed >= estimators[v].fed
           \/ estimators'[v].policyUID # estimators[v].policyUID
        /\ estimators'[v].fed \in Nat
    BY <1>2, <1>4, <2>0, <2>1, RecommendKeeps, RecommenderAssumption DEF Estimators
  <2>3. estimators'[v].policyUID # estimators[v].policyUID
    BY <1>1, <1>2, <2>2
  <2> QED
    BY <2>2, <2>3 DEF Excused
<1>5. CASE UNCHANGED <<estimators, tracked>>
  BY <1>1, <1>2, <1>5
<1> QED
  BY <1>3, <1>4, <1>5, OthersKeep DEF Excused

(* While no call for a target's selector fails, a VPA loses usage history   *)
(* only with the process, when it is gone or another recommender's, when   *)
(* its target is gone or was re-created with another selector, and when its*)
(* policy is another object.                                               *)
THEOREM HistoryIsKept ==
    ASSUME SelectorsFetched
    PROVE  Spec => HistoryKept
<1> DEFINE Kept == \A v \in VPAs : Loses(v) => Excused(v)
<1>1. Init => NothingFed
  BY DEF Init, NothingFed
<1>2. StoresOK /\ MemInv /\ NothingFed /\ [Next]_vars => NothingFed'
  BY NothingFedStep
<1>3. StoresOK /\ MemInv /\ NothingFed /\ [Next]_vars => Kept
  BY LossExcused
<1>4. HistoryKept <=> [][Kept]_vars
  BY DEF HistoryKept, Excused
<1> HIDE DEF Kept
<1> QED
  BY <1>1, <1>2, <1>3, <1>4, Invariant, PTL DEF Spec

-----------------------------------------------------------------------------
(* What the refinement rests on.                                            *)

Known(v) == {vpas[v][i] : i \in DOMAIN vpas[v]} \cup {observed[v]}

\* The API server gives no two states of an object the same version.
VersionsOf(v) ==
    \A x, y \in Known(v) : x # None /\ y # None =>
        x.rv < nextRv /\ (x.rv = y.rv => x = y)

Versions == \A v \in VPAs : VersionsOf(v)

(* What a target states now was stated in its VPA's life; and so was what a *)
(* worker is about to write, if the write can still succeed.               *)
Captures ==
    /\ \A v \in VPAs : target[v] # None => target[v].request \in seen[v]
    /\ \A w \in Workers : worker[w].pc = "update" /\ SameVersion(worker[w].vpa) =>
            /\ worker[w].snapshot \in seen[worker[w].vpa]
            /\ observed[worker[w].vpa].snapshot = None

\* The states at the ends are known, and every known state has its type.
LEMMA KnownType ==
    ASSUME StoresOK, MemInv, NEW v \in VPAs
    PROVE  /\ Stored(vpas[v]) \in Known(v) /\ Listed(vpas[v]) \in Known(v)
           /\ observed[v] \in Known(v)
           /\ Known(v) \subseteq VPA \cup {None}
<1>1. vpas[v] \in Logs(VPA \cup {None})
  BY DEF StoresOK
<1>2. /\ \A i \in DOMAIN vpas[v] : vpas[v][i] \in VPA \cup {None}
      /\ 1 \in DOMAIN vpas[v] /\ Len(vpas[v]) \in DOMAIN vpas[v]
  BY <1>1, LogEnds
<1>3. observed[v] \in VPA \cup {None}
  BY DEF MemInv, MemoryOK
<1> QED
  BY <1>2, <1>3 DEF Known, Stored, Listed

\* A new state has a new version; no other step makes one.
LEMMA VersionsKept ==
    ASSUME StoresOK, MemInv, NEW v \in VPAs, VersionsOf(v), NEW y,
           \/ Known(v)' \subseteq Known(v) \cup {None, y} /\ y.rv = nextRv /\ nextRv' = nextRv + 1
           \/ Known(v)' \subseteq Known(v) \cup {None} /\ nextRv' \in {nextRv, nextRv + 1}
    PROVE  VersionsOf(v)'
<1>1. Known(v) \subseteq VPA \cup {None} /\ nextRv \in Nat
  BY KnownType DEF StoresOK
<1>2. \A x \in Known(v) : x # None => x.rv \in Nat /\ x.rv < nextRv
  BY <1>1 DEF VersionsOf, VPA
<1>3. \A x \in Known(v), z \in Known(v) : x # None /\ z # None /\ x.rv = z.rv => x = z
  BY DEF VersionsOf
<1> SUFFICES ASSUME NEW x \in Known(v)', NEW z \in Known(v)', x # None, z # None
             PROVE  x.rv < nextRv' /\ (x.rv = z.rv => x = z)
  BY DEF VersionsOf
<1>4. CASE Known(v)' \subseteq Known(v) \cup {None, y} /\ y.rv = nextRv /\ nextRv' = nextRv + 1
  <2>1. (x \in Known(v) \/ x = y) /\ (z \in Known(v) \/ z = y)
    BY <1>4
  <2> QED
    BY <1>1, <1>2, <1>3, <1>4, <2>1
<1>5. CASE Known(v)' \subseteq Known(v) \cup {None} /\ nextRv' \in {nextRv, nextRv + 1}
  <2>1. x \in Known(v) /\ z \in Known(v)
    BY <1>5
  <2> QED
    BY <1>1, <1>2, <1>3, <1>5, <2>1
<1> QED
  BY <1>4, <1>5

\* Writing a VPA keeps the versions apart.
LEMMA VersionsWrite ==
    ASSUME StoresOK, MemInv, Versions, NEW u \in VPAs, NEW x \in VPA, StoreVPA(u, x),
           UNCHANGED observed
    PROVE  Versions'
<1> DEFINE y == [x EXCEPT !.rv = nextRv]
<1>1. y.rv = nextRv /\ y \in VPA
  BY StoreType DEF VPA
<1>2. vpas' = [vpas EXCEPT ![u] = Append(@, y)] /\ nextRv' = nextRv + 1
  BY DEF StoreVPA
<1> HIDE DEF y
<1>3. ASSUME NEW v \in VPAs
      PROVE  VersionsOf(v)'
  <2>1. CASE v # u
    <3>1. vpas'[v] = vpas[v]
      BY <1>2, <2>1 DEF StoresOK
    <3>2. Known(v)' \subseteq Known(v) \cup {None}
      BY <3>1 DEF Known
    <3> QED
      BY <1>2, <3>2, VersionsKept DEF Versions
  <2>2. CASE v = u
    <3>1. vpas'[v] = Append(vpas[v], y)
      BY <1>2, <2>2 DEF StoresOK
    <3>2. \A i \in DOMAIN vpas'[v] : vpas'[v][i] = y \/ \E j \in DOMAIN vpas[v] : vpas'[v][i] = vpas[v][j]
      BY <1>1, <3>1, VPAEnds, LogAppend
    <3>3. Known(v)' \subseteq Known(v) \cup {None, y}
      BY <3>2 DEF Known
    <3> QED
      BY <1>1, <1>2, <3>3, VersionsKept DEF Versions
  <2> QED
    BY <2>1, <2>2
<1> QED
  BY <1>3 DEF Versions

\* The VPAs written, by whom: each writes a VPA, or none.
LEMMA UpdateWrites ==
    ASSUME StoresOK, MemInv, NEW w \in Workers, Update(w)
    PROVE  LET v == worker[w].vpa
               copy == [observed[v] EXCEPT !.snapshot = worker[w].snapshot,
                                           !.rec = Stored(vpas[v]).rec]
           IN  /\ v \in VPAs /\ worker[w].pc = "update" /\ worker' = [worker EXCEPT ![w] = [@ EXCEPT !.pc = "recommend"]]
               /\ UNCHANGED <<target, seen, observed>>
               /\ \/ SameVersion(v) /\ copy \in VPA /\ StoreVPA(v, copy)
                  \/ UNCHANGED <<vpas, nextRv>>
<1> DEFINE v == worker[w].vpa
           copy == [observed[v] EXCEPT !.snapshot = worker[w].snapshot,
                                       !.rec = Stored(vpas[v]).rec]
<1>1. worker[w].pc = "update" /\ UNCHANGED <<target, seen, observed>>
  BY DEF Update
<1>2. v \in VPAs /\ worker[w] \in WorkerState /\ observed[v] \in VPA
  BY <1>1 DEF MemInv, MemoryOK, WorkersOK, CycleInv
<1>3. SameVersion(v) => copy \in VPA
  <2>1. SameVersion(v) => Stored(vpas[v]) \in VPA
    BY <1>2, VPAEnds DEF SameVersion
  <2> QED
    BY <1>2, <2>1 DEF VPA, WorkerState
<1>4. worker' = [worker EXCEPT ![w] = [@ EXCEPT !.pc = "recommend"]]
  BY DEF Update, Goes
<1>5. \/ SameVersion(v) /\ StoreVPA(v, copy)
      \/ UNCHANGED <<vpas, nextRv>>
  BY DEF Update
<1> QED
  BY <1>1, <1>2, <1>3, <1>4, <1>5

\* Likewise for the status patch.
LEMMA PublishWrites ==
    ASSUME StoresOK, MemInv, NEW w \in Workers, Publish(w)
    PROVE  LET v == worker[w].vpa
               new == [Stored(vpas[v]) EXCEPT !.rec = worker[w].status]
           IN  /\ v \in VPAs /\ worker[w].status \in Status
               /\ worker' = [worker EXCEPT ![w] = Idle]
               /\ UNCHANGED <<target, seen, observed>>
               /\ \/ Stored(vpas[v]) \in VPA /\ new \in VPA /\ StoreVPA(v, new)
                  \/ UNCHANGED <<vpas, nextRv>>
<1> DEFINE v == worker[w].vpa
           new == [Stored(vpas[v]) EXCEPT !.rec = worker[w].status]
<1>1. worker[w].pc = "publish" /\ UNCHANGED <<target, seen, observed>>
  BY DEF Publish
<1>2. v \in VPAs /\ worker[w] \in WorkerState
  BY <1>1 DEF MemInv, WorkersOK
<1>3. worker[w].status \in Status
  BY <1>2 DEF WorkerState
<1>4. worker' = [worker EXCEPT ![w] = Idle]
  BY DEF Publish, Goes
<1>5. Stored(vpas[v]) # None => Stored(vpas[v]) \in VPA
  BY <1>2, VPAEnds
<1>6. Stored(vpas[v]) \in VPA => new \in VPA
  BY <1>3 DEF VPA
<1>7. \/ Stored(vpas[v]) # None /\ StoreVPA(v, new)
      \/ UNCHANGED <<vpas, nextRv>>
  BY DEF Publish
<1> QED
  BY <1>1, <1>2, <1>3, <1>4, <1>5, <1>6, <1>7

\* And for users and the watcher.
LEMMA UsersWrite ==
    ASSUME StoresOK, NEW v \in VPAs, CreateVPA(v) \/ EditVPA(v)
    PROVE  /\ UNCHANGED <<target, memory>>
           /\ \E x \in VPA : StoreVPA(v, x)
<1>1. CASE CreateVPA(v)
  <2>1. PICK p \in Policies \cup {None} :
            StoreVPA(v, [rv |-> 0, mine |-> TRUE, policy |-> p,
                         snapshot |-> None, rec |-> None])
    BY <1>1 DEF CreateVPA
  <2>2. [rv |-> 0, mine |-> TRUE, policy |-> p, snapshot |-> None, rec |-> None] \in VPA
    BY DEF VPA, Status
  <2> QED
    BY <1>1, <2>1, <2>2 DEF CreateVPA
<1>2. CASE EditVPA(v)
  <2>1. PICK p \in Policies \cup {None}, mine \in BOOLEAN :
            StoreVPA(v, [Stored(vpas[v]) EXCEPT !.policy = p, !.mine = mine])
    BY <1>2 DEF EditVPA
  <2>2. Stored(vpas[v]) \in VPA
    BY <1>2, VPAEnds DEF EditVPA
  <2>3. [Stored(vpas[v]) EXCEPT !.policy = p, !.mine = mine] \in VPA
    BY <2>2 DEF VPA
  <2> QED
    BY <1>2, <2>1, <2>3 DEF EditVPA
<1> QED
  BY <1>1, <1>2

\* Every step keeps the versions apart.
LEMMA VersionsStep == StoresOK /\ MemInv /\ Versions /\ [Next]_vars => Versions'
<1> SUFFICES ASSUME StoresOK, MemInv, Versions, [Next]_vars
             PROVE  Versions'
  OBVIOUS
<1>s. ASSUME UNCHANGED <<vpas, nextRv, observed>>
      PROVE  Versions'
  BY <1>s DEF Versions, VersionsOf, Known
<1>k. ASSUME \A v \in VPAs : Known(v)' \subseteq Known(v) \cup {None}, nextRv' = nextRv
      PROVE  Versions'
  BY <1>k, VersionsKept DEF Versions
<1>1. ASSUME NEW failing \in SUBSET VPAs, LoadVPAs(failing)
      PROVE  Versions'
  <2>1. UNCHANGED <<vpas, nextRv>> /\ observed' = ObservedVPAs
    BY <1>1 DEF LoadVPAs, stores
  <2>2. \A v \in VPAs : observed'[v] \in Known(v) \cup {None}
    BY <2>1, KnownType DEF ObservedVPAs
  <2>3. \A v \in VPAs : Known(v)' \subseteq Known(v) \cup {None}
    BY <2>1, <2>2 DEF Known
  <2> QED
    BY <1>k, <2>1, <2>3
<1>2. ASSUME NEW w \in Workers, Update(w)
      PROVE  Versions'
  <2> DEFINE v == worker[w].vpa
             copy == [observed[v] EXCEPT !.snapshot = worker[w].snapshot,
                                         !.rec = Stored(vpas[v]).rec]
  <2>1. /\ v \in VPAs /\ UNCHANGED observed
        /\ (copy \in VPA /\ StoreVPA(v, copy)) \/ UNCHANGED <<vpas, nextRv>>
    BY <1>2, UpdateWrites
  <2> HIDE DEF v, copy
  <2> QED
    BY <1>s, <2>1, VersionsWrite
<1>3. ASSUME NEW w \in Workers, Publish(w)
      PROVE  Versions'
  <2> DEFINE v == worker[w].vpa
             new == [Stored(vpas[v]) EXCEPT !.rec = worker[w].status]
  <2>1. /\ v \in VPAs /\ UNCHANGED observed
        /\ (new \in VPA /\ StoreVPA(v, new)) \/ UNCHANGED <<vpas, nextRv>>
    BY <1>3, PublishWrites
  <2> HIDE DEF v, new
  <2> QED
    BY <1>s, <2>1, VersionsWrite
<1>4. ASSUME NEW v \in VPAs, CreateVPA(v) \/ EditVPA(v)
      PROVE  Versions'
  BY <1>4, UsersWrite, VersionsWrite DEF memory
<1>5. ASSUME NEW u \in VPAs, DeleteVPA(u)
      PROVE  Versions'
  <2>1. UNCHANGED <<nextRv, observed>> /\ vpas' = [vpas EXCEPT ![u] = Append(@, None)]
    BY <1>5 DEF DeleteVPA, memory
  <2>2. ASSUME NEW v \in VPAs
        PROVE  Known(v)' \subseteq Known(v) \cup {None}
    <3>1. CASE v # u
      <4>1. vpas'[v] = vpas[v]
        BY <2>1, <3>1 DEF StoresOK
      <4> QED
        BY <2>1, <4>1 DEF Known
    <3>2. CASE v = u
      <4>1. vpas'[v] = Append(vpas[v], None)
        BY <2>1, <3>2 DEF StoresOK
      <4>2. \A i \in DOMAIN vpas'[v] : vpas'[v][i] = None \/ \E j \in DOMAIN vpas[v] : vpas'[v][i] = vpas[v][j]
        BY <4>1, VPAEnds, LogAppend
      <4> QED
        BY <2>1, <4>2 DEF Known
    <3> QED
      BY <3>1, <3>2
  <2> QED
    BY <1>k, <2>1, <2>2
<1>6. ASSUME NEW u \in VPAs, SyncVPA(u)
      PROVE  Versions'
  <2>1. /\ UNCHANGED <<nextRv, observed>> /\ vpas' = [vpas EXCEPT ![u] = Tail(@)]
        /\ Len(vpas[u]) > 1
    BY <1>6 DEF SyncVPA, memory
  <2>2. ASSUME NEW v \in VPAs
        PROVE  Known(v)' \subseteq Known(v) \cup {None}
    <3>1. CASE v # u
      <4>1. vpas'[v] = vpas[v]
        BY <2>1, <3>1 DEF StoresOK
      <4> QED
        BY <2>1, <4>1 DEF Known
    <3>2. CASE v = u
      <4>1. vpas'[v] = Tail(vpas[v])
        BY <2>1, <3>2 DEF StoresOK
      <4>2. \A i \in DOMAIN vpas'[v] : \E j \in DOMAIN vpas[v] : vpas'[v][i] = vpas[v][j]
        BY <2>1, <3>2, <4>1, VPAEnds, LogTail
      <4> QED
        BY <2>1, <4>2 DEF Known
    <3> QED
      BY <3>1, <3>2
  <2> QED
    BY <1>k, <2>1, <2>2
<1>7. CASE Restart
  <2>1. /\ vpas' = [v \in VPAs |-> <<Stored(vpas[v])>>] /\ nextRv' = nextRv
        /\ observed' = [v \in VPAs |-> None]
    BY <1>7 DEF Restart
  <2>2. ASSUME NEW v \in VPAs
        PROVE  Known(v)' \subseteq Known(v) \cup {None}
    <3>1. vpas'[v] = <<Stored(vpas[v])>> /\ observed'[v] = None
      BY <2>1
    <3>2. \A i \in DOMAIN vpas'[v] : vpas'[v][i] = Stored(vpas[v])
      BY <3>1, VPAEnds, LogOne
    <3> QED
      BY <3>1, <3>2, KnownType DEF Known
  <2> QED
    BY <1>k, <2>1, <2>2
<1>8. ASSUME NEW w \in Workers, Capture(w) \/ Recommend(w) \/ \E v \in VPAs : Take(w, v)
      PROVE  Versions'
  <2>1. UNCHANGED <<vpas, nextRv, observed>>
    BY <1>8 DEF Capture, Recommend, Take, stores
  <2> QED
    BY <1>s, <2>1
<1>9. ASSUME NEW v \in VPAs, WriteTarget(v) \/ DeleteTarget(v)
      PROVE  Versions'
  BY <1>s, <1>9 DEF WriteTarget, DeleteTarget, memory
<1>10. ASSUME NEW p \in Policies, CreatePolicy(p) \/ DeletePolicy(p) \/ SyncPolicy(p)
       PROVE  Versions'
  BY <1>s, <1>10 DEF CreatePolicy, DeletePolicy, SyncPolicy, memory
<1>11. CASE EndCycle \/ UNCHANGED vars
  BY <1>s, <1>11 DEF EndCycle, vars, stores, memory
<1> QED
  BY <1>1, <1>2, <1>3, <1>4, <1>5, <1>6, <1>7, <1>8, <1>9, <1>10, <1>11
     DEF Next, Works, Informs, Writes

\* What is stored after a state is added.
LEMMA StoredAfter ==
    ASSUME StoresOK, NEW u \in VPAs, NEW x \in VPA \cup {None},
           vpas' = [vpas EXCEPT ![u] = Append(@, x)]
    PROVE  \A v \in VPAs : Stored(vpas'[v]) = IF v = u THEN x ELSE Stored(vpas[v])
<1>1. \A v \in VPAs : vpas'[v] = IF v = u THEN Append(vpas[v], x) ELSE vpas[v]
  BY DEF StoresOK
<1>2. Stored(Append(vpas[u], x)) = x
  BY VPAEnds, LogAppend
<1> QED
  BY <1>1, <1>2

\* A VPA that is written has a version no worker has observed.
LEMMA WrittenAfter ==
    ASSUME StoresOK, NEW u \in VPAs, NEW x \in VPA, StoreVPA(u, x)
    PROVE  \A v \in VPAs : Stored(vpas'[v]) = Stored(vpas[v]) \/ Stored(vpas'[v]).rv = nextRv
<1> DEFINE y == [x EXCEPT !.rv = nextRv]
<1>1. y \in VPA /\ y.rv = nextRv /\ vpas' = [vpas EXCEPT ![u] = Append(@, y)]
  BY StoreType DEF VPA
<1> HIDE DEF y
<1>2. \A v \in VPAs : Stored(vpas'[v]) = IF v = u THEN y ELSE Stored(vpas[v])
  BY <1>1, StoredAfter
<1> QED
  BY <1>1, <1>2

\* No step but Capture brings a worker to its update.
LEMMA CapturesKept ==
    ASSUME StoresOK, MemInv, Versions, Captures, UNCHANGED observed,
           \A w \in Workers : worker'[w].pc = "update" => worker'[w] = worker[w],
           \A v \in VPAs : target'[v] # None => target'[v].request \in seen'[v],
           \A v \in VPAs : \/ Stored(vpas'[v]) = Stored(vpas[v]) /\ seen[v] \subseteq seen'[v]
                           \/ Stored(vpas'[v]) = None
                           \/ Stored(vpas'[v]).rv = nextRv
    PROVE  Captures'
<1> SUFFICES ASSUME NEW w \in Workers, worker'[w].pc = "update", SameVersion(worker[w].vpa)'
             PROVE  /\ worker'[w].snapshot \in seen'[worker'[w].vpa]
                    /\ observed'[worker'[w].vpa].snapshot = None
  BY DEF Captures
<1> DEFINE v == worker[w].vpa
<1>1. worker'[w] = worker[w] /\ worker[w].pc = "update"
  OBVIOUS
<1>2. v \in VPAs /\ observed[v] # None
  BY <1>1 DEF MemInv, WorkersOK, CycleInv
<1>3. observed[v] \in Known(v) /\ observed[v] \in VPA /\ nextRv \in Nat
  BY <1>2, KnownType DEF MemInv, MemoryOK, StoresOK
<1>4. observed[v].rv < nextRv /\ observed[v].rv \in Nat
  BY <1>2, <1>3 DEF Versions, VersionsOf, VPA
<1>5. Stored(vpas'[v]) # None /\ Stored(vpas'[v]).rv = observed[v].rv
  BY <1>1 DEF SameVersion
<1>6. Stored(vpas'[v]) = Stored(vpas[v]) /\ seen[v] \subseteq seen'[v]
  BY <1>2, <1>3, <1>4, <1>5
<1>7. SameVersion(v)
  BY <1>5, <1>6 DEF SameVersion
<1> QED
  BY <1>1, <1>6, <1>7 DEF Captures

\* Every step keeps the snapshots true.
LEMMA CapturesStep == StoresOK /\ MemInv /\ Versions /\ Captures /\ [Next]_vars => Captures'
<1> SUFFICES ASSUME StoresOK, MemInv, Versions, Captures, [Next]_vars
             PROVE  Captures'
  OBVIOUS
<1>c. \A v \in VPAs : target[v] # None => target[v].request \in seen[v]
  BY DEF Captures
<1>w. worker \in [Workers -> WorkerState] /\ Idle.pc = "idle"
  BY IdleType DEF MemInv, WorkersOK
<1>s. ASSUME UNCHANGED <<target, seen, observed>>,
             \A v \in VPAs : Stored(vpas'[v]) = Stored(vpas[v]),
             \A w \in Workers : worker'[w].pc = "update" => worker'[w] = worker[w]
      PROVE  Captures'
  BY <1>c, <1>s, CapturesKept
<1>1. ASSUME NEW failing \in SUBSET VPAs, LoadVPAs(failing)
      PROVE  Captures'
  <2>1. UNCHANGED <<target, seen>> /\ \A w \in Workers : worker'[w] = Idle
    BY <1>1 DEF LoadVPAs, stores
  <2> QED
    BY <1>c, <1>w, <2>1 DEF Captures
<1>2. ASSUME NEW w \in Workers, Capture(w)
      PROVE  Captures'
  <2> DEFINE v == worker[w].vpa
             skip == [worker[w] EXCEPT !.pc = "recommend"]
             take == [worker[w] EXCEPT !.pc = "update", !.snapshot = target[v].request]
  <2>1. worker[w].pc = "capture" /\ UNCHANGED <<vpas, target, seen, observed>>
    BY <1>2 DEF Capture, stores
  <2>2. v \in VPAs /\ worker[w] \in WorkerState
    BY <2>1 DEF MemInv, WorkersOK
  <2>3. CASE worker' = [worker EXCEPT ![w] = skip]
    <3>1. skip.pc = "recommend"
      BY <2>2 DEF WorkerState
    <3> HIDE DEF skip
    <3>2. \A x \in Workers : worker'[x].pc = "update" => worker'[x] = worker[x]
      BY <1>w, <2>3, <3>1
    <3> QED
      BY <1>s, <2>1, <3>2
  <2>4. CASE /\ observed[v].snapshot = None /\ target[v] # None
             /\ worker' = [worker EXCEPT ![w] = take]
    <3>1. take.vpa = v /\ take.snapshot = target[v].request /\ target[v].request \in seen[v]
      BY <1>c, <2>2, <2>4 DEF WorkerState
    <3> HIDE DEF take
    <3>2. worker'[w] = take /\ \A x \in Workers \ {w} : worker'[x] = worker[x]
      BY <1>w, <2>4
    <3>3. ASSUME NEW x \in Workers, worker'[x].pc = "update", SameVersion(worker[x].vpa)'
          PROVE  /\ worker'[x].snapshot \in seen'[worker'[x].vpa]
                 /\ observed'[worker'[x].vpa].snapshot = None
      <4>1. CASE x = w
        BY <2>1, <2>4, <3>1, <3>2, <4>1
      <4>2. CASE x # w
        BY <2>1, <3>2, <3>3, <4>2 DEF Captures, SameVersion
      <4> QED
        BY <4>1, <4>2
    <3> QED
      BY <1>c, <2>1, <3>3 DEF Captures
  <2> QED
    BY <1>2, <2>3, <2>4 DEF Capture, Goes
<1>3. ASSUME NEW w \in Workers, Update(w)
      PROVE  Captures'
  <2> DEFINE v == worker[w].vpa
             copy == [observed[v] EXCEPT !.snapshot = worker[w].snapshot,
                                         !.rec = Stored(vpas[v]).rec]
             next == [worker[w] EXCEPT !.pc = "recommend"]
  <2>1. /\ v \in VPAs /\ UNCHANGED <<target, seen, observed>>
        /\ worker' = [worker EXCEPT ![w] = next]
        /\ (copy \in VPA /\ StoreVPA(v, copy)) \/ UNCHANGED <<vpas, nextRv>>
    BY <1>3, UpdateWrites
  <2>2. next.pc = "recommend"
    BY <1>w DEF WorkerState
  <2> HIDE DEF copy, v, next
  <2>3. \A x \in Workers : worker'[x].pc = "update" => worker'[x] = worker[x]
    BY <1>w, <2>1, <2>2
  <2>4. \A u \in VPAs : Stored(vpas'[u]) = Stored(vpas[u]) \/ Stored(vpas'[u]).rv = nextRv
    BY <2>1, WrittenAfter
  <2> QED
    BY <1>c, <2>1, <2>3, <2>4, CapturesKept
<1>4. ASSUME NEW w \in Workers, Publish(w)
      PROVE  Captures'
  <2> DEFINE v == worker[w].vpa
             new == [Stored(vpas[v]) EXCEPT !.rec = worker[w].status]
  <2>1. /\ v \in VPAs /\ UNCHANGED <<target, seen, observed>>
        /\ worker' = [worker EXCEPT ![w] = Idle]
        /\ (new \in VPA /\ StoreVPA(v, new)) \/ UNCHANGED <<vpas, nextRv>>
    BY <1>4, PublishWrites
  <2> HIDE DEF new, v
  <2>3. \A x \in Workers : worker'[x].pc = "update" => worker'[x] = worker[x]
    BY <1>w, <2>1
  <2>4. \A u \in VPAs : Stored(vpas'[u]) = Stored(vpas[u]) \/ Stored(vpas'[u]).rv = nextRv
    BY <2>1, WrittenAfter
  <2> QED
    BY <1>c, <2>1, <2>3, <2>4, CapturesKept
<1>5. ASSUME NEW u \in VPAs, CreateVPA(u)
      PROVE  Captures'
  <2>1. PICK x \in VPA : StoreVPA(u, x)
    BY <1>5, UsersWrite
  <2>2. UNCHANGED <<target, observed, worker>> /\ seen' = [seen EXCEPT ![u] = Stated(target[u])]
    BY <1>5 DEF CreateVPA, memory
  <2>3. \A v \in VPAs : seen'[v] = IF v = u THEN Stated(target[v]) ELSE seen[v]
    BY <2>2 DEF StoresOK
  <2>4. \A v \in VPAs : target'[v] # None => target'[v].request \in seen'[v]
    BY <1>c, <2>2, <2>3 DEF Stated
  <2>5. \A v \in VPAs : \/ Stored(vpas'[v]) = Stored(vpas[v]) /\ seen[v] \subseteq seen'[v]
                        \/ Stored(vpas'[v]).rv = nextRv
    <3> DEFINE y == [x EXCEPT !.rv = nextRv]
    <3>1. y \in VPA /\ y.rv = nextRv /\ vpas' = [vpas EXCEPT ![u] = Append(@, y)]
      BY <2>1, StoreType DEF VPA
    <3> HIDE DEF y
    <3>2. \A v \in VPAs : Stored(vpas'[v]) = IF v = u THEN y ELSE Stored(vpas[v])
      BY <3>1, StoredAfter
    <3> QED
      BY <2>3, <3>1, <3>2
  <2> QED
    BY <2>2, <2>4, <2>5, CapturesKept
<1>6. ASSUME NEW u \in VPAs, EditVPA(u)
      PROVE  Captures'
  <2>1. PICK x \in VPA : StoreVPA(u, x)
    BY <1>6, UsersWrite
  <2>2. UNCHANGED <<target, observed, worker, seen>>
    BY <1>6 DEF EditVPA, memory
  <2>3. \A v \in VPAs : Stored(vpas'[v]) = Stored(vpas[v]) \/ Stored(vpas'[v]).rv = nextRv
    BY <2>1, WrittenAfter
  <2> QED
    BY <1>c, <2>2, <2>3, CapturesKept
<1>7. ASSUME NEW u \in VPAs, DeleteVPA(u)
      PROVE  Captures'
  <2>1. UNCHANGED <<target, observed, worker, seen>> /\ vpas' = [vpas EXCEPT ![u] = Append(@, None)]
    BY <1>7 DEF DeleteVPA, memory
  <2>2. \A v \in VPAs : Stored(vpas'[v]) = Stored(vpas[v]) \/ Stored(vpas'[v]) = None
    BY <2>1, StoredAfter
  <2> QED
    BY <1>c, <2>1, <2>2, CapturesKept
<1>8. ASSUME NEW u \in VPAs, SyncVPA(u)
      PROVE  Captures'
  <2>1. /\ UNCHANGED <<target, observed, worker, seen>> /\ vpas' = [vpas EXCEPT ![u] = Tail(@)]
        /\ Len(vpas[u]) > 1
    BY <1>8 DEF SyncVPA, memory
  <2>2. \A v \in VPAs : vpas'[v] = IF v = u THEN Tail(vpas[v]) ELSE vpas[v]
    BY <2>1 DEF StoresOK
  <2>3. Stored(Tail(vpas[u])) = Stored(vpas[u])
    BY <2>1, VPAEnds, LogTail
  <2>4. \A v \in VPAs : Stored(vpas'[v]) = Stored(vpas[v])
    BY <2>2, <2>3
  <2> QED
    BY <1>s, <2>1, <2>4
<1>9. CASE Restart
  <2>1. UNCHANGED <<target, seen>> /\ \A w \in Workers : worker'[w] = Idle
    BY <1>9 DEF Restart
  <2> QED
    BY <1>c, <1>w, <2>1 DEF Captures
<1>10. ASSUME NEW w \in Workers, Recommend(w) \/ \E v \in VPAs : Take(w, v)
      PROVE  Captures'
  <2>1. UNCHANGED <<vpas, target, seen, observed>>
    BY <1>10 DEF Recommend, Take, stores
  <2>2. PICK s : worker' = [worker EXCEPT ![w] = s] /\ s.pc # "update"
    <3>1. CASE Recommend(w)
      <4>1. worker[w] \in WorkerState
        BY <1>w
      <4>2. \/ worker' = [worker EXCEPT ![w] = Idle]
            \/ \E status : worker' = [worker EXCEPT ![w] = [worker[w] EXCEPT !.pc = "publish", !.status = status]]
        BY <3>1 DEF Recommend, Fails, Goes
      <4>3. \A status : [worker[w] EXCEPT !.pc = "publish", !.status = status].pc = "publish"
        BY <4>1 DEF WorkerState
      <4> QED
        BY <1>w, <4>2, <4>3
    <3>2. ASSUME NEW v \in VPAs, Take(w, v)
          PROVE  \E s : worker' = [worker EXCEPT ![w] = s] /\ s.pc # "update"
      <4>1. \/ worker' = [worker EXCEPT ![w] = [Idle EXCEPT !.pc = "stopped"]]
            \/ worker' = [worker EXCEPT ![w] = [Idle EXCEPT !.pc = "capture", !.vpa = v]]
        BY <3>2 DEF Take, Goes
      <4>2. /\ [Idle EXCEPT !.pc = "stopped"].pc = "stopped"
            /\ [Idle EXCEPT !.pc = "capture", !.vpa = v].pc = "capture"
        BY DEF Idle
      <4> QED
        BY <4>1, <4>2
    <3> QED
      BY <1>10, <3>1, <3>2
  <2>3. \A x \in Workers : worker'[x].pc = "update" => worker'[x] = worker[x]
    BY <1>w, <2>2
  <2> QED
    BY <1>s, <2>1, <2>3
<1>11. ASSUME NEW u \in VPAs, WriteTarget(u)
       PROVE  Captures'
  <2>1. PICK t \in Target : /\ target' = [target EXCEPT ![u] = t]
                            /\ seen' = [seen EXCEPT ![u] = @ \cup {t.request}]
    BY <1>11 DEF WriteTarget
  <2>2. UNCHANGED <<vpas, observed, worker>>
    BY <1>11 DEF WriteTarget, memory
  <2>3. \A v \in VPAs : /\ target'[v] = IF v = u THEN t ELSE target[v]
                        /\ seen'[v] = IF v = u THEN seen[v] \cup {t.request} ELSE seen[v]
    BY <2>1 DEF StoresOK
  <2>4. \A v \in VPAs : target'[v] # None => target'[v].request \in seen'[v]
    BY <1>c, <2>3
  <2>5. \A v \in VPAs : Stored(vpas'[v]) = Stored(vpas[v]) /\ seen[v] \subseteq seen'[v]
    BY <2>2, <2>3
  <2> QED
    BY <2>2, <2>4, <2>5, CapturesKept
<1>12. ASSUME NEW u \in VPAs, DeleteTarget(u)
       PROVE  Captures'
  <2>1. UNCHANGED <<vpas, observed, worker, seen>> /\ target' = [target EXCEPT ![u] = None]
    BY <1>12 DEF DeleteTarget, memory
  <2>2. \A v \in VPAs : target'[v] # None => target'[v].request \in seen'[v]
    BY <1>c, <2>1 DEF StoresOK
  <2> QED
    BY <2>1, <2>2, CapturesKept
<1>13. ASSUME NEW p \in Policies, CreatePolicy(p) \/ DeletePolicy(p) \/ SyncPolicy(p)
       PROVE  Captures'
  BY <1>s, <1>13 DEF CreatePolicy, DeletePolicy, SyncPolicy, memory
<1>14. CASE EndCycle \/ UNCHANGED vars
  BY <1>s, <1>14 DEF EndCycle, vars, stores, memory
<1> QED
  BY <1>1, <1>2, <1>3, <1>4, <1>5, <1>6, <1>7, <1>8, <1>9, <1>10, <1>11, <1>12, <1>13, <1>14
     DEF Next, Works, Informs, Writes

-----------------------------------------------------------------------------
(* The refinement.                                                          *)

\* A stored VPA as the contract sees it.
LEMMA VisibleType ==
    ASSUME NEW x \in VPA
    PROVE  /\ Visible(x) \in Contract!VPA /\ Visible(x) # None
           /\ Visible(x).mine = x.mine /\ Visible(x).policy = x.policy
           /\ Visible(x).snapshot = x.snapshot /\ Visible(x).rec = x.rec
           /\ x.mine \in BOOLEAN /\ x.policy \in Policies \cup {None}
           /\ x.snapshot \in Requests \cup {None} /\ x.rec \in Status
<1>1. x # None
  BY RecommenderAssumption
<1>2. Visible(x) = [mine |-> x.mine, policy |-> x.policy, snapshot |-> x.snapshot, rec |-> x.rec]
  BY <1>1 DEF Visible
<1>3. /\ x.mine \in BOOLEAN /\ x.policy \in Policies \cup {None}
      /\ x.snapshot \in Requests \cup {None} /\ x.rec \in Status
  BY DEF VPA
<1>4. Visible(x) \in Contract!VPA
  BY <1>2, <1>3 DEF Contract!VPA
<1> QED
  BY <1>2, <1>3, <1>4, ContractAssumption

\* The mapped state of a VPA.
LEMMA Mapped ==
    ASSUME StoresOK, NEW v \in VPAs
    PROVE  /\ storedVPAs[v] = Visible(Stored(vpas[v]))
           /\ Stored(vpas[v]) = None => storedVPAs[v] = None
           /\ Stored(vpas[v]) # None => Stored(vpas[v]) \in VPA /\ storedVPAs[v] # None
<1>1. storedVPAs[v] = Visible(Stored(vpas[v]))
  BY DEF storedVPAs, StoredVPA
<1>2. Stored(vpas[v]) # None => Stored(vpas[v]) \in VPA
  BY VPAEnds
<1> QED
  BY <1>1, <1>2, VisibleType DEF Visible

\* Writes of a VPA as the contract sees them.
LEMMA MappedWrite ==
    ASSUME StoresOK, NEW u \in VPAs, NEW x \in VPA, StoreVPA(u, x)
    PROVE  storedVPAs' = [storedVPAs EXCEPT ![u] = Visible(x)]
<1> DEFINE y == [x EXCEPT !.rv = nextRv]
<1>1. y \in VPA /\ vpas' = [vpas EXCEPT ![u] = Append(@, y)]
  BY StoreType
<1>2. Visible(y) = Visible(x)
  <2>1. x # None /\ y # None
    BY <1>1, RecommenderAssumption
  <2>2. y.mine = x.mine /\ y.policy = x.policy /\ y.snapshot = x.snapshot /\ y.rec = x.rec
    BY DEF VPA
  <2> HIDE DEF y
  <2> QED
    BY <2>1, <2>2 DEF Visible
<1> HIDE DEF y
<1>3. \A v \in VPAs : Stored(vpas'[v]) = IF v = u THEN y ELSE Stored(vpas[v])
  BY <1>1, StoredAfter
<1> QED
  BY <1>2, <1>3 DEF storedVPAs, StoredVPA

\* Steps that leave what is stored alone.
LEMMA MappedSame ==
    ASSUME \A v \in VPAs : Stored(vpas'[v]) = Stored(vpas[v])
    PROVE  storedVPAs' = storedVPAs
BY DEF storedVPAs, StoredVPA

\* A write that changes nothing but the recommendation publishes it.
LEMMA MapsPublish ==
    ASSUME StoresOK, MemInv, NEW w \in Workers, Publish(w)
    PROVE  Contract!Next \/ UNCHANGED Contract!vars
<1> DEFINE v == worker[w].vpa
           old == Stored(vpas[v])
           new == [old EXCEPT !.rec = worker[w].status]
<1>1. /\ v \in VPAs /\ worker[w].status \in Status
      /\ UNCHANGED <<target, seen>>
      /\ (old \in VPA /\ new \in VPA /\ StoreVPA(v, new)) \/ UNCHANGED vpas
  BY PublishWrites
<1>2. statedRequests' = statedRequests /\ seen' = seen
  BY <1>1 DEF statedRequests
<1>3. CASE UNCHANGED vpas
  <2>1. storedVPAs' = storedVPAs
    BY <1>3, MappedSame
  <2> QED
    BY <1>2, <2>1 DEF Contract!vars
<1>4. CASE old \in VPA /\ new \in VPA /\ StoreVPA(v, new)
  <2>1. storedVPAs' = [storedVPAs EXCEPT ![v] = Visible(new)]
    BY <1>1, <1>4, MappedWrite
  <2>2. storedVPAs[v] = Visible(old) /\ storedVPAs[v] # None
    BY <1>1, <1>4, Mapped, VisibleType
  <2>3. Visible(new) = [Visible(old) EXCEPT !.rec = new.rec]
    <3>1. new.mine = old.mine /\ new.policy = old.policy /\ new.snapshot = old.snapshot
      BY <1>4 DEF VPA
    <3>2. old # None /\ new # None
      BY <1>4, RecommenderAssumption
    <3> HIDE DEF old, new
    <3> QED
      BY <3>1, <3>2 DEF Visible
  <2>4. new.rec \in Status /\ Visible(new).rec = new.rec /\ Visible(new) # None
    BY <1>4, VisibleType
  <2>5. storedVPAs'[v] = Visible(new)
    BY <1>1, <2>1 DEF storedVPAs
  <2> HIDE DEF v, old, new
  <2>6. storedVPAs' = [storedVPAs EXCEPT ![v].rec = storedVPAs'[v].rec]
    BY <2>1, <2>2, <2>3, <2>4, <2>5
  <2>7. Contract!Publish(v)
    BY <1>2, <2>2, <2>4, <2>5, <2>6 DEF Contract!Publish
  <2> QED
    BY <1>1, <2>7 DEF Contract!Next
<1> QED
  BY <1>1, <1>3, <1>4

\* An update the API server accepts changes nothing but the initial requests.
LEMMA MapsUpdate ==
    ASSUME StoresOK, MemInv, Versions, Captures, NEW w \in Workers, Update(w)
    PROVE  Contract!Next \/ UNCHANGED Contract!vars
<1> DEFINE v == worker[w].vpa
           old == Stored(vpas[v])
           r == worker[w].snapshot
           copy == [observed[v] EXCEPT !.snapshot = r, !.rec = Stored(vpas[v]).rec]
<1>1. /\ v \in VPAs /\ worker[w].pc = "update" /\ UNCHANGED <<target, seen>>
      /\ (SameVersion(v) /\ copy \in VPA /\ StoreVPA(v, copy)) \/ UNCHANGED vpas
  BY UpdateWrites
<1>2. statedRequests' = statedRequests /\ seen' = seen
  BY <1>1 DEF statedRequests
<1>3. CASE UNCHANGED vpas
  <2>1. storedVPAs' = storedVPAs
    BY <1>3, MappedSame
  <2> QED
    BY <1>2, <2>1 DEF Contract!vars
<1>4. CASE SameVersion(v) /\ copy \in VPA /\ StoreVPA(v, copy)
  <2>1. r \in seen[v] /\ observed[v].snapshot = None
    BY <1>1, <1>4 DEF Captures
  <2>2. observed[v] = old /\ old \in VPA
    <3>1. observed[v] # None /\ old # None /\ old.rv = observed[v].rv
      BY <1>1, <1>4 DEF SameVersion, MemInv, CycleInv
    <3>2. old \in Known(v) /\ observed[v] \in Known(v)
      BY <1>1, KnownType
    <3> HIDE DEF old
    <3>3. observed[v] = old
      BY <1>1, <3>1, <3>2 DEF Versions, VersionsOf
    <3>4. observed[v] \in VPA
      BY <1>1, <3>1 DEF MemInv, MemoryOK
    <3> QED
      BY <3>3, <3>4
  <2>3. storedVPAs' = [storedVPAs EXCEPT ![v] = Visible(copy)]
    BY <1>1, <1>4, MappedWrite
  <2>4. storedVPAs[v] = Visible(old) /\ storedVPAs[v] # None /\ Visible(old).snapshot = None
    BY <1>1, <2>1, <2>2, Mapped, VisibleType
  <2>5. Visible(copy) = [Visible(old) EXCEPT !.snapshot = r]
    <3>1. copy.mine = old.mine /\ copy.policy = old.policy /\ copy.snapshot = r /\ copy.rec = old.rec
      BY <2>2 DEF VPA
    <3>2. old # None /\ copy # None
      BY <1>4, <2>2, RecommenderAssumption
    <3> HIDE DEF old, copy
    <3> QED
      BY <3>1, <3>2 DEF Visible
  <2> HIDE DEF v, old, copy, r
  <2>6. storedVPAs' = [storedVPAs EXCEPT ![v].snapshot = r]
    BY <2>3, <2>4, <2>5
  <2>7. Contract!Capture(v)
    BY <1>2, <2>1, <2>4, <2>6 DEF Contract!Capture
  <2> QED
    BY <1>1, <2>7 DEF Contract!Next
<1> QED
  BY <1>1, <1>3, <1>4

\* Users and the watcher do what the contract lets them do.
LEMMA MapsWrites ==
    ASSUME StoresOK, Writes
    PROVE  Contract!Next \/ UNCHANGED Contract!vars
<1>1. ASSUME NEW v \in VPAs, CreateVPA(v)
      PROVE  Contract!Next
  <2>1. PICK p \in Policies \cup {None} :
            StoreVPA(v, [rv |-> 0, mine |-> TRUE, policy |-> p,
                         snapshot |-> None, rec |-> None])
    BY <1>1 DEF CreateVPA
  <2> DEFINE x == [rv |-> 0, mine |-> TRUE, policy |-> p, snapshot |-> None, rec |-> None]
  <2>2. x \in VPA
    BY DEF VPA, Status
  <2>3. Visible(x) = [mine |-> TRUE, policy |-> p, snapshot |-> None, rec |-> None]
    <3>1. x # None
      BY <2>2, RecommenderAssumption
    <3>2. x.mine = TRUE /\ x.policy = p /\ x.snapshot = None /\ x.rec = None
      OBVIOUS
    <3> HIDE DEF x
    <3> QED
      BY <3>1, <3>2 DEF Visible
  <2>4. storedVPAs' = [storedVPAs EXCEPT ![v] = Visible(x)]
    BY <2>1, <2>2, MappedWrite
  <2>5. storedVPAs[v] = None
    BY <1>1, Mapped DEF CreateVPA
  <2>6. Contract!Stated(v) = Stated(target[v])
    BY RecommenderAssumption DEF Contract!Stated, Stated, statedRequests, StoresOK, Target
  <2>7. seen' = [seen EXCEPT ![v] = Stated(target[v])] /\ statedRequests' = statedRequests
    BY <1>1 DEF CreateVPA, statedRequests
  <2> HIDE DEF x
  <2>8. Contract!Create(v)
    BY <2>3, <2>4, <2>5, <2>6, <2>7 DEF Contract!Create
  <2> QED
    BY <2>8 DEF Contract!Next
<1>2. ASSUME NEW v \in VPAs, DeleteVPA(v)
      PROVE  Contract!Next
  <2>1. vpas' = [vpas EXCEPT ![v] = Append(@, None)] /\ UNCHANGED <<target, seen>>
    BY <1>2 DEF DeleteVPA
  <2>2. \A u \in VPAs : Stored(vpas'[u]) = IF u = v THEN None ELSE Stored(vpas[u])
    BY <2>1, StoredAfter
  <2>3. storedVPAs' = [storedVPAs EXCEPT ![v] = None]
    BY <2>2 DEF storedVPAs, StoredVPA, Visible
  <2>4. statedRequests' = statedRequests
    BY <2>1 DEF statedRequests
  <2>5. Contract!Delete(v)
    BY <2>1, <2>3, <2>4 DEF Contract!Delete
  <2> QED
    BY <2>5 DEF Contract!Next
<1>3. ASSUME NEW v \in VPAs, EditVPA(v)
      PROVE  Contract!Next
  <2>1. PICK p \in Policies \cup {None}, mine \in BOOLEAN :
            StoreVPA(v, [Stored(vpas[v]) EXCEPT !.policy = p, !.mine = mine])
    BY <1>3 DEF EditVPA
  <2> DEFINE old == Stored(vpas[v])
             new == [old EXCEPT !.policy = p, !.mine = mine]
  <2>2. old \in VPA /\ storedVPAs[v] = Visible(old) /\ storedVPAs[v] # None
    BY <1>3, Mapped DEF EditVPA
  <2>3. new \in VPA
    BY <2>2 DEF VPA
  <2>4. storedVPAs' = [storedVPAs EXCEPT ![v] = Visible(new)]
    BY <2>1, <2>3, MappedWrite
  <2>5. Visible(new) = [Visible(old) EXCEPT !.policy = p, !.mine = mine]
    <3>1. new.mine = mine /\ new.policy = p /\ new.snapshot = old.snapshot /\ new.rec = old.rec
      BY <2>2 DEF VPA
    <3>2. old # None /\ new # None
      BY <2>2, <2>3, RecommenderAssumption
    <3> HIDE DEF old, new
    <3>3. Visible(old) = [mine |-> old.mine, policy |-> old.policy,
                          snapshot |-> old.snapshot, rec |-> old.rec]
      BY <3>2 DEF Visible
    <3>4. Visible(new) = [mine |-> mine, policy |-> p,
                          snapshot |-> old.snapshot, rec |-> old.rec]
      BY <3>1, <3>2 DEF Visible
    <3> DEFINE half == [Visible(old) EXCEPT !.policy = p]
    <3>5. half = [mine |-> old.mine, policy |-> p,
                  snapshot |-> old.snapshot, rec |-> old.rec]
      BY <3>3
    <3>6. [Visible(old) EXCEPT !.policy = p, !.mine = mine] = [half EXCEPT !.mine = mine]
      OBVIOUS
    <3> HIDE DEF half
    <3>7. [half EXCEPT !.mine = mine] = [mine |-> mine, policy |-> p,
                                         snapshot |-> old.snapshot, rec |-> old.rec]
      BY <3>5
    <3> QED
      BY <3>4, <3>6, <3>7
  <2>6. UNCHANGED <<seen, statedRequests>>
    BY <1>3 DEF EditVPA, statedRequests
  <2> HIDE DEF old, new
  <2>7. storedVPAs' = [storedVPAs EXCEPT ![v].policy = p, ![v].mine = mine]
    <3>1. v \in DOMAIN storedVPAs
      BY DEF storedVPAs
    <3> QED
      BY <2>2, <2>4, <2>5, <3>1
  <2>8. Contract!Edit(v)
    BY <2>2, <2>6, <2>7 DEF Contract!Edit
  <2> QED
    BY <2>8 DEF Contract!Next
<1>4. ASSUME NEW v \in VPAs, WriteTarget(v)
      PROVE  Contract!Next
  <2>1. PICK t \in Target : /\ target' = [target EXCEPT ![v] = t]
                            /\ seen' = [seen EXCEPT ![v] = @ \cup {t.request}]
    BY <1>4 DEF WriteTarget
  <2>2. t.request \in Requests /\ t.request # None /\ t # None
    BY RecommenderAssumption DEF Target
  <2>3. \A u \in VPAs : target'[u] = IF u = v THEN t ELSE target[u]
    BY <2>1 DEF StoresOK
  <2>4. statedRequests' = [statedRequests EXCEPT ![v] = t.request]
    BY <2>2, <2>3 DEF statedRequests
  <2>5. seen' = [seen EXCEPT ![v] = @ \cup ({t.request} \ {None})]
    BY <2>1, <2>2
  <2>6. storedVPAs' = storedVPAs
    BY <1>4 DEF WriteTarget, storedVPAs, StoredVPA
  <2>7. Contract!EditTarget(v)
    BY <2>2, <2>4, <2>5, <2>6 DEF Contract!EditTarget
  <2> QED
    BY <2>7 DEF Contract!Next
<1>5. ASSUME NEW v \in VPAs, DeleteTarget(v)
      PROVE  Contract!Next
  <2>1. target' = [target EXCEPT ![v] = None] /\ seen' = seen
    BY <1>5 DEF DeleteTarget
  <2>2. \A u \in VPAs : target'[u] = IF u = v THEN None ELSE target[u]
    BY <2>1 DEF StoresOK
  <2>3. statedRequests' = [statedRequests EXCEPT ![v] = None]
    BY <2>2 DEF statedRequests
  <2>4. seen' = [seen EXCEPT ![v] = @ \cup ({None} \ {None})]
    BY <2>1 DEF StoresOK
  <2>5. storedVPAs' = storedVPAs
    BY <1>5 DEF DeleteTarget, storedVPAs, StoredVPA
  <2>6. Contract!EditTarget(v)
    BY <2>3, <2>4, <2>5 DEF Contract!EditTarget
  <2> QED
    BY <2>6 DEF Contract!Next
<1>6. ASSUME NEW p \in Policies, CreatePolicy(p) \/ DeletePolicy(p)
      PROVE  UNCHANGED Contract!vars
  BY <1>6 DEF CreatePolicy, DeletePolicy, Contract!vars, storedVPAs, StoredVPA, statedRequests
<1> QED
  BY <1>1, <1>2, <1>3, <1>4, <1>5, <1>6 DEF Writes

\* Every step is one the contract allows, or none.
LEMMA Maps ==
    StoresOK /\ MemInv /\ Versions /\ Captures /\ [Next]_vars
        => Contract!Next \/ UNCHANGED Contract!vars
<1> SUFFICES ASSUME StoresOK, MemInv, Versions, Captures, [Next]_vars
             PROVE  Contract!Next \/ UNCHANGED Contract!vars
  OBVIOUS
<1>s. ASSUME UNCHANGED <<target, seen>>, \A v \in VPAs : Stored(vpas'[v]) = Stored(vpas[v])
      PROVE  UNCHANGED Contract!vars
  <2>1. statedRequests' = statedRequests
    BY <1>s DEF statedRequests
  <2> QED
    BY <1>s, <2>1, MappedSame DEF Contract!vars
<1>1. ASSUME NEW failing \in SUBSET VPAs, LoadVPAs(failing)
      PROVE  UNCHANGED Contract!vars
  BY <1>s, <1>1 DEF LoadVPAs, stores
<1>2. ASSUME NEW w \in Workers, Capture(w) \/ Recommend(w) \/ \E v \in VPAs : Take(w, v)
      PROVE  UNCHANGED Contract!vars
  BY <1>s, <1>2 DEF Capture, Recommend, Take, stores
<1>3. CASE EndCycle \/ UNCHANGED vars
  BY <1>s, <1>3 DEF EndCycle, vars, stores
<1>4. ASSUME NEW u \in VPAs, SyncVPA(u)
      PROVE  UNCHANGED Contract!vars
  <2>1. /\ UNCHANGED <<target, seen>> /\ vpas' = [vpas EXCEPT ![u] = Tail(@)]
        /\ Len(vpas[u]) > 1
    BY <1>4 DEF SyncVPA
  <2>2. \A v \in VPAs : vpas'[v] = IF v = u THEN Tail(vpas[v]) ELSE vpas[v]
    BY <2>1 DEF StoresOK
  <2>3. Stored(Tail(vpas[u])) = Stored(vpas[u])
    BY <2>1, VPAEnds, LogTail
  <2> QED
    BY <1>s, <2>1, <2>2, <2>3
<1>5. ASSUME NEW p \in Policies, SyncPolicy(p)
      PROVE  UNCHANGED Contract!vars
  BY <1>s, <1>5 DEF SyncPolicy
<1>6. CASE Restart
  <2>1. UNCHANGED <<target, seen>> /\ vpas' = [v \in VPAs |-> <<Stored(vpas[v])>>]
    BY <1>6 DEF Restart
  <2>2. \A v \in VPAs : Stored(vpas'[v]) = Stored(vpas[v])
    BY <2>1, VPAEnds, LogOne
  <2> QED
    BY <1>s, <2>1, <2>2
<1> QED
  BY <1>1, <1>2, <1>3, <1>4, <1>5, <1>6, MapsUpdate, MapsPublish, MapsWrites
     DEF Next, Works, Informs

\* The initial state is one of the contract's, with versions and snapshots in order.
LEMMA MapsInit == Init => Versions /\ Captures /\ Contract!Init
<1> SUFFICES ASSUME Init
             PROVE  Versions /\ Captures /\ Contract!Init
  OBVIOUS
<1>1. StoresOK /\ MemInv
  BY Starts
<1>0. PICK start \in InitialVPAs : vpas = [v \in VPAs |-> <<start[v]>>]
  BY DEF Init
<1>2. \A v \in VPAs : Known(v) = {start[v], None} /\ Stored(vpas[v]) = start[v]
  <2> SUFFICES ASSUME NEW v \in VPAs
               PROVE  Known(v) = {start[v], None} /\ Stored(vpas[v]) = start[v]
    OBVIOUS
  <2>1. vpas[v] = <<start[v]>> /\ observed[v] = None
    BY <1>0 DEF Init
  <2>2. start[v] \in VPA \cup {None}
    BY RecommenderAssumption
  <2>3. Stored(vpas[v]) = start[v]
    BY <2>1, <2>2, LogOne
  <2>4. DOMAIN vpas[v] = {1} /\ vpas[v][1] = start[v]
    BY <2>1
  <2>5. {vpas[v][i] : i \in DOMAIN vpas[v]} = {start[v]}
    BY <2>4
  <2> QED
    BY <2>1, <2>3, <2>5 DEF Known
<1>3. Versions
  BY <1>0, <1>2, RecommenderAssumption DEF Versions, VersionsOf, Init
<1>4. \A v \in VPAs : seen[v] = Stated(target[v])
  BY DEF Init
<1>5. Captures
  BY <1>4, IdleType DEF Captures, Stated, Init
<1>6. storedVPAs \in [VPAs -> Contract!VPA \cup {None}]
  <2>1. \A v \in VPAs : Visible(Stored(vpas[v])) \in Contract!VPA \cup {None}
    BY <1>1, Mapped, VisibleType DEF Visible
  <2> QED
    BY <2>1 DEF storedVPAs, StoredVPA
<1>7. statedRequests \in [VPAs -> Requests \cup {None}]
  BY <1>1 DEF statedRequests, StoresOK, Target
<1>8. \A v \in VPAs : Contract!Stated(v) = Stated(target[v])
  BY <1>1, RecommenderAssumption DEF Contract!Stated, Stated, statedRequests, StoresOK, Target
<1>9. seen = [v \in VPAs |-> Contract!Stated(v)]
  <2>1. seen = [v \in VPAs |-> Stated(target[v])]
    BY DEF Init
  <2> QED
    BY <1>8, <2>1
<1> QED
  BY <1>3, <1>5, <1>6, <1>7, <1>9 DEF Contract!Init

(* The recommender's cycle implements its contract: for any number of VPAs, *)
(* workers and interleavings, no write of a cached copy and no patch by     *)
(* name changes anything of a VPA that is not the recommender's to change.  *)
THEOREM Refinement == Spec => ImplementsContract
<1>1. Init => Versions /\ Captures /\ Contract!Init
  BY MapsInit
<1>2. StoresOK /\ MemInv /\ Versions /\ Captures /\ [Next]_vars => (Versions /\ Captures)'
  BY VersionsStep, CapturesStep
<1>3. StoresOK /\ MemInv /\ Versions /\ Captures /\ [Next]_vars => [Contract!Next]_(Contract!vars)
  BY Maps
<1> QED
  BY <1>1, <1>2, <1>3, Invariant, PTL DEF Spec, ImplementsContract, Contract!Spec
=============================================================================
