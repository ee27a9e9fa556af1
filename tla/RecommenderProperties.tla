------------------------ MODULE RecommenderProperties -------------------------
(***************************************************************************)
(* What makes the recommender's cycle correct.                             *)
(***************************************************************************)
EXTENDS Recommender

\* Type invariant; between two cycles every worker has ended.
TypeOK ==
    /\ vpas \in [VPAs -> Logs(VPA \cup {None})]
    /\ policies \in [Policies -> Logs(Policy \cup {None})]
    /\ target \in [VPAs -> Target \cup {None}]
    /\ seen \in [VPAs -> SUBSET Requests]
    /\ tracked \in [VPAs -> Tracked \cup {None}]
    /\ observed \in [VPAs -> VPA \cup {None}]
    /\ estimators \in [VPAs -> Estimators \cup {None}]
    /\ phase \in {"idle", "updating"}
    /\ pending \subseteq VPAs
    /\ worker \in [Workers -> WorkerState]
    /\ \A w \in Workers : worker[w].pc \notin {"idle", "stopped"} =>
            worker[w].vpa \in VPAs /\ phase = "updating"
    /\ nextUid \in Nat /\ nextRv \in Nat /\ nextId \in Nat /\ steps \in 0..MaxSteps

(* Nobody is skipped: UpdateVPAs gives every observed VPA to a worker.  One *)
(* VPA that is observed and not tracked would make its worker return, and  *)
(* with as many of them as workers the rest of the channel is dropped.     *)
NoneSkipped == phase = "idle" => pending = {}

(* The estimators cached under a name were built for the VPA tracked under *)
(* it: a removed or replaced VPA leaves neither memory nor history behind, *)
(* although they are created and freed by different components.            *)
EstimatorsOwned ==
    \A v \in VPAs : estimators[v] # None =>
        tracked[v] # None /\ estimators[v].owner = tracked[v].id

Loses(v) ==
    /\ estimators[v] # None /\ estimators[v].fed > 0
    /\ estimators'[v] = None \/ estimators'[v].fed < estimators[v].fed

\* The workload is gone, or another one with another selector took its place.
TargetGone(v) == target[v] = None \/ tracked[v].selector \notin {Nothing, target[v].selector}

(* logic/recommender.go:77-79: usage history is kept across cycles for the *)
(* same VPA.  It goes only with the process, when the VPA is gone or meant *)
(* for another recommender, when its target is gone, and when its policy is*)
(* another object.                                                         *)
HistoryKept ==
    [][\A v \in VPAs : Loses(v) =>
          \/ Restart
          \/ Listed(vpas[v]) = None \/ ~Listed(vpas[v]).mine \/ TargetGone(v)
          \/ estimators'[v] # None /\ estimators'[v].policyUID # estimators[v].policyUID]_vars

StoredVPA(v) == Stored(vpas[v])

\* The fields of a VPA the contract speaks of.
Visible(x) ==
    IF x = None THEN None
    ELSE [mine |-> x.mine, policy |-> x.policy, snapshot |-> x.snapshot, rec |-> x.rec]

storedVPAs == [v \in VPAs |-> Visible(StoredVPA(v))]
statedRequests == [v \in VPAs |-> IF target[v] = None THEN None ELSE target[v].request]

Contract == INSTANCE VPAContract WITH
    Statuses <- Status,
    vpa      <- storedVPAs,
    request  <- statedRequests

ASSUME ContractAssumption == None \notin Contract!VPA

(* However it interleaves with users, the watcher, failing calls and stale *)
(* caches, the recommender only writes what it owns of a VPA: the initial  *)
(* requests once, from what the target stated in this VPA's life, and the  *)
(* recommendation.  No write of a cached copy undoes another's.            *)
ImplementsContract == Contract!Spec

\* What the recommender should be publishing of v once nothing changes.
InForce(v) ==
    LET x == StoredVPA(v)
        policy == IF x.policy = None THEN None ELSE Stored(policies[x.policy])
    IN  (x # None /\ x.mine /\ target[v] # None /\ policy # None /\ policy.valid) =>
            x.rec = [by |-> policy.uid, learned |-> TRUE, original |-> x.snapshot]
            /\ x.snapshot # None

(* Whatever changed or failed on the way, every VPA of this recommender    *)
(* ends up with the recommendation of the policy it names now, made from   *)
(* enough history and by rules that know its initial request.              *)
Converges == \A v \in VPAs : <>[]InForce(v)
=============================================================================
