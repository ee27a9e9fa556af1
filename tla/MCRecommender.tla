---------------------------- MODULE MCRecommender ----------------------------
(***************************************************************************)
(* Instances of the recommender's cycle for TLC.                           *)
(***************************************************************************)
EXTENDS RecommenderProperties, TLC

CONSTANTS v1, v2, v3, p1, p2, r1, r2, s1, s2, w1, w2

Fresh(policy) == [rv |-> 0, mine |-> TRUE, policy |-> policy,
                  snapshot |-> None, rec |-> None]

\* Every VPA exists, names the first policy and has never been seen.
AllFresh == {[v \in VPAs |-> Fresh(p1)]}

\* Two of three exist; or all three, two of them meant for another recommender.
TwoOrOneMine == {[v \in VPAs |-> IF v # v3 THEN Fresh(p1) ELSE None],
                 [v \in VPAs |-> [Fresh(p1) EXCEPT !.mine = v = v3]]}

\* The policies exist; with distinct UIDs.
UidOf == p1 :> 1 @@ p2 :> 2
AllPolicies == [p \in Policies |-> [uid |-> UidOf[p], valid |-> TRUE]]

AllTargets == [v \in VPAs |-> [selector |-> s1, request |-> r1]]

\* VPAs and workers are interchangeable where they start alike.
Symmetry == Permutations(VPAs \ {v3}) \cup Permutations(Workers)
=============================================================================
