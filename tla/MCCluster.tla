----------------------------- MODULE MCCluster -------------------------------
(***************************************************************************)
(* Instances of the recommender's memory of the cluster for TLC.           *)
(***************************************************************************)
EXTENDS ClusterProperties, TLC

CONSTANTS a, b, v1, v2, g1, g2, i1, i2, i3, i4

Scenario(ps, vs, saver, allowed, left) ==
    [start |-> [pods |-> ps, vpas |-> vs, memorySaver |-> saver],
     steps |-> [allowed |-> allowed, left |-> left]]

Labelled(g) == [labels |-> g, active |-> TRUE]
OnePodEach == a :> Labelled(g1) @@ b :> Labelled(g2)
OneVPA(groups) == v1 :> [selector |-> groups] @@ v2 :> None

(* Two pods under one VPA, after which anything happens; or, in memory-    *)
(* saver mode, anything but a pod that gets other labels or its name back. *)
Anything == {Scenario(OnePodEach, OneVPA({g1, g2}), FALSE, EnvSteps, 4),
             Scenario(OnePodEach, OneVPA({g1}), TRUE, EnvSteps \ {"relabel", "gone"}, 3)}

\* Pointers are alike.
Symmetry == Permutations(Ids)
=============================================================================
