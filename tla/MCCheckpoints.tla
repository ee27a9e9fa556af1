---------------------------- MODULE MCCheckpoints ----------------------------
(***************************************************************************)
(* Instances of the checkpoints for TLC.                                   *)
(***************************************************************************)
EXTENDS CheckpointsProperties

CONSTANTS v1, v2, v3, w1, w2

Scenario(vs, ps, allowed, left) ==
    [listed |-> vs, running |-> ps, steps |-> [allowed |-> allowed, left |-> left]]

(* One VPA through several windows and restarts; or three VPAs, one without*)
(* pods, that come and go while calls fail and the process restarts.       *)
Stored == {Scenario({v1}, {v1}, {"tick", "sample", "oom", "restart"}, 8),
           Scenario({v1, v2, v3}, {v1, v2}, {"vpa", "restart", "fail"}, 3)}
=============================================================================
