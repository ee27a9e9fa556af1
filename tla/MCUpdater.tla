----------------------------- MODULE MCUpdater -------------------------------
(***************************************************************************)
(* Instances of the updater for TLC.                                       *)
(***************************************************************************)
EXTENDS UpdaterProperties

CONSTANTS p1, p2, p3

Half(n) == n \div 2

Scenario(inPlace, skipBudget, restarts, minReplicas, running, allowed, left) ==
    [config |-> [inPlace |-> inPlace, skipBudget |-> skipBudget,
                 restarts |-> restarts, minReplicas |-> minReplicas],
     running |-> running,
     steps |-> [allowed |-> allowed, left |-> left]]

\* Pods are evicted, resized in place within the budget, or beyond it.
Updates ==
    {Scenario(FALSE, FALSE, FALSE, 2, {p1, p2, p3},
        {"recommend", "disrupt", "scale", "webhook"}, 1),
     Scenario(FALSE, FALSE, FALSE, 2, {p1, p2, p3}, {"fault", "deadline", "restart"}, 2),
     Scenario(TRUE, FALSE, FALSE, 2, {p1, p2}, {"recommend", "disrupt", "webhook"}, 1),
     Scenario(TRUE, FALSE, FALSE, 2, {p1, p2}, {"fault", "deadline", "restart"}, 1),
     Scenario(TRUE, TRUE, FALSE, 2, {p1, p2}, {"scale", "disrupt"}, 1),
     Scenario(TRUE, TRUE, TRUE, 2, {p1, p2}, {"disrupt", "fault"}, 1)}
=============================================================================
