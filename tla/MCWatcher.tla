----------------------------- MODULE MCWatcher ------------------------------
(***************************************************************************)
(* Instances of the watcher for TLC: one or two namespaces and Deployments *)
(* and, per run, scenarios: the objects that exist at the start, the kinds *)
(* of environment steps that may happen and how many of them in all.       *)
(***************************************************************************)
EXTENDS WatcherProperties

CONSTANTS n1, n2, d1, d2, g1, g2, m1, p1, p2, u1, u2, r1, r2, i1, w1, w2

\* Everything in the first namespace, or one Deployment and its VPA in each.
AllInFirst      == [d \in Deployments |-> n1]
VPAsInFirst     == [v \in VPANames |-> n1]
OnePerNamespace == [d \in Deployments |-> IF d = d1 THEN n1 ELSE n2]
VPAPerNamespace == [v \in VPANames |-> IF v = g1 THEN n1 ELSE n2]
OwnName         == [d \in Deployments |-> IF d = d1 THEN g1 ELSE g2]

\* What the objects that exist at the start ask for.
Config1 == [policy |-> p1, mode |-> u1]

MatchFirst == {n1}
NoPatterns == {}
FirstOnly  == {MatchFirst}
AnyPattern == {MatchFirst, {}, InvalidPattern}

\* Initial views: every namespace and Deployment exists; on top of that ...
Existing == [EmptyView EXCEPT
    !.namespace  = [n \in Namespaces |-> Present],
    !.deployment = [d \in Deployments |-> [uid |-> IF d = d1 THEN 1 ELSE 2]]]

\* ... the first namespace is watched explicitly,
Watched == [Existing EXCEPT !.watchedNamespace[n1] = [config |-> Config1]]

\* ... and also ignored,
IgnoredFirst == [Watched EXCEPT !.ignoredNamespace[n1] = Present]

\* or it has two generated VPAs, one of which a user pointed at it,
TwoGenerated == [Watched EXCEPT
    !.vpa = [v \in VPANames |-> [managed |-> TRUE, target |-> d1, policy |-> p1,
                                 mode |-> u1, owner |-> 1]]]

\* or a regex selects it.
RegexWatched == [Existing EXCEPT
    !.watchedRegex[r1] = [pattern |-> MatchFirst, config |-> Config1, created |-> 1]]

-----------------------------------------------------------------------------
(* Scenarios: what exists at the start and what may happen then.            *)

Scenario(view, kinds, n) == [start |-> view, steps |-> [allowed |-> kinds, left |-> n]]

\* One Deployment, watched explicitly or by regexes, and users' own VPAs.
Lifecycle ==
    {Scenario(Watched, {"watchedNamespace", "createVPA", "deleteVPA", "deployment", "fault"}, 2),
     Scenario(RegexWatched,
        {"watchedRegex", "ignoredNamespace", "ignoredWorkload", "watchedNamespace"}, 2),
     Scenario(Watched, {"retarget"}, 1),
     Scenario(TwoGenerated, {"fault", "watchedNamespace"}, 1)}

\* Two Deployments: the namespace's object changes, or a VPA loses its label.
Pair == {Scenario(Watched, {"watchedNamespace", "fault"}, 1),
         Scenario(Watched, {"unlabel"}, 1)}

\* Every kind of change; what surrounds a start; failing calls; and Deployments
\* recreated while watches break.
Convergence ==
    {Scenario(RegexWatched,
        {"watchedRegex", "watchedNamespace", "ignoredNamespace", "ignoredWorkload",
         "createVPA", "deleteVPA", "deployment", "reconfigure"}, 1),
     Scenario(IgnoredFirst,
        {"restart", "early", "watchedNamespace", "ignoredNamespace", "relist"}, 2),
     Scenario(IgnoredFirst, {"restart", "early", "watchedNamespace"}, 2),
     Scenario(Watched, {"fault", "watchedNamespace"}, 3),
     Scenario(Watched, {"deployment", "relist"}, 2)}

\* A VPA loses the watcher's label and the namespace changes.
TakenOver == {Scenario(Watched, {"unlabel", "watchedNamespace"}, 3)}

\* Everything is created while the watcher runs.
FromNothing == {Scenario(EmptyView, {"namespace", "deployment", "watchedRegex"}, 3)}
=============================================================================
