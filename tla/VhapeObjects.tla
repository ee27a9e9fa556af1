---------------------------- MODULE VhapeObjects ----------------------------
(***************************************************************************)
(* The Kubernetes objects the VHAPE Watcher reads and writes, reduced to   *)
(* the fields its decisions depend on, and "views" of them: a view maps    *)
(* every object kind to the objects of that kind.  The API server's state  *)
(* is a view, and so is the union of the watcher's seven informer caches.  *)
(***************************************************************************)
EXTENDS Naturals, FiniteSets

CONSTANTS
    Namespaces,     \* namespace names
    Deployments,    \* Deployment keys "namespace/name", the work queue's keys
    NamespaceOf,    \* the namespace part of a Deployment key
    VPANames,       \* VerticalPodAutoscaler keys "namespace/name"
    VPANamespace,   \* the namespace part of a VPA key
    GeneratedName,  \* Deployment key -> key of the VPA generated for it
    RegexNames,     \* names of VhapeWatchedNamespaceRegex objects
    IgnoreRules,    \* names of VhapeIgnoredWorkload objects
    Policies,       \* the vhapePolicyName values users write
    Modes,          \* the vpaUpdateMode values users write
    Patterns,       \* the spec.regex values users write
    InvalidPattern, \* stands for every regex regexp.Compile rejects
    NoTarget,       \* a targetRef that names no apps/v1 Deployment
    Present,        \* value of an object that carries only its name
    Absent          \* value of an object that does not exist

Valid(pattern) == pattern # InvalidPattern

(***************************************************************************)
(* A valid regex is identified with the set of namespaces it matches:      *)
(* nothing else of it reaches a decision.                                  *)
(***************************************************************************)
ASSUME ObjectsAssumption ==
    /\ \A S \in {Namespaces, Deployments, VPANames, RegexNames, IgnoreRules} : IsFiniteSet(S)
    /\ Policies # {} /\ Modes # {}
    /\ NamespaceOf \in [Deployments -> Namespaces]
    /\ VPANamespace \in [VPANames -> Namespaces]
    /\ GeneratedName \in [Deployments -> VPANames]
    /\ \A d \in Deployments : VPANamespace[GeneratedName[d]] = NamespaceOf[d]
    /\ \A p \in Patterns : Valid(p) => p \subseteq Namespaces
    /\ NoTarget \notin Deployments

Kinds == {"namespace", "deployment", "vpa", "watchedNamespace",
          "watchedRegex", "ignoredNamespace", "ignoredWorkload"}

\* VhapeWatchedNamespace and VhapeIgnoredNamespace are cluster-scoped objects
\* whose metadata.name is the namespace they are about.
Names == [namespace        |-> Namespaces,
          deployment       |-> Deployments,
          vpa              |-> VPANames,
          watchedNamespace |-> Namespaces,
          watchedRegex     |-> RegexNames,
          ignoredNamespace |-> Namespaces,
          ignoredWorkload  |-> IgnoreRules]

Targets == Deployments \cup {NoTarget}

\* What a VhapeWatchedNamespace or VhapeWatchedNamespaceRegex asks for.
Configs == [policy : Policies, mode : Modes]

\* managed: the label app.kubernetes.io/managed-by = vhape-watcher;
\* policy: the vhape policy annotation;  mode: spec.updatePolicy.updateMode;
\* owner: the UID in the controller ownerReference, 0 when there is none.
VPA == [managed : BOOLEAN, target : Targets, policy : Policies, mode : Modes, owner : Nat]

Values == [namespace        |-> {Present},
           deployment       |-> [uid : Nat \ {0}],
           vpa              |-> VPA,
           watchedNamespace |-> [config : Configs],
           watchedRegex     |-> [pattern : Patterns, config : Configs, created : Nat],
           ignoredNamespace |-> {Present},
           ignoredWorkload  |-> [target : Targets]]

ASSUME AbsentAssumption == \A k \in Kinds : Absent \notin Values[k]

Slot(k) == Values[k] \cup {Absent}

IsView(v) == /\ DOMAIN v = Kinds
             /\ \A k \in Kinds : v[k] \in [Names[k] -> Slot(k)]

Exists(view, k, n) == view[k][n] # Absent

EmptyView == [k \in Kinds |-> [n \in Names[k] |-> Absent]]

=============================================================================
