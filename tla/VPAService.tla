----------------------------- MODULE VPAService -----------------------------
(***************************************************************************)
(* vhapewatcher/vpa_service: the VPA generated for a Deployment, the tests *)
(* applied to a VPA in the cache, and the effect of a merge patch computed *)
(* from a cached copy on the object the API server holds.                  *)
(***************************************************************************)
EXTENDS VhapeObjects

GenerateVPAForDeployment(dep, uid, config) ==
    [managed |-> TRUE, target |-> dep, policy |-> config.policy, mode |-> config.mode,
     owner   |-> uid]

NameForDeployment(dep) == GeneratedName[dep]

IsManagedByWatcher(vpa) == vpa.managed

IsDesiredGeneratedVPA(current, desired) == current = desired

\* Seeded bug: every VPA of the Deployment's namespace is taken for its own.
ListInNamespace(view, dep) ==
    {v \in VPANames : Exists(view, "vpa", v) /\ VPANamespace[v] = NamespaceOf[dep]}

\* The VPAs of the view whose targetRef names dep (the by-Deployment index).
ListForDeployment(view, dep) ==
    {v \in VPANames : Exists(view, "vpa", v) /\ view.vpa[v].target = dep}

ManagedVPAs(view, dep) ==
    {v \in ListForDeployment(view, dep) : IsManagedByWatcher(view.vpa[v])}

\* PatchVPA sends the difference between the cached object and the desired one,
\* with no resourceVersion: a field that already agreed in the cache is not in
\* the patch and keeps whatever value the API server has.
MergePatch(cached, desired, actual) ==
    [f \in DOMAIN actual |->
        IF cached[f] = desired[f] THEN actual[f] ELSE desired[f]]

=============================================================================
