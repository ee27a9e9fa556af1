------------------------------- MODULE Scope --------------------------------
(***************************************************************************)
(* vhapewatcher/scope: which Deployments the watcher manages and with what *)
(* configuration, as a function of one view of the objects.  The code      *)
(* evaluates it on the informer caches; the requirements evaluate the same *)
(* promise on the API server's state.                                      *)
(***************************************************************************)
EXTENDS VhapeObjects

CONSTANT None    \* no configuration

ASSUME NoneAssumption == None \notin Configs

Decision == [kind : {"error", "unmanaged", "managed"}, config : Configs \cup {None}]

ScopeError     == [kind |-> "error",     config |-> None]
Unmanaged      == [kind |-> "unmanaged", config |-> None]
ManagedWith(c) == [kind |-> "managed",   config |-> c]

\* The VhapeIgnoredWorkload objects the by-Deployment index lists for dep.
GetIgnoredWorkload(view, dep) ==
    {r \in IgnoreRules : /\ Exists(view, "ignoredWorkload", r)
                         /\ view.ignoredWorkload[r].target = dep}

\* Namespaces of the view a pattern selects; an invalid pattern is an error
\* the caller logs, and selects nothing.
GetNamespacesMatchingRegex(view, pattern) ==
    IF Valid(pattern)
    THEN {n \in Namespaces : Exists(view, "namespace", n) /\ n \in pattern}
    ELSE {}

CompileFails(view) ==
    \E r \in RegexNames : /\ Exists(view, "watchedRegex", r)
                          /\ ~Valid(view.watchedRegex[r].pattern)

GetWatchedNamespaceRegexesMatchingNamespace(view, ns) ==
    {r \in RegexNames : /\ Exists(view, "watchedRegex", r)
                        /\ Valid(view.watchedRegex[r].pattern)
                        /\ ns \in view.watchedRegex[r].pattern}

\* creationTimestamps have a granularity of one second: of several oldest
\* regexes the code takes the first in lister order, which is the order of a
\* Go map and hence any.
OldestWatchedNamespaceRegex(view, regexes) ==
    {r \in regexes : \A s \in regexes :
        view.watchedRegex[r].created <= view.watchedRegex[s].created}

\* Seeded bug: a regex rule is looked at before the explicit ignore markers.
ManageBeforeIgnore(view, dep) ==
    LET ns      == NamespaceOf[dep]
        regexes == GetWatchedNamespaceRegexesMatchingNamespace(view, ns)
    IN  CASE regexes # {} /\ ~CompileFails(view) ->
                {ManagedWith(view.watchedRegex[r].config) :
                    r \in OldestWatchedNamespaceRegex(view, regexes)}
          [] OTHER -> {Unmanaged}

\* The decisions the code may return, in the order it tests them.  A regex that
\* does not compile, of whatever object, is an error for every Deployment that
\* gets as far as the regexes.
ShouldManageDeployment(view, dep) ==
    LET ns      == NamespaceOf[dep]
        regexes == GetWatchedNamespaceRegexesMatchingNamespace(view, ns)
    IN  IF GetIgnoredWorkload(view, dep) # {}           THEN {Unmanaged}
        ELSE IF Exists(view, "ignoredNamespace", ns)    THEN {Unmanaged}
        ELSE IF Exists(view, "watchedNamespace", ns)    THEN {ManagedWith(view.watchedNamespace[ns].config)}
        ELSE IF CompileFails(view)                      THEN {ScopeError}
        ELSE IF regexes = {}                            THEN {Unmanaged}
        ELSE {ManagedWith(view.watchedRegex[r].config) :
                r \in OldestWatchedNamespaceRegex(view, regexes)}

=============================================================================
