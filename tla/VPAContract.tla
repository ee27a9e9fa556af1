---------------------------- MODULE VPAContract -----------------------------
(***************************************************************************)
(* What the recommender promises to the VerticalPodAutoscaler objects it   *)
(* shares with users and with the watcher: it records the requests the     *)
(* target's template states, once, and it publishes recommendations.  The  *)
(* rest of a VPA belongs to whoever wrote it.                              *)
(***************************************************************************)
CONSTANTS VPAs, Policies, Requests, Statuses, None

VARIABLES
    vpa,      \* name -> the VPA in the API server, or None
    request,  \* name -> the request its target's template states, or None
    seen      \* name -> the requests stated since the VPA was created

vars == <<vpa, request, seen>>

VPA == [mine : BOOLEAN, policy : Policies \cup {None},
        snapshot : Requests \cup {None}, rec : Statuses]

Stated(v) == {request[v]} \ {None}

Init ==
    /\ vpa \in [VPAs -> VPA \cup {None}]
    /\ request \in [VPAs -> Requests \cup {None}]
    /\ seen = [v \in VPAs |-> Stated(v)]

\* Users and the watcher.

Create(v) ==
    /\ vpa[v] = None
    /\ \E p \in Policies \cup {None}, mine \in BOOLEAN :
          vpa' = [vpa EXCEPT ![v] =
                    [mine |-> mine, policy |-> p, snapshot |-> None, rec |-> None]]
    /\ seen' = [seen EXCEPT ![v] = Stated(v)]
    /\ UNCHANGED request

Delete(v) ==
    /\ vpa' = [vpa EXCEPT ![v] = None]
    /\ UNCHANGED <<request, seen>>

Edit(v) ==
    /\ vpa[v] # None
    /\ \E p \in Policies \cup {None}, mine \in BOOLEAN :
          vpa' = [vpa EXCEPT ![v].policy = p, ![v].mine = mine]
    /\ UNCHANGED <<request, seen>>

EditTarget(v) ==
    /\ \E r \in Requests \cup {None} :
          /\ request' = [request EXCEPT ![v] = r]
          /\ seen' = [seen EXCEPT ![v] = @ \cup ({r} \ {None})]
    /\ UNCHANGED vpa

\* The recommender.

Capture(v) ==
    /\ vpa[v] # None
    /\ vpa[v].snapshot = None
    /\ \E r \in seen[v] : vpa' = [vpa EXCEPT ![v].snapshot = r]
    /\ UNCHANGED <<request, seen>>

Publish(v) ==
    /\ vpa[v] # None /\ vpa'[v] # None
    /\ vpa'[v].rec \in Statuses
    /\ vpa' = [vpa EXCEPT ![v].rec = vpa'[v].rec]
    /\ UNCHANGED <<request, seen>>

Next ==
    \E v \in VPAs :
        \/ Create(v) \/ Delete(v) \/ Edit(v) \/ EditTarget(v)
        \/ Capture(v) \/ Publish(v)

Spec == Init /\ [][Next]_vars
=============================================================================
