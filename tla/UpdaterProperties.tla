-------------------------- MODULE UpdaterProperties ---------------------------
(***************************************************************************)
(* What the updater may do to the pods of a VPA, and what it achieves.     *)
(***************************************************************************)
EXTENDS Updater

\* Type invariant; between two loops nothing is left of a loop's lists.
TypeOK ==
    /\ config \in Config /\ replicas \in 0..Cardinality(Pods)
    /\ rec \in Nat /\ target \in Nat
    /\ pods \in [Pods -> Pod \cup {None}] /\ view \in [Pods -> Pod \cup {None}]
    /\ stats \in Stats
    /\ resizes \subseteq Live(view) /\ evictions \subseteq Live(view)
    /\ age \in [Pods -> 0..MaxAge \cup {None}]
    /\ lost \in Nat
    /\ phase \in {"idle", "busy"}
    /\ phase = "idle" => resizes = {} /\ evictions = {}
    /\ steps \in Budget

\* What must be left of a group: one pod may go even if the tolerance is none.
Floor == stats.configured - (IF Tolerance(stats.configured) = 0 THEN 1
                             ELSE Tolerance(stats.configured))

Evicts(p) == /\ phase = "busy" /\ p \in evictions \ evictions' /\ view[p].running
             /\ pods[p] # None /\ pods'[p] = None /\ stats' # stats

\* A resize that may restart containers, or any if the flag is not given.
Budgeted == ~config.skipBudget \/ config.restarts

Resizes(p) == p \in resizes \ resizes' /\ stats'.initiated > stats.initiated /\ Budgeted

(* pods_eviction_restriction.go:35: "It ensures that we will not evict too *)
(* many pods from one replica set."  Evicting a running pod leaves, of the *)
(* replicas configured, all but the tolerated ones running and not being   *)
(* resized since the listing, apart from those the loop could not know to  *)
(* have gone; so does resizing one, and evicting takes minReplicas or more *)
(* (resizing may not).                                                     *)
(* The budget is taken from what was running when the loop listed, and     *)
(* spent by two limiters that share its maps.                              *)
DisruptionsWithinBudget ==
    [][\A p \in Pods :
          /\ Evicts(p) \/ Resizes(p) =>
                Cardinality(Running(pods')) + lost' - stats'.initiated >= Floor
          /\ Evicts(p) => Cardinality(Live(view)) >= config.minReplicas]_vars

Updated(p) == pods[p] # None => pods[p].running /\ pods[p].has = rec

(* Once nothing else changes every pod runs with the recommendation, and   *)
(* none stays resizing for ever: what is stuck is evicted after its time.  *)
(* Groups that are too small are left alone.                               *)
Converges ==
    <>[](\/ replicas < config.minReplicas
         \/ /\ Cardinality(Live(pods)) = replicas
            /\ \A p \in Pods : Updated(p))
=============================================================================
