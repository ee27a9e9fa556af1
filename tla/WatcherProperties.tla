------------------------- MODULE WatcherProperties --------------------------
(***************************************************************************)
(* What the VHAPE Watcher is supposed to achieve, stated on the objects of *)
(* the API server and independently of how the watcher decides.            *)
(***************************************************************************)
EXTENDS Watcher

Ignored(d) ==
    \/ Exists(api, "ignoredNamespace", NamespaceOf[d])
    \/ \E r \in IgnoreRules : /\ Exists(api, "ignoredWorkload", r)
                              /\ api.ignoredWorkload[r].target = d

\* The regex objects that select the Deployment's namespace, and of those the
\* ones no other precedes.
Selecting(d) == {r \in RegexNames : /\ Exists(api, "watchedRegex", r)
                                    /\ Valid(api.watchedRegex[r].pattern)
                                    /\ NamespaceOf[d] \in api.watchedRegex[r].pattern}
Oldest(d) == {r \in Selecting(d) : ~ \E s \in Selecting(d) :
                api.watchedRegex[s].created < api.watchedRegex[r].created}

\* The configurations the Deployment's generated VPA may have; none means that
\* it must have no generated VPA.
WantedConfigs(d) ==
    {c \in Configs :
        /\ Exists(api, "deployment", d)
        /\ ~Ignored(d)
        /\ LET watched == api.watchedNamespace[NamespaceOf[d]]
           IN  \/ watched # Absent /\ watched.config = c
               \/ watched = Absent /\ \E r \in Oldest(d) : api.watchedRegex[r].config = c}

GeneratedVPAs(d) == {v \in VPANames : /\ Exists(api, "vpa", v)
                                      /\ api.vpa[v].managed /\ api.vpa[v].target = d}
ManualVPAs(d)    == {v \in VPANames : /\ Exists(api, "vpa", v)
                                      /\ ~api.vpa[v].managed /\ api.vpa[v].target = d}

\* While some regex does not compile nothing is promised for Deployments that
\* depend on regexes.
Undecided(d) ==
    /\ ~Ignored(d)
    /\ ~Exists(api, "watchedNamespace", NamespaceOf[d])
    /\ \E r \in RegexNames : /\ Exists(api, "watchedRegex", r)
                             /\ ~Valid(api.watchedRegex[r].pattern)

Converged(d) ==
    \/ Undecided(d)
    \/ /\ ManualVPAs(d) # {} \/ WantedConfigs(d) = {}
       /\ GeneratedVPAs(d) = {}
    \/ /\ ManualVPAs(d) = {}
       /\ GeneratedVPAs(d) = {GeneratedName[d]}
       /\ \E c \in WantedConfigs(d) :
             /\ api.vpa[GeneratedName[d]].policy = c.policy
             /\ api.vpa[GeneratedName[d]].mode = c.mode
       /\ api.vpa[GeneratedName[d]].owner = api.deployment[d].uid

-----------------------------------------------------------------------------
(* Safety.                                                                  *)

Busy(w) == worker[w].pc # "idle"

\* How the queue's parts fit together: a key is in the fifo, once, exactly when
\* it was added and is not being processed, and the keys being processed are
\* those the workers hold, each held by one worker.
QueueInv ==
    /\ \A i, j \in DOMAIN q.fifo : i # j => q.fifo[i] # q.fifo[j]
    /\ Queued(q) = q.dirty \ q.processing
    /\ q.processing = {worker[w].key : w \in {x \in Workers : Busy(x)}}
    /\ \A w1, w2 \in Workers :
          w1 # w2 /\ Busy(w1) /\ Busy(w2) => worker[w1].key # worker[w2].key

\* The VPAs a worker is about to write.
Writing(w) ==
    worker[w].doomed \cup
    {GeneratedName[worker[x].key] :
        x \in {y \in {w} : worker[y].pc \in {"create", "patch", "outdated"}}}

\* Two workers never have writes of the same VPA in hand (EnsureOne, EnsureNo
\* compute them from a cached list and issue them one by one).
OneWriterPerVPA ==
    \A w1, w2 \in Workers : w1 # w2 => Writing(w1) \cap Writing(w2) = {}

\* Nothing is in flight anywhere: no undelivered change, no unseen event, no
\* key queued, held back or being processed, and no garbage.
Quiescent ==
    /\ running
    /\ \A k \in Kinds : watch[k] = <<>> /\ notifs[k] = <<>>
    /\ q.fifo = <<>> /\ q.processing = {} /\ q.waiting = {}
    /\ \A v \in VPANames : ~Orphaned(v)

\* When nothing is in flight every Deployment has the VPA the objects ask for,
\* unless its last reconciliation was given up after maxRetries: no event, in
\* whatever order the seven informers deliver, is one the handlers forget to
\* turn into a key.
QuiescentConverged ==
    Quiescent => \A d \in Deployments : d \in dropped \/ Converged(d)

\* A VPA without the watcher's label is never changed or deleted by a worker.
ManualVPAPreserved ==
    [][\A w \in Workers : WorkerStep(w) =>
          \A v \in VPANames :
              Exists(api, "vpa", v) /\ ~api.vpa[v].managed => api'.vpa[v] = api.vpa[v]]_vars

\* What is ignored stays ignored, and nobody points a VPA at it.
IgnoringFixed == {"ignoredNamespace", "ignoredWorkload", "retarget"} \cap steps.allowed = {}

\* An ignored Deployment that nobody stops ignoring never gets a generated VPA,
\* not even while the watcher starts, when some of its caches are still empty.
IgnoredNeverManaged ==
    IgnoringFixed =>
        \A d \in Deployments : Ignored(d) => GeneratedVPAs(d) = {}

-----------------------------------------------------------------------------
(* Liveness.                                                                *)

\* A key may be given up only where API calls fail.
GivenUp(d) == d \in dropped /\ "fault" \in steps.allowed

\* Once users, failures and restarts stop, every Deployment ends up with the
\* VPA the objects ask for and keeps it: the promise of the watcher guide that
\* every change of the objects reconciles the Deployments it affects.
Converges == <>[](\A d \in Deployments : GivenUp(d) \/ Converged(d))
=============================================================================
