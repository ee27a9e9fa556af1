----------------------------- MODULE WorkQueue ------------------------------
(***************************************************************************)
(* client-go's rate-limiting work queue (external code) as the reconciler  *)
(* uses it, as operators on a record:                                      *)
(*   fifo       keys handed out by Get, oldest first                       *)
(*   dirty      keys added since their last Get                            *)
(*   processing keys between Get and Done                                  *)
(*   waiting    keys AddRateLimited holds back until their delay expires   *)
(*   requeues   failures of a key since its last Forget                    *)
(***************************************************************************)
EXTENDS VhapeObjects, Sequences

CONSTANT MaxRetries    \* reconciler.maxRetries

ASSUME WorkQueueAssumption == MaxRetries \in Nat

\* The queue's keys are the Deployment keys.
Key == Deployments

Queue == [fifo : Seq(Key), dirty : SUBSET Key, processing : SUBSET Key,
          waiting : SUBSET Key, requeues : [Key -> 0 .. MaxRetries]]

EmptyQueue == [fifo |-> <<>>, dirty |-> {}, processing |-> {}, waiting |-> {},
               requeues |-> [k \in Key |-> 0]]

Queued(q) == {q.fifo[i] : i \in DOMAIN q.fifo}

\* Keys an Add puts into fifo: a key that is dirty is there already or will be
\* put there by Done, as will one being processed.
NewKeys(q, keys) == keys \ (q.dirty \cup q.processing)

\* Add for each key of keys, which meet the queue in the given order.
AddAll(q, keys, order) ==
    [q EXCEPT !.fifo = @ \o order, !.dirty = @ \cup keys]

Add(q, key) ==
    AddAll(q, {key}, IF key \in NewKeys(q, {key}) THEN <<key>> ELSE <<>>)

Get(q) ==
    [q EXCEPT !.fifo       = Tail(@),
              !.dirty      = @ \ {Head(q.fifo)},
              !.processing = @ \cup {Head(q.fifo)}]

Done(q, key) ==
    [q EXCEPT !.processing = @ \ {key},
              !.fifo       = IF key \in q.dirty THEN Append(@, key) ELSE @]

Forget(q, key) == [q EXCEPT !.requeues[key] = 0]

AddRateLimited(q, key) ==
    [q EXCEPT !.waiting = @ \cup {key}, !.requeues[key] = @ + 1]

\* The delay of a held-back key is over.
DelayExpires(q, key) == Add([q EXCEPT !.waiting = @ \ {key}], key)

=============================================================================
