------------------------------ MODULE WorkQueue ------------------------------
(****************************************************************************)
(* The rate limited work queue of a controller-runtime controller, as the   *)
(* reconcilers of this repository rely on it (it is library code).  A queue *)
(* is a record of                                                           *)
(*   dirty       the keys waiting to be handed to a worker                  *)
(*   processing  the keys a worker has taken and not yet returned           *)
(*   delayed     the keys waiting for their retry backoff                   *)
(* A key added while it is processed stays dirty and is handed out again    *)
(* only after the worker returned it: one key is never with two workers.    *)
(****************************************************************************)
EXTENDS Naturals

EmptyQueue == [dirty |-> {}, processing |-> {}, delayed |-> {}]

Queues(K) == [dirty : SUBSET K, processing : SUBSET K, delayed : SUBSET K]

\* every key the controller will still work on
Scheduled(q) == q.dirty \cup q.processing \cup q.delayed

Add(q, k) == [q EXCEPT !.dirty = @ \cup {k}]

\* mutant: a key is handed out while another worker has it
CanTakeShared(q, k) == k \in q.dirty

CanTake(q, k) == k \in q.dirty /\ k \notin q.processing

Take(q, k) == [q EXCEPT !.dirty = @ \ {k}, !.processing = @ \cup {k}]

\* the reconciler returned no error
Done(q, k) == [q EXCEPT !.processing = @ \ {k}]

\* the reconciler returned an error: AddRateLimited, then Done
Retry(q, k) == [q EXCEPT !.processing = @ \ {k}, !.delayed = @ \cup {k}]

\* the backoff of k is over
Expire(q, k) == [q EXCEPT !.delayed = @ \ {k}, !.dirty = @ \cup {k}]
==============================================================================
