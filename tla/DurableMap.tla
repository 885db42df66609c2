----------------------------- MODULE DurableMap -----------------------------
(***************************************************************************)
(* What the storage engine promises, without its files: a map from keys to *)
(* values that changes by whole batches of writes.  A batch is proposed,   *)
(* and later committed.  The map changes at the commit and at no other     *)
(* time - except that a crash may find a batch proposed and never          *)
(* committed already durable, whole.  Compaction, cleaning after a crash   *)
(* and reading are invisible at this level.                                *)
(***************************************************************************)
EXTENDS Layers

VARIABLES
    store,      \* what a reader of the newest state is told
    pending     \* batches proposed and not committed

vars == <<store, pending>>

Init == store = [k \in Key |-> None] /\ pending = {}

Propose(b) == pending' = pending \cup {b} /\ UNCHANGED store

\* A batch that failed, or was replaced by a retry, can no longer surface.
Forget == pending' \in SUBSET pending /\ UNCHANGED store

Commit(b) ==
    /\ b \in pending
    /\ store' = Apply(store, b)
    /\ pending' = {}

Crash ==
    /\ store' \in {store} \cup {Apply(store, b) : b \in pending}
    /\ pending' = {}

Next ==
    \/ \E b \in Data : Propose(b) \/ Commit(b)
    \/ Forget
    \/ Crash

Spec == Init /\ [][Next]_vars
=============================================================================
