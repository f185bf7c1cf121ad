----------------------------- MODULE StreamQuota -----------------------------
(***************************************************************************)
(* What the per-principal limit on concurrent streams promises, with no    *)
(* semaphore, no counter and no registry: a stream is granted exactly when *)
(* its key holds fewer than MaxStreams leases, refused exactly when it     *)
(* holds MaxStreams of them, and a lease is given back once.               *)
(*                                                                         *)
(* StreamLimiter is shown to implement this specification.                 *)
(***************************************************************************)
EXTENDS Integers, FiniteSets

CONSTANTS
    Keys,        \* principals (hashes of API keys or JWT subjects)
    Leases,      \* one identity per stream that asks for a slot
    MaxStreams   \* settings.max_concurrent_streams_per_key

VARIABLES
    leaseKey,    \* the key a lease was asked for
    leaseState   \* what became of the lease

vars == <<leaseKey, leaseState>>

LeaseStates == {"none", "held", "released", "refused"}

Held(k) == {l \in Leases : leaseState[l] = "held" /\ leaseKey[l] = k}

Init ==
    /\ leaseKey \in [Leases -> Keys]
    /\ leaseState = [l \in Leases |-> "none"]

\* A slot is free on k: the stream starts.
Grant(l, k) ==
    /\ leaseState[l] = "none"
    /\ Cardinality(Held(k)) < MaxStreams
    /\ leaseKey' = [leaseKey EXCEPT ![l] = k]
    /\ leaseState' = [leaseState EXCEPT ![l] = "held"]

\* Every slot of k is taken: the stream is turned away, nobody waits.
TurnAway(l, k) ==
    /\ leaseState[l] = "none"
    /\ Cardinality(Held(k)) = MaxStreams
    /\ leaseKey' = [leaseKey EXCEPT ![l] = k]
    /\ leaseState' = [leaseState EXCEPT ![l] = "refused"]

\* A held lease is given back; it is never held again.
GiveBack(l) ==
    /\ leaseState[l] = "held"
    /\ leaseState' = [leaseState EXCEPT ![l] = "released"]
    /\ UNCHANGED leaseKey

Next ==
    \/ \E l \in Leases, k \in Keys : Grant(l, k) \/ TurnAway(l, k)
    \/ \E l \in Leases : GiveBack(l)

Spec == Init /\ [][Next]_vars
=============================================================================
