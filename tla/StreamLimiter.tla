---------------------------- MODULE StreamLimiter ----------------------------
(***************************************************************************)
(* app/streaming.py: StreamConcurrencyLimiter and StreamLease.             *)
(*                                                                         *)
(* The limiter keeps two dictionaries, key -> BoundedSemaphore and key ->  *)
(* number of active streams.  A key is registered by its first acquire and *)
(* removed by the release of its last lease.  acquire never waits for a    *)
(* permit: it returns None when the semaphore is locked.                   *)
(*                                                                         *)
(* Both methods run under one asyncio.Lock and await nothing that can      *)
(* suspend while they hold it (semaphore.acquire is only called when the   *)
(* semaphore is not locked), so each call is one atomic step.              *)
(***************************************************************************)
EXTENDS Integers, FiniteSets

CONSTANTS
    Keys,        \* principal.api_key_hash
    Leases,      \* one StreamLease identity per call of acquire
    MaxStreams   \* max_concurrent_streams

\* config.py: max_concurrent_streams_per_key is an int field with a lower
\* bound of 1 (ge=1); a process makes finitely many calls.
ASSUME MaxStreamsAssumption == MaxStreams \in Nat \ {0}
ASSUME LeasesAssumption == IsFiniteSet(Leases)

VARIABLES
    semaphores,  \* _semaphores: permits left, or Absent
    active,      \* _active: streams running; 0 when the key is not a member
    leaseKey,    \* StreamLease.key
    leaseState   \* not asked for, held, _released, or acquire returned None

limiterVars == <<semaphores, active, leaseKey, leaseState>>

\* The key is no member of _semaphores.
Absent == -1

LeaseStates == {"none", "held", "released", "refused"}

Held(k) == {l \in Leases : leaseState[l] = "held" /\ leaseKey[l] = k}

Init ==
    /\ semaphores = [k \in Keys |-> Absent]
    /\ active = [k \in Keys |-> 0]
    /\ leaseKey \in [Leases -> Keys]
    /\ leaseState = [l \in Leases |-> "none"]

(***************************************************************************)
(* acquire(key)                                                            *)
(***************************************************************************)
\* The value of the semaphore after the get-or-create at the top of acquire.
Permits(k) == IF semaphores[k] = Absent THEN MaxStreams ELSE semaphores[k]

LockedOffByOne(k) == Permits(k) <= 1
\* BoundedSemaphore.locked(); the limiter leaves no waiter on a semaphore.
Locked(k) == Permits(k) = 0

Acquire(l, k) ==
    /\ leaseState[l] = "none"
    /\ ~Locked(k)
    /\ semaphores' = [semaphores EXCEPT ![k] = Permits(k) - 1]
    /\ active' = [active EXCEPT ![k] = @ + 1]
    /\ leaseKey' = [leaseKey EXCEPT ![l] = k]
    /\ leaseState' = [leaseState EXCEPT ![l] = "held"]

\* return None; a semaphore created by this call would stay registered.
Refuse(l, k) ==
    /\ leaseState[l] = "none"
    /\ Locked(k)
    /\ semaphores' = [semaphores EXCEPT ![k] = Permits(k)]
    /\ leaseKey' = [leaseKey EXCEPT ![l] = k]
    /\ leaseState' = [leaseState EXCEPT ![l] = "refused"]
    /\ UNCHANGED active

(***************************************************************************)
(* release(lease)                                                          *)
(***************************************************************************)
\* The registry has lost the key, or BoundedSemaphore.release would raise
\* ValueError: the lease is only marked.
Unaccounted(k) ==
    \/ semaphores[k] = Absent
    \/ active[k] <= 0
    \/ semaphores[k] >= MaxStreams

PutBackKeepsKey(k) ==
    /\ semaphores' = [semaphores EXCEPT ![k] = @ + 1]
    /\ active' = [active EXCEPT ![k] = @ - 1]
PutBackMiscounts(k) ==
    IF active[k] = 1
    THEN /\ semaphores' = [semaphores EXCEPT ![k] = Absent]
         /\ active' = [active EXCEPT ![k] = 0]
    ELSE /\ semaphores' = [semaphores EXCEPT ![k] = @ + 1]
         /\ UNCHANGED active
\* The permit goes back; the last stream of a key takes the key with it.
PutBack(k) ==
    IF active[k] = 1
    THEN /\ semaphores' = [semaphores EXCEPT ![k] = Absent]
         /\ active' = [active EXCEPT ![k] = 0]
    ELSE /\ semaphores' = [semaphores EXCEPT ![k] = @ + 1]
         /\ active' = [active EXCEPT ![k] = @ - 1]

ReleaseFirst(l) ==
    /\ IF Unaccounted(leaseKey[l])
       THEN UNCHANGED <<semaphores, active>>
       ELSE PutBack(leaseKey[l])
    /\ leaseState' = [leaseState EXCEPT ![l] = "released"]
    /\ UNCHANGED leaseKey

ReleaseNotIdempotent(l) ==
    /\ leaseState[l] \in {"held", "released"}
    /\ ReleaseFirst(l)
\* A lease may be released any number of times; only the first call counts.
Release(l) ==
    /\ leaseState[l] \in {"held", "released"}
    /\ IF leaseState[l] = "released"
       THEN UNCHANGED limiterVars
       ELSE ReleaseFirst(l)

Next ==
    \/ \E l \in Leases, k \in Keys : Acquire(l, k)
    \/ \E l \in Leases, k \in Keys : Refuse(l, k)
    \/ \E l \in Leases : Release(l)

Spec == Init /\ [][Next]_limiterVars

-----------------------------------------------------------------------------
(***************************************************************************)
(* Properties                                                              *)
(***************************************************************************)
\* The values the dictionaries and leases of streaming.py range over; the
\* active count never leaves 0..MaxStreams.
TypeOK ==
    /\ semaphores \in [Keys -> {Absent} \union 0..MaxStreams]
    /\ active \in [Keys -> 0..MaxStreams]
    /\ leaseKey \in [Leases -> Keys]
    /\ leaseState \in [Leases -> LeaseStates]

\* The two dictionaries of StreamConcurrencyLimiter agree with each other
\* and with the leases outside: each key's active count is the number of its
\* unreleased leases, and its semaphore has exactly the remaining permits.
Accounting ==
    \A k \in Keys :
        /\ active[k] = Cardinality(Held(k))
        /\ semaphores[k] # Absent => semaphores[k] + active[k] = MaxStreams

\* No key stays in _semaphores or _active once its last stream is released,
\* and no key with a running stream is dropped from them (the idle clean-up
\* of release), so the registry is as small as the set of streaming keys.
NoIdleKey ==
    \A k \in Keys : semaphores[k] # Absent <=> Held(k) # {}

\* No sequence of acquire, refusal, release and repeated release lets a key
\* run more than max_concurrent_streams streams at once.
Quota ==
    \A k \in Keys : Cardinality(Held(k)) <= MaxStreams

\* The limiter grants and refuses exactly as the abstract quota does: in
\* particular acquire returns None only when the key's slots are all held,
\* and releasing one key's lease never changes another key's.
Abstract == INSTANCE StreamQuota
ImplementsQuota == Abstract!Spec
=============================================================================
