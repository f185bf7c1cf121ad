------------------------ MODULE StreamLimiter_proofs ------------------------
(***************************************************************************)
(* StreamLimiter for any keys, any finite number of leases and any limit   *)
(* of at least one stream.                                                 *)
(*                                                                         *)
(* The quota is not inductive: that acquire finds a permit says nothing of *)
(* the number of leases unless the permits are known to be the ones the    *)
(* leases left.  The inductive invariant is the agreement of the two       *)
(* dictionaries with the leases, from which the quota, the clean-up of     *)
(* idle keys and the refinement follow.                                    *)
(***************************************************************************)
EXTENDS StreamLimiter, FiniteSetTheorems, TLAPS

\* The inductive invariant.
Inv == TypeOK /\ Accounting /\ NoIdleKey

-----------------------------------------------------------------------------
(***************************************************************************)
(* How a step changes the set of leases a key holds                        *)
(***************************************************************************)
\* The leases a key holds are finitely many, so they can be counted.
LEMMA HeldFinite ==
    ASSUME NEW k \in Keys
    PROVE  /\ IsFiniteSet(Held(k))
           /\ Cardinality(Held(k)) \in Nat
           /\ Cardinality(Held(k)) = 0 <=> Held(k) = {}
<1>1. Held(k) \subseteq Leases
  BY DEF Held
<1>2. IsFiniteSet(Held(k))
  BY <1>1, LeasesAssumption, FS_Subset
<1> QED
  BY <1>2, FS_CardinalityType, FS_EmptySet

\* Granting a lease adds it to its key's leases and to no other key's.
LEMMA HeldGrows ==
    ASSUME TypeOK, NEW l \in Leases, NEW k \in Keys,
           leaseState[l] = "none",
           leaseKey' = [leaseKey EXCEPT ![l] = k],
           leaseState' = [leaseState EXCEPT ![l] = "held"]
    PROVE  /\ Cardinality(Held(k)') = Cardinality(Held(k)) + 1
           /\ Held(k)' # {}
           /\ \A j \in Keys : j # k => Held(j)' = Held(j)
<1>1. Held(k)' = Held(k) \union {l}
  BY DEF TypeOK, Held
<1>2. l \notin Held(k)
  BY DEF Held
<1>3. Cardinality(Held(k)') = Cardinality(Held(k)) + 1
  BY <1>1, <1>2, HeldFinite, FS_AddElement
<1>4. \A j \in Keys : j # k => Held(j)' = Held(j)
  BY DEF TypeOK, Held
<1> QED
  BY <1>1, <1>3, <1>4

\* Releasing a lease takes it from its key's leases and from no other key's.
LEMMA HeldShrinks ==
    ASSUME TypeOK, NEW l \in Leases,
           leaseState[l] = "held",
           leaseKey' = leaseKey,
           leaseState' = [leaseState EXCEPT ![l] = "released"]
    PROVE  /\ Cardinality(Held(leaseKey[l])') = Cardinality(Held(leaseKey[l])) - 1
           /\ \A j \in Keys : j # leaseKey[l] => Held(j)' = Held(j)
<1> DEFINE k == leaseKey[l]
<1>0. k \in Keys
  BY DEF TypeOK
<1>1. Held(k)' = Held(k) \ {l}
  BY DEF TypeOK, Held
<1>2. l \in Held(k)
  BY DEF Held
<1>3. Cardinality(Held(k)') = Cardinality(Held(k)) - 1
  BY <1>0, <1>1, <1>2, HeldFinite, FS_RemoveElement
<1>4. \A j \in Keys : j # k => Held(j)' = Held(j)
  BY DEF TypeOK, Held
<1> QED
  BY <1>3, <1>4

\* A refusal changes no key's leases.
LEMMA HeldKept ==
    ASSUME TypeOK, NEW l \in Leases, NEW k \in Keys,
           leaseState[l] = "none",
           leaseKey' = [leaseKey EXCEPT ![l] = k],
           leaseState' = [leaseState EXCEPT ![l] = "refused"]
    PROVE  \A j \in Keys : Held(j)' = Held(j)
  BY DEF TypeOK, Held

\* Under the invariant the semaphore of a key, created or not, has as many
\* permits as the key has free slots: locked() means that the key is full.
LEMMA PermitsAreFreeSlots ==
    ASSUME Inv, NEW k \in Keys
    PROVE  /\ Permits(k) = MaxStreams - Cardinality(Held(k))
           /\ Locked(k) <=> Cardinality(Held(k)) = MaxStreams
           /\ Cardinality(Held(k)) <= MaxStreams
<1>1. /\ Cardinality(Held(k)) \in Nat
      /\ Cardinality(Held(k)) = 0 <=> Held(k) = {}
  BY HeldFinite
<1>2. /\ active[k] = Cardinality(Held(k))
      /\ active[k] \in 0..MaxStreams
      /\ semaphores[k] # Absent => semaphores[k] + active[k] = MaxStreams
      /\ semaphores[k] # Absent <=> Held(k) # {}
      /\ semaphores[k] \in {Absent} \union 0..MaxStreams
  BY DEF Inv, TypeOK, Accounting, NoIdleKey
<1> QED
  BY <1>1, <1>2, MaxStreamsAssumption DEF Permits, Locked, Absent

-----------------------------------------------------------------------------
(***************************************************************************)
(* The inductive invariant                                                 *)
(***************************************************************************)
\* The invariant holds of an empty registry.
LEMMA InitInv ==
    Init => Inv
<1> SUFFICES ASSUME Init PROVE Inv
  OBVIOUS
<1>1. TypeOK
  BY MaxStreamsAssumption DEF Init, TypeOK, LeaseStates, Absent
<1>2. \A k \in Keys : Held(k) = {}
  BY DEF Init, Held
<1>3. Accounting
  BY <1>2, FS_EmptySet DEF Init, Accounting
<1>4. NoIdleKey
  BY <1>2 DEF Init, NoIdleKey
<1> QED
  BY <1>1, <1>3, <1>4 DEF Inv

\* A grant takes one permit and one active count for one more lease.
LEMMA AcquireInv ==
    ASSUME Inv, NEW l \in Leases, NEW k \in Keys, Acquire(l, k)
    PROVE  Inv'
<1>1. /\ leaseState[l] = "none"
      /\ leaseKey' = [leaseKey EXCEPT ![l] = k]
      /\ leaseState' = [leaseState EXCEPT ![l] = "held"]
      /\ semaphores' = [semaphores EXCEPT ![k] = Permits(k) - 1]
      /\ active' = [active EXCEPT ![k] = @ + 1]
      /\ ~Locked(k)
      /\ TypeOK
  BY DEF Acquire, Inv
<1>2. /\ Cardinality(Held(k)') = Cardinality(Held(k)) + 1
      /\ Held(k)' # {}
      /\ \A j \in Keys : j # k => Held(j)' = Held(j)
  BY <1>1, HeldGrows
<1>3. /\ Permits(k) = MaxStreams - Cardinality(Held(k))
      /\ Cardinality(Held(k)) \in Nat
      /\ Cardinality(Held(k)) < MaxStreams
      /\ active[k] = Cardinality(Held(k))
  <2>1. Cardinality(Held(k)) \in Nat
    BY HeldFinite
  <2> QED
    BY <2>1, <1>1, PermitsAreFreeSlots, MaxStreamsAssumption DEF Inv, Accounting
<1>4. TypeOK'
  <2>1. Permits(k) - 1 \in 0..MaxStreams /\ active[k] + 1 \in 0..MaxStreams
    BY <1>3, MaxStreamsAssumption
  <2> QED
    BY <1>1, <2>1 DEF TypeOK, LeaseStates
<1>5. Accounting'
  <2> SUFFICES ASSUME NEW j \in Keys
               PROVE  /\ active'[j] = Cardinality(Held(j)')
                      /\ semaphores'[j] # Absent =>
                             semaphores'[j] + active'[j] = MaxStreams
    BY DEF Accounting, Absent
  <2>1. CASE j = k
    BY <2>1, <1>1, <1>2, <1>3, MaxStreamsAssumption DEF TypeOK
  <2>2. CASE j # k
    BY <2>2, <1>1, <1>2 DEF TypeOK, Inv, Accounting
  <2> QED
    BY <2>1, <2>2
<1>6. NoIdleKey'
  <2> SUFFICES ASSUME NEW j \in Keys
               PROVE  semaphores'[j] # Absent <=> Held(j)' # {}
    BY DEF NoIdleKey, Absent
  <2>1. CASE j = k
    BY <2>1, <1>1, <1>2, <1>3, MaxStreamsAssumption DEF TypeOK, Absent
  <2>2. CASE j # k
    BY <2>2, <1>1, <1>2 DEF TypeOK, Inv, NoIdleKey
  <2> QED
    BY <2>1, <2>2
<1> QED
  BY <1>4, <1>5, <1>6 DEF Inv

\* A refusal finds the key registered, so it changes no dictionary.
LEMMA RefuseInv ==
    ASSUME Inv, NEW l \in Leases, NEW k \in Keys, Refuse(l, k)
    PROVE  Inv'
<1>1. /\ leaseState[l] = "none"
      /\ leaseKey' = [leaseKey EXCEPT ![l] = k]
      /\ leaseState' = [leaseState EXCEPT ![l] = "refused"]
      /\ active' = active
      /\ Locked(k)
      /\ TypeOK
  BY DEF Refuse, Inv
<1>2. \A j \in Keys : Held(j)' = Held(j)
  BY <1>1, HeldKept
\* A key that is full is registered: nothing is created.
<1>3. semaphores' = semaphores
  BY <1>1, MaxStreamsAssumption DEF Refuse, Permits, Locked, TypeOK, Absent
<1>4. TypeOK'
  BY <1>1, <1>3 DEF TypeOK, LeaseStates
<1>5. Accounting' /\ NoIdleKey'
  BY <1>1, <1>2, <1>3 DEF Inv, Accounting, NoIdleKey, Absent
<1> QED
  BY <1>4, <1>5 DEF Inv

\* A first release takes the counts back, and the key with the last lease.
LEMMA ReleaseInv ==
    ASSUME Inv, NEW l \in Leases, Release(l)
    PROVE  Inv'
<1> DEFINE k == leaseKey[l]
<1>1. CASE leaseState[l] = "released"
  BY <1>1 DEF Release, limiterVars, Inv, TypeOK, Accounting, NoIdleKey, Held, Absent
<1>2. CASE leaseState[l] = "held"
  <2>1. /\ TypeOK /\ Accounting /\ NoIdleKey
        /\ k \in Keys
        /\ leaseKey' = leaseKey
        /\ leaseState' = [leaseState EXCEPT ![l] = "released"]
    BY <1>2 DEF Release, ReleaseFirst, Inv, TypeOK
  <2>2. /\ Cardinality(Held(k)') = Cardinality(Held(k)) - 1
        /\ \A j \in Keys : j # k => Held(j)' = Held(j)
    BY <1>2, <2>1, HeldShrinks
  <2>3. /\ Cardinality(Held(k)') \in Nat
        /\ Cardinality(Held(k)') = 0 <=> Held(k)' = {}
    <3>1. /\ IsFiniteSet(Held(k)')
      <4>1. Held(k)' \subseteq Leases
        BY DEF Held
      <4> QED
        BY <4>1, LeasesAssumption, FS_Subset
    <3> QED
      BY <3>1, FS_CardinalityType, FS_EmptySet
  <2>4. /\ active[k] = Cardinality(Held(k))
        /\ active[k] \in 1..MaxStreams
        /\ semaphores[k] \in 0..MaxStreams
        /\ semaphores[k] + active[k] = MaxStreams
    <3>1. l \in Held(k)
      BY <1>2 DEF Held
    <3>2. Cardinality(Held(k)) \in Nat /\ Cardinality(Held(k)) # 0
      BY <3>1, <2>1, HeldFinite
    <3> QED
      BY <3>1, <3>2, <2>1, MaxStreamsAssumption
      DEF TypeOK, Accounting, NoIdleKey, Absent
  \* The defensive branches of release are not taken.
  <2>5. PutBack(k)
    BY <1>2, <2>4, MaxStreamsAssumption
    DEF Release, ReleaseFirst, Unaccounted, Absent
  <2>6. /\ active'[k] = Cardinality(Held(k)')
        /\ active'[k] \in 0..MaxStreams
        /\ semaphores'[k] \in {Absent} \union 0..MaxStreams
        /\ semaphores'[k] # Absent => semaphores'[k] + active'[k] = MaxStreams
        /\ semaphores'[k] # Absent <=> Held(k)' # {}
    <3>1. CASE active[k] = 1
      <4>1. active'[k] = 0 /\ semaphores'[k] = Absent
        BY <3>1, <2>1, <2>5 DEF PutBack, TypeOK
      <4> QED
        BY <4>1, <3>1, <2>2, <2>3, <2>4, MaxStreamsAssumption DEF Absent
    <3>2. CASE active[k] # 1
      <4>1. active'[k] = active[k] - 1 /\ semaphores'[k] = semaphores[k] + 1
        BY <3>2, <2>1, <2>5 DEF PutBack, TypeOK
      <4> QED
        BY <4>1, <3>2, <2>2, <2>3, <2>4, MaxStreamsAssumption DEF Absent
    <3> QED
      BY <3>1, <3>2
  <2>7. /\ \A j \in Keys : j # k => active'[j] = active[j]
                                    /\ semaphores'[j] = semaphores[j]
        /\ active' = [j \in Keys |-> active'[j]]
        /\ semaphores' = [j \in Keys |-> semaphores'[j]]
    BY <2>1, <2>5 DEF PutBack, TypeOK
  <2>8. TypeOK'
    <3>1. \A j \in Keys : /\ active'[j] \in 0..MaxStreams
                          /\ semaphores'[j] \in {Absent} \union 0..MaxStreams
      BY <2>1, <2>6, <2>7 DEF TypeOK
    <3>2. /\ active' \in [Keys -> 0..MaxStreams]
          /\ semaphores' \in [Keys -> {Absent} \union 0..MaxStreams]
      BY <3>1, <2>7
    <3> QED
      BY <2>1, <3>2 DEF TypeOK, LeaseStates, Absent
  <2>9. Accounting' /\ NoIdleKey'
    BY <2>1, <2>2, <2>6, <2>7 DEF Accounting, NoIdleKey, Absent
  <2> QED
    BY <2>8, <2>9 DEF Inv
<1> QED
  BY <1>1, <1>2 DEF Release

\* Every call preserves the invariant.
LEMMA NextInv ==
    Inv /\ [Next]_limiterVars => Inv'
<1> SUFFICES ASSUME Inv, [Next]_limiterVars PROVE Inv'
  OBVIOUS
<1>1. CASE \E l \in Leases, k \in Keys : Acquire(l, k)
  BY <1>1, AcquireInv
<1>2. CASE \E l \in Leases, k \in Keys : Refuse(l, k)
  BY <1>2, RefuseInv
<1>3. CASE \E l \in Leases : Release(l)
  BY <1>3, ReleaseInv
<1>4. CASE UNCHANGED limiterVars
  BY <1>4 DEF limiterVars, Inv, TypeOK, Accounting, NoIdleKey, Held, Absent
<1> QED
  BY <1>1, <1>2, <1>3, <1>4 DEF Next

\* So it always holds.
LEMMA InvAlways == Spec => []Inv
  BY InitInv, NextInv, PTL DEF Spec

-----------------------------------------------------------------------------
(***************************************************************************)
(* Theorems                                                                *)
(***************************************************************************)
\* The dictionaries and leases of the limiter keep their types whatever
\* sequence of acquire and release calls is made.
THEOREM TypeCorrect == Spec => []TypeOK
<1>1. Inv => TypeOK
  BY DEF Inv
<1> QED
  BY <1>1, InvAlways, PTL

\* The active counts and the permits of the limiter always agree with the
\* unreleased leases, so the defensive branches of release are never taken.
THEOREM AccountingCorrect == Spec => []Accounting
<1>1. Inv => Accounting
  BY DEF Inv
<1> QED
  BY <1>1, InvAlways, PTL

\* A key is registered exactly while it has an unreleased lease.
THEOREM NoIdleKeyCorrect == Spec => []NoIdleKey
<1>1. Inv => NoIdleKey
  BY DEF Inv
<1> QED
  BY <1>1, InvAlways, PTL

\* No key ever runs more than max_concurrent_streams streams.
THEOREM QuotaCorrect == Spec => []Quota
<1>1. Inv => Quota
  BY PermitsAreFreeSlots DEF Quota
<1> QED
  BY <1>1, InvAlways, PTL

\* acquire and release implement the abstract quota: initial states are
\* initial states of it and every step is a step of it or changes nothing.
THEOREM QuotaImplemented == Spec => ImplementsQuota
<1>1. Init => Abstract!Init
  BY DEF Init, Abstract!Init
<1>2. Inv /\ [Next]_limiterVars => [Abstract!Next]_Abstract!vars
  <2> SUFFICES ASSUME Inv, [Next]_limiterVars
               PROVE  [Abstract!Next]_Abstract!vars
    OBVIOUS
  <2>0. \A k \in Keys : Abstract!Held(k) = Held(k)
    BY DEF Abstract!Held, Held
  <2>c. \A S : Abstract!Cardinality(S) = Cardinality(S)
    BY DEF Abstract!Cardinality, Cardinality
  <2>1. ASSUME NEW l \in Leases, NEW k \in Keys, Acquire(l, k)
        PROVE  Abstract!Grant(l, k)
    <3>1. Cardinality(Held(k)) \in Nat
      BY HeldFinite
    <3>2. Cardinality(Held(k)) < MaxStreams
      BY <2>1, <3>1, PermitsAreFreeSlots, MaxStreamsAssumption DEF Acquire
    <3> QED
      BY <2>0, <2>c, <2>1, <3>2 DEF Acquire, Abstract!Grant
  <2>2. ASSUME NEW l \in Leases, NEW k \in Keys, Refuse(l, k)
        PROVE  Abstract!TurnAway(l, k)
    BY <2>0, <2>c, <2>2, PermitsAreFreeSlots DEF Refuse, Abstract!TurnAway
  <2>3. ASSUME NEW l \in Leases, Release(l)
        PROVE  Abstract!GiveBack(l) \/ UNCHANGED Abstract!vars
    BY <2>3 DEF Release, ReleaseFirst, limiterVars, Abstract!GiveBack, Abstract!vars
  <2>4. CASE UNCHANGED limiterVars
    BY <2>4 DEF limiterVars, Abstract!vars
  <2> QED
    BY <2>1, <2>2, <2>3, <2>4 DEF Next, Abstract!Next
<1> QED
  BY <1>1, <1>2, InvAlways, PTL DEF Spec, ImplementsQuota, Abstract!Spec
=============================================================================
