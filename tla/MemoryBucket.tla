----------------------------- MODULE MemoryBucket -----------------------------
(***************************************************************************)
(* app/ratelimit/memory.py: InMemoryRateLimit, the bucket of one key.      *)
(*                                                                         *)
(* The bucket is created by the first allow and refilled only when a call  *)
(* looks at it, for the time since the last look.  Each call runs under    *)
(* one asyncio.Lock, reads time.monotonic() inside it and awaits nothing,  *)
(* so a call is one step.  Keys share nothing but the lock.                *)
(*                                                                         *)
(* A limit of 0 or less switches the limiter off and is not modelled.      *)
(***************************************************************************)
EXTENDS BucketParams

VARIABLES
    now,        \* time.monotonic()
    tokens,     \* _Bucket.tokens, or Absent
    updatedAt,  \* _Bucket.updated_at
    answer,     \* RateLimitResult.allowed of the last call, and of which
    retryAt,    \* the time Retry-After points at, after a refusal
    granted,    \* calls let through so far (history)
    before      \* before[t]: of them before tick t (history)

bucketVars == <<now, tokens, updatedAt, answer, retryAt, granted, before>>

\* The key has no bucket.
Absent == -1

Init ==
    /\ now = 0
    /\ tokens = Absent
    /\ updatedAt = 0
    /\ answer = "none"
    /\ retryAt = 0
    /\ granted = 0
    /\ before = [t \in 0..MaxTime |-> 0]

Tick ==
    /\ now < MaxTime
    /\ now' = now + 1
    /\ before' = [before EXCEPT ![now + 1] = granted]
    /\ UNCHANGED <<tokens, updatedAt, answer, retryAt, granted>>

RefilledUncapped == IF tokens = Absent THEN Full ELSE tokens + (now - updatedAt) * Capacity
\* _refill_bucket: a new bucket is full and has nothing to catch up on.
Refilled ==
    IF tokens = Absent THEN Full ELSE Capped(tokens + (now - updatedAt) * Capacity)

RetryAfterFloor(t) == IF (Window - t) \div Capacity < 1 THEN 1 ELSE (Window - t) \div Capacity
\* (1 - tokens) / refill_per_second, in whole seconds rounded up, at least 1.
RetryAfter(t) == (Window - t + Capacity - 1) \div Capacity

AllowForgetsRefill ==
    /\ IF Refilled >= Window
       THEN /\ tokens' = Refilled - Window
            /\ answer' = "granted"
            /\ granted' = granted + 1
            /\ UNCHANGED retryAt
       ELSE /\ answer' = "refused"
            /\ retryAt' = now + RetryAfter(Refilled)
            /\ UNCHANGED <<granted, tokens>>
    /\ updatedAt' = now
    /\ UNCHANGED <<now, before>>
\* allow(key)
Allow ==
    /\ IF Refilled >= Window
       THEN /\ tokens' = Refilled - Window
            /\ answer' = "granted"
            /\ granted' = granted + 1
            /\ UNCHANGED retryAt
       ELSE /\ tokens' = Refilled
            /\ answer' = "refused"
            /\ retryAt' = now + RetryAfter(Refilled)
            /\ UNCHANGED granted
    /\ updatedAt' = now
    /\ UNCHANGED <<now, before>>

PreviewKeepsTime ==
    /\ IF tokens = Absent
       THEN UNCHANGED tokens
       ELSE tokens' = Refilled
    /\ IF Refilled >= Window
       THEN answer' = "open" /\ UNCHANGED retryAt
       ELSE answer' = "shut" /\ retryAt' = now + RetryAfter(Refilled)
    /\ UNCHANGED <<now, updatedAt, granted, before>>
\* preview(key): refills a bucket that exists, creates none.
Preview ==
    /\ IF tokens = Absent
       THEN UNCHANGED <<tokens, updatedAt>>
       ELSE tokens' = Refilled /\ updatedAt' = now
    /\ IF Refilled >= Window
       THEN answer' = "open" /\ UNCHANGED retryAt
       ELSE answer' = "shut" /\ retryAt' = now + RetryAfter(Refilled)
    /\ UNCHANGED <<now, granted, before>>

Next == Tick \/ Allow \/ Preview

Spec == Init /\ [][Next]_bucketVars

-----------------------------------------------------------------------------
\* The values of a bucket: never above capacity, never negative, and never
\* updated later than now.
TypeOK ==
    /\ now \in 0..MaxTime
    /\ tokens \in {Absent} \union 0..Full
    /\ updatedAt \in 0..now
    /\ answer \in Answers
    /\ retryAt \in Nat
    /\ granted \in Nat
    /\ before \in [0..MaxTime -> Nat]

\* The lazy bucket of memory.py answers every allow and every preview as the
\* ideal one does, which is refilled at every tick; a preview takes nothing
\* and a bucket not yet created is a full one.
Ideal == INSTANCE TokenBucket WITH level <- Refilled
ImplementsIdeal == Ideal!Spec

\* Over any period InMemoryRateLimit lets through no more than a full bucket
\* and the refill of that time.
Ceiling == Ideal!Ceiling

\* InMemoryRateLimit refuses only a caller that made requests_per_minute
\* calls in the last minute.
NoEarlyRefusal == Ideal!NoEarlyRefusal

\* Retry-After is exact: if no one else is let through in between, a refused
\* caller is let through from the second it was told on, and not before.
RetryExact ==
    answer \in {"refused", "shut"} => (Refilled >= Window <=> now >= retryAt)
=============================================================================
