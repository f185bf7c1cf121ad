----------------------------- MODULE RedisBucket -----------------------------
(***************************************************************************)
(* app/ratelimit/redis.py: RedisTokenBucketRateLimit, the bucket of one    *)
(* key, shared by all workers.                                             *)
(*                                                                         *)
(* A call reads the worker's time.time(), sends it with the script, and    *)
(* Redis runs the script as one step.  Nothing else of a call touches      *)
(* shared state, so a call is the run of its script with a timestamp that  *)
(* may be old by then: it was on the wire, or the worker's clock is        *)
(* behind.  now is the fastest of the clocks; timestamps are at most       *)
(* MaxLag behind it.  Redis drops the key ttl_seconds after the last       *)
(* write.  A call that fails to reach Redis raises and changes nothing.    *)
(***************************************************************************)
EXTENDS BucketParams

CONSTANTS
    TTL,        \* ttl_seconds
    MaxLag,     \* bound: how old a timestamp is when its script runs
    MaxRewinds  \* bound: scripts run with an older timestamp than the stored

\* ttl_seconds is five minutes, a bucket fills in one.
ASSUME TTLAssumption == TTL \in Nat /\ MaxLag \in Nat /\ TTL >= Window + MaxLag
ASSUME RewindsAssumption == MaxRewinds \in Nat

VARIABLES
    now,        \* the fastest clock
    tokens,     \* the hash's "tokens", or Absent
    ts,         \* the hash's "ts"
    expireAt,   \* when Redis drops the key
    answer,     \* the answer of the last script
    rewinds,    \* how often a script has set ts back (history)
    granted,    \* calls let through so far (history)
    before      \* before[t]: of them before tick t (history)

vars == <<now, tokens, ts, expireAt, answer, rewinds, granted, before>>

\* HMGET returns nil.
Absent == -1

Init ==
    /\ now = 0
    /\ tokens = Absent
    /\ ts = 0
    /\ expireAt = 0
    /\ answer = "none"
    /\ rewinds = 0
    /\ granted = 0
    /\ before = [t \in 0..MaxTime |-> 0]

\* Time passes; the key may expire.
Tick ==
    /\ now < MaxTime
    /\ now' = now + 1
    /\ tokens' = IF tokens # Absent /\ expireAt <= now + 1 THEN Absent ELSE tokens
    /\ before' = [before EXCEPT ![now + 1] = granted]
    /\ UNCHANGED <<ts, expireAt, answer, rewinds, granted>>

\* Timestamps a script may be run with now.
Stamps == {t \in 0..now : t >= now - MaxLag}

\* elapsed, which is 0 for a timestamp before the stored one.
Elapsed(t) == IF t < ts THEN 0 ELSE t - ts

RefilledUncapped(t) ==
    IF tokens = Absent THEN Full ELSE tokens + Elapsed(t) * Capacity
\* The part that both scripts begin with.
Refilled(t) ==
    IF tokens = Absent THEN Full ELSE Capped(tokens + Elapsed(t) * Capacity)

\* HSET key ts t sets the stored time back, if t is older.
CountRewind(t) ==
    IF tokens # Absent /\ t < ts
    THEN rewinds < MaxRewinds /\ rewinds' = rewinds + 1
    ELSE UNCHANGED rewinds

ExpiryOfRefill == now + 1
\* EXPIRE key ttl_seconds
Expiry == now + TTL

AllowForgetsRefill(t) ==
    /\ IF Refilled(t) >= Window
       THEN /\ tokens' = Refilled(t) - Window
            /\ answer' = "granted"
            /\ granted' = granted + 1
       ELSE /\ answer' = "refused"
            /\ UNCHANGED <<tokens, granted>>
    /\ ts' = t
    /\ expireAt' = Expiry
    /\ CountRewind(t)
    /\ UNCHANGED <<now, before>>
AllowKeepsTime(t) ==
    /\ IF Refilled(t) >= Window
       THEN /\ tokens' = Refilled(t) - Window
            /\ answer' = "granted"
            /\ granted' = granted + 1
       ELSE /\ tokens' = Refilled(t)
            /\ answer' = "refused"
            /\ UNCHANGED granted
    /\ ts' = IF tokens = Absent THEN t ELSE ts
    /\ expireAt' = Expiry
    /\ CountRewind(t)
    /\ UNCHANGED <<now, before>>
\* _ALLOW_SCRIPT with now = t: tokens and ts are written also on a refusal.
Allow(t) ==
    /\ IF Refilled(t) >= Window
       THEN /\ tokens' = Refilled(t) - Window
            /\ answer' = "granted"
            /\ granted' = granted + 1
       ELSE /\ tokens' = Refilled(t)
            /\ answer' = "refused"
            /\ UNCHANGED granted
    /\ ts' = t
    /\ expireAt' = Expiry
    /\ CountRewind(t)
    /\ UNCHANGED <<now, before>>

\* _PREVIEW_SCRIPT with now = t: writes nothing.
Preview(t) ==
    /\ answer' = IF Refilled(t) >= Window THEN "open" ELSE "shut"
    /\ UNCHANGED <<now, tokens, ts, expireAt, rewinds, granted, before>>

Next ==
    \/ Tick
    \/ \E t \in Stamps : Allow(t)
    \/ \E t \in Stamps : Preview(t)

Spec == Init /\ [][Next]_vars

-----------------------------------------------------------------------------
\* The values of the hash: tokens within the capacity, ts a past time.
TypeOK ==
    /\ now \in 0..MaxTime
    /\ tokens \in {Absent} \union 0..Full
    /\ ts \in 0..now
    /\ expireAt \in Nat
    /\ answer \in Answers
    /\ rewinds \in Nat
    /\ granted \in Nat
    /\ before \in [0..MaxTime -> Nat]

\* What is let through since any tick a, when timestamps are up to MaxLag old:
\* a full bucket, the refill since the oldest timestamp of that time, and
\* once more the lag for each script that set ts back (the time in between
\* is refilled twice).  Neither late timestamps nor the expiry of the key
\* give more.
Ceiling ==
    \A a \in 0..now :
        (granted - before[a]) * Window
            <= Full + Capacity * (now - a + MaxLag + MaxLag * rewinds)

\* ratelimit/base.py: with Redis limits are enforced across workers and
\* hosts.  The limit, with the lag granted once and not at every rewind.
EnforcedAcrossWorkers ==
    \A a \in 0..now :
        (granted - before[a]) * Window <= Full + Capacity * (now - a + MaxLag)

\* The first tick of the last minute.
MinuteAgo == IF now > Window THEN now - Window ELSE 0

\* A timestamp is refused only when the calls let through in the last minute
\* leave less than a token of a full bucket, but for the refill of the lag:
\* no order of scripts loses tokens.
NoEarlyRefusal ==
    \A t \in Stamps :
        Refilled(t) < Window =>
            (granted - before[MinuteAgo]) * Window > Full - Window - MaxLag * Capacity

\* EXPIRE forgets nothing: the key is dropped only when its bucket would be
\* full again, so that a caller gains nothing by the expiry.
ExpiresOnlyWhenFull ==
    [][tokens # Absent /\ tokens' = Absent =>
           tokens + (now' - ts) * Capacity >= Full]_vars
=============================================================================
