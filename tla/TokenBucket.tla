----------------------------- MODULE TokenBucket -----------------------------
(***************************************************************************)
(* What a rate limit promises one caller: an ideal token bucket that is    *)
(* refilled at every tick of the clock, holds at most Capacity tokens, and *)
(* lets a call through exactly when a whole token is there.                *)
(*                                                                         *)
(* granted and before only record what was granted and when.               *)
(***************************************************************************)
EXTENDS BucketParams

VARIABLES
    now,        \* the clock
    level,      \* units in the bucket
    answer,     \* of the last call
    granted,    \* calls let through so far
    before      \* before[t]: calls let through before tick t

vars == <<now, level, answer, granted, before>>

Init ==
    /\ now = 0
    /\ level = Full
    /\ answer = "none"
    /\ granted = 0
    /\ before = [t \in 0..MaxTime |-> 0]

Tick ==
    /\ now < MaxTime
    /\ now' = now + 1
    /\ level' = Capped(level + Capacity)
    /\ before' = [before EXCEPT ![now + 1] = granted]
    /\ UNCHANGED <<answer, granted>>

Grant ==
    /\ level >= Window
    /\ level' = level - Window
    /\ answer' = "granted"
    /\ granted' = granted + 1
    /\ UNCHANGED <<now, before>>

Refuse ==
    /\ level < Window
    /\ answer' = "refused"
    /\ UNCHANGED <<now, level, granted, before>>

\* A look at the bucket, which takes nothing.
Look ==
    /\ answer' = IF level >= Window THEN "open" ELSE "shut"
    /\ UNCHANGED <<now, level, granted, before>>

Next == Tick \/ Grant \/ Refuse \/ Look

Spec == Init /\ [][Next]_vars

-----------------------------------------------------------------------------
\* What is granted from any tick a to now, both included, never exceeds a
\* full bucket and the refill of that time.
Ceiling ==
    \A a \in 0..now :
        (granted - before[a]) * Window + level <= Full + Capacity * (now - a)

\* Nothing of the refill is lost: what is granted since tick a and what is
\* left make up the refill since then, up to a full bucket.
Floor ==
    /\ \A a \in 0..now :
        level + (granted - before[a]) * Window >= Capped(Capacity * (now - a))
    /\ level + granted * Window >= Full

\* The first tick of the last minute.
MinuteAgo == IF now > Window THEN now - Window ELSE 0

\* A caller is refused only after Capacity calls in the last minute.
NoEarlyRefusal ==
    level < Window => granted - before[MinuteAgo] >= Capacity
=============================================================================
