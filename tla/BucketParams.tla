----------------------------- MODULE BucketParams -----------------------------
(***************************************************************************)
(* Parameters of the rate limiter's buckets (app/ratelimit).  Amounts are  *)
(* integers: a token is Window units and a tick of the clock brings        *)
(* Capacity units, so that refill_per_second = capacity / 60 needs no      *)
(* fractions and an empty bucket is full again after Window ticks.  The    *)
(* rounding of the code's floats is left out.                              *)
(***************************************************************************)
EXTENDS Integers

CONSTANTS
    Capacity,   \* requests_per_minute; 0 or less switches the limiter off
    Window,     \* ticks in a minute
    MaxTime     \* bound: ticks of the clock

ASSUME CapacityAssumption == Capacity \in Nat \ {0}
ASSUME WindowAssumption == Window \in Nat \ {0}
ASSUME MaxTimeAssumption == MaxTime \in Nat

Full == Capacity * Window
Capped(x) == IF x > Full THEN Full ELSE x

\* What a call said: allow granted or refused, preview found capacity or not.
Answers == {"none", "granted", "refused", "open", "shut"}
=============================================================================
