-------------------------- MODULE RedisBucket_proofs --------------------------
(***************************************************************************)
(* The shared bucket of ratelimit/redis.py for every limit, window, lag    *)
(* and expiry: what late timestamps and the expiry of the key can change   *)
(* is bounded from above (Ceiling) and from below (NoEarlyRefusal).        *)
(*                                                                         *)
(* Two readings of the stored hash carry the two bounds.  High is the most *)
(* scripts could still take out of it now, Low what a script with the      *)
(* current time would find.  A script with a late timestamp caps the       *)
(* refill too early and leaves the lag to be refilled again: so High is    *)
(* capped at a full bucket and the refill of the lag, Low at a full one.   *)
(***************************************************************************)
EXTENDS RedisBucket, TLAPS

\* The refill of MaxLag ticks, and of the time since ts.
LagRefill == MaxLag * Capacity
Owed == (now - ts) * Capacity

High ==
    IF tokens = Absent \/ tokens + Owed > Full + LagRefill
    THEN Full + LagRefill
    ELSE tokens + Owed

Low == IF tokens = Absent THEN Full ELSE Capped(tokens + Owed)

\* The key outlives its last timestamp by ttl_seconds.
Lives == tokens # Absent => ts + TTL <= expireAt

\* The history only grows, and begins with nothing.
History ==
    /\ before[0] = 0
    /\ \A a \in 0..now : before[a] <= granted

Spent(a) == (granted - before[a]) * Window

Above ==
    \A a \in 0..now :
        Spent(a) + High <= Full + Capacity * (now - a + MaxLag + MaxLag * rewinds)

Below ==
    /\ \A a \in 0..now : Low + Spent(a) >= Capped(Capacity * (now - a))
    /\ Low + granted * Window >= Full

Inv == TypeOK /\ Lives /\ History /\ Above /\ Below

-----------------------------------------------------------------------------
(***************************************************************************)
(* Arithmetic                                                              *)
(***************************************************************************)
LEMMA Distribute ==
    ASSUME NEW c \in Int, NEW x \in Int, NEW y \in Int
    PROVE  /\ c * (x + y) = c * x + c * y
           /\ (x + y) * c = x * c + y * c
           /\ c * x \in Int
           /\ x * c \in Int
           /\ c * x = x * c
  OBVIOUS

LEMMA Monotone ==
    ASSUME NEW c \in Nat, NEW x \in Int, NEW y \in Int, x <= y
    PROVE  x * c <= y * c
  OBVIOUS

LEMMA Parameters ==
    /\ Full \in Nat /\ Full >= Window
    /\ Window \in Nat \ {0} /\ Capacity \in Nat \ {0} /\ MaxTime \in Nat
    /\ LagRefill \in Nat /\ MaxLag \in Nat /\ TTL \in Nat /\ TTL >= Window + MaxLag
<1>1. Capacity \in Nat /\ Capacity >= 1 /\ Window \in Nat /\ Window >= 1
  BY CapacityAssumption, WindowAssumption
<1>2. Capacity * Window \in Nat /\ Capacity * Window >= 1 * Window
  BY <1>1
<1>3. MaxLag * Capacity \in Nat
  BY <1>1, TTLAssumption
<1> QED
  BY <1>1, <1>2, <1>3, TTLAssumption, MaxTimeAssumption DEF Full, LagRefill

\* ttl_seconds of refill are a full bucket and the lag's refill.
LEMMA ExpiryRefill ==
    ASSUME NEW n \in Int, n >= TTL
    PROVE  n * Capacity \in Int /\ n * Capacity >= Full + LagRefill
<1>1. n * Capacity \in Int /\ n * Capacity >= (Window + MaxLag) * Capacity
  BY Parameters, Monotone, Distribute
<1>2. (Window + MaxLag) * Capacity = Window * Capacity + MaxLag * Capacity
  BY Parameters, Distribute
<1>3. Window * Capacity = Capacity * Window
  BY Parameters, Distribute
<1> QED
  BY <1>1, <1>2, <1>3 DEF Full, LagRefill

LEMMA OwedNat ==
    ASSUME TypeOK
    PROVE  /\ now \in Nat /\ ts \in Nat /\ ts <= now /\ Owed \in Nat
           /\ tokens \in {Absent} \union 0..Full
<1>1. now \in Nat /\ ts \in Nat /\ ts <= now /\ now - ts \in Nat
  BY Parameters DEF TypeOK
<1>2. (now - ts) * Capacity \in Nat
  BY <1>1, Parameters
<1> QED
  BY <1>1, <1>2 DEF Owed, TypeOK

\* A stamp splits the time since ts, or lies before it by at most the lag.
LEMMA StampRefill ==
    ASSUME TypeOK, NEW t \in Stamps
    PROVE  /\ t \in Nat /\ t <= now
           /\ Elapsed(t) * Capacity \in Nat
           /\ (now - t) * Capacity \in 0..LagRefill
           /\ t >= ts => Elapsed(t) * Capacity + (now - t) * Capacity = Owed
           /\ t < ts => /\ Elapsed(t) * Capacity = 0
                        /\ (now - t) * Capacity >= Owed
                        /\ (now - t) * Capacity <= Owed + LagRefill
<1>1. /\ now \in Nat /\ ts \in Nat /\ ts <= now /\ t \in Nat /\ t <= now
      /\ now - t \in Nat /\ now - t <= MaxLag /\ Owed \in Nat
  BY OwedNat, Parameters DEF Stamps
<1>2. Elapsed(t) \in Nat /\ (t >= ts => Elapsed(t) = t - ts) /\ (t < ts => Elapsed(t) = 0)
  BY <1>1 DEF Elapsed
<1>3. Elapsed(t) * Capacity \in Nat /\ (now - t) * Capacity \in Nat
  BY <1>1, <1>2, Parameters
<1>4. (now - t) * Capacity <= LagRefill
  BY <1>1, Parameters, Monotone DEF LagRefill
<1>5. ASSUME t >= ts PROVE Elapsed(t) * Capacity + (now - t) * Capacity = Owed
  <2>1. now - ts = (t - ts) + (now - t) /\ t - ts \in Int
    BY <1>1
  <2>2. ((t - ts) + (now - t)) * Capacity = (t - ts) * Capacity + (now - t) * Capacity
    BY <1>1, <2>1, Parameters, Distribute
  <2> QED
    BY <1>2, <1>5, <2>1, <2>2 DEF Owed
<1>6. ASSUME t < ts
      PROVE  /\ Elapsed(t) * Capacity = 0
             /\ (now - t) * Capacity >= Owed
             /\ (now - t) * Capacity <= Owed + LagRefill
  <2>1. Elapsed(t) * Capacity = 0
    BY <1>2, <1>6, Parameters
  <2>2. (now - ts) * Capacity <= (now - t) * Capacity
    BY <1>1, <1>6, Parameters, Monotone
  <2> QED
    BY <1>1, <1>3, <1>4, <2>1, <2>2, Parameters DEF Owed
<1> QED
  BY <1>1, <1>3, <1>4, <1>5, <1>6, Parameters

LEMMA Readings ==
    ASSUME TypeOK
    PROVE  High \in 0..Full + LagRefill /\ Low \in 0..Full
  BY OwedNat, Parameters DEF High, Low, Capped, Absent

\* The same of the state after a step.
LEMMA NextReadings ==
    ASSUME NEW n \in Nat, NEW s \in 0..n, NEW x \in {Absent} \union 0..Full,
           now' = n, ts' = s, tokens' = x
    PROVE  High' \in 0..Full + LagRefill /\ Low' \in 0..Full
<1>1. n - s \in Nat
  OBVIOUS
<1> DEFINE owed == (n - s) * Capacity
<1>2. owed \in Nat
  BY <1>1, Parameters
<1>3. Owed' = owed
  BY DEF Owed
<1> HIDE DEF owed
<1>4. /\ High' = IF x = Absent \/ x + owed > Full + LagRefill
                 THEN Full + LagRefill ELSE x + owed
      /\ Low' = IF x = Absent THEN Full ELSE Capped(x + owed)
  BY <1>3 DEF High, Low, Capped, Full, LagRefill, Absent
<1> QED
  BY <1>2, <1>4, Parameters DEF Capped, Absent

LEMMA RefilledInRange ==
    ASSUME TypeOK, NEW t \in Stamps
    PROVE  Refilled(t) \in 0..Full
<1> DEFINE more == Elapsed(t) * Capacity
<1>1. more \in Nat
  BY StampRefill
<1> HIDE DEF more
<1>2. Refilled(t) = IF tokens = Absent THEN Full ELSE Capped(tokens + more)
  BY DEF Refilled, more
<1> QED
  BY <1>1, <1>2, OwedNat, Parameters DEF Capped, Absent

-----------------------------------------------------------------------------
(***************************************************************************)
(* What the steps do to the two readings                                   *)
(***************************************************************************)
\* A tick adds its refill to both, also when the key expires: by then both
\* are as full as a missing key is taken to be.
LEMMA TickReadings ==
    ASSUME TypeOK, Lives, Tick
    PROVE  High' <= High + Capacity /\ Low' = Capped(Low + Capacity)
<1>0. /\ now \in Nat /\ ts \in Nat /\ ts <= now /\ Owed \in Nat
      /\ tokens \in {Absent} \union 0..Full
      /\ now' = now + 1 /\ ts' = ts
  BY OwedNat DEF Tick
<1>1. Owed' = Owed + Capacity
  <2>1. now' - ts' = (now - ts) + 1 /\ now - ts \in Int
    BY <1>0
  <2>2. ((now - ts) + 1) * Capacity = (now - ts) * Capacity + 1 * Capacity
    BY <2>1, Parameters, Distribute
  <2> QED
    BY <2>1, <2>2, Parameters DEF Owed
<1>2. /\ High' = IF tokens' = Absent \/ tokens' + Owed' > Full + LagRefill
                 THEN Full + LagRefill ELSE tokens' + Owed'
      /\ Low' = IF tokens' = Absent THEN Full ELSE Capped(tokens' + Owed')
  BY DEF High, Low, Capped, Full, LagRefill, Absent
<1>3. CASE tokens = Absent
  <2>1. tokens' = Absent
    BY <1>3 DEF Tick
  <2> QED
    BY <1>2, <1>3, <2>1, Parameters DEF High, Low, Capped
<1>4. CASE tokens # Absent /\ tokens' = tokens
  BY <1>0, <1>1, <1>2, <1>4, Parameters DEF High, Low, Capped
<1>5. CASE tokens # Absent /\ tokens' # tokens
  <2>1. tokens' = Absent /\ expireAt <= now + 1
    BY <1>5 DEF Tick
  <2>2. now' - ts' \in Int /\ now' - ts' >= TTL
    BY <1>0, <1>5, <2>1, Parameters DEF Lives, TypeOK
  <2>3. Owed' >= Full + LagRefill
    BY <2>2, ExpiryRefill DEF Owed
  <2>4. Owed >= Full + LagRefill - Capacity
    BY <1>0, <1>1, <2>3, Parameters
  <2> QED
    BY <1>0, <1>2, <1>5, <2>1, <2>4, Parameters DEF High, Low, Capped
<1> QED
  BY <1>3, <1>4, <1>5

\* What the bucket holds when a script with stamp t has left x in it.
LEMMA WrittenReadings ==
    ASSUME TypeOK, NEW t \in Stamps, NEW x \in 0..Full,
           now' = now, ts' = t, tokens' = x
    PROVE  /\ High' <= x + (now - t) * Capacity
           /\ Low' = Capped(x + (now - t) * Capacity)
<1> DEFINE more == (now - t) * Capacity
<1>1. more \in 0..LagRefill
  BY StampRefill
<1>2. Owed' = more
  BY DEF Owed
<1>3. tokens' # Absent
  BY Parameters DEF Absent
<1>4. /\ High' = IF x + more > Full + LagRefill THEN Full + LagRefill ELSE x + more
      /\ Low' = Capped(x + more)
  BY <1>2, <1>3 DEF High, Low, Capped, Full, LagRefill, Absent
<1> HIDE DEF more
<1>5. High' <= x + more
  BY <1>1, <1>4, Parameters
<1> QED
  BY <1>4, <1>5 DEF more

\* A script takes a token, or none, out of both readings; High also gains
\* the lag's refill if the script sets ts back.
LEMMA AllowReadings ==
    ASSUME TypeOK, NEW t \in Stamps, Allow(t),
           NEW price \in Nat, NEW gain \in Nat,
           price = IF Refilled(t) >= Window THEN Window ELSE 0,
           gain = IF tokens # Absent /\ t < ts THEN LagRefill ELSE 0
    PROVE  High' <= High - price + gain /\ Low' >= Low - price
<1> DEFINE x == Refilled(t) - price
           past == Elapsed(t) * Capacity
           more == (now - t) * Capacity
<1>0. Refilled(t) \in 0..Full /\ x \in 0..Full
  BY RefilledInRange, Parameters
<1>1. now' = now /\ ts' = t /\ tokens' = x
  BY <1>0, Parameters DEF Allow
<1> HIDE DEF x
<1>2. High' <= x + more /\ Low' = Capped(x + more)
  BY <1>0, <1>1, WrittenReadings
<1>3. /\ past \in Nat /\ more \in 0..LagRefill
      /\ t >= ts => past + more = Owed
      /\ t < ts => past = 0 /\ more >= Owed /\ more <= Owed + LagRefill
  BY StampRefill
<1>4. Refilled(t) = IF tokens = Absent THEN Full ELSE Capped(tokens + past)
  BY DEF Refilled
<1>5. /\ x = Refilled(t) - price
      /\ High' \in Int /\ Low' \in Int /\ t \in Nat /\ ts \in Nat
      /\ Owed \in Nat /\ tokens \in {Absent} \union 0..Full
  <2>1. High' \in Int /\ Low' \in Int
    <3>1. Owed' = more
      BY <1>1 DEF Owed
    <3> HIDE DEF more
    <3> QED
      BY <1>0, <1>1, <1>3, <3>1, Parameters DEF High, Low, Capped, Full, LagRefill, Absent
  <2> QED
    BY <2>1, OwedNat, StampRefill DEF x
<1> HIDE DEF past, more
<1>6. CASE tokens = Absent
  BY <1>2, <1>3, <1>4, <1>5, <1>6, Parameters DEF High, Low, Capped
<1>7. CASE tokens # Absent /\ t >= ts
  BY <1>2, <1>3, <1>4, <1>5, <1>7, Parameters DEF High, Low, Capped
<1>8. CASE tokens # Absent /\ t < ts
  <2>1. Refilled(t) = tokens
    BY <1>3, <1>4, <1>5, <1>8, Parameters DEF Capped
  <2> QED
    BY <1>2, <1>3, <1>5, <1>8, <2>1, Parameters DEF High, Low, Capped
<1> QED
  BY <1>5, <1>6, <1>7, <1>8

-----------------------------------------------------------------------------
(***************************************************************************)
(* The inductive invariant                                                 *)
(***************************************************************************)
LEMMA InitInv == Init => Inv
<1> SUFFICES ASSUME Init PROVE Inv
  OBVIOUS
<1>1. TypeOK /\ Lives /\ History
  BY Parameters DEF Init, TypeOK, Lives, History, Answers, Absent
<1>2. High = Full + LagRefill /\ Low = Full /\ now = 0 /\ Spent(0) = 0
  BY Parameters DEF Init, High, Low, Spent
<1>3. Above
  <2>1. Capacity * (0 - 0 + MaxLag + MaxLag * rewinds) = LagRefill
    BY Parameters DEF Init, LagRefill
  <2> QED
    BY <1>2, <2>1, Parameters DEF Above
<1>4. Below
  BY <1>2, Parameters DEF Below, Capped, Init
<1> QED
  BY <1>1, <1>3, <1>4 DEF Inv

LEMMA SpentNat ==
    ASSUME TypeOK, History, NEW a \in 0..now
    PROVE  before[a] \in Nat /\ granted - before[a] \in Nat /\ Spent(a) \in Nat
<1>1. before[a] \in Nat /\ granted - before[a] \in Nat
  BY Parameters DEF TypeOK, History
<1>2. (granted - before[a]) * Window \in Nat
  BY <1>1, Parameters
<1> QED
  BY <1>1, <1>2 DEF Spent

LEMMA TickInv ==
    ASSUME Inv, Tick
    PROVE  Inv'
<1>0. TypeOK /\ Lives /\ History
  BY DEF Inv
<1>1. /\ now \in Nat /\ now < MaxTime /\ now' = now + 1 /\ granted' = granted
      /\ granted \in Nat /\ rewinds \in Nat /\ rewinds' = rewinds
      /\ before' = [before EXCEPT ![now + 1] = granted]
      /\ before \in [0..MaxTime -> Nat]
  BY <1>0, Parameters DEF Tick, TypeOK
<1>2. TypeOK'
  <2>1. tokens' \in {Absent} \union 0..Full
    BY <1>0 DEF Tick, TypeOK
  <2> QED
    BY <1>0, <1>1, <2>1, Parameters DEF Tick, TypeOK, Full, Absent, Answers
<1>3. Lives' /\ History'
  BY <1>0, <1>1, Parameters DEF Tick, Lives, History, TypeOK, Absent
<1>4. /\ High \in Int /\ High' \in 0..Full + LagRefill /\ High' <= High + Capacity
      /\ Low \in 0..Full /\ Low' = Capped(Low + Capacity)
  <2>1. ts' \in 0..now' /\ now' \in Nat /\ tokens' \in {Absent} \union 0..Full
    BY <1>0, <1>1, OwedNat DEF Tick
  <2> QED
    BY <1>0, <2>1, Readings, NextReadings, TickReadings
<1> DEFINE lag == MaxLag + MaxLag * rewinds
<1>5. lag \in Nat
  BY <1>1, Parameters
<1>6. ASSUME NEW a \in 0..now + 1
      PROVE  /\ Spent(a)' + High' <= Full + Capacity * ((now + 1) - a + MaxLag + MaxLag * rewinds)
             /\ Low' + Spent(a)' >= Capped(Capacity * ((now + 1) - a))
  <2>0. ((now + 1) - a) + lag = (now + 1) - a + MaxLag + MaxLag * rewinds
    BY <1>1, Parameters
  <2> HIDE DEF lag
  <2>1. CASE a = now + 1
    <3>1. Spent(a)' = 0 /\ Capacity * ((now + 1) - a) = 0
      BY <1>1, <2>1, Parameters DEF Spent
    <3>2. Capacity * (((now + 1) - a) + lag) >= LagRefill
      <4>1. ((now + 1) - a) + lag \in Int /\ ((now + 1) - a) + lag >= MaxLag
        BY <1>1, <1>5, <2>1, Parameters DEF lag
      <4>2. MaxLag * Capacity <= (((now + 1) - a) + lag) * Capacity
        BY <4>1, Parameters, Monotone
      <4> QED
        BY <4>1, <4>2, Parameters, Distribute DEF LagRefill
    <3>3. Capacity * (((now + 1) - a) + lag) \in Int
      BY <1>1, <1>5, Parameters
    <3> QED
      BY <1>4, <2>0, <3>1, <3>2, <3>3, Parameters DEF Capped
  <2>2. CASE a \in 0..now
    <3> DEFINE refill == Capacity * (now - a)
               allowed == Capacity * ((now - a) + lag)
    <3>1. Spent(a)' = Spent(a) /\ Spent(a) \in Nat
      BY <1>0, <1>1, <2>2, SpentNat, Parameters DEF Spent
    <3>2. /\ refill \in Int /\ Capacity * ((now + 1) - a) = refill + Capacity
          /\ allowed \in Int /\ Capacity * (((now + 1) - a) + lag) = allowed + Capacity
      <4>1. /\ (now + 1) - a = (now - a) + 1 /\ now - a \in Int
            /\ ((now + 1) - a) + lag = ((now - a) + lag) + 1 /\ (now - a) + lag \in Int
        BY <1>1, <1>5, <2>2
      <4>2. /\ Capacity * ((now - a) + 1) = Capacity * (now - a) + Capacity * 1
            /\ Capacity * (((now - a) + lag) + 1) = Capacity * ((now - a) + lag) + Capacity * 1
        BY <4>1, Parameters, Distribute
      <4> QED
        BY <4>1, <4>2, Parameters, Distribute
    <3>3. Spent(a) + High <= Full + allowed /\ Low + Spent(a) >= Capped(refill)
      <4>1. (now - a) + lag = now - a + MaxLag + MaxLag * rewinds
        BY <1>1, <2>2, Parameters DEF lag
      <4> QED
        BY <2>2, <4>1 DEF Inv, Above, Below
    <3> HIDE DEF refill, allowed
    <3>4. Spent(a)' + High' <= Full + (allowed + Capacity)
      BY <1>4, <3>1, <3>2, <3>3, Parameters
    <3>5. Low' + Spent(a)' >= Capped(refill + Capacity)
      BY <1>4, <3>1, <3>2, <3>3, Parameters DEF Capped
    <3> QED
      BY <2>0, <3>2, <3>4, <3>5
  <2> QED
    BY <1>1, <2>1, <2>2
<1>7. Low' + granted' * Window >= Full
  <2>1. Low + granted * Window >= Full /\ granted * Window \in Nat
    BY <1>1, Parameters DEF Inv, Below
  <2> QED
    BY <1>1, <1>4, <2>1, Parameters DEF Capped
<1>8. Above'
  BY <1>1, <1>6 DEF Above, Full
<1>9. Below'
  BY <1>1, <1>6, <1>7 DEF Below, Capped, Full
<1> QED
  BY <1>2, <1>3, <1>8, <1>9 DEF Inv

LEMMA AllowInv ==
    ASSUME Inv, NEW t \in Stamps, Allow(t)
    PROVE  Inv'
<1>0. TypeOK /\ History /\ Refilled(t) \in 0..Full
  BY RefilledInRange DEF Inv
<1>1. /\ now \in Nat /\ now' = now /\ before' = before /\ granted \in Nat
      /\ before \in [0..MaxTime -> Nat] /\ rewinds \in Nat
      /\ t \in Nat /\ t <= now /\ ts \in Nat
  BY <1>0, OwedNat, StampRefill DEF Allow, TypeOK
<1> DEFINE g == IF Refilled(t) >= Window THEN 1 ELSE 0
           w == IF tokens # Absent /\ t < ts THEN 1 ELSE 0
           price == g * Window
           gain == w * LagRefill
<1>2. granted' = granted + g /\ rewinds' = rewinds + w /\ g \in {0, 1} /\ w \in {0, 1}
  BY <1>1 DEF Allow, CountRewind
<1>3. TypeOK'
  <2>1. tokens' \in 0..Full
    BY <1>0, Parameters DEF Allow
  <2>2. now + TTL \in Nat /\ granted' \in Nat /\ rewinds' \in Nat
    BY <1>1, <1>2, Parameters
  <2> QED
    BY <1>0, <1>1, <2>1, <2>2, Parameters DEF Allow, Expiry, TypeOK, Full, Absent, Answers
<1>4. Lives' /\ History'
  <2>1. ts' + TTL <= expireAt'
    BY <1>1, Parameters DEF Allow, Expiry
  <2>2. granted' \in Nat /\ granted' >= granted
    BY <1>1, <1>2
  <2>3. \A a \in 0..now : before[a] \in Nat /\ before[a] <= granted
    BY <1>0, SpentNat, <1>1
  <2>4. \A a \in 0..now : before[a] <= granted'
    BY <1>1, <2>2, <2>3
  <2> QED
    BY <1>0, <1>1, <2>1, <2>4 DEF Lives, History
<1>5. /\ High \in Int /\ High' \in Int /\ Low \in 0..Full /\ Low' \in 0..Full
      /\ price \in Nat /\ gain \in Nat
      /\ High' <= High - price + gain /\ Low' >= Low - price
  <2>1. /\ price \in Nat /\ gain \in Nat
        /\ price = IF Refilled(t) >= Window THEN Window ELSE 0
        /\ gain = IF tokens # Absent /\ t < ts THEN LagRefill ELSE 0
    BY Parameters
  <2>2. High' <= High - price + gain /\ Low' >= Low - price
    BY <1>0, <2>1, AllowReadings
  <2>3. High' \in Int /\ Low' \in 0..Full
    <3>1. ts' \in 0..now' /\ now' \in Nat
      BY <1>1 DEF Allow
    <3>2. tokens' \in {Absent} \union 0..Full
      BY <1>0, Parameters DEF Allow
    <3> QED
      BY <3>1, <3>2, NextReadings, Parameters
  <2> QED
    BY <1>0, <2>1, <2>2, <2>3, Readings
<1>6. ASSUME NEW a \in 0..now
      PROVE  Spent(a) \in Nat /\ Spent(a)' = Spent(a) + price
  <2>1. /\ granted' - before'[a] = (granted - before[a]) + g
        /\ granted - before[a] \in Int /\ Spent(a) \in Nat
    BY <1>0, <1>1, <1>2, SpentNat
  <2>2. ((granted - before[a]) + g) * Window = (granted - before[a]) * Window + g * Window
    BY <1>2, <2>1, Parameters, Distribute
  <2> QED
    BY <2>1, <2>2 DEF Spent
<1>7. ASSUME NEW a \in 0..now
      PROVE  Spent(a)' + High' <= Full + Capacity * (now - a + MaxLag + MaxLag * rewinds')
  <2> DEFINE lags == now - a + MaxLag + MaxLag * rewinds
  <2>1. /\ lags \in Int /\ MaxLag * w \in Int
        /\ now - a + MaxLag + MaxLag * rewinds' = lags + MaxLag * w
    <3>1. MaxLag * (rewinds + w) = MaxLag * rewinds + MaxLag * w
      BY <1>1, <1>2, Parameters, Distribute
    <3>2. MaxLag * rewinds \in Int /\ MaxLag * w \in Int
      BY <1>1, <1>2, Parameters, Distribute
    <3> QED
      BY <1>1, <1>2, <3>1, <3>2, Parameters
  <2>2. Spent(a) + High <= Full + Capacity * lags
    BY DEF Inv, Above
  <2> HIDE DEF lags
  <2>3. Capacity * (lags + MaxLag * w) = Capacity * lags + Capacity * (MaxLag * w)
    BY <2>1, Parameters, Distribute
  <2>4. Capacity * (MaxLag * w) = gain
    BY <1>2, Parameters, Distribute DEF LagRefill
  <2>5. Capacity * lags \in Int
    BY <2>1, Parameters, Distribute
  <2> HIDE DEF price, gain
  <2>6. Spent(a)' + High' <= Full + (Capacity * lags + gain)
    BY <1>5, <1>6, <2>2, <2>5, Parameters
  <2> QED
    BY <2>1, <2>3, <2>4, <2>6
<1>8. ASSUME NEW a \in 0..now
      PROVE  Low' + Spent(a)' >= Capped(Capacity * (now - a))
  <2> DEFINE need == Capped(Capacity * (now - a))
  <2>1. Low + Spent(a) >= need
    BY DEF Inv, Below
  <2>2. need \in Int
    BY <1>1, Parameters, Distribute DEF Capped
  <2> HIDE DEF need, price, gain
  <2>3. Low' + Spent(a)' >= need
    BY <1>5, <1>6, <2>1, <2>2, Parameters
  <2> QED
    BY <2>3 DEF need
<1>9. Low' + granted' * Window >= Full
  <2>1. granted' * Window = granted * Window + price /\ granted * Window \in Int
    BY <1>1, <1>2, Parameters, Distribute
  <2>2. Low + granted * Window >= Full
    BY DEF Inv, Below
  <2> HIDE DEF price, gain
  <2> QED
    BY <1>5, <2>1, <2>2, Parameters
<1>10. Above'
  BY <1>1, <1>7 DEF Above, Full
<1>11. Below'
  BY <1>1, <1>8, <1>9 DEF Below, Capped, Full
<1> QED
  BY <1>3, <1>4, <1>10, <1>11 DEF Inv

LEMMA NextInv == Inv /\ [Next]_vars => Inv'
<1> SUFFICES ASSUME Inv, [Next]_vars PROVE Inv'
  OBVIOUS
<1>1. CASE (\E t \in Stamps : Preview(t)) \/ UNCHANGED vars
  <2>1. /\ UNCHANGED <<now, tokens, ts, expireAt, rewinds, granted, before>>
        /\ answer' \in Answers
    BY <1>1 DEF Preview, vars, Inv, TypeOK, Answers
  <2>2. TypeOK' /\ Lives' /\ History'
    BY <2>1 DEF Inv, TypeOK, Lives, History, Full, Absent, Answers
  <2>3. High' = High /\ Low' = Low /\ \A a \in 0..now : Spent(a)' = Spent(a)
    BY <2>1 DEF High, Low, Spent, Owed, Capped, Full, LagRefill, Absent
  <2> QED
    BY <2>1, <2>2, <2>3 DEF Inv, Above, Below, Capped, Full
<1> QED
  BY <1>1, TickInv, AllowInv DEF Next

LEMMA InvAlways == Spec => []Inv
  BY InitInv, NextInv, PTL DEF Spec

-----------------------------------------------------------------------------
(***************************************************************************)
(* Theorems                                                                *)
(***************************************************************************)
\* The hash keeps its types: tokens within the capacity, ts never ahead of
\* the fastest clock.
THEOREM TypeCorrect == Spec => []TypeOK
<1>1. Inv => TypeOK
  BY DEF Inv
<1> QED
  BY <1>1, InvAlways, PTL

\* Whatever the order of late scripts and however often the key expires, what
\* is let through in any period is a full bucket, its refill, and the lag's
\* refill once, and once more for each script that set ts back.
THEOREM CeilingHolds == Spec => []Ceiling
<1>1. Inv => Ceiling
  <2> SUFFICES ASSUME Inv, NEW a \in 0..now
               PROVE  Spent(a) <= Full + Capacity * (now - a + MaxLag + MaxLag * rewinds)
    BY DEF Ceiling, Spent
  <2> DEFINE allowed == Capacity * (now - a + MaxLag + MaxLag * rewinds)
  <2>1. now \in Nat /\ rewinds \in Nat /\ High \in Nat /\ Spent(a) \in Nat
    BY Readings, OwedNat, SpentNat, Parameters DEF Inv, TypeOK
  <2>2. allowed \in Int
    BY <2>1, Parameters, Distribute
  <2>3. Spent(a) + High <= Full + allowed
    BY DEF Inv, Above
  <2> HIDE DEF allowed
  <2>4. Spent(a) <= Full + allowed
    BY <2>1, <2>2, <2>3, Parameters
  <2> QED
    BY <2>4 DEF allowed
<1> QED
  BY <1>1, InvAlways, PTL

\* No order of scripts loses tokens: a stamp is refused only if the last
\* minute's grants leave less than a token of a full bucket, up to the
\* refill of the lag.
THEOREM NeverEarly == Spec => []NoEarlyRefusal
<1>1. Inv => NoEarlyRefusal
  <2> SUFFICES ASSUME Inv, NEW t \in Stamps, Refilled(t) < Window
               PROVE  Spent(MinuteAgo) > Full - Window - LagRefill
    BY DEF NoEarlyRefusal, Spent, LagRefill
  <2>0. TypeOK /\ History /\ now \in Nat /\ granted \in Nat
    BY OwedNat DEF Inv, TypeOK
  <2>1. MinuteAgo \in 0..now
    BY <2>0, Parameters DEF MinuteAgo
  <2>2. Spent(MinuteAgo) \in Nat /\ Low \in 0..Full
    BY <2>0, <2>1, SpentNat, Readings
  <2>3. Low < Window + LagRefill
    <3> DEFINE past == Elapsed(t) * Capacity
               more == (now - t) * Capacity
    <3>1. /\ past \in Nat /\ more \in 0..LagRefill
          /\ t >= ts => past + more = Owed
          /\ t < ts => past = 0 /\ more >= Owed
          /\ t \in Nat /\ ts \in Nat
      BY <2>0, StampRefill, OwedNat
    <3>2. Refilled(t) = IF tokens = Absent THEN Full ELSE Capped(tokens + past)
      BY DEF Refilled
    <3> HIDE DEF past, more
    <3> QED
      BY <2>0, <3>1, <3>2, OwedNat, Parameters DEF Low, Capped, Absent
  <2>4. Low + Spent(MinuteAgo) >= Full
    <3>1. CASE now > Window
      <4>1. Capped(Capacity * (now - MinuteAgo)) = Full
        <5>1. now - MinuteAgo = Window
          BY <2>0, <3>1, Parameters DEF MinuteAgo
        <5> QED
          BY <5>1, Parameters DEF Capped, Full
      <4> QED
        BY <2>1, <4>1 DEF Inv, Below
    <3>2. CASE ~(now > Window)
      <4>1. MinuteAgo = 0
        BY <3>2 DEF MinuteAgo
      <4>2. Spent(MinuteAgo) = granted * Window
        BY <2>0, <4>1 DEF Spent, History
      <4> QED
        BY <4>2 DEF Inv, Below
    <3> QED
      BY <3>1, <3>2
  <2> QED
    BY <2>2, <2>3, <2>4, Parameters
<1> QED
  BY <1>1, InvAlways, PTL

\* A key is dropped only when its bucket is full again, because ttl_seconds is
\* longer than a minute: the expiry gives nothing away.
THEOREM ExpiryHarmless == Spec => ExpiresOnlyWhenFull
<1>1. Inv /\ [Next]_vars =>
        [tokens # Absent /\ tokens' = Absent => tokens + (now' - ts) * Capacity >= Full]_vars
  <2> SUFFICES ASSUME Inv, [Next]_vars, tokens # Absent, tokens' = Absent
               PROVE  tokens + (now' - ts) * Capacity >= Full
    OBVIOUS
  <2>0. TypeOK /\ Lives /\ tokens \in 0..Full /\ now \in Nat /\ ts \in Nat
    BY OwedNat DEF Inv
  <2>1. Tick
    <3>1. ASSUME NEW t \in Stamps, Allow(t) PROVE FALSE
      <4>1. tokens' \in 0..Full
        BY <2>0, <3>1, RefilledInRange, Parameters DEF Allow
      <4> QED
        BY <4>1, Parameters DEF Absent
    <3>2. ASSUME UNCHANGED vars PROVE FALSE
      BY <3>2 DEF vars
    <3>3. ASSUME NEW t \in Stamps, Preview(t) PROVE FALSE
      BY <3>3 DEF Preview
    <3> QED
      BY <3>1, <3>2, <3>3 DEF Next
  <2>2. now' - ts \in Int /\ now' - ts >= TTL
    BY <2>0, <2>1, Parameters DEF Tick, Lives, TypeOK
  <2>3. (now' - ts) * Capacity \in Int /\ (now' - ts) * Capacity >= Full + LagRefill
    BY <2>2, ExpiryRefill
  <2> QED
    BY <2>0, <2>3, Parameters
<1> QED
  BY <1>1, InvAlways, PTL DEF Spec, ExpiresOnlyWhenFull
=============================================================================
