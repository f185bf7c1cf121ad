-------------------------- MODULE TokenBucket_proofs --------------------------
(***************************************************************************)
(* The two halves of what a token bucket promises, for every capacity and  *)
(* window: Ceiling bounds what is granted in any period from above, Floor  *)
(* from below.  Each is inductive once the variables have their types.     *)
(***************************************************************************)
EXTENDS TokenBucket, TLAPS

Types ==
    /\ now \in 0..MaxTime
    /\ level \in 0..Full
    /\ granted \in Nat
    /\ before \in [0..MaxTime -> Nat]

\* The history only grows, and begins with nothing.
History ==
    /\ before[0] = 0
    /\ \A a \in 0..now : before[a] <= granted

Inv == Types /\ History /\ Ceiling /\ Floor

-----------------------------------------------------------------------------
\* Products of the two parameters with a difference, multiplied out.
LEMMA Distribute ==
    ASSUME NEW c \in Nat, NEW x \in Int, NEW y \in Int
    PROVE  /\ c * (x + y) = c * x + c * y
           /\ (x + y) * c = x * c + y * c
           /\ c * x \in Int
           /\ x * c \in Int
  OBVIOUS

LEMMA FullPositive == Full \in Nat /\ Full >= Window /\ Window \in Nat \ {0}
<1>1. Capacity \in Nat /\ Capacity >= 1 /\ Window \in Nat /\ Window >= 1
  BY CapacityAssumption, WindowAssumption
<1>2. Capacity * Window \in Nat
  BY <1>1
<1>3. Capacity * Window >= 1 * Window
  BY <1>1
<1> QED
  BY <1>1, <1>2, <1>3 DEF Full

LEMMA InitInv == Init => Inv
<1> SUFFICES ASSUME Init PROVE Inv
  OBVIOUS
<1>1. Types
  BY FullPositive, MaxTimeAssumption DEF Init, Types
<1>0. History
  BY MaxTimeAssumption DEF Init, History
<1>2. Ceiling
  BY FullPositive, CapacityAssumption, MaxTimeAssumption DEF Init, Ceiling
<1>3. Floor
  BY FullPositive, CapacityAssumption, MaxTimeAssumption DEF Init, Floor, Capped
<1> QED
  BY <1>0, <1>1, <1>2, <1>3 DEF Inv

\* A tick adds the same refill to both sides; the new tick's window is empty.
LEMMA TickInv ==
    ASSUME Inv, Tick
    PROVE  Inv'
<1> USE FullPositive, CapacityAssumption, MaxTimeAssumption
<1>0. /\ now \in 0..MaxTime /\ level \in 0..Full /\ granted \in Nat
      /\ before \in [0..MaxTime -> Nat]
      /\ now' = now + 1 /\ now < MaxTime /\ granted' = granted
      /\ level' = Capped(level + Capacity)
      /\ before' = [before EXCEPT ![now + 1] = granted]
  BY DEF Inv, Types, Tick
<1>1. Types' /\ History'
  <2>1. Types'
    BY <1>0 DEF Types, Capped, Full
  <2>2. History'
    BY <1>0 DEF Inv, History
  <2> QED
    BY <2>1, <2>2
<1>2. /\ before'[now + 1] = granted
      /\ \A a \in 0..now : before'[a] = before[a] /\ before[a] \in Nat
  BY <1>0
<1>3. ASSUME NEW a \in 0..now + 1
      PROVE  /\ (granted' - before'[a]) * Window + level'
                    <= Full + Capacity * ((now + 1) - a)
             /\ level' + (granted' - before'[a]) * Window
                    >= Capped(Capacity * ((now + 1) - a))
  <2>1. CASE a = now + 1
    <3>1. (granted' - before'[a]) * Window = 0 /\ Capacity * ((now + 1) - a) = 0
      BY <1>0, <1>2, <2>1
    <3>2. level' \in 0..Full
      BY <1>0 DEF Capped
    <3> QED
      BY <3>1, <3>2 DEF Capped
  <2>2. CASE a \in 0..now
    <3> DEFINE spent == (granted - before[a]) * Window
               refill == Capacity * (now - a)
    <3>1. spent \in Int /\ refill \in Int
      BY <1>0, <1>2, <2>2, Distribute
    <3>2. Capacity * ((now + 1) - a) = refill + Capacity
      <4>1. (now + 1) - a = (now - a) + 1 /\ now - a \in Int
        BY <1>0, <2>2
      <4>2. Capacity * ((now - a) + 1) = Capacity * (now - a) + Capacity * 1
        BY <4>1, Distribute
      <4> QED
        BY <4>1, <4>2
    <3>3. (granted' - before'[a]) * Window = spent
      BY <1>0, <1>2, <2>2
    <3>4. spent + level <= Full + refill /\ level + spent >= Capped(refill)
      BY <2>2 DEF Inv, Ceiling, Floor
    <3>5. spent >= 0
      <4>1. granted - before[a] \in Nat
        BY <1>0, <1>2, <2>2 DEF Inv, History
      <4> QED
        BY <4>1
    <3> HIDE DEF spent, refill
    <3>6. /\ spent + level' <= Full + (refill + Capacity)
          /\ level' + spent >= Capped(refill + Capacity)
      BY <1>0, <3>1, <3>4, <3>5 DEF Capped
    <3> QED
      BY <3>2, <3>3, <3>6
  <2> QED
    BY <1>0, <2>1, <2>2
<1>4. level' + granted' * Window >= Full
  <2>1. level + granted * Window >= Full /\ granted * Window \in Int
    BY <1>0 DEF Inv, Floor
  <2>2. granted' * Window = granted * Window
    BY <1>0
  <2> QED
    BY <1>0, <2>1, <2>2 DEF Capped
<1>5. Ceiling'
  BY <1>0, <1>3 DEF Ceiling, Full
<1>6. Floor'
  BY <1>0, <1>3, <1>4 DEF Floor, Capped, Full
<1> QED
  BY <1>1, <1>5, <1>6 DEF Inv

\* A grant moves one token from the level to the count.
LEMMA GrantInv ==
    ASSUME Inv, Grant
    PROVE  Inv'
<1> USE FullPositive, CapacityAssumption, MaxTimeAssumption
<1>0. /\ now \in 0..MaxTime /\ level \in 0..Full /\ granted \in Nat
      /\ before \in [0..MaxTime -> Nat]
      /\ now' = now /\ before' = before /\ granted' = granted + 1
      /\ level >= Window /\ level' = level - Window
  BY DEF Inv, Types, Grant
<1>1. Types' /\ History'
  <2>1. Types'
    BY <1>0 DEF Types, Full
  <2>2. History'
    BY <1>0 DEF Inv, History
  <2> QED
    BY <2>1, <2>2
<1>2. ASSUME NEW a \in 0..now
      PROVE  /\ before[a] \in Nat
             /\ (granted - before[a]) * Window \in Int
             /\ (granted' - before'[a]) * Window = (granted - before[a]) * Window + Window
  <2>1. before[a] \in Nat /\ granted - before[a] \in Int
    BY <1>0
  <2>2. granted' - before'[a] = (granted - before[a]) + 1
    BY <1>0, <2>1
  <2>3. ((granted - before[a]) + 1) * Window = (granted - before[a]) * Window + 1 * Window
    BY <2>1, Distribute
  <2> QED
    BY <2>1, <2>2, <2>3, Distribute
<1>3. granted' * Window = granted * Window + Window /\ granted * Window \in Int
  BY <1>0, Distribute
<1>4. Ceiling'
  <2>1. ASSUME NEW a \in 0..now
        PROVE  (granted' - before'[a]) * Window + level' <= Full + Capacity * (now - a)
    <3>1. (granted - before[a]) * Window + level <= Full + Capacity * (now - a)
      BY DEF Inv, Ceiling
    <3>2. Capacity * (now - a) \in Int
      BY <1>0
    <3> QED
      BY <1>0, <1>2, <3>1, <3>2
  <2> QED
    BY <1>0, <2>1 DEF Ceiling, Full
<1>5. Floor'
  BY <1>0, <1>2, <1>3 DEF Inv, Floor, Capped, Full
<1> QED
  BY <1>1, <1>4, <1>5 DEF Inv

LEMMA NextInv == Inv /\ [Next]_vars => Inv'
<1> SUFFICES ASSUME Inv, [Next]_vars PROVE Inv'
  OBVIOUS
<1>1. CASE Refuse \/ Look \/ UNCHANGED vars
  BY <1>1 DEF Refuse, Look, vars, Inv, Types, History, Ceiling, Floor, Capped, Full
<1> QED
  BY <1>1, TickInv, GrantInv DEF Next

\* A refusal means that the last minute's refill, a whole bucket, was spent.
LEMMA RefusalJustified ==
    ASSUME Inv
    PROVE  NoEarlyRefusal
<1> USE FullPositive, CapacityAssumption, MaxTimeAssumption
<1> SUFFICES ASSUME level < Window
             PROVE  granted - before[MinuteAgo] >= Capacity
  BY DEF NoEarlyRefusal
<1>0. /\ now \in 0..MaxTime /\ level \in 0..Full /\ granted \in Nat
      /\ MinuteAgo \in 0..now /\ before[MinuteAgo] \in Nat
  BY DEF Inv, Types, MinuteAgo
<1> DEFINE got == granted - before[MinuteAgo]
<1>1. got \in Int /\ got * Window \in Int
  BY <1>0
<1>2. level + got * Window >= Full
  <2>1. CASE now > Window
    <3>1. now - MinuteAgo = Window
      BY <1>0, <2>1 DEF MinuteAgo
    <3>2. Capped(Capacity * (now - MinuteAgo)) = Full
      BY <3>1 DEF Capped, Full
    <3> QED
      BY <1>0, <3>2 DEF Inv, Floor
  <2>2. CASE ~(now > Window)
    <3>1. MinuteAgo = 0
      BY <2>2 DEF MinuteAgo
    <3> QED
      BY <1>0, <3>1 DEF Inv, History, Floor
  <2> QED
    BY <2>1, <2>2
<1> HIDE DEF got
<1>3. SUFFICES ASSUME got <= Capacity - 1 PROVE FALSE
  BY <1>0, <1>1 DEF got
<1>4. got * Window <= (Capacity - 1) * Window
  BY <1>1, <1>3
<1>5. (Capacity - 1) * Window = Full - Window
  BY DEF Full
<1> QED
  BY <1>0, <1>1, <1>2, <1>4, <1>5

-----------------------------------------------------------------------------
\* The bound from above and the bound from below, of every behaviour.
THEOREM BucketInvariant == Spec => []Inv
<1>1. Inv /\ [Next]_vars => Inv'
  BY NextInv
<1> QED
  BY InitInv, <1>1, PTL DEF Spec
=============================================================================
