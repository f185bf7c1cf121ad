---------------------------- MODULE PreAuth_proofs ----------------------------
(***************************************************************************)
(* The in-memory bucket, and the pre-auth limiter on top of it, for any    *)
(* limit and window, any number of requests at once and any header lines.  *)
(*                                                                         *)
(* InMemoryRateLimit implements the ideal token bucket: what a lazily      *)
(* refilled bucket would hold now, Refilled, is what the eagerly refilled  *)
(* one holds.  The ideal bucket's bounds then hold of the program's.       *)
(* dispatch uses the bucket only through preview and allow, so they hold   *)
(* under it too.  The bound on the tries that are not paid for needs one   *)
(* more fact, Covered: until a token is taken, the token a request saw is  *)
(* still there.                                                            *)
(***************************************************************************)
EXTENDS PreAuth, FiniteSetTheorems, TLAPS

\* The ideal bucket together with what is proved about it.
BP == INSTANCE TokenBucket_proofs WITH level <- Refilled

-----------------------------------------------------------------------------
LEMMA FullPositive ==
    /\ Full \in Nat /\ Full >= Window
    /\ Window \in Nat \ {0} /\ Capacity \in Nat \ {0}
  BY BP!FullPositive, CapacityAssumption, WindowAssumption, MaxTimeAssumption DEF Full, BP!Full

\* The time since the last look, in units of refill.
LEMMA CatchUp ==
    ASSUME TypeOK
    PROVE  /\ (now - updatedAt) * Capacity \in Nat
           /\ ((now + 1) - updatedAt) * Capacity = (now - updatedAt) * Capacity + Capacity
<1>1. now - updatedAt \in Nat /\ now \in Int /\ updatedAt \in Int
  BY MaxTimeAssumption DEF TypeOK
<1>2. (now - updatedAt) * Capacity \in Nat
  BY <1>1, FullPositive
<1>3. (now + 1) - updatedAt = (now - updatedAt) + 1
  BY <1>1
<1>4. ((now - updatedAt) + 1) * Capacity = (now - updatedAt) * Capacity + 1 * Capacity
  BY <1>1, FullPositive
<1> QED
  BY <1>2, <1>3, <1>4, FullPositive

LEMMA RefilledInRange ==
    ASSUME TypeOK
    PROVE  Refilled \in 0..Full
<1> DEFINE more == (now - updatedAt) * Capacity
<1>1. more \in Nat /\ tokens \in {Absent} \union 0..Full
  BY CatchUp DEF TypeOK
<1> HIDE DEF more
<1>2. CASE tokens = Absent
  BY <1>2, FullPositive DEF Refilled
<1>3. CASE tokens \in 0..Full
  BY <1>1, <1>3, FullPositive DEF Refilled, Capped, Absent, more
<1> QED
  BY <1>1, <1>2, <1>3

\* The wait a refused caller is told is a number of seconds.
LEMMA RetryAfterNat ==
    ASSUME NEW t \in 0..Full, t < Window
    PROVE  RetryAfter(t) \in Nat
<1>1. Window - t + Capacity - 1 \in Nat /\ Capacity \in Nat /\ Capacity > 0
  BY FullPositive
<1> QED
  BY <1>1 DEF RetryAfter

-----------------------------------------------------------------------------
LEMMA InitTypes == Init => TypeOK
  BY MaxTimeAssumption DEF Init, TypeOK, Answers

LEMMA NextTypes == TypeOK /\ [Next]_bucketVars => TypeOK'
<1> SUFFICES ASSUME TypeOK, [Next]_bucketVars PROVE TypeOK'
  OBVIOUS
<1>0. Refilled \in 0..Full /\ Full \in Nat /\ Window \in Nat \ {0} /\ now \in Nat
  BY RefilledInRange, FullPositive, MaxTimeAssumption DEF TypeOK
<1>1. Refilled < Window => now + RetryAfter(Refilled) \in Nat
  BY <1>0, RetryAfterNat
<1>2. CASE Tick
  BY <1>2, MaxTimeAssumption DEF Tick, TypeOK, Full
<1>3. CASE Allow
  <2>1. tokens' \in 0..Full
    BY <1>0, <1>3 DEF Allow
  <2>2. retryAt' \in Nat
    BY <1>0, <1>1, <1>3 DEF Allow, TypeOK
  <2> QED
    BY <1>3, <2>1, <2>2, MaxTimeAssumption DEF Allow, TypeOK, Answers, Full
<1>4. CASE Preview
  <2>1. tokens' \in {Absent} \union 0..Full
    BY <1>0, <1>4 DEF Preview
  <2>2. retryAt' \in Nat
    BY <1>0, <1>1, <1>4 DEF Preview, TypeOK
  <2> QED
    BY <1>4, <2>1, <2>2, MaxTimeAssumption DEF Preview, TypeOK, Answers, Full
<1>5. CASE UNCHANGED bucketVars
  BY <1>5 DEF bucketVars, TypeOK, Full
<1> QED
  BY <1>2, <1>3, <1>4, <1>5 DEF Next

\* Every value of a bucket stays within its bounds: tokens between 0 and
\* requests_per_minute, updated_at never ahead of the clock.
THEOREM TypeCorrect == Spec => []TypeOK
<1>1. TypeOK /\ [Next]_bucketVars => TypeOK'
  BY NextTypes
<1> QED
  BY InitTypes, <1>1, PTL DEF Spec

-----------------------------------------------------------------------------
\* A tick adds a tick's refill to what the bucket would hold.
LEMMA TickRefills ==
    ASSUME TypeOK, Tick
    PROVE  Refilled' = Capped(Refilled + Capacity)
<1> DEFINE more == (now - updatedAt) * Capacity
<1>1. /\ now' = now + 1 /\ tokens' = tokens /\ updatedAt' = updatedAt
      /\ tokens \in {Absent} \union 0..Full
  BY DEF Tick, TypeOK
<1>2. more \in Nat /\ (now' - updatedAt') * Capacity = more + Capacity
  BY <1>1, CatchUp
<1>3. Refilled' = IF tokens = Absent THEN Full ELSE Capped(tokens + (now' - updatedAt') * Capacity)
  BY <1>1 DEF Refilled, Capped, Full, Absent
<1>4. Refilled = IF tokens = Absent THEN Full ELSE Capped(tokens + more)
  BY DEF Refilled
<1> HIDE DEF more
<1>5. CASE tokens = Absent
  BY <1>3, <1>4, <1>5, FullPositive DEF Capped
<1>6. CASE tokens \in 0..Full
  <2>1. tokens # Absent
    BY <1>6, FullPositive DEF Absent
  <2> QED
    BY <1>2, <1>3, <1>4, <1>6, <2>1, FullPositive DEF Capped
<1> QED
  BY <1>1, <1>5, <1>6

\* A bucket that has just been looked at holds what was written.
LEMMA JustRefilled ==
    ASSUME NEW t \in 0..Full, TypeOK, now' = now, updatedAt' = now, tokens' = t
    PROVE  Refilled' = t
<1>1. (now' - updatedAt') * Capacity = 0
  BY FullPositive, MaxTimeAssumption DEF TypeOK
<1>2. Refilled' = Capped(t + (now' - updatedAt') * Capacity)
  BY FullPositive DEF Refilled, Capped, Full, Absent
<1> QED
  BY <1>1, <1>2, FullPositive DEF Capped

\* Each step of memory.py is the ideal bucket's step of the same meaning.
LEMMA StepSimulation ==
    ASSUME TypeOK, [Next]_bucketVars
    PROVE  [BP!Next]_BP!vars
<1>0. Refilled \in 0..Full /\ Full \in Nat /\ Window \in Nat \ {0} /\ Window <= Full
  BY RefilledInRange, FullPositive
<1>1. CASE Tick
  <2>1. Refilled' = BP!Capped(Refilled + Capacity)
    BY <1>1, TickRefills DEF Capped, Full, BP!Capped, BP!Full
  <2>2. BP!Tick
    BY <1>1, <2>1 DEF Tick, BP!Tick
  <2> QED
    BY <2>2 DEF BP!Next
<1>2. CASE Allow /\ Refilled >= Window
  <2>1. Refilled - Window \in 0..Full
    BY <1>0, <1>2
  <2>2. Refilled' = Refilled - Window
    BY <1>2, <2>1, JustRefilled DEF Allow
  <2>3. BP!Grant
    BY <1>2, <2>2 DEF Allow, BP!Grant
  <2> QED
    BY <2>3 DEF BP!Next
<1>3. CASE Allow /\ ~(Refilled >= Window)
  <2>1. Refilled' = Refilled
    BY <1>0, <1>3, JustRefilled DEF Allow
  <2>2. Refilled < Window
    BY <1>0, <1>3
  <2>3. BP!Refuse
    BY <1>3, <2>1, <2>2 DEF Allow, BP!Refuse
  <2> QED
    BY <2>3 DEF BP!Next
<1>4. CASE Preview
  <2>1. Refilled' = Refilled
    <3>1. CASE tokens = Absent
      BY <1>4, <3>1 DEF Preview, Refilled, Full, Absent
    <3>2. CASE tokens # Absent
      BY <1>0, <1>4, <3>2, JustRefilled DEF Preview
    <3> QED
      BY <3>1, <3>2
  <2>2. BP!Look
    BY <1>4, <2>1 DEF Preview, BP!Look
  <2> QED
    BY <2>2 DEF BP!Next
<1>5. CASE UNCHANGED bucketVars
  BY <1>5 DEF bucketVars, BP!vars, Refilled, Capped, Full, Absent
<1> QED
  BY <1>1, <1>2, <1>3, <1>4, <1>5 DEF Next

LEMMA InitSimulation == Init => BP!Init
  BY DEF Init, BP!Init, Refilled, Full, BP!Full

LEMMA SpecImplies == Spec => BP!Spec
<1>1. TypeOK /\ [Next]_bucketVars => [BP!Next]_BP!vars
  BY StepSimulation
<1> QED
  BY <1>1, InitSimulation, TypeCorrect, PTL DEF Spec, BP!Spec

\* The lazily refilled buckets of memory.py implement the eagerly refilled
\* ideal one: allow and preview answer as it would at every call.
THEOREM IdealImplemented == Spec => ImplementsIdeal
<1>1. BP!Init <=> Ideal!Init
  BY DEF BP!Init, Ideal!Init, BP!Full, Ideal!Full
<1>2. [BP!Next]_BP!vars => [Ideal!Next]_Ideal!vars
  BY DEF BP!Next, Ideal!Next, BP!vars, Ideal!vars, BP!Tick, Ideal!Tick,
         BP!Grant, Ideal!Grant, BP!Refuse, Ideal!Refuse, BP!Look, Ideal!Look,
         BP!Capped, Ideal!Capped, BP!Full, Ideal!Full
<1> QED
  BY <1>1, <1>2, SpecImplies, PTL DEF ImplementsIdeal, Ideal!Spec, BP!Spec

\* Over no period does InMemoryRateLimit let through more than a full bucket
\* and that period's refill, however allow and preview are interleaved.
THEOREM CeilingHolds == Spec => []Ceiling
<1>1. BP!Inv => Ceiling
  BY DEF BP!Inv, Ceiling, BP!Ceiling, Ideal!Ceiling, BP!Full, Ideal!Full
<1> QED
  BY <1>1, SpecImplies, BP!BucketInvariant,
     CapacityAssumption, WindowAssumption, MaxTimeAssumption, PTL

\* InMemoryRateLimit refuses a caller only when it was let through
\* requests_per_minute times in the last minute.
THEOREM NeverEarly == Spec => []NoEarlyRefusal
<1>1. BP!Inv => NoEarlyRefusal
  BY BP!RefusalJustified, CapacityAssumption, WindowAssumption, MaxTimeAssumption
     DEF NoEarlyRefusal, BP!NoEarlyRefusal, Ideal!NoEarlyRefusal,
         BP!MinuteAgo, Ideal!MinuteAgo
<1> QED
  BY <1>1, SpecImplies, BP!BucketInvariant,
     CapacityAssumption, WindowAssumption, MaxTimeAssumption, PTL
-----------------------------------------------------------------------------
(***************************************************************************)
(* Retry-After.  After a refusal the bucket is left as the refusal wrote   *)
(* it, so the promised time is still what its contents say.                *)
(***************************************************************************)
Promise ==
    answer \in {"refused", "shut"} =>
        /\ tokens \in 0..Window - 1
        /\ retryAt = updatedAt + RetryAfter(tokens)

\* ceil(x / c) ticks of c are the fewest that bring x.
LEMMA CeilingDivision ==
    ASSUME NEW c \in Nat \ {0}, NEW x \in Nat \ {0}, NEW n \in Nat
    PROVE  n * c >= x <=> n >= (x + c - 1) \div c
<1> DEFINE y == x + c - 1
           q == y \div c
<1>1. y \in Nat
  OBVIOUS
<1> HIDE DEF y
<1>2. q \in Int /\ q * c <= y /\ y < (q + 1) * c
  BY <1>1
<1> HIDE DEF q
<1>3. y = x + c - 1
  BY DEF y
<1>4. ASSUME n >= q PROVE n * c >= x
  <2>1. n * c >= q * c
    BY <1>2, <1>4
  <2>2. (q + 1) * c = q * c + c /\ q * c \in Int /\ n * c \in Int
    BY <1>2
  <2> QED
    BY <1>2, <1>3, <2>1, <2>2
<1>5. ASSUME n * c >= x PROVE n >= q
  <2>1. SUFFICES ASSUME n + 1 <= q PROVE FALSE
    BY <1>2
  <2>2. (n + 1) * c <= q * c
    BY <1>2, <2>1
  <2>3. (n + 1) * c = n * c + c /\ q * c \in Int /\ n * c \in Int
    BY <1>2
  <2> QED
    BY <1>2, <1>3, <1>5, <2>2, <2>3
<1> QED
  BY <1>4, <1>5 DEF q, y

LEMMA NextPromise ==
    ASSUME TypeOK, Promise, [Next]_bucketVars
    PROVE  Promise'
<1>0. Refilled \in 0..Full /\ Full \in Nat /\ Window \in Nat \ {0}
  BY RefilledInRange, FullPositive
<1>1. CASE Tick \/ UNCHANGED bucketVars
  BY <1>1 DEF Tick, bucketVars, Promise, RetryAfter
<1>2. CASE Allow
  BY <1>0, <1>2 DEF Allow, Promise, RetryAfter
<1>3. CASE Preview
  <2>1. CASE Refilled >= Window
    BY <1>3, <2>1 DEF Preview, Promise
  <2>2. CASE ~(Refilled >= Window)
    <3>1. tokens # Absent
      BY <2>2, FullPositive DEF Refilled
    <3>2. tokens' = Refilled /\ updatedAt' = now /\ retryAt' = now + RetryAfter(Refilled)
      BY <1>3, <2>2, <3>1 DEF Preview
    <3> QED
      BY <1>0, <2>2, <3>2 DEF Promise, RetryAfter
  <2> QED
    BY <2>1, <2>2
<1> QED
  BY <1>1, <1>2, <1>3 DEF Next

\* The bucket of a refused caller has a token again exactly from retryAt on.
LEMMA PromiseKept ==
    ASSUME TypeOK, Promise
    PROVE  RetryExact
<1> SUFFICES ASSUME answer \in {"refused", "shut"}
             PROVE  Refilled >= Window <=> now >= retryAt
  BY DEF RetryExact
<1> DEFINE n == now - updatedAt
           more == n * Capacity
           wait == RetryAfter(tokens)
<1>1. n \in Nat /\ now \in Int /\ updatedAt \in Int /\ more \in Nat
  BY CatchUp, MaxTimeAssumption DEF TypeOK
<1>2. tokens \in 0..Window - 1 /\ retryAt = updatedAt + wait
  BY DEF Promise
<1>3. Window - tokens \in Nat \ {0} /\ tokens \in Nat
  BY <1>2, FullPositive
<1>4. more >= Window - tokens <=> n >= wait
  <2>1. more >= Window - tokens <=> n >= ((Window - tokens) + Capacity - 1) \div Capacity
    BY <1>1, <1>3, CeilingDivision, FullPositive
  <2> QED
    BY <2>1 DEF RetryAfter
<1>5. wait \in Nat
  BY <1>2, RetryAfterNat, FullPositive
<1>6. Refilled = Capped(tokens + more)
  BY <1>3 DEF Refilled, Absent
<1> HIDE DEF more, wait
<1>7. Refilled >= Window <=> more >= Window - tokens
  BY <1>1, <1>3, <1>6, FullPositive DEF Capped
<1>8. now >= retryAt <=> n >= wait
  BY <1>1, <1>2, <1>5
<1> QED
  BY <1>4, <1>7, <1>8

\* Retry-After is exact for every limit: from the second a refused caller was
\* told, and not before, the bucket lets it through, unless another took the
\* token (allow, preview; base.py's rounding up).
THEOREM RetryAfterExact == Spec => []RetryExact
<1>1. Init => Promise
  BY DEF Init, Promise
<1>2. TypeOK /\ Promise /\ [Next]_bucketVars => Promise'
  BY NextPromise
<1>3. TypeOK /\ Promise => RetryExact
  BY PromiseKept
<1> QED
  BY <1>1, <1>2, <1>3, TypeCorrect, PTL DEF Spec

-----------------------------------------------------------------------------
(***************************************************************************)
(* The pre-auth limiter                                                    *)
(***************************************************************************)
Covered == \A c \in Inside \ exposed : Refilled >= Window

\* The inductive invariant.
PreAuthInv == PreAuthTypeOK /\ ChargedToOrigin /\ Covered /\ OverrunBounded

-----------------------------------------------------------------------------
(***************************************************************************)
(* client_ip                                                               *)
(***************************************************************************)
\* A set of natural numbers has a least one.
LEMMA LeastNatural ==
    ASSUME NEW S \in SUBSET Nat, S # {}
    PROVE  \E i \in S : \A j \in S : i <= j
<1> DEFINE R == OpToRel(<, Nat)
<1>1. IsWellFoundedOn(R, Nat)
  BY NatLessThanWellFounded
<1>2. \A i, j \in Nat : <<j, i>> \in R <=> j < i
  BY DEF OpToRel
<1> HIDE DEF R
<1>3. S \subseteq Nat
  OBVIOUS
<1>4. PICK i \in S : \A j \in S : ~ (<<j, i>> \in R)
  BY <1>1, <1>3, WFMin
<1>5. ASSUME NEW j \in S PROVE i <= j
  <2>1. i \in Nat /\ j \in Nat
    BY <1>3
  <2>2. ~(j < i)
    BY <1>2, <1>4, <2>1
  <2> QED
    BY <2>1, <2>2
<1> QED
  BY <1>5

\* Leftmost and Rightmost choose a position of the set.
LEMMA EndsChosen ==
    ASSUME NEW n \in Nat, NEW S \in SUBSET (1..n), S # {}
    PROVE  Leftmost(S) \in S /\ Rightmost(S) \in S
<1>1. Leftmost(S) \in S
  <2>1. S \in SUBSET Nat
    OBVIOUS
  <2>2. \E i \in S : \A j \in S : i <= j
    BY <2>1, LeastNatural
  <2> QED
    BY <2>2 DEF Leftmost
<1>2. Rightmost(S) \in S
  <2> DEFINE T == {n - i : i \in S}
  <2>1. T \in SUBSET Nat
    OBVIOUS
  <2>2. T # {}
    <3>1. PICK i \in S : TRUE
      OBVIOUS
    <3>2. n - i \in T
      OBVIOUS
    <3> QED
      BY <3>2
  <2>3. PICK k \in T : \A j \in T : k <= j
    BY <2>1, <2>2, LeastNatural
  <2>4. PICK i \in S : k = n - i
    OBVIOUS
  <2>5. ASSUME NEW j \in S PROVE j <= i
    <3>1. n - j \in T
      OBVIOUS
    <3>2. n - i <= n - j
      BY <2>3, <2>4, <3>1
    <3> QED
      BY <3>2
  <2> QED
    BY <2>5 DEF Rightmost
<1> QED
  BY <1>1, <1>2

\* The walk ends at an address.
LEMMA WalkAddress ==
    ASSUME NEW entries \in Seq(Texts), Valid(entries) # {}
    PROVE  Walk(entries) \in Addresses
<1>1. Valid(entries) \in SUBSET (1..Len(entries)) /\ Len(entries) \in Nat
  BY DEF Valid
<1>2. Untrusted(entries) \in SUBSET (1..Len(entries)) /\ Untrusted(entries) \subseteq Valid(entries)
  BY DEF Valid, Untrusted
<1>3. Leftmost(Valid(entries)) \in Valid(entries)
  BY <1>1, EndsChosen
<1>4. Untrusted(entries) # {} => Rightmost(Untrusted(entries)) \in Untrusted(entries)
  BY <1>1, <1>2, EndsChosen
<1>5. \A i \in Valid(entries) : entries[i] \in Addresses
  BY DEF Valid
<1> QED
  BY <1>2, <1>3, <1>4, <1>5 DEF Walk

\* client_ip returns an address whatever the lines hold.
LEMMA ClientIpAddress ==
    ASSUME NEW remote \in Addresses, NEW lines \in Seq(Seq(Texts))
    PROVE  ClientIp(remote, lines) \in Addresses
<1>1. FirstLine(lines) \in Seq(Texts)
  BY DEF FirstLine
<1> QED
  BY <1>1, WalkAddress DEF ClientIp

LEMMA RightmostIs ==
    ASSUME NEW S, NEW i \in S, S \subseteq Int, \A j \in S : j <= i
    PROVE  Rightmost(S) = i
<1>1. \E k \in S : \A j \in S : j <= k
  OBVIOUS
<1>2. Rightmost(S) \in S /\ \A j \in S : j <= Rightmost(S)
  BY <1>1 DEF Rightmost
<1>3. \A k \in Int : (k <= i /\ i <= k) => k = i
  OBVIOUS
<1> QED
  BY <1>2, <1>3

\* The walk stops at the origin: right of it are only proxies, and what the
\* client forged is left of it.
LEMMA WalkFindsOrigin ==
    ASSUME NEW from \in Addresses \ TrustedProxies, NEW sent \in Seq(Texts),
           NEW chain \in Seq(TrustedProxies)
    PROVE  LET entries == (sent \o <<from>>) \o chain IN
           Valid(entries) # {} /\ Walk(entries) = from
<1> DEFINE entries == (sent \o <<from>>) \o chain
           n == Len(sent) + 1
<1>1. /\ <<from>> \in Seq(Texts) /\ chain \in Seq(Texts)
      /\ sent \o <<from>> \in Seq(Texts)
  BY AddressAssumption
<1>2. /\ Len(sent \o <<from>>) = n /\ (sent \o <<from>>)[n] = from
      /\ n \in Nat \ {0}
  BY <1>1
<1>3. Len(entries) = n + Len(chain) /\ entries \in Seq(Texts) /\ Len(chain) \in Nat
  BY <1>1, <1>2
<1>4. entries[n] = from
  BY <1>1, <1>2
<1>5. \A i \in n + 1..Len(entries) : entries[i] \in TrustedProxies
  <2> SUFFICES ASSUME NEW i \in n + 1..Len(entries) PROVE entries[i] \in TrustedProxies
    OBVIOUS
  <2>1. entries[i] = chain[i - n] /\ i - n \in 1..Len(chain)
    BY <1>1, <1>2, <1>3
  <2> QED
    BY <2>1
<1> HIDE DEF entries, n
<1>6. n \in Untrusted(entries) /\ n \in Valid(entries)
  BY <1>2, <1>3, <1>4 DEF Untrusted, Valid, IsTrustedProxy
<1>7. Untrusted(entries) \subseteq Int /\ \A j \in Untrusted(entries) : j <= n
  BY <1>2, <1>3, <1>5 DEF Untrusted, Valid, IsTrustedProxy
<1>8. Rightmost(Untrusted(entries)) = n
  BY <1>6, <1>7, RightmostIs
<1> QED
  BY <1>4, <1>6, <1>8 DEF Walk, entries

\* Entries that each have a line of their own.
LEMMA OwnLinesType ==
    ASSUME NEW entries \in Seq(Addresses) \union Seq(TrustedProxies)
    PROVE  /\ OwnLines(entries) \in Seq(Seq(Texts))
           /\ Len(OwnLines(entries)) = Len(entries)
           /\ \A i \in 1..Len(entries) : OwnLines(entries)[i] = <<entries[i]>>
<1>1. /\ DOMAIN entries = 1..Len(entries) /\ Len(entries) \in Nat
      /\ \A i \in 1..Len(entries) : entries[i] \in Texts
  BY AddressAssumption
<1>2. \A i \in 1..Len(entries) : <<entries[i]>> \in Seq(Texts)
  BY <1>1
<1> QED
  BY <1>1, <1>2 DEF OwnLines

\* A header with a joining proxy: the proxies' addresses behind the origin in
\* the first line are some of the chain's.
LEMMA JoinedFirst ==
    ASSUME NEW from \in Addresses \ TrustedProxies, NEW sent \in Forgeries,
           NEW chain \in Chains, NEW n \in 1..Len(chain) + 1
    PROVE  /\ Header(from, sent, chain, n) \in Seq(Seq(Texts))
           /\ Valid(FirstLine(Header(from, sent, chain, n))) # {}
           /\ Walk(FirstLine(Header(from, sent, chain, n))) = from
<1> DEFINE front == SubSeq(chain, 1, n - 1)
           rest == OwnLines(SubSeq(chain, n, Len(chain)))
           line == (Joined(sent) \o <<from>>) \o front
<1>1. /\ Joined(sent) \in Seq(Texts) /\ chain \in Seq(TrustedProxies)
      /\ Len(chain) \in Nat /\ n \in Nat \ {0}
  BY HeaderAssumption
<1>2. front \in Seq(TrustedProxies) /\ SubSeq(chain, n, Len(chain)) \in Seq(TrustedProxies)
  BY <1>1
<1>3. rest \in Seq(Seq(Texts))
  BY <1>2, OwnLinesType
<1> HIDE DEF rest, front
<1>4. Valid(line) # {} /\ Walk(line) = from
  BY <1>1, <1>2, WalkFindsOrigin
<1>5. line \in Seq(Texts)
  BY <1>1, <1>2, AddressAssumption
<1> HIDE DEF line
<1>6. Header(from, sent, chain, n) = <<line>> \o rest
  BY <1>1 DEF Header, line, front, rest
<1>7. /\ <<line>> \o rest \in Seq(Seq(Texts))
      /\ <<line>> \o rest # <<>> /\ (<<line>> \o rest)[1] = line
  BY <1>3, <1>5
<1> QED
  BY <1>4, <1>6, <1>7 DEF FirstLine

\* A header nobody joined has the client's lines in front, if it sent any.
LEMMA OwnFirst ==
    ASSUME NEW from \in Addresses \ TrustedProxies, NEW sent \in Forgeries,
           NEW chain \in Chains
    PROVE  /\ Header(from, sent, chain, 0) \in Seq(Seq(Texts))
           /\ sent = <<>> =>
                 /\ Valid(FirstLine(Header(from, sent, chain, 0))) # {}
                 /\ Walk(FirstLine(Header(from, sent, chain, 0))) = from
<1> DEFINE own == OwnLines(<<from>> \o chain)
<1>1. sent \in Seq(Seq(Texts)) /\ chain \in Seq(TrustedProxies)
  BY HeaderAssumption
<1>2. Header(from, sent, chain, 0) = sent \o own
  BY DEF Header
<1>3. /\ <<from>> \o chain \in Seq(Addresses) /\ (<<from>> \o chain)[1] = from
      /\ Len(<<from>> \o chain) >= 1
  BY <1>1, AddressAssumption
<1>4. own \in Seq(Seq(Texts)) /\ Len(own) >= 1 /\ own[1] = <<from>>
  <2> DEFINE all == <<from>> \o chain
  <2>1. all \in Seq(Addresses) /\ 1 \in 1..Len(all) /\ all[1] = from /\ Len(all) \in Nat
    BY <1>3
  <2> HIDE DEF all
  <2>2. /\ OwnLines(all) \in Seq(Seq(Texts)) /\ Len(OwnLines(all)) = Len(all)
        /\ OwnLines(all)[1] = <<all[1]>>
    BY <2>1, OwnLinesType
  <2>3. own = OwnLines(all)
    BY DEF all
  <2> HIDE DEF own
  <2> QED
    BY <2>1, <2>2, <2>3
<1> HIDE DEF own
<1>5. sent \o own \in Seq(Seq(Texts))
  BY <1>1, <1>4
<1>6. ASSUME sent = <<>> PROVE FirstLine(sent \o own) = <<from>>
  <2>1. sent \o own = own
    BY <1>4, <1>6
  <2> QED
    BY <1>4, <2>1 DEF FirstLine
<1>7. /\ <<>> \in Seq(Texts) /\ <<>> \in Seq(TrustedProxies)
      /\ (<<>> \o <<from>>) \o <<>> = <<from>>
  OBVIOUS
<1>8. /\ Valid((<<>> \o <<from>>) \o <<>>) # {}
      /\ Walk((<<>> \o <<from>>) \o <<>>) = from
  <2>1. \A forged \in Seq(Texts), proxies \in Seq(TrustedProxies) :
            /\ Valid((forged \o <<from>>) \o proxies) # {}
            /\ Walk((forged \o <<from>>) \o proxies) = from
    BY WalkFindsOrigin, Zenon
  <2> QED
    BY <1>7, <2>1, Zenon
<1>9. Valid(<<from>>) # {} /\ Walk(<<from>>) = from
  BY <1>7, <1>8, Zenon
<1> QED
  BY <1>2, <1>5, <1>6, <1>9

\* client_ip finds an address, and unless a client's own line is in front, the
\* one the request came from.
LEMMA OriginFound ==
    ASSUME NEW from \in Addresses \ TrustedProxies, NEW sent \in Forgeries,
           NEW hop \in Hops(from, sent)
    PROVE  /\ ClientIp(hop.peer, hop.lines) \in Addresses
           /\ hop.masked \in BOOLEAN
           /\ ~hop.masked => ClientIp(hop.peer, hop.lines) = from
<1>1. CASE hop = [peer |-> from, lines |-> sent, masked |-> FALSE]
  BY <1>1 DEF ClientIp, IsTrustedProxy
<1>2. ASSUME NEW p \in Peers, NEW chain \in Chains, hop \in Through(p, from, sent, chain)
      PROVE  /\ ClientIp(hop.peer, hop.lines) \in Addresses
             /\ hop.masked \in BOOLEAN
             /\ ~hop.masked => ClientIp(hop.peer, hop.lines) = from
  <2>0. Len(chain) \in Nat
    BY HeaderAssumption
  <2>1. PICK n \in 0..Len(chain) + 1 :
            hop = [peer |-> p, lines |-> Header(from, sent, chain, n),
                   masked |-> n = 0 /\ sent # <<>>]
    BY <1>2 DEF Through
  <2>2. /\ hop.peer = p /\ hop.lines = Header(from, sent, chain, n)
        /\ hop.masked = (n = 0 /\ sent # <<>>)
    BY <2>1
  <2>3. hop.lines \in Seq(Seq(Texts))
    BY <2>0, <2>2, JoinedFirst, OwnFirst
  <2>4. p \in TrustedProxies /\ p \in Addresses /\ TrustForwardedFor
    BY AddressAssumption DEF Peers
  <2>5. ASSUME ~hop.masked
        PROVE  Valid(FirstLine(hop.lines)) # {} /\ Walk(FirstLine(hop.lines)) = from
    <3>1. CASE n = 0
      BY <2>2, <2>5, <3>1, OwnFirst
    <3>2. CASE n # 0
      <4>1. n \in 1..Len(chain) + 1
        BY <2>0, <3>2
      <4> QED
        BY <2>2, <4>1, JoinedFirst
    <3> QED
      BY <3>1, <3>2
  <2>6. ~hop.masked => ClientIp(hop.peer, hop.lines) = from
    BY <2>2, <2>4, <2>5 DEF ClientIp, IsTrustedProxy
  <2> QED
    BY <2>2, <2>3, <2>4, <2>6, ClientIpAddress
<1> QED
  BY <1>1, <1>2 DEF Hops

-----------------------------------------------------------------------------
(***************************************************************************)
(* The bucket inside the middleware                                        *)
(***************************************************************************)
\* Every step is the bucket's or leaves the bucket alone.
LEMMA BucketStep == [PreAuthNext]_preAuthVars => [Next]_bucketVars
  BY DEF PreAuthNext, Wait, Arrive, Pass, Charge, preAuthVars, Next

\* dispatch uses the limiter only through preview and allow.
THEOREM ImplementsBucket == PreAuthSpec => Spec
<1>1. PreAuthInit => Init
  BY DEF PreAuthInit
<1> QED
  BY <1>1, BucketStep, PTL DEF PreAuthSpec, Spec

\* However many requests are between their preview and their charge, the
\* bucket answers each call as the ideal one: it lets through no more, refuses
\* no earlier, and its Retry-After is exact.
THEOREM BucketUnderLoad ==
    PreAuthSpec => ImplementsIdeal /\ []Ceiling /\ []NoEarlyRefusal /\ []RetryExact
  BY ImplementsBucket, IdealImplemented, CeilingHolds, NeverEarly, RetryAfterExact, PTL

\* Only a grant takes from what the bucket would hold; time only adds to it.
LEMMA RefillKept ==
    ASSUME TypeOK, [Next]_bucketVars, ~(Allow /\ Refilled >= Window), Refilled >= Window
    PROVE  Refilled' >= Window
<1>0. /\ Refilled \in 0..Full /\ Full \in Nat /\ Window \in Nat \ {0} /\ Window <= Full
      /\ Capacity \in Nat
  BY RefilledInRange, FullPositive
<1>1. CASE Tick
  <2>1. Refilled' = Capped(Refilled + Capacity)
    BY <1>1, TickRefills
  <2> QED
    BY <1>0, <2>1 DEF Capped
<1>2. CASE Preview
  <2>1. CASE tokens = Absent
    BY <1>2, <2>1 DEF Preview, Refilled, Full, Absent
  <2>2. CASE tokens # Absent
    BY <1>0, <1>2, <2>2, JustRefilled DEF Preview
  <2> QED
    BY <2>1, <2>2
<1>3. CASE UNCHANGED bucketVars
  BY <1>3 DEF bucketVars, Refilled, Capped, Full, Absent
<1> QED
  BY <1>1, <1>2, <1>3 DEF Next

-----------------------------------------------------------------------------
(***************************************************************************)
(* The invariant                                                           *)
(***************************************************************************)
LEMMA PreAuthInitInv == PreAuthInit => PreAuthInv
<1> SUFFICES ASSUME PreAuthInit PROVE PreAuthInv
  OBVIOUS
<1>1. TypeOK
  BY InitTypes DEF PreAuthInit
<1>2. Inside = {}
  BY DEF PreAuthInit, Inside
<1>3. PreAuthTypeOK /\ ChargedToOrigin /\ Covered
  BY <1>1, <1>2, SubjectAssumption DEF PreAuthInit, PreAuthTypeOK, ChargedToOrigin, Covered
<1>4. Cardinality({}) = 0 /\ Cardinality(Connections) \in Nat
  BY FS_EmptySet, FS_CardinalityType, ConnectionsAssumption
<1>5. OverrunBounded
  BY <1>4 DEF PreAuthInit, Init, OverrunBounded
<1> QED
  BY <1>3, <1>5 DEF PreAuthInv

LEMMA StepTypes ==
    ASSUME PreAuthInv, [PreAuthNext]_preAuthVars
    PROVE  PreAuthTypeOK' /\ ChargedToOrigin'
<1>0. TypeOK'
  BY BucketStep, NextTypes DEF PreAuthInv, PreAuthTypeOK
<1>1. CASE Wait \/ UNCHANGED preAuthVars
  BY <1>0, <1>1 DEF Wait, preAuthVars, dispatchVars, PreAuthInv, PreAuthTypeOK,
                    ChargedToOrigin, Inside
<1>2. ASSUME NEW c \in Connections, NEW from \in Addresses \ TrustedProxies,
             NEW sent \in Forgeries, Arrive(c, from, sent)
      PROVE  PreAuthTypeOK' /\ ChargedToOrigin'
  <2>1. PICK hop \in Hops(from, sent) :
            /\ pc[c] = "idle"
            /\ \/ UNCHANGED <<pc, key, origin, masked>>
               \/ Enter(c, ClientIp(hop.peer, hop.lines), from, hop.masked)
            /\ UNCHANGED <<exposed, overrun>>
    BY <1>2 DEF Arrive
  <2> DEFINE ip == ClientIp(hop.peer, hop.lines)
             mask == hop.masked
  <2>2. ip \in Addresses /\ mask \in BOOLEAN /\ (~mask => ip = from)
    BY OriginFound
  <2> HIDE DEF ip, mask
  <2>3. CASE UNCHANGED <<pc, key, origin, masked>>
    BY <1>0, <2>1, <2>3 DEF PreAuthInv, PreAuthTypeOK, ChargedToOrigin, Inside
  <2>4. CASE Enter(c, ip, from, mask)
    <3>1. exposed' \subseteq Inside'
      BY <2>1, <2>4 DEF Enter, PreAuthInv, PreAuthTypeOK, Inside
    <3>2. PreAuthTypeOK'
      BY <1>0, <2>1, <2>2, <2>4, <3>1 DEF Enter, PreAuthInv, PreAuthTypeOK
    <3>3. ChargedToOrigin'
      BY <2>2, <2>4 DEF Enter, PreAuthInv, PreAuthTypeOK, ChargedToOrigin
    <3> QED
      BY <3>2, <3>3
  <2> QED
    BY <2>1, <2>3, <2>4 DEF ip, mask
<1>3. ASSUME NEW c \in Connections, Pass(c) PROVE PreAuthTypeOK' /\ ChargedToOrigin'
  BY <1>0, <1>3, SubjectAssumption
     DEF Pass, Leave, PreAuthInv, PreAuthTypeOK, ChargedToOrigin, Inside
<1>4. ASSUME NEW c \in Connections, Charge(c) PROVE PreAuthTypeOK' /\ ChargedToOrigin'
  <2>1. /\ Leave(c)
        /\ exposed' \subseteq Inside \ {c}
        /\ overrun' \in Nat
    BY <1>4 DEF Charge, PreAuthInv, PreAuthTypeOK, Inside
  <2> QED
    BY <1>0, <2>1, SubjectAssumption
       DEF Leave, PreAuthInv, PreAuthTypeOK, ChargedToOrigin, Inside
<1> QED
  BY <1>1, <1>2, <1>3, <1>4 DEF PreAuthNext

\* The connections that are exposed are finitely many; one fewer without c.
LEMMA FewerExposed ==
    ASSUME PreAuthTypeOK, NEW c
    PROVE  /\ IsFiniteSet(exposed) /\ Cardinality(exposed) \in Nat
           /\ Cardinality(exposed \ {c}) \in Nat
           /\ Cardinality(exposed \ {c}) <= Cardinality(exposed)
           /\ c \in exposed => Cardinality(exposed \ {c}) = Cardinality(exposed) - 1
<1>1. IsFiniteSet(exposed)
  BY ConnectionsAssumption, FS_Subset DEF PreAuthTypeOK, Inside
<1> QED
  BY <1>1, FS_CardinalityType, FS_RemoveElement, FS_Subset

\* A grant exposes at most all other connections.
LEMMA OthersExposed ==
    ASSUME NEW c \in Connections
    PROVE  /\ Cardinality(Connections) \in Nat \ {0}
           /\ Cardinality(Inside \ {c}) \in Nat
           /\ Cardinality(Inside \ {c}) <= Cardinality(Connections) - 1
<1>1. /\ IsFiniteSet(Connections \ {c})
      /\ Cardinality(Connections \ {c}) = Cardinality(Connections) - 1
      /\ Cardinality(Connections) \in Nat /\ Cardinality(Connections \ {c}) \in Nat
  BY ConnectionsAssumption, FS_RemoveElement, FS_CardinalityType
<1>2. Inside \ {c} \subseteq Connections \ {c}
  BY DEF Inside
<1>3. Cardinality(Inside \ {c}) <= Cardinality(Connections \ {c}) /\ IsFiniteSet(Inside \ {c})
  BY <1>1, <1>2, FS_Subset
<1> QED
  BY <1>1, <1>3, FS_CardinalityType

LEMMA StepCovered ==
    ASSUME PreAuthInv, [PreAuthNext]_preAuthVars
    PROVE  Covered'
<1>0. TypeOK /\ [Next]_bucketVars
  BY BucketStep DEF PreAuthInv, PreAuthTypeOK
<1>1. CASE Wait \/ UNCHANGED preAuthVars
  <2>1. Inside' = Inside /\ exposed' = exposed
    BY <1>1 DEF Wait, preAuthVars, dispatchVars, Inside
  <2>2. ~(Allow /\ Refilled >= Window)
    BY <1>1, <1>0, MaxTimeAssumption DEF Wait, Tick, preAuthVars, bucketVars, Allow, TypeOK
  <2> QED
    BY <1>0, <2>1, <2>2, RefillKept DEF PreAuthInv, Covered
<1>2. ASSUME NEW c \in Connections, NEW from \in Addresses \ TrustedProxies,
             NEW sent \in Forgeries, Arrive(c, from, sent)
      PROVE  Covered'
  <2>1. PICK hop \in Hops(from, sent) :
            LET ip == ClientIp(hop.peer, hop.lines) IN
            /\ IF ip = Subject THEN Preview ELSE UNCHANGED bucketVars
            /\ IF ip = Subject /\ answer' = "shut"
               THEN UNCHANGED <<pc, key, origin, masked>>
               ELSE Enter(c, ip, from, hop.masked)
            /\ UNCHANGED exposed
    BY <1>2 DEF Arrive
  <2> DEFINE ip == ClientIp(hop.peer, hop.lines)
  <2> HIDE DEF ip
  <2>2. ~(Allow /\ Refilled >= Window)
    BY <1>0, <2>1 DEF Preview, Allow, bucketVars, TypeOK, ip
  <2>3. Refilled >= Window => Refilled' >= Window
    BY <1>0, <2>2, RefillKept
  <2>4. ASSUME NEW d \in Inside', d \notin exposed' PROVE Refilled' >= Window
    <3>1. CASE d \in Inside
      BY <2>1, <2>3, <2>4, <3>1 DEF PreAuthInv, Covered
    <3>2. CASE d \notin Inside
      <4>1. d = c /\ ip = Subject /\ answer' # "shut" /\ Preview
        BY <2>1, <3>2 DEF Enter, Inside, PreAuthInv, PreAuthTypeOK, ip
      <4>2. Refilled >= Window
        BY <4>1 DEF Preview
      <4> QED
        BY <2>3, <4>2
    <3> QED
      BY <3>1, <3>2
  <2> QED
    BY <2>4 DEF Covered
<1>3. ASSUME NEW c \in Connections, Pass(c) PROVE Covered'
  <2>1. Inside' \ exposed' \subseteq Inside \ exposed /\ UNCHANGED bucketVars
    BY <1>3 DEF Pass, Leave, Inside, PreAuthInv, PreAuthTypeOK
  <2>2. Refilled' = Refilled
    BY <2>1 DEF bucketVars, Refilled, Capped, Full, Absent
  <2> QED
    BY <2>1, <2>2 DEF PreAuthInv, Covered
<1>4. ASSUME NEW c \in Connections, Charge(c) PROVE Covered'
  <2>1. Inside' = Inside \ {c}
    BY <1>4 DEF Charge, Leave, Inside, PreAuthInv, PreAuthTypeOK
  <2>2. CASE key[c] = Subject /\ answer' = "granted"
    BY <1>4, <2>1, <2>2 DEF Charge, Covered
  <2>3. CASE ~(key[c] = Subject /\ answer' = "granted")
    <3>1. (Allow /\ answer' # "granted") \/ UNCHANGED bucketVars
      BY <1>4, <2>3 DEF Charge
    <3>2. ~(Allow /\ Refilled >= Window)
      BY <1>0, <3>1 DEF Allow, bucketVars, TypeOK
    <3>3. Inside' \ exposed' \subseteq Inside \ exposed
      BY <1>4, <2>1, <2>3 DEF Charge
    <3> QED
      BY <1>0, <3>2, <3>3, RefillKept DEF PreAuthInv, Covered
  <2> QED
    BY <2>2, <2>3
<1> QED
  BY <1>1, <1>2, <1>3, <1>4 DEF PreAuthNext

\* The sums of OverrunBounded when a token is taken and when none is left.
LEMMA GrantSum ==
    ASSUME NEW n \in Nat, NEW g \in Nat, NEW o \in Nat, NEW e \in Nat, NEW i \in Nat,
           o + e <= n * g, i <= n
    PROVE  o + i <= n * (g + 1)
<1>1. PICK p \in Nat : p = n * g
  OBVIOUS
<1>2. n * (g + 1) = p + n
  BY <1>1
<1>3. o + e <= p
  BY <1>1
<1> HIDE <1>1
<1> QED
  BY <1>2, <1>3

LEMMA RefusalSum ==
    ASSUME NEW m \in Int, NEW o \in Nat, NEW e \in Nat, NEW f \in Nat,
           o + e <= m, f = e - 1
    PROVE  (o + 1) + f <= m
  OBVIOUS

LEMMA StepOverrun ==
    ASSUME PreAuthInv, [PreAuthNext]_preAuthVars
    PROVE  OverrunBounded'
<1> DEFINE N == Cardinality(Connections) - 1
<1>0. /\ granted \in Nat /\ overrun \in Nat
      /\ overrun + Cardinality(exposed) <= N * granted
  BY DEF PreAuthInv, PreAuthTypeOK, TypeOK, OverrunBounded
<1>1. CASE Wait \/ UNCHANGED preAuthVars
  BY <1>1 DEF Wait, Tick, preAuthVars, bucketVars, dispatchVars, PreAuthInv, OverrunBounded
<1>2. ASSUME NEW c \in Connections, NEW from \in Addresses \ TrustedProxies,
             NEW sent \in Forgeries, Arrive(c, from, sent)
      PROVE  OverrunBounded'
  BY <1>2 DEF Arrive, Preview, bucketVars, PreAuthInv, OverrunBounded
<1> HIDE DEF N
<1>others. ASSUME NEW c \in Connections
      PROVE  /\ N \in Nat /\ N * granted \in Nat
             /\ Cardinality(Inside \ {c}) \in Nat /\ Cardinality(Inside \ {c}) <= N
  <2>1. /\ Cardinality(Connections) \in Nat \ {0}
        /\ Cardinality(Inside \ {c}) \in Nat
        /\ Cardinality(Inside \ {c}) <= Cardinality(Connections) - 1
    BY OthersExposed
  <2>2. N \in Nat
    BY <2>1 DEF N
  <2>3. N * granted \in Nat
    BY <1>0, <2>2
  <2> QED
    BY <2>1, <2>2, <2>3 DEF N
<1>fewer. ASSUME NEW c \in Connections
      PROVE  /\ Cardinality(exposed) \in Nat /\ Cardinality(exposed \ {c}) \in Nat
             /\ Cardinality(exposed \ {c}) <= Cardinality(exposed)
  BY FewerExposed DEF PreAuthInv
<1>3. ASSUME NEW c \in Connections, Pass(c) PROVE OverrunBounded'
  <2>1. exposed' = exposed \ {c} /\ UNCHANGED <<granted, overrun>>
    BY <1>3 DEF Pass, bucketVars
  <2>2. overrun + Cardinality(exposed \ {c}) <= N * granted
    <3> DEFINE m == N * granted
    <3>1. m \in Nat /\ overrun + Cardinality(exposed) <= m
      BY <1>0, <1>others
    <3> HIDE DEF m
    <3>2. overrun + Cardinality(exposed \ {c}) <= m
      BY <1>0, <1>fewer, <3>1
    <3> QED
      BY <3>2 DEF m
  <2> QED
    BY <2>1, <2>2 DEF OverrunBounded, N
<1>4. ASSUME NEW c \in Connections, Charge(c) PROVE OverrunBounded'
  <2>0. /\ N \in Nat /\ N * granted \in Int
        /\ Cardinality(Inside \ {c}) \in Nat /\ Cardinality(Inside \ {c}) <= N
        /\ Cardinality(exposed) \in Nat /\ Cardinality(exposed \ {c}) \in Nat
    BY <1>others, <1>fewer
  <2>1. CASE key[c] # Subject
    BY <1>4, <2>1 DEF Charge, bucketVars, PreAuthInv, OverrunBounded
  <2>2. CASE key[c] = Subject /\ answer' = "granted"
    <3>1. exposed' = Inside \ {c} /\ overrun' = overrun /\ granted' = granted + 1
      BY <1>4, <2>2 DEF Charge, Allow
    <3>2. overrun + Cardinality(Inside \ {c}) <= N * (granted + 1)
      BY <1>0, <2>0, GrantSum
    <3> QED
      BY <3>1, <3>2 DEF OverrunBounded, N
  <2>3. CASE key[c] = Subject /\ answer' # "granted"
    <3>1. /\ exposed' = exposed \ {c} /\ overrun' = overrun + 1 /\ granted' = granted
          /\ ~(Refilled >= Window)
      BY <1>4, <2>3 DEF Charge, Allow
    <3>2. c \in exposed
      BY <1>4, <2>3, <3>1 DEF Charge, Inside, PreAuthInv, Covered
    <3>3. Cardinality(exposed \ {c}) = Cardinality(exposed) - 1
      BY <3>2, FewerExposed DEF PreAuthInv
    <3>4. (overrun + 1) + Cardinality(exposed \ {c}) <= N * granted
      BY <1>0, <2>0, <3>3, RefusalSum
    <3> QED
      BY <3>1, <3>4 DEF OverrunBounded, N
  <2> QED
    BY <2>1, <2>2, <2>3
<1> QED
  BY <1>1, <1>2, <1>3, <1>4 DEF PreAuthNext

LEMMA PreAuthInvariant == PreAuthSpec => []PreAuthInv
<1>1. PreAuthInv /\ [PreAuthNext]_preAuthVars => PreAuthInv'
  BY StepTypes, StepCovered, StepOverrun DEF PreAuthInv
<1> QED
  BY PreAuthInitInv, <1>1, PTL DEF PreAuthSpec

\* The middleware's bucket and requests keep their types, for any number of
\* requests at once.
THEOREM PreAuthTypes == PreAuthSpec => []PreAuthTypeOK
<1>1. PreAuthInv => PreAuthTypeOK
  BY DEF PreAuthInv
<1> QED
  BY <1>1, PreAuthInvariant, PTL

\* Whatever lines of X-Forwarded-For a client sends, however many trusted
\* proxies are in between and whichever of them join the lines or add one,
\* client_ip finds where the request came from, unless no proxy joined and the
\* client's own line is still the first.
THEOREM OriginCharged == PreAuthSpec => []ChargedToOrigin
<1>1. PreAuthInv => ChargedToOrigin
  BY DEF PreAuthInv
<1> QED
  BY <1>1, PreAuthInvariant, PTL

\* With N requests at once a token pays for at most N failed logins, though
\* preview and allow are apart.
THEOREM OverrunIsBounded == PreAuthSpec => []OverrunBounded
<1>1. PreAuthInv => OverrunBounded
  BY DEF PreAuthInv
<1> QED
  BY <1>1, PreAuthInvariant, PTL
=============================================================================
