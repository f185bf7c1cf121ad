-------------------------- MODULE ChatStream_proofs --------------------------
(***************************************************************************)
(* ChatStream for any number of requests, principals, slots and chunks:    *)
(* the handlers use the limiter as StreamLimiter describes it, so its      *)
(* theorems hold of it here, and every slot is owned and covers the        *)
(* provider's stream it was taken for.                                     *)
(*                                                                         *)
(* The inductive invariant is the limiter's own invariant with: a held     *)
(* lease has an owner (LeaseOwned), an open provider stream has a held     *)
(* lease (OpenHolds), a request whose client left is over (CutInv), and    *)
(* where in its life a request can have seen its last event (SeenInv).     *)
(* On it rests a second one, RecordInv, that follows what the audit record *)
(* will say from the provider's first chunk to finalize.                   *)
(***************************************************************************)
EXTENDS ChatStream, FiniteSetTheorems, TLAPS

\* The limiter together with what is proved about it.
LP == INSTANCE StreamLimiter_proofs WITH Leases <- Requests

\* Types of the variables the lease argument is about.
LeaseTypes ==
    /\ phase \in [Requests -> {"idle", "calling", "first", "streaming", "over", "audited"}]
    /\ gen \in [Requests -> {"none", "created", "timeout_only", "pulling", "yielding",
                             "closing", "abandoned", "closed"}]
    /\ upstream \in [Requests -> {"none", "open", "closed"}]
    /\ cut \in [Requests -> {"no"} \union {"pulling", "yielding", "closing"}]
    /\ seen \in [Requests -> {"none", "json"} \union LastItems]
    /\ pulled \in [Requests -> Nat]

\* A provider stream is open only under a held lease.
OpenHolds == \A r \in Requests : upstream[r] = "open" => leaseState[r] = "held"

\* The client of a request is cut off once, at its end.
CutInv == \A r \in Requests : cut[r] # "no" => phase[r] \in {"over", "audited"}

\* The body generator exists only while the response is being streamed, and
\* until it has yielded its last event the client has not seen one.
SeenInv ==
    \A r \in Requests :
        /\ phase[r] \in {"idle", "calling", "first"} => gen[r] = "none" /\ seen[r] = "none"
        /\ gen[r] \in {"created", "timeout_only", "pulling", "yielding"}
               => phase[r] = "streaming" /\ seen[r] = "none"

\* What is invariant of the requests, beside the limiter.
ChatInv ==
    /\ LeaseTypes
    /\ LeaseOwned
    /\ OpenHolds
    /\ CutInv
    /\ SeenInv

\* The inductive invariant.
Inv == LP!Inv /\ ChatInv

-----------------------------------------------------------------------------
(***************************************************************************)
(* The limiter inside the chat handler                                     *)
(***************************************************************************)
\* An acquire is the limiter's, and leaves the lease held.
LEMMA AcquireLease ==
    ASSUME LP!TypeOK, NEW r \in Requests, Limiter!Acquire(r, leaseKey[r])
    PROVE  /\ leaseKey[r] \in Keys
           /\ LP!Acquire(r, leaseKey[r])
           /\ leaseState' = [leaseState EXCEPT ![r] = "held"]
           /\ leaseKey' = leaseKey
<1>1. leaseKey[r] \in Keys
  BY DEF LP!TypeOK
<1>2. LP!Acquire(r, leaseKey[r])
  BY DEF Limiter!Acquire, LP!Acquire, Limiter!Locked, LP!Locked,
         Limiter!Permits, LP!Permits, Limiter!Absent, LP!Absent
<1> QED
  BY <1>1, <1>2 DEF LP!Acquire, LP!TypeOK

\* A refusal leaves every key as it was.
LEMMA RefuseLease ==
    ASSUME LP!TypeOK, NEW r \in Requests, Limiter!Refuse(r, leaseKey[r])
    PROVE  /\ leaseKey[r] \in Keys
           /\ LP!Refuse(r, leaseKey[r])
           /\ leaseState' = [leaseState EXCEPT ![r] = "refused"]
           /\ leaseKey' = leaseKey
<1>1. leaseKey[r] \in Keys
  BY DEF LP!TypeOK
<1>2. LP!Refuse(r, leaseKey[r])
  BY DEF Limiter!Refuse, LP!Refuse, Limiter!Locked, LP!Locked,
         Limiter!Permits, LP!Permits, Limiter!Absent, LP!Absent
<1> QED
  BY <1>1, <1>2 DEF LP!Refuse, LP!TypeOK

\* A release, repeated or not, leaves the lease released.
LEMMA ReleaseLease ==
    ASSUME LP!TypeOK, NEW r \in Requests, Limiter!Release(r)
    PROVE  /\ LP!Release(r)
           /\ leaseState' = [leaseState EXCEPT ![r] = "released"]
           /\ leaseKey' = leaseKey
<1>1. LP!Release(r)
  BY DEF Limiter!Release, LP!Release, Limiter!ReleaseFirst, LP!ReleaseFirst,
         Limiter!Unaccounted, LP!Unaccounted, Limiter!PutBack, LP!PutBack,
         Limiter!limiterVars, LP!limiterVars, Limiter!Absent, LP!Absent
<1> QED
  BY <1>1 DEF LP!Release, LP!ReleaseFirst, LP!limiterVars, LP!TypeOK

-----------------------------------------------------------------------------
(***************************************************************************)
(* One lemma for each group of steps of a request                          *)
(***************************************************************************)
\* A request that takes no lease has none to lose.
LEMMA ArriveQuietStep ==
    ASSUME Inv, NEW r \in Requests,
           StartCall(r) \/ Intercept(r) \/ \E e \in EarlyErrors : Reject(r, e)
    PROVE  ChatInv'
<1>1. LeaseTypes'
  BY DEF StartCall, Intercept, Reject, AnswerError, AnswerCrash, AnswerUntyped,
         genVars, Inv, ChatInv, LeaseTypes
<1>2. LeaseOwned' /\ OpenHolds'
  BY DEF StartCall, Intercept, Reject, AnswerError, AnswerCrash, AnswerUntyped,
         genVars, limiterVars, Inv, ChatInv, LeaseTypes, LeaseOwned, OpenHolds,
         CutInv, Holding, Running
<1>3. CutInv' /\ SeenInv'
  BY DEF StartCall, Intercept, Reject, AnswerError, AnswerCrash, AnswerUntyped,
         genVars, Inv, ChatInv, LeaseTypes, CutInv, SeenInv
<1> QED
  BY <1>1, <1>2, <1>3 DEF ChatInv

\* The same for a plain call that returns or fails.
LEMMA CallStep ==
    ASSUME Inv, NEW r \in Requests, Call(r)
    PROVE  ChatInv'
<1>1. LeaseTypes'
  BY DEF Call, CallReturns, CallFails, AnswerError, AnswerCrash, AnswerUntyped,
         genVars, Inv, ChatInv, LeaseTypes
<1>2. LeaseOwned' /\ OpenHolds'
  BY DEF Call, CallReturns, CallFails, AnswerError, AnswerCrash, AnswerUntyped, genVars,
         limiterVars, Inv, ChatInv, LeaseTypes, LeaseOwned, OpenHolds, CutInv,
         Holding, Running
<1>3. CutInv' /\ SeenInv'
  BY DEF Call, CallReturns, CallFails, AnswerError, AnswerCrash, AnswerUntyped,
         genVars, Inv, ChatInv, LeaseTypes, CutInv, SeenInv
<1> QED
  BY <1>1, <1>2, <1>3 DEF ChatInv

\* A refused stream holds no lease.
LEMMA RejectStreamStep ==
    ASSUME Inv, NEW r \in Requests, RejectStream(r)
    PROVE  ChatInv'
<1>0. /\ leaseState \in [Requests -> LP!LeaseStates]
      /\ leaseState' = [leaseState EXCEPT ![r] = "refused"]
      /\ leaseState[r] = "none"
  BY RefuseLease DEF RejectStream, Limiter!Refuse, Inv, LP!Inv, LP!TypeOK
<1>1. LeaseTypes'
  BY DEF RejectStream, AnswerError, genVars, Inv, ChatInv, LeaseTypes
<1>2. LeaseOwned' /\ OpenHolds'
  BY <1>0 DEF RejectStream, AnswerError, genVars, Inv, ChatInv, LeaseTypes,
         LeaseOwned, OpenHolds, CutInv, Holding, Running
<1>3. CutInv' /\ SeenInv'
  BY DEF RejectStream, AnswerError, genVars, Inv, ChatInv, LeaseTypes, CutInv,
         SeenInv
<1> QED
  BY <1>1, <1>2, <1>3 DEF ChatInv

\* The lease is taken before the provider's stream is opened.
LEMMA StartStreamStep ==
    ASSUME Inv, NEW r \in Requests, StartStream(r)
    PROVE  ChatInv'
<1>0. /\ leaseState \in [Requests -> LP!LeaseStates]
      /\ leaseState' = [leaseState EXCEPT ![r] = "held"]
      /\ leaseState[r] = "none"
  BY AcquireLease DEF StartStream, Limiter!Acquire, Inv, LP!Inv, LP!TypeOK
<1>1. LeaseTypes'
  BY DEF StartStream, genVars, Inv, ChatInv, LeaseTypes
<1>2. LeaseOwned' /\ OpenHolds'
  BY <1>0 DEF StartStream, genVars, Inv, ChatInv, LeaseTypes, LeaseOwned, OpenHolds,
         CutInv, Holding, Running
<1>3. CutInv' /\ SeenInv'
  BY DEF StartStream, genVars, Inv, ChatInv, LeaseTypes, CutInv, SeenInv
<1> QED
  BY <1>1, <1>2, <1>3 DEF ChatInv

\* The handler passes its lease to the body generator.
LEMMA FirstQuietStep ==
    ASSUME Inv, NEW r \in Requests, FirstEnd(r) \/ \E i \in Chunks : FirstChunk(r, i)
    PROVE  ChatInv'
<1>1. LeaseTypes'
  BY DEF FirstEnd, FirstChunk, Yields, genVars, Inv, ChatInv, LeaseTypes
<1>2. LeaseOwned' /\ OpenHolds'
  BY DEF FirstEnd, FirstChunk, Yields, genVars, limiterVars, Inv, ChatInv,
         LeaseTypes, LeaseOwned, OpenHolds, CutInv, Holding, Running
<1>3. CutInv' /\ SeenInv'
  BY DEF FirstEnd, FirstChunk, Yields, genVars, Inv, ChatInv, LeaseTypes, CutInv,
         SeenInv
<1> QED
  BY <1>1, <1>2, <1>3 DEF ChatInv

\* The handler releases its lease when there is no first chunk.
LEMMA FirstReleaseStep ==
    ASSUME Inv, NEW r \in Requests, FirstTimeout(r) \/ FirstFails(r)
    PROVE  ChatInv'
<1>0. /\ leaseState \in [Requests -> LP!LeaseStates]
      /\ leaseState' = [leaseState EXCEPT ![r] = "released"]
  BY ReleaseLease DEF FirstTimeout, FirstFails, Inv, LP!Inv, LP!TypeOK
<1>1. LeaseTypes'
  BY DEF FirstTimeout, FirstFails, AnswerError, AnswerCrash, AnswerUntyped, genVars,
         Inv, ChatInv, LeaseTypes
<1>2. LeaseOwned' /\ OpenHolds'
  BY <1>0 DEF FirstTimeout, FirstFails, AnswerError, AnswerCrash, AnswerUntyped,
         genVars, Inv, ChatInv, LeaseTypes, LeaseOwned, OpenHolds, CutInv, Holding,
         Running
<1>3. CutInv' /\ SeenInv'
  BY DEF FirstTimeout, FirstFails, AnswerError, AnswerCrash, AnswerUntyped, genVars,
         Inv, ChatInv, LeaseTypes, CutInv, SeenInv
<1> QED
  BY <1>1, <1>2, <1>3 DEF ChatInv

\* The generator keeps the lease across its yields.
LEMMA BodyStep ==
    ASSUME Inv, NEW r \in Requests, StartBody(r) \/ DeliverChunk(r)
    PROVE  ChatInv'
<1>1. LeaseTypes'
  BY DEF StartBody, DeliverChunk, NextChunk, YieldError, ToSseFails, genVars, Inv, ChatInv,
         LeaseTypes
<1>2. LeaseOwned' /\ OpenHolds'
  BY DEF StartBody, DeliverChunk, NextChunk, YieldError, ToSseFails, genVars, limiterVars, Inv,
         ChatInv, LeaseTypes, LeaseOwned, OpenHolds, CutInv, Holding, Running
<1>3. CutInv' /\ SeenInv'
  BY DEF StartBody, DeliverChunk, NextChunk, YieldError, ToSseFails, genVars, Inv, ChatInv,
         LeaseTypes, CutInv, SeenInv
<1> QED
  BY <1>1, <1>2, <1>3 DEF ChatInv

\* The generator keeps the lease across its reads of the provider's stream.
LEMMA PullStep ==
    ASSUME Inv, NEW r \in Requests, Pull(r)
    PROVE  ChatInv'
<1>1. /\ gen[r] = "pulling"
      /\ gen' = [gen EXCEPT ![r] = "yielding"]
      /\ upstream' = upstream \/ upstream' = [upstream EXCEPT ![r] = "closed"]
      /\ pulled' = pulled \/ pulled' = [pulled EXCEPT ![r] = @ + 1]
      /\ UNCHANGED <<limiterVars, phase, cut, seen>>
  <2>1. CASE \E i \in Chunks : PullChunk(r, i) \/ PullUnformatted(r, i)
    BY <2>1 DEF PullChunk, PullUnformatted, Yields, ToSseFails, YieldError
  <2>2. CASE PullEnd(r) \/ PullTimeout(r) \/ PullFails(r)
    BY <2>2 DEF PullEnd, PullTimeout, PullFails, YieldError
  <2> QED
    BY <2>1, <2>2 DEF Pull
<1>2. LeaseTypes'
  BY <1>1 DEF Inv, ChatInv, LeaseTypes
<1>3. LeaseOwned' /\ OpenHolds'
  BY <1>1 DEF limiterVars, Inv, ChatInv, LeaseTypes, LeaseOwned, OpenHolds, Holding,
         Running
<1>4. CutInv' /\ SeenInv'
  BY <1>1 DEF Inv, ChatInv, LeaseTypes, CutInv, SeenInv
<1> QED
  BY <1>2, <1>3, <1>4 DEF ChatInv

\* The finally clause, in the response task or in the finaliser's.
LEMMA CloseStep ==
    ASSUME Inv, NEW r \in Requests, CloseUpstream(r) \/ FinalizeGen(r)
    PROVE  ChatInv'
<1>0. /\ leaseState \in [Requests -> LP!LeaseStates]
      /\ leaseState' = [leaseState EXCEPT ![r] = "released"]
  BY ReleaseLease DEF CloseUpstream, FinalizeGen, Inv, LP!Inv, LP!TypeOK
<1>1. LeaseTypes'
  BY DEF CloseUpstream, FinalizeGen, EndBody, genVars, Inv, ChatInv, LeaseTypes
<1>2. LeaseOwned' /\ OpenHolds'
  BY <1>0 DEF CloseUpstream, FinalizeGen, EndBody, genVars, Inv, ChatInv,
         LeaseTypes, LeaseOwned, OpenHolds, CutInv, Holding, Running
<1>3. CutInv' /\ SeenInv'
  BY DEF CloseUpstream, FinalizeGen, EndBody, genVars, Inv, ChatInv, LeaseTypes,
         CutInv, SeenInv
<1> QED
  BY <1>1, <1>2, <1>3 DEF ChatInv

\* The clock and the audit record have no part in the lease.
LEMMA EndStep ==
    ASSUME Inv, NEW r \in Requests, Expire(r) \/ Finalize(r)
    PROVE  ChatInv'
<1>1. LeaseTypes'
  BY DEF Expire, Finalize, genVars, Inv, ChatInv, LeaseTypes
<1>2. LeaseOwned' /\ OpenHolds'
  BY DEF Expire, Finalize, genVars, limiterVars, Inv, ChatInv, LeaseTypes,
         LeaseOwned, OpenHolds, CutInv, Holding, Running
<1>3. CutInv' /\ SeenInv'
  BY DEF Expire, Finalize, genVars, Inv, ChatInv, LeaseTypes, CutInv, SeenInv
<1> QED
  BY <1>1, <1>2, <1>3 DEF ChatInv

\* The last event is delivered: the finally clause starts, and releases at
\* once when the provider's stream has ended.
LEMMA DeliverLastStep ==
    ASSUME Inv, NEW r \in Requests, DeliverLast(r)
    PROVE  ChatInv'
<1>1. CASE upstream[r] = "open"
  <2>1. LeaseTypes'
    BY <1>1 DEF DeliverLast, Finally, limiterVars, Inv, ChatInv, LeaseTypes, LastItems
  <2>2. LeaseOwned' /\ OpenHolds'
    BY <1>1 DEF DeliverLast, Finally, limiterVars,
                Inv, ChatInv, LeaseTypes, LeaseOwned, OpenHolds, CutInv, Holding, Running
  <2>3. CutInv' /\ SeenInv'
    BY <1>1 DEF DeliverLast, Finally, Inv, ChatInv, LeaseTypes, CutInv, SeenInv
  <2> QED
    BY <2>1, <2>2, <2>3 DEF ChatInv
<1>2. CASE upstream[r] # "open"
  <2>0. /\ leaseState \in [Requests -> LP!LeaseStates]
        /\ leaseState' = [leaseState EXCEPT ![r] = "released"]
    BY <1>2, ReleaseLease DEF DeliverLast, Finally, Inv, LP!Inv, LP!TypeOK
  <2>1. LeaseTypes'
    BY <1>2 DEF DeliverLast, Finally, EndBody, Inv, ChatInv, LeaseTypes, LastItems
  <2>2. LeaseOwned' /\ OpenHolds'
    BY <1>2, <2>0 DEF DeliverLast, Finally, EndBody,
                      Inv, ChatInv, LeaseTypes, LeaseOwned, OpenHolds, CutInv, Holding, Running
  <2>3. CutInv' /\ SeenInv'
    BY <1>2 DEF DeliverLast, Finally, EndBody, Inv, ChatInv, LeaseTypes, CutInv, SeenInv
  <2> QED
    BY <2>1, <2>2, <2>3 DEF ChatInv
<1> QED
  BY <1>1, <1>2

\* The client leaves: the lease goes back, or stays with a generator that is
\* still to be finalised, or is the exception of LeaseOwned.
LEMMA DisconnectStep ==
    ASSUME Inv, NEW r \in Requests, Disconnect(r)
    PROVE  ChatInv'
<1>1. LeaseTypes'
  BY DEF Disconnect, Inv, ChatInv, LeaseTypes
<1>2. CutInv' /\ SeenInv'
  BY DEF Disconnect, Inv, ChatInv, LeaseTypes, CutInv, SeenInv
<1>3. LeaseOwned' /\ OpenHolds'
  <2>1. CASE gen[r] = "pulling"
    <3>1. /\ leaseState \in [Requests -> LP!LeaseStates]
          /\ leaseState' = [leaseState EXCEPT ![r] = "released"]
      BY <2>1, ReleaseLease DEF Disconnect, Inv, LP!Inv, LP!TypeOK
    <3> QED
      BY <2>1, <3>1 DEF Disconnect, Inv, ChatInv, LeaseTypes, LeaseOwned, OpenHolds,
             CutInv, Holding, Running
  <2>2. CASE gen[r] # "pulling"
    BY <2>2 DEF Disconnect, limiterVars, Inv, ChatInv, LeaseTypes, LeaseOwned,
           OpenHolds, CutInv, Holding, Running
  <2> QED
    BY <2>1, <2>2
<1> QED
  BY <1>1, <1>2, <1>3 DEF ChatInv

-----------------------------------------------------------------------------
(***************************************************************************)
(* The inductive invariant                                                 *)
(***************************************************************************)
\* The limiter's assumptions hold of its instance.
LEMMA LimiterAssumptions ==
    /\ MaxStreams \in Nat \ {0}
    /\ LP!IsFiniteSet(Requests)
<1>1. LP!IsFiniteSet(Requests)
  BY RequestsAssumption DEF IsFiniteSet, LP!IsFiniteSet
<1> QED
  BY <1>1, StreamsAssumption

\* Every step of the chat handler is a step of the limiter or leaves it alone.
LEMMA StepIsLimiterStep ==
    ASSUME LP!TypeOK, [Next]_vars
    PROVE  [LP!Next]_LP!limiterVars
<1> USE DEF LP!limiterVars
<1>1. ASSUME NEW r \in Requests, Arrive(r)
      PROVE  [LP!Next]_LP!limiterVars
  <2>1. CASE RejectStream(r)
    BY <2>1, RefuseLease DEF RejectStream, LP!Next
  <2>2. CASE StartStream(r)
    BY <2>2, AcquireLease DEF StartStream, LP!Next
  <2>3. CASE StartCall(r) \/ Intercept(r) \/ \E e \in EarlyErrors : Reject(r, e)
    BY <2>3 DEF StartCall, Intercept, Reject, limiterVars
  <2> QED
    BY <1>1, <2>1, <2>2, <2>3 DEF Arrive
<1>2. ASSUME NEW r \in Requests,
             FirstTimeout(r) \/ FirstFails(r) \/ CloseUpstream(r) \/ FinalizeGen(r)
      PROVE  [LP!Next]_LP!limiterVars
  BY <1>2, ReleaseLease DEF FirstTimeout, FirstFails, CloseUpstream, FinalizeGen,
         LP!Next
<1>3. ASSUME NEW r \in Requests, DeliverLast(r) \/ Disconnect(r)
      PROVE  [LP!Next]_LP!limiterVars
  BY <1>3, ReleaseLease DEF DeliverLast, Finally, Disconnect, limiterVars, LP!Next
<1>4. ASSUME NEW r \in Requests,
             \/ Call(r) \/ FirstEnd(r) \/ \E i \in Chunks : FirstChunk(r, i)
             \/ StartBody(r) \/ DeliverChunk(r) \/ Pull(r) \/ Expire(r) \/ Finalize(r)
      PROVE  UNCHANGED limiterVars
  BY <1>4 DEF Call, CallReturns, CallFails, FirstEnd, FirstChunk, StartBody,
         DeliverChunk, Pull, PullChunk, PullUnformatted, PullEnd, PullTimeout, PullFails, Expire,
         Finalize, limiterVars
<1>5. CASE UNCHANGED vars
  BY <1>5 DEF vars, limiterVars
<1> QED
  BY <1>1, <1>2, <1>3, <1>4, <1>5 DEF Next, FirstStep, Deliver, limiterVars

\* The invariant holds when the application starts.
LEMMA InitInv ==
    Init => Inv
<1> SUFFICES ASSUME Init PROVE Inv
  OBVIOUS
<1>1. LP!Init
  BY DEF Init, Limiter!Init, LP!Init, Limiter!Absent, LP!Absent
<1>2. LP!Inv
  BY <1>1, LP!InitInv, LimiterAssumptions
<1>3. LeaseTypes
  BY DEF Init, LeaseTypes
<1>4. \A r \in Requests : leaseState[r] = "none"
  BY <1>1 DEF LP!Init
<1>5. LeaseOwned /\ OpenHolds /\ CutInv /\ SeenInv
  BY <1>4 DEF Init, LeaseOwned, OpenHolds, CutInv, SeenInv, Holding
<1> QED
  BY <1>2, <1>3, <1>5 DEF Inv, ChatInv

\* Every step of a request preserves it.
LEMMA NextInv ==
    Inv /\ [Next]_vars => Inv'
<1> SUFFICES ASSUME Inv, [Next]_vars PROVE Inv'
  OBVIOUS
<1>1. LP!Inv'
  <2>1. LP!TypeOK
    BY DEF Inv, LP!Inv
  <2>2. [LP!Next]_LP!limiterVars
    BY <2>1, StepIsLimiterStep
  <2> QED
    BY <2>2, LP!NextInv, LimiterAssumptions DEF Inv
<1>2. ChatInv'
  <2>1. ASSUME NEW r \in Requests, Arrive(r) \/ Call(r)
        PROVE  ChatInv'
    BY <2>1, ArriveQuietStep, RejectStreamStep, StartStreamStep, CallStep DEF Arrive
  <2>2. ASSUME NEW r \in Requests, FirstStep(r)
        PROVE  ChatInv'
    BY <2>2, FirstQuietStep, FirstReleaseStep DEF FirstStep
  <2>3. ASSUME NEW r \in Requests, StartBody(r) \/ Deliver(r)
        PROVE  ChatInv'
    BY <2>3, BodyStep, DeliverLastStep DEF Deliver
  <2>4. ASSUME NEW r \in Requests, Pull(r) \/ CloseUpstream(r)
        PROVE  ChatInv'
    BY <2>4, PullStep, CloseStep
  <2>5. ASSUME NEW r \in Requests,
               Expire(r) \/ Disconnect(r) \/ FinalizeGen(r) \/ Finalize(r)
        PROVE  ChatInv'
    BY <2>5, EndStep, DisconnectStep, CloseStep
  <2>6. CASE UNCHANGED vars
    BY <2>6 DEF vars, limiterVars, genVars, Inv, ChatInv, LeaseTypes, LeaseOwned,
                OpenHolds, CutInv, SeenInv, Holding, Running
  <2> QED
    BY <2>1, <2>2, <2>3, <2>4, <2>5, <2>6 DEF Next
<1> QED
  BY <1>1, <1>2 DEF Inv

\* So it always holds.
LEMMA InvAlways == Spec => []Inv
  BY InitInv, NextInv, PTL DEF Spec

-----------------------------------------------------------------------------
(***************************************************************************)
(* Theorems                                                                *)
(***************************************************************************)
\* The chat handler drives the stream limiter only through its operations:
\* the composition implements the limiter's specification.
THEOREM ImplementsLimiter == Spec => LP!Spec
<1>1. Init => LP!Init
  BY DEF Init, Limiter!Init, LP!Init, Limiter!Absent, LP!Absent
<1>2. Inv /\ [Next]_vars => [LP!Next]_LP!limiterVars
  BY StepIsLimiterStep DEF Inv, LP!Inv
<1> QED
  BY <1>1, <1>2, InvAlways, PTL DEF Spec, LP!Spec

\* Every held lease has an owner that will release it, except one whose
\* client left while the finally clause awaited aclose.
THEOREM LeasesOwned == Spec => []LeaseOwned
<1>1. Inv => LeaseOwned
  BY DEF Inv, ChatInv
<1> QED
  BY <1>1, InvAlways, PTL

\* An open provider stream has its slot, and so a principal never has more
\* open provider streams than slots.
THEOREM UpstreamsWithinQuota == Spec => []UpstreamWithinQuota
<1>1. Inv => UpstreamWithinQuota
  <2> SUFFICES ASSUME Inv PROVE UpstreamWithinQuota
    OBVIOUS
  <2>1. \A r \in Requests : upstream[r] = "open" => Holding(r)
    BY DEF Inv, ChatInv, OpenHolds, Holding
  <2>2. ASSUME NEW k \in Keys
        PROVE  Cardinality({r \in Requests : leaseKey[r] = k /\ upstream[r] = "open"})
                   <= MaxStreams
    <3> DEFINE Open == {r \in Requests : leaseKey[r] = k /\ upstream[r] = "open"}
    <3>1. Open \subseteq LP!Held(k)
      BY <2>1 DEF LP!Held, Holding
    <3>2. IsFiniteSet(LP!Held(k))
      BY RequestsAssumption, FS_Subset DEF LP!Held
    <3>3. \A S : LP!Cardinality(S) = Cardinality(S)
      BY DEF LP!Cardinality, Cardinality
    <3>4. Cardinality(LP!Held(k)) <= MaxStreams
      BY <3>3, LP!PermitsAreFreeSlots, LimiterAssumptions DEF Inv
    <3>5. /\ Cardinality(Open) \in Nat
          /\ Cardinality(LP!Held(k)) \in Nat
          /\ Cardinality(Open) <= Cardinality(LP!Held(k))
      BY <3>1, <3>2, FS_Subset, FS_CardinalityType
    <3> QED
      BY <3>4, <3>5, StreamsAssumption
  <2> QED
    BY <2>1, <2>2 DEF UpstreamWithinQuota
<1> QED
  BY <1>1, InvAlways, PTL

\* After the event that ends a stream nothing more is pulled or delivered,
\* and an audit record is never rewritten.
THEOREM NothingFollowsLast == Spec => NothingAfterLast
<1> DEFINE Kept(r) ==
        /\ seen[r] # "none" => seen'[r] = seen[r] /\ pulled'[r] = pulled[r]
        /\ phase[r] = "audited" => audit'[r] = audit[r]
<1>1. Inv /\ [Next]_vars => [\A r \in Requests : Kept(r)]_vars
  <2> SUFFICES ASSUME Inv, Next, NEW q \in Requests PROVE Kept(q)
    OBVIOUS
  <2> USE DEF genVars
  <2>1. ASSUME NEW r \in Requests, Arrive(r) \/ Call(r)
        PROVE  Kept(q)
    BY <2>1 DEF Arrive, Reject, Intercept, StartCall, RejectStream, StartStream,
           Call, CallReturns, CallFails, AnswerError, AnswerCrash, AnswerUntyped,
           Inv, ChatInv, LeaseTypes, SeenInv
  <2>2. ASSUME NEW r \in Requests, FirstStep(r)
        PROVE  Kept(q)
    BY <2>2 DEF FirstStep, FirstChunk, Yields, FirstEnd, FirstTimeout, FirstFails,
       AnswerError, AnswerCrash, AnswerUntyped, Inv, ChatInv, LeaseTypes, SeenInv
  <2>3. ASSUME NEW r \in Requests, StartBody(r) \/ Deliver(r)
        PROVE  Kept(q)
    BY <2>3 DEF StartBody, Deliver, DeliverChunk, DeliverLast,
       Inv, ChatInv, LeaseTypes, SeenInv
  <2>4. ASSUME NEW r \in Requests, Pull(r) \/ CloseUpstream(r)
        PROVE  Kept(q)
    BY <2>4 DEF Pull, PullChunk, PullUnformatted, Yields, PullEnd, PullTimeout, PullFails,
       CloseUpstream,
       Inv, ChatInv, LeaseTypes, SeenInv
  <2>5. ASSUME NEW r \in Requests,
               Expire(r) \/ Disconnect(r) \/ FinalizeGen(r)
        PROVE  Kept(q)
    BY <2>5 DEF Expire, Disconnect, FinalizeGen
  <2>6. ASSUME NEW r \in Requests, Finalize(r)
        PROVE  Kept(q)
    <3>1. CASE q = r
      BY <2>6, <3>1 DEF Finalize
    <3>2. CASE q # r
      BY <2>6, <3>2 DEF Finalize
    <3> QED
      BY <3>1, <3>2
  <2> QED
    BY <2>1, <2>2, <2>3, <2>4, <2>5, <2>6 DEF Next
<1> QED
  BY <1>1, InvAlways, PTL DEF Spec, NothingAfterLast

-----------------------------------------------------------------------------
(***************************************************************************)
(* The audit record                                                        *)
(*                                                                         *)
(* request.state is written where a stream fails or ends, the record only  *)
(* when the response is over.  What holds in between depends on the event  *)
(* the generator holds: until the last one there is nothing in             *)
(* request.state (StreamState), the usage remembered is the last reported  *)
(* once the chunk at hand was formatted (Tally), and the client's last     *)
(* event is the one the generator ended with (Told).                       *)
(***************************************************************************)
RecordTypes ==
    /\ item \in [Requests -> {"none"} \union Chunks \union LastItems]
    /\ expired \in [Requests -> BOOLEAN]
    /\ reported \in [Requests -> Nat]
    /\ usage \in [Requests -> Nat]
    /\ state \in [Requests -> [error : ErrorTypes, status : Nat, usage : Nat]]
    /\ resp \in [Requests -> Nat]
    /\ audit \in [Requests -> [status : Nat, error : ErrorTypes, usage : Nat]]

\* Nothing is known of a request that waits for its response.
Blank(r) ==
    phase[r] \in {"idle", "calling", "first"} =>
        state[r] = NoState /\ item[r] = "none" /\ reported[r] = 0 /\ usage[r] = 0

\* A JSON response: the status is the response's, and says what the error
\* type says.
JsonState(r) ==
    seen[r] = "json" =>
        /\ gen[r] = "none"
        /\ state[r].status = 0
        /\ state[r].usage = reported[r]
        /\ resp[r] = 200 => state[r].error = "none"
        /\ state[r].error = "provider_error" => resp[r] = 502

\* A stream: request.state by the event the generator holds or ended with.
StreamState(r) ==
    gen[r] # "none" =>
        /\ item[r] \in {"none"} \union Chunks =>
              state[r] = NoState /\ (gen[r] = "timeout_only" \/ resp[r] = 200)
        /\ item[r] = "done" =>
              /\ state[r] = [error |-> "none", status |-> 0, usage |-> reported[r]]
              /\ resp[r] = 200
        /\ item[r] = "timeout" =>
              state[r] = [error |-> "stream_timeout", status |-> 504, usage |-> 0]
        /\ item[r] = "error" =>
              /\ state[r].status \in 400..599 /\ state[r].error # "none" /\ state[r].usage = 0
              /\ state[r].error = "provider_error" => state[r].status = 502

\* token_usage of _stream_chunks follows what the provider has reported.
Tally(r) ==
    /\ gen[r] = "timeout_only" => item[r] = "none"
    /\ gen[r] = "created" =>
          /\ item[r] \in {"none"} \union Chunks
          /\ usage[r] = 0
          /\ reported[r] = IF item[r] = "usage" THEN pulled[r] ELSE 0
    /\ gen[r] = "pulling" => item[r] = "none" /\ usage[r] = reported[r]
    /\ gen[r] = "yielding" => item[r] # "none" /\ (item[r] \in Chunks => usage[r] = reported[r])

\* What ended the response: the client's last event is the generator's, and
\* a response that is over without one was cut.
Told(r) ==
    /\ gen[r] = "closing" => seen[r] \in LastItems
    /\ seen[r] \in LastItems => seen[r] = item[r] /\ gen[r] # "none"
    /\ phase[r] \in {"over", "audited"} =>
          /\ seen[r] # "none" \/ cut[r] # "no"
          /\ gen[r] = "none" => seen[r] = "json"

\* finalize writes what request.state says at the end.
Filed(r) ==
    phase[r] = "audited" =>
        audit[r] = [status |-> IF state[r].status # 0 THEN state[r].status ELSE resp[r],
                    error |-> state[r].error,
                    usage |-> state[r].usage]

RecordOK(r) ==
    Blank(r) /\ JsonState(r) /\ StreamState(r) /\ Tally(r) /\ Told(r) /\ Filed(r)

RecordInv == RecordTypes /\ \A r \in Requests : RecordOK(r)

\* The variables of one request that its record depends on.
SameRecord(r) ==
    /\ phase'[r] = phase[r] /\ gen'[r] = gen[r] /\ item'[r] = item[r]
    /\ pulled'[r] = pulled[r] /\ reported'[r] = reported[r] /\ usage'[r] = usage[r]
    /\ state'[r] = state[r] /\ resp'[r] = resp[r] /\ seen'[r] = seen[r]
    /\ cut'[r] = cut[r] /\ audit'[r] = audit[r]

-----------------------------------------------------------------------------
\* Every error a client can be told has an error status and a type, and
\* only a 502 is a provider_error.
LEMMA ErrorFacts ==
    ASSUME NEW e \in EarlyErrors \union ProviderErrors
                     \union {NotConfigured, StreamTimeout, ServerError, TooManyStreams}
    PROVE  /\ e.status \in 400..599 /\ e.status \in Nat
           /\ e.type \in ErrorTypes /\ e.type # "none"
           /\ e.type = "provider_error" => e.status = 502
<1>1. ASSUME NEW u \in UpstreamStatuses
      PROVE  ProviderError(u) \in {Error(429, "rate_limit_error"), Error(502, "provider_error"),
                                   Error(400, "invalid_request_error")}
  BY UpstreamAssumption DEF ProviderError
<1>2. e \in EarlyErrors \union
           {Error(429, "rate_limit_error"), Error(502, "provider_error"),
            Error(400, "invalid_request_error"), Error(503, "server_error"),
            Error(504, "stream_timeout"), Error(500, "server_error")}
  BY <1>1 DEF ProviderErrors, NotConfigured, StreamTimeout, ServerError, TooManyStreams
<1> QED
  BY <1>2 DEF EarlyErrors, Error, ErrorTypes

LEMMA RecordFrame ==
    ASSUME NEW q \in Requests, RecordOK(q), SameRecord(q)
    PROVE  RecordOK(q)'
<1>1. Blank(q)' /\ JsonState(q)' /\ Tally(q)' /\ Told(q)'
  BY DEF RecordOK, SameRecord, Blank, JsonState, Tally, Told, NoState, Chunks, LastItems
<1>2. StreamState(q)' /\ Filed(q)'
  BY DEF RecordOK, SameRecord, StreamState, Filed, NoState, Chunks
<1> QED
  BY <1>1, <1>2 DEF RecordOK

-----------------------------------------------------------------------------
(***************************************************************************)
(* One lemma for each group of steps                                       *)
(***************************************************************************)
\* The response is a JSON error, or one that request.state does not know of.
LEMMA AnswerRecord ==
    ASSUME Inv, RecordInv, NEW r \in Requests,
           phase[r] \in {"idle", "calling", "first"},
           UNCHANGED <<gen, item, pulled, reported, usage, expired, cut, audit>>,
           \/ \E e \in EarlyErrors \union ProviderErrors \union {NotConfigured, TooManyStreams} :
                 AnswerError(r, e)
           \/ \E c \in InterceptStatuses \union {500} : AnswerUntyped(r, c)
    PROVE  RecordInv'
<1>1. RecordTypes /\ LeaseTypes /\ \A q \in Requests : RecordOK(q)
  BY DEF RecordInv, Inv, ChatInv
<1>2. gen[r] = "none" /\ state[r] = NoState /\ reported[r] = 0 /\ item[r] = "none"
  BY <1>1 DEF Inv, ChatInv, SeenInv, RecordOK, Blank
<1> DEFINE Answered ==
      /\ RecordTypes'
      /\ \A q \in Requests : q # r => SameRecord(q)
      /\ phase'[r] = "over" /\ seen'[r] = "json"
      /\ state'[r].status = 0 /\ state'[r].usage = 0
      /\ resp'[r] # 200 /\ (state'[r].error = "provider_error" => resp'[r] = 502)
<1>3. Answered
  <2>1. ASSUME NEW e \in EarlyErrors \union ProviderErrors \union {NotConfigured, TooManyStreams},
               AnswerError(r, e)
        PROVE  Answered
    <3>1. /\ e.type \in ErrorTypes /\ e.status \in Nat /\ e.status # 200
          /\ e.type = "provider_error" => e.status = 502
      BY ErrorFacts
    <3>2. RecordTypes'
      BY <1>1, <2>1, <3>1 DEF AnswerError, RecordTypes, Chunks, LastItems, ErrorTypes
    <3>3. \A q \in Requests : q # r => SameRecord(q)
      BY <1>1, <2>1 DEF AnswerError, RecordTypes, LeaseTypes, SameRecord
    <3>4. /\ phase'[r] = "over" /\ seen'[r] = "json" /\ resp'[r] = e.status
          /\ state'[r] = [state[r] EXCEPT !.error = e.type]
      BY <1>1, <2>1 DEF AnswerError, RecordTypes, LeaseTypes
    <3> QED
      BY <1>2, <3>1, <3>2, <3>3, <3>4 DEF NoState
  <2>2. ASSUME NEW c \in InterceptStatuses \union {500}, AnswerUntyped(r, c)
        PROVE  Answered
    <3>1. c \in Nat /\ c # 200
      BY DEF InterceptStatuses
    <3>2. RecordTypes'
      BY <1>1, <2>2, <3>1 DEF AnswerUntyped, RecordTypes, Chunks, LastItems, ErrorTypes
    <3>3. \A q \in Requests : q # r => SameRecord(q)
      BY <1>1, <2>2 DEF AnswerUntyped, RecordTypes, LeaseTypes, SameRecord
    <3>4. phase'[r] = "over" /\ seen'[r] = "json" /\ resp'[r] = c /\ state'[r] = NoState
      BY <1>1, <1>2, <2>2 DEF AnswerUntyped, RecordTypes, LeaseTypes
    <3> QED
      BY <3>1, <3>2, <3>3, <3>4 DEF NoState
  <2> QED
    BY <2>1, <2>2
<1>4. RecordOK(r)'
  BY <1>1, <1>2, <1>3
     DEF RecordOK, Blank, JsonState, StreamState, Tally, Told, Filed, LastItems
<1> QED
  BY <1>1, <1>3, <1>4, RecordFrame DEF RecordInv

\* Requests that arrive, and plain calls that fail.
LEMMA ArriveRecord ==
    ASSUME Inv, RecordInv, NEW r \in Requests, Arrive(r) \/ CallFails(r) \/ FirstFails(r)
    PROVE  RecordInv'
<1>1. CASE \E e \in EarlyErrors : Reject(r, e)
  BY <1>1, AnswerRecord DEF Reject, genVars
<1>2. CASE Intercept(r)
  BY <1>2, AnswerRecord DEF Intercept, AnswerCrash, genVars
<1>3. CASE RejectStream(r)
  BY <1>3, AnswerRecord DEF RejectStream, genVars
<1>4. CASE CallFails(r)
  BY <1>4, AnswerRecord DEF CallFails, AnswerCrash, genVars
<1>5. CASE FirstFails(r)
  BY <1>5, AnswerRecord DEF FirstFails, AnswerCrash
<1>6. CASE StartCall(r) \/ StartStream(r)
  <2>1. /\ phase[r] = "idle"
        /\ \E p \in {"calling", "first"} : phase' = [phase EXCEPT ![r] = p]
        /\ UNCHANGED <<gen, item, pulled, reported, usage, expired, state, resp, seen, cut, audit>>
    BY <1>6 DEF StartCall, StartStream, genVars
  <2>2. RecordTypes /\ LeaseTypes /\ \A q \in Requests : RecordOK(q)
    BY DEF RecordInv, Inv, ChatInv
  <2>3. RecordTypes'
    BY <2>1, <2>2 DEF RecordTypes, Chunks, LastItems, ErrorTypes
  <2>4. RecordOK(r)'
    BY <2>1, <2>2 DEF LeaseTypes, RecordOK, Blank, JsonState, StreamState, Tally, Told, Filed,
                      NoState, Chunks, LastItems
  <2>5. \A q \in Requests : q # r => SameRecord(q)
    BY <2>1, <2>2 DEF LeaseTypes, SameRecord
  <2> QED
    BY <2>2, <2>3, <2>4, <2>5, RecordFrame DEF RecordInv
<1> QED
  BY <1>1, <1>2, <1>3, <1>4, <1>5, <1>6 DEF Arrive

\* A plain call returns with its usage.
LEMMA CallReturnsRecord ==
    ASSUME Inv, RecordInv, NEW r \in Requests, CallReturns(r)
    PROVE  RecordInv'
<1>1. RecordTypes /\ LeaseTypes /\ \A q \in Requests : RecordOK(q)
  BY DEF RecordInv, Inv, ChatInv
<1>2. gen[r] = "none" /\ state[r] = NoState /\ item[r] = "none"
  BY <1>1 DEF CallReturns, Inv, ChatInv, SeenInv, RecordOK, Blank
<1>3. RecordTypes'
  BY <1>1 DEF CallReturns, RecordTypes, Chunks, LastItems, ErrorTypes
<1>4. RecordOK(r)'
  BY <1>1, <1>2
     DEF CallReturns, RecordTypes, LeaseTypes, RecordOK, Blank, JsonState, StreamState, Tally,
         Told, Filed, NoState, LastItems
<1>5. \A q \in Requests : q # r => SameRecord(q)
  BY <1>1 DEF CallReturns, RecordTypes, LeaseTypes, SameRecord
<1> QED
  BY <1>1, <1>3, <1>4, <1>5, RecordFrame DEF RecordInv

\* The response head is sent, and the generator holds what there is.
LEMMA FirstRecord ==
    ASSUME Inv, RecordInv, NEW r \in Requests,
           FirstEnd(r) \/ FirstTimeout(r) \/ \E i \in Chunks : FirstChunk(r, i)
    PROVE  RecordInv'
<1>1. RecordTypes /\ LeaseTypes /\ \A q \in Requests : RecordOK(q)
  BY DEF RecordInv, Inv, ChatInv
<1>2. /\ phase[r] = "first" /\ gen[r] = "none" /\ seen[r] = "none"
      /\ state[r] = NoState /\ item[r] = "none" /\ reported[r] = 0 /\ usage[r] = 0
  BY <1>1 DEF FirstEnd, FirstTimeout, FirstChunk, Inv, ChatInv, SeenInv, RecordOK, Blank
<1>3. CASE FirstEnd(r) \/ FirstTimeout(r)
  <2>1. \E g \in {"created", "timeout_only"}, c \in {200, 504} :
           /\ phase' = [phase EXCEPT ![r] = "streaming"]
           /\ gen' = [gen EXCEPT ![r] = g]
           /\ resp' = [resp EXCEPT ![r] = c]
           /\ g = "created" => c = 200
           /\ UNCHANGED <<item, pulled, reported, usage, expired, state, seen, cut, audit>>
    BY <1>3 DEF FirstEnd, FirstTimeout
  <2>2. RecordTypes'
    BY <1>1, <2>1 DEF RecordTypes, Chunks, LastItems, ErrorTypes
  <2>3. RecordOK(r)'
    BY <1>1, <1>2, <2>1
       DEF RecordTypes, LeaseTypes, RecordOK, Blank, JsonState, StreamState, Tally, Told,
           Filed, NoState, Chunks, LastItems
  <2>4. \A q \in Requests : q # r => SameRecord(q)
    BY <1>1, <2>1 DEF RecordTypes, LeaseTypes, SameRecord
  <2> QED
    BY <1>1, <2>2, <2>3, <2>4, RecordFrame DEF RecordInv
<1>4. ASSUME NEW i \in Chunks, FirstChunk(r, i) PROVE RecordInv'
  <2>1. RecordTypes'
    BY <1>1, <1>4 DEF FirstChunk, Yields, RecordTypes, LeaseTypes, Chunks, LastItems, ErrorTypes
  <2>2. RecordOK(r)'
    BY <1>1, <1>2, <1>4
       DEF FirstChunk, Yields, RecordTypes, LeaseTypes, RecordOK, Blank, JsonState, StreamState,
           Tally, Told, Filed, NoState, Chunks, LastItems
  <2>3. \A q \in Requests : q # r => SameRecord(q)
    BY <1>1, <1>4 DEF FirstChunk, Yields, RecordTypes, LeaseTypes, SameRecord
  <2> QED
    BY <1>1, <2>1, <2>2, <2>3, RecordFrame DEF RecordInv
<1> QED
  BY <1>3, <1>4

\* A stream under way, before its last event.
LEMMA Streaming ==
    ASSUME Inv, RecordInv, NEW r \in Requests,
           \/ gen[r] \in {"created", "timeout_only", "pulling"}
           \/ gen[r] = "yielding" /\ item[r] \in Chunks
    PROVE  /\ phase[r] = "streaming" /\ seen[r] = "none" /\ cut[r] = "no"
           /\ state[r] = NoState /\ item[r] \in {"none"} \union Chunks
           /\ gen[r] # "timeout_only" => resp[r] = 200
           /\ Tally(r)
<1>1. gen[r] # "none" /\ phase[r] = "streaming" /\ seen[r] = "none"
  BY DEF Inv, ChatInv, SeenInv
<1>2. cut[r] = "no"
  BY <1>1 DEF Inv, ChatInv, CutInv
<1>3. Tally(r) /\ StreamState(r)
  BY DEF RecordInv, RecordOK
<1>4. item[r] \in {"none"} \union Chunks
  BY <1>3 DEF Tally
<1> QED
  BY <1>1, <1>2, <1>3, <1>4 DEF StreamState

\* A step that may count a chunk of request r, and nothing of another.
OnlyCounts(r) ==
    /\ pulled' \in [Requests -> Nat]
    /\ reported' \in [Requests -> Nat]
    /\ usage' \in [Requests -> Nat]
    /\ \A q \in Requests : q # r =>
          pulled'[q] = pulled[q] /\ reported'[q] = reported[q] /\ usage'[q] = usage[q]

\* A step that counts nothing.
LEMMA UncountedSame ==
    ASSUME RecordTypes, LeaseTypes, NEW r \in Requests, UNCHANGED <<pulled, reported, usage>>
    PROVE  OnlyCounts(r)
  BY DEF RecordTypes, LeaseTypes, OnlyCounts

\* The stream fails: request.state gets the error's type and status before
\* the event is yielded.
LEMMA YieldErrorRecord ==
    ASSUME Inv, RecordInv, NEW r \in Requests,
           \/ gen[r] \in {"created", "timeout_only", "pulling"}
           \/ gen[r] = "yielding" /\ item[r] \in Chunks,
           \/ YieldError(r, StreamTimeout, "timeout")
           \/ \E e \in ProviderErrors \union {ServerError} : YieldError(r, e, "error"),
           OnlyCounts(r),
           UNCHANGED <<phase, expired, resp, seen, cut, audit>>
    PROVE  RecordInv'
<1>1. RecordTypes /\ LeaseTypes /\ \A q \in Requests : RecordOK(q)
  BY DEF RecordInv, Inv, ChatInv
<1>2. phase[r] = "streaming" /\ seen[r] = "none" /\ state[r] = NoState
  BY Streaming
<1>3. ASSUME NEW e \in ProviderErrors \union {ServerError, StreamTimeout},
             NEW i \in {"timeout", "error"}, YieldError(r, e, i),
             i = "timeout" => e = StreamTimeout
      PROVE  RecordInv'
  <2>1. /\ e.status \in 400..599 /\ e.status \in Nat
        /\ e.type \in ErrorTypes /\ e.type # "none"
        /\ e.type = "provider_error" => e.status = 502
    BY ErrorFacts
  <2>2. state' = [state EXCEPT ![r].error = e.type, ![r].status = e.status]
    BY <1>3 DEF YieldError
  <2>3. state \in [Requests -> [error : ErrorTypes, status : Nat, usage : Nat]]
    BY <1>1 DEF RecordTypes
  <2>4. RecordTypes'
    <3>1. [state EXCEPT ![r].error = e.type, ![r].status = e.status]
             \in [Requests -> [error : ErrorTypes, status : Nat, usage : Nat]]
      <4>1. e.type \in ErrorTypes /\ e.status \in Nat
        BY <2>1
      <4> QED
        BY <2>3, <4>1
    <3>2. state' \in [Requests -> [error : ErrorTypes, status : Nat, usage : Nat]]
      BY <2>2, <3>1, Zenon
    <3> QED
      BY <1>1, <1>3, <3>2 DEF YieldError, OnlyCounts, RecordTypes, Chunks, LastItems, ErrorTypes
  <2>5. \A q \in Requests : q # r => SameRecord(q)
    BY <1>1, <1>3 DEF YieldError, OnlyCounts, RecordTypes, LeaseTypes, SameRecord
  <2>6. /\ gen'[r] = "yielding" /\ item'[r] = i
        /\ state'[r] = [error |-> e.type, status |-> e.status, usage |-> 0]
    <3>1. [state EXCEPT ![r].error = e.type, ![r].status = e.status][r]
             = [error |-> e.type, status |-> e.status, usage |-> state[r].usage]
      BY <2>3
    <3>2. state'[r] = [error |-> e.type, status |-> e.status, usage |-> state[r].usage]
      BY <2>2, <3>1, Zenon
    <3>3. state[r].usage = 0
      BY <1>2 DEF NoState
    <3> QED
      BY <1>1, <1>3, <3>2, <3>3 DEF YieldError, RecordTypes, LeaseTypes
  <2>7. i = "timeout" => e.type = "stream_timeout" /\ e.status = 504
    BY <1>3 DEF StreamTimeout, Error
  <2>8. RecordOK(r)'
    BY <1>1, <1>2, <1>3, <2>1, <2>6, <2>7
       DEF RecordOK, Blank, JsonState, StreamState, Tally, Told, Filed, Chunks, LastItems
  <2> QED
    BY <1>1, <2>4, <2>5, <2>8, RecordFrame DEF RecordInv
<1> QED
  BY <1>3

\* The top of the loop.
LEMMA NextChunkRecord ==
    ASSUME Inv, RecordInv, NEW r \in Requests,
           \/ gen[r] = "created" /\ item[r] = "none"
           \/ gen[r] = "yielding" /\ item[r] \in Chunks,
           NextChunk(r),
           UNCHANGED <<phase, pulled, reported, usage, expired, resp, seen, cut, audit>>
    PROVE  RecordInv'
<1>1. RecordTypes /\ LeaseTypes /\ \A q \in Requests : RecordOK(q)
  BY DEF RecordInv, Inv, ChatInv
<1>2. CASE expired[r]
  <2>1. YieldError(r, StreamTimeout, "timeout")
    BY <1>2 DEF NextChunk
  <2>2. OnlyCounts(r)
    BY <1>1, UncountedSame
  <2> QED
    BY <2>1, <2>2, YieldErrorRecord
<1>3. CASE ~expired[r]
  <2>1. /\ gen' = [gen EXCEPT ![r] = "pulling"]
        /\ item' = [item EXCEPT ![r] = "none"]
        /\ UNCHANGED state
    BY <1>3 DEF NextChunk
  <2>2. /\ phase[r] = "streaming" /\ seen[r] = "none" /\ state[r] = NoState
        /\ resp[r] = 200 /\ usage[r] = reported[r]
    BY <1>1, Streaming DEF Tally, RecordTypes
  <2>3. RecordTypes'
    BY <1>1, <2>1 DEF RecordTypes, Chunks, LastItems, ErrorTypes
  <2>4. RecordOK(r)'
    BY <1>1, <2>1, <2>2
       DEF RecordTypes, LeaseTypes, RecordOK, Blank, JsonState, StreamState, Tally, Told,
           Filed, NoState, Chunks, LastItems
  <2>5. \A q \in Requests : q # r => SameRecord(q)
    BY <1>1, <2>1 DEF RecordTypes, LeaseTypes, SameRecord
  <2> QED
    BY <1>1, <2>3, <2>4, <2>5, RecordFrame DEF RecordInv
<1> QED
  BY <1>2, <1>3

\* The body starts or goes on.
LEMMA BodyRecord ==
    ASSUME Inv, RecordInv, NEW r \in Requests, StartBody(r) \/ DeliverChunk(r)
    PROVE  RecordInv'
<1>1. RecordTypes /\ LeaseTypes /\ \A q \in Requests : RecordOK(q)
  BY DEF RecordInv, Inv, ChatInv
<1>2. CASE DeliverChunk(r)
  BY <1>2, NextChunkRecord DEF DeliverChunk
<1>3. CASE StartBody(r)
  <2>0. UNCHANGED <<phase, pulled, reported, expired, resp, seen, cut, audit>>
    BY <1>3 DEF StartBody
  <2>1. CASE gen[r] = "timeout_only"
    <3>1. YieldError(r, StreamTimeout, "timeout") /\ UNCHANGED usage
      BY <1>3, <2>1 DEF StartBody
    <3>2. OnlyCounts(r)
      BY <1>1, <2>0, <3>1, UncountedSame
    <3> QED
      BY <2>0, <2>1, <3>1, <3>2, YieldErrorRecord
  <2>2. CASE gen[r] = "created" /\ item[r] = "none"
    BY <1>3, <2>0, <2>2, NextChunkRecord DEF StartBody, Chunks
  <2>3. CASE gen[r] = "created" /\ item[r] \in Chunks /\ ToSseFails(r, item[r], pulled[r])
    <3>1. OnlyCounts(r)
      BY <1>1, <2>0, <2>3 DEF ToSseFails, ToSse, OnlyCounts, RecordTypes, LeaseTypes
    <3> QED
      BY <2>0, <2>3, <3>1, YieldErrorRecord DEF ToSseFails
  <2>4. CASE /\ gen[r] = "created" /\ item[r] \in Chunks
             /\ gen' = [gen EXCEPT ![r] = "yielding"]
             /\ ToSse(r, item[r], pulled[r])
             /\ UNCHANGED <<item, state>>
    <3>1. /\ gen' = [gen EXCEPT ![r] = "yielding"]
          /\ usage' = [usage EXCEPT ![r] = IF item[r] = "usage" THEN pulled[r] ELSE @]
          /\ UNCHANGED <<item, state>>
      BY <2>4 DEF ToSse
    <3>2. /\ phase[r] = "streaming" /\ seen[r] = "none" /\ state[r] = NoState
          /\ resp[r] = 200 /\ usage[r] = 0
          /\ reported[r] = IF item[r] = "usage" THEN pulled[r] ELSE 0
      BY <2>4, Streaming DEF Tally
    <3>3. RecordTypes'
      BY <1>1, <2>0, <3>1 DEF RecordTypes, LeaseTypes, Chunks, LastItems, ErrorTypes
    <3>4. RecordOK(r)'
      BY <1>1, <2>0, <2>4, <3>1, <3>2
         DEF RecordTypes, LeaseTypes, RecordOK, Blank, JsonState, StreamState, Tally, Told,
             Filed, NoState, Chunks, LastItems
    <3>5. \A q \in Requests : q # r => SameRecord(q)
      BY <1>1, <2>0, <3>1 DEF RecordTypes, LeaseTypes, SameRecord
    <3> QED
      BY <1>1, <3>3, <3>4, <3>5, RecordFrame DEF RecordInv
  <2> QED
    BY <1>3, <2>1, <2>2, <2>3, <2>4 DEF StartBody
<1> QED
  BY <1>2, <1>3

\* The provider's stream yields, ends, is given up or raises.
LEMMA PullRecord ==
    ASSUME Inv, RecordInv, NEW r \in Requests, Pull(r)
    PROVE  RecordInv'
<1>1. RecordTypes /\ LeaseTypes /\ \A q \in Requests : RecordOK(q)
  BY DEF RecordInv, Inv, ChatInv
<1>2. gen[r] = "pulling"
  BY DEF Pull, PullChunk, PullUnformatted, PullEnd, PullTimeout, PullFails
<1>3. /\ phase[r] = "streaming" /\ seen[r] = "none" /\ state[r] = NoState
      /\ resp[r] = 200 /\ usage[r] = reported[r]
  BY <1>2, Streaming DEF Tally
<1>4. ASSUME NEW i \in Chunks, PullChunk(r, i) PROVE RecordInv'
  <2>1. RecordTypes'
    BY <1>1, <1>4 DEF PullChunk, Yields, ToSse, RecordTypes, LeaseTypes, Chunks, LastItems,
                      ErrorTypes
  <2>2. /\ gen'[r] = "yielding" /\ item'[r] = i /\ usage'[r] = reported'[r]
        /\ UNCHANGED <<phase, state, resp, seen, cut, audit>>
    BY <1>1, <1>3, <1>4 DEF PullChunk, Yields, ToSse, RecordTypes, LeaseTypes
  <2>3. RecordOK(r)'
    BY <1>1, <1>3, <2>2
       DEF RecordOK, Blank, JsonState, StreamState, Tally, Told, Filed, NoState, Chunks,
           LastItems
  <2>4. \A q \in Requests : q # r => SameRecord(q)
    BY <1>1, <1>4 DEF PullChunk, Yields, ToSse, RecordTypes, LeaseTypes, SameRecord
  <2> QED
    BY <1>1, <2>1, <2>3, <2>4, RecordFrame DEF RecordInv
<1>5. CASE PullEnd(r)
  <2>1. RecordTypes'
    BY <1>1, <1>5 DEF PullEnd, RecordTypes, Chunks, LastItems, ErrorTypes
  <2>2. /\ gen'[r] = "yielding" /\ item'[r] = "done"
        /\ UNCHANGED <<phase, pulled, reported, usage, resp, seen, cut, audit>>
        /\ state'[r] = [error |-> "none", status |-> 0, usage |-> reported[r]]
    BY <1>1, <1>3, <1>5 DEF PullEnd, RecordTypes, LeaseTypes, NoState
  <2>3. RecordOK(r)'
    BY <1>1, <1>3, <2>2
       DEF RecordOK, Blank, JsonState, StreamState, Tally, Told, Filed, Chunks, LastItems
  <2>4. \A q \in Requests : q # r => SameRecord(q)
    BY <1>1, <1>5 DEF PullEnd, RecordTypes, LeaseTypes, SameRecord
  <2> QED
    BY <1>1, <2>1, <2>3, <2>4, RecordFrame DEF RecordInv
<1>6. CASE PullTimeout(r)
  BY <1>1, <1>2, <1>6, UncountedSame, YieldErrorRecord DEF PullTimeout
<1>7. CASE PullFails(r)
  BY <1>1, <1>2, <1>7, UncountedSame, YieldErrorRecord DEF PullFails
<1>8. ASSUME NEW i \in Chunks, PullUnformatted(r, i) PROVE RecordInv'
  <2>1. OnlyCounts(r)
    BY <1>1, <1>8 DEF PullUnformatted, Yields, ToSseFails, ToSse, OnlyCounts, RecordTypes,
                      LeaseTypes
  <2> QED
    BY <1>2, <1>8, <2>1, YieldErrorRecord DEF PullUnformatted, ToSseFails
<1> QED
  BY <1>4, <1>5, <1>6, <1>7, <1>8 DEF Pull

\* The client takes the last event and the generator runs its finally clause.
LEMMA DeliverLastRecord ==
    ASSUME Inv, RecordInv, NEW r \in Requests, DeliverLast(r)
    PROVE  RecordInv'
<1>1. RecordTypes /\ LeaseTypes /\ \A q \in Requests : RecordOK(q)
  BY DEF RecordInv, Inv, ChatInv
<1>2. gen[r] = "yielding" /\ item[r] \in LastItems /\ phase[r] = "streaming" /\ cut[r] = "no"
  BY DEF DeliverLast, Inv, ChatInv, SeenInv, CutInv
<1>3. /\ UNCHANGED <<item, pulled, reported, usage, expired, state, resp, cut, audit>>
      /\ seen' = [seen EXCEPT ![r] = item[r]]
      /\ \/ gen' = [gen EXCEPT ![r] = "closing"] /\ UNCHANGED phase
         \/ /\ gen' = [gen EXCEPT ![r] = "closed"]
            /\ phase' = [phase EXCEPT ![r] = "over"]
  BY DEF DeliverLast, Finally, EndBody
<1>4. RecordTypes'
  BY <1>1, <1>3 DEF RecordTypes, Chunks, LastItems, ErrorTypes
<1>5. RecordOK(r)'
  BY <1>1, <1>2, <1>3
     DEF LeaseTypes, RecordOK, Blank, JsonState, StreamState, Tally, Told, Filed, Chunks,
         LastItems
<1>6. \A q \in Requests : q # r => SameRecord(q)
  BY <1>1, <1>3 DEF LeaseTypes, SameRecord
<1> QED
  BY <1>1, <1>4, <1>5, <1>6, RecordFrame DEF RecordInv

\* The response ends, whole or cut off, or its generator is finalised: the
\* event that ended the stream and request.state stay what they were.
LEMMA EndRecord ==
    ASSUME Inv, RecordInv, NEW r \in Requests,
           CloseUpstream(r) \/ Disconnect(r) \/ FinalizeGen(r)
    PROVE  RecordInv'
<1>1. RecordTypes /\ LeaseTypes /\ \A q \in Requests : RecordOK(q)
  BY DEF RecordInv, Inv, ChatInv
<1>2. UNCHANGED <<item, pulled, reported, usage, expired, state, resp, seen, audit>>
  BY DEF CloseUpstream, Disconnect, FinalizeGen
<1>3. /\ gen[r] # "none" /\ gen'[r] \in {"closed", "abandoned"}
      /\ \A q \in Requests : q # r => SameRecord(q)
  BY <1>1, <1>2 DEF CloseUpstream, EndBody, Disconnect, FinalizeGen, LeaseTypes, SameRecord
<1>4. \/ phase'[r] = phase[r] /\ cut'[r] = cut[r]
      \/ phase'[r] = "over" /\ cut'[r] = cut[r] /\ gen[r] = "closing"
      \/ phase'[r] = "over" /\ cut'[r] = gen[r] /\ gen[r] \in {"pulling", "yielding", "closing"}
  BY <1>1 DEF CloseUpstream, EndBody, Disconnect, FinalizeGen, LeaseTypes
<1>5. RecordTypes'
  BY <1>1, <1>2 DEF RecordTypes, Chunks, LastItems, ErrorTypes
<1>6. gen[r] # "timeout_only"
  BY DEF CloseUpstream, Disconnect, FinalizeGen
<1>7. RecordOK(r)'
  <2>1. Blank(r)' /\ JsonState(r)' /\ Tally(r)' /\ Filed(r)'
    BY <1>1, <1>2, <1>3, <1>4 DEF RecordOK, Blank, JsonState, Tally, Filed, NoState
  <2>2. StreamState(r)'
    BY <1>1, <1>2, <1>3, <1>6 DEF RecordOK, StreamState, NoState, Chunks
  <2>3. Told(r)'
    BY <1>1, <1>2, <1>3, <1>4 DEF RecordOK, Told, LastItems
  <2> QED
    BY <2>1, <2>2, <2>3 DEF RecordOK
<1> QED
  BY <1>1, <1>3, <1>5, <1>7, RecordFrame DEF RecordInv

\* The deadline passes.
LEMMA ExpireRecord ==
    ASSUME Inv, RecordInv, NEW r \in Requests, Expire(r)
    PROVE  RecordInv'
<1>1. RecordTypes /\ \A q \in Requests : RecordOK(q)
  BY DEF RecordInv
<1>2. RecordTypes'
  BY <1>1 DEF Expire, genVars, RecordTypes, Chunks, LastItems, ErrorTypes
<1>3. \A q \in Requests : SameRecord(q)
  BY DEF Expire, genVars, SameRecord
<1> QED
  BY <1>1, <1>2, <1>3, RecordFrame DEF RecordInv

\* The record is written.
LEMMA FinalizeRecord ==
    ASSUME Inv, RecordInv, NEW r \in Requests, Finalize(r)
    PROVE  RecordInv'
<1> DEFINE record == [status |-> IF state[r].status # 0 THEN state[r].status ELSE resp[r],
                      error |-> state[r].error,
                      usage |-> state[r].usage]
<1>1. RecordTypes /\ LeaseTypes /\ \A q \in Requests : RecordOK(q)
  BY DEF RecordInv, Inv, ChatInv
<1>2. /\ phase[r] = "over"
      /\ phase' = [phase EXCEPT ![r] = "audited"]
      /\ audit' = [audit EXCEPT ![r] = record]
      /\ UNCHANGED <<gen, item, pulled, reported, usage, expired, state, resp, seen, cut>>
  BY DEF Finalize, genVars
<1>3. record \in [status : Nat, error : ErrorTypes, usage : Nat]
  BY <1>1 DEF RecordTypes
<1>4. RecordTypes'
  BY <1>1, <1>2, <1>3 DEF RecordTypes, Chunks, LastItems, ErrorTypes
<1>5. audit'[r] = record /\ phase'[r] = "audited"
  BY <1>1, <1>2 DEF RecordTypes, LeaseTypes
<1>6. RecordOK(r)'
  <2>1. Filed(r)'
    BY <1>2, <1>5 DEF Filed
  <2>2. Blank(r)' /\ JsonState(r)' /\ Tally(r)' /\ Told(r)'
    BY <1>1, <1>2, <1>5 DEF RecordOK, Blank, JsonState, Tally, Told, NoState, Chunks, LastItems
  <2>3. StreamState(r)'
    BY <1>1, <1>2 DEF RecordOK, StreamState, NoState, Chunks
  <2> QED
    BY <2>1, <2>2, <2>3 DEF RecordOK
<1>7. \A q \in Requests : q # r => SameRecord(q)
  BY <1>1, <1>2 DEF RecordTypes, LeaseTypes, SameRecord
<1> QED
  BY <1>1, <1>4, <1>6, <1>7, RecordFrame DEF RecordInv

-----------------------------------------------------------------------------
\* A server that has answered no one satisfies the invariant.
LEMMA RecordInit ==
    Init => RecordInv
<1> SUFFICES ASSUME Init PROVE RecordInv
  OBVIOUS
<1>1. RecordTypes
  BY DEF Init, RecordTypes, NoState, NoAudit, ErrorTypes
<1>2. ASSUME NEW r \in Requests PROVE RecordOK(r)
  BY DEF Init, RecordOK, Blank, JsonState, StreamState, Tally, Told, Filed, LastItems
<1> QED
  BY <1>1, <1>2 DEF RecordInv

\* Every step of every request preserves it.
LEMMA RecordNext ==
    Inv /\ RecordInv /\ [Next]_vars => RecordInv'
<1> SUFFICES ASSUME Inv, RecordInv, [Next]_vars PROVE RecordInv'
  OBVIOUS
<1>1. ASSUME NEW r \in Requests, Arrive(r) \/ Call(r) \/ FirstStep(r)
      PROVE  RecordInv'
  BY <1>1, ArriveRecord, CallReturnsRecord, FirstRecord DEF Call, FirstStep
<1>2. ASSUME NEW r \in Requests, StartBody(r) \/ Deliver(r) \/ Pull(r)
      PROVE  RecordInv'
  BY <1>2, BodyRecord, DeliverLastRecord, PullRecord DEF Deliver
<1>3. ASSUME NEW r \in Requests,
             CloseUpstream(r) \/ Disconnect(r) \/ FinalizeGen(r) \/ Expire(r) \/ Finalize(r)
      PROVE  RecordInv'
  BY <1>3, EndRecord, ExpireRecord, FinalizeRecord
<1>4. CASE UNCHANGED vars
  <2>1. RecordTypes'
    BY <1>4 DEF vars, genVars, RecordInv, RecordTypes, Chunks, LastItems, ErrorTypes
  <2>2. \A q \in Requests : SameRecord(q)
    BY <1>4 DEF vars, genVars, SameRecord
  <2> QED
    BY <2>1, <2>2, RecordFrame DEF RecordInv
<1> QED
  BY <1>1, <1>2, <1>3, <1>4 DEF Next

\* So it always holds.
LEMMA RecordAlways == Spec => []RecordInv
  BY RecordInit, RecordNext, InvAlways, PTL DEF Spec

\* Every variable of a chat request keeps its type, for any set of requests
\* and of provider statuses.
THEOREM TypeCorrect == Spec => []TypeOK
<1>1. Inv /\ RecordInv => TypeOK
  <2> SUFFICES ASSUME Inv, RecordInv PROVE TypeOK
    OBVIOUS
  <2>1. Limiter!TypeOK
    BY DEF Inv, LP!Inv, LP!TypeOK, Limiter!TypeOK, LP!Permits, Limiter!Permits,
           LP!LeaseStates, Limiter!LeaseStates, LP!Absent, Limiter!Absent
  <2> QED
    BY <2>1 DEF Inv, ChatInv, LeaseTypes, RecordInv, RecordTypes, TypeOK
<1> QED
  BY <1>1, InvAlways, RecordAlways, PTL

\* The record written when a response is over tells what its client was
\* told, whichever way the stream ended.
THEOREM AuditTellsClient == Spec => []AuditMatchesClient
<1>1. RecordInv => AuditMatchesClient
  <2> SUFFICES ASSUME RecordInv, NEW r \in Requests, phase[r] = "audited"
               PROVE  LET a == audit[r] IN
                      /\ seen[r] = "done" =>
                            a = [status |-> 200, error |-> "none", usage |-> reported[r]]
                      /\ seen[r] = "timeout" =>
                            a = [status |-> 504, error |-> "stream_timeout", usage |-> 0]
                      /\ seen[r] = "error" =>
                            a.status \in 400..599 /\ a.error # "none" /\ a.usage = 0
                      /\ seen[r] = "json" => a.status = resp[r] /\ a.usage = reported[r]
    BY DEF AuditMatchesClient
  <2>1. JsonState(r) /\ StreamState(r) /\ Told(r) /\ Filed(r)
    BY DEF RecordInv, RecordOK
  <2>2. audit[r] = [status |-> IF state[r].status # 0 THEN state[r].status ELSE resp[r],
                    error |-> state[r].error,
                    usage |-> state[r].usage]
    BY <2>1 DEF Filed
  <2>3. seen[r] \in LastItems => item[r] = seen[r] /\ gen[r] # "none"
    BY <2>1 DEF Told
  <2>4. CASE seen[r] = "json"
    BY <2>1, <2>2, <2>4 DEF JsonState
  <2>5. CASE seen[r] = "done"
    BY <2>1, <2>2, <2>3, <2>5 DEF StreamState, LastItems
  <2>6. CASE seen[r] = "timeout"
    BY <2>1, <2>2, <2>3, <2>6 DEF StreamState, LastItems
  <2>7. CASE seen[r] = "error"
    <3>1. state[r].status \in 400..599 /\ state[r].error # "none" /\ state[r].usage = 0
      BY <2>1, <2>3, <2>7 DEF StreamState, LastItems
    <3> QED
      BY <2>2, <2>7, <3>1
  <2> QED
    BY <2>4, <2>5, <2>6, <2>7
<1> QED
  BY <1>1, RecordAlways, PTL

\* No failure is filed as a success, and no success of a client that stayed
\* without the event that said so.
THEOREM NoFailureFiledAsSuccess == Spec => []NoSilentSuccess
<1>1. Inv /\ RecordInv => NoSilentSuccess
  <2> SUFFICES ASSUME Inv, RecordInv, NEW r \in Requests, phase[r] = "audited"
               PROVE  LET a == audit[r] IN
                      /\ a.status = 200 =>
                            a.error = "none" /\ (seen[r] \in {"done", "json"} \/ cut[r] # "no")
                      /\ a.error = "none" => a.status = 200 \/ seen[r] = "json"
                      /\ a.error = "provider_error" => a.status = 502
    BY DEF NoSilentSuccess
  <2>1. /\ JsonState(r) /\ StreamState(r) /\ Told(r) /\ Filed(r)
        /\ item[r] \in {"none"} \union Chunks \union LastItems
        /\ seen[r] \in {"none", "json"} \union LastItems
    BY DEF RecordInv, RecordTypes, RecordOK, Inv, ChatInv, LeaseTypes
  <2>2. gen[r] # "timeout_only"
    BY DEF Inv, ChatInv, SeenInv
  <2>3. CASE gen[r] = "none"
    BY <2>1, <2>3 DEF JsonState, Told, Filed
  <2>4. CASE gen[r] # "none" /\ item[r] \in {"none"} \union Chunks
    BY <2>1, <2>2, <2>4 DEF JsonState, StreamState, Told, Filed, NoState, Chunks, LastItems
  <2>5. CASE gen[r] # "none" /\ item[r] \in LastItems
    BY <2>1, <2>5 DEF JsonState, StreamState, Told, Filed, LastItems
  <2> QED
    BY <2>1, <2>3, <2>4, <2>5
<1> QED
  BY <1>1, InvAlways, RecordAlways, PTL
=============================================================================
