------------------------------ MODULE ChatStream ------------------------------
(***************************************************************************)
(* app/routers/chat.py: POST /v1/chat/completions, with the parts of       *)
(* app/errors.py and app/observability.py that decide what the client is   *)
(* told and what the audit record says.                                    *)
(*                                                                         *)
(* Requests run concurrently on one event loop and share one stream        *)
(* limiter (StreamLimiter).  An action is what a request does between two  *)
(* suspensions of its task: an await on the provider, a yield into the     *)
(* response, the client reading, the connection closing.                   *)
(*                                                                         *)
(* External, modelled from how the code uses it: the provider's stream     *)
(* (yields chunks, ends, raises, is slow; its aclose may suspend), the     *)
(* server (starts the body right after the response head; cancels the      *)
(* response task when the client disconnects), and the interpreter's       *)
(* finaliser of abandoned async generators.                                *)
(***************************************************************************)
EXTENDS Integers, FiniteSets

CONSTANTS
    Requests,          \* requests to /v1/chat/completions
    Keys,              \* principal.api_key_hash
    MaxStreams,        \* settings.max_concurrent_streams_per_key
    UpstreamStatuses,  \* HTTP statuses of failing provider calls; 0 is None
    MaxChunks          \* bound: chunks one provider stream yields

ASSUME RequestsAssumption == IsFiniteSet(Requests)
ASSUME StreamsAssumption == MaxStreams \in Nat \ {0}
ASSUME UpstreamAssumption == UpstreamStatuses \subseteq Nat
ASSUME ChunksAssumption == MaxChunks \in Nat

VARIABLES
    semaphores, active, leaseKey, leaseState,   \* app.state.stream_limiter
    phase,     \* where the request is
    gen,       \* the response body generator of a stream
    upstream,  \* provider.chat_stream(...): "none", "open" or "closed"
    item,      \* the event the generator holds: pulled, being yielded
    expired,   \* time.monotonic() has reached the deadline
    pulled,    \* chunks the provider has yielded
    reported,  \* the last of them that carried usage (0: none)
    usage,     \* token_usage of _stream_chunks: a chunk number or 0
    state,     \* request.state: error_type, audit_status_code, token_usage
    resp,      \* the HTTP status the client is answered with (0: none yet)
    seen,      \* the event that ended the response for the client
    cut,       \* where the generator was when the client disconnected
    audit      \* the record handed to the audit log

limiterVars == <<semaphores, active, leaseKey, leaseState>>
genVars == <<gen, upstream, item, pulled, reported, usage>>
vars == <<limiterVars, phase, genVars, expired, state, resp, seen, cut, audit>>

Limiter == INSTANCE StreamLimiter WITH Leases <- Requests

-----------------------------------------------------------------------------
(***************************************************************************)
(* Errors: what a client is answered and the audit record is told          *)
(***************************************************************************)
Error(s, t) == [status |-> s, type |-> t]

ProviderErrorPassThrough(u) == Error(u, "authentication_error")
\* ProviderAPIError.__init__: u is the provider's status, 0 when it gave none.
ProviderError(u) ==
    CASE u = 429                -> Error(429, "rate_limit_error")
      [] u \in {401, 403}       -> Error(502, "provider_error")
      [] u \in (400..499) \ {401, 403, 429} -> Error(400, "invalid_request_error")
      [] OTHER                  -> Error(502, "provider_error")

\* What the dependencies, the policy filter and the registry raise before
\* the provider is called: authentication or scope, request rate, validation,
\* a body that grows too large, policy block, unknown model.  The pre-auth
\* limiter may replace the 401 by a 429; error_type is set by then.
EarlyErrors ==
    {Error(401, "invalid_request_error"), Error(429, "invalid_request_error"),
     Error(429, "rate_limit_error"), Error(422, "invalid_request_error"),
     Error(413, "http_error"), Error(403, "content_policy_violation"),
     Error(400, "invalid_request_error")}

\* What the middlewares inside the request-id middleware answer on their
\* own, setting no error_type: untrusted host, declared body size, pre-auth
\* limit.
InterceptStatuses == {400, 413, 429}

\* What a provider call raises as an APIError; a provider without a key
\* raises ProviderConfigurationError.
NotConfigured == Error(503, "server_error")
ProviderErrors == {ProviderError(u) : u \in UpstreamStatuses}

StreamTimeout == Error(504, "stream_timeout")
ServerError == Error(500, "server_error")
TooManyStreams == Error(429, "rate_limit_error")

Chunks == {"chunk", "usage"}                 \* "usage": a chunk with usage
LastItems == {"done", "timeout", "error"}    \* the event after which it returns

NoState == [error |-> "none", status |-> 0, usage |-> 0]
NoAudit == [status |-> 0, error |-> "none", usage |-> 0]

ErrorTypes ==
    {"none", "invalid_request_error", "rate_limit_error", "server_error",
     "http_error", "content_policy_violation", "provider_error", "stream_timeout"}

-----------------------------------------------------------------------------
Init ==
    /\ Limiter!Init
    /\ phase = [r \in Requests |-> "idle"]
    /\ gen = [r \in Requests |-> "none"]
    /\ upstream = [r \in Requests |-> "none"]
    /\ item = [r \in Requests |-> "none"]
    /\ expired = [r \in Requests |-> FALSE]
    /\ pulled = [r \in Requests |-> 0]
    /\ reported = [r \in Requests |-> 0]
    /\ usage = [r \in Requests |-> 0]
    /\ state = [r \in Requests |-> NoState]
    /\ resp = [r \in Requests |-> 0]
    /\ seen = [r \in Requests |-> "none"]
    /\ cut = [r \in Requests |-> "no"]
    /\ audit = [r \in Requests |-> NoAudit]

(***************************************************************************)
(* The handler, up to its response                                         *)
(***************************************************************************)
\* An APIError reaches api_error_handler: error_type is set on the request
\* and the response is a JSON error.
AnswerError(r, e) ==
    /\ phase' = [phase EXCEPT ![r] = "over"]
    /\ state' = [state EXCEPT ![r].error = e.type]
    /\ resp' = [resp EXCEPT ![r] = e.status]
    /\ seen' = [seen EXCEPT ![r] = "json"]

\* An answer that leaves request.state alone.
AnswerUntyped(r, s) ==
    /\ phase' = [phase EXCEPT ![r] = "over"]
    /\ resp' = [resp EXCEPT ![r] = s]
    /\ seen' = [seen EXCEPT ![r] = "json"]
    /\ UNCHANGED state

\* Any other exception: the request-id middleware finalises the request as
\* it passes, before unhandled_error_handler (outside it) sets error_type.
AnswerCrash(r) == AnswerUntyped(r, 500)

\* Refused before the provider is chosen.
Reject(r, e) ==
    /\ phase[r] = "idle"
    /\ AnswerError(r, e)
    /\ UNCHANGED <<limiterVars, genVars, expired, cut, audit>>

\* A middleware answers, or a dependency crashes (Redis or the database).
Intercept(r) ==
    /\ phase[r] = "idle"
    /\ AnswerCrash(r) \/ \E s \in InterceptStatuses : AnswerUntyped(r, s)
    /\ UNCHANGED <<limiterVars, genVars, expired, cut, audit>>

\* A request without "stream": await provider.chat.
StartCall(r) ==
    /\ phase[r] = "idle"
    /\ phase' = [phase EXCEPT ![r] = "calling"]
    /\ UNCHANGED <<limiterVars, genVars, expired, state, resp, seen, cut, audit>>

CallReturns(r) ==
    /\ phase[r] = "calling"
    /\ phase' = [phase EXCEPT ![r] = "over"]
    /\ pulled' = [pulled EXCEPT ![r] = 1]
    /\ reported' = [reported EXCEPT ![r] = 1]
    /\ state' = [state EXCEPT ![r].usage = 1]
    /\ resp' = [resp EXCEPT ![r] = 200]
    /\ seen' = [seen EXCEPT ![r] = "json"]
    /\ UNCHANGED <<limiterVars, gen, upstream, item, usage, expired, cut, audit>>

CallFails(r) ==
    /\ phase[r] = "calling"
    /\ \/ \E e \in ProviderErrors \union {NotConfigured} : AnswerError(r, e)
       \/ AnswerCrash(r)
    /\ UNCHANGED <<limiterVars, genVars, expired, cut, audit>>

\* acquire returned None: RateLimitError("Too many concurrent streams").
RejectStream(r) ==
    /\ phase[r] = "idle"
    /\ Limiter!Refuse(r, leaseKey[r])
    /\ AnswerError(r, TooManyStreams)
    /\ UNCHANGED <<genVars, expired, cut, audit>>

\* The lease is taken, the deadline set and the first chunk awaited.
StartStream(r) ==
    /\ phase[r] = "idle"
    /\ Limiter!Acquire(r, leaseKey[r])
    /\ phase' = [phase EXCEPT ![r] = "first"]
    /\ upstream' = [upstream EXCEPT ![r] = "open"]
    /\ UNCHANGED <<gen, item, pulled, reported, usage,
                   expired, state, resp, seen, cut, audit>>

\* The provider yields chunk number pulled + 1, with or without usage.
Yields(r, i) ==
    /\ pulled[r] < MaxChunks
    /\ pulled' = [pulled EXCEPT ![r] = @ + 1]
    /\ reported' = [reported EXCEPT ![r] = IF i = "usage" THEN pulled[r] + 1 ELSE @]

FirstChunk(r, i) ==
    /\ phase[r] = "first"
    /\ Yields(r, i)
    /\ item' = [item EXCEPT ![r] = i]
    /\ phase' = [phase EXCEPT ![r] = "streaming"]
    /\ gen' = [gen EXCEPT ![r] = "created"]
    /\ resp' = [resp EXCEPT ![r] = 200]
    /\ UNCHANGED <<limiterVars, upstream, usage, expired, state, seen, cut, audit>>

\* StopAsyncIteration: first_chunk = None.
FirstEnd(r) ==
    /\ phase[r] = "first"
    /\ phase' = [phase EXCEPT ![r] = "streaming"]
    /\ gen' = [gen EXCEPT ![r] = "created"]
    /\ upstream' = [upstream EXCEPT ![r] = "closed"]
    /\ resp' = [resp EXCEPT ![r] = 200]
    /\ UNCHANGED <<limiterVars, item, pulled, reported, usage,
                   expired, state, seen, cut, audit>>

\* TimeoutError (wait_for has cancelled and so ended the provider's stream):
\* the slot goes back before the 504 response is returned.
FirstTimeout(r) ==
    /\ phase[r] = "first"
    /\ expired[r]
    /\ Limiter!Release(r)
    /\ phase' = [phase EXCEPT ![r] = "streaming"]
    /\ gen' = [gen EXCEPT ![r] = "timeout_only"]
    /\ upstream' = [upstream EXCEPT ![r] = "closed"]
    /\ resp' = [resp EXCEPT ![r] = 504]
    /\ UNCHANGED <<item, pulled, reported, usage, expired, state, seen, cut, audit>>

FirstFailsKeepsLease(r) ==
    /\ phase[r] = "first"
    /\ \/ \E e \in ProviderErrors \union {NotConfigured} : AnswerError(r, e)
       \/ AnswerCrash(r)
    /\ upstream' = [upstream EXCEPT ![r] = "closed"]
    /\ UNCHANGED <<limiterVars, gen, item, pulled, reported, usage, expired, cut, audit>>
\* except Exception: close, release, raise.
FirstFails(r) ==
    /\ phase[r] = "first"
    /\ Limiter!Release(r)
    /\ \/ \E e \in ProviderErrors \union {NotConfigured} : AnswerError(r, e)
       \/ AnswerCrash(r)
    /\ upstream' = [upstream EXCEPT ![r] = "closed"]
    /\ UNCHANGED <<gen, item, pulled, reported, usage, expired, cut, audit>>

(***************************************************************************)
(* _stream_chunks and _stream_timeout_only                                 *)
(***************************************************************************)
\* Set request.state for a failed stream and yield the error event.
YieldError(r, e, i) ==
    /\ state' = [state EXCEPT ![r].error = e.type, ![r].status = e.status]
    /\ item' = [item EXCEPT ![r] = i]
    /\ gen' = [gen EXCEPT ![r] = "yielding"]

ToSseForgetful(r, i, n) ==
    usage' = [usage EXCEPT ![r] = IF i = "usage" THEN n ELSE 0]
\* to_sse: remember the usage of chunk number n, if it carries one.
ToSse(r, i, n) ==
    usage' = [usage EXCEPT ![r] = IF i = "usage" THEN n ELSE @]

\* to_sse raises, after it has remembered the usage or before: except
\* Exception, with the provider's stream still open.
ToSseFails(r, i, n) ==
    /\ ToSse(r, i, n) \/ UNCHANGED usage
    /\ YieldError(r, ServerError, "error")

\* The top of the loop: _next_chunk_with_deadline raises TimeoutError at once
\* when the deadline has passed, without touching the provider's stream.
NextChunk(r) ==
    IF expired[r]
    THEN YieldError(r, StreamTimeout, "timeout")
    ELSE /\ gen' = [gen EXCEPT ![r] = "pulling"]
         /\ item' = [item EXCEPT ![r] = "none"]
         /\ UNCHANGED state

\* The server starts the body: the first chunk, if there is one, is yielded
\* without another look at the deadline, or to_sse fails on it.
StartBody(r) ==
    /\ phase[r] = "streaming"
    /\ \/ /\ gen[r] = "timeout_only"
          /\ YieldError(r, StreamTimeout, "timeout")
          /\ UNCHANGED usage
       \/ /\ gen[r] = "created"
          /\ item[r] = "none"
          /\ NextChunk(r)
          /\ UNCHANGED usage
       \/ /\ gen[r] = "created"
          /\ item[r] \in Chunks
          /\ gen' = [gen EXCEPT ![r] = "yielding"]
          /\ ToSse(r, item[r], pulled[r])
          /\ UNCHANGED <<item, state>>
       \/ /\ gen[r] = "created"
          /\ item[r] \in Chunks
          /\ ToSseFails(r, item[r], pulled[r])
    /\ UNCHANGED <<limiterVars, phase, upstream, pulled, reported, expired,
                   resp, seen, cut, audit>>

\* The client has taken a chunk; the generator resumes after the yield.
DeliverChunk(r) ==
    /\ gen[r] = "yielding"
    /\ item[r] \in Chunks
    /\ NextChunk(r)
    /\ UNCHANGED <<limiterVars, phase, upstream, pulled, reported, usage,
                   expired, resp, seen, cut, audit>>

\* The generator is over: the server completes the response.
EndBody(r) ==
    /\ gen' = [gen EXCEPT ![r] = "closed"]
    /\ phase' = [phase EXCEPT ![r] = "over"]

FinallyReleasesFirst(r) ==
    /\ Limiter!Release(r)
    /\ IF upstream[r] = "open"
       THEN gen' = [gen EXCEPT ![r] = "closing"] /\ UNCHANGED phase
       ELSE EndBody(r)
FinallyNoRelease(r) ==
    /\ UNCHANGED limiterVars
    /\ IF upstream[r] = "open"
       THEN gen' = [gen EXCEPT ![r] = "closing"] /\ UNCHANGED phase
       ELSE EndBody(r)
\* The finally clause: aclose of a stream that has ended returns at once and
\* the lease is released in the same step; of one still open it suspends.
\* _stream_timeout_only has no finally; its lease was released before.
Finally(r) ==
    IF upstream[r] = "open"
    THEN /\ gen' = [gen EXCEPT ![r] = "closing"]
         /\ UNCHANGED <<limiterVars, phase>>
    ELSE /\ Limiter!Release(r)
         /\ EndBody(r)

DeliverLastLoops(r) ==
    /\ gen[r] = "yielding"
    /\ item[r] \in LastItems
    /\ seen' = [seen EXCEPT ![r] = item[r]]
    /\ IF item[r] = "timeout" /\ upstream[r] = "open"
       THEN gen' = [gen EXCEPT ![r] = "pulling"] /\ UNCHANGED <<limiterVars, phase>>
       ELSE Finally(r)
    /\ UNCHANGED <<upstream, item, pulled, reported, usage, expired,
                   state, resp, cut, audit>>
\* The client has taken the event that ends the stream.
DeliverLast(r) ==
    /\ gen[r] = "yielding"
    /\ item[r] \in LastItems
    /\ seen' = [seen EXCEPT ![r] = item[r]]
    /\ Finally(r)
    /\ UNCHANGED <<upstream, item, pulled, reported, usage, expired,
                   state, resp, cut, audit>>

PullChunk(r, i) ==
    /\ gen[r] = "pulling"
    /\ upstream[r] = "open"
    /\ Yields(r, i)
    /\ ToSse(r, i, pulled[r] + 1)
    /\ item' = [item EXCEPT ![r] = i]
    /\ gen' = [gen EXCEPT ![r] = "yielding"]
    /\ UNCHANGED <<limiterVars, phase, upstream, expired, state, resp, seen, cut, audit>>

\* A chunk comes and to_sse fails on it.
PullUnformatted(r, i) ==
    /\ gen[r] = "pulling"
    /\ upstream[r] = "open"
    /\ Yields(r, i)
    /\ ToSseFails(r, i, pulled[r] + 1)
    /\ UNCHANGED <<limiterVars, phase, upstream, expired, resp, seen, cut, audit>>

\* StopAsyncIteration: the usage is recorded, then [DONE] is yielded.  A
\* stream that was exhausted before the body began can only end again.
PullEnd(r) ==
    /\ gen[r] = "pulling"
    /\ state' = [state EXCEPT ![r].usage = usage[r]]
    /\ gen' = [gen EXCEPT ![r] = "yielding"]
    /\ item' = [item EXCEPT ![r] = "done"]
    /\ upstream' = [upstream EXCEPT ![r] = "closed"]
    /\ UNCHANGED <<limiterVars, phase, pulled, reported, usage, expired,
                   resp, seen, cut, audit>>

PullTimeoutMissing(r) ==
    /\ gen[r] = "pulling"
    /\ FALSE
    /\ UNCHANGED vars
\* wait_for gives up at the deadline and cancels the provider's stream.  A
\* chunk that arrives with the timeout may win or lose.
PullTimeout(r) ==
    /\ gen[r] = "pulling"
    /\ upstream[r] = "open"
    /\ expired[r]
    /\ YieldError(r, StreamTimeout, "timeout")
    /\ upstream' = [upstream EXCEPT ![r] = "closed"]
    /\ UNCHANGED <<limiterVars, phase, pulled, reported, usage, expired,
                   resp, seen, cut, audit>>

\* The provider's stream raises: an APIError, or anything else.
PullFails(r) ==
    /\ gen[r] = "pulling"
    /\ upstream[r] = "open"
    /\ \E e \in ProviderErrors \union {ServerError} : YieldError(r, e, "error")
    /\ upstream' = [upstream EXCEPT ![r] = "closed"]
    /\ UNCHANGED <<limiterVars, phase, pulled, reported, usage, expired,
                   resp, seen, cut, audit>>

\* aclose has returned (its exceptions are suppressed); the lease goes back.
CloseUpstream(r) ==
    /\ gen[r] = "closing"
    /\ upstream' = [upstream EXCEPT ![r] = "closed"]
    /\ Limiter!Release(r)
    /\ EndBody(r)
    /\ UNCHANGED <<item, pulled, reported, usage, expired, state, resp, seen, cut, audit>>

(***************************************************************************)
(* The clock, the client and the interpreter                               *)
(***************************************************************************)
Expire(r) ==
    /\ phase[r] \in {"first", "streaming"}
    /\ ~expired[r]
    /\ expired' = [expired EXCEPT ![r] = TRUE]
    /\ UNCHANGED <<limiterVars, phase, genVars, state, resp, seen, cut, audit>>

\* The client goes away and the server cancels the response task.
\*  - pulling: CancelledError ends the provider's stream, then the finally
\*    clause runs: aclose and release have nothing left to wait for;
\*  - yielding: the task is waiting to send, not in the generator, which is
\*    abandoned at its yield;
\*  - closing: CancelledError is raised in aclose; contextlib.suppress
\*    (Exception) lets it through and the release after it is skipped.
Disconnect(r) ==
    /\ phase[r] = "streaming"
    /\ phase' = [phase EXCEPT ![r] = "over"]
    /\ cut' = [cut EXCEPT ![r] = gen[r]]
    /\ \/ /\ gen[r] = "pulling"
          /\ gen' = [gen EXCEPT ![r] = "closed"]
          /\ upstream' = [upstream EXCEPT ![r] = "closed"]
          /\ Limiter!Release(r)
       \/ /\ gen[r] = "yielding"
          /\ gen' = [gen EXCEPT ![r] = "abandoned"]
          /\ UNCHANGED <<upstream, limiterVars>>
       \/ /\ gen[r] = "closing"
          /\ gen' = [gen EXCEPT ![r] = "closed"]
          /\ upstream' = [upstream EXCEPT ![r] = "closed"]
          /\ UNCHANGED limiterVars
    /\ UNCHANGED <<item, pulled, reported, usage, expired, state, resp, seen, audit>>

\* An abandoned generator is finalised: its aclose raises GeneratorExit at
\* the yield and the finally clause runs in a task of its own.
FinalizeGen(r) ==
    /\ gen[r] = "abandoned"
    /\ gen' = [gen EXCEPT ![r] = "closed"]
    /\ upstream' = [upstream EXCEPT ![r] = "closed"]
    /\ Limiter!Release(r)
    /\ UNCHANGED <<phase, item, pulled, reported, usage, expired,
                   state, resp, seen, cut, audit>>

(***************************************************************************)
(* The request-id middleware                                               *)
(***************************************************************************)
FinalizeWithResponseStatus(r) ==
    /\ phase[r] = "over"
    /\ phase' = [phase EXCEPT ![r] = "audited"]
    /\ audit' = [audit EXCEPT ![r] =
                    [status |-> resp[r], error |-> state[r].error, usage |-> state[r].usage]]
    /\ UNCHANGED <<limiterVars, genVars, expired, state, resp, seen, cut>>
\* finalize, once, when the body iterator is exhausted or torn down: the
\* status is audit_status_code if a stream set it, else the response's.
Finalize(r) ==
    /\ phase[r] = "over"
    /\ phase' = [phase EXCEPT ![r] = "audited"]
    /\ audit' = [audit EXCEPT ![r] =
                    [status |-> IF state[r].status # 0 THEN state[r].status ELSE resp[r],
                     error |-> state[r].error,
                     usage |-> state[r].usage]]
    /\ UNCHANGED <<limiterVars, genVars, expired, state, resp, seen, cut>>

-----------------------------------------------------------------------------
\* What the request's own task, the provider and the clock do.
FirstStep(r) ==
    \/ \E i \in Chunks : FirstChunk(r, i)
    \/ FirstEnd(r) \/ FirstTimeout(r) \/ FirstFails(r)

Pull(r) ==
    \/ \E i \in Chunks : PullChunk(r, i) \/ PullUnformatted(r, i)
    \/ PullEnd(r) \/ PullTimeout(r) \/ PullFails(r)

Call(r) == CallReturns(r) \/ CallFails(r)
Deliver(r) == DeliverChunk(r) \/ DeliverLast(r)

Arrive(r) ==
    \/ \E e \in EarlyErrors : Reject(r, e)
    \/ Intercept(r) \/ StartCall(r) \/ RejectStream(r) \/ StartStream(r)

Next ==
    \E r \in Requests :
        \/ Arrive(r) \/ Call(r) \/ FirstStep(r)
        \/ StartBody(r) \/ Deliver(r) \/ Pull(r) \/ CloseUpstream(r)
        \/ Expire(r) \/ Disconnect(r) \/ FinalizeGen(r) \/ Finalize(r)

Spec == Init /\ [][Next]_vars

(***************************************************************************)
(* Fairness.  The event loop runs every ready task, timers fire (Expire,   *)
(* and with it the two timeouts), the provider's SDK has its own timeout   *)
(* for a plain call, an exhausted stream ends at once, aclose ends and     *)
(* abandoned generators are finalised.                                     *)
(* Nothing makes a client read, and nothing makes a request arrive.        *)
(***************************************************************************)
ServerFairness ==
    \A r \in Requests :
        /\ WF_vars(Call(r))
        /\ WF_vars(Expire(r))
        /\ WF_vars(FirstTimeout(r))
        /\ WF_vars(StartBody(r))
        /\ WF_vars(PullTimeout(r))
        /\ WF_vars(upstream[r] = "closed" /\ PullEnd(r))
        /\ WF_vars(CloseUpstream(r))
        /\ WF_vars(FinalizeGen(r))
        /\ WF_vars(Finalize(r))

\* A client that is being sent something reads it, or its connection ends.
\* One that waits for the provider need not go away.
ClientFairness ==
    \A r \in Requests :
        WF_vars(Deliver(r) \/ (gen[r] = "yielding" /\ Disconnect(r)))

ServerSpec == Spec /\ ServerFairness
FairSpec == Spec /\ ServerFairness /\ ClientFairness

-----------------------------------------------------------------------------
(***************************************************************************)
(* Properties                                                              *)
(***************************************************************************)
\* The values of a chat request's state, its generator's and its record's.
TypeOK ==
    /\ Limiter!TypeOK
    /\ phase \in [Requests -> {"idle", "calling", "first", "streaming", "over", "audited"}]
    /\ gen \in [Requests -> {"none", "created", "timeout_only", "pulling", "yielding",
                             "closing", "abandoned", "closed"}]
    /\ upstream \in [Requests -> {"none", "open", "closed"}]
    /\ item \in [Requests -> {"none"} \union Chunks \union LastItems]
    /\ expired \in [Requests -> BOOLEAN]
    /\ pulled \in [Requests -> Nat]
    /\ reported \in [Requests -> Nat]
    /\ usage \in [Requests -> Nat]
    /\ state \in [Requests -> [error : ErrorTypes, status : Nat, usage : Nat]]
    /\ resp \in [Requests -> Nat]
    /\ seen \in [Requests -> {"none", "json"} \union LastItems]
    /\ cut \in [Requests -> {"no", "pulling", "yielding", "closing"}]
    /\ audit \in [Requests -> [status : Nat, error : ErrorTypes, usage : Nat]]

Holding(r) == leaseState[r] = "held"
Running(r) == gen[r] \in {"created", "pulling", "yielding", "closing", "abandoned"}

\* Every path of create_chat_completion and _stream_chunks gives its lease
\* back: one is held only while the first chunk is awaited or a generator
\* that will still run its finally clause exists.  The one exception is a
\* client that disconnects while the finally clause awaits aclose.
LeaseOwned ==
    \A r \in Requests :
        Holding(r) => \/ phase[r] = "first"
                      \/ Running(r)
                      \/ cut[r] = "closing"

\* docs/HANDOFF.md: on every failure path of a stream the lease is released.
\* Said without the exception of LeaseOwned: a finished response holds none.
LeaseReleaseGuaranteed ==
    \A r \in Requests :
        Holding(r) => phase[r] = "first" \/ Running(r)

\* The limit on streams is a limit on provider connections: a slot is never
\* given back while the provider's stream it paid for is still open (the
\* order of the two awaits in the finally clause and in the handler).
UpstreamWithinQuota ==
    /\ \A r \in Requests : upstream[r] = "open" => Holding(r)
    /\ \A k \in Keys :
        Cardinality({r \in Requests : leaseKey[r] = k /\ upstream[r] = "open"}) <= MaxStreams

\* The audit record tells what the client was told: a stream that ended with
\* [DONE] is a 200 with the last usage the provider reported, one that ended
\* with the timeout event is a 504, one that ended with an error event or a
\* JSON error has an error status, although the head said 200.
AuditMatchesClient ==
    \A r \in Requests : phase[r] = "audited" =>
        LET a == audit[r] IN
        /\ seen[r] = "done" => a = [status |-> 200, error |-> "none", usage |-> reported[r]]
        /\ seen[r] = "timeout" => a = [status |-> 504, error |-> "stream_timeout", usage |-> 0]
        /\ seen[r] = "error" => a.status \in 400..599 /\ a.error # "none" /\ a.usage = 0
        /\ seen[r] = "json" => a.status = resp[r] /\ a.usage = reported[r]

\* A failure is never filed as a success: a record with status 200 has no
\* error and is of a response the client received whole, or of a client that
\* went away; a stream's record without an error is a 200; no record shows
\* an upstream 401 or 403 as the caller's own.
NoSilentSuccess ==
    \A r \in Requests : phase[r] = "audited" =>
        LET a == audit[r] IN
        /\ a.status = 200 =>
               a.error = "none" /\ (seen[r] \in {"done", "json"} \/ cut[r] # "no")
        /\ a.error = "none" => a.status = 200 \/ seen[r] = "json"
        /\ a.error = "provider_error" => a.status = 502

\* After the event that ends a stream nothing more is pulled or sent, and
\* the record, once written, is final.
NothingAfterLast ==
    [][\A r \in Requests :
        /\ seen[r] # "none" => seen'[r] = seen[r] /\ pulled'[r] = pulled[r]
        /\ phase[r] = "audited" => audit'[r] = audit[r]]_vars

\* Every request that arrives is audited in the end, whatever the provider
\* does, if its client reads or disconnects.
EveryRequestAudited ==
    \A r \in Requests : phase[r] # "idle" ~> phase[r] = "audited"

\* Every slot comes back, so a full key accepts streams again, if the client
\* reads or disconnects (the exception is the one of LeaseOwned).
EveryLeaseReturned ==
    \A r \in Requests : Holding(r) ~> ~Holding(r) \/ cut[r] = "closing"

\* README.md: STREAM_MAX_DURATION_SECONDS is the maximum duration of a
\* streaming response.  Once the deadline has passed the stream ends and its
\* slot comes back (the exception is the one of LeaseOwned).
StreamDurationBounded ==
    \A r \in Requests : expired[r] ~> ~Holding(r) \/ cut[r] = "closing"
=============================================================================
