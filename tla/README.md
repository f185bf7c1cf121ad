# TLA+ models of the AI serving backend

This project models the parts of `src/app` where a wrong interleaving, a failure in the
middle of an operation or a crash would break what the service promises, checks them with
TLC and proves the most important invariants with TLAPS for every size of the system.

## 1. The system

An OpenAI-compatible gateway (FastAPI, one asyncio event loop per worker process). A request
passes the request-id middleware, the pre-auth limiter, the body-size limit and the trusted
host check, is authenticated and rate limited by dependencies, is screened (content policy,
PII masking), and is forwarded to a provider. The answer is one JSON document or a
server-sent-event stream. When the body has been sent an audit record is written.

| Component | State | Operations | Interacts with |
|---|---|---|---|
| Stream limiter (`streaming.py`) | two dictionaries, key to semaphore and key to active count; a `_released` flag per lease | `acquire`, `release` | chat endpoint; one instance per process, shared by all requests |
| Chat endpoint (`routers/chat.py`) | per request: lease, deadline, provider stream, generator, last usage | handler, `_stream_chunks`, `_stream_timeout_only`, `_close_upstream_stream` | limiter, provider, `request.state` read by the middleware |
| Errors (`errors.py`) | `request.state.error_type` | exception handlers, upstream status mapping | all handlers |
| Audit recording (`observability.py`) | `finalized` flag, pending tasks | `finalize`, `_schedule_audit_log`, `_insert_audit_log`, `_write_audit_fallback` | body iterator, database, fallback file, lifespan |
| Audit replay (`routers/admin.py`, `audit_fallback.py`) | fallback file, `.replay-*` snapshots, `.failed` file | `replay_audit_fallback`, `_append_audit_quarantine` | concurrent appends and replays, database |
| Lifespan (`main.py`) | engine, task sets | start, drain, stop | audit tasks |
| Rate limits (`ratelimit/`) | a token bucket per key, in memory or in Redis | `allow`, `preview` | chat dependency, pre-auth middleware, several workers |
| Middleware (`middleware.py`, `net.py`) | bytes received | pre-auth preview and charge, body limit, client address | rate limits |
| Authentication (`auth.py`, `auth_jwt.py`) | environment keys, key rows, `last_used_at` | `resolve`, `require_api_key`, `require_scope` | database |
| Admin (`routers/admin.py`) | organisations, keys, audit rows | create, revoke, list, usage, audit pages | database, authentication |
| Compliance (`compliance/`) | compiled rules, placeholder tables | `scan_messages`, `mask_messages` | chat endpoint, audit |
| Providers (`providers/`) | SDK client | `chat`, `chat_stream` | external APIs |
| Others | - | pricing, schemas, configuration, health, models list, smoke script | - |

What makes each component correct, and what is hard about it:

* **Stream limiter** - a key never runs more than its limit of streams and is refused only at
  the limit; the two dictionaries agree; idle keys are dropped, streaming ones are not.
  Hard: repeated releases, clean-up of the last lease against new acquires.
* **Chat endpoint** - every slot comes back on every path; a provider stream is open only
  while its slot is held; what the client was told and what the record says agree, although
  the HTTP status is sent before the outcome is known. Hard: cancellation at any await,
  the deadline racing the provider, clients that go away or do not read.
* **Audit trail** - a record is neither lost nor doubled through database failures, replays,
  shutdown and crash. Hard: replay concurrent with appends and other replays, cancellation
  between commit and bookkeeping, a commit whose answer is lost.
* **Rate limits** - over any window no more than capacity plus refill is granted; preview
  takes nothing. Hard: boundaries, clocks of several workers, preview and charge apart.
* **Pre-auth limiter and client address** - a failed login is charged to the address it came
  from, and tries beyond the tokens are bounded. Hard: preview and charge are two calls with
  the whole request between them; clients write `X-Forwarded-For` themselves.
* **Authentication and admin** - once its revocation is answered a key opens nothing; however
  keys make keys, an organisation's authority stays in it and never becomes `super_admin`; an
  outage refuses only whom it must. Hard: requests in flight while a key is revoked, commits
  that fail or only seem to, scope lists that are joined and split at commas.
* **Compliance** - a message goes out unchanged but for the accepted spans; over a request
  equal values, and only they, get equal placeholders. Hard: overlapping matches of different
  detectors, placeholders of another length than what they replace, tables shared by messages.

`PROJECT.json` lists every hazard with its line in the source.

## 2. Modules

| Module | Models | Notes |
|---|---|---|
| `StreamQuota` | what the limiter promises | abstract; no counter, no semaphore |
| `StreamLimiter` | `streaming.py` | implements `StreamQuota` |
| `StreamLimiter_proofs` | theorems | |
| `ChatStream` | `routers/chat.py`, the outcome part of `errors.py` and `observability.py` | composes `StreamLimiter` (one lease per request) |
| `ChatStream_proofs` | theorems | instantiates `StreamLimiter_proofs` and reuses its theorems |
| `AuditTrail` | `observability.py` from the scheduling on, `audit_fallback.py`, the replay endpoint, the lifespan | |
| `AuditTrail_proofs` | theorems | |
| `BucketParams` | limit, window and scale of `ratelimit/` | shared by the three below |
| `TokenBucket`, `TokenBucket_proofs` | what a rate limit promises one caller | abstract; refilled at every tick |
| `MemoryBucket` | `ratelimit/memory.py`, `Retry-After` of `ratelimit/base.py` | implements `TokenBucket`; its theorems are in `PreAuth_proofs` |
| `RedisBucket`, `RedisBucket_proofs` | `ratelimit/redis.py` | several workers, late timestamps, key expiry |
| `ClientAddress` | `net.py` | operators only |
| `PreAuth`, `PreAuth_proofs` | `PreAuthRateLimitMiddleware` of `middleware.py` | composes `MemoryBucket` and `ClientAddress`; proves both |
| `Keys`, `Keys_proofs` | `auth.py`, `auth_jwt.py`, the organisation and key endpoints and the reach of the queries in `routers/admin.py`, two tables of `db/models.py` | |
| `PiiMask`, `PiiMask_proofs` | `mask_messages` of `compliance/pii.py` | |
| `MC...` | instances for TLC | symmetry only where no liveness is checked |

Definitions called `...Missing`, `...Forgetful`, `...KeepsLease` and so on, placed directly
before the definition they resemble, are variants with a plausible mistake. No specification
uses them; each shows that a property would notice that mistake.

### StreamLimiter

`semaphores[k]` is the number of permits left, `Absent` when the key is not in `_semaphores`;
`active[k]` is the count, 0 when absent; `leaseState` is what became of a call of `acquire`.
`Acquire`, `Refuse` and `Release` are whole calls: both methods hold one `asyncio.Lock` and
never suspend while they hold it (`semaphore.acquire` is called only when it is not locked),
so a call is one step. `Release` keeps the early returns (`Unaccounted`), which the proofs show are
never taken for a held lease.

### ChatStream

An action is what a request does between two suspensions.

* `phase`: `idle` - `calling` (plain call) or `first` (slot taken, first chunk awaited) -
  `streaming` - `over` (response ended) - `audited`.
* `gen`: the body generator: `created`, `timeout_only` (`_stream_timeout_only`), `pulling`
  (awaiting the provider), `yielding` (waiting for the client), `closing` (awaiting `aclose`
  in the finally clause), `abandoned`, `closed`.
* `upstream`: the provider's stream; `item`: the event being yielded; `usage`: the local
  `token_usage`, as the number of the chunk that carried it; `state`: `error_type`,
  `audit_status_code` and `token_usage` of `request.state`; `resp`, `seen`: what the client
  got; `audit`: the record; `cut`: where the generator was at a disconnect.

`Reject` is every refusal raised before the provider is chosen, `Intercept` the answers of
the inner middlewares, which set no `error_type`. An exception outside `APIError` reaches
`unhandled_error_handler`, which is outside the request-id middleware: the record is made
before it runs (`AnswerCrash`). `to_sse` may raise on a chunk, the first (`StartBody`) or a
later one (`PullUnformatted`): that is `except Exception` with the provider's stream still
open, while an error of the stream itself ends it (`PullFails`).

External behaviour, taken from how the code uses it. A provider's stream yields, ends,
raises or is slow, and is over after the first three of end, error and cancellation; `aclose`
of a stream that is still open may suspend. The server starts the body right after the head,
so a disconnect is heard only once the generator runs. A disconnect cancels the response
task: in `pulling` the finally clause runs through; in `yielding` the task waits in `send`,
outside the generator, which is left to the event loop's finaliser of asynchronous
generators (`FinalizeGen`); in `closing` the cancellation is raised in `aclose`.

### AuditTrail

A record is named by its request. `phase` follows it from the sent body (`sent`) through the
insert (`inserting`) to `done`, or to `unscheduled` when scheduling raises and only a log
line is left (`ScheduleFails`). The client has the head and every chunk by `sent`;
`AUDIT_SYNC` only decides whether the body iterator ends before or after the insert.
`fallback`, `failed` and `snapshot[p]` are the files; `todo` and `bad` are the replay call's
`lines[next_line_index:]` and `quarantine_lines`. A commit returns, raises with no effect,
or raises after it took effect (`misreported`). `unwritten` and `unread` name the records
lost because the fallback write raised or the snapshot could not be read. `Crash` may come
between any two steps; transactions under way may have committed. The quarantine write and
the unlink are two steps only so that a crash can separate them.

A shutdown has three parts. While the process is `draining`, requests under way go on
(`Serving`) and start tasks. `Gather` is the lifespan's exit taking `list(audit_tasks)`, once, into
`gathered`; the server runs it when no request is open. `Stop` waits for the tasks of that list
and for no other; whatever else is still pending is cancelled with the event loop, and since
`CancelledError` passes the `except` of `_insert_audit_log` it has no fallback line
(`abandoned`). That nothing ever is, is `StopAbandonsNothing`.

Audit is enabled (`_schedule_audit_log` does nothing otherwise). That a server with a
graceful-shutdown timeout, or a second signal, cancels requests under way is a `Crash` here:
nothing under `src/` sets such a timeout. One process is modelled; a second process appending
between `open` and `write` of the same file while the first renames it is not.

### Rate limit buckets

One key's bucket: keys share nothing but a lock. A token is `Window` units and a tick of the
clock brings `Capacity` units, so that `capacity / 60` per second needs no fractions; the
rounding of floats is left out, and a limit of 0, which switches the limiter off. Both
backends read or are given the time in the step that decides: `MemoryBucket`'s calls hold the
lock and await nothing, `RedisBucket`'s are one Lua script. `granted` and `before` are history:
how many calls were let through so far, and before each tick.

`TokenBucket` is refilled at every tick. `MemoryBucket` keeps `tokens` and `updatedAt` and
refills when a call looks; its refinement mapping is `level <- Refilled`, what the bucket
would hold if it were looked at now. `Preview` writes the refill back, as the code does, and
creates no bucket.

A `RedisBucket` script carries the timestamp its worker read before sending it: `Stamps` are
the times up to `MaxLag` before the fastest clock, which covers both a call on the wire and a
clock that is behind. `rewinds` counts the scripts that set `ts` back. `Tick` drops the key at
its expiry. A call that cannot reach Redis raises and changes nothing.

### PreAuth and ClientAddress

`PreAuth` extends `MemoryBucket` with the requests around one address's bucket. `Arrive` is
`dispatch` up to `call_next` (client address, `preview`, perhaps 429), `Charge` what follows a
401 (`allow`, perhaps 429 instead), `Pass` any other end. `preview` and `allow` await nothing, so
each is one step with the code around it; between the two the request is `inside`, and any
number of others come and go. Requests of other addresses share nothing with this bucket.

A request comes from an address with `X-Forwarded-For` lines of the client's own making,
directly or through proxies (`Hops`). Each proxy records the address that called it, and
does so in one of the two ways proxies do: it joins the lines it was sent into one and
appends to that, or it adds a line and leaves the others as they are (`Header`). `client_ip`
reads the first line only (`FirstLine`, `headers.get`). `origin` keeps where a request came
from, `key` is what `client_ip` made of it, and `masked` are the requests whose first line
is still what the client wrote, because it sent one and no proxy joined. A line's entries
are addresses or text that `ip_address` rejects; a trusted network is the set of its
addresses. When a request is over its local variables are gone (`Leave`). `exposed` are the
requests since whose preview another one took a token, `overrun` counts the 401s for which
the bucket had no token left.

### Keys

`orgs` and `keys` are the tables, `requests[r]` what a connection is doing: `lookup` (the SELECT
of `resolve`), `touch` (the commit of `last_used_at`), `jwt` (the organisation query of
`_build_jwt_principal`), `handler`. Every await of the database is a step that may raise; a
commit may take effect and raise all the same. `resolve` catches what its two calls raise and
goes on to the environment's keys (`LookupFails`, `TouchFails`); in handlers nothing catches
it (`QueryFails`). The read and the commit of one admin handler are one step: what they read
never changes afterwards, and the ORM writes only assigned columns, which is also why the
commit of `last_used_at` does not touch `revoked_at`.

Stored scopes are the items of the joined column, an item being the set of scopes its text
names, so that an item with a comma in it is told apart from two items and what `_parse_scopes` makes of
the column can differ from what `create_api_key` checked. `Scopes` is what the text of a scope
may be, any set with the three the code knows.

History: `root[k]` is the authority a key descends from, `acknowledged` the keys whose
revocation was answered 200, and in a request `late` (it arrived after that), `failed` (a
database call of its own failed) and `shown` (organisations whose rows the answer held). A
committed key whose answer was lost has a token nobody was given; that such keys are used
too makes the model slightly larger than the service. The database is configured; without
one only the environment's keys exist.

### PiiMask

A text is a sequence of symbols and a placeholder is one symbol, so a replacement changes
the length of what follows, as in the code. A text that itself looks like a placeholder is
not modelled: texts are made of other symbols. A detector is a regular expression with a
check; what it finds is any set of disjoint spans (`Detections`), so everything said here
holds whatever the expressions are.

A step is one turn of one loop. `TakeNext` is the loop of `mask_messages`; `Collect` is
`_collect_candidates` for one type (the spans of one type do not overlap each other, so they
are taken together); `Number` and `Replace` are the two loops of `_apply_mask`, from the left
and from the right; `ApplyMask`, `Numbered` and `Masked` are what stands between them. With no
candidates the loops take no turn and the text goes out as it is, as in the code's shortcut.

The properties say what the result must be, not how it is made. `Readings(m)` are the ways to
read a masked text: its symbols stand for consecutive pieces of the text, symbol `p` for the
one that ends at `ends[p]`, and each is either the text's own symbol outside all accepted spans
or a placeholder for exactly one of them. `MaskedExactly`: there is such a reading.
`Coreference`: in it, placeholders are equal exactly when the values they stand for are.

## 3. Runs

| Run | Instance | Shows |
|---|---|---|
| `limiter` | 2 keys, 4 leases, 2 slots | accounting, clean-up, quota, refinement |
| `chat` | 2 requests, 1 key, 1 slot, 2 chunks, upstream statuses 401 and 429 | slots, provider streams, record against client, one final event; every request audited, every slot returned |
| `chat_leak` | as `chat`, 1 chunk | finding: slot lost on disconnect during `aclose` |
| `chat_stall` | 1 request, 2 chunks | finding: the deadline does not bound a stalled stream |
| `audit` | 2 records, 2 replays | nothing lost, nothing doubled, one owner, no insert cut off by an orderly stop; records settle, replays end, shutdown completes |
| `audit_unread` | 2 records, 1 replay | finding: an unreadable snapshot is deleted |
| `preauth` | 3 requests at once, limit 2, minute of 3 ticks, 5 ticks; 2 clients, through no proxy, 1 or 2, forged lines | refinement of the ideal bucket, window bound, no early refusal, exact `Retry-After`; charged to the origin, bounded overrun |
| `redis` | limit 2, minute of 3 ticks, 7 ticks, lag 1, expiry 4, 2 rewinds | window bound with late timestamps, nothing lost, expiry gives nothing away |
| `redis_rewind` | as `redis`, 4 ticks | finding: a rewind credits time twice |
| `keys` | 2 organisations, 2 keys, 2 connections, 2 JWTs, 4 scope lists | authority never grows, organisations apart, revocation holds, refusals have a cause |
| `mask` | 2 messages of up to 3 and 2 symbols, 2 letters, 2 detectors | exact replacement, equal placeholders for equal values, nothing skipped without cause |
| `mask_leak` | as `mask` | finding: part of a skipped match is sent |

**Bounds.** Four leases on two keys with two slots fill one key, refuse on it and leave the
other running, with each lease released more than once. Two requests and one slot give
competition for a slot, a refusal and its reuse after release; requests of different keys
meet only in the limiter, where two keys are checked and any number proved. Two chunks are
the least with a usage chunk before and after a plain one; 401 and 429 are the two upstream
statuses whose mapping differs from "anything" (the chat status of a plain failure, 500,
comes from non-`APIError` exceptions). Two records and two replays give two replays with a
line each, and one replay while the other record is appended; the safety properties are
proved for any number. For the buckets a tick brings a fraction of a token (2/3), so a wait
is rounded, and the time is enough to empty the bucket, fill it and empty it again; three
requests at once make two of them exposed to the third's charge. Of the forged headers one
names the subject and a proxy, one has two lines of which the first has no address; two
proxies let each be the last that joins, or neither. In `redis` the key expires, at the
shortest time `TTLAssumption` allows, and is created again. Two keys let one make the other,
and two connections let one be revoked at any point of the other's request; longer chains
repeat the step from maker to made. The scope lists have `super_admin` alone and behind a
comma. Two detectors and three symbols give spans that nest, overlap, touch and lie apart;
the second message brings values back; texts may be empty. The two letters are
interchangeable, which the run uses as a symmetry.

`MaxChunks`, `MaxTime`, `MaxRewinds` and `Lengths` are the bounds in guards. The chat and mask
runs do not check deadlock: when all requests or messages of the instance are served
nothing is left to do.

**Fairness.** `ServerFairness` (ChatStream): the event loop runs ready tasks; timers fire
(the deadline passes, `wait_for` gives up); a plain provider call ends, as the SDK clients
have a timeout of their own; `aclose` ends; abandoned generators are finalised. Nothing is
assumed about a provider's stream producing anything. `ClientFairness`: a client reads or
its connection ends while it is being sent something (one that waits for the provider
need not go away); it is used in `chat` and left out in `chat_stall`, because nothing in
the code guarantees it. `AuditTrail`: ready tasks run, a database call returns or raises, and
the lifespan's exit runs once requests are done. Requests, replays, shutdown and crash are
never forced.

## 4. Findings

1. **A slot can be lost** (`chat_leak`). `_close_upstream_stream` suppresses `Exception`;
   `CancelledError` is not one. If the deadline passed while the client was reading, or
   `to_sse` raised on a chunk, the last event is sent with the provider's stream still open;
   a disconnect while the finally clause awaits `aclose` then skips
   `stream_lease.release()`. It needs a provider whose `aclose` suspends and can be
   cancelled there; `AIProvider` promises nothing on that. `docs/HANDOFF.md:62` says the
   release is guaranteed. `LeaseOwned` and `EveryLeaseReturned` name this as their one
   exception, and hold otherwise.
2. **`STREAM_MAX_DURATION_SECONDS` bounds pulling, not the response** (`chat_stall`,
   `README.md:90`).
3. **An unreadable snapshot is deleted** (`audit_unread`, `docs/HANDOFF.md:41`).
4. **Redis limits assume one clock** (`redis_rewind`, `ratelimit/base.py:24`). The script writes
   the caller's time to `ts` even when it is older than what is stored; the next call refills
   for the time in between once more. `Ceiling` says by how much: one lag per rewind. Between
   workers whose clocks differ that is every alternation, so the excess has no bound.
5. **A match that overlaps another's is dropped as a whole** (`mask_leak`, `README.md:130`), also
   where it sticks out: in `4111 1111 1111 1111@shop.com` the e-mail is masked and twelve
   digits of the card go to the provider. `EveryCandidateTouched` is what does hold.

Two observations without a run of their own:

* `README.md:72` says that `AUDIT_SYNC` "awaits the audit insert before responding" and
  `README.md:128` "before returning". `finalize` runs in the `finally` of the wrapped body
  iterator (`observability.py:241-246`), after the head and every chunk were sent: what waits for
  the insert is the end of the body. A client that knows the length of its answer, or has seen
  `[DONE]`, can act on it before its record exists. `AuditTrail` is built that way (an insert
  starts from `sent` in both modes), so no property is claimed for `AUDIT_SYNC`.
* `net.py:36` reads one `X-Forwarded-For` line. Behind proxies that all add a line instead of
  joining, the first line is the client's own, and a failed login is charged to the address it
  names. `ChargedToOrigin` excludes exactly these requests. `README.md:126` asks for trusted
  proxies and does not say which kind.

## 5. Proofs

All theorems hold for every value of the constants, under the named assumptions in the
modules: a positive limit, a positive window, finitely many leases or requests, a priority
that names each type once. `AuditTrail` needs none.

* **StreamLimiter_proofs**: `TypeCorrect`, `AccountingCorrect`, `NoIdleKeyCorrect`, `QuotaCorrect`,
  `QuotaImplemented`. The inductive invariant is `TypeOK /\ Accounting /\ NoIdleKey`. `Quota` alone
  is not inductive: it needs that the active count is the number of held leases and that
  permits and count add up to the limit. `NoIdleKey` makes a dropped key and its fresh
  semaphore the same thing, so the refinement can read the guard of `Acquire` as the quota's.
* **ChatStream_proofs**: `ImplementsLimiter` first: every chat step is a limiter step or leaves
  the limiter alone, so all limiter theorems carry over. `LeasesOwned`, `UpstreamsWithinQuota`
  and `NothingFollowsLast` then rest on an invariant with four more parts: the lease is owned;
  an open provider stream is matched by a held lease; `cut` says where the generator ended;
  and a generator whose last event was taken only closes (`SeenInv`).
  `AuditTellsClient`, `NoFailureFiledAsSuccess` and `TypeCorrect` need a second invariant on top
  of it, `RecordInv`, because `request.state` is written when a stream fails or ends and read
  only in `finalize`, and the client learns of it at a third time, when it takes the event. It
  says of each request: nothing is in `request.state` before the response (`Blank`); a JSON
  answer's status and error type agree (`JsonState`); a stream's `request.state` is determined
  by the event the generator holds or ended with (`StreamState`), also if the client never takes
  it; `token_usage` is the last usage reported, except that the first chunk is counted only
  when it is formatted (`Tally`); the client's last event is the generator's, and a response
  that is over without one was cut (`Told`); a record is what `request.state` says (`Filed`).
  The upstream statuses are any natural numbers: `ErrorFacts` shows that whatever a provider
  answers, the caller is told an error status, and `provider_error` only as a 502.
* **AuditTrail_proofs**: `TypeCorrect`, `NothingLost`, `NoDuplicates`, `LinesHaveOneOwner`,
  `StopDrains`. The invariant adds to the properties: a call outside its loop has no lines
  (`ReplayInv`), a record not yet tried has no row and is in no file (`FreshInv`), and a
  record waiting in the fallback file or in a replay's `todo` has no row unless a commit was
  misreported (`PendingInv`), which is what makes `AtMostOnce` inductive. `StopDrains` has
  one of its own, `DrainInv`: once the list is taken, no request is open, and the inserts
  still under way are all in it; the list may name inserts that have ended since. It is kept
  because an insert is started only from `sent`, and under `AUDIT_SYNC` an insert is part of
  an open request.
* **TokenBucket_proofs**: `BucketInvariant`. `Ceiling` is inductive (a grant moves a token from
  the level to the count, a tick adds the same to both sides). `NoEarlyRefusal` is not: it
  follows from `Floor`, that grants and level together make up the refill since any tick, at
  most a full bucket; `Floor` needs that the counts in `before` never exceed `granted`.
* **RedisBucket_proofs**: `TypeCorrect`, `CeilingHolds`, `NeverEarly`, `ExpiryHarmless`. The bucket
  can no longer be summed up by one number, as the refill a script finds depends on the
  timestamp it carries. `High` is the most that scripts could still take out of the hash,
  `Low` what a script with the current time would find; between them lies the lag. A script
  with a late timestamp caps the refill too early and leaves the rest to be refilled again,
  so `High` is capped at a full bucket and the lag's refill; a rewind raises it by at most one
  lag, which is the term `MaxLag * rewinds` of `Ceiling`. `Above` and `Below` bound the two against
  what was granted since any tick. `ExpiryHarmless` needs `Lives`, that the key outlives its
  own `ts` by the expiry, and `TTL >= Window + MaxLag` (the code: 300 seconds against 60 and
  the lag): only then is an expired key a full bucket also by the upper reading, and an expiry
  costs the ceiling nothing.
* **Keys_proofs**: `TypeCorrect`, `ChainsStayInside`, `RevocationHolds`, `Isolation`, `CausedRefusals`, for
  any organisations, keys, connections, JWTs, request bodies and either mode of
  authentication. The difficulty is that a principal is computed from a row that others may
  change before the handler uses it. `Rightful` says what survives: the principal has no more
  than the authority its credential descends from. It holds because rows only change in
  `revoked` and `used`, and authorities never (`Kept`). `NoEscalation` is then inductive: a
  handler filters the scopes of a new key after the request's items were split at commas, so
  what is parsed from the column later is what was checked.
  `RevocationHolds` needs that an acknowledged revocation is in the table (`RevokedInTable`),
  which a commit of `last_used_at` under way would break if it wrote the row back; and that a
  late request gets no further than its lookup (`Progress`).
* **PreAuth_proofs**, the bucket: `TypeCorrect`, `IdealImplemented`, and through it `CeilingHolds` and
  `NeverEarly`. The one arithmetic fact is that a tick's refill commutes with the cap:
  `Refilled' = Capped(Refilled + Capacity)`. `RetryAfterExact` rests on `Promise`: after a refusal
  the bucket is left as the refusal wrote it, so `retryAt` is still what its contents say, and
  rounding up a quotient gives the fewest ticks that bring the missing units.
* **PreAuth_proofs**, the middleware: `ImplementsBucket` first: every step of the middleware
  is a call of the bucket or leaves it alone, so the bucket's theorems hold of it
  (`BucketUnderLoad`). `OriginCharged` rests on `OriginFound`: for any lines the client
  wrote and any chain of trusted proxies, each joining or adding, the walk over the first
  line, from the right, stops at the address the first proxy recorded, unless that line is
  the client's alone. Only the last proxy that joined matters: the first line ends with the
  caller's address and the trusted proxies up to it. That the walk's leftmost and rightmost
  positions exist comes from the well-foundedness of the naturals (`LeastNatural`), not from
  an induction. `OverrunIsBounded` is not inductive: it needs `Covered`, that while a
  request of the address is inside and not exposed the bucket still holds the token its
  preview saw, since refilling only adds. A refusal then takes a request out of `exposed`,
  and only a grant puts others in, at most all but itself.
* **PiiMask_proofs**: `TypesAndIndexes`, `MaskedRight`, `PlaceholdersCorefer`, `SkippedForCause`,
  `OnlyOverlapsLeak`, for any types in any order, any enabled ones, any texts, any detections
  and any number of messages. None of the properties is inductive, and three speak of finished
  messages only. The invariant `MaskInv` follows the loops. `Numbering`: the tables give the values
  of a type the indexes 1, 2, ... each to one value. `Choosing`: accepted spans lie apart, and
  what was skipped so far meets an accepted span of an earlier type. `Masking`, in the second
  loop: the spans yet to be replaced are left of those replaced; the text as replaced so far
  has a reading against the spans replaced so far; and left of them it is still the text,
  symbol for symbol (`Untouched`), which is why the positions found in the text may be used in
  the masked one. `ReplaceTiled` is the one step that matters: from the reading before a
  replacement it makes the one after (`Shifted`). A reading's ends increase strictly, which is
  part of the invariant, so no induction over positions is needed. `Sent` keeps a reading for
  each finished message; since tables only grow, it stays one. A placeholder of an accepted
  span then carries the index of that span's value (`StandsForItsValue`), and `Numbering` makes
  equal indexes equal values. `OnlyOverlapsLeak` is what remains of the claim that finding 5
  refutes: where the enabled detectors' spans do not overlap, all of them are replaced.

**Only model-checked**: the liveness properties (`EveryRequestAudited`, `EveryLeaseReturned`,
`EveryRecordSettles`, `EveryReplayEnds`, `ShutdownCompletes`): fairness is out of the prover's
reach. Every invariant and every other property of the passing runs is proved.

## 6. Not modelled

Log output, message texts and headers; parameter conversion for the providers; pricing;
schemas and configuration parsing; SQL; JWT cryptography and claim parsing; the regular
expressions of the policy and PII detectors, and the content filter built on them (a block
is one of `Reject`'s refusals); the byte count of the body limit (its answer is one of
`Intercept`'s); several worker processes (but for the Redis buckets); float rounding; the
cancellation of a request that awaits its insert under `AUDIT_SYNC`; policy events and
stored messages (they are not in the fallback file by design, `observability.py:133`); the
growth of the in-memory buckets' dictionary, which nothing bounds.

Paging of audit rows: rows are ordered by `ts` alone and paged by offset, so inserts between
two pages repeat rows and equal timestamps have no order; no document says what a walk over
the pages promises. Time stamps of replayed rows, and line separators inside a record, are
hazards without a property.

## 7. Plan

`Gateway`: ChatStream's `Finalize` feeding AuditTrail, with time stamps of replayed rows. The
two meet only in the record, which AuditTrail names by its request, so nothing proved here
depends on it.
