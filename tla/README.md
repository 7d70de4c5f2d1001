# Routeplane: TLA+ models, model checking and proofs

Routeplane is an LLM gateway written in Rust. One process (axum on tokio) takes
OpenAI-style requests of many tenants and forwards them to providers, with
caching, rate limits, budgets, retries, failover and hedging in between. The
state that several requests share is kept in atomics, copy-on-write maps and
bounded channels rather than behind locks. That is where this development looks:
the orders in which concurrent requests touch such state, and the request that
is late, cancelled, retried or cut off by a timer.

The models follow the Community Edition build with default features; the one
exception is `DistributedLimiter`, which models the opt-in `redis-limits` build.
Paths below are relative to `src/crates/`.

## 1. Inventory

### State shared by requests, and the request path

| Component | State | Operations | Module |
|---|---|---|---|
| Circuit breaker and in-flight gauge (`router/src/lib.rs`) | per provider: state byte, consecutive failures, successful trials, `opened_at`, gauge | `state`, `is_available`, `try_enter_probe`, `record_success`, `record_failure`, `open`, `close`, drop of an `InFlightGuard` | `CircuitBreaker` |
| Attempt loop of a buffered chat request (`routeplane/src/proxy.rs`) | deadline, target and key in use, retries, pool verdict, kept client status, racing attempts | `attempt_target`, the sequential walk, `run_hedged_targets`, `Deadline` | `AttemptLoop` |
| Streaming path and abort accounting (`routeplane/src/proxy.rs`) | target, key and retry of the establishment, pool verdict; the generator's usage, truncation cause and armed guard | `stream_chat_completions`, its SSE generator, `StreamAbortAccounting` | `StreamPath` |
| Cache write lanes (`cache/src/lib.rs`) | bounded lane, scheduled bit, queued bytes and pending cell per tenant; ready channel; the writer's own FIFO | `try_insert`, `flush`, `shutdown`, `take_ready`, `finish_turn`, the writer loop | `WriteLanes` |
| Idempotency store (`cache/src/idempotency.rs`) and the handler around it (`proxy.rs`) | sharded map of `InFlight` and `Done` slots with a TTL and a cap | `reserve`, `store`, `release`, eviction, disconnect | `IdempotencyStore` |
| Rate limits, budgets, spend alerts (`limits/src/lib.rs`) | packed (epoch, count) words and alert flags per scope and meter | `check`, `try_consume`, `debit`, `peek`, `try_fire`, `admit`, `settle` | `WindowLimits` |
| Limit configuration (`limits/src/lib.rs`, `routeplane/src/main.rs`) | policies per key, tenant and model, replica count, FX rate | start-up validation, `from_policy`, replica shares | `LimitConfig` |
| Buffered chat pipeline (`routeplane/src/proxy.rs`), flush generations (`cache/src/lib.rs`), purges (`cache_api.rs`) | per request: stage, cache plan, targets, what was sent; shared: generations, queued writes, entries | model gates, classification and residency filter, cache key and lookup, masking, admission, attempts, settlement, usage record, cache insert, purge | `ChatPipeline` |
| Health registry, latency average, key cooldowns (`router/src/lib.rs`) | copy-on-write map of (owner, provider), one average each; packed cooldown cells shared by keys that hash alike | `register`, `with_health`, `record_latency`, `cool_key`, `clear_key` | `HealthRegistry` |
| Cache core (`cache/src/lib.rs`) | shards, entry costs, bytes per tenant | capacity plan, `apply_insert` with its evictions, expiry | `CacheStore` |
| Usage lanes (`routeplane/src/observability.rs`) | semaphore, channel, scheduled bit and ring per tenant; ready channel; shutdown watch | `record_usage`, the writer task, `shutdown` with its time limit | `UsageLanes`, refining `UsageLedger` |
| Failure throttle (`limits/src/auth_failures.rs`) and its three callers | packed (epoch, count) slots shared by sources | `check`, `record_failure` from gateway, sign-up and sign-in | `AuthFailures` |
| Console accounts and sessions (`console_accounts.rs`, `console_auth.rs`, `console_api.rs`) | file, shared registry, write lock, tokens that are out | sign-up, sign-in, logout, persistence, crash | `ConsoleAccounts` |
| Custom providers (`custom_providers.rs`, `providers_api.rs`) | file, snapshot, admin lock, trackers | upsert, delete, registration, client hang-up, crash; the three reads of a chat request | `CustomProviders` |
| Distributed limiter (`limits/src/distributed.rs`) | Redis counters with a time to live, replicas' own counters | `admit`, the script, timeout, late call, fallback | `DistributedLimiter` |

### Decisions that keep no state

| Component | What it decides | Module |
|---|---|---|
| Virtual-key authentication (`routeplane/src/auth.rs`) | which tenant a credential belongs to and what it may do | `Authentication` |
| Entitlements and flags | the features of a plan, overrides, toggles that hold a feature back | `Entitlements` |
| Model catalogue (`models_api.rs`) | what a tenant sees and may name | `ModelCatalogue` |
| Stored prompts (`prompts/src/lib.rs`) | what loads, which version or variant answers a reference, the rendered text | `PromptRegistry` |
| Routing strategies (`router/src/strategy.rs`) | the order of the candidates | `RoutingStrategy` |
| Routing configurations (`policy/src/lib.rs`) | what the parser accepts and the plan a request gets from it | `RoutingPolicy` |
| Residency and redaction (`residency`, `unicode`, `guardrails/src/detect.rs`) | what counts as personal data and what is left of a text | `PersonalData` |
| Output checks (`guardrails/src/detect.rs`, `schema.rs`) | leak of the system prompt, JSON schema, verdict | `OutputChecks` |
| Token compression (`rtk/src/lib.rs`) | what replaces the lines of a tool's output | `TokenCompression` |
| Pricing and FX (`limits/src/`) | cost and display currency | `Pricing` |
| Reports (`observability.rs`) | sums, percentiles and series over a tenant's ring | `UsageReports` |
| Sibling endpoints (`embeddings.rs`, `rerank_api.rs`, `images_api.rs`, `audio_api.rs`, `messages_api.rs`) | validation, candidates, attempts, settlement | `Endpoints` |
| Provider adapters (`adapters/src`) | request bodies; buffered and streamed answers | `ProviderRequests`, `ProviderAnswers`, `ProviderErrors` |

### Not modelled

- HTTP, TLS, connection pools and JSON syntax: I/O and libraries.
- What a regular expression matches character by character: a text is a sequence
  of spans that a recogniser takes whole or not at all.
- Metric and trace formats, log lines, the pages of the console that only render
  state, the layering of configuration files (`config_overlay.rs`).
- The advisory rate-limit headers; `replace_preserving_counters`, which nothing
  outside the tests of `limits` calls; `peek` and the token provider of the
  distributed limiter.
- The shuffle of a pool's keys (`order_pool_keys`): an input of `AttemptLoop`.
- The `prompt.render` usage row that `prompt_completions` records before it hands
  the bound request to the chat pipeline.
- Masking of a stream chunk by chunk, and enterprise-only code behind features.
- Memory orderings weaker than sequential consistency.

How the parts interact. A chat request authenticates, passes the guards, may be
answered from the exact-match cache or replayed from the idempotency store, is
admitted by the limit registry, is ordered over the targets by the router, runs
the attempt loop (which asks the breaker for permission before each attempt and
feeds it the result), is settled against the limit registry and is handed to
the cache's write lanes; its usage event goes to the usage lanes. Everything the attempt loop, the breaker, the limit
counters and the idempotency store do happens on the request's own task, many
at a time; the cache writer and the usage writer run beside them.

The hazards these parts are exposed to are listed, each at its line, in
`PROJECT.json`.

## 2. The modules

Each module names the source it models; `PROJECT.json` maps every definition to
its lines.

**CircuitBreaker.** A task is one request attempt. Each atomic load, store, add
or compare-exchange of the breaker and the gauge is one action (`StateLoad`,
`StateCas`, `OpenState`, `OpenStamp`, `CloseFailures`, ...), so `open` and
`close`, three unconditional stores each, interleave as they do on the machine.
A task asks `is_available`, then either takes a permit (`TryEnterProbe`,
`ProbeAdd`, `ProbeLoad`, `ProbeCas`) as the chat path does, or dispatches
without one (`DispatchBare`) as the sibling endpoints do. `CallEnd` is every way
an attempt may end: success, failure, or a dropped future, which returns the
guard and reports nothing. Counters saturate at their thresholds, since the code
only compares them with `>=`. Orderings weaker than sequential consistency are
not modelled.

**AttemptLoop.** One request, its targets in order, the keys of a pool inside a
target and the retries inside a key; or, with hedging, the race over the same
targets. The futures of a request run in one task, so an action is what the code
does between two awaits: `Skip` (the breaker refused), `Dispatch`, `Answer`
(success or any `ProviderErrorKind`), `TimeOut`, `Wake` from a backoff, `Hedge`,
`ClientGone`. Time is in ticks. Code takes no time, a due timer fires within
`Slack` ticks. Whether the breaker admits an attempt depends on the other
requests and is nondeterministic here. The order of the keys and of the targets
is an input, usage events and logs are left out. `capped`, `bounded` and the
histories `genuine` and `measured` keep apart the time limits the server set and
the ones the caller set with `x-routeplane-timeout-ms`.

**StreamPath.** One `stream: true` request. The first half is the walk over
targets, keys and retries until a first chunk is in hand (`Enter`, `Skip`,
`Dispatch`, `Refused`, `TimeOut`, `Wake`, `Commit`); the second half is the
generator that relays the chunks (`FirstPoll`, `Chunk`, `Resume`, `Upstream`,
`Finish`). An action is what runs between two awaits or yields, because a future
is dropped only there: `ClientGone` may strike in a sleep, in a provider call,
before the body's first poll and at every await and yield of the generator, and
then `DropGuard` runs. Time is reduced to whether the deadline has passed; how a
backoff compares with what is left is a choice. A chunk is the token count it
reports, or 0 for none. Masking of the text is left out.

**ProviderErrors.** The classes of provider errors and the three questions both
paths ask of them: retry, health failure, key cooldown.

**WriteLanes.** Producers and flushers against the one writer thread. A lane is
a bounded sequence, a token is a lane number in `ready` or in the writer's
`localReady`. Every channel and atomic operation is one action: `ReserveBytes`
stands for the load and the compare-exchange that succeeds, `TrySend`,
`Scheduled` and `Schedule` for the producer's side, `TakeReady`, `ClearStale`,
`Apply`, `FinishTurn`, `FinishClear`, `FinishCheck`, `FinishCas` for the
writer's. An entry is abstracted to its cost in bytes.

**IdempotencyStore.** One shard (the shards share nothing). `ReserveNow` and
`StoreNow` read the clock before the map is touched, as the code does;
`ReserveSlot` and `StoreSlot` are the copy-on-write updates. `Pipeline` is the
rest of the request, whose outcome is a response to store, a failure to release
or a vanished client that does neither. Slots carry an owner in the model and
not in the code: it is a history value that only properties read. `reclaimed`
records the keys that lost a slot to expiry or eviction.

**WindowLimits.** Requests with the clock reading they carry. `Check` walks the
hard meters of every scope, `Consume` takes the request slots, `Debit`,
`AlertPeek` and `AlertFire` settle. `Add` is the read-modify-write of
`try_consume` and `debit`: a counter whose epoch differs from the request's
starts again from zero, whichever of the two is older. `EpochOf` gives the
calendar (minutes, days, months) as a table. `CountMask` is the width of a count.

**LimitConfig.** The pure part: every policy over small caps goes through
validation (`RefuseToStart`) or through the builder (`Build`).

**ChatPipeline.** Several buffered requests and purges. A request goes through the
model gates (`Arrive`), plans its cache key with the two loads of
`generation_effective` (`Plan`, `Key`), looks up (`Lookup`), filters its targets
(`Residency`), is admitted (`Admit`), tries its targets (`Skip`, `Exhaust`, `Win`,
`AllFailed`), settles and queues its cache write (`Settle`); `Apply` is the
writer. Every early return of the code is an action or a disjunct, and a client
may go away at an await (`HangUp`). A profile says what a request brings along: tenant, namespace,
the fields of its body, a chain of targets each with its own parameters, where it has personal
data, the region it asks for, its cache directive. As in the code, the key holds the names of the
whole chain and the body as the first target shapes it (`exact_key_gen`), while each dispatch
shapes the body for its own target (`Shaped`); the shaping is that of `RoutingPolicy`. An answer
is the request that got it and the target that gave it.

**RoutingPolicy.** The parser and the evaluation of routing configurations. A request is a function
from the fields that are present to JSON values with a type, because the parser checks the names of the
parameters it is given and not their types: `Apply` overlays defaults, overrides and drops, and
sends the request as it came if the result is no longer one (`IsRequest`).

**HealthRegistry.** Tasks that register, report latencies, cool and clear keys.
The load and the compare-exchange of each loop are separate steps, and a failed
exchange goes back to the decision, as the code does. `samples` and `owed` are
histories. A cell may be shared by two keys; the fingerprint tells them apart.

**CacheStore.** The split of the memory over tenants, and inserts that publish
their shards one at a time, the entry's own last. Readers see every state in
between.

**UsageLanes** and **UsageLedger.** The detailed engine, one step per atomic and
channel operation, and the abstract ledger it implements: an event is pending,
then retained or dropped, exactly once, and nothing stays pending once the
engine is closed. The refinement mapping (`Ledger` in `UsageLanes`) takes the
events handed over and neither kept nor lost as pending; `UsageSettlesOnce` is
the ledger's specification, fairness included, as a property of the lanes.

**AuthFailures, ConsoleAccounts, CustomProviders.** Handlers as tasks that may be
parked at each await. The last two have a file, a lock and a crash: what was
renamed into place survives, every task and snapshot does not.

**DistributedLimiter.** Requests of several replicas against one Redis. A call
may run, run late, run after its request has given it up (`RunOrphan`) or be
lost; keys expire. The counters of a replica are one step here, since
`WindowLimits` takes them apart.

**Services** composes the modules above that share no state and lets each
behaviour be one of them (`focus`); the instances TLC checks are at its end. Each
component states in `Configured` what its constants are in the code (a source has a
slot, an operator's provider has its own owner, caps carry no sign), and
`ServicesAssumption` asks for all of them.

**Decisions** asks the questions of admission, cost, candidate order, routing
configuration and the endpoints beside chat: one action per topic puts a question of a
constant set, and an invariant compares the answer with what it has to be. What the sets
may hold is stated in its five assumptions (section 4). **MCGateway** gives the sets their values, adds the
questions to the other stateless modules and composes everything with `ChatPipeline`.

The stateless modules define what the code computes, in the code's names, and
one operator that says what it is for (`OrderIsFair`, `AcceptedPlanIsBounded`,
`RedactionComplete`, `LeakIsExact`, ...), stated independently of the algorithm:
the rolling hash against the words themselves, check digits against single
errors and swaps, a stream of events against the buffered answer.

The modules are separate because the code's interfaces are narrow: what
`AttemptLoop` needs of the breaker is one answer, and what `CircuitBreaker`
needs of the loop is that an attempt ends in one of three ways.

## 3. What is checked

Passing runs:

| Run | Instance | What it shows |
|---|---|---|
| `breaker` | 2 tasks, failure threshold 2, success threshold 1, cooldown 1, clock to 2 | The gauge equals the number of attempts in flight on every path (`GaugeBalanced`); no more trials than the threshold hold a permit (`ProbeCap`); no interleaving of `open` and `close` strands a tripped or a healed breaker (`TrippedIsTransient`, `HealedIsTransient`); an open breaker leaves Open (`SelfHeals`). |
| `attempts` | 3 targets, the second a pool of two keys, 1 retry, budget 3, attempt limit 2, client caps 0 to 2, up to 2 hedges, timers late by 1 | The shared breaker and latency average learn neither more (`WithholdOnly`) nor less (`NoFaultHidden`) than providers showed; a pool charges once (`PoolFeedsOnce`); a failure means everything was tried and a client error is kept (`NoTargetSkipped`); a retry waits as a 429 asked (`RetryAfterHonoured`); the client is answered by the deadline (`DeadlineKept`). |
| `stream` | 3 targets, the second a pool of two keys, 1 retry, up to 3 chunks with usage 1, 2 or none | A polled body is settled and recorded exactly once, inline or by the guard, with the last usage reported (`AccountedOnce`); breaker, latency average and cooldowns are told what the walk learned, a pool once and with the verdict of all its keys (`EvidenceOnly`). |
| `lanes` | 2 producers, 1 flusher, 2 lanes of capacity 1, 3 bytes | Bytes balance and a scheduled bit stands for exactly one token (`LaneBooks`); operations are applied once and in order (`FifoExactlyOnce`); what the writer set aside is applied (`PendingApplied`); flush is a barrier (`FlushIsABarrier`). |
| `idempotency` | 3 requests, 2 tenants, a shard of 2 slots, TTL 1 | Unless a slot was lost, one request runs per key (`SingleFlight`) and the key is charged once (`ChargedOnce`); a replay is of the same tenant, key and body (`ReplayFaithful`); a reservation evicts a live slot of another tenant only if that tenant holds more, and the shard keeps to its cap (`FairEviction`); a vanished client does not pin its key (`NotPinnedForever`). |
| `limits` | 2 requests at a time, 4 in all, a key and its tenant, counts of 2, three one-tick minutes, two days, one month | Hard request caps are exact (`RequestsExact`); a budget overshoots by no more than what was in flight (`OvershootBounded`); a crossing is announced (`CrossingAnnounced`), once per window (`AlertsOncePerWindow`). |
| `services` | 2 request threads, 3 tenants of which one has no share, 3 events; 3 sign-in handlers on one slot; 2 console tasks, 3 boots; 4 cache keys in 2 shards; 2 admins and a chat request, 2 boots; every limit policy over two to three caps each, three rates, 1 to 3 replicas; 2 tasks with 4 health jobs; 2 replicas, 2 requests, 2 windows | Permits and the ring balance (`UsageBooks`); every usage event settles once, also at shutdown (`UsageSettlesOnce`, the refinement); failures, latencies and cooldowns are not lost to races or to a neighbour (`NothingLearnedIsLost`); a logout is final and there is one owner (`SessionsEnd`); the memory bound holds between the stores of an insert (`CacheWithinShare`); the live registry is the file's and a chat stays with its tenant (`RegistryIsDurable`); shares add up to the configured cap, a configured window is capped, and Redis admits no more than the cap whatever times out (`CapsKeepTheirMeaning`). |
| `gateway` | 2 requests of 17 profiles in two families, 2 purges; thousands of questions to the stateless modules | A hit is the answer of a provider of this request's chain, to the same content as far as the key knows it, and no purge lies in between (`CacheIsSound`); personal data goes to resident providers only (`DataStaysHome`); one record per way out (`OneRecord`); costs and their currency (`Cost`); authentication, entitlements, candidate orders, plans and the walks of the sibling endpoints (`AccessAndRouting`); redaction, check digits, leak, schema, compression and stored prompts (`Content`); `/v1/messages`, catalogue, reports, request bodies, buffered and streamed answers (`Interfaces`). |

`RequestsExact`, `OvershootBounded` and `AlertsOncePerWindow` are about counters
and flags that no late request set back, `SingleFlight` and `ChargedOnce` about
keys that lost no slot. Those exceptions are the code's; section 5 says what
happens in them.
`CrossingAnnounced` has no such exception; it leaves out the monthly budget of a
scope that has a daily one too, because `settle` announces one of the two.

Runs that exhibit a disagreement between the code and what its comments say:

| Run | What TLC finds |
|---|---|
| `stream_truncated` | The upstream breaks off, the client closes the connection on the error frame, and the guard, which knows nothing of the error, records the stream as `Ok`. |
| `lanes_stale_token` | `take_ready` clears the scheduled bit after it found the lane empty, without the second look `finish_turn` takes; a producer in between sends no token, and its operation waits for the tenant's next write. |
| `cache_shaping` | Two configurations of a tenant name the same providers, agree on the first target and shape the second one differently. The key knows the names and the first target's content only (`proxy.rs:3191`), so when the first target fails, what the second answers to one configuration is served to the other. `cache/src/lib.rs:179` says "configs that shape differently never collide". |
| `audio_residency` | `run_audio_text` hands an empty classification to `required_region`, so the region a key or header asks for does not filter the providers of an upload, as `audio_api.rs:33` says it does. |

### Bounds

`MaxClock`, `MaxOps` and `MaxArrivals` stop what would run forever; the other
constants are parameters of the code made small. They are large enough for the
cases of interest to happen. The clock passes a cooldown, a TTL and a window
rollover with a request on both sides of it. Two breaker tasks can be inside
`open` and `close` at once, and one trial fills the half-open window. A lane of
capacity one is full after one send, the byte budget admits two of the smaller
entries or one of the larger, and the writer takes turns over two lanes. The
idempotency shard is full with two slots, so the third reservation evicts. A
count saturates at 2. In the attempt loop the budget is used up by two attempts,
so deadlines expire in every phase, and both a single-key target and a pool sit
before another target. A stream of three chunks can report a usage, replace it
and then be silent. The runs reach from tens of thousands to several million
states. What depends on sizes (more tasks, requests, keys, targets, larger caps)
is the subject of the theorems of section 4.

In `services`, three events over lanes of capacity one fill a lane, evict from a
ring and are in every place when the timer fires; two failures reach the
threshold in a window and one arrives from the window before; three boots let a
session outlive two of them; the cache's sizes lie on both sides of every bound;
two health tasks with four jobs can lose an exchange and look again; Redis keys
are created in one window and asked for in the next. `Grace` covers two calls of
length `Timeout` there, as one second covers the calls of the code's default
timeout. In `gateway`, two requests suffice for one to fill the cache and the
other to hit it with two purges between any of their steps. Both are of one family (`Together`):
`Alikes` share provider names and chain length and differ in content, in parameters, in how a
name is written and in whether the shaping takes; `Others` differ in everything else;
pairs across the families are left to the theorem. The questions are
chosen so that each branch of a decision is taken and each boundary has a value on both
sides.

Deadlock is checked for the breaker and the attempt loop, where a request always
has a next step (`Over` marks one that is done). The other models stop when
their bounded supply of work is done.

Symmetry over requests is used in the `limits` and `gateway` runs, which check no liveness;
no action or property of theirs tells one request from another.

### Fairness

`FairSpec` of `CircuitBreaker` and of `IdempotencyStore` assumes weak fairness of
the clock and of each task's next step: tokio polls every ready task and time
passes. A provider call ends because every attempt has a timeout; how it ends is
not assumed. The step of an idle task is its next request, so traffic is assumed
to continue: nothing but a read moves the breaker out of Open, and nothing but a
retry takes over an expired reservation. Without traffic neither state hurts
anybody. `WriteLanes` assumes weak fairness of the writer thread and of each
thread inside an operation, which the operating system's scheduler provides; new
operations are not promised. `UsageLanes` assumes weak fairness of each request
thread inside `record_usage` and of the shutdown timer, and nothing of the writer
task: that is what the timer is for. The other services and `ChatPipeline` are
checked for safety only. No strong fairness is assumed.

## 4. What is proved

TLAPS checks the theorems below for every value of the constants that the named
assumptions allow, where the runs check one small instance. All but six of the
properties of section 3 are theorems; those six are listed at the end of the section.

### Method

Every theorem on a state property has three facts: the initial states satisfy an
inductive invariant, each step keeps it (one lemma or step per action), and it
implies the property. The parts of the invariants are named after what they say and
are described below where they are more than types.

Two kinds of data need more than first-order steps. *Sums and cardinalities*
(queued bytes, tenant shares, failures of a slot) are handled with
disjoint unions and one element more or less; `WriteLanesProofs` proves from the
definition what the library's fold over a set obeys: it does not depend on the order of the elements
and one summand can be split off. *Recursive functions* (the latency average of a
list of samples) and *minimal elements* (the largest holder of a shard) are reached
by well-founded induction stated without operator parameters: a non-empty set has a
minimal member, applied to the set of counterexamples.

### Assumptions

They are named and stand in the module that declares the constants; TLC evaluates them in every
run. Sets of tasks, requests, threads and flushers are finite; thresholds, sizes and
capacities are natural numbers, positive where the code has a `max(1)` or a
constant. The others:

- `WindowLimits`: caps are clamped to `CountMask` as in `from_policy`; `Usage` is finite
  and its fields have no sign, since token counts and costs are `u64`
  (`UsageAssumption`); minutes, days and months follow one another
  (`CalendarAssumption`), which the overshoot bound needs.
- `ChatPipeline`: the chain of a profile is a sequence with a first target, and without a routing
  configuration nothing is cached and no target has parameters, as in `default_target_plan`
  (`ProfileAssumption`); finitely many names are known as resident (`ResidentAssumption`), a tenant has room for one
  scope at least (`PipelineAssumption`).
- `Decisions`: what the program can be asked. Keys are filed under their own name, with a
  tier and features that exist, as `load_from_json` files them (`GatewaysAssumption`).
  Weights and costs of a candidate are numbers or not given, the provider's own weight is
  not zero (the compiled-in ones are 1), the tracker's view is a flag and two numbers,
  and there is a random number for every draw (`OrdersAssumption`). Of a routing
  configuration it is assumed only that its lists are lists (`ConfigsAssumption`): whether
  it is valid is for the parser to find out. Requests are what the handler parsed, so their
  fields have their types (`RequestsAssumption`); the values of a configuration are free. For the endpoints beside chat the registry is a finite
  table, a chain is a list, and the deadline leaves time for some number of attempts
  (`WorldsAssumption`); what each provider would answer is free. Nothing is assumed of exchange files, regions,
  currencies or model names.
- `Services`: the `Configured` of each component. Two of them are more than types.
  `HealthRegistry!Configured` takes two pool keys that share a cooldown cell to differ
  in their fingerprints. A fingerprint has 22 bits of a randomly seeded hash, so two
  keys of one cell collide once in some four million pairs, and what the code then does
  (one key's success clears the other's cooldown) is outside the theorem.
  `DistributedLimiter!Configured` has `Len(Specs) * Timeout <= Grace`: the calls of one
  request end within the second by which a Redis key outlives its minute. The code's
  default timeout of 50 ms satisfies it; `ROUTEPLANE_REDIS_TIMEOUT_MS` can be set to
  a value that does not, and nothing is claimed of such a deployment (section 5).

### The request path

**CircuitBreakerProofs.** `TypeCorrect`, `GaugeNeverLeaks`, `HalfOpenCapIsHard`,
`NoStrandedClosed`, `NoStrandedHalfOpen`. `ProbeCap` is not inductive: a task may
hold a stale gauge value when it tries its compare-exchange. `GaugeInv` adds that
the gauge counts the guard holders (so the exchange succeeds only if the value
is current) and that a task about to exchange has seen a value below the
threshold. The two stranding theorems say that whenever counter and state
disagree some task is still on its way to a store that settles it.

**AttemptLoopProofs.** `TypeCorrect`, `EveryTargetTried`, `AnsweredInTime`,
`RetriesWait`, `CallerCannotInject`, `NothingWithheldUnasked`, `PoolChargesOnce`.
`IInv` has five parts: `TypeOK`; `Shape`, which attempts may be running in a walk
and in a race, and that everything before `next` has been launched; `Timers`, that
no running timer ends after the deadline; `Books`, how reports to the breaker
relate to evidence, target by target, pools apart; and `Sampled`, the same for latencies.
`DeadlineKept` needs `Timers`, because the clock stops only at a due timer;
`NoTargetSkipped` needs `Shape`, because the loop only looks at `next` and at
whether anything runs.

**StreamPathProofs.** `TypeCorrect`, `SettledExactlyOnce`, `HealthIsEvidence`.
`AccountedOnce` needs `Account`: while the generator runs the guard is armed and
its snapshot equals the inline total, which both equal the last report.
`EvidenceOnly` needs `Health`: targets ahead of the walk are untouched, and inside
a pool `poolFault` holds exactly if some key was at fault, so the one charge at
the end of the pool is the right one.

**GatewayProofs**, first part. `RecordsAreConsistent`, `PersonalDataStaysHome`,
`CachedAnswersAreSound`. `OneRecord` speaks of requests that are over, so `RecordInv`
says phase by phase what has been admitted, called, settled and recorded so far.
`DataStaysHome` needs `HomeInv`: what is still to be tried after the filter is
eligible as well as what has been tried. For the cache, `OwnKey` says that the key
of a plan is the request's own and that its generation lies between the purges in
force when planning began and when it ended; `Planning` carries that over the gap between the two loads, because
either generation only grows; `Made` says that what is queued or stored stands under the key
of a request that was answered by the target at the head of its list (`AtHome`: that list holds targets of
its own chain only); and `ScopesInv` that purged scopes leave room for the wildcard.
A hit under an equal key then has a generation from before and from after, which are the same.
Equal keys also give the same names and the same content for the first targets. For another target
that makes the content equal only where both chains shape it as they shape their first; the
theorem claims no more, and `cache_shaping` shows that no more is true.

**IdempotencyStoreProofs.** `OneInFlight`, `AtMostOneCharge`, `ReplaysAreFaithful`,
and of the steps `EvictionIsFair`.
`IInv` adds `RunnerOwns`, that the marker of a key that lost no slot belongs to
the request that runs, and `WinnerStays`, that the response stored under such a
key is the one of the request that succeeded. `ReplaysAreFaithful` needs no assumption
on expiry or eviction. `EvictionIsFair` needs `SizeInv` (one eviction is enough to make room)
and that the victim exists: the order `Beats`, larger holdings first and a fixed rank among equals,
is total on the tenants that hold a slot.

**WindowLimitsProofs.** `TypeCorrect`, `HardCapIsExact`, `EveryCrossingIsAnnounced`,
`AlertsAreRaisedOnce`, `OvershootIsBounded`. The packed word forgets the past, so the
proof relates it to a history of what each window consumed (`ExactInv`). For the
alerts, a flag that is set stands for an announcement (`FlagInv`), `settle` visits the
daily budget before the monthly one (`OrderInv`), some request is still on its way to
the flag of a counter that has crossed and is not announced (`CrossInv`), and while a
flag is claimed in order the windows it fired for end with the one it holds
(`FiredInv`). The overshoot bound is not inductive in any form that speaks of the
window alone: a request passes the check in one window and settles in that one or a later one.
`OwedInv` bounds what a window was charged together with what every request that may
still debit it owes, a full response each, and `ClockInv` says that no word
or reading is ahead of the clock, so that nobody owes a window that has not begun.

### The write lanes of the cache

**WriteLanesProofs.** `LanesBalance`, `AppliedOnceInOrder`, and of the steps `FlushWaits`.
An operation moves from the channel to a pending cell or the writer's hand, so order is
a fact about the `Backlog` of a lane, what is in hand, pending and in the channel in
that order: a step leaves it alone, extends it at its end together with what was sent,
or takes its head together with what is applied. Bytes are a sum over the backlog and
over the threads that have reserved and not yet sent; tokens are counted over both
ready queues, the writer's turn and the threads that have won the bit. `FlushIsABarrier`
needs `BarrierInv`: in every lane the barriers of earlier flushes have been applied and
the current one is at most one and stands behind everything that was sent when the flush began,
so that as many acknowledgements as lanes mean that each lane applied its own.

### The decisions

**GatewayProofs**, second part: `AdmissionsAreEarned`, `CostsAreWellPriced`, `OrdersAreFair`,
`PlansAreBounded`, `SiblingsKeepTheirBooks`, and `DecisionsAreRight` for the conjunction the run checks. The only
invariant is that a question comes from the sets (`QuestionsAreAsked`); the work is in
showing that an algorithm keeps its promise for every input.

*Recursion.* The sums, the list of available candidates, the rounds of the weighted draw, the
flattening of pools and the doubling of a backoff are recursive functions. `RecursionExists`
shows that a function on `0..n` that obeys a given step exists: the longest table that obeys
it ends at `n`. `CountingUp` is induction over a set: what holds of 0 and passes from each
number below `n` to the next holds of `n`. Each recursive definition has one lemma that
unfolds it, and every fact about it is counted up from there.

- `AdmissionsAreEarned`. Whatever the registry: features are held back after the overrides were
  added and toggles are asked last, so neither an override nor a tier brings a held feature
  back; a native key wins over any bearer, and the console's key is used only in a session that verified.
- `CostsAreWellPriced`. The first of the matching rows sets the price. A pattern that matches
  has its pieces in the name (`MatchesArePieces`), and no row has all its pieces in the
  pattern of a later one, so each of the sixteen rows prices the name it is written for (`NoRowIsHidden`). `TablesDefaultHasARate` carries the
  rate of the default currency through the merge of file and built-in table.
- `OrdersAreFair`. For the sorted strategies each place has a rank, the number of places before it, and
  ranks are exactly `1..n` (`RanksAreTaken`), so the sort rearranges, sorts and
  is stable. A weighted draw moves one element from the pool to the result and a
  permutation of places stays one (`TakingOne`, `DrawTakesOne`); the picks that choose
  a place form a stretch as long as its weight (`ChosenByStretch`, `ChosenByWeight`).
  A rotation leads with the place the cursor points to, and `n` cursors in a row meet every remainder (`EveryRemainder`).
- `PlansAreBounded`. `Flattening` says that the flat list of a parsed configuration holds the
  leaves of each node in order at known offsets; so a leaf of the plan is a leaf of the
  tree, a plan names it no more often than it stands there (`NoMoreOften`), whatever the strategy of a pool did to
  the order, and the parser's cap on the flat list bounds the plan. Delays are bounded by
  the parser's cap on `max_ms`, retries by its cap on attempts, both also for a
  configuration that gives none. A shaped request is read back from an object in which every field has its type,
  so it is a request, and reading it back again changes nothing (`ReadBackOnce`); where nothing took
  effect, some value of the configuration or a dropped model made the overlay no request (`ShapedAsAWhole`).
- `SiblingsKeepTheirBooks`. `WalkIsRight` holds after every candidate: everyone asked is the
  tenant's to ask and stands in the order, each has one usage row, a success ends the walk and
  is the last row and the one settlement, nobody who answered with the endpoint's own 422 is in the
  reports to the breaker, and no attempt starts once the time is used up (`AttemptKeepsBooks`,
  carried along the walk by `WalkKeepsBooks`). Candidates bound to a region are the providers
  resident there (`EligibleAreListed`), and an order of them lists no one else
  (`OrdersAreLists`), so neither does the walk. The six endpoints differ in validation, in
  whose provider may be asked and in what is settled; `EveryServingIsACourse` brings them under
  one course.

### The services

**ServicesProofs** has a section and an inductive invariant for each service; the
theorems are about `ServicesSpec`, in which each behaviour is one of them.

- `BooksBalance` (`UsageInv`): the free permits of a lane, the events in it, in the
  writer's hand and with threads about to send add up to its share, and a ring is a
  suffix of what was retained.
- `LanesImplementLedger` (`LedgerInv`): the refinement, step by step. Each action maps
  to a step of `UsageLedger` or to a stutter; the abort of the writer settles a whole set of events at
  once. It needs that an event that is neither retained nor lost is in exactly
  one place. This is the safety part of `UsageSettlesOnce`; that nothing stays pending stays with TLC.
- `LearningIsKept`. `ThrottleInv`: unless a late failure was written over it, the slot
  of the present window holds its failures, and one of an older window has none of this
  one. `HealthInv`: a record in flight holds the object its provider still has, which is what a
  registration that copied the map too early, or made a new object, would break; each average is the run of its
  samples; a stamp in flight is not covered, and a wipe has seen its own fingerprint.
- `SessionsEndForGood` (`ConsoleInv`): the file is the snapshot but for the write that is
  about to be published, the writer holds the lock and writes the snapshot with one
  account one on, and every revoked version is behind the snapshot.
- `CacheKeepsToItsShare` (`CacheInv`): while shards are replaced one by one, what will be left
  fits the share and the victims are the tenant's own, expired or oldest.
- `RegistrySurvives` (`ProviderInv`): the live registry is the file's but for the swap that is
  due, only the holder of the lock has one due, and both have one entry to a name of an owner.
- `CapsHold`. `LimitInv` with the arithmetic of rounding up: `n` shares are the whole, within a unit
  each. `FleetInv`: a call's age is bounded by its place in the list of scopes (`Timely`), so a key
  lives until nobody of its minute asks any more (`KeysLast`), so it counts at least those
  it let pass (`PastCounted`) and at most those that called (`OnceCounted`); an orphaned call
  counts once at most because its request sends no other (`Orphaned`).

Each of the `focus = ... =>` properties is about the behaviours of that service; the
`services` run has behaviours of all eight.

### Left to TLC

- Liveness: `SelfHeals`, `PendingApplied`, `NotPinnedForever` and the fairness part of
  `UsageSettlesOnce`. The prover has no rules for fairness or ENABLED.
- `Content` and `Interfaces`, which put questions to the other stateless modules. Two of those
  modules (`OutputChecks`, `PromptRegistry`) have RECURSIVE operators, which cost the prover
  its arithmetic; the others fold operators over sequences of spans, lines, events and
  messages, which the prover sees as opaque functions.
- The properties that runs expect to fail, and the observations of section 5.


## 5. Observations not held to a run

- Embeddings, rerank, images and audio dispatch after `is_available` and take no
  permit, so a burst exceeds the half-open cap that `router/src/lib.rs:728`
  describes; `ProbeCap` is about permits.
- `open` stores the state before the stamp (`router/src/lib.rs:183-184`); a reader
  in between measures the cooldown from the previous opening and flips the
  breaker to HalfOpen at once, which the diagram at line 37 does not have.
- The stores of `close` are unconditional: a task that was delayed inside
  `record_success` may close a breaker that another has opened since. The diagram
  at `router/src/lib.rs:36-39` has no edge from Open to Closed.
- A settlement that is late by a window sets the alert flag back, and the alert
  may fire again (`limits/src/lib.rs:528`).
- Admission consumes scope by scope; a request denied by its second scope keeps
  the slot it took from the first.
- Start-up validation does not look at model limits (`routeplane/src/main.rs:543`);
  an invalid one is built as deny-all.
- A pool all of whose keys failed, but whose last retry ran out of deadline,
  charges the breaker nothing (`routeplane/src/proxy.rs:4870-4878`).
- A timeout set by the caller cools the tenant's own pool key
  (`routeplane/src/proxy.rs:5036`), although it is kept from the breaker.
- The guard of a stream is constructed inside the generator
  (`routeplane/src/proxy.rs:5922`): a body that is dropped before its first poll is
  neither settled nor recorded. A handler that is dropped while it establishes the
  stream records no decision either.
- After a pool whose last retry ran out of deadline the streaming path does
  charge the breaker (`routeplane/src/proxy.rs:5853`), unlike the buffered one.
- A hedged race uses the first key of a pool and charges per attempt, a boundary
  the code documents.
- Idempotency slots carry no owner: a holder that outlived its TTL or was evicted
  releases the reservation of the request that took the key over, although
  `cache/src/idempotency.rs:383` says "never clobber ... a different request's later
  reservation" (`ReleaseOwnOnly`, violated with the constants `OneAsk`).
- `try_consume` compares epochs for equality, so a request that is late by a window
  starts its old window again and what was counted since is forgotten;
  `limits/src/lib.rs:465` says "amount=1 is exact" (`AmountOneIsExact`, violated with
  `ThreeRequests`, `JustKey` and `OneRateCap`). Mode D falls back to the same counters.
  `RequestsExact`, which leaves such counters out, says nothing of this case.
- A policy whose only caps are in a display currency is taken for empty and is not enforced
  (`limits/src/lib.rs:287`), although line 1000 says "never a silently-uncapped spend" of the
  builder (`NeverUncapped`, violated). `CapsKeepTheirMeaning` is about every other policy.
- The parser checks the names of a target's parameters and not the types of their values. One
  wrong value undoes the whole shaping of the target (`policy/src/lib.rs:392`, `408`), the pinned
  model included, and the name of a combo goes to the provider, which line 413 says it never does
  (`PinsHold` and `ComboNameStaysInside`, violated). Dropping `model` does the same to the other parameters.
- The key of the cache holds provider names trimmed and in lower case, while dispatch looks the
  name up as it is written: a configuration whose provider is written otherwise can be served from the
  cache what it could not have asked for.
- `anthropic.rs:576-581` says the buffered path "emits the same OpenAI-canonical
  finish_reason as the streaming path"; with a tool call cut off by `max_tokens` the
  one says `length` and the other `tool_calls`. Cohere's `TOOL_CALL` without calls is
  `tool_calls` buffered and `stop` streamed (`FinishAgrees`, violated).
- A tracker is registered after the spawned upsert was awaited (`providers_api.rs:106-111`):
  a client that hangs up leaves a live provider without a breaker until the next upsert or
  restart (`LiveIsGuarded`, violated).
- A shared failure slot can forget: sign-in records with the time it read before the
  password was hashed (`console_api.rs:315`, `353`), and an older window written over the
  present one lets a source try more often, not sooner be refused, as
  `auth_failures.rs:29-31` has it (`SharedSlotOnlySooner`, violated).
- The key of a custom provider and its adapter come from two snapshots. A provider of a
  tenant takes over the models of an operator's provider of the same name. Loading the file
  repeats neither the reserved-name nor the address check.
- The global cap of a Mode D window is exact only while a key outlives the requests of its
  window: the second of grace must cover the number of scopes times the timeout, which
  `ROUTEPLANE_REDIS_TIMEOUT_MS` can exceed. `request_rate_specs` exports the global cap,
  while its comment says "share-clamped".
- The usage writer clears a stale token (`observability.rs:1208-1212`) as the cache writer
  does in `lanes_stale_token`, and can lose the same wake-up.
- A twelve-digit number that passes both check digits is left to the Aadhaar mask, and the
  my-number mask refuses it (`detect.rs:1585-1587`, "it is still masked"). One that starts with 0
  or 1 has no Aadhaar pattern and is masked by neither; the tokenising variant of the
  redaction masks some spans differently (`detect.rs:517-521`).
- Adapters: only the OpenAI one lifts `cached_tokens` in buffered answers, all do in
  streams; Gemini drops `tool_choice` and keys tool results by call id; Cohere drops `n` and a
  function `tool_choice`; Anthropic drops `response_format` and unsupported image types without
  an error; tool arguments that are not JSON become `{}`.
- `message.name` is masked and not classified, tool arguments are classified and not masked;
  the `prompt` of an audio request is neither.
- A buffered request whose client hangs up after admission leaves no usage record. Audio
  settles no units, images settle their count. `/v1/messages` drops tool blocks.
- A throttled request is not counted as a failure, and its Retry-After (up to 300 s) can
  exceed the window. Flags unknown to the snapshot count as released. Of two entries with the
  same virtual key the later wins. Without a cohort the first variant of a prompt answers even
  with weight 0. The trailing "Compiling" lines of a build log, three or fewer, vanish.

## 6. Plan

Proofs to add: `MessagesKeepTheText` for any blocks, then `CatalogueAgrees` and `ReportsAgree`.
They fold over long tables and filter sequences with the library's `SelectSeq` and
`FoldLeft`; each would first have to be unfolded by a recursive function like those of section 4.

Models to add: several `AttemptLoop`s over one `CircuitBreaker`; masking of a stream
chunk by chunk; the layering of configuration at start-up.
