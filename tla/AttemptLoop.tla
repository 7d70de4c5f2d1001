---------------------------- MODULE AttemptLoop ----------------------------
(***************************************************************************)
(* The attempt loop of one buffered chat request (crates/routeplane/src/    *)
(* proxy.rs): the walk over the ready targets, with the keys of a pool      *)
(* inside a target and the retries inside a key (attempt_target), or the    *)
(* hedged race over the same targets (run_hedged_targets), both under one   *)
(* Deadline that the caller may shorten with x-routeplane-timeout-ms.       *)
(*                                                                          *)
(* One action is one poll of an attempt: what the code does between two     *)
(* awaits.  The request's futures run in one task, so an attempt that ends  *)
(* and the loop that collects its outcome are one step, and the futures of  *)
(* a race that is won are dropped in the same step.                         *)
(*                                                                          *)
(* Time is in ticks.  Code takes no time, a timer that is due fires within  *)
(* Slack ticks, and a provider may answer at any time until then.  Whether  *)
(* the breaker admits an attempt is up to the other requests (the module    *)
(* CircuitBreaker has that part): an attempt may be turned away any time.   *)
(***************************************************************************)
EXTENDS Integers, FiniteSets, ProviderErrors

CONSTANTS
    NTargets,       \* ready targets, tried in the order 1..NTargets
    Pooled,         \* the targets whose provider key is a comma-separated pool
    PoolSize,       \* how many keys of each target resolve, 1 without a pool
    TargetTimeout,  \* timeout_ms of each target; PerAttempt or more for none
    MaxRetries,     \* retry.attempts
    Backoffs,       \* what backoff.delay may return
    RetryAfters,    \* the Retry-After of a 429, 0 for none
    Budget,         \* the request deadline after with_request_cap
    PerAttempt,     \* per_attempt_timeout
    ClientCaps,     \* x-routeplane-timeout-ms, 0 for an absent or ignored one
    Hedges,         \* hedge.max_extra, 0 for no hedging
    HedgeDelay,     \* hedge.delay
    Slack           \* how late a timer may fire

Target == 1..NTargets

ASSUME TargetsAssumption == NTargets \in Nat \ {0}
ASSUME PoolSizeAssumption ==
    Pooled \subseteq Target /\ PoolSize \in [Target -> Nat \ {0}]
ASSUME TargetTimeoutAssumption == TargetTimeout \in [Target -> Nat \ {0}]
ASSUME RetryAssumption ==
    MaxRetries \in Nat /\ OnStatus \subseteq {"RateLimited", "Upstream5xx"}
ASSUME DelaysAssumption == Backoffs \subseteq Nat /\ RetryAfters \subseteq Nat
ASSUME DeadlineAssumption ==
    Budget \in Nat \ {0} /\ PerAttempt \in Nat \ {0} /\ ClientCaps \subseteq Nat
ASSUME HedgeAssumption == Hedges \subseteq Nat /\ HedgeDelay \in Nat \ {0}
ASSUME SlackAssumption == Slack \in Nat

VARIABLES
    clock,
    expires,    \* Deadline.expires_at
    capped,     \* Deadline.client_capped
    extra,      \* max_extra of the plan's hedge, 0 for the sequential walk
    next,       \* the next target to launch
    hedgeAt,    \* when the hedge sleep of the select ends, Never without one
    st,         \* where the attempt of each target stands
    key,        \* its key in the pool order
    try,        \* its retries so far
    since,      \* when it was dispatched
    until,      \* when its timeout or its backoff sleep ends
    bounded,    \* client_bounded of its dispatch
    poolFault,  \* pool_health_failure
    rejected,   \* is last_client_status set?
    cooled,     \* pool keys cooled by this request
    fed,        \* record_failure calls per target
    samples,    \* record_latency calls per target
    reply,      \* what the client got
    genuine,    \* history: faults that are evidence about the provider
    measured,   \* history: attempts the caller's budget did not cut short
    refused,    \* history: keys whose last answer was a client-class 4xx
    notBefore   \* history: until when a 429 asked this key to wait

deadlineVars == <<expires, capped, extra>>
attemptVars == <<st, key, try, since, until, bounded>>
history == <<genuine, measured, refused, notBefore>>
vars == <<clock, deadlineVars, next, hedgeAt, attemptVars, poolFault, rejected,
          cooled, fed, samples, reply, history>>

Never == -1

Running == {"try", "sleep", "flight"}

TypeOK ==
    /\ clock \in Nat
    /\ expires \in 1..Budget /\ capped \in BOOLEAN /\ extra \in Hedges
    /\ next \in 2..(NTargets + 1)
    /\ hedgeAt \in Nat \cup {Never}
    /\ st \in [Target -> Running \cup {"idle", "out", "won", "dropped"}]
    /\ key \in [Target -> Nat]
    /\ \A i \in Target : key[i] \in 1..PoolSize[i]
    /\ try \in [Target -> 0..MaxRetries]
    /\ since \in [Target -> Nat]
    /\ until \in [Target -> Nat]
    /\ bounded \in [Target -> BOOLEAN]
    /\ poolFault \in BOOLEAN /\ rejected \in BOOLEAN
    /\ cooled \subseteq Target \X Nat
    /\ fed \in [Target -> Nat]
    /\ samples \in [Target -> Nat]
    /\ reply \in {"pending", "ok", "failed", "gone"}
    /\ genuine \in [Target -> Nat]
    /\ measured \in [Target -> Nat]
    /\ refused \subseteq Target \X Nat
    /\ notBefore \in [Target -> Nat]

-----------------------------------------------------------------------------
\* Deadline

Least(a, b) == IF a <= b THEN a ELSE b

\* with_client_request_cap: the header only ever shortens the budget.
ClientRequestCap(cap) ==
    IF cap > 0 /\ cap < Budget
    THEN expires = cap /\ capped = TRUE
    ELSE expires = Budget /\ capped = FALSE

Remaining == IF expires > clock THEN expires - clock ELSE 0

ServerAttemptBound(i) == Least(PerAttempt, TargetTimeout[i])

NextAttemptTimeout(i) == Least(Remaining, ServerAttemptBound(i))

\* The whole budget compared, not what is left of it at this dispatch.
BoundedMutant(i) == capped /\ expires < ServerAttemptBound(i)

\* attempt_bounded_by_client
AttemptBoundedByClient(i) == capped /\ NextAttemptTimeout(i) < ServerAttemptBound(i)

-----------------------------------------------------------------------------
\* Whose fault an error is

\* Every timeout taken for the caller's.
ClientTimeoutMutant(i, e) == e = "Timeout"

IsClientDeadlineTimeout(i, e) == bounded[i] /\ e = "Timeout"

\* A hedged attempt takes the first key of a pool as a single key.
IsPool(i) == extra = 0 /\ i \in Pooled

-----------------------------------------------------------------------------

Init ==
    /\ clock = 0
    /\ extra \in Hedges
    /\ \E cap \in ClientCaps : ClientRequestCap(cap)
    /\ next = 2
    /\ st = [i \in Target |-> IF i = 1 THEN "try" ELSE "idle"]
    /\ hedgeAt = IF extra > 0 /\ NTargets > 1 THEN HedgeDelay ELSE Never
    /\ key = [i \in Target |-> 1]
    /\ try = [i \in Target |-> 0]
    /\ since = [i \in Target |-> 0]
    /\ until = [i \in Target |-> 0]
    /\ bounded = [i \in Target |-> FALSE]
    /\ poolFault = FALSE
    /\ rejected = FALSE
    /\ cooled = {}
    /\ fed = [i \in Target |-> 0]
    /\ samples = [i \in Target |-> 0]
    /\ reply = "pending"
    /\ genuine = [i \in Target |-> 0]
    /\ measured = [i \in Target |-> 0]
    /\ refused = {}
    /\ notBefore = [i \in Target |-> 0]

Overdue(t) == clock >= t + Slack

\* Time passes while every future waits.
Tick ==
    /\ reply = "pending"
    /\ \A i \in Target :
         /\ st[i] # "try"
         /\ st[i] \in Running => ~Overdue(until[i])
    /\ hedgeAt # Never => ~Overdue(hedgeAt)
    /\ clock' = clock + 1
    /\ UNCHANGED <<deadlineVars, next, hedgeAt, attemptVars, poolFault, rejected,
                   cooled, fed, samples, reply, history>>

\* The head of the race's loop: can_hedge, and the sleep of the select.
Rearm ==
    LET racing == {j \in Target : st'[j] \in Running}
        canHedge == /\ extra > 0
                    /\ racing # {} /\ Cardinality(racing) <= extra
                    /\ next' <= NTargets
                    /\ Remaining > 0
    IN hedgeAt' = IF canHedge THEN clock + HedgeDelay ELSE Never

\* The pool walk with the record_failure inside the loop over the keys.
PoolFeedMutant(i, fault, lastKey) == IF IsPool(i) /\ fault THEN 1 ELSE 0

\* The single record_failure of a pool that is used up.
PoolFeed(i, fault, lastKey) ==
    IF IsPool(i) /\ lastKey /\ (poolFault \/ fault) THEN 1 ELSE 0

\* The race is given up with the last launch, whoever still runs.
MoveOnMutant(i, lastKey) ==
    \/ /\ ~lastKey
       /\ st' = [st EXCEPT ![i] = "try"]
       /\ key' = [key EXCEPT ![i] = @ + 1]
       /\ try' = [try EXCEPT ![i] = 0]
       /\ notBefore' = [notBefore EXCEPT ![i] = 0]
       /\ UNCHANGED <<next, reply>>
    \/ /\ lastKey /\ next <= NTargets
       /\ st' = [st EXCEPT ![i] = "out", ![next] = "try"]
       /\ next' = next + 1
       /\ UNCHANGED <<key, try, notBefore, reply>>
    \/ /\ lastKey /\ next > NTargets
       /\ st' = [st EXCEPT ![i] = "out"]
       /\ reply' = "failed"
       /\ UNCHANGED <<next, key, try, notBefore>>

\* The next key of the pool, the next target, or the end of the request.
MoveOn(i, lastKey) ==
    \/ /\ ~lastKey
       /\ st' = [st EXCEPT ![i] = "try"]
       /\ key' = [key EXCEPT ![i] = @ + 1]
       /\ try' = [try EXCEPT ![i] = 0]
       /\ notBefore' = [notBefore EXCEPT ![i] = 0]
       /\ UNCHANGED <<next, reply>>
    \/ /\ lastKey /\ next <= NTargets
       /\ st' = [st EXCEPT ![i] = "out", ![next] = "try"]
       /\ next' = next + 1
       /\ UNCHANGED <<key, try, notBefore, reply>>
    \/ /\ lastKey /\ next > NTargets
       /\ st' = [st EXCEPT ![i] = "out"]
       /\ reply' = IF \E j \in Target \ {i} : st[j] \in Running THEN reply ELSE "failed"
       /\ UNCHANGED <<next, key, try, notBefore>>

\* TargetOutcome::Exhausted, and what its caller does with it.
Exhausted(i, fault, clientError, feed) ==
    LET lastKey == ~IsPool(i) \/ key[i] = PoolSize[i] IN
    /\ poolFault' = (IsPool(i) /\ ~lastKey /\ (poolFault \/ fault))
    /\ fed' = [fed EXCEPT ![i] = @ + feed + PoolFeed(i, fault, lastKey)]
    /\ rejected' = (rejected \/ clientError)
    /\ refused' = IF clientError THEN refused \cup {<<i, key[i]>>} ELSE refused
    /\ MoveOn(i, lastKey)
    /\ Rearm

\* The breaker is open, the deadline is over, or the half-open cap is full:
\* the target is left without a call, and without blame.
Skip(i) ==
    /\ st[i] = "try"
    /\ Exhausted(i, FALSE, FALSE, 0)
    /\ UNCHANGED <<clock, deadlineVars, since, until, bounded, cooled, samples,
                   genuine, measured>>

\* The provider is called.
Dispatch(i) ==
    /\ st[i] = "try"
    /\ Remaining > 0
    /\ st' = [st EXCEPT ![i] = "flight"]
    /\ since' = [since EXCEPT ![i] = clock]
    /\ until' = [until EXCEPT ![i] = clock + NextAttemptTimeout(i)]
    /\ bounded' = [bounded EXCEPT ![i] = AttemptBoundedByClient(i)]
    /\ UNCHANGED <<clock, deadlineVars, next, hedgeAt, key, try, poolFault, rejected,
                   cooled, fed, samples, reply, history>>

\* The first Won ends the request and drops the other attempts.
Win(i) ==
    /\ st' = [j \in Target |-> IF j = i THEN "won"
                               ELSE IF st[j] \in Running THEN "dropped" ELSE st[j]]
    /\ reply' = "ok"
    /\ hedgeAt' = Never
    /\ samples' = [samples EXCEPT ![i] = @ + 1]
    /\ measured' = [measured EXCEPT ![i] = @ + 1]
    /\ cooled' = cooled \ {<<i, key[i]>>}
    /\ UNCHANGED <<clock, deadlineVars, next, key, try, since, until, bounded,
                   poolFault, rejected, fed, genuine, refused, notBefore>>

\* The Retry-After of a 429 forgotten.
DelayMutant(backoff, retryAfter) == backoff

Delay(backoff, retryAfter) == IF backoff >= retryAfter THEN backoff ELSE retryAfter

\* A backoff that may outlast the request.
WorthWaitingMutant(delay) == TRUE

WorthWaiting(delay) == delay < Remaining

\* Sleep, and try the same key again.
Retry(i, delay, retryAfter, feed) ==
    /\ st' = [st EXCEPT ![i] = IF delay = 0 THEN "try" ELSE "sleep"]
    /\ until' = [until EXCEPT ![i] = clock + delay]
    /\ try' = [try EXCEPT ![i] = @ + 1]
    /\ fed' = [fed EXCEPT ![i] = @ + feed]
    /\ notBefore' = [notBefore EXCEPT ![i] = clock + retryAfter]
    /\ UNCHANGED <<next, hedgeAt, key, poolFault, rejected, reply, refused>>

\* The failure arm of attempt_target.  A retry there is no time for ends the
\* key like a deadline stop, whatever its last error was.
Failed(i, e, retryAfter) ==
    LET ours == IsClientDeadlineTimeout(i, e)
        fault == CountsAsHealthFailure(e) /\ ~ours
        feed == IF fault /\ ~IsPool(i) THEN 1 ELSE 0
        again == IsRetryable(e) /\ try[i] < MaxRetries /\ Remaining > 0
    IN
    /\ samples' = IF ours THEN samples ELSE [samples EXCEPT ![i] = @ + 1]
    /\ cooled' = IF IsPool(i) /\ CoolsKey(e) THEN cooled \cup {<<i, key[i]>>} ELSE cooled
    /\ \/ /\ again
          /\ \E b \in Backoffs : LET delay == Delay(b, retryAfter) IN
               \/ /\ WorthWaiting(delay)
                  /\ Retry(i, delay, retryAfter, feed)
               \/ /\ ~WorthWaiting(delay)
                  /\ Exhausted(i, FALSE, FALSE, feed)
                  /\ UNCHANGED until
       \/ /\ ~again
          /\ Exhausted(i, fault, e = "BadRequest", feed)
          /\ UNCHANGED until
    /\ UNCHANGED <<clock, deadlineVars, since, bounded>>

\* The provider answers, with a response or with an error of its own.
Answer(i) ==
    /\ st[i] = "flight"
    /\ \/ Win(i)
       \/ \E e \in ErrorKind, ra \in RetryAfters :
            /\ e # "RateLimited" => ra = 0
            /\ Failed(i, e, ra)
            /\ measured' = [measured EXCEPT ![i] = @ + 1]
            /\ genuine' = IF CountsAsHealthFailure(e)
                          THEN [genuine EXCEPT ![i] = @ + 1] ELSE genuine

\* Would this attempt have been cut off here without the caller's header?
ServerLimit(i) == until[i] - since[i] >= Least(ServerAttemptBound(i), Budget - since[i])

\* tokio::time::timeout elapses.
TimeOut(i) ==
    /\ st[i] = "flight"
    /\ clock >= until[i]
    /\ Failed(i, "Timeout", 0)
    /\ LET one == IF ServerLimit(i) THEN 1 ELSE 0 IN
       /\ measured' = [measured EXCEPT ![i] = @ + one]
       /\ genuine' = [genuine EXCEPT ![i] = @ + one]

\* The backoff sleep is over.
Wake(i) ==
    /\ st[i] = "sleep"
    /\ clock >= until[i]
    /\ st' = [st EXCEPT ![i] = "try"]
    /\ UNCHANGED <<clock, deadlineVars, next, hedgeAt, key, try, since, until, bounded,
                   poolFault, rejected, cooled, fed, samples, reply, history>>

\* The race has been slow for hedge.delay: the next target joins it.
Hedge ==
    /\ reply = "pending"
    /\ hedgeAt # Never /\ clock >= hedgeAt
    /\ st' = [st EXCEPT ![next] = "try"]
    /\ next' = next + 1
    /\ Rearm
    /\ UNCHANGED <<clock, deadlineVars, key, try, since, until, bounded, poolFault,
                   rejected, cooled, fed, samples, reply, history>>

\* The client disconnects and the handler's future is dropped where it waits.
ClientGone ==
    /\ reply = "pending"
    /\ reply' = "gone"
    /\ st' = [j \in Target |-> IF st[j] \in Running THEN "dropped" ELSE st[j]]
    /\ hedgeAt' = Never
    /\ UNCHANGED <<clock, deadlineVars, next, key, try, since, until, bounded,
                   poolFault, rejected, cooled, fed, samples, history>>

\* The request is over.
Over == reply # "pending" /\ UNCHANGED vars

Step(i) == Skip(i) \/ Dispatch(i) \/ Answer(i) \/ TimeOut(i) \/ Wake(i)

Next == Tick \/ Hedge \/ ClientGone \/ Over \/ \E i \in Target : Step(i)

Spec == Init /\ [][Next]_vars

-----------------------------------------------------------------------------

\* "A caller-supplied deadline can only withhold signal from the shared breaker
\* and EWMA, never inject it": no target is charged with more failures, and no
\* more latencies are folded in, than providers answered or the server's own
\* limits cut off, over all the retries, keys and hedges of the request.
WithholdOnly ==
    \A i \in Target : fed[i] <= genuine[i] /\ samples[i] <= measured[i]

\* And without the header nothing is withheld: every fault of a single-key
\* target reaches the breaker and every attempt the latency average, retried
\* or not, whoever wins.
NoFaultHidden ==
    ~capped => \A i \in Target :
        /\ samples[i] = measured[i]
        /\ ~IsPool(i) => fed[i] = genuine[i]

\* A pool charges the shared breaker at most once per request, when its last
\* key is used up and some key met a real fault, and never if a key answered.
PoolFeedsOnce ==
    \A i \in Target : IsPool(i) =>
        /\ fed[i] <= 1
        /\ fed[i] = 1 => st[i] = "out" /\ key[i] = PoolSize[i] /\ genuine[i] > 0

\* A request fails only after every target, and every key of a pool, was taken
\* to its end, with hedging too, and a client-class 4xx among their last
\* answers decides the reply, however early it came.
NoTargetSkipped ==
    reply = "failed" =>
        /\ \A i \in Target : st[i] = "out" /\ (IsPool(i) => key[i] = PoolSize[i])
        /\ rejected <=> refused # {}

\* A retry waits as long as the 429 before it asked for.
RetryAfterHonoured ==
    \A i \in Target : st[i] = "flight" => since[i] >= notBefore[i]

\* The request is answered by its deadline, whatever the number of targets,
\* keys, retries and hedges: the timers all end by then.
DeadlineKept == reply = "pending" => clock <= expires + Slack

=============================================================================
