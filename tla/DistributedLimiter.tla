------------------------- MODULE DistributedLimiter -------------------------
(***************************************************************************)
(* Mode D, the opt-in request limiter of a fleet of replicas                *)
(* (crates/limits/src/distributed.rs): the minute's requests are counted in *)
(* Redis by a script, one call per scope, each under a timeout; on any      *)
(* failure the replica's own counters (Mode L) decide, or the request is    *)
(* refused.  A call that was given up may still reach Redis.                *)
(*                                                                          *)
(* The counters of a replica are taken as one step here; WindowLimits takes *)
(* them apart.  Budgets are checked there too: here check_only may refuse.  *)
(***************************************************************************)
EXTENDS Integers, Sequences, FiniteSets

CONSTANTS
    Requests, Replicas,
    Specs,        \* request_rate_specs: the scopes of a request, in order
    Limit,        \* the configured cap of a scope,
    ReplicaShare, \*   and the part of it one replica enforces on its own
    Hard,         \* scopes in hard mode
    Fallbacks,    \* DistributedFallback: "open" or "closed"
    Window, Grace, Timeout,   \* the minute, the second a key outlives it, one call's time
    MaxClock      \* bound: how long a behaviour lasts

VARIABLES clock, fallback,
    redis,       \* the keys that exist: (scope, epoch) -> count and time of expiry
    orphans,     \* calls given up by their requests and not yet run
    slots,       \* the request counter of each scope on each replica
    req, back    \* history: the counters an older epoch has been written to
vars == <<clock, fallback, redis, orphans, slots, req, back>>

Scopes == {Specs[i] : i \in DOMAIN Specs}

\* What the constants are: a request has a scope to count, each once, and the calls it makes
\* end within the second a key outlives its minute, as they do unless
\* ROUTEPLANE_REDIS_TIMEOUT_MS is set far above its 50.
Configured ==
    /\ IsFiniteSet(Requests)
    /\ Specs \in Seq(Scopes) /\ Specs # <<>>
    /\ \A i, j \in DOMAIN Specs : Specs[i] = Specs[j] => i = j
    /\ \A s \in Scopes : Limit[s] \in Nat /\ ReplicaShare[s] \in Nat
    /\ Window \in Nat \ {0} /\ {Grace, Timeout, MaxClock} \subseteq Nat
    /\ Len(Specs) * Timeout <= Grace
Epoch(now) == now \div Window
Idle == [pc |-> "idle"]
Ended(q, pc) == [q EXCEPT !.pc = pc, !.since = 0, !.count = 0]

Init ==
    /\ clock = 0 /\ redis = <<>> /\ orphans = {} /\ back = {}
    /\ fallback \in Fallbacks
    /\ slots = [x \in Replicas \X Scopes |-> [e |-> 0, c |-> 0]]
    /\ req = [r \in Requests |-> Idle]

\* A call for the i-th scope of a request that began at now.
Sent(at, now, i) == [pc |-> "sent", at |-> at, now |-> now, i |-> i, since |-> clock, count |-> 0]

\* admit: the local check of budgets and token rates, then the first call.
Admit(r) ==
    /\ req[r] = Idle
    /\ \E at \in Replicas :
           \/ req' = [req EXCEPT ![r] = Sent(at, clock, 1)]
           \/ req' = [req EXCEPT ![r] = Ended(Sent(at, clock, 1), "denied")]
    /\ UNCHANGED <<clock, fallback, redis, orphans, slots, back>>

-----------------------------------------------------------------------------
\* counter_key and the arguments of the script.
ttl_msMutant(now) == Window - (now % Window)
ttl_ms(now) == Window - (now % Window) + Grace
Call(r) == [by |-> r, key |-> <<Specs[req[r].i], Epoch(req[r].now)>>, ttl |-> ttl_ms(req[r].now)]

\* RATE_INCR_SCRIPT: only a new key gets a time to live.
Incremented(call) ==
    IF call.key \in DOMAIN redis THEN [redis EXCEPT ![call.key].count = @ + 1]
    ELSE [k \in DOMAIN redis \cup {call.key} |->
              IF k = call.key THEN [count |-> 1, expires |-> clock + call.ttl] ELSE redis[k]]

RunScript(r) ==
    /\ req[r].pc = "sent"
    /\ redis' = Incremented(Call(r))
    /\ req' = [req EXCEPT ![r].pc = "ran", ![r].count = redis'[Call(r).key].count]
    /\ UNCHANGED <<clock, fallback, orphans, slots, back>>

RunOrphan ==
    /\ \E call \in orphans : redis' = Incremented(call) /\ orphans' = orphans \ {call}
    /\ UNCHANGED <<clock, fallback, slots, req, back>>

\* The reply is there in time: refuse, call for the next scope, or admit.
Refuses(r) == Specs[req[r].i] \in Hard /\ req[r].count > Limit[Specs[req[r].i]]
Reply(r) ==
    /\ req[r].pc = "ran"
    /\ req' = [req EXCEPT ![r] =
                 IF Refuses(r) THEN Ended(req[r], "denied")
                 ELSE IF req[r].i = Len(Specs) THEN Ended(req[r], "admitted")
                 ELSE Sent(req[r].at, req[r].now, req[r].i + 1)]
    /\ UNCHANGED <<clock, fallback, redis, orphans, slots, back>>

-----------------------------------------------------------------------------
\* consume_request, scope after scope until one is full.
Base(s, r) == IF slots[<<req[r].at, s>>].e = Epoch(req[r].now) THEN slots[<<req[r].at, s>>].c ELSE 0
Full(s, r) == s \in Hard /\ Base(s, r) >= ReplicaShare[s]
Reached(r) == {i \in DOMAIN Specs : \A j \in 1..i-1 : ~Full(Specs[j], r)}
Consumed(r) == {<<req[r].at, Specs[i]>> : i \in {j \in Reached(r) : ~Full(Specs[j], r)}}

\* decide_failure: Mode L with the time the request began, its check of the budgets once
\* more included, or a refusal.
DecideFailure(r) ==
    \E checked \in BOOLEAN :
        LET taken == IF fallback = "open" /\ checked THEN Consumed(r) ELSE {}
            e == Epoch(req[r].now)
        IN  /\ slots' = [x \in DOMAIN slots |-> IF x \in taken THEN [e |-> e, c |-> Base(x[2], r) + 1] ELSE slots[x]]
            /\ back' = back \cup {x \in taken : slots[x].e > e}
            /\ req' = [req EXCEPT ![r] = Ended(@, IF Cardinality(taken) = Len(Specs) THEN "local" ELSE "denied")]

\* A timeout or an error; the call may have been lost, or be still on its way.
Fail(r) ==
    /\ req[r].pc \in {"sent", "ran"}
    /\ \E lost \in BOOLEAN :
           orphans' = IF lost \/ req[r].pc = "ran" THEN orphans ELSE orphans \cup {Call(r)}
    /\ DecideFailure(r)
    /\ UNCHANGED <<clock, fallback, redis>>

\* Time passes, but no call is waited for longer than its timeout; keys expire.
Tick ==
    /\ clock < MaxClock
    /\ \A r \in Requests : req[r].pc \in {"sent", "ran"} => clock - req[r].since < Timeout
    /\ clock' = clock + 1
    /\ LET left == {k \in DOMAIN redis : redis[k].expires > clock'} IN redis' = [k \in left |-> redis[k]]
    /\ UNCHANGED <<fallback, orphans, slots, req, back>>

Next == Tick \/ RunOrphan \/ \E r \in Requests : Admit(r) \/ RunScript(r) \/ Reply(r) \/ Fail(r)
Spec == Init /\ [][Next]_vars

-----------------------------------------------------------------------------
By(pc, e) == {r \in Requests : req[r].pc = pc /\ Epoch(req[r].now) = e}

\* The cap is "globally exact": whatever is timed out, late or counted after its request
\* was answered, no window admits more through Redis than the configured limit of each
\* hard scope, and no replica lets through more on its own than its share -- except where
\* an older window was written over the present one (see WindowLimits) (distributed.rs).
FleetCap ==
    \A e \in 0..Epoch(MaxClock), s \in Hard \cap Scopes :
        /\ Cardinality(By("admitted", e)) <= Limit[s]
        /\ \A at \in Replicas : <<at, s>> \notin back =>
               Cardinality({r \in By("local", e) : req[r].at = at}) <= ReplicaShare[s]
        /\ fallback = "closed" => By("local", e) = {}

\* A request counts at most once against a scope, though its call may have run after
\* it was given up: capacity is not eaten by retries nobody made.
CountedOnce ==
    \A k \in DOMAIN redis :
        redis[k].count <= Cardinality({r \in Requests :
            req[r] # Idle /\ Epoch(req[r].now) = k[2] /\ \E i \in 1..req[r].i : Specs[i] = k[1]})
=============================================================================
