--------------------------- MODULE CircuitBreaker ---------------------------
(***************************************************************************)
(* The lock-free circuit breaker of crates/router/src/lib.rs, the in-flight *)
(* gauge beside it, and the request tasks that drive both.                  *)
(*                                                                          *)
(* Every atomic load, store, fetch_add and compare_exchange of the code is  *)
(* one action, so the tasks interleave exactly where the hardware lets      *)
(* them.  A task runs the cycle of attempt_target (crates/routeplane/src/   *)
(* proxy.rs): is_available, then try_enter_probe, the provider call, the    *)
(* release of the guard, and record_success or record_failure.  The sibling *)
(* endpoints (embeddings, rerank, images, audio) run the same cycle without *)
(* try_enter_probe: is_available is their only gate.                        *)
(*                                                                          *)
(* A retry of a target is a new cycle.  Pool keys record one failure after  *)
(* the walk of the pool; that is a record_failure which comes late.         *)
(***************************************************************************)
EXTENDS Integers, FiniteSets

CONSTANTS
    Task,              \* concurrent request tasks
    FailureThreshold,  \* failure_threshold
    SuccessThreshold,  \* success_threshold, and the half-open probe cap
    Cooldown,          \* cooldown_ms, in clock ticks
    MaxClock           \* bound: the clock stops here

ASSUME TaskAssumption == IsFiniteSet(Task)
ASSUME FailureThresholdAssumption == FailureThreshold \in Nat \ {0}
ASSUME SuccessThresholdAssumption == SuccessThreshold \in Nat \ {0}
ASSUME CooldownAssumption == Cooldown \in Nat
ASSUME MaxClockAssumption == MaxClock \in Nat

VARIABLES
    state,      \* the AtomicU8: "closed" 0, "half" 1, "open" 2
    failures,   \* consecutive failures, saturating at FailureThreshold
    successes,  \* successful trials, saturating at SuccessThreshold
    openedAt,   \* opened_at
    gauge,      \* InFlightGauge.count
    now,        \* the clock behind CircuitBreaker.now
    pc,         \* the next atomic operation of each task
    via,        \* which caller of state() a task is in: "avail" or "probe"
    cur,        \* a gauge value a task has loaded
    t           \* a clock value a task has read

breakerVars == <<state, failures, successes, openedAt>>
localVars == <<via, cur, t>>
vars == <<breakerVars, gauge, now, pc, localVars>>

CircuitState == {"closed", "half", "open"}

\* Where a task can stand.  The groups are, in order: between requests; inside
\* CircuitBreaker::state; admitted by is_available; inside try_enter_probe;
\* awaiting the provider; inside record_success, record_failure, open, close.
Pc == {"idle",
       "st_load", "st_now", "st_opened", "st_cas", "st_reset", "st_reload",
       "go_closed", "go_half",
       "pr_add", "pr_load", "pr_cas",
       "call", "trial", "bare",
       "ok_load", "ok_reset", "ok_add",
       "fail_load", "fail_add",
       "op_state", "op_now", "op_stamp", "op_succ",
       "cl_state", "cl_fail", "cl_succ"}

At(p) == {k \in Task : pc[k] = p}

\* Tasks that hold an InFlightGuard.
Guarded == {k \in Task : pc[k] \in {"call", "trial"}}

\* The counters are only compared with their thresholds and reset to 0, so
\* counting past the threshold is not told apart from staying on it.
Count(n, threshold) == IF n < threshold THEN n + 1 ELSE threshold

TypeOK ==
    /\ state \in CircuitState
    /\ failures \in 0..FailureThreshold
    /\ successes \in 0..SuccessThreshold
    /\ openedAt \in 0..MaxClock
    /\ gauge \in Nat
    /\ now \in 0..MaxClock
    /\ pc \in [Task -> Pc]
    /\ via \in [Task -> {"avail", "probe"}]
    /\ cur \in [Task -> Nat]
    /\ t \in [Task -> 0..MaxClock]

-----------------------------------------------------------------------------

Init ==
    /\ state = "closed"
    /\ failures = 0
    /\ successes = 0
    /\ openedAt = 0
    /\ gauge = 0
    /\ now = 0
    /\ pc = [k \in Task |-> "idle"]
    /\ via = [k \in Task |-> "avail"]
    /\ cur = [k \in Task |-> 0]
    /\ t = [k \in Task |-> 0]

Goto(k, p) == pc' = [pc EXCEPT ![k] = p]

\* The clock of the breaker advances.
Tick ==
    /\ now < MaxClock
    /\ now' = now + 1
    /\ UNCHANGED <<breakerVars, gauge, pc, localVars>>

\* HealthTracker::is_available: the argument of admits(), a load of the gauge,
\* is evaluated before the breaker state is read.
IsAvailable(k) ==
    /\ pc[k] = "idle"
    /\ cur' = [cur EXCEPT ![k] = gauge]
    /\ via' = [via EXCEPT ![k] = "avail"]
    /\ Goto(k, "st_load")
    /\ UNCHANGED <<breakerVars, gauge, now, t>>

\* What the caller of state() does with the answer s: admits() for
\* is_available, the match of try_enter_probe for the probe.
Answer(k, s) ==
    IF via[k] = "avail"
    THEN CASE s = "closed" -> "go_closed"
           [] s = "open" -> "idle"
           [] s = "half" -> IF cur[k] < SuccessThreshold THEN "go_half" ELSE "idle"
    ELSE CASE s = "closed" -> "pr_add"
           [] s = "open" -> "idle"
           [] s = "half" -> "pr_load"

\* state() returns s; the locals of the call are dead.
Return(k, s) ==
    /\ Goto(k, Answer(k, s))
    /\ via' = [via EXCEPT ![k] = "avail"]
    /\ cur' = [cur EXCEPT ![k] = 0]

\* CircuitBreaker::state: load the raw state ...
StateLoad(k) ==
    /\ pc[k] = "st_load"
    /\ \/ state = "open" /\ Goto(k, "st_now") /\ UNCHANGED <<via, cur>>
       \/ state # "open" /\ Return(k, state)
    /\ UNCHANGED <<breakerVars, gauge, now, t>>

\* ... if it is Open read the clock ...
StateNow(k) ==
    /\ pc[k] = "st_now"
    /\ t' = [t EXCEPT ![k] = now]
    /\ Goto(k, "st_opened")
    /\ UNCHANGED <<breakerVars, gauge, now, via, cur>>

\* saturating_sub on u64.
SatSub(a, b) == IF a >= b THEN a - b ELSE 0

\* A swapped subtraction: the cooldown never elapses.
StateOpenedMutant(k) ==
    /\ pc[k] = "st_opened"
    /\ \/ /\ SatSub(openedAt, t[k]) >= Cooldown
          /\ Goto(k, "st_cas")
          /\ UNCHANGED <<via, cur>>
       \/ /\ SatSub(openedAt, t[k]) < Cooldown
          /\ Return(k, "open")
    /\ t' = [t EXCEPT ![k] = 0]
    /\ UNCHANGED <<breakerVars, gauge, now>>

\* ... then opened_at, and compare the difference with the cooldown ...
StateOpened(k) ==
    /\ pc[k] = "st_opened"
    /\ \/ /\ SatSub(t[k], openedAt) >= Cooldown
          /\ Goto(k, "st_cas")
          /\ UNCHANGED <<via, cur>>
       \/ /\ SatSub(t[k], openedAt) < Cooldown
          /\ Return(k, "open")
    /\ t' = [t EXCEPT ![k] = 0]
    /\ UNCHANGED <<breakerVars, gauge, now>>

\* ... compare_exchange 2 -> 1 ...
StateCas(k) ==
    /\ pc[k] = "st_cas"
    /\ \/ state = "open" /\ state' = "half" /\ Goto(k, "st_reset")
       \/ state # "open" /\ state' = state /\ Goto(k, "st_reload")
    /\ UNCHANGED <<failures, successes, openedAt, gauge, now, localVars>>

\* ... the winner clears the trial successes and reports HalfOpen ...
StateReset(k) ==
    /\ pc[k] = "st_reset"
    /\ successes' = 0
    /\ Return(k, "half")
    /\ UNCHANGED <<state, failures, openedAt, gauge, now, t>>

\* ... the loser reads the state again and reports it.
StateReload(k) ==
    /\ pc[k] = "st_reload"
    /\ Return(k, state)
    /\ UNCHANGED <<breakerVars, gauge, now, t>>

\* An admitted chat or streaming attempt goes on to try_enter_probe.
TryEnterProbe(k) ==
    /\ pc[k] \in {"go_closed", "go_half"}
    /\ via' = [via EXCEPT ![k] = "probe"]
    /\ Goto(k, "st_load")
    /\ UNCHANGED <<breakerVars, gauge, now, cur, t>>

\* A sibling endpoint calls the provider with no guard and no permit.
DispatchBare(k) ==
    /\ pc[k] \in {"go_closed", "go_half"}
    /\ Goto(k, "bare")
    /\ UNCHANGED <<breakerVars, gauge, now, localVars>>

\* The request deadline is used up (or the check was a candidate filter).
GiveUp(k) ==
    /\ pc[k] \in {"go_closed", "go_half"}
    /\ Goto(k, "idle")
    /\ UNCHANGED <<breakerVars, gauge, now, localVars>>

\* try_enter_probe on a Closed breaker: unconditional fetch_add.
ProbeAdd(k) ==
    /\ pc[k] = "pr_add"
    /\ gauge' = gauge + 1
    /\ Goto(k, "call")
    /\ UNCHANGED <<breakerVars, now, localVars>>

\* try_enter_probe on a HalfOpen breaker: load the gauge and reject at the cap.
ProbeLoad(k) ==
    /\ pc[k] = "pr_load"
    /\ \/ gauge >= SuccessThreshold /\ Goto(k, "idle") /\ UNCHANGED cur
       \/ gauge < SuccessThreshold /\ Goto(k, "pr_cas") /\ cur' = [cur EXCEPT ![k] = gauge]
    /\ UNCHANGED <<breakerVars, gauge, now, via, t>>

\* The defect the CAS exists for: check and increment as two operations.
ProbeCasMutant(k) ==
    /\ pc[k] = "pr_cas"
    /\ gauge' = gauge + 1
    /\ Goto(k, "trial")
    /\ cur' = [cur EXCEPT ![k] = 0]
    /\ UNCHANGED <<breakerVars, now, via, t>>

\* compare_exchange_weak(cur, cur + 1): it may also fail spuriously.
ProbeCas(k) ==
    /\ pc[k] = "pr_cas"
    /\ \/ /\ gauge = cur[k]
          /\ gauge' = gauge + 1
          /\ Goto(k, "trial")
       \/ /\ gauge' = gauge
          /\ Goto(k, "pr_load")
    /\ cur' = [cur EXCEPT ![k] = 0]
    /\ UNCHANGED <<breakerVars, now, via, t>>

\* Two defects of the guard: a release skipped when the attempt is cancelled,
\* and a release on behalf of an attempt that never took a slot.
CallEndLeakMutant(k, next) ==
    /\ gauge' = IF pc[k] \in {"call", "trial"} /\ next # "idle" THEN gauge - 1 ELSE gauge
    /\ Goto(k, next)
    /\ UNCHANGED <<breakerVars, now, localVars>>

CallEndUnderflowMutant(k, next) ==
    /\ gauge' = gauge - 1
    /\ Goto(k, next)
    /\ UNCHANGED <<breakerVars, now, localVars>>

\* The provider call ends: InFlightGuard::drop releases the slot, if there is one.
CallEnd(k, next) ==
    /\ gauge' = IF pc[k] \in {"call", "trial"} THEN gauge - 1 ELSE gauge
    /\ Goto(k, next)
    /\ UNCHANGED <<breakerVars, now, localVars>>

\* Success, a health failure, or an end that feeds the breaker nothing: a 4xx,
\* a 429, the caller's own deadline, or the future dropped at its await.
Finish(k) ==
    /\ pc[k] \in {"call", "trial", "bare"}
    /\ \E next \in {"ok_load", "fail_load", "idle"} : CallEnd(k, next)

-----------------------------------------------------------------------------
\* record_success

OkLoad(k) ==
    /\ pc[k] = "ok_load"
    /\ Goto(k, IF state = "half" THEN "ok_add" ELSE "ok_reset")
    /\ UNCHANGED <<breakerVars, gauge, now, localVars>>

OkReset(k) ==
    /\ pc[k] = "ok_reset"
    /\ failures' = 0
    /\ Goto(k, "idle")
    /\ UNCHANGED <<state, successes, openedAt, gauge, now, localVars>>

\* Closing one success late.
OkAddMutant(k) ==
    /\ pc[k] = "ok_add"
    /\ successes' = Count(successes, SuccessThreshold)
    /\ Goto(k, IF successes >= SuccessThreshold THEN "cl_state" ELSE "idle")
    /\ UNCHANGED <<state, failures, openedAt, gauge, now, localVars>>

OkAdd(k) ==
    /\ pc[k] = "ok_add"
    /\ successes' = Count(successes, SuccessThreshold)
    /\ Goto(k, IF successes' >= SuccessThreshold THEN "cl_state" ELSE "idle")
    /\ UNCHANGED <<state, failures, openedAt, gauge, now, localVars>>

\* record_failure

FailLoad(k) ==
    /\ pc[k] = "fail_load"
    /\ Goto(k, IF state = "half" THEN "op_state" ELSE "fail_add")
    /\ UNCHANGED <<breakerVars, gauge, now, localVars>>

FailAdd(k) ==
    /\ pc[k] = "fail_add"
    /\ failures' = Count(failures, FailureThreshold)
    /\ Goto(k, IF failures' >= FailureThreshold THEN "op_state" ELSE "idle")
    /\ UNCHANGED <<state, successes, openedAt, gauge, now, localVars>>

\* open(): three stores, the middle one of a clock value read just before it.
OpenState(k) ==
    /\ pc[k] = "op_state"
    /\ state' = "open"
    /\ Goto(k, "op_now")
    /\ UNCHANGED <<failures, successes, openedAt, gauge, now, localVars>>

OpenNow(k) ==
    /\ pc[k] = "op_now"
    /\ t' = [t EXCEPT ![k] = now]
    /\ Goto(k, "op_stamp")
    /\ UNCHANGED <<breakerVars, gauge, now, via, cur>>

OpenStamp(k) ==
    /\ pc[k] = "op_stamp"
    /\ openedAt' = t[k]
    /\ t' = [t EXCEPT ![k] = 0]
    /\ Goto(k, "op_succ")
    /\ UNCHANGED <<state, failures, successes, gauge, now, via, cur>>

OpenSucc(k) ==
    /\ pc[k] = "op_succ"
    /\ successes' = 0
    /\ Goto(k, "idle")
    /\ UNCHANGED <<state, failures, openedAt, gauge, now, localVars>>

\* close() that forgets the failure count.
CloseFailuresMutant(k) ==
    /\ pc[k] = "cl_fail"
    /\ Goto(k, "cl_succ")
    /\ UNCHANGED <<breakerVars, gauge, now, localVars>>

\* close(): three stores.
CloseState(k) ==
    /\ pc[k] = "cl_state"
    /\ state' = "closed"
    /\ Goto(k, "cl_fail")
    /\ UNCHANGED <<failures, successes, openedAt, gauge, now, localVars>>

CloseFailures(k) ==
    /\ pc[k] = "cl_fail"
    /\ failures' = 0
    /\ Goto(k, "cl_succ")
    /\ UNCHANGED <<state, successes, openedAt, gauge, now, localVars>>

CloseSucc(k) ==
    /\ pc[k] = "cl_succ"
    /\ successes' = 0
    /\ Goto(k, "idle")
    /\ UNCHANGED <<state, failures, openedAt, gauge, now, localVars>>

-----------------------------------------------------------------------------

Step(k) ==
    \/ IsAvailable(k)
    \/ StateLoad(k) \/ StateNow(k) \/ StateOpened(k)
    \/ StateCas(k) \/ StateReset(k) \/ StateReload(k)
    \/ TryEnterProbe(k) \/ DispatchBare(k) \/ GiveUp(k)
    \/ ProbeAdd(k) \/ ProbeLoad(k) \/ ProbeCas(k)
    \/ Finish(k)
    \/ OkLoad(k) \/ OkReset(k) \/ OkAdd(k)
    \/ FailLoad(k) \/ FailAdd(k)
    \/ OpenState(k) \/ OpenNow(k) \/ OpenStamp(k) \/ OpenSucc(k)
    \/ CloseState(k) \/ CloseFailures(k) \/ CloseSucc(k)

Next == Tick \/ \E k \in Task : Step(k)

Spec == Init /\ [][Next]_vars

\* The clock runs, the runtime schedules every task, requests keep coming (an
\* idle task starts its next one) and every provider call ends, because it runs
\* under tokio::time::timeout.  Which way a call ends is not assumed.
Fairness == WF_vars(Tick) /\ \A k \in Task : WF_vars(Step(k))

FairSpec == Spec /\ Fairness

-----------------------------------------------------------------------------
\* Safety

\* The gauge counts exactly the attempts that hold a guard, however they end:
\* InFlightGuard is taken once and released once on every path, cancellation
\* included, so the gauge can neither leak nor wrap below zero.
GaugeBalanced == gauge = Cardinality(Guarded)

\* The hard half-open cap of try_enter_probe: of the attempts that reserved a
\* probe permit, at most success_threshold are in flight, although the check
\* of the breaker state and the reservation are separate operations and calls
\* admitted by a Closed breaker share the gauge.
ProbeCap == Cardinality(At("trial")) <= SuccessThreshold

\* A Closed breaker never rests on a tripped failure count.  The stores of
\* open() and close() interleave, yet whenever the breaker reads Closed with
\* failure_threshold failures counted, a task is about to open it or about to
\* clear the count: no interleaving strands the breaker in the state where it
\* should have opened and nobody will open it.
TrippedIsTransient ==
    state = "closed" /\ failures = FailureThreshold =>
        At("op_state") \cup At("cl_fail") # {}

\* A HalfOpen breaker never rests on enough successful trials: a task is about
\* to close it, or the winner of the Open -> HalfOpen exchange has still to
\* clear the count an earlier window left behind.
HealedIsTransient ==
    state = "half" /\ successes = SuccessThreshold =>
        At("cl_state") \cup At("st_reset") # {}

-----------------------------------------------------------------------------
\* Liveness, under FairSpec

CooledBy(time) == openedAt + Cooldown <= time

\* The breaker heals by being read: an Open breaker whose cooldown ends within
\* the modelled time leaves Open, or a late failure stamps it again.
SelfHeals == (state = "open" /\ CooledBy(MaxClock)) ~> (state # "open" \/ ~CooledBy(MaxClock))

=============================================================================
