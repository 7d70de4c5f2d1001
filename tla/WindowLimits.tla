---------------------------- MODULE WindowLimits ----------------------------
(***************************************************************************)
(* Rate limits and budgets of crates/limits/src/lib.rs: the packed           *)
(* (epoch, count) window counters, the spend-alert flags, and the requests   *)
(* that check, consume and settle them.                                      *)
(*                                                                           *)
(* A request reads the clock once for admit and once for settle, and carries *)
(* the reading through every counter it touches, so a request that was slow  *)
(* to get there works with the epoch of a window that has ended.  try_consume *)
(* debit and try_fire are compare-exchange loops on one word: the exchange   *)
(* that succeeds is one atomic read-modify-write, and each of them is one    *)
(* action.  A peek is a load, and an action of its own wherever something    *)
(* may happen between it and its use.                                        *)
(***************************************************************************)
EXTENDS Integers, FiniteSets

CONSTANTS
    Request,    \* concurrent requests
    Scope,      \* the limit scopes: keys, tenants, (key, model) pairs
    Rank,       \* Rank[s]: 0 for a key, 1 for a tenant, 2 for a model scope
    Guards,     \* the sets of scopes a request may resolve to (LimitGuards)
    Limit,      \* Limit[s][m]: the clamped cap of meter m, or Unlimited
    Unlimited,  \* the Option::None of a cap
    RateHard,   \* scopes whose rate_mode is Hard
    BudgetHard, \* scopes whose budget_mode is Hard
    Threshold,  \* Threshold[s]: soft_threshold_permille, or Unlimited
    Usage,      \* the [tokens, cost] a response may be settled with
    EpochOf,    \* EpochOf[m][time]: which window of meter m the instant is in
    CountMask,  \* where a count saturates
    MaxClock,   \* bound: the clock stops here
    MaxArrivals \* bound: how many requests arrive in all

\* The six counters of ScopeCounters, in the order check and settle visit them.
Meter == {"req", "tok_rate", "cost_daily", "cost_monthly", "tok_daily", "tok_monthly"}
CostMeter == {"cost_daily", "cost_monthly"}
Place == [req |-> 0, tok_rate |-> 1, cost_daily |-> 2, cost_monthly |-> 3,
          tok_daily |-> 4, tok_monthly |-> 5]
Counter == Scope \X Meter
Time == 0..MaxClock
\* Windows are numbered; 0 is the window of the zero word, long past.
Window == 0..(MaxClock + 1)

ASSUME UnlimitedAssumption == Unlimited \notin Nat
ASSUME MaxClockAssumption == MaxClock \in Nat /\ MaxArrivals \in Nat
ASSUME CountMaskAssumption == CountMask \in Nat
ASSUME RequestAssumption == IsFiniteSet(Request)
ASSUME RankAssumption == Rank \in [Scope -> 0..2]
ASSUME GuardsAssumption == \A g \in Guards : g \subseteq Scope
ASSUME ModeAssumption == RateHard \subseteq Scope /\ BudgetHard \subseteq Scope
\* from_policy clamps every cap to COUNT_MASK and the threshold to 1000.
ASSUME LimitAssumption == Limit \in [Scope -> [Meter -> (0..CountMask) \cup {Unlimited}]]
ASSUME ThresholdAssumption == Threshold \in [Scope -> (0..1000) \cup {Unlimited}]
\* Token counts and costs are u64, so there are finitely many.
ASSUME UsageAssumption ==
    Usage \subseteq [tokens : Nat, cost : Nat] /\ Usage # {} /\ IsFiniteSet(Usage)
ASSUME EpochAssumption == EpochOf \in [Meter -> [Time -> Window \ {0}]]
\* Minutes, days and months follow one another.
ASSUME CalendarAssumption ==
    \A m \in Meter, t1, t2 \in Time : t1 <= t2 => EpochOf[m][t1] <= EpochOf[m][t2]

VARIABLES
    ctr,    \* ctr[p]: the unpacked word of WindowCounter p
    flag,   \* flag[p]: the epoch for which AlertFlag p is set, or Unlimited
    clock,  \* now_unix_ms()
    arrived, \* requests so far
    pc,     \* what each request is doing
    scopes, \* its LimitGuards
    t,      \* its clock reading: admit_now, then settle_now
    usage,  \* what it settles
    todo,   \* the counters the present phase has still to visit
    at,     \* the cost counter whose alert it is deciding
    told,   \* the scopes whose settle has returned an alert already
    \* history, which no action reads
    used,   \* used[p][e]: what was counted against window e of counter p
    fired,  \* fired[p][e]: how often AlertFlag p fired for window e
    back,   \* the counters ever set back to an earlier window
    fback   \* the alert flags ever set back to an earlier window

local == <<pc, scopes, t, usage, todo, at, told>>
history == <<used, fired, back, fback>>
vars == <<ctr, flag, clock, arrived, local, history>>

Phase == {"idle", "check", "consume", "call", "settle", "peek", "fire"}

TypeOK ==
    /\ ctr \in [Counter -> [e : Window, c : 0..CountMask]]
    /\ flag \in [Scope \X CostMeter -> Window \cup {Unlimited}]
    /\ clock \in Time
    /\ arrived \in 0..MaxArrivals
    /\ pc \in [Request -> Phase]
    /\ scopes \in [Request -> SUBSET Scope]
    /\ t \in [Request -> Time]
    /\ usage \in [Request -> [tokens : Nat, cost : Nat]]
    /\ todo \in [Request -> SUBSET Counter]
    /\ at \in [Request -> Counter \cup {Unlimited}]
    /\ told \in [Request -> SUBSET Scope]
    /\ used \in [Counter -> [Window -> Nat]]
    /\ fired \in [Scope \X CostMeter -> [Window -> Nat]]
    /\ back \subseteq Counter
    /\ fback \subseteq Scope \X CostMeter

Nothing == [tokens |-> 0, cost |-> 0]

\* WindowCounter::new and AlertFlag::new are the zero word: epoch 0, nothing
\* counted, not fired.
Init ==
    /\ ctr = [p \in Counter |-> [e |-> 0, c |-> 0]]
    /\ flag = [p \in Scope \X CostMeter |-> Unlimited]
    /\ clock = 0
    /\ arrived = 0
    /\ pc = [r \in Request |-> "idle"]
    /\ scopes = [r \in Request |-> {}]
    /\ t = [r \in Request |-> 0]
    /\ usage = [r \in Request |-> Nothing]
    /\ todo = [r \in Request |-> {}]
    /\ at = [r \in Request |-> Unlimited]
    /\ told = [r \in Request |-> {}]
    /\ used = [p \in Counter |-> [e \in Window |-> 0]]
    /\ fired = [p \in Scope \X CostMeter |-> [e \in Window |-> 0]]
    /\ back = {}
    /\ fback = {}

-----------------------------------------------------------------------------

\* minute_epoch, day_epoch and month_epoch.
Epoch(p, time) == EpochOf[p[2]][time]

Cap(p) == Limit[p[1]][p[2]]
Configured(p) == Cap(p) # Unlimited

IsHard(p) == IF p[2] \in {"req", "tok_rate"} THEN p[1] \in RateHard ELSE p[1] \in BudgetHard

\* WindowCounter::peek
Peek(p, epoch) == IF ctr[p].e = epoch THEN ctr[p].c ELSE 0

Saturate(n) == IF n <= CountMask THEN n ELSE CountMask

\* The visiting order: scope by scope, key before tenant before model.
Before(p, q) ==
    \/ Rank[p[1]] < Rank[q[1]]
    \/ Rank[p[1]] = Rank[q[1]] /\ Place[p[2]] <= Place[q[2]]

\* Of the counters r has still to visit, p is the next.
Visits(r, p) == \A q \in todo[r] : Before(p, q)

\* What check visits: token rate and budgets, where they are caps and hard.
CheckPlan(g) == {p \in g \X (Meter \ {"req"}) : Configured(p) /\ IsHard(p)}
ConsumePlan(g) == {p \in g \X {"req"} : Configured(p)}
SettlePlan(g) == {p \in g \X (Meter \ {"req"}) : Configured(p)}

\* The successful exchange of try_consume and debit: count on in the window of
\* epoch, which becomes the window of the word, earlier or later.
Add(p, epoch, amount) ==
    /\ ctr' = [ctr EXCEPT ![p] = [e |-> epoch, c |-> Saturate(Peek(p, epoch) + amount)]]
    /\ used' = [used EXCEPT ![p][epoch] = @ + amount]
    /\ back' = IF epoch < ctr[p].e THEN back \cup {p} ELSE back

Phased(r, phase, plan) ==
    /\ pc' = [pc EXCEPT ![r] = phase]
    /\ todo' = [todo EXCEPT ![r] = plan]

-----------------------------------------------------------------------------

Tick ==
    /\ clock < MaxClock
    /\ clock' = clock + 1
    /\ UNCHANGED <<ctr, flag, arrived, local, history>>

\* The guards are resolved and admit starts.
Admit(r) ==
    /\ pc[r] = "idle"
    /\ arrived < MaxArrivals
    /\ arrived' = arrived + 1
    /\ \E g \in Guards :
         /\ scopes' = [scopes EXCEPT ![r] = g]
         /\ Phased(r, "check", CheckPlan(g))
    /\ t' = [t EXCEPT ![r] = clock]
    /\ UNCHANGED <<ctr, flag, clock, usage, at, told, history>>

\* A denied request, or one whose settle is over, leaves nothing behind.
Leave(r) ==
    /\ Phased(r, "idle", {})
    /\ scopes' = [scopes EXCEPT ![r] = {}]
    /\ t' = [t EXCEPT ![r] = 0]
    /\ usage' = [usage EXCEPT ![r] = Nothing]
    /\ at' = [at EXCEPT ![r] = Unlimited]
    /\ told' = [told EXCEPT ![r] = {}]

\* check with > for >=: a budget that is used up still admits.
CheckMutant(r) ==
    /\ pc[r] = "check"
    /\ \E p \in todo[r] :
       /\ Visits(r, p)
       /\ \/ /\ Peek(p, Epoch(p, t[r])) > Cap(p)
             /\ Leave(r)
          \/ /\ Peek(p, Epoch(p, t[r])) <= Cap(p)
             /\ Phased(r, "check", todo[r] \ {p})
             /\ UNCHANGED <<scopes, t, usage, at, told>>
    /\ UNCHANGED <<ctr, flag, clock, arrived, history>>

\* ScopeCounters::check: the next cap is compared with a load of its counter.
Check(r) ==
    /\ pc[r] = "check"
    /\ \E p \in todo[r] :
       /\ Visits(r, p)
       /\ \/ /\ Peek(p, Epoch(p, t[r])) >= Cap(p)
             /\ Leave(r)
          \/ /\ Peek(p, Epoch(p, t[r])) < Cap(p)
             /\ Phased(r, "check", todo[r] \ {p})
             /\ UNCHANGED <<scopes, t, usage, at, told>>
    /\ UNCHANGED <<ctr, flag, clock, arrived, history>>

\* Every scope passed phase 1.
StartConsume(r) ==
    /\ pc[r] = "check"
    /\ todo[r] = {}
    /\ Phased(r, "consume", ConsumePlan(scopes[r]))
    /\ UNCHANGED <<ctr, flag, clock, arrived, scopes, t, usage, at, told, history>>

\* try_consume with > for >=: one request too many fits.
ConsumeMutant(r) ==
    /\ pc[r] = "consume"
    /\ \E p \in todo[r] :
       LET epoch == Epoch(p, t[r]) IN
       /\ Visits(r, p)
       /\ \/ /\ IsHard(p) /\ Peek(p, epoch) > Cap(p)
             /\ Leave(r)
             /\ UNCHANGED <<ctr, used, back>>
          \/ /\ ~IsHard(p) \/ Peek(p, epoch) <= Cap(p)
             /\ Add(p, epoch, 1)
             /\ Phased(r, "consume", todo[r] \ {p})
             /\ UNCHANGED <<scopes, t, usage, at, told>>
    /\ UNCHANGED <<flag, clock, arrived, fired, fback>>

\* consume_request for the next scope: a full hard window denies the request,
\* and what it consumed in the scopes before stays consumed.
Consume(r) ==
    /\ pc[r] = "consume"
    /\ \E p \in todo[r] :
       LET epoch == Epoch(p, t[r]) IN
       /\ Visits(r, p)
       /\ \/ /\ IsHard(p) /\ Peek(p, epoch) >= Cap(p)
             /\ Leave(r)
             /\ UNCHANGED <<ctr, used, back>>
          \/ /\ ~IsHard(p) \/ Peek(p, epoch) < Cap(p)
             /\ Add(p, epoch, 1)
             /\ Phased(r, "consume", todo[r] \ {p})
             /\ UNCHANGED <<scopes, t, usage, at, told>>
    /\ UNCHANGED <<flag, clock, arrived, fired, fback>>

\* Admission::Allowed: the provider is called.
Dispatch(r) ==
    /\ pc[r] = "consume"
    /\ todo[r] = {}
    /\ Phased(r, "call", {})
    /\ UNCHANGED <<ctr, flag, clock, arrived, scopes, t, usage, at, told, history>>

\* No response to settle: every provider failed, or the client went away.
Abandon(r) ==
    /\ pc[r] = "call"
    /\ Leave(r)
    /\ UNCHANGED <<ctr, flag, clock, arrived, history>>

\* The response is in (or the stream ended): settle with a fresh clock reading.
Settle(r) ==
    /\ pc[r] = "call"
    /\ t' = [t EXCEPT ![r] = clock]
    /\ \E u \in Usage : usage' = [usage EXCEPT ![r] = u]
    /\ Phased(r, "settle", SettlePlan(scopes[r]))
    /\ UNCHANGED <<ctr, flag, clock, arrived, scopes, at, told, history>>

Amount(r, p) == IF p[2] \in CostMeter THEN usage[r].cost ELSE usage[r].tokens

\* Is an alert decided after this debit?  Not without a threshold, and not for
\* the monthly budget when the daily one has just raised an alert.
Alerting(r, p) ==
    /\ p[2] \in CostMeter
    /\ Threshold[p[1]] # Unlimited
    /\ p[1] \notin told[r]

\* The next debit of ScopeCounters::settle.
Debit(r) ==
    /\ pc[r] = "settle"
    /\ \E p \in todo[r] :
       /\ Visits(r, p)
       /\ Add(p, Epoch(p, t[r]), Amount(r, p))
       /\ Phased(r, IF Alerting(r, p) THEN "peek" ELSE "settle", todo[r] \ {p})
       /\ at' = [at EXCEPT ![r] = IF Alerting(r, p) THEN p ELSE Unlimited]
    /\ UNCHANGED <<flag, clock, arrived, scopes, t, usage, told, fired, fback>>

\* consumed_permille: a zero budget is fully consumed.
Permille(consumed, budget) ==
    IF budget = 0 \/ consumed >= budget THEN 1000 ELSE (consumed * 1000) \div budget

Crossed(p, consumed) == Permille(consumed, Cap(p)) >= Threshold[p[1]]

\* The peek after the debit, and the comparison of maybe_spend_alert.
AlertPeek(r) ==
    /\ pc[r] = "peek"
    /\ LET crossed == Crossed(at[r], Peek(at[r], Epoch(at[r], t[r]))) IN
       /\ pc' = [pc EXCEPT ![r] = IF crossed THEN "fire" ELSE "settle"]
       /\ at' = IF crossed THEN at ELSE [at EXCEPT ![r] = Unlimited]
    /\ UNCHANGED <<ctr, flag, clock, arrived, scopes, t, usage, todo, told, history>>

\* A flag that records the firing without its window, so never resets.
TryFireStuckMutant(p, epoch) ==
    \/ /\ flag[p] # Unlimited
       /\ UNCHANGED <<flag, fired, fback>>
    \/ /\ flag[p] = Unlimited
       /\ flag' = [flag EXCEPT ![p] = epoch]
       /\ fired' = [fired EXCEPT ![p][epoch] = @ + 1]
       /\ UNCHANGED fback

\* No test of the flag: an alert storm.
TryFireStormMutant(p, epoch) ==
    /\ flag' = [flag EXCEPT ![p] = epoch]
    /\ fired' = [fired EXCEPT ![p][epoch] = @ + 1]
    /\ fback' = IF flag[p] # Unlimited /\ epoch < flag[p] THEN fback \cup {p} ELSE fback

\* AlertFlag::try_fire
TryFire(p, epoch) ==
    \/ /\ flag[p] = epoch
       /\ UNCHANGED <<flag, fired, fback>>
    \/ /\ flag[p] # epoch
       /\ flag' = [flag EXCEPT ![p] = epoch]
       /\ fired' = [fired EXCEPT ![p][epoch] = @ + 1]
       /\ fback' = IF flag[p] # Unlimited /\ epoch < flag[p] THEN fback \cup {p} ELSE fback

\* The winner of the flag returns the SpendAlert of this scope.
AlertFire(r) ==
    /\ pc[r] = "fire"
    /\ TryFire(at[r], Epoch(at[r], t[r]))
    /\ told' = [told EXCEPT ![r] =
                  IF flag[at[r]] # Epoch(at[r], t[r]) THEN @ \cup {at[r][1]} ELSE @]
    /\ pc' = [pc EXCEPT ![r] = "settle"]
    /\ at' = [at EXCEPT ![r] = Unlimited]
    /\ UNCHANGED <<ctr, clock, arrived, scopes, t, usage, todo, used, back>>

SettleDone(r) ==
    /\ pc[r] = "settle"
    /\ todo[r] = {}
    /\ Leave(r)
    /\ UNCHANGED <<ctr, flag, clock, arrived, history>>

-----------------------------------------------------------------------------

Step(r) ==
    \/ Admit(r) \/ Check(r) \/ StartConsume(r) \/ Consume(r) \/ Dispatch(r)
    \/ Abandon(r) \/ Settle(r) \/ Debit(r) \/ AlertPeek(r) \/ AlertFire(r)
    \/ SettleDone(r)

Next == Tick \/ \E r \in Request : Step(r)

Spec == Init /\ [][Next]_vars

-----------------------------------------------------------------------------
\* What holds while the windows of a counter are used in order

\* A hard request cap is exact: as long as no late request set the counter back
\* to an earlier window, no window ever counts more requests than the cap, over
\* every interleaving of the requests of all its keys and across rollovers.
RequestsExact ==
    \A s \in RateHard : LET p == <<s, "req">> IN
        Configured(p) /\ p \notin back => \A e \in Window : used[p][e] <= Cap(p)

Largest(m) ==
    LET amounts == {IF m \in CostMeter THEN u.cost ELSE u.tokens : u \in Usage}
    IN CHOOSE n \in amounts : \A k \in amounts : k <= n

\* Budgets are settled after the fact, so they overshoot, but by no more than
\* the requests that were in flight when the cap was reached: a hard budget
\* window never takes more than its cap less one plus one response per
\* concurrent request, although a request may be checked in one window and
\* settled in the next, and although the count saturates.
OvershootBounded ==
    \A p \in Scope \X (Meter \ {"req"}) :
        Configured(p) /\ Cap(p) > 0 /\ IsHard(p) /\ p \notin back =>
            \A e \in Window : used[p][e] <= Cap(p) - 1 + Cardinality(Request) * Largest(p[2])

\* A spend alert is raised at most once per scope and window.
AlertsOncePerWindow ==
    \A p \in Scope \X CostMeter : p \notin fback => \A e \in Window : fired[p][e] <= 1

-----------------------------------------------------------------------------
\* What holds in any order

Settling(p) == {r \in Request : pc[r] \in {"peek", "fire"} /\ at[r] = p}

\* No crossing goes unannounced: when spend in the present window is over the
\* soft threshold, an alert for that window was raised or a settle is about to
\* decide it.  The debit, the peek and the flag are three operations on two
\* words, and late settles may roll either word back in between.  (A monthly
\* crossing waits for the next settle when the daily budget alerted first.)
CrossingAnnounced ==
    \A p \in Scope \X CostMeter :
        /\ Configured(p)
        /\ Threshold[p[1]] # Unlimited
        /\ p[2] = "cost_monthly" => ~Configured(<<p[1], "cost_daily">>)
        /\ ctr[p].c > 0
        /\ Crossed(p, ctr[p].c)
        => Settling(p) # {} \/ fired[p][ctr[p].e] >= 1

-----------------------------------------------------------------------------
\* What a comment in the code says, and a late request refutes

\* "amount=1 is exact" (try_consume).
AmountOneIsExact ==
    \A s \in RateHard : Configured(<<s, "req">>) =>
        \A e \in Window : used[<<s, "req">>][e] <= Cap(<<s, "req">>)

=============================================================================
