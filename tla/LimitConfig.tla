---------------------------- MODULE LimitConfig -----------------------------
(***************************************************************************)
(* From the limits a key is configured with to the caps that are enforced:  *)
(* the validation at start-up (main.rs) and the builder of ScopeCounters    *)
(* (crates/limits/src/lib.rs), for one policy.  A slot is built from one     *)
(* policy alone, so one is enough.                                          *)
(***************************************************************************)
EXTENDS Integers

CONSTANTS
    None,          \* Option::None
    ReqCap,        \* requests_per_min values a policy may have
    MicroCap,      \* cost_micro_usd_* values
    AuthoredCap,   \* authored_cost_* values, in whole display-currency units
    FxRate,        \* fx_units_per_usd values
    Micro,         \* micro-USD in a USD
    CountMask,     \* COUNT_MASK
    MaxReplicas    \* bound on ROUTEPLANE_MAX_REPLICAS

Optional(S) == S \cup {None}
Period == {"daily", "monthly"}
\* ScopeCounters: the caps of one scope.
Slot == [req : Optional(Int), cost : [Period -> Optional(Int)]]

\* What the constants are: caps and rates without a sign, counters that can count.
Configured ==
    /\ ReqCap \cup MicroCap \cup AuthoredCap \cup FxRate \subseteq Nat
    /\ {Micro, MaxReplicas} \subseteq Nat /\ CountMask \in Nat \ {0}
    /\ None \notin Int /\ None \notin Slot

\* LimitPolicy: the request rate, and per budget window a cap in micro-USD and
\* a cap in the display currency.  Token budgets behave like micro-USD caps.
Policy == [req : Optional(ReqCap),
           micro : [Period -> Optional(MicroCap)],
           authored : [Period -> Optional(AuthoredCap)],
           fx : Optional(FxRate)]

\* Where KeyLimits holds a policy: on the key, its tenant or a model.
Kind == {"key", "tenant", "model"}

VARIABLES
    kind, policy,  \* the policy that was loaded, and where it is attached
    replicas,      \* max_replicas
    phase,         \* "boot", then "serving" or "refused"
    slot           \* the ScopeCounters built for it

vars == <<kind, policy, replicas, phase, slot>>

-----------------------------------------------------------------------------

\* resolved_cost_caps, one window.  A window is Bad where the code returns Err.
Bad(p, w) ==
    /\ p.authored[w] # None
    /\ p.micro[w] # None \/ p.fx \in {None, 0}

Resolved(p, w) ==
    IF p.micro[w] # None THEN p.micro[w]
    ELSE IF p.authored[w] # None THEN (p.authored[w] * Micro) \div p.fx
    ELSE None

Invalid(p) == \E w \in Period : Bad(p, w)

\* The caps from_policy enforces: deny-all on both windows if any is Bad.
CostCap(p, w) == IF Invalid(p) THEN 0 ELSE Resolved(p, w)

\* An emptiness test that only looks at the daily budget.
IsEmptyMutant(p) == p.req = None /\ p.micro["daily"] = None

\* LimitPolicy::is_empty: the authored caps are not among what it looks at.
IsEmpty(p) == p.req = None /\ \A w \in Period : p.micro[w] = None

\* Rounding the share down.
ShareMutant(x, n) == IF n <= 1 THEN x ELSE x \div n

\* share_per_replica: the ceiling of x / n.
Share(x, n) == IF n <= 1 THEN x ELSE (x + n - 1) \div n

Least(a, b) == IF a <= b THEN a ELSE b

Clamp(x, n) == IF x = None THEN None ELSE Least(Share(x, n), CountMask)

\* ScopeCounters::from_policy
FromPolicy(p, n) ==
    IF IsEmpty(p) THEN None
    ELSE [req |-> Clamp(p.req, n), cost |-> [w \in Period |-> Clamp(CostCap(p, w), n)]]

-----------------------------------------------------------------------------

Init ==
    /\ kind \in Kind
    /\ policy \in Policy
    /\ replicas \in 1..MaxReplicas
    /\ phase = "boot"
    /\ slot = None

\* What main.rs validates before it serves: key and tenant policies.
Rejected == kind \in {"key", "tenant"} /\ Invalid(policy)

RefuseToStart ==
    /\ phase = "boot" /\ Rejected
    /\ phase' = "refused"
    /\ UNCHANGED <<kind, policy, replicas, slot>>

\* LimitRegistry::build_with_replicas
Build ==
    /\ phase = "boot" /\ ~Rejected
    /\ phase' = "serving"
    /\ slot' = FromPolicy(policy, replicas)
    /\ UNCHANGED <<kind, policy, replicas>>

Next == RefuseToStart \/ Build

Spec == Init /\ [][Next]_vars

-----------------------------------------------------------------------------

\* cap is the per-replica share of x: together the replicas admit at least x
\* and less than one extra unit each, deny-all stays deny-all and nothing else
\* becomes it, and a saturated counter can reach the cap.
FairShare(cap, x) ==
    /\ cap <= CountMask
    /\ cap < CountMask => cap * replicas >= x
    /\ cap * replicas < x + replicas
    /\ (cap = 0) <=> (x = 0)

\* Every cap that is enforced is the fair share of the cap that was configured
\* and, for a window authored in a display currency, converted.
FleetShare ==
    slot # None =>
        /\ policy.req # None => FairShare(slot.req, policy.req)
        /\ \A w \in Period : slot.cost[w] # None => FairShare(slot.cost[w], CostCap(policy, w))

\* A window capped in micro-USD is capped by the slot that serves, whatever else
\* the policy holds; so is an authored window of a policy that has some other cap.
ConfiguredIsCapped ==
    phase = "serving" =>
        \A w \in Period :
            \/ policy.micro[w] # None
            \/ policy.authored[w] # None /\ (policy.req # None \/ \E v \in Period : policy.micro[v] # None)
            => slot # None /\ slot.cost[w] # None

-----------------------------------------------------------------------------
\* What a comment in the code says of the builder

\* "never a silently-uncapped spend" (from_policy, limits/src/lib.rs:1000).  It does
\* not hold of a policy whose only caps are authored (is_empty, lib.rs:287).
NeverUncapped ==
    phase = "serving" =>
        \A w \in Period : policy.authored[w] # None => slot # None /\ slot.cost[w] # None

=============================================================================
