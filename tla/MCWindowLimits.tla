--------------------------- MODULE MCWindowLimits ---------------------------
(* Small instances of WindowLimits for TLC.  The window of a minute is one   *)
(* tick long, the windows of a day and of a month are two or more.           *)
EXTENDS WindowLimits, TLC

CONSTANTS r1, r2, r3, key, tenant

TwoRequests == {r1, r2}
ThreeRequests == {r1, r2, r3}
KeyAndTenant == {key, tenant}
OneKey == {key}
RankOf == [s \in Scope |-> IF s = key THEN 0 ELSE 1]

\* A request of the key, and one of another key of the same tenant.
BothKeys == {{key, tenant}, {tenant}}
JustKey == {{key}}

NoCaps == [m \in Meter |-> Unlimited]

\* The key has a request cap and a daily cost budget; the tenant, which other
\* keys use too, a request cap, a token rate and a monthly cost budget.
MixedCaps == [s \in Scope |-> IF s = key
    THEN [NoCaps EXCEPT !.req = 1, !.cost_daily = 2]
    ELSE [NoCaps EXCEPT !.req = 2, !.tok_rate = 2, !.cost_monthly = 2]]
OneRateCap == [s \in Scope |-> [NoCaps EXCEPT !.req = 1]]

NoAlerts == [s \in Scope |-> Unlimited]
AlertAtHalf == [s \in Scope |-> 500]

NoUsage == {[tokens |-> 0, cost |-> 0]}
UnitUsage == {[tokens |-> 1, cost |-> 1]}

Ticks(n) == [time \in Time |-> 1 + time \div n]
Calendar == [m \in Meter |->
    CASE m \in {"req", "tok_rate"} -> Ticks(1)
      [] m \in {"cost_daily", "tok_daily"} -> Ticks(2)
      [] OTHER -> Ticks(3)]

Symmetry == Permutations(Request)
=============================================================================
