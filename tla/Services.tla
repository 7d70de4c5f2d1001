------------------------------ MODULE Services ------------------------------
(***************************************************************************)
(* The services around the request path that keep state of their own and    *)
(* share none with each other: the usage lanes, the failure throttle, the   *)
(* health registry, the console's accounts, the cache's shards, the custom  *)
(* providers, the limit configuration and the limiter of a fleet.  A        *)
(* behaviour is a behaviour of one of them.                                 *)
(*                                                                          *)
(* Each service keeps its own constants; the instances TLC checks are at    *)
(* the end of the module.                                                   *)
(***************************************************************************)
EXTENDS UsageLanes

CONSTANTS
    None,
    Tasks,                                                                     \* of three services
    Clients, Handler, Source, SlotOf, Threshold, FailureMask, MaxEpoch,        \* AuthFailures
    Emails, SecretFromEnv, MaxVersion, ConsoleBoots,                           \* ConsoleAccounts
    TenantList, Keys, BudgetBytes, MaxWriteRetention, KeyOverhead, MaxEntryBytes,
    Bodies, Ttls, MaxTime,                                                     \* CacheStore
    Chats, Calls, Asks, BuiltIns, Globals, AllowPrivate, MaxBoots,             \* CustomProviders
    ReqCap, MicroCap, AuthoredCap, FxRate, Micro, CountMask, MaxReplicas,      \* LimitConfig
    Jobs, BuiltInNames, CellOf, FpOf, UNTIL_MASK, MaxJobs,                     \* HealthRegistry
    Requests, Replicas, Specs, Limit, ReplicaShare, Hard, Fallbacks,
    Window, Grace, Timeout, MaxClock                                           \* DistributedLimiter

VARIABLES focus,
    epoch, cells, apc, anow, seen, counted, late,                    \* AuthFailures
    afile, shared, alock, atask, tokens, boot, revoked, created,     \* ConsoleAccounts
    cnow, entries, tenant_bytes, work,                               \* CacheStore
    disk, live, plock, trackers, ptask, chat, boots,                 \* CustomProviders
    kind, policy, replicas, phase, slot,                             \* LimitConfig
    providers, ewma, kcells, htask, jobs, samples, owed,             \* HealthRegistry
    dclock, fallback, redis, orphans, dslots, req, back              \* DistributedLimiter

throttleVars == <<epoch, cells, apc, anow, seen, counted, late>>
consoleVars == <<afile, shared, alock, atask, tokens, boot, revoked, created>>
cacheVars == <<cnow, entries, tenant_bytes, work>>
providerVars == <<disk, live, plock, trackers, ptask, chat, boots>>
limitVars == <<kind, policy, replicas, phase, slot>>
healthVars == <<providers, ewma, kcells, htask, jobs, samples, owed>>
fleetVars == <<dclock, fallback, redis, orphans, dslots, req, back>>
allVars == <<focus, vars, throttleVars, consoleVars, cacheVars, providerVars, limitVars, healthVars, fleetVars>>

-----------------------------------------------------------------------------
Throttle == INSTANCE AuthFailures WITH
    Requests <- Clients, CountMask <- FailureMask, slots <- cells, pc <- apc, now <- anow
Console == INSTANCE ConsoleAccounts WITH
    MaxBoots <- ConsoleBoots, file <- afile, lock <- alock, task <- atask
Cache == INSTANCE CacheStore WITH now <- cnow
Providers == INSTANCE CustomProviders WITH lock <- plock, task <- ptask
Limits == INSTANCE LimitConfig
Health == INSTANCE HealthRegistry WITH BuiltIns <- BuiltInNames, cells <- kcells, task <- htask
Fleet == INSTANCE DistributedLimiter WITH clock <- dclock, slots <- dslots

\* What the code's configuration and types make sure of, service by service.
ASSUME ServicesAssumption ==
    /\ Configured /\ Throttle!Configured /\ Cache!Configured /\ Providers!Configured /\ Limits!Configured
    /\ Health!Configured /\ Fleet!Configured

-----------------------------------------------------------------------------
Services == {"usage", "throttle", "console", "cache", "providers", "limits", "health", "fleet"}
\* The limit configurations are many: the other services start beside an empty one.
NoPolicy == [req |-> None, micro |-> [w \in {"daily", "monthly"} |-> None],
             authored |-> [w \in {"daily", "monthly"} |-> None], fx |-> None]
ServicesInit ==
    /\ focus \in Services
    /\ Init /\ Throttle!Init /\ Console!Init /\ Cache!Init /\ Providers!Init /\ Health!Init
    /\ Fleet!Init /\ (focus # "fleet" => fallback = "open")
    /\ IF focus = "limits" THEN Limits!Init
       ELSE kind = "key" /\ policy = NoPolicy /\ replicas = 1 /\ phase = "boot" /\ slot = None

ServicesNext ==
    /\ UNCHANGED focus
    /\ \/ focus = "usage" /\ Next
              /\ UNCHANGED <<throttleVars, consoleVars, cacheVars, providerVars, limitVars, healthVars, fleetVars>>
       \/ focus = "throttle" /\ Throttle!Next
              /\ UNCHANGED <<vars, consoleVars, cacheVars, providerVars, limitVars, healthVars, fleetVars>>
       \/ focus = "console" /\ Console!Next
              /\ UNCHANGED <<vars, throttleVars, cacheVars, providerVars, limitVars, healthVars, fleetVars>>
       \/ focus = "cache" /\ Cache!Next
              /\ UNCHANGED <<vars, throttleVars, consoleVars, providerVars, limitVars, healthVars, fleetVars>>
       \/ focus = "providers" /\ Providers!Next
              /\ UNCHANGED <<vars, throttleVars, consoleVars, cacheVars, limitVars, healthVars, fleetVars>>
       \/ focus = "limits" /\ Limits!Next
              /\ UNCHANGED <<vars, throttleVars, consoleVars, cacheVars, providerVars, healthVars, fleetVars>>
       \/ focus = "health" /\ Health!Next
              /\ UNCHANGED <<vars, throttleVars, consoleVars, cacheVars, providerVars, limitVars, fleetVars>>
       \/ focus = "fleet" /\ Fleet!Next
              /\ UNCHANGED <<vars, throttleVars, consoleVars, cacheVars, providerVars, limitVars, healthVars>>

\* The fairness of UsageLanes, whose steps leave the others alone; the rest has none.
ServicesSpec ==
    /\ ServicesInit /\ [][ServicesNext]_allVars
    /\ \A p \in Producer : WF_vars(focus = "usage" /\ Step(p))
    /\ WF_vars(focus = "usage" /\ ShutdownTimeout)

-----------------------------------------------------------------------------
\* The usage lanes lose and duplicate neither permits nor events: see
\* UsageLanes.PermitsBalance and RingIsLatest (observability.rs).
UsageBooks == PermitsBalance /\ RingIsLatest
\* What one task learned no other task takes away: see AuthFailures.NoFailureLost
\* (auth_failures.rs), HealthRegistry.NoRecordLost and CooldownIsOwn (router/src/lib.rs).
NothingLearnedIsLost ==
    /\ focus = "throttle" => Throttle!NoFailureLost
    /\ focus = "health" => Health!HealthIsKept
\* See ConsoleAccounts.LogoutIsFinal and OneOwner (console_accounts.rs, console_auth.rs).
SessionsEnd == focus = "console" => Console!LogoutIsFinal /\ Console!OneOwner
\* See CacheStore.CacheWithinShare (cache/src/lib.rs).
CacheWithinShare == focus = "cache" => Cache!CacheWithinShare
\* See CustomProviders.RegistryIsDurable (custom_providers.rs).
RegistryIsDurable == focus = "providers" => Providers!RegistryIsDurable
\* A configured cap is what a fleet enforces, split over the replicas or counted in Redis:
\* see LimitConfig.FleetShare and ConfiguredIsCapped (limits/src/lib.rs),
\* DistributedLimiter.FleetCap and CountedOnce (distributed.rs).
CapsKeepTheirMeaning ==
    /\ focus = "limits" => Limits!FleetShare /\ Limits!ConfiguredIsCapped
    /\ focus = "fleet" => Fleet!FleetCap /\ Fleet!CountedOnce

\* See CustomProviders.LiveIsGuarded (providers_api.rs).
LiveIsGuarded == Providers!LiveIsGuarded
\* See AuthFailures.SharedSlotOnlySooner (auth_failures.rs).
SharedSlotOnlySooner == Throttle!SharedSlotOnlySooner
-----------------------------------------------------------------------------
\* The instances TLC checks

CONSTANTS p1, p2
TwoProducers == {p1, p2}

\* Two sources that share a slot, and one handler of each kind.
MCHandler == [r1 |-> "gateway", r2 |-> "login", r3 |-> "signup"]
MCSource == [r1 |-> "s1", r2 |-> "s2", r3 |-> "s2"]
MCSlotOf == [s1 |-> 0, s2 |-> 0]

\* A tenant with two shards, one of which holds two keys; sizes on both sides of the bounds.
CacheKey(t, s, i) == [tenant |-> t, shard |-> s, id |-> i]
MCTenantList == <<"t1", "t2">>
MCKeys == {CacheKey("t1", 0, 1), CacheKey("t1", 1, 2), CacheKey("t1", 1, 3), CacheKey("t2", 0, 1)}

\* Two tenants and the operator have a provider of the same name; the body may name another
\* owner, and the host may be one that is refused.
Public == [class |-> "public"]
Call(op, t, body, n, r, m) == [op |-> op, tenant |-> t, tenant_id |-> body, name |-> n, revision |-> r, models |-> m,
                               flaw |-> "none", host |-> {Public}]
MCCalls ==
    {Call("upsert", "t1", "global", 1, 1, {"m"}), Call("upsert", "t1", "t1", 1, 2, {}),
     Call("delete", "t1", "t1", 1, 0, {}),
     Call("upsert", "t2", "t2", 2, 1, {"m"}), Call("upsert", "t2", "t2", 9, 1, {"m"}),
     [Call("upsert", "t1", "t1", 3, 1, {"m"}) EXCEPT !.host = {Public, [class |-> "mapped", holds |-> [class |-> "link_local"]]}],
     [Call("upsert", "t1", "t1", 3, 1, {}) EXCEPT !.flaw = "models"]}
MCAsks == {[by |-> "model", tenant |-> "t1", model |-> "m"]}
MCGlobals == {[owner |-> "global", name |-> 1, revision |-> 0, models |-> {"m"}]}

\* Two tenants with a provider of a built-in's name; two pool keys that share a cell.
MCJobs ==
    {[op |-> "register", owner |-> "t1", name |-> "x"], [op |-> "register", owner |-> "t2", name |-> "x"],
     [op |-> "latency", owner |-> "t1", name |-> "x", ms |-> 10], [op |-> "latency", owner |-> "t2", name |-> "x", ms |-> 31],
     [op |-> "cool", key |-> "a", until |-> 1], [op |-> "cool", key |-> "a", until |-> 2],
     [op |-> "cool", key |-> "b", until |-> 5], [op |-> "clear", key |-> "a"], [op |-> "clear", key |-> "b"]}
MCCellOf == [a |-> 0, b |-> 0]
MCFpOf == [a |-> 1, b |-> 2]

\* Two replicas; the tenant's cap is reached before the key's.
MCSpecs == <<"key", "tenant">>
MCLimit == [key |-> 2, tenant |-> 1]
MCShare == [key |-> 1, tenant |-> 1]
=============================================================================
