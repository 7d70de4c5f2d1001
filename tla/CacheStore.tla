----------------------------- MODULE CacheStore -----------------------------
(***************************************************************************)
(* What the response cache keeps (crates/cache/src/lib.rs): the split of    *)
(* the memory budget over tenants (TenantCapacityPlan), and the writer      *)
(* thread applying one insert after the other (CacheCore::apply_insert)     *)
(* while readers look into the shards.                                      *)
(*                                                                          *)
(* A shard is replaced as a whole; an insert that evicts from several       *)
(* shards publishes them one at a time, its own one last.  Where the        *)
(* inserts come from is WriteLanes.                                         *)
(***************************************************************************)
EXTENDS Integers, Sequences, FiniteSets, Functions

CONSTANTS
    TenantList,      \* the tenants, in the order of the plan
    Keys,            \* cache keys: records with a tenant and a shard
    BudgetBytes, MaxWriteRetention, KeyOverhead, MaxEntryBytes,
    Bodies, Ttls,    \* sizes of bodies and times to live inserts may have
    MaxTime          \* bound on the clock

VARIABLES
    now, entries,    \* the clock; the entries of all shards
    tenant_bytes,    \* the writer's count of the bytes of each tenant
    work             \* the insert being applied, or Done
vars == <<now, entries, tenant_bytes, work>>

Done == [as |-> "done"]
Tenants == Range(TenantList)
AtMost(a, b) == IF a <= b THEN a ELSE b
Minus(a, b) == IF a >= b THEN a - b ELSE 0          \* saturating_sub
\* The bytes that entries take, told apart, and how many they are.
BytesOf(S) == UNION {{e} \X (1..e.cost) : e \in S}
CostOf(S) == Cardinality(BytesOf(S))
Of(t, S) == {e \in S : e.key.tenant = t}

\* What the constants are: at least one tenant, every key a tenant's, sizes and times
\* without a sign (usize and u64).
Configured ==
    /\ TenantList \in Seq(Tenants) /\ TenantList # <<>>
    /\ \A k \in Keys : k.tenant \in Tenants
    /\ {BudgetBytes, MaxWriteRetention, KeyOverhead, MaxEntryBytes, MaxTime} \subseteq Nat
    /\ Bodies \subseteq Nat /\ Ttls \subseteq Nat

-----------------------------------------------------------------------------
\* TenantCapacityPlan::new
partition(total, i) ==
    LET n == Len(TenantList) IN total \div n + (IF i <= total % n THEN 1 ELSE 0)
writer_budget_bytes == AtMost(BudgetBytes \div 2, MaxWriteRetention)
storage_budget_bytes == BudgetBytes - writer_budget_bytes

Index(t) == CHOOSE i \in DOMAIN TenantList : TenantList[i] = t
storage_budget(t) == partition(storage_budget_bytes, Index(t))
writer_budget(t) == partition(writer_budget_bytes, Index(t))

\* The overhead of a key is not set aside.
max_response_bytesMutant(t, model) ==
    AtMost(Minus(AtMost(storage_budget(t), writer_budget(t)), model), MaxEntryBytes)

\* max_response_bytes_for_tenant: the largest body the pipeline hands to the cache.
max_response_bytes(t, model) ==
    AtMost(Minus(Minus(AtMost(storage_budget(t), writer_budget(t)), KeyOverhead), model), MaxEntryBytes)

-----------------------------------------------------------------------------
Init ==
    /\ now = 0 /\ entries = {} /\ work = Done
    /\ tenant_bytes = [t \in Tenants |-> 0]

expired(e, time) == time >= e.at + e.ttl
lookup(key) == {e \in entries : e.key = key /\ ~expired(e, now)}

\* Among the unexpired candidates the oldest go first, until the rest fits; entries of
\* one age go in any order.
Oldest(candidates, budget) ==
    {R \in SUBSET candidates :
        /\ \A e \in R, k \in candidates \ R : e.at <= k.at
        /\ CostOf(candidates \ R) <= budget
        /\ R # {} => \E last \in R : /\ \A e \in R : e.at <= last.at
                                     /\ CostOf(candidates \ R) + last.cost > budget}

\* The whole candidate list is looked at by age, expired or not.
RemovalsMutant(candidates, budget) == Oldest(candidates, budget)

\* What an insert over budget removes: everything expired, then the oldest.
Removals(candidates, budget) ==
    LET stale == {e \in candidates : expired(e, now)}
    IN  {stale \cup R : R \in Oldest(candidates \ stale, budget)}

\* apply_insert up to the first store; at is when the write was admitted.
Insert(key, body, ttl, at) ==
    LET t == key.tenant
        e == [key |-> key, cost |-> body + KeyOverhead, at |-> at, ttl |-> ttl]
        prior == {p \in entries : p.key = key}
        projected == Minus(tenant_bytes[t], CostOf(prior)) + e.cost
        candidates == Of(t, entries \ prior) \cup {e}
    IN  /\ work = Done /\ at <= now
        /\ body <= MaxEntryBytes /\ e.cost <= storage_budget(t)
        /\ IF projected <= storage_budget(t)
             THEN /\ entries' = (entries \ prior) \cup {e}
                  /\ tenant_bytes' = [tenant_bytes EXCEPT ![t] = projected]
                  /\ UNCHANGED work
             ELSE /\ \E gone \in IF CostOf(candidates) > storage_budget(t)
                                   THEN Removals(candidates, storage_budget(t)) ELSE {{}} :
                        work' = [as |-> "evict", new |-> e, prior |-> prior, gone |-> gone,
                                 left |-> candidates \ gone, time |-> now]
                  /\ UNCHANGED <<entries, tenant_bytes>>
        /\ UNCHANGED now

\* One other shard is replaced, in any order.
EvictShard(s) ==
    /\ work.as = "evict" /\ s # work.new.key.shard
    /\ \E e \in work.gone \cap entries : e.key.shard = s
    /\ entries' = {e \in entries : e.key.shard = s => e \notin work.gone}
    /\ UNCHANGED <<now, tenant_bytes, work>>

\* Last the shard of the insert, with the entry, and the count.
StoreShard ==
    LET s == work.new.key.shard
    IN  /\ work.as = "evict"
        /\ \A e \in work.gone \cap entries : e.key.shard = s
        /\ entries' = (entries \ (work.gone \cup work.prior)) \cup ({work.new} \ work.gone)
        /\ tenant_bytes' = [tenant_bytes EXCEPT ![work.new.key.tenant] = CostOf(work.left)]
        /\ work' = Done
        /\ UNCHANGED now

\* An insert too large for the entry or the tenant's share is only counted.
Oversize(t) ==
    /\ work = Done /\ \E b \in Bodies : b > MaxEntryBytes \/ b + KeyOverhead > storage_budget(t)
    /\ UNCHANGED vars

Tick == now < MaxTime /\ now' = now + 1 /\ UNCHANGED <<entries, tenant_bytes, work>>

Next ==
    \/ Tick \/ StoreShard
    \/ \E k \in Keys, b \in Bodies, l \in Ttls, at \in 0..MaxTime : Insert(k, b, l, at)
    \/ \E k \in Keys : EvictShard(k.shard)
    \/ \E t \in Tenants : Oversize(t)
Spec == Init /\ [][Next]_vars

-----------------------------------------------------------------------------
\* The memory bound holds for every reader at every moment, also between the stores of
\* one insert, and the writer's count is exact whenever it is idle (apply_insert).
BytesWithinShare ==
    \A t \in Tenants : /\ CostOf(Of(t, entries)) <= storage_budget(t)
                       /\ work = Done => tenant_bytes[t] = CostOf(Of(t, entries))

\* A body the pipeline hands over as small enough is never turned away for its size
\* (TenantCapacityPlan).
HandedOverFits ==
    \A t \in Tenants, b \in Bodies, model \in {0, 1} :
        0 < b /\ b <= max_response_bytes(t, model) =>
            b + model + KeyOverhead <= AtMost(storage_budget(t), writer_budget(t))

\* What an insert removes is of its own tenant and has expired, or is no younger than
\* anything of that tenant it keeps, none of which has expired (apply_insert).
EvictsItsOwn ==
    work.as = "evict" =>
        \A e \in work.gone : /\ e.key.tenant = work.new.key.tenant
                             /\ expired(e, work.time) \/ \A k \in work.left : ~expired(k, work.time) /\ e.at <= k.at

CacheWithinShare == BytesWithinShare /\ HandedOverFits /\ EvictsItsOwn
=============================================================================
