-------------------------- MODULE IdempotencyStore --------------------------
(***************************************************************************)
(* One shard of the idempotency store (crates/cache/src/idempotency.rs) and *)
(* the requests that use it (chat_completions_core_idem in proxy.rs).       *)
(*                                                                          *)
(* reserve, store and release are copy-on-write compare-and-swap loops: an  *)
(* attempt whose CAS fails changes nothing and starts over, one whose CAS   *)
(* succeeds saw the map it replaced.  Each is therefore one action, except  *)
(* that the clock is read before the map is loaded: that read is a step of  *)
(* its own, and the value may be old when it is used.                       *)
(*                                                                          *)
(* A response is abstracted to the request that produced it, a fingerprint  *)
(* to the request body.  The counters for /status are left out.             *)
(***************************************************************************)
EXTENDS Integers, FiniteSets, Functions

CONSTANTS
    Request,     \* concurrent client requests carrying an Idempotency-Key
    Tenant,      \* tenant ids; numbers, so that they have the order of strings
    ClientKey,   \* client-supplied key strings, all in this shard
    Body,        \* request bodies, told apart by their fingerprint
    Asks,        \* the <<key, body>> pairs that clients send
    TTL,         \* ttl_ms
    MaxEntries,  \* max_entries_per_shard
    MaxClock     \* bound: the clock stops here

ASSUME RequestAssumption == IsFiniteSet(Request)
ASSUME TenantAssumption == Tenant \subseteq Nat
ASSUME StoreAssumption == TTL \in Nat /\ MaxEntries \in Nat \ {0} /\ MaxClock \in Nat

\* IdempotencyKey: the tenant is a structural part of it.
Key == Tenant \X ClientKey
TenantOf(k) == k[1]

ASSUME AsksAssumption == Asks \subseteq Key \X Body

VARIABLES
    shard,      \* the current ShardMap, a function on the keys present
    now,        \* Clock::now_ms
    key, body,  \* what each request asks for
    pc, t,      \* place of each request, and the clock value it has read
    reclaimed   \* history: keys that lost a slot to expiry or eviction

vars == <<shard, now, key, body, pc, t, reclaimed>>

\* Slot.  owner and resp are the request that made the reservation or the
\* response; the code keeps no owner.
InFlight == [kind : {"inflight"}, at : 0..MaxClock, owner : Request]
Done == [kind : {"done"}, at : 0..MaxClock, body : Body, resp : Request]

Pc == {"idle", "reserve", "run", "store", "storing", "release",
       "ok", "failed", "gone", "replayed", "mismatch"}

\* Requests that hold a reservation, as far as they know.
Holder == {"run", "store", "storing", "release"}

TypeOK ==
    /\ DOMAIN shard \subseteq Key
    /\ \A k \in DOMAIN shard : shard[k] \in InFlight \cup Done
    /\ Cardinality(DOMAIN shard) <= MaxEntries
    /\ now \in 0..MaxClock
    /\ key \in [Request -> Key] /\ body \in [Request -> Body]
    /\ pc \in [Request -> Pc] /\ t \in [Request -> 0..MaxClock]
    /\ reclaimed \subseteq Key

Init ==
    /\ shard = [k \in {} |-> 0]
    /\ now = 0
    /\ key \in [Request -> Key] /\ body \in [Request -> Body]
    /\ \A r \in Request : <<key[r], body[r]>> \in Asks
    /\ pc = [r \in Request |-> "idle"]
    /\ t = [r \in Request |-> 0]
    /\ reclaimed = {}

Goto(r, p) == pc' = [pc EXCEPT ![r] = p]

Tick ==
    /\ now < MaxClock
    /\ now' = now + 1
    /\ UNCHANGED <<shard, key, body, pc, t, reclaimed>>

\* A marker that only its owner can take out.
ExpiredMutant(slot, time) == slot.kind = "done" /\ time >= slot.at + TTL

\* Slot::expired.
Expired(slot, time) == time >= slot.at + TTL

Put(map, k, slot) == [x \in DOMAIN map \cup {k} |-> IF x = k THEN slot ELSE map[x]]
Remove(map, k) == Restrict(map, DOMAIN map \ {k})

-----------------------------------------------------------------------------
\* Eviction

Held(map, tn) == {k \in DOMAIN map : TenantOf(k) = tn}

\* The largest holder pays, whoever inserts: the tie-break is missing.
EvictionVictimMutant(map, inserter) ==
    CHOOSE v \in {TenantOf(k) : k \in DOMAIN map} :
        \A u \in {TenantOf(k) : k \in DOMAIN map} \ {v} :
            LET cv == Cardinality(Held(map, v))
                cu == Cardinality(Held(map, u))
            IN  cv > cu \/ (cv = cu /\ v > u)

\* eviction_victim: the largest holder, a tie going to the inserting tenant and
\* then to the greater name.
EvictionVictim(map, inserter) ==
    CHOOSE v \in {TenantOf(k) : k \in DOMAIN map} :
        \A u \in {TenantOf(k) : k \in DOMAIN map} \ {v} :
            LET cv == Cardinality(Held(map, v))
                cu == Cardinality(Held(map, u))
            IN  \/ cv > cu
                \/ cv = cu /\ (v = inserter \/ (u # inserter /\ v > u))

\* The victim's oldest entries; HashMap order decides between equals.
Oldest(map, tn) ==
    {k \in Held(map, tn) : \A x \in Held(map, tn) : map[k].at <= map[x].at}

\* Room is made only once the shard is past its cap.
EvictIfNeededMutant(map, time, tn) ==
    IF Cardinality(DOMAIN map) <= MaxEntries
    THEN {map}
    ELSE {Remove(map, k) : k \in Oldest(map, EvictionVictim(map, tn))}

\* evict_if_needed: the maps it may leave.  A shard never exceeds its cap
\* (TypeOK), so its loop removes one entry when it removes any.
EvictIfNeeded(map, time, tn) ==
    LET live == Restrict(map, {k \in DOMAIN map : ~Expired(map[k], time)})
    IN  IF Cardinality(DOMAIN map) < MaxEntries THEN {map}
        ELSE IF Cardinality(DOMAIN live) < MaxEntries THEN {live}
        ELSE {Remove(live, k) : k \in Oldest(live, EvictionVictim(live, tn))}

-----------------------------------------------------------------------------
\* The store and the request handler

\* reserve reads the clock.
ReserveNow(r) ==
    /\ pc[r] = "idle"
    /\ t' = [t EXCEPT ![r] = now]
    /\ Goto(r, "reserve")
    /\ UNCHANGED <<shard, now, key, body, reclaimed>>

\* The slot of r's key decides, if there is one and it has not expired.
Verdict(r) ==
    LET slot == shard[key[r]]
    IN  CASE slot.kind = "inflight" -> "idle"   \* 409: the client may retry
          [] slot.kind = "done" /\ slot.body = body[r] -> "replayed"
          [] slot.kind = "done" /\ slot.body # body[r] -> "mismatch"

Present(r) == key[r] \in DOMAIN shard /\ ~Expired(shard[key[r]], t[r])

ReserveSeen(r) ==
    /\ pc[r] = "reserve" /\ Present(r)
    /\ Goto(r, Verdict(r))
    /\ t' = [t EXCEPT ![r] = 0]
    /\ UNCHANGED <<shard, now, key, body, reclaimed>>

\* Insert-if-absent forgotten: the marker goes in over whatever is there.
ReserveSlotMutant(r) ==
    /\ pc[r] = "reserve"
    /\ shard' \in {Put(map, key[r], [kind |-> "inflight", at |-> t[r], owner |-> r]) :
                      map \in EvictIfNeeded(Remove(shard, key[r]), t[r], TenantOf(key[r]))}
    /\ reclaimed' = reclaimed \cup (DOMAIN shard \ DOMAIN shard')
    /\ Goto(r, "run")
    /\ t' = [t EXCEPT ![r] = 0]
    /\ UNCHANGED <<now, key, body>>

\* Absent, expired or stale: reclaim the key's slot, make room, install the
\* marker, all in one swap.
ReserveSlot(r) ==
    /\ pc[r] = "reserve" /\ ~Present(r)
    /\ shard' \in {Put(map, key[r], [kind |-> "inflight", at |-> t[r], owner |-> r]) :
                      map \in EvictIfNeeded(Remove(shard, key[r]), t[r], TenantOf(key[r]))}
    /\ reclaimed' = reclaimed \cup (DOMAIN shard \ DOMAIN shard') \cup (DOMAIN shard \cap {key[r]})
    /\ Goto(r, "run")
    /\ t' = [t EXCEPT ![r] = 0]
    /\ UNCHANGED <<now, key, body>>

\* The pipeline ends: a 2xx that fits, a 2xx that does not or a failure (both
\* release), or the client goes away and the future is dropped at an await.
Pipeline(r) ==
    /\ pc[r] = "run"
    /\ \E p \in {"store", "release", "gone"} : Goto(r, p)
    /\ UNCHANGED <<shard, now, key, body, t, reclaimed>>

\* store reads the clock ...
StoreNow(r) ==
    /\ pc[r] = "store"
    /\ t' = [t EXCEPT ![r] = now]
    /\ Goto(r, "storing")
    /\ UNCHANGED <<shard, now, key, body, reclaimed>>

IsInFlight(k) == k \in DOMAIN shard /\ shard[k].kind = "inflight"

\* A response filed under the key without the fingerprint of its own request.
StoreSlotMutant(r) ==
    /\ pc[r] = "storing"
    /\ \/ /\ IsInFlight(key[r])
          /\ \E b \in Body :
                shard' = Put(shard, key[r], [kind |-> "done", at |-> t[r], body |-> b, resp |-> r])
       \/ ~IsInFlight(key[r]) /\ UNCHANGED shard
    /\ t' = [t EXCEPT ![r] = 0]
    /\ Goto(r, "ok")
    /\ UNCHANGED <<now, key, body, reclaimed>>

\* ... and promotes the slot if it is in flight, whoever reserved it.
StoreSlot(r) ==
    /\ pc[r] = "storing"
    /\ \/ /\ IsInFlight(key[r])
          /\ shard' = Put(shard, key[r], [kind |-> "done", at |-> t[r], body |-> body[r], resp |-> r])
       \/ ~IsInFlight(key[r]) /\ UNCHANGED shard
    /\ t' = [t EXCEPT ![r] = 0]
    /\ Goto(r, "ok")
    /\ UNCHANGED <<now, key, body, reclaimed>>

\* release removes the slot if it is in flight, whoever reserved it.
Release(r) ==
    /\ pc[r] = "release"
    /\ \/ IsInFlight(key[r]) /\ shard' = Remove(shard, key[r])
       \/ ~IsInFlight(key[r]) /\ UNCHANGED shard
    /\ Goto(r, "failed")
    /\ UNCHANGED <<now, key, body, t, reclaimed>>

Step(r) ==
    \/ ReserveNow(r) \/ ReserveSeen(r) \/ ReserveSlot(r)
    \/ Pipeline(r) \/ StoreNow(r) \/ StoreSlot(r) \/ Release(r)

Next == Tick \/ \E r \in Request : Step(r)

Spec == Init /\ [][Next]_vars

\* The clock runs, handlers are scheduled and pipelines end (every provider call
\* has a timeout), and a client that was told 409 tries again.
FairSpec == Spec /\ WF_vars(Tick) /\ \A r \in Request : WF_vars(Step(r))

-----------------------------------------------------------------------------
\* Safety

\* Two concurrent requests with one key do not both reach the provider, as long
\* as the key has lost no slot to its TTL or to eviction: whatever the order of
\* reserve, store, release and cancellation, the one that runs is the one whose
\* marker is in the shard.
SingleFlight ==
    \A r \in Request : pc[r] \in Holder /\ key[r] \notin reclaimed =>
        /\ IsInFlight(key[r])
        /\ shard[key[r]].owner = r

\* A key that has lost no slot is charged once: no second request under it ends
\* in a stored success, and none starts after the first.
ChargedOnce ==
    \A r, q \in Request :
        pc[r] = "ok" /\ key[r] \notin reclaimed /\ q # r /\ key[q] = key[r] =>
            pc[q] \notin {"ok"} \cup Holder

\* A replay is always the response of a request of the same tenant, key and
\* body, also when a stale holder promoted another request's reservation.
ReplayFaithful ==
    \A k \in DOMAIN shard : shard[k].kind = "done" =>
        key[shard[k].resp] = k /\ body[shard[k].resp] = shard[k].body

\* Capacity is a billing boundary: the shard never outgrows its cap, and to stay
\* there a reservation drops a live slot of another tenant only if that tenant
\* holds strictly more live slots than the inserter (evict_if_needed).
LiveCount(tn, time) == Cardinality({k \in Held(shard, tn) : ~Expired(shard[k], time)})

FairEviction ==
    [][\A r \in Request : pc[r] = "reserve" /\ pc'[r] = "run" =>
           /\ Cardinality(DOMAIN shard') <= MaxEntries
           /\ \A k \in DOMAIN shard \ DOMAIN shard' :
                  \/ TenantOf(k) = TenantOf(key[r])
                  \/ Expired(shard[k], t[r])
                  \/ LiveCount(TenantOf(k), t[r]) > LiveCount(TenantOf(key[r]), t[r])]_vars

-----------------------------------------------------------------------------
\* Liveness, under FairSpec

\* A reservation whose owner vanished does not pin the key: while a client keeps
\* retrying, the marker is reclaimed once its TTL ends within the modelled time.
Pinned(k) ==
    /\ IsInFlight(k) /\ shard[k].at + TTL <= MaxClock
    /\ \E r \in Request : key[r] = k /\ pc[r] \in {"idle", "reserve"}

NotPinnedForever == \A k \in Key : Pinned(k) ~> ~Pinned(k)

-----------------------------------------------------------------------------
\* "never clobber ... a different request's later reservation" (release): only
\* the request that made a reservation takes it out.
ReleaseOwnOnly ==
    [][\A r \in Request : pc[r] = "release" /\ pc'[r] = "failed" =>
           (IsInFlight(key[r]) => shard[key[r]].owner = r)]_vars

=============================================================================
