----------------------- MODULE IdempotencyStoreProofs -----------------------
(***************************************************************************)
(* Proofs about IdempotencyStore, for any requests, tenants, keys, bodies,  *)
(* TTL and shard capacity.                                                  *)
(***************************************************************************)
EXTENDS IdempotencyStore, FiniteSetTheorems, WellFoundedInduction, TLAPS

Slot == InFlight \cup Done

Typed ==
    /\ DOMAIN shard \subseteq Key
    /\ \A k \in DOMAIN shard : shard[k] \in Slot
    /\ shard = [k \in DOMAIN shard |-> shard[k]]
    /\ now \in 0..MaxClock
    /\ key \in [Request -> Key] /\ body \in [Request -> Body]
    /\ pc \in [Request -> Pc] /\ t \in [Request -> 0..MaxClock]
    /\ reclaimed \subseteq Key

\* The request that runs under an unreclaimed key owns its marker.
RunnerOwns ==
    \A r \in Request : pc[r] \in Holder /\ key[r] \notin reclaimed =>
        /\ key[r] \in DOMAIN shard
        /\ shard[key[r]].kind = "inflight"
        /\ shard[key[r]].owner = r

\* The request that succeeded under an unreclaimed key is the one replayed.
WinnerStays ==
    \A r \in Request : pc[r] = "ok" /\ key[r] \notin reclaimed =>
        /\ key[r] \in DOMAIN shard
        /\ shard[key[r]].kind = "done"
        /\ shard[key[r]].resp = r

IInv == Typed /\ RunnerOwns /\ WinnerStays /\ ReplayFaithful

-----------------------------------------------------------------------------
\* The shard operations

LEMMA RemoveEffect ==
    ASSUME NEW map, NEW k
    PROVE  /\ DOMAIN Remove(map, k) = DOMAIN map \ {k}
           /\ \A x \in DOMAIN map : x # k => Remove(map, k)[x] = map[x]
           /\ Remove(map, k) = [x \in DOMAIN Remove(map, k) |-> Remove(map, k)[x]]
BY DEF Remove, Restrict

\* Eviction only removes.
LEMMA EvictShrinks ==
    ASSUME NEW map, NEW time, NEW tn, NEW m \in EvictIfNeeded(map, time, tn)
    PROVE  /\ DOMAIN m \subseteq DOMAIN map
           /\ \A x \in DOMAIN m : m[x] = map[x]
<1> DEFINE live == Restrict(map, {k \in DOMAIN map : ~Expired(map[k], time)})
<1>1. DOMAIN live \subseteq DOMAIN map /\ \A x \in DOMAIN live : live[x] = map[x]
    BY DEF Restrict
<1> HIDE DEF live
<1>2. \/ m = map \/ m = live
      \/ \E k \in Oldest(live, EvictionVictim(live, tn)) : m = Remove(live, k)
    BY DEF EvictIfNeeded, live
<1>3. CASE m = map \/ m = live
    BY <1>1, <1>3
<1>4. ASSUME NEW k, m = Remove(live, k)
      PROVE  DOMAIN m \subseteq DOMAIN map /\ \A x \in DOMAIN m : m[x] = map[x]
    <2>1. DOMAIN m = DOMAIN live \ {k} /\ \A x \in DOMAIN live : x # k => m[x] = live[x]
        BY <1>4 DEF Remove, Restrict
    <2> QED BY <1>1, <2>1
<1> QED
    BY <1>2, <1>3, <1>4

\* A reservation: what it leaves of the shard is as it was, what it takes out is
\* recorded, and so is the key itself if it had a slot.
LEMMA ReserveEffect ==
    ASSUME Typed, NEW r \in Request, ReserveSlot(r)
    PROVE  LET marker == [kind |-> "inflight", at |-> t[r], owner |-> r] IN
           /\ DOMAIN shard' \subseteq DOMAIN shard \cup {key[r]}
           /\ key[r] \in DOMAIN shard' /\ shard'[key[r]] = marker
           /\ \A x \in DOMAIN shard' : x # key[r] => shard'[x] = shard[x]
           /\ shard' = [x \in DOMAIN shard' |-> shard'[x]]
           /\ reclaimed' = reclaimed \cup (DOMAIN shard \ DOMAIN shard') \cup (DOMAIN shard \cap {key[r]})
<1> DEFINE marker == [kind |-> "inflight", at |-> t[r], owner |-> r]
           rest == Remove(shard, key[r])
<1>1. PICK m \in EvictIfNeeded(rest, t[r], TenantOf(key[r])) : shard' = Put(m, key[r], marker)
    BY DEF ReserveSlot
<1>2. /\ DOMAIN rest = DOMAIN shard \ {key[r]}
      /\ \A x \in DOMAIN shard : x # key[r] => rest[x] = shard[x]
    BY RemoveEffect
<1>3. reclaimed' = reclaimed \cup (DOMAIN shard \ DOMAIN shard') \cup (DOMAIN shard \cap {key[r]})
    BY DEF ReserveSlot
<1> HIDE DEF marker, rest
<1>4. DOMAIN m \subseteq DOMAIN rest /\ \A x \in DOMAIN m : m[x] = rest[x]
    BY EvictShrinks
<1>5. /\ DOMAIN shard' = DOMAIN m \cup {key[r]}
      /\ shard'[key[r]] = marker
      /\ \A x \in DOMAIN m : x # key[r] => shard'[x] = m[x]
      /\ shard' = [x \in DOMAIN shard' |-> shard'[x]]
    BY <1>1 DEF Put
<1>6. \A x \in DOMAIN shard' : x # key[r] => shard'[x] = shard[x]
    BY <1>2, <1>4, <1>5
<1> QED
    BY <1>2, <1>3, <1>4, <1>5, <1>6 DEF marker

-----------------------------------------------------------------------------

LEMMA InitInv == Init => IInv
<1> SUFFICES ASSUME Init PROVE IInv
    OBVIOUS
<1>1. DOMAIN shard = {}
    BY DEF Init
<1>2. Typed
    BY <1>1, StoreAssumption DEF Init, Typed, Pc
<1>3. RunnerOwns /\ WinnerStays
    BY DEF Init, RunnerOwns, WinnerStays, Holder
<1>4. ReplayFaithful
    BY <1>1 DEF ReplayFaithful
<1> QED
    BY <1>2, <1>3, <1>4 DEF IInv

\* A step that touches neither the shard nor the history, and moves no request
\* into a holding or successful state, keeps the invariant.
LEMMA QuietStep ==
    ASSUME IInv, UNCHANGED <<shard, key, body, reclaimed>>, now' \in 0..MaxClock,
           t' \in [Request -> 0..MaxClock], pc' \in [Request -> Pc],
           \A r \in Request : pc'[r] \in Holder => pc[r] \in Holder,
           \A r \in Request : pc'[r] = "ok" => pc[r] = "ok"
    PROVE  IInv'
<1>1. Typed'
    BY DEF IInv, Typed
<1>2. RunnerOwns' /\ WinnerStays'
    BY DEF IInv, RunnerOwns, WinnerStays
<1>3. ReplayFaithful'
    BY DEF IInv, ReplayFaithful
<1> QED
    BY <1>1, <1>2, <1>3 DEF IInv

LEMMA ReserveStep ==
    ASSUME IInv, NEW r \in Request, ReserveSlot(r)
    PROVE  IInv'
<1>0. Typed /\ RunnerOwns /\ WinnerStays /\ ReplayFaithful
    BY DEF IInv
<1> DEFINE marker == [kind |-> "inflight", at |-> t[r], owner |-> r]
<1>1. /\ DOMAIN shard' \subseteq DOMAIN shard \cup {key[r]}
      /\ key[r] \in DOMAIN shard' /\ shard'[key[r]] = marker
      /\ \A x \in DOMAIN shard' : x # key[r] => shard'[x] = shard[x]
      /\ shard' = [x \in DOMAIN shard' |-> shard'[x]]
      /\ reclaimed' = reclaimed \cup (DOMAIN shard \ DOMAIN shard') \cup (DOMAIN shard \cap {key[r]})
    BY <1>0, ReserveEffect
<1>2. /\ pc' = [pc EXCEPT ![r] = "run"]
      /\ t' = [t EXCEPT ![r] = 0]
      /\ UNCHANGED <<now, key, body>>
    BY DEF ReserveSlot, Goto
<1>3. marker \in Slot /\ marker.kind = "inflight" /\ marker.owner = r
    BY <1>0 DEF Typed, Slot, InFlight
<1> HIDE DEF marker
<1>4. key[r] \in Key /\ 0 \in 0..MaxClock
    BY <1>0, StoreAssumption DEF Typed
<1>5. Typed'
    BY <1>0, <1>1, <1>2, <1>3, <1>4 DEF Typed, Pc
<1>6. RunnerOwns'
    <2> SUFFICES ASSUME NEW q \in Request, pc'[q] \in Holder, key[q] \notin reclaimed'
                 PROVE  /\ key[q] \in DOMAIN shard'
                        /\ shard'[key[q]].kind = "inflight"
                        /\ shard'[key[q]].owner = q
        BY <1>2 DEF RunnerOwns
    <2>1. CASE q = r
        BY <1>1, <1>3, <2>1
    <2>2. CASE q # r
        <3>1. pc[q] \in Holder /\ key[q] \notin reclaimed
            BY <1>0, <1>1, <1>2, <2>2 DEF Typed
        <3>2. /\ key[q] \in DOMAIN shard /\ shard[key[q]].kind = "inflight"
              /\ shard[key[q]].owner = q
            BY <1>0, <3>1 DEF RunnerOwns
        <3>3. key[q] # key[r] /\ key[q] \in DOMAIN shard'
            BY <1>1, <3>2
        <3> QED BY <1>1, <3>2, <3>3
    <2> QED BY <2>1, <2>2
<1>7. WinnerStays'
    <2> SUFFICES ASSUME NEW q \in Request, pc'[q] = "ok", key[q] \notin reclaimed'
                 PROVE  /\ key[q] \in DOMAIN shard'
                        /\ shard'[key[q]].kind = "done"
                        /\ shard'[key[q]].resp = q
        BY <1>2 DEF WinnerStays
    <2>1. pc[q] = "ok" /\ key[q] \notin reclaimed
        BY <1>0, <1>1, <1>2 DEF Typed
    <2>2. /\ key[q] \in DOMAIN shard /\ shard[key[q]].kind = "done"
          /\ shard[key[q]].resp = q
        BY <1>0, <2>1 DEF WinnerStays
    <2>3. key[q] # key[r] /\ key[q] \in DOMAIN shard'
        BY <1>1, <2>2
    <2> QED BY <1>1, <2>2, <2>3
<1>8. ReplayFaithful'
    <2> SUFFICES ASSUME NEW k \in DOMAIN shard', shard'[k].kind = "done"
                 PROVE  key[shard'[k].resp] = k /\ body[shard'[k].resp] = shard'[k].body
        BY <1>2 DEF ReplayFaithful
    <2>1. k # key[r]
        BY <1>1, <1>3
    <2>2. shard'[k] = shard[k] /\ k \in DOMAIN shard
        BY <1>1, <2>1
    <2> QED BY <1>0, <2>2 DEF ReplayFaithful
<1> QED
    BY <1>5, <1>6, <1>7, <1>8 DEF IInv

\* store and release act on the slot of r's key, while r holds the reservation:
\* any other holder, and any winner, has another key or a reclaimed one.
LEMMA OthersElsewhere ==
    ASSUME IInv, NEW r \in Request, pc[r] \in Holder, NEW q \in Request, q # r,
           pc[q] \in Holder \cup {"ok"}, key[q] \notin reclaimed
    PROVE  key[q] # key[r]
<1>1. RunnerOwns /\ WinnerStays
    BY DEF IInv
<1>2. key[r] \notin reclaimed => shard[key[r]].kind = "inflight" /\ shard[key[r]].owner = r
    BY <1>1 DEF RunnerOwns
<1>3. CASE pc[q] \in Holder
    BY <1>1, <1>2, <1>3 DEF RunnerOwns
<1>4. CASE pc[q] = "ok"
    BY <1>1, <1>2, <1>4 DEF WinnerStays
<1> QED
    BY <1>3, <1>4

LEMMA StoreStep ==
    ASSUME IInv, NEW r \in Request, StoreSlot(r)
    PROVE  IInv'
<1>0. Typed /\ RunnerOwns /\ WinnerStays /\ ReplayFaithful
    BY DEF IInv
<1> DEFINE slot == [kind |-> "done", at |-> t[r], body |-> body[r], resp |-> r]
<1>1. /\ pc[r] = "storing" /\ pc' = [pc EXCEPT ![r] = "ok"]
      /\ t' = [t EXCEPT ![r] = 0]
      /\ UNCHANGED <<now, key, body, reclaimed>>
    BY DEF StoreSlot, Goto
<1>2. pc[r] \in Holder /\ key[r] \in Key /\ 0 \in 0..MaxClock
    BY <1>0, <1>1, StoreAssumption DEF Holder, Typed
<1>3. \/ IsInFlight(key[r]) /\ shard' = Put(shard, key[r], slot)
      \/ ~IsInFlight(key[r]) /\ shard' = shard
    BY DEF StoreSlot
<1>4. slot \in Slot /\ slot.kind = "done" /\ slot.resp = r /\ slot.body = body[r]
    BY <1>0 DEF Typed, Slot, Done
<1> HIDE DEF slot
<1>5. /\ \A x \in DOMAIN shard : x # key[r] => x \in DOMAIN shard' /\ shard'[x] = shard[x]
      /\ DOMAIN shard' \subseteq DOMAIN shard \cup {key[r]}
      /\ IsInFlight(key[r]) => key[r] \in DOMAIN shard' /\ shard'[key[r]] = slot
      /\ ~IsInFlight(key[r]) => shard' = shard
      /\ shard' = [x \in DOMAIN shard' |-> shard'[x]]
    <2>1. CASE IsInFlight(key[r])
        <3>1. shard' = [x \in DOMAIN shard \cup {key[r]} |-> IF x = key[r] THEN slot ELSE shard[x]]
            BY <1>3, <2>1 DEF Put
        <3> QED BY <2>1, <3>1
    <2>2. CASE ~IsInFlight(key[r])
        BY <1>0, <1>3, <2>2 DEF Typed
    <2> QED BY <2>1, <2>2
<1>6. Typed'
    <2>1. \A x \in DOMAIN shard' : x \in Key /\ shard'[x] \in Slot
        BY <1>0, <1>2, <1>4, <1>5 DEF Typed
    <2>2. pc' \in [Request -> Pc] /\ t' \in [Request -> 0..MaxClock]
        BY <1>0, <1>1, <1>2 DEF Typed, Pc
    <2> QED BY <1>0, <1>1, <1>5, <2>1, <2>2 DEF Typed
<1>7. ASSUME NEW q \in Request, q # r, pc'[q] \in Holder \cup {"ok"}, key[q] \notin reclaimed
      PROVE  pc[q] = pc'[q] /\ (key[q] \in DOMAIN shard =>
                 key[q] \in DOMAIN shard' /\ shard'[key[q]] = shard[key[q]])
    <2>1. pc[q] = pc'[q]
        BY <1>0, <1>1, <1>7 DEF Typed
    <2>2. key[q] # key[r]
        BY <1>2, <1>7, <2>1, OthersElsewhere
    <2> QED BY <1>5, <2>1, <2>2
<1>8. RunnerOwns'
    <2> SUFFICES ASSUME NEW q \in Request, pc'[q] \in Holder, key[q] \notin reclaimed
                 PROVE  /\ key[q] \in DOMAIN shard'
                        /\ shard'[key[q]].kind = "inflight"
                        /\ shard'[key[q]].owner = q
        BY <1>1 DEF RunnerOwns
    <2>1. q # r
        BY <1>0, <1>1 DEF Holder, Typed
    <2> QED BY <1>0, <1>7, <2>1 DEF RunnerOwns
<1>9. WinnerStays'
    <2> SUFFICES ASSUME NEW q \in Request, pc'[q] = "ok", key[q] \notin reclaimed
                 PROVE  /\ key[q] \in DOMAIN shard'
                        /\ shard'[key[q]].kind = "done"
                        /\ shard'[key[q]].resp = q
        BY <1>1 DEF WinnerStays
    <2>1. CASE q = r
        <3>1. IsInFlight(key[r])
            BY <1>0, <1>2, <2>1 DEF RunnerOwns, IsInFlight
        <3> QED BY <1>4, <1>5, <2>1, <3>1
    <2>2. CASE q # r
        BY <1>0, <1>7, <2>2 DEF WinnerStays
    <2> QED BY <2>1, <2>2
<1>10. ReplayFaithful'
    <2> SUFFICES ASSUME NEW k \in DOMAIN shard', shard'[k].kind = "done"
                 PROVE  key[shard'[k].resp] = k /\ body[shard'[k].resp] = shard'[k].body
        BY <1>1 DEF ReplayFaithful
    <2>1. CASE k = key[r] /\ IsInFlight(key[r])
        BY <1>4, <1>5, <2>1
    <2>2. CASE ~(k = key[r] /\ IsInFlight(key[r]))
        <3>1. k \in DOMAIN shard /\ shard'[k] = shard[k]
            BY <1>5, <2>2
        <3> QED BY <1>0, <3>1 DEF ReplayFaithful
    <2> QED BY <2>1, <2>2
<1> QED
    BY <1>6, <1>8, <1>9, <1>10 DEF IInv

LEMMA ReleaseStep ==
    ASSUME IInv, NEW r \in Request, Release(r)
    PROVE  IInv'
<1>0. Typed /\ RunnerOwns /\ WinnerStays /\ ReplayFaithful
    BY DEF IInv
<1>1. /\ pc[r] = "release" /\ pc' = [pc EXCEPT ![r] = "failed"]
      /\ UNCHANGED <<now, key, body, t, reclaimed>>
    BY DEF Release, Goto
<1>2. pc[r] \in Holder
    BY <1>1 DEF Holder
<1>3. /\ \A x \in DOMAIN shard : x # key[r] => x \in DOMAIN shard'
      /\ \A x \in DOMAIN shard' : x \in DOMAIN shard /\ shard'[x] = shard[x]
      /\ shard' = [x \in DOMAIN shard' |-> shard'[x]]
    <2>1. CASE shard' = Remove(shard, key[r])
        BY <2>1 DEF Remove, Restrict
    <2>2. CASE shard' = shard
        BY <1>0, <2>2 DEF Typed
    <2> QED BY <2>1, <2>2 DEF Release
<1>4. Typed'
    <2>1. \A x \in DOMAIN shard' : x \in Key /\ shard'[x] \in Slot
        BY <1>0, <1>3 DEF Typed
    <2>2. pc' \in [Request -> Pc]
        BY <1>0, <1>1 DEF Typed, Pc
    <2> QED BY <1>0, <1>1, <1>3, <2>1, <2>2 DEF Typed
<1>5. ASSUME NEW q \in Request, pc'[q] \in Holder \cup {"ok"}, key[q] \notin reclaimed
      PROVE  pc[q] = pc'[q] /\ (key[q] \in DOMAIN shard =>
                 key[q] \in DOMAIN shard' /\ shard'[key[q]] = shard[key[q]])
    <2>1. q # r /\ pc[q] = pc'[q]
        BY <1>0, <1>1, <1>5 DEF Typed, Holder
    <2>2. key[q] # key[r]
        BY <1>2, <1>5, <2>1, OthersElsewhere
    <2> QED BY <1>3, <2>1, <2>2
<1>6. RunnerOwns' /\ WinnerStays'
    BY <1>0, <1>1, <1>5 DEF RunnerOwns, WinnerStays
<1>7. ReplayFaithful'
    BY <1>0, <1>1, <1>3 DEF ReplayFaithful
<1> QED
    BY <1>4, <1>6, <1>7 DEF IInv

LEMMA NextInv == IInv /\ [Next]_vars => IInv'
<1> SUFFICES ASSUME IInv, [Next]_vars PROVE IInv'
    OBVIOUS
<1>0. Typed
    BY DEF IInv
<1> USE StoreAssumption
<1>1. CASE UNCHANGED vars
    BY <1>0, <1>1, QuietStep DEF vars, Typed
<1>2. CASE Tick
    BY <1>0, <1>2, QuietStep DEF Tick, Typed
<1>3. ASSUME NEW r \in Request, Step(r) PROVE IInv'
    <2>1. CASE ReserveNow(r) \/ StoreNow(r) \/ Pipeline(r)
        <3>1. /\ UNCHANGED <<shard, key, body, reclaimed, now>>
              /\ t' \in [Request -> 0..MaxClock]
            BY <1>0, <2>1 DEF ReserveNow, StoreNow, Pipeline, Typed
        <3>2. \/ pc[r] = "idle" /\ pc' = [pc EXCEPT ![r] = "reserve"]
              \/ pc[r] = "store" /\ pc' = [pc EXCEPT ![r] = "storing"]
              \/ pc[r] = "run" /\ \E p \in {"store", "release", "gone"} : pc' = [pc EXCEPT ![r] = p]
            BY <2>1 DEF ReserveNow, StoreNow, Pipeline, Goto
        <3>3. pc' \in [Request -> Pc]
            BY <1>0, <3>2 DEF Typed, Pc
        <3>4. /\ \A q \in Request : pc'[q] \in Holder => pc[q] \in Holder
              /\ \A q \in Request : pc'[q] = "ok" => pc[q] = "ok"
            BY <1>0, <3>2 DEF Typed, Holder
        <3>5. now' \in 0..MaxClock
            BY <1>0, <3>1 DEF Typed
        <3> QED BY <3>1, <3>3, <3>4, <3>5, QuietStep
    <2>2. CASE ReserveSeen(r)
        <3>1. Verdict(r) \in {"idle", "replayed", "mismatch"}
            <4>1. shard[key[r]].kind \in {"inflight", "done"}
                BY <1>0, <2>2 DEF ReserveSeen, Present, Typed, Slot, InFlight, Done
            <4> QED BY <4>1 DEF Verdict
        <3>2. /\ UNCHANGED <<shard, key, body, reclaimed, now>>
              /\ t' = [t EXCEPT ![r] = 0] /\ pc' = [pc EXCEPT ![r] = Verdict(r)]
            BY <2>2 DEF ReserveSeen, Goto
        <3>3. pc' \in [Request -> Pc] /\ t' \in [Request -> 0..MaxClock] /\ now' \in 0..MaxClock
            BY <1>0, <3>1, <3>2 DEF Typed, Pc
        <3>4. /\ \A q \in Request : pc'[q] \in Holder => pc[q] \in Holder
              /\ \A q \in Request : pc'[q] = "ok" => pc[q] = "ok"
            BY <1>0, <3>1, <3>2 DEF Typed, Holder
        <3> QED BY <3>2, <3>3, <3>4, QuietStep
    <2>3. CASE ReserveSlot(r)
        BY <2>3, ReserveStep
    <2>4. CASE StoreSlot(r)
        BY <2>4, StoreStep
    <2>5. CASE Release(r)
        BY <2>5, ReleaseStep
    <2> QED BY <1>3, <2>1, <2>2, <2>3, <2>4, <2>5 DEF Step
<1> QED
    BY <1>1, <1>2, <1>3 DEF Next

\* At most one request per key is at the provider, as long as the key loses no
\* slot to its TTL or to eviction.
THEOREM OneInFlight == Spec => []SingleFlight
<1>1. IInv => SingleFlight
    BY DEF IInv, RunnerOwns, SingleFlight, IsInFlight
<1> QED
    BY <1>1, InitInv, NextInv, PTL DEF Spec

\* At most one request per such key succeeds, and none runs after it.
THEOREM AtMostOneCharge == Spec => []ChargedOnce
<1>1. IInv => ChargedOnce
    <2> SUFFICES ASSUME IInv, NEW r \in Request, NEW q \in Request, pc[r] = "ok",
                        key[r] \notin reclaimed, q # r, key[q] = key[r],
                        pc[q] \in {"ok"} \cup Holder
                 PROVE  FALSE
        BY DEF ChargedOnce
    <2>1. shard[key[r]].kind = "done" /\ shard[key[r]].resp = r
        BY DEF IInv, WinnerStays
    <2>2. CASE pc[q] = "ok"
        BY <2>1, <2>2 DEF IInv, WinnerStays
    <2>3. CASE pc[q] \in Holder
        BY <2>1, <2>3 DEF IInv, RunnerOwns
    <2> QED BY <2>2, <2>3
<1> QED
    BY <1>1, InitInv, NextInv, PTL DEF Spec

\* A stored response is that of a request with the same tenant, key and body.
THEOREM ReplaysAreFaithful == Spec => []ReplayFaithful
<1>1. IInv => ReplayFaithful
    BY DEF IInv
<1> QED
    BY <1>1, InitInv, NextInv, PTL DEF Spec

-----------------------------------------------------------------------------
\* Capacity and eviction

\* The shard is within its cap.
SizeInv == IsFiniteSet(DOMAIN shard) /\ Cardinality(DOMAIN shard) <= MaxEntries

Tenants(map) == {TenantOf(k) : k \in DOMAIN map}

\* The order eviction_victim takes the maximum of.
Beats(map, inserter, v, u) ==
    \/ Cardinality(Held(map, v)) > Cardinality(Held(map, u))
    \/ /\ Cardinality(Held(map, v)) = Cardinality(Held(map, u))
       /\ v = inserter \/ (u # inserter /\ v > u)

LEMMA HeldSize ==
    ASSUME NEW map, IsFiniteSet(DOMAIN map), NEW tn
    PROVE  /\ IsFiniteSet(Held(map, tn))
           /\ Cardinality(Held(map, tn)) \in Nat
           /\ Cardinality(Held(map, tn)) <= Cardinality(DOMAIN map)
BY FS_Subset, FS_CardinalityType DEF Held

\* There is a largest holder: Beats is a strict total order of the finitely many
\* tenants that hold a slot.
LEMMA VictimExists ==
    ASSUME NEW map, IsFiniteSet(DOMAIN map), DOMAIN map \subseteq Key, DOMAIN map # {}, NEW tn
    PROVE  \E v \in Tenants(map) : \A u \in Tenants(map) \ {v} : Beats(map, tn, v, u)
<1> DEFINE A == Tenants(map)
           Above(v) == {u \in A : u # v /\ Beats(map, tn, u, v)}
           T == {Above(v) : v \in A}
           R == StrictSubsetOrdering(A)
<1>1. A \subseteq Nat /\ A # {}
    BY TenantAssumption DEF Tenants, TenantOf, Key
<1>2. IsFiniteSet(A)
    <2>1. [k \in DOMAIN map |-> TenantOf(k)] \in Surjection(DOMAIN map, A)
        BY DEF Surjection, Tenants
    <2> QED BY <2>1, FS_Surjection
<1>3. \A v : Cardinality(Held(map, v)) \in Nat
    BY HeldSize
<1>4. IsWellFoundedOn(R, FiniteSubsetsOf(A))
    BY FS_StrictSubsetOrderingWellFounded
<1>5. T \subseteq FiniteSubsetsOf(A) /\ T # {}
    <2>1. \A v \in A : IsFiniteSet(Above(v))
        BY <1>2, FS_Subset
    <2> QED BY <1>1, <2>1 DEF FiniteSubsetsOf
<1>6. \E x \in T : \A y \in T : ~(<<y, x>> \in R)
    <2> HIDE DEF T, R
    <2> QED BY <1>4, <1>5, WFMin, Zenon
<1>7. PICK v \in A : \A m \in A : ~(<<Above(m), Above(v)>> \in R)
    BY <1>6
<1>8. ASSUME NEW m \in A, m # v, Beats(map, tn, m, v) PROVE FALSE
    <2>1. ASSUME NEW x \in A, x # m, Beats(map, tn, x, m) PROVE x # v /\ Beats(map, tn, x, v)
        <3>1. x \in Nat /\ m \in Nat /\ v \in Nat
            BY <1>1
        <3> QED BY <1>3, <1>8, <2>1, <3>1 DEF Beats
    <2>2. Above(m) \subseteq Above(v)
        BY <2>1
    <2>3. m \in Above(v) /\ m \notin Above(m)
        BY <1>8
    <2>4. <<Above(m), Above(v)>> \in R
        BY <2>2, <2>3 DEF StrictSubsetOrdering
    <2> QED BY <1>7, <2>4
<1>9. ASSUME NEW u \in A, u # v PROVE Beats(map, tn, v, u)
    <2>1. ~Beats(map, tn, u, v)
        BY <1>8, <1>9
    <2>2. u \in Nat /\ v \in Nat
        BY <1>1
    <2> QED BY <1>3, <1>9, <2>1, <2>2 DEF Beats
<1> QED
    BY <1>9

LEMMA VictimBeats ==
    ASSUME NEW map, IsFiniteSet(DOMAIN map), DOMAIN map \subseteq Key, DOMAIN map # {}, NEW tn,
           NEW u \in Tenants(map), u # EvictionVictim(map, tn)
    PROVE  Beats(map, tn, EvictionVictim(map, tn), u)
<1> DEFINE Wins(v) == \A w \in Tenants(map) \ {v} : Beats(map, tn, v, w)
<1>1. \E v \in Tenants(map) : Wins(v)
    BY VictimExists
<1>2. EvictionVictim(map, tn) = CHOOSE v \in Tenants(map) : Wins(v)
    BY DEF EvictionVictim, Tenants, Beats
<1> HIDE DEF Wins
<1>3. Wins(EvictionVictim(map, tn))
    BY <1>1, <1>2
<1> QED
    BY <1>3 DEF Wins

\* What make-room may drop: an expired slot, or one of the inserter, or one of a
\* tenant that holds more live slots than the inserter.
LEMMA EvictIsFair ==
    ASSUME NEW map, IsFiniteSet(DOMAIN map), DOMAIN map \subseteq Key,
           Cardinality(DOMAIN map) <= MaxEntries, NEW time, NEW tn,
           NEW m \in EvictIfNeeded(map, time, tn)
    PROVE  /\ IsFiniteSet(DOMAIN m) /\ Cardinality(DOMAIN m) < MaxEntries
           /\ \A k \in DOMAIN map \ DOMAIN m :
                 \/ Expired(map[k], time)
                 \/ TenantOf(k) = tn
                 \/ Cardinality({x \in Held(map, TenantOf(k)) : ~Expired(map[x], time)})
                       > Cardinality({x \in Held(map, tn) : ~Expired(map[x], time)})
<1> DEFINE live == Restrict(map, {k \in DOMAIN map : ~Expired(map[k], time)})
           Live(u) == {x \in Held(map, u) : ~Expired(map[x], time)}
<1>0. MaxEntries \in Nat /\ MaxEntries > 0
    BY StoreAssumption
<1>1. DOMAIN live = {k \in DOMAIN map : ~Expired(map[k], time)}
    BY DEF Restrict
<1>2. IsFiniteSet(DOMAIN live) /\ Cardinality(DOMAIN live) <= Cardinality(DOMAIN map)
      /\ Cardinality(DOMAIN live) \in Nat /\ Cardinality(DOMAIN map) \in Nat
    BY <1>1, FS_Subset, FS_CardinalityType
<1>3. \A u : Held(live, u) = Live(u)
    BY <1>1 DEF Held
<1>4. \/ m = map /\ Cardinality(DOMAIN map) < MaxEntries
      \/ m = live /\ Cardinality(DOMAIN live) < MaxEntries
      \/ \E k \in Oldest(live, EvictionVictim(live, tn)) : m = Remove(live, k)
    BY DEF EvictIfNeeded
<1>5. CASE m = map /\ Cardinality(DOMAIN map) < MaxEntries
    BY <1>5
<1>6. CASE m = live /\ Cardinality(DOMAIN live) < MaxEntries
    BY <1>1, <1>2, <1>6
<1>7. ASSUME NEW k0 \in Oldest(live, EvictionVictim(live, tn)), m = Remove(live, k0)
      PROVE  /\ IsFiniteSet(DOMAIN m) /\ Cardinality(DOMAIN m) < MaxEntries
             /\ \A k \in DOMAIN map \ DOMAIN m :
                   \/ Expired(map[k], time)
                   \/ TenantOf(k) = tn
                   \/ Cardinality(Live(TenantOf(k))) > Cardinality(Live(tn))
    <2> DEFINE v == EvictionVictim(live, tn)
    <2> HIDE DEF live, v
    <2>1. k0 \in DOMAIN live /\ TenantOf(k0) = v /\ k0 \in Held(live, v)
        BY <1>7 DEF Oldest, Held, v
    <2>2. DOMAIN m = DOMAIN live \ {k0}
        BY <1>7, RemoveEffect
    <2>3. IsFiniteSet(DOMAIN m) /\ Cardinality(DOMAIN m) = Cardinality(DOMAIN live) - 1
        BY <1>2, <2>1, <2>2, FS_RemoveElement
    <2>4. Cardinality(DOMAIN m) < MaxEntries
        BY <1>0, <1>2, <2>3
    <2>5. ASSUME v # tn PROVE Cardinality(Held(live, v)) > Cardinality(Held(live, tn))
        <3>1. Cardinality(Held(live, v)) \in Nat /\ Cardinality(Held(live, tn)) \in Nat
            BY <1>2, HeldSize
        <3>2. CASE tn \in Tenants(live)
            <4>1. DOMAIN live \subseteq Key /\ DOMAIN live # {}
                BY <1>1, <2>1
            <4>2. Beats(live, tn, v, tn)
                BY <1>2, <2>5, <3>2, <4>1, VictimBeats DEF v
            <4> QED BY <2>5, <3>1, <4>2 DEF Beats
        <3>3. CASE tn \notin Tenants(live)
            <4>1. Held(live, tn) = {}
                BY <3>3 DEF Held, Tenants
            <4>2. Cardinality(Held(live, tn)) = 0
                BY <4>1, FS_EmptySet
            <4>3. Cardinality(Held(live, v)) # 0
                BY <1>2, <2>1, HeldSize, FS_EmptySet
            <4> QED BY <3>1, <4>2, <4>3
        <3> QED BY <3>2, <3>3
    <2>6. ASSUME NEW k \in DOMAIN map \ DOMAIN m, ~Expired(map[k], time), TenantOf(k) # tn
          PROVE  Cardinality(Live(TenantOf(k))) > Cardinality(Live(tn))
        <3>1. k = k0
            BY <1>1, <2>2, <2>6
        <3>2. TenantOf(k) = v
            BY <2>1, <3>1
        <3>3. Cardinality(Held(live, v)) > Cardinality(Held(live, tn))
            BY <2>5, <2>6, <3>2
        <3> QED BY <1>3, <3>2, <3>3
    <2> QED BY <2>3, <2>4, <2>6
<1> QED
    BY <1>4, <1>5, <1>6, <1>7

\* One reservation: the cap holds and what it drops is fair.
Fair(r) ==
    /\ IsFiniteSet(DOMAIN shard') /\ Cardinality(DOMAIN shard') <= MaxEntries
    /\ \A k \in DOMAIN shard \ DOMAIN shard' :
           \/ TenantOf(k) = TenantOf(key[r])
           \/ Expired(shard[k], t[r])
           \/ LiveCount(TenantOf(k), t[r]) > LiveCount(TenantOf(key[r]), t[r])

LEMMA ReserveIsFair ==
    ASSUME Typed, SizeInv, NEW r \in Request, ReserveSlot(r)
    PROVE  Fair(r)
<1> DEFINE rest == Remove(shard, key[r])
           tn == TenantOf(key[r])
           Live(map, u) == {x \in Held(map, u) : ~Expired(map[x], t[r])}
<1>1. PICK m \in EvictIfNeeded(rest, t[r], tn) :
          shard' = Put(m, key[r], [kind |-> "inflight", at |-> t[r], owner |-> r])
    BY DEF ReserveSlot
<1>2. DOMAIN shard' = DOMAIN m \cup {key[r]}
    BY <1>1 DEF Put
<1>3. /\ DOMAIN rest = DOMAIN shard \ {key[r]}
      /\ \A x \in DOMAIN rest : rest[x] = shard[x]
    BY DEF Remove, Restrict
<1> HIDE DEF rest
<1>4. IsFiniteSet(DOMAIN rest) /\ Cardinality(DOMAIN rest) <= MaxEntries /\ DOMAIN rest \subseteq Key
    <2>1. IsFiniteSet(DOMAIN rest) /\ Cardinality(DOMAIN rest) <= Cardinality(DOMAIN shard)
        BY <1>3, FS_Subset DEF SizeInv
    <2>2. Cardinality(DOMAIN rest) \in Nat /\ Cardinality(DOMAIN shard) \in Nat
        BY <2>1, FS_CardinalityType DEF SizeInv
    <2> QED BY <1>3, <2>1, <2>2, StoreAssumption DEF SizeInv, Typed
<1>5. /\ IsFiniteSet(DOMAIN m) /\ Cardinality(DOMAIN m) < MaxEntries
      /\ \A k \in DOMAIN rest \ DOMAIN m :
            \/ Expired(rest[k], t[r])
            \/ TenantOf(k) = tn
            \/ Cardinality(Live(rest, TenantOf(k))) > Cardinality(Live(rest, tn))
    <2> HIDE DEF tn
    <2> QED BY <1>4, EvictIsFair
<1>6. IsFiniteSet(DOMAIN shard') /\ Cardinality(DOMAIN shard') <= MaxEntries
    <2>1. /\ IsFiniteSet(DOMAIN m \cup {key[r]})
          /\ Cardinality(DOMAIN m \cup {key[r]}) =
                IF key[r] \in DOMAIN m THEN Cardinality(DOMAIN m) ELSE Cardinality(DOMAIN m) + 1
        BY <1>5, FS_AddElement
    <2>2. Cardinality(DOMAIN m) \in Nat /\ MaxEntries \in Nat
        BY <1>5, FS_CardinalityType, StoreAssumption
    <2> QED BY <1>2, <1>5, <2>1, <2>2
<1>7. \A u : Live(rest, u) = Live(shard, u)
    <2>1. key[r] \in DOMAIN shard => Expired(shard[key[r]], t[r])
        BY DEF ReserveSlot, Present
    <2>2. ASSUME NEW u, NEW x PROVE x \in Live(rest, u) <=> x \in Live(shard, u)
        BY <1>3, <2>1 DEF Held
    <2> QED BY <2>2
<1>8. \A u : LiveCount(u, t[r]) = Cardinality(Live(rest, u))
    BY <1>7 DEF LiveCount
<1>9. ASSUME NEW k \in DOMAIN shard \ DOMAIN shard'
      PROVE  \/ TenantOf(k) = TenantOf(key[r])
             \/ Expired(shard[k], t[r])
             \/ LiveCount(TenantOf(k), t[r]) > LiveCount(TenantOf(key[r]), t[r])
    <2>1. k \in DOMAIN rest \ DOMAIN m /\ rest[k] = shard[k]
        BY <1>2, <1>3
    <2> QED BY <1>5, <1>8, <2>1
<1> QED
    BY <1>6, <1>9 DEF Fair

LEMMA SizeInit == Init => SizeInv
<1> SUFFICES ASSUME Init PROVE SizeInv
    OBVIOUS
<1>1. DOMAIN shard = {}
    BY DEF Init
<1> QED
    BY <1>1, FS_EmptySet, StoreAssumption DEF SizeInv

\* Only a reservation takes a request from reserve to run, and only it can grow
\* the shard.
LEMMA SizeNext ==
    ASSUME IInv, SizeInv, [Next]_vars
    PROVE  /\ SizeInv'
           /\ \A r \in Request : pc[r] = "reserve" /\ pc'[r] = "run" => Fair(r)
<1>0. Typed
    BY DEF IInv
<1>a. ASSUME NEW r \in Request, NEW p \in Pc, p # "run", pc' = [pc EXCEPT ![r] = p]
      PROVE  \A q \in Request : pc[q] = "reserve" => pc'[q] # "run"
    BY <1>0, <1>a DEF Typed
<1>1. CASE UNCHANGED vars \/ Tick
    <2>1. UNCHANGED <<shard, pc>>
        BY <1>1 DEF vars, Tick
    <2> QED BY <2>1 DEF SizeInv
<1>2. ASSUME NEW r \in Request, Step(r)
      PROVE  /\ SizeInv'
             /\ \A q \in Request : pc[q] = "reserve" /\ pc'[q] = "run" => Fair(q)
    <2>1. CASE ReserveSlot(r)
        <3>1. Fair(r)
            BY <1>0, <2>1, ReserveIsFair
        <3>2. \A q \in Request : q # r => pc'[q] = pc[q]
            BY <1>0, <2>1 DEF ReserveSlot, Goto, Typed
        <3> QED BY <3>1, <3>2 DEF Fair, SizeInv
    <2>2. CASE ReserveNow(r) \/ StoreNow(r)
        <3>1. shard' = shard /\ \E p \in Pc : p # "run" /\ pc' = [pc EXCEPT ![r] = p]
            BY <2>2 DEF ReserveNow, StoreNow, Goto, Pc
        <3> QED BY <1>a, <3>1 DEF SizeInv
    <2>3. CASE Pipeline(r)
        <3>1. shard' = shard /\ \E p \in Pc : p # "run" /\ pc' = [pc EXCEPT ![r] = p]
            BY <2>3 DEF Pipeline, Goto, Pc
        <3> QED BY <1>a, <3>1 DEF SizeInv
    <2>4. CASE ReserveSeen(r)
        <3>0. Verdict(r) \in {"idle", "replayed", "mismatch"}
            <4>1. shard[key[r]].kind \in {"inflight", "done"}
                BY <1>0, <2>4 DEF ReserveSeen, Present, Typed, Slot, InFlight, Done
            <4> QED BY <4>1 DEF Verdict
        <3>1. shard' = shard /\ \E p \in Pc : p # "run" /\ pc' = [pc EXCEPT ![r] = p]
            BY <2>4, <3>0 DEF ReserveSeen, Goto, Pc
        <3> QED BY <1>a, <3>1 DEF SizeInv
    <2>5. CASE StoreSlot(r) \/ Release(r)
        <3>1. \E p \in Pc : p # "run" /\ pc' = [pc EXCEPT ![r] = p]
            BY <2>5 DEF StoreSlot, Release, Goto, Pc
        <3>2. DOMAIN shard' \subseteq DOMAIN shard
            <4>1. StoreSlot(r) => DOMAIN shard' = DOMAIN shard
                <5>1. CASE IsInFlight(key[r]) /\ StoreSlot(r)
                    <6>1. \E slot : shard' = Put(shard, key[r], slot)
                        BY <5>1 DEF StoreSlot
                    <6> QED BY <5>1, <6>1 DEF Put, IsInFlight
                <5> QED BY <5>1 DEF StoreSlot
            <4>2. Release(r) => DOMAIN shard' \subseteq DOMAIN shard
                BY DEF Release, Remove, Restrict
            <4> QED BY <2>5, <4>1, <4>2
        <3>3. SizeInv'
            <4>1. IsFiniteSet(DOMAIN shard') /\ Cardinality(DOMAIN shard') <= Cardinality(DOMAIN shard)
                BY <3>2, FS_Subset DEF SizeInv
            <4>2. Cardinality(DOMAIN shard') \in Nat /\ Cardinality(DOMAIN shard) \in Nat
                BY <4>1, FS_CardinalityType DEF SizeInv
            <4> QED BY <4>1, <4>2, StoreAssumption DEF SizeInv
        <3> QED BY <1>a, <3>1, <3>3
    <2> QED BY <1>2, <2>1, <2>2, <2>3, <2>4, <2>5 DEF Step
<1> QED
    BY <1>1, <1>2 DEF Next

\* Capacity is a billing boundary, over every interleaving: reserve keeps the
\* shard within its cap and drops another tenant's live slot only if that tenant
\* holds strictly more live slots than the one it makes room for.
THEOREM EvictionIsFair == Spec => FairEviction
<1>1. IInv /\ SizeInv /\ [Next]_vars =>
        \A r \in Request : pc[r] = "reserve" /\ pc'[r] = "run" =>
           /\ Cardinality(DOMAIN shard') <= MaxEntries
           /\ \A k \in DOMAIN shard \ DOMAIN shard' :
                  \/ TenantOf(k) = TenantOf(key[r])
                  \/ Expired(shard[k], t[r])
                  \/ LiveCount(TenantOf(k), t[r]) > LiveCount(TenantOf(key[r]), t[r])
    BY SizeNext DEF Fair
<1>2. Init => IInv /\ SizeInv
    BY InitInv, SizeInit
<1>3. IInv /\ SizeInv /\ [Next]_vars => IInv' /\ SizeInv'
    BY NextInv, SizeNext
<1> QED
    BY <1>1, <1>2, <1>3, PTL DEF Spec, FairEviction

=============================================================================
