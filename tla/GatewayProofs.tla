---------------------------- MODULE GatewayProofs ----------------------------
(***************************************************************************)
(* Proofs about what MCGateway composes: the chat pipeline (ChatPipeline),  *)
(* for any requests, profiles, providers, owners and purges, and the        *)
(* decisions the gateway takes without keeping state (Decisions), for any   *)
(* questions that its assumptions admit.  The first part shows what a       *)
(* cached answer may be served to, where personal data may go, and what     *)
(* record every way out leaves; the second who is served, what a model      *)
(* costs, in which order candidates are tried, what a routing               *)
(* configuration turns into, and what the walk of another endpoint leaves.  *)
(***************************************************************************)
EXTENDS ChatPipeline, Decisions, FiniteSetTheorems, SequenceTheorems, TLAPS

Before == {"idle", "plan", "generation", "lookup", "residency", "admit"}

Typed ==
    /\ profile \in [Requests -> Profiles]
    /\ DOMAIN pc = Requests /\ DOMAIN wild = Requests /\ DOMAIN plan = Requests
    /\ DOMAIN targets = Requests /\ DOMAIN calls = Requests /\ DOMAIN from = Requests
    /\ DOMAIN admitted = Requests /\ DOMAIN settled = Requests
    /\ DOMAIN usage = Requests /\ DOMAIN decision = Requests
    /\ DOMAIN began = Requests /\ DOMAIN planned = Requests

RequestStep(r) ==
    \/ Arrive(r) \/ Plan(r) \/ Key(r) \/ Lookup(r) \/ Residency(r) \/ Admit(r)
    \/ Skip(r) \/ Exhaust(r) \/ Win(r) \/ AllFailed(r) \/ HangUp(r) \/ Settle(r)

\* A step of r touches no other request.
Others(r) ==
    \A k \in Requests : k # r =>
        /\ pc'[k] = pc[k] /\ wild'[k] = wild[k] /\ plan'[k] = plan[k] /\ targets'[k] = targets[k]
        /\ calls'[k] = calls[k] /\ from'[k] = from[k] /\ admitted'[k] = admitted[k]
        /\ settled'[k] = settled[k] /\ usage'[k] = usage[k] /\ decision'[k] = decision[k]
        /\ began'[k] = began[k] /\ planned'[k] = planned[k]

LEMMA RequestShape ==
    ASSUME Typed, NEW r \in Requests, RequestStep(r)
    PROVE  Typed' /\ Others(r) /\ profile' = profile /\ generations' = generations
<1> USE DEF Typed, Others, Goto, Called, accounting, caching, history
<1>1. CASE Arrive(r)
    BY <1>1 DEF Arrive
<1>2. CASE Plan(r)
    BY <1>2 DEF Plan
<1>3. CASE Key(r)
    BY <1>3 DEF Key
<1>4. CASE Lookup(r)
    BY <1>4 DEF Lookup
<1>5. CASE Residency(r)
    BY <1>5 DEF Residency
<1>6. CASE Admit(r)
    BY <1>6 DEF Admit
<1>7. CASE Skip(r)
    BY <1>7 DEF Skip
<1>8. CASE Exhaust(r)
    BY <1>8 DEF Exhaust
<1>9. CASE Win(r)
    BY <1>9 DEF Win
<1>10. CASE AllFailed(r)
    BY <1>10 DEF AllFailed
<1>11. CASE HangUp(r)
    BY <1>11 DEF HangUp
<1>12. CASE Settle(r)
    BY <1>12 DEF Settle
<1> QED
    BY <1>1, <1>2, <1>3, <1>4, <1>5, <1>6, <1>7, <1>8, <1>9, <1>10, <1>11, <1>12 DEF RequestStep

\* Everything else of Next leaves the requests alone.
Local == <<pc, profile, wild, plan, targets, calls, from, accounting, history>>

LEMMA StepKinds ==
    ASSUME [Next]_vars
    PROVE  \/ \E r \in Requests : RequestStep(r)
           \/ UNCHANGED Local
BY DEF Next, RequestStep, Local, vars, accounting, history, Apply, Forget, Purge

LEMMA TypedInit == Init => Typed
BY DEF Init, Typed

LEMMA TypedNext == Typed /\ [Next]_vars => Typed'
<1> SUFFICES ASSUME Typed, [Next]_vars PROVE Typed'
    OBVIOUS
<1>1. CASE UNCHANGED Local
    BY <1>1 DEF Typed, Local, accounting, history
<1> QED
    BY <1>1, StepKinds, RequestShape

-----------------------------------------------------------------------------
\* One record per way out

\* What the record holds in each phase.
Record(r) ==
    /\ pc[r] \in Before => /\ ~admitted[r] /\ settled[r] = 0 /\ usage[r] = <<>>
                           /\ calls[r] = {} /\ from[r] = Nobody
    /\ pc[r] = "attempt" => admitted[r] /\ settled[r] = 0 /\ usage[r] = <<>> /\ from[r] = Nobody
    /\ pc[r] = "settle" => /\ admitted[r] /\ settled[r] = 0 /\ decision[r] = "ok"
                           /\ usage[r] = <<"success">> /\ from[r] = r
    /\ pc[r] = "answered" => /\ admitted[r] /\ settled[r] = 1 /\ decision[r] = "ok"
                             /\ usage[r] = <<"success">> /\ from[r] = r
    /\ pc[r] = "hit" => ~admitted[r] /\ calls[r] = {} /\ usage[r] = <<"cache_hit">>
    /\ pc[r] \in {"refused", "blocked", "denied"} => calls[r] = {}
    /\ pc[r] = "failed" => decision[r] = "all_failed" /\ from[r] = Nobody
    /\ pc[r] # "answered" => settled[r] = 0

RecordInv == \A r \in Requests : Record(r)

LEMMA RecordStep ==
    ASSUME Typed, NEW r \in Requests, Record(r), RequestStep(r)
    PROVE  Record(r)'
<1> USE DEF Typed, Record, Before, Goto, Called, accounting, caching, history
<1>1. CASE Arrive(r)
    BY <1>1 DEF Arrive
<1>2. CASE Plan(r)
    BY <1>2 DEF Plan
<1>3. CASE Key(r)
    BY <1>3 DEF Key
<1>4. CASE Lookup(r)
    BY <1>4 DEF Lookup
<1>5. CASE Residency(r)
    BY <1>5 DEF Residency
<1>6. CASE Admit(r)
    BY <1>6 DEF Admit
<1>7. CASE Skip(r)
    BY <1>7 DEF Skip
<1>8. CASE Exhaust(r)
    BY <1>8 DEF Exhaust
<1>9. CASE Win(r)
    BY <1>9 DEF Win
<1>10. CASE AllFailed(r)
    BY <1>10 DEF AllFailed
<1>11. CASE HangUp(r)
    BY <1>11 DEF HangUp
<1>12. CASE Settle(r)
    BY <1>12 DEF Settle
<1> QED
    BY <1>1, <1>2, <1>3, <1>4, <1>5, <1>6, <1>7, <1>8, <1>9, <1>10, <1>11, <1>12 DEF RequestStep

LEMMA RecordNext == Typed /\ RecordInv /\ [Next]_vars => RecordInv'
<1> SUFFICES ASSUME Typed, RecordInv, [Next]_vars, NEW k \in Requests PROVE Record(k)'
    BY DEF RecordInv
<1>0. Record(k)
    BY DEF RecordInv
<1>1. CASE UNCHANGED Local
    BY <1>0, <1>1 DEF Record, Local, accounting, history
<1>2. ASSUME NEW r \in Requests, RequestStep(r) PROVE Record(k)'
    <2>1. CASE k = r
        BY <1>0, <1>2, <2>1, RecordStep
    <2>2. CASE k # r
        <3>1. Others(r)
            BY <1>2, RequestShape
        <3> QED BY <1>0, <2>2, <3>1 DEF Others, Record
    <2> QED BY <2>1, <2>2
<1> QED
    BY <1>1, <1>2, StepKinds

\* Every way out of the pipeline leaves one consistent record, over every
\* interleaving of requests, cache writes and purges.
THEOREM RecordsAreConsistent == Spec => []OneRecord
<1>1. Init => Typed /\ RecordInv
    BY TypedInit DEF Init, RecordInv, Record, Before
<1>2. Typed /\ RecordInv /\ [Next]_vars => Typed' /\ RecordInv'
    BY TypedNext, RecordNext
<1>3. RecordInv => OneRecord
    BY DEF RecordInv, Record, OneRecord
<1> QED
    BY <1>1, <1>2, <1>3, PTL DEF Spec

-----------------------------------------------------------------------------
\* Where personal data goes

\* Whatever has been sent went to an eligible target; what is still to be tried
\* once the chain is filtered is eligible too, and the winner stays at the head.
AtHome(r) ==
    /\ \A c \in calls[r] : c.data = Sent(profile[r]) /\ \E t \in Eligible(profile[r]) : t.provider = c.provider
    /\ pc[r] \in {"admit", "attempt", "settle", "answered"} => targets[r] \in Seq(Eligible(profile[r]))
    /\ pc[r] \in {"settle", "answered"} => targets[r] # <<>>

HomeInv == \A r \in Requests : AtHome(r)

LEMMA EligibleFinite ==
    ASSUME NEW p \in Profiles
    PROVE  IsFiniteSet(Eligible(p))
<1>1. IsFiniteSet(ToSet(p.chain))
    <2>1. p.chain \in Seq(ToSet(p.chain))
        BY ProfileAssumption
    <2>2. Len(p.chain) \in Nat /\ DOMAIN p.chain = 1..Len(p.chain)
        BY <2>1, LenProperties
    <2>3. IsFiniteSet(DOMAIN p.chain)
        BY <2>2, FS_Interval
    <2>4. [i \in DOMAIN p.chain |-> p.chain[i]] \in Surjection(DOMAIN p.chain, ToSet(p.chain))
        BY DEF Surjection, ToSet
    <2> QED BY <2>3, <2>4, FS_Surjection
<1>2. ASSUME NEW S \in SUBSET DOMAIN Resident
      PROVE  IsFiniteSet({default_target_plan(n) : n \in S})
    <2>1. IsFiniteSet(S)
        BY FS_Subset, ResidentAssumption
    <2>2. [n \in S |-> default_target_plan(n)] \in Surjection(S, {default_target_plan(n) : n \in S})
        BY DEF Surjection
    <2> QED BY <2>1, <2>2, FS_Surjection
<1>3. CASE required_region(p) = "any"
    BY <1>1, <1>3 DEF Eligible
<1>4. CASE required_region(p) # "any" /\ p.config
    <2>1. Eligible(p) \subseteq ToSet(p.chain)
        BY <1>4 DEF Eligible
    <2> QED BY <1>1, <2>1, FS_Subset
<1>5. CASE required_region(p) # "any" /\ ~p.config
    <2>1. Eligible(p) = {default_target_plan(n) : n \in {m \in DOMAIN Resident : provider_resident(m, required_region(p))}}
        BY <1>5 DEF Eligible
    <2> QED BY <1>2, <2>1
<1> QED
    BY <1>3, <1>4, <1>5

LEMMA OrderOfEligible ==
    ASSUME NEW S, IsFiniteSet(S), NEW order \in SetToSeqs(S)
    PROVE  order \in Seq(S)
<1>1. Cardinality(S) \in Nat
    BY FS_CardinalityType
<1>2. order \in [1..Cardinality(S) -> S]
    BY DEF SetToSeqs
<1> QED
    BY <1>1, <1>2, SeqDef

LEMMA HomeStep ==
    ASSUME Typed, NEW r \in Requests, AtHome(r), RequestStep(r)
    PROVE  AtHome(r)'
<1> DEFINE E == Eligible(profile[r])
           Trying == {"admit", "attempt", "settle", "answered"}
<1>0. profile' = profile /\ profile[r] \in Profiles
    BY RequestShape DEF Typed
<1>1. /\ \A c \in calls[r] : c.data = Sent(profile[r]) /\ \E t \in E : t.provider = c.provider
      /\ pc[r] \in Trying => targets[r] \in Seq(E)
      /\ pc[r] \in {"settle", "answered"} => targets[r] # <<>>
    BY DEF AtHome
<1>2. SUFFICES /\ \A c \in calls'[r] : c.data = Sent(profile[r]) /\ \E t \in E : t.provider = c.provider
               /\ pc'[r] \in Trying => targets'[r] \in Seq(E)
               /\ pc'[r] \in {"settle", "answered"} => targets'[r] # <<>>
    BY <1>0 DEF AtHome
<1>3. CASE Arrive(r) \/ Key(r) \/ Plan(r) \/ Lookup(r) \/ AllFailed(r)
    <2>1. calls' = calls /\ pc'[r] \notin Trying
        BY <1>3 DEF Typed, Arrive, Key, Plan, Lookup, AllFailed, Goto
    <2> QED BY <1>1, <2>1
<1>4. CASE Settle(r)
    <2>1. calls' = calls /\ targets' = targets /\ pc[r] = "settle"
        BY <1>4 DEF Settle
    <2> QED BY <1>1, <2>1
<1>5. CASE Admit(r)
    <2>1. calls' = calls /\ targets' = targets /\ pc[r] = "admit" /\ pc'[r] \in {"streaming", "attempt", "denied"}
        BY <1>5 DEF Admit, Typed, Goto
    <2> QED BY <1>1, <2>1
<1>6. CASE Residency(r)
    <2>1. calls' = calls /\ pc'[r] \in {"blocked", "admit"}
        BY <1>6 DEF Residency, Typed, Goto
    <2>2. CASE E = {}
        <3>1. pc'[r] = "blocked"
            BY <1>6, <2>2 DEF Residency, Typed, Goto
        <3> QED BY <1>1, <2>1, <3>1
    <2>3. CASE E # {}
        <3>1. PICK order \in SetToSeqs(E) : targets' = [targets EXCEPT ![r] = order]
            BY <1>6, <2>3 DEF Residency
        <3>2. order \in Seq(E)
            <4> HIDE DEF E
            <4>1. IsFiniteSet(E)
                BY <1>0, EligibleFinite DEF E
            <4> QED BY <4>1, OrderOfEligible
        <3>3. targets'[r] \in Seq(E)
            BY <3>1, <3>2 DEF Typed
        <3> QED BY <1>1, <2>1, <3>3
    <2> QED BY <2>2, <2>3
<1>7. CASE Skip(r)
    <2> HIDE DEF E
    <2>1. targets[r] \in Seq(E) /\ targets[r] # <<>> /\ calls' = calls /\ pc'[r] = "attempt"
        BY <1>1, <1>7 DEF Skip
    <2>2. targets'[r] = Tail(targets[r])
        BY <1>7 DEF Skip, Typed
    <2> QED BY <1>1, <2>1, <2>2, HeadTailProperties
<1>8. CASE Exhaust(r) \/ Win(r) \/ HangUp(r)
    <2> HIDE DEF E
    <2>1. targets[r] \in Seq(E) /\ targets[r] # <<>> /\ pc[r] = "attempt"
        BY <1>1, <1>8 DEF Exhaust, Win, HangUp
    <2>2. Head(targets[r]) \in E /\ Tail(targets[r]) \in Seq(E)
        BY <2>1, HeadTailProperties
    <2>3. calls'[r] = calls[r] \cup {[provider |-> Head(targets[r]).provider, data |-> Sent(profile[r])]}
        BY <1>8 DEF Exhaust, Win, HangUp, Called, Typed
    <2>4. \/ pc'[r] \in {"settle", "gone"} /\ targets' = targets
          \/ pc'[r] = "attempt" /\ targets'[r] = Tail(targets[r])
        BY <1>8, <2>1 DEF Exhaust, Win, HangUp, Goto, Typed
    <2>5. ASSUME NEW c \in calls'[r] PROVE c.data = Sent(profile[r]) /\ \E t \in E : t.provider = c.provider
        <3>1. CASE c \in calls[r]
            BY <1>1, <3>1
        <3>2. CASE c = [provider |-> Head(targets[r]).provider, data |-> Sent(profile[r])]
            BY <2>2, <3>2
        <3> QED BY <2>3, <3>1, <3>2
    <2>6. /\ pc'[r] \in Trying => targets'[r] \in Seq(E)
          /\ pc'[r] \in {"settle", "answered"} => targets'[r] # <<>>
        BY <2>1, <2>2, <2>4
    <2> QED BY <2>5, <2>6
<1> QED
    BY <1>3, <1>4, <1>5, <1>6, <1>7, <1>8 DEF RequestStep

LEMMA HomeNext == Typed /\ HomeInv /\ [Next]_vars => HomeInv'
<1> SUFFICES ASSUME Typed, HomeInv, [Next]_vars, NEW k \in Requests PROVE AtHome(k)'
    BY DEF HomeInv
<1>0. AtHome(k)
    BY DEF HomeInv
<1>1. CASE UNCHANGED Local
    BY <1>0, <1>1 DEF Local, AtHome
<1>2. ASSUME NEW r \in Requests, RequestStep(r) PROVE AtHome(k)'
    <2>1. CASE k = r
        BY <1>0, <1>2, <2>1, HomeStep
    <2>2. CASE k # r
        <3>1. Others(r) /\ profile' = profile
            BY <1>2, RequestShape
        <3> QED BY <1>0, <2>2, <3>1 DEF Others, AtHome
    <2> QED BY <2>1, <2>2
<1> QED
    BY <1>1, <1>2, StepKinds

\* Personal data of a request bound to a region goes only to providers resident
\* there, whatever its chain, its configuration and the failures on the way; what
\* the classifier does not see leaves masked.
THEOREM PersonalDataStaysHome == Spec => []DataStaysHome
<1>1. Init => Typed /\ HomeInv
    BY TypedInit DEF Init, HomeInv, AtHome
<1>2. Typed /\ HomeInv /\ [Next]_vars => Typed' /\ HomeInv'
    BY TypedNext, HomeNext
<1>3. Typed /\ HomeInv => DataStaysHome
    <2> SUFFICES ASSUME Typed, HomeInv, NEW r \in Requests, NEW c \in calls[r],
                        profile[r].region # "any", profile[r].data # "none"
                 PROVE  \/ provider_resident(c.provider, profile[r].region)
                        \/ profile[r].data = "name" /\ c.data = "masked"
        BY DEF DataStaysHome
    <2>1. PICK t \in Eligible(profile[r]) : t.provider = c.provider /\ c.data = Sent(profile[r])
        BY DEF HomeInv, AtHome
    <2>2. profile[r].data \in {"content", "name", "tool_args"}
        BY ProfileAssumption DEF Typed
    <2>3. CASE profile[r].data = "name"
        BY <2>1, <2>3 DEF Sent
    <2>4. CASE profile[r].data # "name"
        <3>1. required_region(profile[r]) = profile[r].region
            BY <2>2, <2>4 DEF required_region, contains_personal_data
        <3>2. provider_resident(t.provider, profile[r].region)
            BY <2>1, <3>1 DEF Eligible, default_target_plan
        <3> QED BY <2>1, <3>2
    <2> QED BY <2>3, <2>4
<1> QED
    BY <1>1, <1>2, <1>3, PTL DEF Spec

-----------------------------------------------------------------------------
\* What a cached answer is served to

\* Generations are numbers, and a tenant's purged scopes leave room for the wildcard.
ScopesInv ==
    /\ DOMAIN generations = Owners
    /\ \A t \in Owners :
         /\ \A s \in DOMAIN generations[t] : generations[t][s] \in Nat
         /\ IsFiniteSet(DOMAIN generations[t])
         /\ Wildcard \in DOMAIN generations[t] \/ Cardinality(DOMAIN generations[t]) < MaxScopes

\* The key of an active plan is the request's own, and its generation lies
\* between the purges in force when planning began and when it ended.
OwnKey(r) ==
    /\ Cacheable(profile[r])
    /\ \E g \in Nat : /\ plan[r].key = exact_key_gen(profile[r], g, 0)
                      /\ began[r] <= g /\ g <= planned[r]

\* Between the two loads the folded generation can only grow.
Planning(r) ==
    LET p == profile[r] IN
    /\ began[r] \in Nat /\ planned[r] \in Nat /\ wild[r] \in Nat
    /\ plan[r].as = "active" => pc[r] \notin {"idle", "plan", "generation"} /\ OwnKey(r)
    /\ pc[r] = "lookup" => plan[r].as = "active"
    /\ pc[r] = "generation" => /\ Cacheable(p)
                               /\ wild[r] <= generation(p.owner, Wildcard)
                               /\ began[r] <= generation(p.owner, p.namespace) + wild[r]

\* An entry was made by an answered request that may fill the cache, under its key.
Made(w) ==
    /\ w.by \in Requests /\ pc[w.by] = "answered" /\ plan[w.by].as = "active" /\ w.key = plan[w.by].key
    /\ ~profile[w.by].oversize

\* The answer of a hit was made under the key of the request it is served to.
Served(r) ==
    pc[r] = "hit" => /\ plan[r].as = "active"
                     /\ Made([by |-> from[r], key |-> plan[r].key])

CacheInv ==
    /\ \A r \in Requests : Planning(r) /\ Served(r)
    /\ \A w \in queued \cup store : Made(w)

LEMMA GenerationIsNat ==
    ASSUME ScopesInv, NEW t \in Owners, NEW s
    PROVE  generation(t, s) \in Nat
BY DEF ScopesInv, generation

LEMMA CacheableOwner == \A p : Cacheable(p) => p.owner \in Owners
BY DEF Cacheable

LEMMA CacheInit == Init => ScopesInv /\ CacheInv
<1> SUFFICES ASSUME Init PROVE ScopesInv /\ CacheInv
    OBVIOUS
<1>1. ScopesInv
    <2>1. \A t \in Owners : DOMAIN generations[t] = {}
        BY DEF Init
    <2>2. IsFiniteSet({}) /\ Cardinality({}) = 0 /\ 0 < MaxScopes
        BY FS_EmptySet, PipelineAssumption
    <2>3. DOMAIN generations = Owners
        BY DEF Init
    <2> QED BY <2>1, <2>2, <2>3 DEF ScopesInv
<1>2. CacheInv
    BY DEF Init, CacheInv, Planning, Served, Off
<1> QED
    BY <1>1, <1>2

\* A purge adds one to a scope of its tenant and keeps the wildcard's reserve.
LEMMA PurgeEffect ==
    ASSUME ScopesInv, NEW t \in Owners, NEW scope, Purge(t, scope)
    PROVE  /\ ScopesInv'
           /\ \A u \in Owners : \A s : generation(u, s) <= generation(u, s)'
<1> DEFINE D == DOMAIN generations[t]
           new == [s \in D \cup {scope} |-> IF s = scope THEN generation(t, s) + 1 ELSE generations[t][s]]
<1>1. generations' = [generations EXCEPT ![t] = new] /\ (scope \in D \/ Room(t, scope))
    BY DEF Purge
<1>2. DOMAIN generations = Owners
    BY DEF ScopesInv
<1>3. generations'[t] = new /\ \A u \in Owners : u # t => generations'[u] = generations[u]
    BY <1>1, <1>2
<1>4. IsFiniteSet(D) /\ Cardinality(D) \in Nat /\ \A s \in D : generations[t][s] \in Nat
    BY FS_CardinalityType DEF ScopesInv
<1>5. \A s : generation(t, s) \in Nat
    BY GenerationIsNat
<1>6. DOMAIN new = D \cup {scope} /\ \A s \in D \cup {scope} : new[s] \in Nat
    BY <1>4, <1>5
<1>7. /\ IsFiniteSet(D \cup {scope})
      /\ Cardinality(D \cup {scope}) = IF scope \in D THEN Cardinality(D) ELSE Cardinality(D) + 1
    BY <1>4, FS_AddElement
<1>8. Wildcard \in D \cup {scope} \/ Cardinality(D \cup {scope}) < MaxScopes
    <2>1. CASE Wildcard \in D \/ scope = Wildcard
        BY <2>1
    <2>2. CASE scope \in D /\ Wildcard \notin D
        BY <1>7, <2>2 DEF ScopesInv
    <2>3. CASE scope \notin D /\ Wildcard \notin D /\ scope # Wildcard
        <3>1. Cardinality(D) + 1 < MaxScopes
            BY <1>1, <2>3 DEF Room
        <3> QED BY <1>7, <2>3, <3>1
    <2> QED BY <2>1, <2>2, <2>3
<1>9. ScopesInv'
    <2> HIDE DEF new, D
    <2>1. DOMAIN generations' = Owners
        BY <1>1, <1>2
    <2>2. ASSUME NEW u \in Owners
          PROVE  /\ \A s \in DOMAIN generations'[u] : generations'[u][s] \in Nat
                 /\ IsFiniteSet(DOMAIN generations'[u])
                 /\ Wildcard \in DOMAIN generations'[u] \/ Cardinality(DOMAIN generations'[u]) < MaxScopes
        <3>1. CASE u = t
            BY <1>3, <1>6, <1>7, <1>8, <3>1
        <3>2. CASE u # t
            BY <1>3, <3>2 DEF ScopesInv
        <3> QED BY <3>1, <3>2
    <2> QED BY <2>1, <2>2 DEF ScopesInv
<1>10. ASSUME NEW u \in Owners, NEW s PROVE generation(u, s) <= generation(u, s)'
    <2>0. generation(u, s) \in Nat
        BY GenerationIsNat
    <2>1. CASE u # t
        BY <1>3, <2>0, <2>1 DEF generation
    <2>2. CASE u = t /\ s = scope
        <3>1. generation(u, s)' = generation(u, s) + 1
            BY <1>3, <2>2 DEF generation
        <3> QED BY <2>0, <3>1
    <2>3. CASE u = t /\ s # scope
        <3>1. generation(u, s)' = generation(u, s)
            BY <1>3, <2>3 DEF generation
        <3> QED BY <2>0, <3>1
    <2> QED BY <2>1, <2>2, <2>3
<1> QED
    BY <1>9, <1>10

\* An active plan stands: nothing writes a plan once its key is made.
LEMMA PlansStand ==
    ASSUME Typed, CacheInv, NEW r \in Requests, RequestStep(r), NEW k \in Requests,
           plan[k].as = "active"
    PROVE  UNCHANGED <<plan[k], began[k], planned[k], profile>>
<1>1. Others(r) /\ profile' = profile
    BY RequestShape
<1>2. CASE k # r
    BY <1>1, <1>2 DEF Others
<1>3. CASE k = r
    <2>1. pc[r] \notin {"plan", "generation"}
        BY <1>3 DEF CacheInv, Planning
    <2>2. ~Plan(r) /\ ~Key(r)
        BY <2>1 DEF Plan, Key
    <2>3. UNCHANGED <<plan, began, planned>>
        <3>1. CASE Arrive(r) \/ Lookup(r) \/ Residency(r) \/ Admit(r) \/ Skip(r)
            BY <3>1 DEF Arrive, Lookup, Residency, Admit, Skip, history
        <3>2. CASE Exhaust(r) \/ Win(r) \/ AllFailed(r) \/ HangUp(r) \/ Settle(r)
            BY <3>2 DEF Exhaust, Win, AllFailed, HangUp, Settle, history
        <3> QED BY <2>2, <3>1, <3>2 DEF RequestStep
    <2> QED BY <1>1, <1>3, <2>3
<1> QED
    BY <1>2, <1>3

\* Nor does an answered request do anything.
LEMMA AnsweredStands ==
    ASSUME Typed, NEW r \in Requests, RequestStep(r), NEW k \in Requests, pc[k] = "answered"
    PROVE  pc'[k] = "answered"
<1>1. Others(r)
    BY RequestShape
<1>2. pc[r] # "answered"
    <2>1. CASE Arrive(r) \/ Plan(r) \/ Key(r) \/ Lookup(r) \/ Residency(r) \/ Admit(r)
        BY <2>1 DEF Arrive, Plan, Key, Lookup, Residency, Admit
    <2>2. CASE Skip(r) \/ Exhaust(r) \/ Win(r) \/ AllFailed(r) \/ HangUp(r) \/ Settle(r)
        BY <2>2 DEF Skip, Exhaust, Win, AllFailed, HangUp, Settle
    <2> QED BY <2>1, <2>2 DEF RequestStep
<1> QED
    BY <1>1, <1>2 DEF Others

LEMMA MadeStands ==
    ASSUME Typed, CacheInv, NEW r \in Requests, RequestStep(r), NEW w, Made(w)
    PROVE  Made(w)'
BY PlansStand, AnsweredStands DEF Made

\* The two loads of the generation and the key.
LEMMA PlanningStep ==
    ASSUME Typed, ScopesInv, CacheInv, NEW r \in Requests, RequestStep(r)
    PROVE  Planning(r)'
<1> DEFINE p == profile[r]
           ns == generation(p.owner, p.namespace)
           all == generation(p.owner, Wildcard)
<1>0. profile' = profile /\ generations' = generations
    BY RequestShape
<1>1. Planning(r)
    BY DEF CacheInv
<1>2. Cacheable(p) => ns \in Nat /\ all \in Nat
    BY CacheableOwner, GenerationIsNat
<1>3. CASE Plan(r)
    <2>1. CASE Cacheable(p)
        <3>1. /\ wild'[r] = all /\ began'[r] = ns + all
              /\ pc'[r] = "generation" /\ plan' = plan /\ planned' = planned
            BY <1>3, <2>1 DEF Plan, Goto, Typed, Effective
        <3>2. plan[r].as # "active"
            BY <1>1, <1>3 DEF Plan, Planning
        <3> HIDE DEF ns, all
        <3>3. began'[r] \in Nat /\ wild'[r] \in Nat /\ wild'[r] <= all /\ began'[r] <= ns + wild'[r]
            BY <1>2, <2>1, <3>1
        <3> USE DEF ns, all
        <3> QED BY <1>0, <1>1, <2>1, <3>1, <3>2, <3>3 DEF Planning, generation, Cacheable,
                        contains_personal_data, required_region
    <2>2. CASE ~Cacheable(p)
        <3>1. /\ wild' = wild /\ began' = began /\ planned' = planned
              /\ pc'[r] = "residency" /\ plan'[r] \in {Off, Bypass}
            BY <1>3, <2>2 DEF Plan, Goto, Typed
        <3>2. plan'[r].as # "active"
            BY <3>1 DEF Off, Bypass
        <3> QED BY <1>0, <1>1, <3>1, <3>2 DEF Planning
    <2> QED BY <2>1, <2>2
<1>4. CASE Key(r)
    <2>1. /\ plan'[r] = [as |-> "active", key |-> exact_key_gen(p, ns, wild[r])]
          /\ planned'[r] = ns + all /\ pc'[r] \in {"residency", "lookup"}
          /\ UNCHANGED <<wild, began>> /\ pc[r] = "generation"
        BY <1>4 DEF Key, Goto, Typed, Effective
    <2>2. /\ Cacheable(p) /\ wild[r] \in Nat /\ began[r] \in Nat
          /\ wild[r] <= all /\ began[r] <= ns + wild[r]
        BY <1>1, <2>1 DEF Planning
    <2>3. ns \in Nat /\ all \in Nat
        BY <1>2, <2>2
    <2>4. OwnKey(r)'
        <3>1. ns + wild[r] \in Nat /\ ns + wild[r] + 0 = ns + wild[r] /\ ns + wild[r] <= planned'[r]
            <4> HIDE DEF ns, all
            <4> QED BY <2>1, <2>2, <2>3
        <3>2. plan'[r].key = exact_key_gen(p, ns + wild[r], 0)
            <4> HIDE DEF ns
            <4> QED BY <2>1, <3>1 DEF exact_key_gen
        <3>3. began'[r] <= ns + wild[r] /\ ns + wild[r] <= planned'[r]
            BY <2>1, <2>2, <3>1
        <3>4. \E g \in Nat : /\ plan'[r].key = exact_key_gen(p, g, 0)
                             /\ began'[r] <= g /\ g <= planned'[r]
            BY <3>1, <3>2, <3>3
        <3> QED BY <1>0, <2>2, <3>4 DEF OwnKey, exact_key_gen, Cacheable,
                    contains_personal_data, required_region
    <2>5. planned'[r] \in Nat
        <3> HIDE DEF ns, all
        <3> QED BY <2>1, <2>3
    <2>6. plan'[r].as = "active" /\ pc'[r] \notin {"idle", "plan", "generation"}
        BY <2>1
    <2> QED BY <1>0, <2>1, <2>2, <2>4, <2>5, <2>6 DEF Planning
<1>5. CASE Arrive(r)
    <2>1. /\ UNCHANGED <<wild, plan, began, planned>> /\ pc[r] = "idle" /\ pc'[r] \in {"plan", "refused"}
        BY <1>5 DEF Arrive, Goto, Typed, history
    <2> QED BY <1>0, <1>1, <2>1 DEF Planning, OwnKey, exact_key_gen, Cacheable,
                    contains_personal_data, required_region
<1>6. ASSUME UNCHANGED <<wild, plan, began, planned>>, pc[r] \notin {"idle", "plan", "generation"},
             pc'[r] \notin {"idle", "plan", "generation", "lookup"}
      PROVE  Planning(r)'
    BY <1>0, <1>1, <1>6 DEF Planning, OwnKey, exact_key_gen, Cacheable,
                    contains_personal_data, required_region
<1>7. CASE Lookup(r) \/ Residency(r) \/ Admit(r) \/ Skip(r) \/ Exhaust(r)
    BY <1>6, <1>7 DEF Lookup, Residency, Admit, Skip, Exhaust, Goto, Typed, history
<1>8. CASE Win(r) \/ AllFailed(r) \/ HangUp(r) \/ Settle(r)
    BY <1>6, <1>8 DEF Win, AllFailed, HangUp, Settle, Goto, Typed, history
<1> QED
    BY <1>3, <1>4, <1>5, <1>7, <1>8 DEF RequestStep

\* A step of one request: its own plan, the entry it queues, the hit it serves.
LEMMA CacheStep ==
    ASSUME Typed, ScopesInv, CacheInv, NEW r \in Requests, RequestStep(r)
    PROVE  CacheInv'
<1>0. Others(r) /\ profile' = profile /\ generations' = generations
    BY RequestShape
<1>1. ASSUME NEW k \in Requests PROVE Planning(k)'
    <2>1. CASE k = r
        BY <2>1, PlanningStep
    <2>2. CASE k # r
        <3>1. Planning(k)
            BY DEF CacheInv
        <3> QED BY <1>0, <2>2, <3>1 DEF Others, Planning, OwnKey, exact_key_gen, generation, Cacheable,
                        contains_personal_data, required_region
    <2> QED BY <2>1, <2>2
<1>2. ASSUME NEW k \in Requests PROVE Served(k)'
    <2> SUFFICES ASSUME pc'[k] = "hit"
                 PROVE  plan'[k].as = "active" /\ Made([by |-> from[k], key |-> plan[k].key])'
        BY DEF Served
    <2>1. CASE k # r
        <3>1. pc[k] = "hit" /\ from'[k] = from[k] /\ plan'[k] = plan[k]
            BY <1>0, <2>1 DEF Others
        <3>2. plan[k].as = "active" /\ Made([by |-> from[k], key |-> plan[k].key])
            BY <3>1 DEF CacheInv, Served
        <3>3. Made([by |-> from[k], key |-> plan[k].key])'
            BY <3>1, <3>2, PlansStand, AnsweredStands DEF Made
        <3> QED BY <3>1, <3>2, <3>3
    <2>2. CASE k = r
        <3>1. Lookup(r)
            <4>1. CASE Arrive(r) \/ Plan(r) \/ Key(r) \/ Residency(r) \/ Admit(r)
                BY <2>2, <4>1 DEF Arrive, Plan, Key, Residency, Admit, Goto, Typed
            <4>2. CASE Skip(r) \/ Exhaust(r) \/ Win(r) \/ AllFailed(r) \/ HangUp(r) \/ Settle(r)
                BY <2>2, <4>2 DEF Skip, Exhaust, Win, AllFailed, HangUp, Settle, Goto, Typed
            <4> QED BY <4>1, <4>2 DEF RequestStep
        <3>2. PICK e \in store : e.key = plan[r].key /\ from'[r] = e.by
            BY <2>2, <3>1 DEF Lookup, Goto, Typed
        <3>3. Made(e) /\ plan[r].as = "active" /\ plan' = plan
            BY <3>1 DEF CacheInv, Planning, Lookup
        <3>4. Made(e)'
            BY <3>3, MadeStands
        <3> QED BY <2>2, <3>2, <3>3, <3>4 DEF Made
    <2> QED BY <2>1, <2>2
<1>3. ASSUME NEW w \in queued' \cup store' PROVE Made(w)'
    <2>1. \/ w \in queued \cup store
          \/ Settle(r) /\ plan[r].as = "active" /\ ~profile[r].oversize /\ w = [key |-> plan[r].key, by |-> r]
        <3>1. CASE Settle(r)
            BY <1>3, <3>1 DEF Settle
        <3>2. CASE Arrive(r) \/ Plan(r) \/ Key(r) \/ Lookup(r) \/ Residency(r) \/ Admit(r)
            BY <1>3, <3>2 DEF Arrive, Plan, Key, Lookup, Residency, Admit, caching
        <3>3. CASE Skip(r) \/ Exhaust(r) \/ Win(r) \/ AllFailed(r) \/ HangUp(r)
            BY <1>3, <3>3 DEF Skip, Exhaust, Win, AllFailed, HangUp, caching
        <3> QED BY <3>1, <3>2, <3>3 DEF RequestStep
    <2>2. CASE w \in queued \cup store
        BY <2>2, MadeStands DEF CacheInv
    <2>3. CASE Settle(r) /\ plan[r].as = "active" /\ ~profile[r].oversize /\ w = [key |-> plan[r].key, by |-> r]
        <3>1. pc'[r] = "answered" /\ plan' = plan
            BY <2>3 DEF Settle, Goto, Typed
        <3> QED BY <1>0, <2>3, <3>1 DEF Made
    <2> QED BY <2>1, <2>2, <2>3
<1> QED
    BY <1>1, <1>2, <1>3 DEF CacheInv

LEMMA CacheNext == Typed /\ ScopesInv /\ CacheInv /\ [Next]_vars => ScopesInv' /\ CacheInv'
<1> SUFFICES ASSUME Typed, ScopesInv, CacheInv, [Next]_vars PROVE ScopesInv' /\ CacheInv'
    OBVIOUS
<1>1. ASSUME NEW r \in Requests, RequestStep(r) PROVE ScopesInv' /\ CacheInv'
    <2>1. generations' = generations
        BY <1>1, RequestShape
    <2> QED BY <1>1, <2>1, CacheStep DEF ScopesInv
<1>2. ASSUME UNCHANGED Local, \A u \in Owners : \A s : generation(u, s) <= generation(u, s)',
             ScopesInv', queued' \cup store' \subseteq queued \cup store
      PROVE  CacheInv'
    <2>0. UNCHANGED <<pc, profile, wild, plan, from, began, planned>>
        BY <1>2 DEF Local, history
    <2>1. ASSUME NEW w, Made(w) PROVE Made(w)'
        BY <2>0, <2>1 DEF Made
    <2>2. ASSUME NEW k \in Requests PROVE Planning(k)'
        <3>1. Planning(k)
            BY DEF CacheInv
        <3>2. OwnKey(k) => OwnKey(k)'
            BY <2>0 DEF OwnKey, exact_key_gen, Cacheable, contains_personal_data, required_region
        <3>3. CASE pc[k] = "generation"
            <4> DEFINE p == profile[k]
            <4>1. /\ Cacheable(p) /\ p.owner \in Owners
                  /\ wild[k] \in Nat /\ began[k] \in Nat
                  /\ wild[k] <= generation(p.owner, Wildcard)
                  /\ began[k] <= generation(p.owner, p.namespace) + wild[k]
                BY <3>1, <3>3, CacheableOwner DEF Planning
            <4>2. /\ generation(p.owner, Wildcard) <= generation(p.owner, Wildcard)'
                  /\ generation(p.owner, p.namespace) <= generation(p.owner, p.namespace)'
                <5>1. \A s : generation(p.owner, s) <= generation(p.owner, s)'
                    BY <1>2, <2>0, <4>1 DEF generation
                <5>2. p' = p
                    BY <2>0
                <5> QED BY <5>1, <5>2 DEF generation, Wildcard
            <4>3. /\ generation(p.owner, Wildcard) \in Nat /\ generation(p.owner, Wildcard)' \in Nat
                  /\ generation(p.owner, p.namespace) \in Nat /\ generation(p.owner, p.namespace)' \in Nat
                BY <1>2, <2>0, <4>1 DEF ScopesInv, generation, Wildcard
            <4>4. /\ wild[k] <= generation(p.owner, Wildcard)'
                  /\ began[k] <= generation(p.owner, p.namespace)' + wild[k]
                BY <4>1, <4>2, <4>3
            <4>5. Cacheable(p)'
                BY <2>0, <4>1 DEF Cacheable, contains_personal_data, required_region
            <4> QED BY <2>0, <3>1, <3>2, <3>3, <4>4, <4>5 DEF Planning
        <3>4. CASE pc[k] # "generation"
            BY <2>0, <3>1, <3>2, <3>4 DEF Planning
        <3> QED BY <3>3, <3>4
    <2>3. ASSUME NEW k \in Requests PROVE Served(k)'
        BY <2>0, <2>1 DEF CacheInv, Served
    <2> QED BY <1>2, <2>1, <2>2, <2>3 DEF CacheInv
<1>3. ASSUME generations' = generations
      PROVE  ScopesInv' /\ \A u \in Owners : \A s : generation(u, s) <= generation(u, s)'
    <2>1. \A u \in Owners : \A s : generation(u, s) \in Nat
        BY GenerationIsNat
    <2>2. \A u \in Owners : \A s : generation(u, s)' = generation(u, s)
        BY <1>3 DEF generation
    <2> QED BY <1>3, <2>1, <2>2 DEF ScopesInv
<1>4. ASSUME NEW w \in queued, Apply(w) PROVE ScopesInv' /\ CacheInv'
    <2>1. UNCHANGED Local /\ generations' = generations /\ queued' \cup store' \subseteq queued \cup store
        BY <1>4 DEF Apply, Local
    <2> QED BY <1>2, <1>3, <2>1
<1>5. ASSUME NEW e \in store, Forget(e) PROVE ScopesInv' /\ CacheInv'
    <2>1. UNCHANGED Local /\ generations' = generations /\ queued' \cup store' \subseteq queued \cup store
        BY <1>5 DEF Forget, Local
    <2> QED BY <1>2, <1>3, <2>1
<1>6. ASSUME NEW t \in Owners, NEW scope, Purge(t, scope) PROVE ScopesInv' /\ CacheInv'
    <2>1. UNCHANGED Local /\ queued' \cup store' \subseteq queued \cup store
        BY <1>6 DEF Purge, Local
    <2>2. ScopesInv' /\ \A u \in Owners : \A s : generation(u, s) <= generation(u, s)'
        BY <1>6, PurgeEffect
    <2> QED BY <1>2, <2>1, <2>2
<1>7. CASE UNCHANGED vars
    <2>1. UNCHANGED Local /\ generations' = generations /\ queued' \cup store' \subseteq queued \cup store
        BY <1>7 DEF vars, Local, accounting, history
    <2> QED BY <1>2, <1>3, <2>1
<1> QED
    BY <1>1, <1>4, <1>5, <1>6, <1>7 DEF Next, RequestStep

\* What one key says of two requests.
LEMMA SameKey ==
    ASSUME NEW p, NEW w, NEW g \in Nat, NEW h \in Nat, exact_key_gen(p, g, 0) = exact_key_gen(w, h, 0)
    PROVE  /\ p.owner = w.owner /\ p.namespace = w.namespace /\ g = h
           /\ provider_chain(p) = provider_chain(w)
           /\ KeyView(Shaped(p, p.chain[1])) = KeyView(Shaped(w, w.chain[1]))
<1>1. ASSUME NEW x, NEW n \in Nat
      PROVE  LET key == exact_key_gen(x, n, 0)
             IN  /\ key.owner = x.owner /\ key.namespace = x.namespace
                 /\ key.body = KeyView(Shaped(x, x.chain[1]))
                 /\ key.chain = provider_chain(x) /\ key.generation = n
    BY DEF exact_key_gen
<1> QED
    BY <1>1

\* The target that answered is one of its request's chain; chains of the same names name
\* the same provider at its place, and what a target is sent rests on its params alone.
LEMMA SameTarget ==
    ASSUME NEW p, NEW w, provider_chain(p) = provider_chain(w),
           KeyView(Shaped(p, p.chain[1])) = KeyView(Shaped(w, w.chain[1])),
           NEW k \in DOMAIN w.chain
    PROVE  /\ Normal[p.chain[k].provider] = Normal[w.chain[k].provider]
           /\ p.chain[k].params = p.chain[1].params /\ w.chain[k].params = w.chain[1].params =>
                KeyView(Shaped(p, p.chain[k])) = KeyView(Shaped(w, w.chain[k]))
<1>1. \A x : DOMAIN provider_chain(x) = DOMAIN x.chain
    BY DEF provider_chain
<1>2. \A x : \A i \in DOMAIN x.chain : provider_chain(x)[i] = Normal[x.chain[i].provider]
    BY DEF provider_chain
<1>3. k \in DOMAIN p.chain
    BY <1>1
<1>4. \A x, s, t : s.params = t.params => Shaped(x, s) = Shaped(x, t)
    BY DEF Shaped
<1> QED
    BY <1>2, <1>3, <1>4

\* A hit serves an answer made for the same tenant, namespace and providers, by a target
\* of this request's chain; it answers the content the first target would have been sent,
\* and what that target would have been sent where the params are the same.  It is
\* never one from before a purge that was complete when the request began to
\* plan, although the two generations are loaded apart and writes arrive late;
\* and a tenant always has room to purge everything.
THEOREM CachedAnswersAreSound == Spec => []CacheIsSound
<1>1. Init => Typed /\ HomeInv /\ ScopesInv /\ CacheInv
    BY TypedInit, CacheInit DEF Init, HomeInv, AtHome
<1>2. Typed /\ HomeInv /\ ScopesInv /\ CacheInv /\ [Next]_vars => Typed' /\ HomeInv' /\ ScopesInv' /\ CacheInv'
    BY TypedNext, HomeNext, CacheNext
<1>3. Typed /\ HomeInv /\ ScopesInv /\ CacheInv => CacheIsSound
    <2> SUFFICES ASSUME Typed, HomeInv, ScopesInv, CacheInv PROVE HitIsSound /\ FlushAllPossible
        BY DEF CacheIsSound
    <2>1. ASSUME NEW r \in Requests, pc[r] = "hit"
          PROVE  LET p == profile[r] w == profile[from[r]] winner == Head(targets[from[r]])
                 IN  /\ <<p.owner, p.namespace, provider_chain(p)>> = <<w.owner, w.namespace, provider_chain(w)>>
                     /\ KeyView(Shaped(p, p.chain[1])) = KeyView(Shaped(w, w.chain[1]))
                     /\ winner \in ToSet(w.chain)
                     /\ \A k \in DOMAIN w.chain : w.chain[k] = winner =>
                          /\ Normal[p.chain[k].provider] = Normal[winner.provider]
                          /\ p.chain[k].params = p.chain[1].params /\ winner.params = w.chain[1].params =>
                               KeyView(Shaped(p, p.chain[k])) = KeyView(Shaped(w, winner))
                     /\ Cacheable(p) /\ Cacheable(w) /\ ~w.oversize
                     /\ began[r] <= planned[from[r]]
        <3> DEFINE p == profile[r]
                   w == profile[from[r]]
                   winner == Head(targets[from[r]])
        <3>1. /\ plan[r].as = "active" /\ from[r] \in Requests /\ plan[from[r]].as = "active"
              /\ plan[r].key = plan[from[r]].key /\ ~w.oversize /\ pc[from[r]] = "answered"
            BY <2>1 DEF CacheInv, Served, Made
        <3>2. OwnKey(r) /\ OwnKey(from[r]) /\ began[r] \in Nat /\ planned[from[r]] \in Nat
            BY <3>1 DEF CacheInv, Planning
        <3>3. PICK g \in Nat : plan[r].key = exact_key_gen(p, g, 0) /\ began[r] <= g
            BY <3>2 DEF OwnKey
        <3>4. PICK h \in Nat : plan[from[r]].key = exact_key_gen(w, h, 0) /\ h <= planned[from[r]]
            BY <3>2 DEF OwnKey
        <3>5. /\ p.owner = w.owner /\ p.namespace = w.namespace /\ g = h
              /\ provider_chain(p) = provider_chain(w)
              /\ KeyView(Shaped(p, p.chain[1])) = KeyView(Shaped(w, w.chain[1]))
            <4>1. exact_key_gen(p, g, 0) = exact_key_gen(w, h, 0)
                BY <3>1, <3>3, <3>4
            <4> HIDE DEF p, w
            <4> QED BY <4>1, SameKey
        <3>6. began[r] <= planned[from[r]]
            BY <3>2, <3>3, <3>4, <3>5
        <3>7. Cacheable(p) /\ Cacheable(w)
            BY <3>2 DEF OwnKey
        <3>8. winner \in ToSet(w.chain)
            <4>1. targets[from[r]] \in Seq(Eligible(w)) /\ targets[from[r]] # <<>>
                BY <3>1 DEF HomeInv, AtHome
            <4>2. Eligible(w) = ToSet(w.chain)
                BY <3>7 DEF Cacheable, Eligible
            <4> HIDE DEF w
            <4> QED BY <4>1, <4>2, HeadTailProperties
        <3>9. ASSUME NEW k \in DOMAIN w.chain, w.chain[k] = winner
              PROVE  /\ Normal[p.chain[k].provider] = Normal[winner.provider]
                     /\ p.chain[k].params = p.chain[1].params /\ winner.params = w.chain[1].params =>
                          KeyView(Shaped(p, p.chain[k])) = KeyView(Shaped(w, winner))
            <4> HIDE DEF p, w, winner
            <4> QED BY <3>5, <3>9, SameTarget
        <3> QED BY <3>1, <3>5, <3>6, <3>7, <3>8, <3>9
    <2>2. HitIsSound
        BY <2>1 DEF HitIsSound
    <2>3. FlushAllPossible
        BY DEF FlushAllPossible, ScopesInv
    <2> QED BY <2>2, <2>3
<1> QED
    BY <1>1, <1>2, <1>3, PTL DEF Spec

-----------------------------------------------------------------------------
\* Stable sorts: the places that come before a place rank it, and every rank is taken.

\* The instance counts as this module does.
LEMMA SameCount == \A S : Policy!Cardinality(S) = Cardinality(S)
BY DEF Policy!Cardinality, Cardinality

\* The places that come before place i when the keys are sorted.
Ahead(keys, n, i) == {j \in 1..n : Policy!Before(keys, j, i)}

\* They are fewer than the places, and fewer still for each of themselves.
LEMMA AheadIsARank ==
  ASSUME NEW n \in Nat, NEW keys \in [1..n -> Int], NEW i \in 1..n
  PROVE  /\ IsFiniteSet(Ahead(keys, n, i)) /\ Cardinality(Ahead(keys, n, i)) \in 0..(n - 1)
         /\ \A j \in Ahead(keys, n, i) : Cardinality(Ahead(keys, n, j)) < Cardinality(Ahead(keys, n, i))
<1> DEFINE A(j) == Ahead(keys, n, j)
<1>1. IsFiniteSet(1..n) /\ Cardinality(1..n) = n
  BY FS_Interval
<1>2. \A j \in 1..n : j \notin A(j) /\ A(j) \subseteq 1..n
  BY DEF Ahead, Policy!Before
<1>3. \A j \in 1..n : IsFiniteSet(A(j)) /\ Cardinality(A(j)) \in Nat
  BY <1>1, <1>2, FS_Subset, FS_CardinalityType
<1>4. Cardinality(A(i)) < n
  <2>1. Cardinality(A(i)) <= n /\ (Cardinality(A(i)) = n => A(i) = 1..n)
    BY <1>1, <1>2, FS_Subset
  <2>2. A(i) # 1..n
    BY <1>2
  <2> QED BY <2>1, <2>2, <1>3
<1>5. ASSUME NEW j \in A(i) PROVE Cardinality(A(j)) < Cardinality(A(i))
  <2>1. j \in 1..n /\ j \notin A(j)
    BY <1>2
  <2>2. A(j) \subseteq A(i)
    BY <2>1 DEF Ahead, Policy!Before
  <2>3. Cardinality(A(j)) <= Cardinality(A(i)) /\ (Cardinality(A(i)) = Cardinality(A(j)) => A(i) = A(j))
    BY <1>3, <2>2, FS_Subset
  <2> QED BY <1>3, <2>1, <2>3
<1> QED BY <1>3, <1>4, <1>5

\* Every rank belongs to one place, so the sorted sequence is a rearrangement.
LEMMA RanksAreTaken ==
  ASSUME NEW n \in Nat, NEW keys \in [1..n -> Int], NEW r \in 1..n
  PROVE  \E i \in 1..n : Cardinality(Ahead(keys, n, i)) = r - 1
<1> DEFINE rank == [i \in 1..n |-> Cardinality(Ahead(keys, n, i)) + 1]
<1>1. rank \in [1..n -> 1..n]
  BY AheadIsARank
<1>2. ASSUME NEW i \in 1..n, NEW j \in 1..n, i # j PROVE rank[i] # rank[j]
  <2>1. i \in Ahead(keys, n, j) \/ j \in Ahead(keys, n, i)
    BY <1>2 DEF Ahead, Policy!Before
  <2>2. rank[i] < rank[j] \/ rank[j] < rank[i]
    BY <2>1, AheadIsARank
  <2> QED BY <2>2, <1>1
<1> HIDE DEF rank
<1>3. rank \in Injection(1..n, 1..n)
  BY <1>1, <1>2 DEF Injection, IsInjective
<1>4. rank \in Surjection(1..n, 1..n)
  BY <1>3, FS_Injection, FS_Interval
<1>5. \E i \in 1..n : rank[i] = r
  BY <1>4 DEF Surjection
<1>6. \A i \in 1..n : Cardinality(Ahead(keys, n, i)) \in Nat /\ rank[i] = Cardinality(Ahead(keys, n, i)) + 1
  BY AheadIsARank DEF rank
<1>7. PICK i \in 1..n : rank[i] = r
  BY <1>5
<1>8. Cardinality(Ahead(keys, n, i)) \in Nat /\ r = Cardinality(Ahead(keys, n, i)) + 1
  BY <1>6, <1>7
<1> QED BY <1>8

\* out is the candidates of live, each once, in the order of their keys and then of their places.
Rearranges(p, out, live, n) ==
    /\ p \in [1..n -> 1..n] /\ \A i, j \in 1..n : p[i] = p[j] => i = j
    /\ out = [r \in 1..n |-> live[p[r]]]
Ranked(p, out, live, n, keys) ==
    /\ Rearranges(p, out, live, n)
    /\ \A i, j \in 1..n : i < j => Policy!Before(keys, p[i], p[j])

\* A stable sort (slice::sort_by_key) is such a rearrangement.
LEMMA StableSortSorts ==
  ASSUME NEW n \in Nat, NEW keys \in [1..n -> Int], NEW s, DOMAIN s = 1..n
  PROVE  \E p : Ranked(p, Policy!StableSort(s, keys), s, n, keys)
<1> DEFINE at(r) == CHOOSE i \in DOMAIN s : Policy!Cardinality({j \in DOMAIN s : Policy!Before(keys, j, i)}) = r - 1
           place == [r \in 1..n |-> at(r)]
<1>1. \A r \in 1..n : at(r) \in 1..n /\ Cardinality(Ahead(keys, n, at(r))) = r - 1
  <2>1. \A i \in 1..n : Policy!Cardinality({j \in DOMAIN s : Policy!Before(keys, j, i)}) = Cardinality(Ahead(keys, n, i))
    BY SameCount DEF Ahead
  <2> SUFFICES ASSUME NEW r \in 1..n
               PROVE  at(r) \in 1..n /\ Cardinality(Ahead(keys, n, at(r))) = r - 1
    OBVIOUS
  <2>2. \E i \in DOMAIN s : Policy!Cardinality({j \in DOMAIN s : Policy!Before(keys, j, i)}) = r - 1
    BY <2>1, RanksAreTaken, ZenonT(40)
  <2>3. at(r) \in DOMAIN s /\ Policy!Cardinality({j \in DOMAIN s : Policy!Before(keys, j, at(r))}) = r - 1
    BY <2>2
  <2> QED BY <2>1, <2>3
<1>2. Policy!StableSort(s, keys) = [r \in 1..n |-> s[at(r)]]
  BY DEF Policy!StableSort
<1> HIDE DEF at
<1>3. place \in [1..n -> 1..n] /\ \A i, j \in 1..n : place[i] = place[j] => i = j
  BY <1>1
<1>4. ASSUME NEW i \in 1..n, NEW j \in 1..n, i < j
      PROVE  Policy!Before(keys, place[i], place[j])
  <2>1. CASE place[j] \in Ahead(keys, n, place[i])
    <3>1. Cardinality(Ahead(keys, n, place[j])) < Cardinality(Ahead(keys, n, place[i]))
      BY <1>3, <2>1, AheadIsARank
    <3> QED BY <1>1, <1>4, <3>1
  <2>2. CASE place[i] = place[j]
    BY <1>3, <1>4, <2>2
  <2>3. \A a, b \in 1..n : a = b \/ b \in Ahead(keys, n, a) \/ Policy!Before(keys, a, b)
    BY DEF Ahead, Policy!Before
  <2> QED BY <2>1, <2>2, <2>3, <1>1
<1>5. Policy!StableSort(s, keys) = [i \in 1..n |-> s[place[i]]]
  BY <1>2
<1> HIDE DEF place
<1>6. Ranked(place, Policy!StableSort(s, keys), s, n, keys)
  BY <1>3, <1>4, <1>5 DEF Ranked, Rearranges
<1> QED BY <1>6

-----------------------------------------------------------------------------
\* The arithmetic of recursions: the least and the greatest, counting up, and a function
\* defined by recursion on its argument.

\* A set of numbers has a least member.
LEMMA LeastExists ==
  ASSUME NEW S \in SUBSET Nat, S # {}
  PROVE  \E m \in S : \A x \in S : m <= x
<1>1. PICK m \in S : \A x \in S : <<x, m>> \notin OpToRel(<, Nat)
  BY WFMin, NatLessThanWellFounded
<1>2. SUFFICES ASSUME NEW x \in S PROVE m <= x
  OBVIOUS
<1>3. <<x, m>> \notin OpToRel(<, Nat) /\ x \in Nat /\ m \in Nat
  BY <1>1
<1> QED BY <1>3 DEF OpToRel

\* A bounded one has a greatest.
LEMMA GreatestExists ==
  ASSUME NEW n \in Nat, NEW S, S \subseteq 0..n, S # {}
  PROVE  \E m \in S : \A x \in S : x <= m
<1> DEFINE back == {n - i : i \in S}
<1>1. back # {} /\ back \subseteq Nat
  <2>1. \A i \in S : n - i \in Nat
    OBVIOUS
  <2> QED BY <2>1
<1> HIDE DEF back
<1>2. PICK b \in back : \A x \in back : b <= x
  BY <1>1, LeastExists
<1>3. PICK m \in S : b = n - m
  BY DEF back
<1>4. \A x \in S : n - m <= n - x
  BY <1>2, <1>3 DEF back
<1> QED BY <1>4


\* A set that holds a number and, up to a bound, the successor of each of its members.
LEMMA CountingUp ==
  ASSUME NEW a \in Nat, NEW b \in Nat, NEW P, a \in P, \A k \in a..(b - 1) : k \in P => k + 1 \in P
  PROVE  \A k \in a..b : k \in P
<1> SUFFICES ASSUME NEW k \in a..b, k \notin P PROVE FALSE
  OBVIOUS
<1> DEFINE Out == {j \in a..b : j \notin P}
<1>1. Out # {} /\ Out \subseteq Nat
  OBVIOUS
<1> HIDE DEF Out
<1>2. PICK m \in Out : \A j \in Out : m <= j
  BY <1>1, LeastExists
<1>3. m \in a..b /\ m \notin P
  BY DEF Out
<1>4. m - 1 \in a..(b - 1) /\ m - 1 \in P
  BY <1>2, <1>3 DEF Out
<1> QED BY <1>3, <1>4

\* What the kth value of a recursion over 0..n is computed from.
IsRecursion(f, n, a, h) == f = [k \in 0..n |-> IF k = 0 THEN a ELSE h[k][f[k - 1]]]

\* Whatever the steps, the function they define exists.
LEMMA RecursionExists ==
  ASSUME NEW n \in Nat, NEW a, NEW h
  PROVE  \E f : IsRecursion(f, n, a, h)
<1> DEFINE P == {k \in 0..n : \E f : IsRecursion(f, k, a, h)}
<1>1. 0 \in P
  <2>1. IsRecursion([k \in 0..0 |-> a], 0, a, h)
    BY DEF IsRecursion
  <2> QED BY <2>1
<1>2. ASSUME NEW k \in 0..(n - 1), k \in P PROVE k + 1 \in P
  <2>1. PICK f : IsRecursion(f, k, a, h)
    BY <1>2
  <2> DEFINE v(j) == IF j <= k THEN f[j] ELSE h[k + 1][f[k]]
             g == [j \in 0..(k + 1) |-> v(j)]
  <2>2. \A j \in 0..k : f[j] = IF j = 0 THEN a ELSE h[j][f[j - 1]]
    BY <2>1 DEF IsRecursion
  <2>3. \A j \in 0..(k + 1) : v(j) = IF j = 0 THEN a ELSE h[j][g[j - 1]]
    <3> SUFFICES ASSUME NEW j \in 0..(k + 1) PROVE v(j) = IF j = 0 THEN a ELSE h[j][g[j - 1]]
      OBVIOUS
    <3>1. j # 0 => g[j - 1] = f[j - 1]
      OBVIOUS
    <3> HIDE DEF g
    <3>2. CASE j \in 0..k
      BY <2>2, <3>1, <3>2
    <3>3. CASE j = k + 1
      BY <3>1, <3>3
    <3> QED BY <3>2, <3>3
  <2>4. g = [j \in 0..(k + 1) |-> IF j = 0 THEN a ELSE h[j][g[j - 1]]]
    <3> DEFINE w(j) == IF j = 0 THEN a ELSE h[j][g[j - 1]]
    <3>1. \A j \in 0..(k + 1) : v(j) = w(j)
      BY <2>3
    <3>2. [j \in 0..(k + 1) |-> v(j)] = [j \in 0..(k + 1) |-> w(j)]
      <4> HIDE DEF v, w
      <4> QED BY <3>1
    <3> QED BY <3>2
  <2>5. IsRecursion(g, k + 1, a, h)
    BY <2>4 DEF IsRecursion
  <2> HIDE DEF g
  <2> QED BY <2>5
<1> HIDE DEF P
<1>3. n \in P
  <2>1. \A k \in 0..n : k \in P
    BY <1>1, <1>2, CountingUp
  <2> QED BY <2>1
<1> QED BY <1>3 DEF P

-----------------------------------------------------------------------------
\* Admission.

\* A question is one that Decide asks.
AskedFor ==
    /\ q.topic = "access" => q.gateway \in Gateways /\ q.call \in Credentials
    /\ q.topic = "order" => q.specs \in SpecLists /\ q.strategy \in Policy!Strategy /\ q.health \in HealthViews
    /\ q.topic = "config" => q.cfg \in Configs /\ q.req \in RoutedRequests
    /\ q.topic = "endpoint" => /\ q.endpoint \in Side!Endpoint /\ q.world \in Worlds
                               /\ q.ask \in Asks \cup Uploads

\* No step of Decide asks another.
LEMMA QuestionsAreAsked == Decide => []AskedFor
<1>1. q = NoQuestion => AskedFor
  BY DEF AskedFor, NoQuestion
<1>2. AskedFor /\ [Asked]_q => AskedFor'
  <2> SUFFICES ASSUME AskedFor, [Asked]_q PROVE AskedFor'
    OBVIOUS
  <2>1. CASE AskAccess
    BY <2>1 DEF AskAccess, AskedFor
  <2>2. CASE AskCost
    BY <2>2 DEF AskCost, AskedFor
  <2>3. CASE AskOrder
    BY <2>3 DEF AskOrder, AskedFor
  <2>4. CASE AskConfig
    BY <2>4 DEF AskConfig, AskedFor
  <2>5. CASE AskEndpoint
    BY <2>5 DEF AskEndpoint, AskedFor
  <2>6. CASE UNCHANGED q
    BY <2>6 DEF AskedFor
  <2> QED BY <2>1, <2>2, <2>3, <2>4, <2>5, <2>6 DEF Asked
<1> QED BY <1>1, <1>2, PTL DEF Decide

\* A tier grants features that exist (entitlements/src/lib.rs, tier_baseline).
LEMMA BaselineFeatures ==
  ASSUME NEW tier \in Auth!Tier PROVE Auth!tier_baseline(tier) \subseteq Auth!Feature
BY DEF Auth!tier_baseline, Auth!Tier, Auth!Feature

\* A request is served under a key it presented, or the console's in a verified session, with no
\* capability that a hold-back or an unreleased flag takes away (auth.rs, entitlements, flags).
LEMMA AdmissionIsEarnedAlways ==
  ASSUME NEW state, NEW req, state.toggles.on \in BOOLEAN, req.throttled \in BOOLEAN, state.bridge \in BOOLEAN, req.session_verifies \in BOOLEAN, req.authorization.prefixed \in BOOLEAN,
         \A k \in DOMAIN state.keys : RegisteredKey(k, state.keys[k])
  PROVE  Auth!AdmissionIsEarned(state, req)
<1> DEFINE r == Auth!auth_middleware(state, req)
           credential == Auth!resolve_gateway_credential(req.native, req.authorization)
           found == Auth!lookup_constant_time(state, credential.key)
           console == Auth!lookup_constant_time(state, state.console_key)
           vk == CHOOSE v \in found : TRUE
           ck == CHOOSE v \in console : TRUE
           held(k) == state.holdbacks \cup k.holdbacks \cup
                (IF state.toggles.on THEN {f \in DOMAIN state.toggles.snapshot : k.tier \notin state.toggles.snapshot[f]}
                                     ELSE {})
<1>1. /\ credential.key = IF req.native \notin {"none", "blank"} THEN req.native
                          ELSE IF req.authorization.scheme = "bearer" /\ req.authorization.prefixed THEN req.authorization.token ELSE "none"
  BY DEF Auth!resolve_gateway_credential, Auth!bearer_gateway_candidate
<1>2. CASE r.as # "served"
  BY <1>2 DEF Auth!AdmissionIsEarned, Auth!auth_middleware, Auth!Refused, Auth!Serve
<1>3. CASE r.as = "served"
  <2>1. \/ /\ ~req.throttled /\ credential.key # "none" /\ \E v \in found : Auth!serves_traffic(v.state)
           /\ r = Auth!Serve(state, vk, FALSE)
        \/ /\ ~req.throttled /\ credential.key = "none" /\ credential.other /\ req.session_verifies
           /\ \E v \in console : Auth!serves_traffic(v.state)
           /\ r = Auth!Serve(state, ck, TRUE)
    BY <1>3 DEF Auth!auth_middleware, Auth!Refused, Auth!Serve
  <2>2. PICK key, session : /\ r = Auth!Serve(state, key, session) /\ session \in BOOLEAN
                            /\ \E k \in DOMAIN state.keys : key = state.keys[k] /\ (IF session THEN k = state.console_key ELSE k = credential.key)
                            /\ key.state = "active" /\ ~req.throttled
                            /\ session => credential.key = "none" /\ req.session_verifies
                            /\ ~session => credential.key # "none"
    <3>1. CASE /\ ~req.throttled /\ credential.key # "none" /\ \E v \in found : Auth!serves_traffic(v.state)
               /\ r = Auth!Serve(state, vk, FALSE)
      <4>1. found = {state.keys[credential.key]} /\ credential.key \in DOMAIN state.keys
        BY <3>1 DEF Auth!lookup_constant_time
      <4>2. vk = state.keys[credential.key] /\ vk.state = "active"
        BY <3>1, <4>1 DEF Auth!serves_traffic
      <4> HIDE DEF vk, credential, r, found
      <4> QED BY <3>1, <4>1, <4>2
    <3>2. CASE /\ ~req.throttled /\ credential.key = "none" /\ credential.other /\ req.session_verifies
               /\ \E v \in console : Auth!serves_traffic(v.state)
               /\ r = Auth!Serve(state, ck, TRUE)
      <4>1. console = {state.keys[state.console_key]} /\ state.console_key \in DOMAIN state.keys
        BY <3>2 DEF Auth!lookup_constant_time
      <4>2. ck = state.keys[state.console_key] /\ ck.state = "active"
        BY <3>2, <4>1 DEF Auth!serves_traffic
      <4> HIDE DEF ck, credential, r, console
      <4> QED BY <3>2, <4>1, <4>2
    <3> QED BY <2>1, <3>1, <3>2
  <2> HIDE DEF r, credential, found, console, vk, ck
  <2>3. /\ r.failures = 0 /\ r.key = key /\ r.session = session
        /\ r.context = Auth!resolve_tenant_context(state, key)
    BY <2>2 DEF Auth!Serve
  <2>4. PICK k \in DOMAIN state.keys : key = state.keys[k] /\ (IF session THEN k = state.console_key ELSE k = credential.key)
    BY <2>2
  <2>5. key.key = k /\ key.tier \in Auth!Tier /\ key.overrides \subseteq Auth!Feature
    BY <2>4 DEF RegisteredKey
  <2>6. r.context.capabilities \cap held(key) = {}
    <3> DEFINE unreleased == IF state.toggles.on
                        THEN {f \in Auth!Feature : ~Auth!FlagResolves(state.toggles.snapshot, f, TRUE, Auth!eval_context_for(key))}
                        ELSE {}
    <3>1. r.context.capabilities = (Auth!tier_baseline(key.tier) \cup key.overrides) \ (key.holdbacks \cup (state.holdbacks \cup unreleased))
      BY <2>3 DEF Auth!resolve_tenant_context, Auth!capability_set, Auth!resolve
    <3>2. r.context.capabilities \subseteq Auth!Feature
      BY <3>1, <2>5, BaselineFeatures
    <3>3. \A f \in Auth!Feature : f \in held(key) => f \in key.holdbacks \cup (state.holdbacks \cup unreleased)
      BY DEF Auth!FlagResolves, Auth!eval_context_for, Auth!to_unleash_context
    <3> HIDE DEF unreleased, held
    <3> QED BY <3>1, <3>2, <3>3
  <2>7. r.context.owner # Auth!NoTenant => r.context.owner = r.context.tenant
    BY <2>3 DEF Auth!resolve_tenant_context, Auth!canonical_tenant_id, Auth!resolved_tenant_id, Auth!TenantId
  <2>8. /\ req.native \notin {"none", "blank"} => key.key = req.native /\ ~session
        /\ session => key.key = state.console_key /\ req.session_verifies
        /\ ~session => key.key \in {req.native, req.authorization.token}
    BY <1>1, <2>2, <2>4, <2>5
  <2> QED BY <1>3, <2>2, <2>3, <2>6, <2>7, <2>8 DEF Auth!AdmissionIsEarned, r
<1> QED BY <1>2, <1>3

-----------------------------------------------------------------------------
\* What is loaded, and what is charged.

\* load_from_json files every key under its own name, which GatewaysAssumption takes for granted.
LEMMA LoadedKeysAreTheirOwn ==
  ASSUME NEW doc, NEW n \in Nat, DOMAIN doc.keys = 1..n, Auth!load_from_json(doc).ok
  PROVE  \A k \in DOMAIN Auth!load_from_json(doc).keys : Auth!load_from_json(doc).keys[k].key = k
<1> DEFINE named(k) == {i \in DOMAIN doc.keys : doc.keys[i].key = k}
           last(k) == CHOOSE i \in named(k) : \A j \in named(k) : j <= i
           Keys == {doc.keys[i].key : i \in DOMAIN doc.keys}
<1>1. Auth!load_from_json(doc).keys = [k \in Keys |-> doc.keys[last(k)]]
  BY DEF Auth!load_from_json
<1>2. SUFFICES ASSUME NEW k \in Keys PROVE last(k) \in named(k)
  <2>1. \A k \in Keys : last(k) \in named(k) => doc.keys[last(k)].key = k
    OBVIOUS
  <2> HIDE DEF Keys, last, named
  <2> QED BY <1>1, <2>1
<1>3. named(k) # {} /\ named(k) \subseteq 1..n
  OBVIOUS
<1> HIDE DEF named
<1>4. \E i \in named(k) : \A j \in named(k) : j <= i
  <2>1. named(k) \subseteq 0..n
    BY <1>3
  <2> QED BY <1>3, <2>1, GreatestExists
<1> QED BY <1>4

-----------------------------------------------------------------------------
\* The exchange table has a rate for its default currency (fx.rs, from_env).
LEMMA TablesDefaultHasARate ==
  ASSUME NEW raw
  PROVE  Costs!from_env(raw, raw).default \in DOMAIN Costs!from_env(raw, raw).rates
<1>1. Costs!DefaultFx.default \in DOMAIN Costs!DefaultFx.rates
  BY DEF Costs!DefaultFx
<1>2. \A cfg : Costs!merged(Costs!DefaultFx, cfg).default \in DOMAIN Costs!merged(Costs!DefaultFx, cfg).rates
  BY <1>1 DEF Costs!merged, Costs!Over
<1>3. \A x : Costs!from_json_str(x).default \in DOMAIN Costs!from_json_str(x).rates
  BY <1>1, <1>2 DEF Costs!from_json_str
<1> QED BY <1>1, <1>3 DEF Costs!from_env

\* A cost is shown in a currency with a rate, the one asked for if it has one.
LEMMA ShownInAPricedCurrency ==
  ASSUME NEW fx, fx.default \in DOMAIN fx.rates, NEW display, NEW region, NEW model, NEW prompt, NEW completion
  PROVE  LET c == Costs!cost_breakdown_with(fx, display, model, region, prompt, completion)
         IN  /\ c.currency \in DOMAIN fx.rates
             /\ c.minor_units = (c.micro_usd * fx.rates[c.currency]) \div 1000000
             /\ c.micro_usd = Costs!estimate_cost_micro_usd(model, prompt, completion)
             /\ display \in DOMAIN fx.rates => c.currency = display
BY DEF Costs!cost_breakdown_with, Costs!resolve, Costs!micro_usd_to_minor_units

-----------------------------------------------------------------------------
\* A pattern that matches has no piece the model lacks.
Pieces(s) == {s[i] : i \in DOMAIN s}
\* A row matches a model only if the model has every piece of the pattern.
LEMMA MatchesArePieces ==
  ASSUME NEW model, NEW row, NEW m \in Nat, NEW n \in Nat, DOMAIN model = 1..m, DOMAIN row.pat = 1..n,
         Len(model) = m, Len(row.pat) = n, Costs!pattern_matches(model, row)
  PROVE  Pieces(row.pat) \subseteq Pieces(model)
<1>1. PICK i \in 1..(m + 1 - n) : SubSeq(model, i, i + n - 1) = row.pat
  BY DEF Costs!pattern_matches
<1>2. \A j \in 1..n : row.pat[j] = model[i + j - 1] /\ i + j - 1 \in 1..m
  BY <1>1
<1> QED BY <1>2 DEF Pieces

\* The rows of the price book.
LEMMA Book ==
  /\ Costs!PRICE_BOOK[1] = Costs!Row(<<"gpt", "-", "4o", "-", "mini">>, FALSE, 150, 600)
  /\ Costs!PRICE_BOOK[2] = Costs!Row(<<"gpt", "-", "4o">>, FALSE, 3000, 10000)
  /\ Costs!PRICE_BOOK[3] = Costs!Row(<<"o1", "-", "mini">>, FALSE, 1100, 4400)
  /\ Costs!PRICE_BOOK[4] = Costs!Row(<<"o1">>, TRUE, 15000, 60000)
  /\ Costs!PRICE_BOOK[5] = Costs!Row(<<"gpt", "-", "4", "-", "turbo">>, FALSE, 10000, 30000)
  /\ Costs!PRICE_BOOK[6] = Costs!Row(<<"gpt", "-", "3.5">>, FALSE, 500, 1500)
  /\ Costs!PRICE_BOOK[7] = Costs!Row(<<"claude", "-", "3", "-", "5", "-", "haiku">>, FALSE, 800, 4000)
  /\ Costs!PRICE_BOOK[8] = Costs!Row(<<"claude", "-", "3", "-", "haiku">>, FALSE, 250, 1250)
  /\ Costs!PRICE_BOOK[9] = Costs!Row(<<"claude", "-", "3", "-", "opus">>, FALSE, 15000, 75000)
  /\ Costs!PRICE_BOOK[10] = Costs!Row(<<"claude", "-", "3", "-", "5", "-", "sonnet">>, FALSE, 3000, 15000)
  /\ Costs!PRICE_BOOK[11] = Costs!Row(<<"claude", "-", "3">>, FALSE, 3000, 15000)
  /\ Costs!PRICE_BOOK[12] = Costs!Row(<<"claude">>, FALSE, 3000, 15000)
  /\ Costs!PRICE_BOOK[13] = Costs!Row(<<"gemini", "-", "1.5", "-", "flash">>, FALSE, 75, 300)
  /\ Costs!PRICE_BOOK[14] = Costs!Row(<<"gemini", "-", "2.0", "-", "flash">>, FALSE, 100, 400)
  /\ Costs!PRICE_BOOK[15] = Costs!Row(<<"gemini", "-", "1.5", "-", "pro">>, FALSE, 1250, 5000)
  /\ Costs!PRICE_BOOK[16] = Costs!Row(<<"gemini">>, FALSE, 1250, 5000)
  /\ DOMAIN Costs!PRICE_BOOK = 1..16
BY SMTT(30) DEF Costs!PRICE_BOOK

\* The pieces of their patterns.
LEMMA BookPieces ==
  /\ Pieces(Costs!PRICE_BOOK[1].pat) = {"gpt", "-", "4o", "mini"}
  /\ Pieces(Costs!PRICE_BOOK[2].pat) = {"gpt", "-", "4o"}
  /\ Pieces(Costs!PRICE_BOOK[3].pat) = {"o1", "-", "mini"}
  /\ Pieces(Costs!PRICE_BOOK[4].pat) = {"o1"}
  /\ Pieces(Costs!PRICE_BOOK[5].pat) = {"gpt", "-", "4", "turbo"}
  /\ Pieces(Costs!PRICE_BOOK[6].pat) = {"gpt", "-", "3.5"}
  /\ Pieces(Costs!PRICE_BOOK[7].pat) = {"claude", "-", "3", "5", "haiku"}
  /\ Pieces(Costs!PRICE_BOOK[8].pat) = {"claude", "-", "3", "haiku"}
  /\ Pieces(Costs!PRICE_BOOK[9].pat) = {"claude", "-", "3", "opus"}
  /\ Pieces(Costs!PRICE_BOOK[10].pat) = {"claude", "-", "3", "5", "sonnet"}
  /\ Pieces(Costs!PRICE_BOOK[11].pat) = {"claude", "-", "3"}
  /\ Pieces(Costs!PRICE_BOOK[12].pat) = {"claude"}
  /\ Pieces(Costs!PRICE_BOOK[13].pat) = {"gemini", "-", "1.5", "flash"}
  /\ Pieces(Costs!PRICE_BOOK[14].pat) = {"gemini", "-", "2.0", "flash"}
  /\ Pieces(Costs!PRICE_BOOK[15].pat) = {"gemini", "-", "1.5", "pro"}
  /\ Pieces(Costs!PRICE_BOOK[16].pat) = {"gemini"}
<1>1. Pieces(Costs!PRICE_BOOK[1].pat) = {"gpt", "-", "4o", "mini"}
  BY Book DEF Pieces, Costs!Row
<1>2. Pieces(Costs!PRICE_BOOK[2].pat) = {"gpt", "-", "4o"}
  BY Book DEF Pieces, Costs!Row
<1>3. Pieces(Costs!PRICE_BOOK[3].pat) = {"o1", "-", "mini"}
  BY Book DEF Pieces, Costs!Row
<1>4. Pieces(Costs!PRICE_BOOK[4].pat) = {"o1"}
  BY Book DEF Pieces, Costs!Row
<1>5. Pieces(Costs!PRICE_BOOK[5].pat) = {"gpt", "-", "4", "turbo"}
  BY Book DEF Pieces, Costs!Row
<1>6. Pieces(Costs!PRICE_BOOK[6].pat) = {"gpt", "-", "3.5"}
  BY Book DEF Pieces, Costs!Row
<1>7. Pieces(Costs!PRICE_BOOK[7].pat) = {"claude", "-", "3", "5", "haiku"}
  BY Book DEF Pieces, Costs!Row
<1>8. Pieces(Costs!PRICE_BOOK[8].pat) = {"claude", "-", "3", "haiku"}
  BY Book DEF Pieces, Costs!Row
<1>9. Pieces(Costs!PRICE_BOOK[9].pat) = {"claude", "-", "3", "opus"}
  BY Book DEF Pieces, Costs!Row
<1>10. Pieces(Costs!PRICE_BOOK[10].pat) = {"claude", "-", "3", "5", "sonnet"}
  BY Book DEF Pieces, Costs!Row
<1>11. Pieces(Costs!PRICE_BOOK[11].pat) = {"claude", "-", "3"}
  BY Book DEF Pieces, Costs!Row
<1>12. Pieces(Costs!PRICE_BOOK[12].pat) = {"claude"}
  BY Book DEF Pieces, Costs!Row
<1>13. Pieces(Costs!PRICE_BOOK[13].pat) = {"gemini", "-", "1.5", "flash"}
  BY Book DEF Pieces, Costs!Row
<1>14. Pieces(Costs!PRICE_BOOK[14].pat) = {"gemini", "-", "2.0", "flash"}
  BY Book DEF Pieces, Costs!Row
<1>15. Pieces(Costs!PRICE_BOOK[15].pat) = {"gemini", "-", "1.5", "pro"}
  BY Book DEF Pieces, Costs!Row
<1>16. Pieces(Costs!PRICE_BOOK[16].pat) = {"gemini"}
  BY Book DEF Pieces, Costs!Row
<1> QED BY <1>1, <1>2, <1>3, <1>4, <1>5, <1>6, <1>7, <1>8, <1>9, <1>10, <1>11, <1>12, <1>13, <1>14, <1>15, <1>16

\* No pattern is empty.
LEMMA RowsArePatterns ==
  ASSUME NEW k \in 1..16
  PROVE  /\ Costs!PRICE_BOOK[k].pat \in Seq(Pieces(Costs!PRICE_BOOK[k].pat))
         /\ Costs!PRICE_BOOK[k].pat # <<>>
<1> DEFINE p == Costs!PRICE_BOOK[k].pat
<1>1. CASE k = 1
  <2>1. p = <<"gpt", "-", "4o", "-", "mini">>
    BY <1>1, Book DEF Costs!Row
  <2> HIDE DEF p
  <2>2. p \in Seq(Pieces(p)) /\ p # <<>>
    BY <2>1 DEF Pieces
  <2> QED BY <2>2 DEF p
<1>2. CASE k = 2
  <2>1. p = <<"gpt", "-", "4o">>
    BY <1>2, Book DEF Costs!Row
  <2> HIDE DEF p
  <2>2. p \in Seq(Pieces(p)) /\ p # <<>>
    BY <2>1 DEF Pieces
  <2> QED BY <2>2 DEF p
<1>3. CASE k = 3
  <2>1. p = <<"o1", "-", "mini">>
    BY <1>3, Book DEF Costs!Row
  <2> HIDE DEF p
  <2>2. p \in Seq(Pieces(p)) /\ p # <<>>
    BY <2>1 DEF Pieces
  <2> QED BY <2>2 DEF p
<1>4. CASE k = 4
  <2>1. p = <<"o1">>
    BY <1>4, Book DEF Costs!Row
  <2> HIDE DEF p
  <2>2. p \in Seq(Pieces(p)) /\ p # <<>>
    BY <2>1 DEF Pieces
  <2> QED BY <2>2 DEF p
<1>5. CASE k = 5
  <2>1. p = <<"gpt", "-", "4", "-", "turbo">>
    BY <1>5, Book DEF Costs!Row
  <2> HIDE DEF p
  <2>2. p \in Seq(Pieces(p)) /\ p # <<>>
    BY <2>1 DEF Pieces
  <2> QED BY <2>2 DEF p
<1>6. CASE k = 6
  <2>1. p = <<"gpt", "-", "3.5">>
    BY <1>6, Book DEF Costs!Row
  <2> HIDE DEF p
  <2>2. p \in Seq(Pieces(p)) /\ p # <<>>
    BY <2>1 DEF Pieces
  <2> QED BY <2>2 DEF p
<1>7. CASE k = 7
  <2>1. p = <<"claude", "-", "3", "-", "5", "-", "haiku">>
    BY <1>7, Book DEF Costs!Row
  <2> HIDE DEF p
  <2>2. p \in Seq(Pieces(p)) /\ p # <<>>
    BY <2>1 DEF Pieces
  <2> QED BY <2>2 DEF p
<1>8. CASE k = 8
  <2>1. p = <<"claude", "-", "3", "-", "haiku">>
    BY <1>8, Book DEF Costs!Row
  <2> HIDE DEF p
  <2>2. p \in Seq(Pieces(p)) /\ p # <<>>
    BY <2>1 DEF Pieces
  <2> QED BY <2>2 DEF p
<1>9. CASE k = 9
  <2>1. p = <<"claude", "-", "3", "-", "opus">>
    BY <1>9, Book DEF Costs!Row
  <2> HIDE DEF p
  <2>2. p \in Seq(Pieces(p)) /\ p # <<>>
    BY <2>1 DEF Pieces
  <2> QED BY <2>2 DEF p
<1>10. CASE k = 10
  <2>1. p = <<"claude", "-", "3", "-", "5", "-", "sonnet">>
    BY <1>10, Book DEF Costs!Row
  <2> HIDE DEF p
  <2>2. p \in Seq(Pieces(p)) /\ p # <<>>
    BY <2>1 DEF Pieces
  <2> QED BY <2>2 DEF p
<1>11. CASE k = 11
  <2>1. p = <<"claude", "-", "3">>
    BY <1>11, Book DEF Costs!Row
  <2> HIDE DEF p
  <2>2. p \in Seq(Pieces(p)) /\ p # <<>>
    BY <2>1 DEF Pieces
  <2> QED BY <2>2 DEF p
<1>12. CASE k = 12
  <2>1. p = <<"claude">>
    BY <1>12, Book DEF Costs!Row
  <2> HIDE DEF p
  <2>2. p \in Seq(Pieces(p)) /\ p # <<>>
    BY <2>1 DEF Pieces
  <2> QED BY <2>2 DEF p
<1>13. CASE k = 13
  <2>1. p = <<"gemini", "-", "1.5", "-", "flash">>
    BY <1>13, Book DEF Costs!Row
  <2> HIDE DEF p
  <2>2. p \in Seq(Pieces(p)) /\ p # <<>>
    BY <2>1 DEF Pieces
  <2> QED BY <2>2 DEF p
<1>14. CASE k = 14
  <2>1. p = <<"gemini", "-", "2.0", "-", "flash">>
    BY <1>14, Book DEF Costs!Row
  <2> HIDE DEF p
  <2>2. p \in Seq(Pieces(p)) /\ p # <<>>
    BY <2>1 DEF Pieces
  <2> QED BY <2>2 DEF p
<1>15. CASE k = 15
  <2>1. p = <<"gemini", "-", "1.5", "-", "pro">>
    BY <1>15, Book DEF Costs!Row
  <2> HIDE DEF p
  <2>2. p \in Seq(Pieces(p)) /\ p # <<>>
    BY <2>1 DEF Pieces
  <2> QED BY <2>2 DEF p
<1>16. CASE k = 16
  <2>1. p = <<"gemini">>
    BY <1>16, Book DEF Costs!Row
  <2> HIDE DEF p
  <2>2. p \in Seq(Pieces(p)) /\ p # <<>>
    BY <2>1 DEF Pieces
  <2> QED BY <2>2 DEF p
<1> QED BY <1>1, <1>2, <1>3, <1>4, <1>5, <1>6, <1>7, <1>8, <1>9, <1>10, <1>11, <1>12, <1>13, <1>14, <1>15, <1>16

\* Every row matches the name it is written for.
LEMMA RowsMatchThemselves ==
  ASSUME NEW k \in 1..16
  PROVE  Costs!pattern_matches(Costs!PRICE_BOOK[k].pat, Costs!PRICE_BOOK[k])
<1> DEFINE p == Costs!PRICE_BOOK[k].pat
<1>1. p \in Seq(Pieces(p)) /\ p # <<>>
  BY RowsArePatterns
<1> HIDE DEF p
<1>2. Len(p) \in Nat \ {0} /\ SubSeq(p, 1, Len(p)) = p
  BY <1>1
<1>3. /\ 1 \in 1..(Len(p) + 1 - Len(p)) /\ 1 + Len(p) - 1 = Len(p)
      /\ SubSeq(p, 1, 1 + Len(p) - 1) = p
  BY <1>2
<1> QED BY <1>3 DEF Costs!pattern_matches, p

\* None matches the name of a row that comes later.
LEMMA NoRowIsHidden ==
  ASSUME NEW k \in 1..16, NEW l \in 1..(k - 1)
  PROVE  ~Costs!pattern_matches(Costs!PRICE_BOOK[k].pat, Costs!PRICE_BOOK[l])
<1>1. \A j \in 1..16 : \E n \in Nat : DOMAIN Costs!PRICE_BOOK[j].pat = 1..n /\ Len(Costs!PRICE_BOOK[j].pat) = n
  <2> SUFFICES ASSUME NEW j \in 1..16
               PROVE \E n \in Nat : DOMAIN Costs!PRICE_BOOK[j].pat = 1..n /\ Len(Costs!PRICE_BOOK[j].pat) = n
    OBVIOUS
  <2> DEFINE p == Costs!PRICE_BOOK[j].pat
  <2>1. p \in Seq(Pieces(p))
    BY RowsArePatterns
  <2> HIDE DEF p
  <2>2. DOMAIN p = 1..Len(p) /\ Len(p) \in Nat
    BY <2>1
  <2> QED BY <2>2 DEF p
<1>2. ~(Pieces(Costs!PRICE_BOOK[l].pat) \subseteq Pieces(Costs!PRICE_BOOK[k].pat))
  <2>1. CASE k = 1
    BY <2>1, BookPieces
  <2>2. CASE k = 2
    BY <2>2, BookPieces
  <2>3. CASE k = 3
    BY <2>3, BookPieces
  <2>4. CASE k = 4
    BY <2>4, BookPieces
  <2>5. CASE k = 5
    BY <2>5, BookPieces
  <2>6. CASE k = 6
    BY <2>6, BookPieces
  <2>7. CASE k = 7
    BY <2>7, BookPieces
  <2>8. CASE k = 8
    BY <2>8, BookPieces, SMTT(30)
  <2>9. CASE k = 9
    BY <2>9, BookPieces
  <2>10. CASE k = 10
    BY <2>10, BookPieces, SMTT(30)
  <2>11. CASE k = 11
    BY <2>11, BookPieces
  <2>12. CASE k = 12
    BY <2>12, BookPieces
  <2>13. CASE k = 13
    BY <2>13, BookPieces
  <2>14. CASE k = 14
    BY <2>14, BookPieces
  <2>15. CASE k = 15
    BY <2>15, BookPieces, SMTT(30)
  <2>16. CASE k = 16
    BY <2>16, BookPieces
  <2> QED BY <2>1, <2>2, <2>3, <2>4, <2>5, <2>6, <2>7, <2>8, <2>9, <2>10, <2>11, <2>12, <2>13, <2>14, <2>15, <2>16
<1>3. l \in 1..16
  OBVIOUS
<1> QED BY <1>1, <1>2, <1>3, MatchesArePieces

\* So no row is shadowed by an earlier one.
LEMMA EveryRowIsPriced ==
  ASSUME NEW k \in DOMAIN Costs!PRICE_BOOK
  PROVE  Costs!price_for(Costs!PRICE_BOOK[k].pat) = Costs!PRICE_BOOK[k]
<1> DEFINE p == Costs!PRICE_BOOK[k].pat
           M == Costs!Matching(p)
<1>1. k \in 1..16 /\ M \subseteq 1..16
  BY Book DEF Costs!Matching
<1>2. k \in M
  BY <1>1, RowsMatchThemselves DEF Costs!Matching
<1>3. \A l \in M : k <= l
  BY <1>1, NoRowIsHidden DEF Costs!Matching
<1>4. Costs!price_for(p) = Costs!PRICE_BOOK[CHOOSE m \in M : \A l \in M : m <= l]
  BY <1>2 DEF Costs!price_for
<1> HIDE DEF M, p
<1>5. \A m \in M : (\A l \in M : m <= l) => m = k
  BY <1>1, <1>2, <1>3
<1>6. (CHOOSE m \in M : \A l \in M : m <= l) = k
  BY <1>2, <1>3, <1>5
<1> QED BY <1>4, <1>6 DEF p

\* Whatever table it is given, and for any model, a cost is shown in a currency with a rate.
LEMMA CostIsWellPricedAlways ==
  ASSUME NEW raw, NEW display, NEW region, NEW model
  PROVE  Costs!CostIsWellPriced(raw, display, region, model)
<1>1. Costs!from_env(raw, raw).default \in DOMAIN Costs!from_env(raw, raw).rates
  BY TablesDefaultHasARate
<1> QED BY <1>1, ShownInAPricedCurrency, EveryRowIsPriced DEF Costs!CostIsWellPriced

-----------------------------------------------------------------------------
\* Running sums, and what taking one away leaves.

\* A function on 1..n is a sequence of length n.
LEMMA ListsAreSequences ==
  ASSUME NEW n \in Nat, NEW X, NEW f \in [1..n -> X]
  PROVE  f \in Seq(X) /\ Len(f) = n
OBVIOUS

\* The running sum starts at 0 and adds one weight at a time.
LEMMA SumsAdd ==
  ASSUME NEW ws \in Seq(Nat)
  PROVE  /\ Policy!SumTo(ws, 0) = 0
         /\ \A k \in 1..Len(ws) : Policy!SumTo(ws, k) = Policy!SumTo(ws, k - 1) + ws[k]
         /\ \A k \in 0..Len(ws) : Policy!SumTo(ws, k) \in Nat
<1> DEFINE n == Len(ws)
           h == [k \in 1..n |-> [x \in Nat |-> x + ws[k]]]
           Sums(f) == f = [k \in 0..n |-> IF k = 0 THEN 0 ELSE f[k - 1] + ws[k]]
<1>1. n \in Nat /\ \A k \in 1..n : ws[k] \in Nat
  OBVIOUS
<1>2. \A k \in 1..n, x \in Nat : h[k][x] = x + ws[k] /\ h[k][x] \in Nat
  BY <1>1
<1> HIDE DEF n, h
<1>3. PICK f : IsRecursion(f, n, 0, h)
  BY <1>1, RecursionExists
<1>4. \A k \in 0..n : f[k] = IF k = 0 THEN 0 ELSE h[k][f[k - 1]]
  BY <1>3 DEF IsRecursion
<1>5. \A k \in 0..n : f[k] \in Nat
  <2> DEFINE P == {k \in 0..n : f[k] \in Nat}
  <2>1. 0 \in P
    BY <1>1, <1>4
  <2>2. \A k \in 0..(n - 1) : k \in P => k + 1 \in P
    <3> SUFFICES ASSUME NEW k \in 0..(n - 1), k \in P PROVE k + 1 \in P
      OBVIOUS
    <3>1. k + 1 \in 1..n /\ k + 1 \in 0..n /\ k + 1 # 0 /\ (k + 1) - 1 = k
      BY <1>1
    <3>2. f[k + 1] = h[k + 1][f[k]]
      BY <1>4, <3>1
    <3> QED BY <1>2, <3>1, <3>2
  <2> HIDE DEF P
  <2>3. \A k \in 0..n : k \in P
    BY <1>1, <2>1, <2>2, CountingUp
  <2> QED BY <2>3 DEF P
<1>6. Sums(f)
  <2> DEFINE v(k) == IF k = 0 THEN 0 ELSE h[k][f[k - 1]]
             w(k) == IF k = 0 THEN 0 ELSE f[k - 1] + ws[k]
  <2>1. ASSUME NEW k \in 0..n PROVE v(k) = w(k)
    <3>1. CASE k = 0
      BY <3>1
    <3>2. CASE k # 0
      <4>1. k \in 1..n /\ k - 1 \in 0..n
        BY <1>1, <3>2
      <4>2. f[k - 1] \in Nat
        BY <1>5, <4>1
      <4>3. h[k][f[k - 1]] = f[k - 1] + ws[k]
        BY <1>2, <4>1, <4>2
      <4> QED BY <3>2, <4>3
    <3> QED BY <3>1, <3>2
  <2>2. f = [k \in 0..n |-> v(k)]
    BY <1>3 DEF IsRecursion
  <2>3. f = [k \in 0..n |-> w(k)]
    <3> HIDE DEF v, w
    <3> QED BY <2>1, <2>2
  <2> QED BY <2>3
<1> DEFINE sum == CHOOSE g : Sums(g)
<1>7. Sums(sum)
  <2> HIDE DEF Sums
  <2> QED BY <1>6
<1>8. \A k : Policy!SumTo(ws, k) = sum[k]
  BY Zenon DEF Policy!SumTo, n
<1> HIDE DEF sum
<1>9. sum[0] = 0 /\ \A k \in 1..n : sum[k] = sum[k - 1] + ws[k]
  BY <1>1, <1>7
<1>10. \A k \in 0..n : sum[k] \in Nat
  <2> DEFINE P == {k \in 0..n : sum[k] \in Nat}
  <2>1. 0 \in P
    BY <1>1, <1>9
  <2>2. \A k \in 0..(n - 1) : k \in P => k + 1 \in P
    BY <1>1, <1>9
  <2> HIDE DEF P
  <2>3. \A k \in 0..n : k \in P
    BY <1>1, <2>1, <2>2, CountingUp
  <2> QED BY <2>3 DEF P
<1> QED BY <1>8, <1>9, <1>10 DEF n

\* It never falls.
LEMMA SumsGrow ==
  ASSUME NEW ws \in Seq(Nat), NEW i \in 0..Len(ws), NEW j \in i..Len(ws)
  PROVE  Policy!SumTo(ws, i) <= Policy!SumTo(ws, j)
<1> DEFINE P == {k \in i..Len(ws) : Policy!SumTo(ws, i) <= Policy!SumTo(ws, k)}
<1>1. Len(ws) \in Nat /\ i \in Nat
  OBVIOUS
<1>2. i \in P
  BY <1>1, SumsAdd
<1>3. \A k \in i..(Len(ws) - 1) : k \in P => k + 1 \in P
  <2> SUFFICES ASSUME NEW k \in i..(Len(ws) - 1), k \in P PROVE k + 1 \in P
    OBVIOUS
  <2>1. k + 1 \in 1..Len(ws) /\ k \in 0..Len(ws) /\ k + 1 \in i..Len(ws) /\ (k + 1) - 1 = k /\ i \in 0..Len(ws)
    BY <1>1
  <2>2. Policy!SumTo(ws, k + 1) = Policy!SumTo(ws, k) + ws[k + 1] /\ ws[k + 1] \in Nat
    BY <2>1, SumsAdd
  <2>3. Policy!SumTo(ws, i) \in Nat /\ Policy!SumTo(ws, k) \in Nat
    BY <2>1, SumsAdd
  <2> QED BY <2>1, <2>2, <2>3
<1> HIDE DEF P
<1>4. \A k \in i..Len(ws) : k \in P
  BY <1>1, <1>2, <1>3, CountingUp
<1> QED BY <1>4 DEF P

-----------------------------------------------------------------------------
\* Removing place i keeps the order of the rest.
LEMMA RemovingOne ==
  ASSUME NEW X, NEW s \in Seq(X), NEW i \in 1..Len(s)
  PROVE  /\ Policy!RemoveAt(s, i) \in Seq(X) /\ Len(Policy!RemoveAt(s, i)) = Len(s) - 1
         /\ \A j \in 1..(Len(s) - 1) : Policy!RemoveAt(s, i)[j] = IF j < i THEN s[j] ELSE s[j + 1]
<1> DEFINE a == SubSeq(s, 1, i - 1)
           b == SubSeq(s, i + 1, Len(s))
<1>0. Len(s) \in Nat /\ i \in Nat /\ i >= 1 /\ i <= Len(s)
  OBVIOUS
<1>1. a \in Seq(X) /\ Len(a) = i - 1 /\ \A j \in 1..(i - 1) : a[j] = s[j]
  OBVIOUS
<1>2. b \in Seq(X) /\ Len(b) = Len(s) - i /\ \A j \in 1..(Len(s) - i) : b[j] = s[i + j]
  OBVIOUS
<1> HIDE DEF a, b
<1>3. /\ a \o b \in Seq(X) /\ Len(a \o b) = Len(a) + Len(b)
      /\ \A j \in 1..(Len(a) + Len(b)) : (a \o b)[j] = IF j <= Len(a) THEN a[j] ELSE b[j - Len(a)]
  BY <1>1, <1>2, ConcatProperties
<1>4. Len(a) + Len(b) = Len(s) - 1
  BY <1>0, <1>1, <1>2
<1>5. \A j \in 1..(Len(s) - 1) : (a \o b)[j] = IF j < i THEN s[j] ELSE s[j + 1]
  <2> SUFFICES ASSUME NEW j \in 1..(Len(s) - 1) PROVE (a \o b)[j] = IF j < i THEN s[j] ELSE s[j + 1]
    OBVIOUS
  <2>0. (a \o b)[j] = IF j <= i - 1 THEN a[j] ELSE b[j - (i - 1)]
    BY <1>1, <1>3, <1>4
  <2>1. CASE j < i
    BY <1>0, <1>1, <2>0, <2>1
  <2>2. CASE j >= i
    <3>1. j - (i - 1) \in 1..(Len(s) - i) /\ i + (j - (i - 1)) = j + 1
      BY <1>0, <2>2
    <3>2. b[j - (i - 1)] = s[j + 1]
      BY <1>2, <3>1
    <3> QED BY <1>0, <2>0, <2>2, <3>2
  <2>3. j < i \/ j >= i
    BY <1>0
  <2> QED BY <2>1, <2>2, <2>3, Zenon
<1> QED BY <1>3, <1>4, <1>5 DEF Policy!RemoveAt, a, b

\* A draw always falls on a place of the pool.
LEMMA ChosenIsAPlace ==
  ASSUME NEW ws \in Seq(Nat), Len(ws) > 0, NEW pick
  PROVE  Policy!Chosen(ws, pick) \in 1..Len(ws)
<1> DEFINE hit == {i \in DOMAIN ws : pick < Policy!SumTo(ws, i)}
<1>1. CASE hit = {}
  BY <1>1 DEF Policy!Chosen
<1>2. CASE hit # {}
  <2>1. hit \subseteq Nat /\ hit \subseteq 1..Len(ws)
    OBVIOUS
  <2>2. Policy!Chosen(ws, pick) = CHOOSE x \in hit : \A y \in hit : x <= y
    BY <1>2 DEF Policy!Chosen, Policy!Min
  <2> HIDE DEF hit
  <2>3. \E x \in hit : \A y \in hit : x <= y
    BY <1>2, <2>1, LeastExists
  <2> QED BY <2>1, <2>2, <2>3
<1> QED BY <1>1, <1>2

-----------------------------------------------------------------------------
\* Weighted draws.

\* After k draws from a pool of n, the drawn and the rest are a rearrangement of the pool.
Rearranged(p, pool, n, k, out, rest) ==
    /\ p \in [1..n -> 1..n] /\ \A i, j \in 1..n : p[i] = p[j] => i = j
    /\ \A j \in 1..k : out[j] = pool[p[j]]
    /\ \A j \in 1..(n - k) : rest[j] = pool[p[k + j]]
Drawn(st, pool, X, n, k) ==
    /\ st.pool \in Seq(X) /\ st.ws \in Seq(Nat) /\ st.out \in Seq(X)
    /\ Len(st.pool) = n - k /\ Len(st.ws) = n - k /\ Len(st.out) = k
    /\ \E p : Rearranged(p, pool, n, k, st.out, st.pool)

\* Moving place k + c to place k + 1 and those between one up.
Moves(origin, n, k, c) ==
    /\ origin \in [1..n -> 1..n] /\ \A i, j \in 1..n : origin[i] = origin[j] => i = j
    /\ \A j \in 1..k : origin[j] = j
    /\ origin[k + 1] = k + c
    /\ \A j \in 1..(n - (k + 1)) : origin[(k + 1) + j] = IF j < c THEN k + j ELSE k + (j + 1)
\* There is such a move.
LEMMA Moving ==
  ASSUME NEW n \in Nat, NEW k \in 0..(n - 1), NEW c \in 1..(n - k)
  PROVE  \E origin : Moves(origin, n, k, c)
<1> DEFINE to(j) == IF j <= k THEN j ELSE IF j = k + 1 THEN k + c ELSE IF j <= k + c THEN j - 1 ELSE j
           origin == [j \in 1..n |-> to(j)]
<1>1. \A j \in 1..n : to(j) \in 1..n
  OBVIOUS
<1>2. \A i, j \in 1..n : to(i) = to(j) => i = j
  OBVIOUS
<1>3. \A j \in 1..k : to(j) = j /\ j \in 1..n
  OBVIOUS
<1>4. to(k + 1) = k + c /\ k + 1 \in 1..n
  OBVIOUS
<1>5. \A j \in 1..(n - (k + 1)) : to((k + 1) + j) = (IF j < c THEN k + j ELSE k + (j + 1)) /\ (k + 1) + j \in 1..n
  OBVIOUS
<1>6. \A j \in 1..n : origin[j] = to(j)
  OBVIOUS
<1>7. origin \in [1..n -> 1..n]
  <2> HIDE DEF to
  <2> QED BY <1>1
<1> HIDE DEF to, origin
<1>8. \A i, j \in 1..n : origin[i] = origin[j] => i = j
  BY <1>2, <1>6
<1>9. /\ \A j \in 1..k : origin[j] = j
      /\ origin[k + 1] = k + c
      /\ \A j \in 1..(n - (k + 1)) : origin[(k + 1) + j] = IF j < c THEN k + j ELSE k + (j + 1)
  BY <1>3, <1>4, <1>5, <1>6
<1>10. Moves(origin, n, k, c)
  BY <1>7, <1>8, <1>9 DEF Moves
<1> QED BY <1>10

\* Taking the cth of the rest leaves a rearrangement again.
LEMMA TakingOne ==
  ASSUME NEW X, NEW n \in Nat, NEW k \in 0..(n - 1), NEW pool,
         NEW rest \in Seq(X), Len(rest) = n - k, NEW out \in Seq(X), Len(out) = k, NEW c \in 1..(n - k),
         NEW p, Rearranged(p, pool, n, k, out, rest)
  PROVE  \E r : Rearranged(r, pool, n, k + 1, Append(out, rest[c]), Policy!RemoveAt(rest, c))
<1>1. k \in Nat /\ k < n /\ k + 1 \in 1..n
  OBVIOUS
<1>0. PICK origin : Moves(origin, n, k, c)
  BY Moving
<1>2. /\ origin \in [1..n -> 1..n]
      /\ \A i, j \in 1..n : origin[i] = origin[j] => i = j
      /\ \A j \in 1..k : origin[j] = j
      /\ origin[k + 1] = k + c
      /\ \A j \in 1..(n - (k + 1)) : origin[(k + 1) + j] = IF j < c THEN k + j ELSE k + (j + 1)
  BY <1>0 DEF Moves
<1>3. p \in [1..n -> 1..n] /\ \A i, j \in 1..n : p[i] = p[j] => i = j
  BY DEF Rearranged
<1> DEFINE r == [j \in 1..n |-> p[origin[j]]]
           more == Append(out, rest[c])
           less == Policy!RemoveAt(rest, c)
<1>4. r \in [1..n -> 1..n] /\ (\A j \in 1..n : r[j] = p[origin[j]])
  BY <1>2, <1>3
<1>5. \A j \in 1..(n - (k + 1)) : less[j] = IF j < c THEN rest[j] ELSE rest[j + 1]
  <2>1. c \in 1..Len(rest)
    OBVIOUS
  <2>2. \A j \in 1..(Len(rest) - 1) : less[j] = IF j < c THEN rest[j] ELSE rest[j + 1]
    BY <2>1, RemovingOne
  <2>3. Len(rest) - 1 = n - (k + 1)
    BY <1>1
  <2> QED BY <2>2, <2>3
<1>6. rest[c] \in X
  OBVIOUS
<1>7. more[k + 1] = rest[c] /\ \A j \in 1..k : more[j] = out[j]
  BY <1>6
<1> HIDE DEF r, more, less
<1>8. \A i, j \in 1..n : r[i] = r[j] => i = j
  <2> SUFFICES ASSUME NEW i \in 1..n, NEW j \in 1..n, r[i] = r[j] PROVE i = j
    OBVIOUS
  <2>1. origin[i] \in 1..n /\ origin[j] \in 1..n /\ p[origin[i]] = p[origin[j]]
    BY <1>2, <1>4
  <2>2. origin[i] = origin[j]
    BY <1>3, <2>1
  <2> QED BY <1>2, <2>2
<1>9. ASSUME NEW j \in 1..(k + 1) PROVE more[j] = pool[r[j]]
  <2>1. CASE j \in 1..k
    <3>0. origin[j] = j /\ j \in 1..n
      BY <1>1, <1>2, <2>1
    <3>1. r[j] = p[j] /\ more[j] = out[j]
      BY <1>4, <1>7, <2>1, <3>0
    <3>2. out[j] = pool[p[j]]
      BY <2>1 DEF Rearranged
    <3> QED BY <3>1, <3>2
  <2>2. CASE j = k + 1
    <3>1. r[j] = p[k + c] /\ more[j] = rest[c]
      BY <1>1, <1>2, <1>4, <1>7, <2>2
    <3>2. rest[c] = pool[p[k + c]]
      BY DEF Rearranged
    <3> QED BY <3>1, <3>2
  <2> QED BY <1>1, <2>1, <2>2
<1>10. ASSUME NEW j \in 1..(n - (k + 1)) PROVE less[j] = pool[r[(k + 1) + j]]
  <2>1. r[(k + 1) + j] = p[origin[(k + 1) + j]]
    <3>1. (k + 1) + j \in 1..n
      BY <1>1
    <3> QED BY <1>4, <3>1
  <2>2. CASE j < c
    <3>0. origin[(k + 1) + j] = k + j
      BY <1>2, <2>2
    <3>1. less[j] = rest[j]
      BY <1>5, <2>2
    <3>3. j \in 1..(n - k)
      BY <1>1
    <3>2. rest[j] = pool[p[k + j]]
      BY <3>3 DEF Rearranged
    <3> QED BY <2>1, <3>0, <3>1, <3>2
  <2>3. CASE ~(j < c)
    <3>0. origin[(k + 1) + j] = k + (j + 1)
      BY <1>2, <2>3
    <3>1. less[j] = rest[j + 1]
      BY <1>5, <2>3
    <3>3. j + 1 \in 1..(n - k)
      BY <1>1
    <3>2. rest[j + 1] = pool[p[k + (j + 1)]]
      BY <3>3 DEF Rearranged
    <3> QED BY <2>1, <3>0, <3>1, <3>2
  <2> QED BY <2>2, <2>3
<1>11. Rearranged(r, pool, n, k + 1, more, less)
  BY <1>4, <1>8, <1>9, <1>10 DEF Rearranged
<1> QED BY <1>11 DEF more, less

\* A draw moves one candidate from the pool to the order.
LEMMA DrawTakesOne ==
  ASSUME NEW X, NEW pool, NEW n \in Nat, NEW k \in 0..(n - 1),
         NEW st, Drawn(st, pool, X, n, k), NEW pick
  PROVE  /\ Drawn(Policy!Draw(st, pick), pool, X, n, k + 1)
         /\ \A j \in 1..k : Policy!Draw(st, pick).out[j] = st.out[j]
<1> DEFINE total == Policy!SumTo(st.ws, Len(st.ws))
           c == Policy!Chosen(st.ws, pick % (IF total < 1 THEN 1 ELSE total))
           next == Policy!Draw(st, pick)
           rest == st.pool
           ws == st.ws
           out == st.out
<1>1. /\ rest \in Seq(X) /\ ws \in Seq(Nat) /\ out \in Seq(X)
      /\ Len(rest) = n - k /\ Len(ws) = n - k /\ Len(out) = k
  BY DEF Drawn
<1>2. PICK p : Rearranged(p, pool, n, k, out, rest)
  BY DEF Drawn
<1>3. next.pool = Policy!RemoveAt(rest, c) /\ next.ws = Policy!RemoveAt(ws, c) /\ next.out = Append(out, rest[c])
  BY DEF Policy!Draw
<1>4. c \in 1..(n - k)
  <2>1. \A pk : Policy!Chosen(ws, pk) \in 1..Len(ws)
    <3> HIDE DEF ws
    <3>1. ws \in Seq(Nat) /\ Len(ws) > 0
      BY <1>1
    <3> QED BY <3>1, ChosenIsAPlace
  <2> QED BY <1>1, <2>1
<1> HIDE DEF c, next, rest, ws, out
<1>5. next.pool \in Seq(X) /\ Len(next.pool) = n - (k + 1) /\ next.ws \in Seq(Nat) /\ Len(next.ws) = n - (k + 1)
  <2>1. c \in 1..Len(rest) /\ c \in 1..Len(ws)
    BY <1>1, <1>4
  <2>2. Policy!RemoveAt(rest, c) \in Seq(X) /\ Len(Policy!RemoveAt(rest, c)) = Len(rest) - 1
    BY <1>1, <2>1, RemovingOne
  <2>3. Policy!RemoveAt(ws, c) \in Seq(Nat) /\ Len(Policy!RemoveAt(ws, c)) = Len(ws) - 1
    BY <1>1, <2>1, RemovingOne
  <2>4. (n - k) - 1 = n - (k + 1)
    OBVIOUS
  <2> QED BY <1>1, <1>3, <2>2, <2>3, <2>4
<1>6. next.out \in Seq(X) /\ Len(next.out) = k + 1 /\ \A j \in 1..k : next.out[j] = out[j]
  <2>1. rest[c] \in X
    BY <1>1, <1>4
  <2>2. Append(out, rest[c]) \in Seq(X) /\ Len(Append(out, rest[c])) = k + 1 /\ \A j \in 1..k : Append(out, rest[c])[j] = out[j]
    BY <1>1, <2>1
  <2> QED BY <1>3, <2>2
<1>7. \E r : Rearranged(r, pool, n, k + 1, next.out, next.pool)
  BY <1>1, <1>2, <1>3, <1>4, TakingOne
<1>8. Drawn(next, pool, X, n, k + 1)
  BY <1>5, <1>6, <1>7 DEF Drawn
<1> QED BY <1>6, <1>8 DEF next, out

\* A weighted order is a rearrangement of the pool, and its first is the one the first pick
\* falls on.
LEMMA WeightedOrderRearranges ==
  ASSUME NEW X, NEW pool \in Seq(X), NEW weights \in Seq(Nat), Len(weights) = Len(pool), NEW picks
  PROVE  LET out == Policy!weighted_order(pool, weights, picks)
             total == Policy!SumTo(weights, Len(weights))
         IN  /\ out \in Seq(X) /\ Len(out) = Len(pool)
             /\ \E p : Rearranged(p, pool, Len(pool), Len(pool), out, <<>>)
             /\ Len(pool) > 0 =>
                  out[1] = pool[Policy!Chosen(weights, picks[1] % (IF total < 1 THEN 1 ELSE total))]
<1> DEFINE n == Len(pool)
           total == Policy!SumTo(weights, Len(weights))
           start == [pool |-> pool, ws |-> weights, out |-> <<>>]
           U == [pool : Seq(X), ws : Seq(Nat), out : Seq(X)]
           h == [k \in 1..n |-> [x \in U |-> Policy!Draw(x, picks[k])]]
           Run(f) == f = [k \in 0..n |-> IF k = 0 THEN start ELSE Policy!Draw(f[k - 1], picks[k])]
           lead == pool[Policy!Chosen(weights, picks[1] % (IF total < 1 THEN 1 ELSE total))]
           Fine(x, k) == Drawn(x, pool, X, n, k) /\ (k > 0 => x.out[1] = lead)
<1>0. n \in Nat
  OBVIOUS
<1>1. Fine(start, 0)
  <2> DEFINE p == [i \in 1..n |-> i]
  <2>1. p \in [1..n -> 1..n] /\ \A i \in 1..n : p[i] = i
    OBVIOUS
  <2> HIDE DEF p
  <2>2. Rearranged(p, pool, n, 0, <<>>, pool)
    BY <2>1 DEF Rearranged
  <2> QED BY <2>2 DEF Drawn
<1>2. ASSUME NEW k \in 1..n, NEW x, Fine(x, k - 1), k = 1 => x = start
      PROVE  Fine(Policy!Draw(x, picks[k]), k)
  <2>1. k - 1 \in 0..(n - 1) /\ (k - 1) + 1 = k
    BY <1>0
  <2>2. Drawn(Policy!Draw(x, picks[k]), pool, X, n, k) /\ \A j \in 1..(k - 1) : Policy!Draw(x, picks[k]).out[j] = x.out[j]
    <3>1. Drawn(x, pool, X, n, k - 1)
      BY <1>2
    <3>2. \A pk : /\ Drawn(Policy!Draw(x, pk), pool, X, n, (k - 1) + 1)
                  /\ \A j \in 1..(k - 1) : Policy!Draw(x, pk).out[j] = x.out[j]
      <4> HIDE DEF n
      <4> DEFINE m == k - 1
      <4>1. m \in 0..(n - 1) /\ Drawn(x, pool, X, n, m)
        BY <2>1, <3>1
      <4> HIDE DEF m
      <4>2. ASSUME NEW pk PROVE Drawn(Policy!Draw(x, pk), pool, X, n, m + 1) /\ \A j \in 1..m : Policy!Draw(x, pk).out[j] = x.out[j]
        BY <1>0, <4>1, DrawTakesOne
      <4> QED BY <4>2 DEF m
    <3> QED BY <2>1, <3>2
  <2>3. CASE k = 1
    <3>1. x.pool = pool /\ x.ws = weights /\ x.out = <<>>
      BY <1>2, <2>3
    <3>2. Policy!Draw(x, picks[k]).out = Append(<<>>, lead)
      BY <2>3, <3>1 DEF Policy!Draw
    <3> HIDE DEF lead
    <3> QED BY <2>2, <3>2
  <2>4. CASE k > 1
    <3>1. 1 \in 1..(k - 1) /\ k - 1 > 0
      BY <2>4
    <3> QED BY <1>2, <2>2, <3>1
  <2> QED BY <2>3, <2>4
<1> HIDE DEF n, lead
<1>10. \A k \in 1..n, x \in U : h[k][x] = Policy!Draw(x, picks[k])
  <2> HIDE DEF U
  <2> QED OBVIOUS
<1>11. start \in U
  OBVIOUS
<1> HIDE DEF h, start
<1>3. \E f : Run(f)
  <2>1. PICK f : IsRecursion(f, n, start, h)
    BY <1>0, RecursionExists
  <2>2. \A k \in 0..n : f[k] = IF k = 0 THEN start ELSE h[k][f[k - 1]]
    BY <2>1 DEF IsRecursion
  <2> DEFINE P == {k \in 0..n : Fine(f[k], k) /\ f[k] \in U /\ (k > 0 => f[k] = Policy!Draw(f[k - 1], picks[k]))}
  <2>3. 0 \in P
    <3>1. f[0] = start
      BY <1>0, <2>2
    <3> HIDE DEF Fine, U
    <3> QED BY <1>0, <1>1, <1>11, <3>1
  <2>4. ASSUME NEW k \in 0..(n - 1), k \in P PROVE k + 1 \in P
    <3>1. k + 1 \in 1..n /\ k + 1 # 0 /\ (k + 1) - 1 = k /\ k + 1 > 0 /\ (k + 1 = 1 => k = 0) /\ k + 1 \in 0..n
      BY <1>0
    <3>2. f[k + 1] = h[k + 1][f[k]]
      BY <2>2, <3>1
    <3>3. f[k] \in U /\ Fine(f[k], k)
      BY <2>4
    <3>4. f[k + 1] = Policy!Draw(f[k], picks[k + 1])
      <4> HIDE DEF U
      <4> QED BY <1>10, <3>1, <3>2, <3>3
    <3>5. k + 1 = 1 => f[k] = start
      BY <1>0, <2>2, <3>1
    <3>6. Fine(f[k + 1], k + 1)
      <4> HIDE DEF Fine
      <4> QED BY <1>2, <3>1, <3>3, <3>4, <3>5
    <3>7. f[k + 1] \in U
      <4>1. DOMAIN f[k + 1] = {"pool", "ws", "out"} /\ f[k + 1] = [pool |-> f[k + 1].pool, ws |-> f[k + 1].ws, out |-> f[k + 1].out]
        BY <3>4 DEF Policy!Draw
      <4>2. f[k + 1].pool \in Seq(X) /\ f[k + 1].ws \in Seq(Nat) /\ f[k + 1].out \in Seq(X)
        BY <3>6 DEF Drawn
      <4> QED BY <4>1, <4>2
    <3> HIDE DEF Fine, U
    <3> QED BY <3>1, <3>4, <3>6, <3>7
  <2> HIDE DEF P
  <2>5. \A k \in 0..n : k \in P
    BY <1>0, <2>3, <2>4, CountingUp
  <2>6. \A k \in 0..n : f[k] = IF k = 0 THEN start ELSE Policy!Draw(f[k - 1], picks[k])
    <3> HIDE DEF Fine, U
    <3>1. \A k \in 0..n : k > 0 => f[k] = Policy!Draw(f[k - 1], picks[k])
      BY <2>5 DEF P
    <3>2. f[0] = start
      BY <1>0, <2>2
    <3> QED BY <3>1, <3>2
  <2>7. f = [k \in 0..n |-> f[k]]
    BY <2>1 DEF IsRecursion
  <2>8. Run(f)
    <3> DEFINE v(k) == f[k]
               w(k) == IF k = 0 THEN start ELSE Policy!Draw(f[k - 1], picks[k])
    <3>1. \A k \in 0..n : v(k) = w(k)
      BY <2>6
    <3>2. [k \in 0..n |-> v(k)] = [k \in 0..n |-> w(k)]
      <4> HIDE DEF v, w
      <4> QED BY <3>1
    <3> QED BY <2>7, <3>2
  <2> HIDE DEF Run
  <2> QED BY <2>8
<1> DEFINE after == CHOOSE f : Run(f)
<1>4. Run(after)
  <2> HIDE DEF Run
  <2> QED BY <1>3
<1>5. Policy!weighted_order(pool, weights, picks) = after[n].out
  BY Zenon DEF Policy!weighted_order, n, start
<1> HIDE DEF after
<1>6. \A k \in 0..n : Fine(after[k], k)
  <2>1. after[0] = start /\ \A k \in 1..n : after[k] = Policy!Draw(after[k - 1], picks[k])
    BY <1>0, <1>4
  <2> HIDE DEF Run
  <2> DEFINE P == {k \in 0..n : Fine(after[k], k)}
  <2>2. 0 \in P
    <3> HIDE DEF Fine
    <3> QED BY <1>0, <1>1, <2>1
  <2>3. ASSUME NEW k \in 0..(n - 1), k \in P PROVE k + 1 \in P
    <3>1. k + 1 \in 1..n /\ (k + 1) - 1 = k /\ (k + 1 = 1 => k = 0) /\ k + 1 \in 0..n
      BY <1>0
    <3> HIDE DEF Fine
    <3>2. Fine(after[k], k)
      BY <2>3
    <3> QED BY <1>2, <2>1, <3>1, <3>2
  <2> HIDE DEF P
  <2>4. \A k \in 0..n : k \in P
    BY <1>0, <2>2, <2>3, CountingUp
  <2> QED BY <2>4 DEF P
<1>7. Drawn(after[n], pool, X, n, n) /\ (n > 0 => after[n].out[1] = lead)
  BY <1>0, <1>6
<1> HIDE DEF Fine, Run
<1>9. /\ after[n].out \in Seq(X) /\ Len(after[n].out) = n
      /\ \E p : Rearranged(p, pool, n, n, after[n].out, <<>>)
  <2>1. PICK p : Rearranged(p, pool, n, n, after[n].out, after[n].pool)
    BY <1>7 DEF Drawn
  <2>2. Rearranged(p, pool, n, n, after[n].out, <<>>)
    BY <1>0, <2>1 DEF Rearranged
  <2> QED BY <1>7, <2>2 DEF Drawn
<1> QED BY <1>5, <1>7, <1>9 DEF n, lead

-----------------------------------------------------------------------------
\* What a pick falls on; the available candidates.

\* A pick falls on the weight whose stretch of the running sum it lies in.
LEMMA ChosenByStretch ==
  ASSUME NEW ws \in Seq(Nat), NEW i \in 1..Len(ws), NEW r \in 0..(Policy!SumTo(ws, Len(ws)) - 1)
  PROVE  Policy!Chosen(ws, r) = i <=> Policy!SumTo(ws, i - 1) <= r /\ r < Policy!SumTo(ws, i)
<1> DEFINE hit == {j \in DOMAIN ws : r < Policy!SumTo(ws, j)}
           n == Len(ws)
           S(j) == Policy!SumTo(ws, j)
           c == Policy!Chosen(ws, r)
<1>1. n \in Nat \ {0} /\ i \in 1..n /\ DOMAIN ws = 1..n
  OBVIOUS
<1>2. S(0) = 0 /\ \A j \in 0..n : S(j) \in Nat
  BY SumsAdd
<1>3. \A j \in 0..n, k \in 0..n : j <= k => S(j) <= S(k)
  <2> SUFFICES ASSUME NEW j \in 0..n, NEW k \in 0..n, j <= k PROVE S(j) <= S(k)
    OBVIOUS
  <2>1. k \in j..Len(ws)
    OBVIOUS
  <2> QED BY <2>1, SumsGrow
<1>4. r \in Nat /\ r < S(n)
  BY <1>1, <1>2
<1>5. n \in hit /\ hit \subseteq 1..n
  BY <1>1, <1>4
<1>6. c = CHOOSE x \in hit : \A y \in hit : x <= y
  BY <1>5 DEF Policy!Chosen, Policy!Min
<1> HIDE DEF c
<1>7. c \in hit /\ \A y \in hit : c <= y
  <2>1. hit # {} /\ hit \subseteq Nat
    BY <1>5
  <2> HIDE DEF hit
  <2>2. \E x \in hit : \A y \in hit : x <= y
    BY <2>1, LeastExists
  <2> QED BY <1>6, <2>2
<1>8. c \in 1..n /\ r < S(c)
  BY <1>5, <1>7
<1>9. S(c - 1) <= r
  <2>1. CASE c = 1
    BY <1>2, <1>4, <2>1
  <2>2. CASE c # 1
    <3>1. c - 1 \in 1..n /\ ~(c <= c - 1)
      BY <1>8, <2>2
    <3>2. c - 1 \notin hit
      BY <1>7, <3>1
    <3>3. ~(r < S(c - 1)) /\ S(c - 1) \in Nat
      BY <1>1, <1>2, <3>1, <3>2
    <3> QED BY <1>4, <3>3
  <2> QED BY <2>1, <2>2
<1>10. ASSUME S(i - 1) <= r, r < S(i) PROVE c = i
  <2>1. CASE c < i
    <3>1. c \in 0..n /\ i - 1 \in 0..n /\ c <= i - 1
      BY <1>1, <1>8, <2>1
    <3>2. S(c) <= S(i - 1) /\ S(c) \in Nat /\ S(i - 1) \in Nat
      BY <1>2, <1>3, <3>1
    <3> HIDE DEF S
    <3> QED BY <1>4, <1>8, <1>10, <3>2
  <2>2. CASE i < c
    <3>1. i \in 0..n /\ c - 1 \in 0..n /\ i <= c - 1
      BY <1>1, <1>8, <2>2
    <3>2. S(i) <= S(c - 1) /\ S(i) \in Nat /\ S(c - 1) \in Nat
      BY <1>2, <1>3, <3>1
    <3> HIDE DEF S
    <3> QED BY <1>4, <1>9, <1>10, <3>2
  <2> QED BY <1>1, <1>8, <2>1, <2>2
<1> QED BY <1>8, <1>9, <1>10 DEF c

\* Of all picks below the total, a place is chosen by as many as its weight.
LEMMA ChosenByWeight ==
  ASSUME NEW ws \in Seq(Nat), NEW i \in 1..Len(ws)
  PROVE  Cardinality({r \in 0..(Policy!SumTo(ws, Len(ws)) - 1) : Policy!Chosen(ws, r) = i}) = ws[i]
<1> DEFINE n == Len(ws)
           S(j) == Policy!SumTo(ws, j)
           R == {r \in 0..(S(n) - 1) : Policy!Chosen(ws, r) = i}
<1>1. n \in Nat \ {0} /\ i \in 1..n /\ i - 1 \in 0..n /\ i \in 0..n /\ n \in 0..n /\ ws[i] \in Nat
  OBVIOUS
<1>2. S(i) = S(i - 1) + ws[i] /\ S(i - 1) \in Nat /\ S(i) \in Nat /\ S(n) \in Nat
  BY <1>1, SumsAdd
<1>3. S(i) <= S(n)
  <2>1. n \in i..Len(ws)
    BY <1>1
  <2> QED BY <1>1, <2>1, SumsGrow
<1>4. R = S(i - 1)..(S(i) - 1)
  <2>1. \A r \in 0..(S(n) - 1) : Policy!Chosen(ws, r) = i <=> S(i - 1) <= r /\ r < S(i)
    BY <1>1, ChosenByStretch
  <2> HIDE DEF S
  <2> QED BY <1>2, <1>3, <2>1, SMTT(30)
<1>5. Cardinality(S(i - 1)..(S(i) - 1)) = ws[i]
  <2> HIDE DEF S
  <2>1. S(i - 1) \in Int /\ S(i) - 1 \in Int /\ (S(i) - 1) - S(i - 1) + 1 = ws[i] /\ (S(i - 1) > S(i) - 1 <=> ws[i] = 0)
    BY <1>1, <1>2, SMTT(30)
  <2> QED BY <2>1, FS_Interval
<1> QED BY <1>4, <1>5

-----------------------------------------------------------------------------
\* The available candidates, by their places in the caller's order.
Keeps(src, live, specs, health, k) ==
    LET up == {i \in 1..k : health[specs[i].name].available} IN
    /\ src \in [1..Len(live) -> up] /\ \A r \in 1..Len(live) : live[r] = specs[src[r]]
    /\ \A r, t \in 1..Len(live) : r < t => src[r] < src[t]
    /\ \A i \in up : \E r \in 1..Len(live) : src[r] = i

\* Looking at one more candidate keeps that.
LEMMA KeepingOneMore ==
  ASSUME NEW X, NEW specs \in Seq(X), NEW health, NEW k \in 0..(Len(specs) - 1),
         NEW live \in Seq(X), NEW src, Keeps(src, live, specs, health, k)
  PROVE  LET c == specs[k + 1]
             more == IF health[c.name].available THEN Append(live, c) ELSE live
         IN  more \in Seq(X) /\ \E t : Keeps(t, more, specs, health, k + 1)
<1> DEFINE c == specs[k + 1]
           n == Len(live)
           up(j) == {i \in 1..j : health[specs[i].name].available}
<1>1. k \in Nat /\ k + 1 \in 1..Len(specs) /\ c \in X /\ n \in Nat
  OBVIOUS
<1>2. /\ src \in [1..n -> up(k)] /\ \A r \in 1..n : live[r] = specs[src[r]]
      /\ \A r, t \in 1..n : r < t => src[r] < src[t]
      /\ \A i \in up(k) : \E r \in 1..n : src[r] = i
  BY DEF Keeps
<1>3. CASE ~health[c.name].available
  <2>1. up(k + 1) = up(k)
    BY <1>1, <1>3
  <2>2. Keeps(src, live, specs, health, k + 1)
    BY <1>2, <2>1 DEF Keeps
  <2> QED BY <1>3, <2>2
<1>4. CASE health[c.name].available
  <2> DEFINE more == Append(live, c)
             t == [r \in 1..(n + 1) |-> IF r <= n THEN src[r] ELSE k + 1]
  <2>1. up(k + 1) = up(k) \cup {k + 1}
    BY <1>1, <1>4
  <2>2. more \in Seq(X) /\ Len(more) = n + 1 /\ more[n + 1] = c /\ \A r \in 1..n : more[r] = live[r]
    BY <1>1
  <2>3. /\ DOMAIN t = 1..(n + 1) /\ t[n + 1] = k + 1 /\ \A r \in 1..n : t[r] = src[r]
        /\ t = [r \in 1..(n + 1) |-> t[r]]
    BY <1>1
  <2>4. \A r \in 1..n : src[r] \in up(k) /\ src[r] \in 1..k
    BY <1>2
  <2>0. \A r \in 1..(n + 1) : r \in 1..n \/ r = n + 1
    BY <1>1
  <2>10. \A r \in 1..n : r \in 1..(n + 1)
    BY <1>1
  <2> HIDE DEF t, more, n
  <2>5. t \in [1..(n + 1) -> up(k + 1)]
    <3>1. \A r \in 1..(n + 1) : t[r] \in up(k + 1)
      <4> HIDE DEF up
      <4> QED BY <2>0, <2>1, <2>3, <2>4
    <3> HIDE DEF up
    <3> QED BY <2>3, <3>1
  <2>6. \A r \in 1..(n + 1) : more[r] = specs[t[r]]
    BY <1>2, <2>0, <2>2, <2>3
  <2>7. ASSUME NEW r \in 1..(n + 1), NEW u \in 1..(n + 1), r < u PROVE t[r] < t[u]
    <3>1. r \in 1..n /\ t[r] = src[r] /\ src[r] \in 1..k
      <4>1. r \in 1..n
        BY <1>1, <2>7
      <4> QED BY <2>3, <2>4, <4>1
    <3>2. CASE u \in 1..n
      BY <1>2, <2>3, <2>7, <3>1, <3>2
    <3>3. CASE u = n + 1
      BY <1>1, <2>3, <3>1, <3>3
    <3> QED BY <1>1, <3>2, <3>3
  <2>8. ASSUME NEW i \in up(k + 1) PROVE \E r \in 1..(n + 1) : t[r] = i
    <3>1. CASE i = k + 1
      BY <1>1, <2>3, <3>1
    <3>2. CASE i \in up(k)
      <4>1. PICK r \in 1..n : src[r] = i
        BY <1>2, <3>2
      <4>2. r \in 1..(n + 1) /\ t[r] = i
        BY <2>3, <2>10, <4>1
      <4> QED BY <4>2
    <3> HIDE DEF up
    <3> QED BY <2>1, <3>1, <3>2
  <2>9. Keeps(t, more, specs, health, k + 1)
    BY <2>2, <2>5, <2>6, <2>7, <2>8 DEF Keeps
  <2> QED BY <1>4, <2>2, <2>9 DEF more
<1> QED BY <1>3, <1>4

\* Available holds the available candidates, each once, in the caller's order.
LEMMA AvailableKeeps ==
  ASSUME NEW X, NEW specs \in Seq(X), NEW health
  PROVE  /\ Policy!Available(specs, health) \in Seq(X)
         /\ \E src : Keeps(src, Policy!Available(specs, health), specs, health, Len(specs))
<1> DEFINE n == Len(specs)
           step(s, k) == IF health[specs[k].name].available THEN Append(s, specs[k]) ELSE s
           h == [k \in 1..n |-> [s \in Seq(X) |-> step(s, k)]]
           Run(f) == f = [k \in 0..n |-> IF k = 0 THEN <<>> ELSE step(f[k - 1], k)]
           Fine(s, k) == s \in Seq(X) /\ \E src : Keeps(src, s, specs, health, k)
<1>0. n \in Nat
  OBVIOUS
<1>1. Fine(<<>>, 0)
  <2>1. <<>> \in Seq(X) /\ Len(<<>>) = 0
    OBVIOUS
  <2>2. Keeps(<<>>, <<>>, specs, health, 0)
    BY <2>1 DEF Keeps
  <2> QED BY <2>1, <2>2
<1>2. ASSUME NEW k \in 0..(n - 1), NEW s, Fine(s, k) PROVE Fine(step(s, k + 1), k + 1)
  BY <1>2, KeepingOneMore
<1>3. \A k \in 1..n, s \in Seq(X) : h[k][s] = step(s, k)
  OBVIOUS
<1> HIDE DEF n, h, step
<1>4. \E f : Run(f)
  <2>1. PICK f : IsRecursion(f, n, <<>>, h)
    BY <1>0, RecursionExists
  <2>2. \A k \in 0..n : f[k] = IF k = 0 THEN <<>> ELSE h[k][f[k - 1]]
    BY <2>1 DEF IsRecursion
  <2> DEFINE P == {k \in 0..n : Fine(f[k], k) /\ (k > 0 => f[k] = step(f[k - 1], k))}
  <2>3. 0 \in P
    <3>1. f[0] = <<>> /\ 0 \in 0..n
      BY <1>0, <2>2
    <3> HIDE DEF Fine
    <3> QED BY <1>1, <3>1
  <2>4. ASSUME NEW k \in 0..(n - 1), k \in P PROVE k + 1 \in P
    <3>1. k + 1 \in 1..n /\ k + 1 # 0 /\ (k + 1) - 1 = k /\ k + 1 \in 0..n
      BY <1>0
    <3>2. f[k + 1] = h[k + 1][f[k]]
      BY <2>2, <3>1
    <3>3. f[k] \in Seq(X) /\ Fine(f[k], k)
      BY <2>4
    <3>4. f[k + 1] = step(f[k], k + 1)
      BY <1>3, <3>1, <3>2, <3>3
    <3> HIDE DEF Fine
    <3> QED BY <1>2, <3>1, <3>3, <3>4
  <2> HIDE DEF P
  <2>5. \A k \in 0..n : k \in P
    BY <1>0, <2>3, <2>4, CountingUp
  <2>6. \A k \in 0..n : f[k] = IF k = 0 THEN <<>> ELSE step(f[k - 1], k)
    <3> HIDE DEF Fine
    <3>1. \A k \in 0..n : k > 0 => f[k] = step(f[k - 1], k)
      BY <2>5 DEF P
    <3>2. f[0] = <<>>
      BY <1>0, <2>2
    <3> QED BY <3>1, <3>2
  <2>7. f = [k \in 0..n |-> f[k]]
    BY <2>1 DEF IsRecursion
  <2>8. Run(f)
    <3> DEFINE v(k) == f[k]
               w(k) == IF k = 0 THEN <<>> ELSE step(f[k - 1], k)
    <3>1. \A k \in 0..n : v(k) = w(k)
      BY <2>6
    <3>2. [k \in 0..n |-> v(k)] = [k \in 0..n |-> w(k)]
      <4> HIDE DEF v, w
      <4> QED BY <3>1
    <3> QED BY <2>7, <3>2
  <2> HIDE DEF Run
  <2> QED BY <2>8
<1> DEFINE kept == CHOOSE f : Run(f)
<1>5. Run(kept)
  <2> HIDE DEF Run
  <2> QED BY <1>4
<1>6. Policy!Available(specs, health) = kept[n]
  BY Zenon DEF Policy!Available, n, step
<1> HIDE DEF kept
<1>7. \A k \in 0..n : Fine(kept[k], k)
  <2>1. kept[0] = <<>> /\ \A k \in 1..n : kept[k] = step(kept[k - 1], k)
    BY <1>0, <1>5
  <2> HIDE DEF Run
  <2> DEFINE P == {k \in 0..n : Fine(kept[k], k)}
  <2>2. 0 \in P
    <3>1. 0 \in 0..n
      BY <1>0
    <3> HIDE DEF Fine
    <3> QED BY <1>1, <2>1, <3>1
  <2>3. ASSUME NEW k \in 0..(n - 1), k \in P PROVE k + 1 \in P
    <3>1. k + 1 \in 1..n /\ (k + 1) - 1 = k /\ k + 1 \in 0..n
      BY <1>0
    <3> HIDE DEF Fine
    <3>2. Fine(kept[k], k)
      BY <2>3
    <3> QED BY <1>2, <2>1, <3>1, <3>2
  <2> HIDE DEF P
  <2>4. \A k \in 0..n : k \in P
    BY <1>0, <2>2, <2>3, CountingUp
  <2> QED BY <2>4 DEF P
<1> QED BY <1>0, <1>6, <1>7 DEF n

-----------------------------------------------------------------------------
\* The orders of the strategies, as rearrangements.

\* A sorted list is ranked by its keys.
LEMMA SortedIsRanked ==
  ASSUME NEW X, NEW live \in Seq(X), NEW keys \in [1..Len(live) -> Int]
  PROVE  \E p : Ranked(p, Policy!StableSort(live, keys), live, Len(live), keys)
<1> DEFINE n == Len(live)
<1>1. n \in Nat /\ DOMAIN live = 1..n /\ keys \in [1..n -> Int]
  OBVIOUS
<1> HIDE DEF n
<1>2. \E p : Ranked(p, Policy!StableSort(live, keys), live, n, keys)
  BY <1>1, StableSortSorts
<1> QED BY <1>2 DEF n

\* A list left alone is ranked by keys that are all the same.
LEMMA UnsortedIsRanked ==
  ASSUME NEW X, NEW live \in Seq(X)
  PROVE  \E p : Ranked(p, live, live, Len(live), [i \in 1..Len(live) |-> 0])
<1> DEFINE n == Len(live)
           keys == [i \in 1..n |-> 0]
           p == [i \in 1..n |-> i]
<1>1. n \in Nat /\ live = [r \in 1..n |-> live[r]]
  OBVIOUS
<1>2. p \in [1..n -> 1..n] /\ \A r \in 1..n : p[r] = r
  OBVIOUS
<1>3. \A r \in 1..n : keys[r] = 0
  OBVIOUS
<1> HIDE DEF n, p, keys
<1>4. live = [r \in 1..n |-> live[p[r]]]
  <2> DEFINE v(r) == live[r]
             w(r) == live[p[r]]
  <2>1. \A r \in 1..n : v(r) = w(r)
    BY <1>2
  <2>2. [r \in 1..n |-> v(r)] = [r \in 1..n |-> w(r)]
    <3> HIDE DEF v, w
    <3> QED BY <2>1
  <2> QED BY <1>1, <2>2
<1>5. Ranked(p, live, live, n, keys)
  BY <1>2, <1>3, <1>4 DEF Ranked, Rearranges, Policy!Before
<1> QED BY <1>5 DEF n, keys

\* A weighted order is a rearrangement of the available candidates.
LEMMA WeightedRearranges ==
  ASSUME NEW X, NEW live \in Seq(X), NEW weights \in Seq(Nat), Len(weights) = Len(live), NEW picks
  PROVE  \E p : Rearranges(p, Policy!weighted_order(live, weights, picks), live, Len(live))
<1> DEFINE out == Policy!weighted_order(live, weights, picks)
           n == Len(live)
<1>1. out \in Seq(X) /\ Len(out) = n /\ \E p : Rearranged(p, live, n, n, out, <<>>)
  BY WeightedOrderRearranges
<1>2. PICK p : Rearranged(p, live, n, n, out, <<>>)
  BY <1>1
<1> HIDE DEF out
<1>3. p \in [1..n -> 1..n] /\ (\A i, j \in 1..n : p[i] = p[j] => i = j) /\ \A j \in 1..n : out[j] = live[p[j]]
  BY <1>2 DEF Rearranged
<1>4. out = [r \in 1..n |-> out[r]]
  BY <1>1
<1>5. out = [r \in 1..n |-> live[p[r]]]
  <2> DEFINE v(r) == out[r]
             w(r) == live[p[r]]
  <2>1. \A r \in 1..n : v(r) = w(r)
    BY <1>3
  <2>2. [r \in 1..n |-> v(r)] = [r \in 1..n |-> w(r)]
    <3> HIDE DEF v, w
    <3> QED BY <2>1
  <2> QED BY <1>4, <2>2
<1>6. Rearranges(p, out, live, n)
  BY <1>3, <1>5 DEF Rearranges
<1> QED BY <1>6 DEF out

\* There are as many as are available.
LEMMA KeepsAll ==
  ASSUME NEW X, NEW live \in Seq(X), NEW specs \in Seq(X), NEW health, NEW src,
         Keeps(src, live, specs, health, Len(specs))
  PROVE  Cardinality({i \in DOMAIN specs : health[specs[i].name].available}) = Len(live)
<1> DEFINE up == {i \in 1..Len(specs) : health[specs[i].name].available}
           n == Len(live)
<1>1. n \in Nat /\ DOMAIN specs = 1..Len(specs) /\ up \subseteq Int
  OBVIOUS
<1>2. /\ src \in [1..n -> up] /\ \A r, t \in 1..n : r < t => src[r] < src[t]
      /\ \A i \in up : \E r \in 1..n : src[r] = i
  BY DEF Keeps
<1> HIDE DEF up
<1>3. src \in Surjection(1..n, up)
  BY <1>2 DEF Surjection
<1>4. \A r, t \in 1..n : src[r] = src[t] => r = t
  <2> SUFFICES ASSUME NEW r \in 1..n, NEW t \in 1..n, src[r] = src[t] PROVE r = t
    OBVIOUS
  <2>1. src[r] \in Int
    BY <1>1, <1>2
  <2>2. ~(r < t) /\ ~(t < r)
    BY <1>2, <2>1
  <2> QED BY <2>2
<1>5. src \in Injection(1..n, up)
  BY <1>2, <1>4 DEF Injection, IsInjective
<1>6. Cardinality(up) = Cardinality(1..n)
  BY <1>3, <1>5, <1>1, FS_Surjection, FS_Interval
<1>7. Cardinality(up) = n
  <2>1. Cardinality(1..n) = IF 1 > n THEN 0 ELSE n - 1 + 1
    <3>1. 1 \in Int /\ n \in Int
      BY <1>1
    <3> HIDE DEF n
    <3> QED BY <3>1, FS_Interval
  <2> QED BY <1>1, <1>6, <2>1
<1> QED BY <1>1, <1>7 DEF up

\* Where the candidates of a rearrangement of live were in the caller's list.
Placed(place, specs, up, src, live, p, out, n) ==
    /\ place \in [1..n -> up] /\ \A i, j \in 1..n : place[i] = place[j] => i = j
    /\ out = [r \in 1..n |-> specs[place[r]]]
    /\ \A r \in 1..n : out[r] = live[p[r]] /\ place[r] = src[p[r]]
\* A rearrangement of the available candidates is one of places of the caller's list.
LEMMA PlacesOfTheCaller ==
  ASSUME NEW specs, NEW health, NEW k \in Nat, NEW live, NEW n \in Nat, Len(live) = n, NEW src,
         Keeps(src, live, specs, health, k), NEW p, NEW out, Rearranges(p, out, live, n),
         NEW up, up = {i \in 1..k : health[specs[i].name].available}
  PROVE  \E place : Placed(place, specs, up, src, live, p, out, n)
<1> DEFINE place == [r \in 1..n |-> src[p[r]]]
<1>0. up \subseteq Int
  OBVIOUS
<1>1. /\ src \in [1..n -> up] /\ \A r \in 1..n : live[r] = specs[src[r]]
      /\ \A r, t \in 1..n : r < t => src[r] < src[t]
  BY DEF Keeps
<1>2. /\ p \in [1..n -> 1..n] /\ \A i, j \in 1..n : p[i] = p[j] => i = j
      /\ out = [r \in 1..n |-> live[p[r]]]
  BY DEF Rearranges
<1>3. place \in [1..n -> up] /\ \A r \in 1..n : place[r] = src[p[r]]
  BY <1>1, <1>2
<1> HIDE DEF place
<1>4. \A i, j \in 1..n : place[i] = place[j] => i = j
  <2> SUFFICES ASSUME NEW i \in 1..n, NEW j \in 1..n, place[i] = place[j] PROVE i = j
    OBVIOUS
  <2>1. p[i] \in 1..n /\ p[j] \in 1..n /\ src[p[i]] = src[p[j]] /\ src[p[i]] \in Int
    BY <1>0, <1>1, <1>2, <1>3
  <2>2. ~(p[i] < p[j]) /\ ~(p[j] < p[i])
    BY <1>1, <2>1
  <2>3. p[i] = p[j]
    BY <2>1, <2>2
  <2> QED BY <1>2, <2>3
<1>5. \A r \in 1..n : out[r] = live[p[r]] /\ live[p[r]] = specs[place[r]]
  BY <1>1, <1>2, <1>3
<1>6. out = [r \in 1..n |-> specs[place[r]]]
  <2> DEFINE v(r) == live[p[r]]
             w(r) == specs[place[r]]
  <2>1. \A r \in 1..n : v(r) = w(r)
    BY <1>5
  <2>2. [r \in 1..n |-> v(r)] = [r \in 1..n |-> w(r)]
    <3> HIDE DEF v, w
    <3> QED BY <2>1
  <2> QED BY <1>2, <2>2
<1>7. Placed(place, specs, up, src, live, p, out, n)
  BY <1>3, <1>4, <1>5, <1>6 DEF Placed
<1> QED BY <1>7

-----------------------------------------------------------------------------
\* Rotation

\* Among n numbers in a row one leaves each remainder.
LEMMA EveryRemainder ==
  ASSUME NEW n \in Nat \ {0}, NEW j \in 0..(n - 1)
  PROVE  \E k \in 5..(4 + n) : k % n = j
<1> DEFINE s == 5 % n
           d == 5 \div n
<1>1. s \in 0..(n - 1) /\ d \in Nat /\ 5 = n * d + s
  OBVIOUS
<1>2. \A e \in Nat : (n * e + j) % n = j
  <2> SUFFICES ASSUME NEW e \in Nat PROVE (n * e + j) % n = j
    OBVIOUS
  <2> DEFINE x == n * e + j
             y == x % n
             f == x \div n
  <2>1. x \in Nat
    OBVIOUS
  <2> HIDE DEF x
  <2>2. x = n * f + y /\ y \in 0..(n - 1) /\ f \in Int
    BY <2>1
  <2> HIDE DEF y, f
  <2>3. n * (e - f) = y - j
    BY <2>2 DEF x
  <2>4. CASE e - f >= 1
    <3>1. n * (e - f) >= n
      BY <2>2, <2>4
    <3> QED BY <2>2, <2>3, <3>1
  <2>5. CASE e - f <= -1
    <3>1. n * (e - f) <= -n
      BY <2>2, <2>5
    <3> QED BY <2>2, <2>3, <3>1
  <2>6. CASE e = f
    BY <2>2, <2>6 DEF x, y
  <2> QED BY <2>2, <2>4, <2>5, <2>6 DEF x, y
<1> HIDE DEF s, d
<1>3. CASE s <= j
  <2>1. n * d + j = 5 + (j - s) /\ 5 + (j - s) \in 5..(4 + n)
    BY <1>1, <1>3
  <2>2. (5 + (j - s)) % n = j
    BY <1>1, <1>2, <2>1
  <2> QED BY <2>1, <2>2
<1>4. CASE s > j
  <2>1. n * (d + 1) + j = 5 + n + j - s /\ 5 + n + j - s \in 5..(4 + n) /\ d + 1 \in Nat
    BY <1>1, <1>4
  <2>2. (5 + n + j - s) % n = j
    BY <1>2, <2>1
  <2> QED BY <2>1, <2>2
<1> QED BY <1>1, <1>3, <1>4

\* The cursor picks the leader, and at 0 the order is the caller's.
LEMMA RotationLeads ==
  ASSUME NEW X, NEW live \in Seq(X), NEW cursor \in Nat
  PROVE  /\ Len(live) > 0 => Policy!round_robin_order(live, cursor)[1] = live[(cursor % Len(live)) + 1]
         /\ cursor = 0 => Policy!round_robin_order(live, cursor) = live
<1> DEFINE n == Len(live)
           start == cursor % n
<1>1. n \in Nat
  OBVIOUS
<1>2. CASE n = 0
  BY <1>2 DEF Policy!round_robin_order
<1>3. CASE n = 1
  <2>1. cursor % 1 = 0
    OBVIOUS
  <2> QED BY <1>3, <2>1 DEF Policy!round_robin_order
<1>4. CASE n > 1
  <2>1. start \in 0..(n - 1) /\ (cursor = 0 => start = 0)
    BY <1>1, <1>4
  <2> DEFINE a == SubSeq(live, start + 1, n)
             b == SubSeq(live, 1, start)
  <2>2. Policy!round_robin_order(live, cursor) = a \o b
    BY <1>4 DEF Policy!round_robin_order
  <2> HIDE DEF start, n
  <2>3. a \in Seq(X) /\ Len(a) = n - start /\ a[1] = live[start + 1]
    BY <1>1, <1>4, <2>1 DEF n
  <2>4. b \in Seq(X) /\ Len(b) = start
    BY <1>1, <1>4, <2>1 DEF n
  <2>5. start = 0 => a = live /\ b = <<>>
    BY <1>1, <1>4 DEF n
  <2> HIDE DEF a, b
  <2>6. (a \o b)[1] = a[1]
    BY <1>1, <1>4, <2>1, <2>3, <2>4
  <2>7. start = 0 => a \o b = live
    BY <2>3, <2>5
  <2> QED BY <1>4, <2>1, <2>2, <2>3, <2>6, <2>7 DEF n, start
<1>5. n = 0 \/ n = 1 \/ n > 1
  <2> HIDE DEF n
  <2> QED BY <1>1
<1> QED BY <1>2, <1>3, <1>4, <1>5, Zenon

-----------------------------------------------------------------------------
\* Candidate orders.

\* Candidates, settings and a health view that can be met: see OrdersAssumption.
Orderable(config, specs, health) ==
    /\ \A n \in DOMAIN config : config[n].weight \in Nat \ {0} /\ config[n].cost \in Nat
    /\ specs \in Seq(Policy!ToSet(specs))
    /\ \A i \in DOMAIN specs :
         /\ {specs[i].weight, specs[i].cost} \subseteq Nat \cup {Policy!NoValue}
         /\ health[specs[i].name].in_flight \in Nat
         /\ health[specs[i].name].latency \in Nat \cup {Policy!NoValue}

\* A candidate's cost and weight are numbers, and no weight is 0 (strategy.rs, effective weight).
LEMMA SettingsAreNumbers ==
  ASSUME NEW config, NEW specs, NEW health, Orderable(config, specs, health), NEW i \in DOMAIN specs
  PROVE  LET c == specs[i]
         IN  /\ Policy!CostOf(config, c) \in Nat
             /\ Policy!WeightOf(config, c) \in Nat \ {0}
             /\ Policy!WeightOf(config, c) = IF c.weight = Policy!NoValue THEN Policy!Get(config, c.name).weight
                                             ELSE IF c.weight = 0 THEN 1 ELSE c.weight
<1> DEFINE c == specs[i]
           own == Policy!Get(config, c.name)
<1>1. own.weight \in Nat \ {0} /\ own.cost \in Nat
  BY DEF Orderable, Policy!Get
<1>2. c.weight \in Nat \cup {-1} /\ c.cost \in Nat \cup {-1}
  BY DEF Orderable, Policy!NoValue
<1> HIDE DEF own, c
<1>3. Policy!CostOf(config, c) = IF c.cost # -1 THEN c.cost ELSE own.cost
  BY DEF Policy!CostOf, Policy!NoValue, own
<1>4. Policy!WeightOf(config, c) = LET w == IF c.weight # -1 THEN c.weight ELSE own.weight IN IF w < 1 THEN 1 ELSE w
  BY DEF Policy!WeightOf, Policy!NoValue, own
<1>5. Policy!CostOf(config, c) \in Nat
  BY <1>1, <1>2, <1>3
<1>6. /\ Policy!WeightOf(config, c) \in Nat \ {0}
      /\ Policy!WeightOf(config, c) = IF c.weight = -1 THEN own.weight ELSE IF c.weight = 0 THEN 1 ELSE c.weight
  BY <1>1, <1>2, <1>4
<1> QED BY <1>5, <1>6 DEF c, own, Policy!NoValue

\* What the order is sorted by, as OrderIsFair reads it.
KeyOf(config, strategy, health, c) ==
    CASE strategy = "cost" -> Policy!CostOf(config, c)
      [] strategy = "least_busy" -> health[c.name].in_flight
      [] strategy = "latency" -> IF health[c.name].latency = Policy!NoValue THEN -1 ELSE health[c.name].latency
      [] OTHER -> 0
KeyBefore(config, strategy, health, live, i, j) ==
    \/ KeyOf(config, strategy, health, live[i]) < KeyOf(config, strategy, health, live[j])
    \/ KeyOf(config, strategy, health, live[i]) = KeyOf(config, strategy, health, live[j]) /\ i < j

\* Every strategy rearranges the available candidates; all but the draw sort them.
LEMMA OrdersRearrange ==
  ASSUME NEW config, NEW specs, NEW health, Orderable(config, specs, health), NEW strategy \in Policy!Strategy,
         NEW picks, NEW live, live = Policy!Available(specs, health), live \in Seq(Policy!ToSet(specs)), NEW n, n = Len(live)
  PROVE  \E p : /\ Rearranges(p, Policy!order_candidates_with_specs(config, specs, strategy, health, 0, picks), live, n)
                /\ strategy # "weighted" =>
                     \A i, j \in 1..n : i < j => KeyBefore(config, strategy, health, live, p[i], p[j])
<1> DEFINE X == Policy!ToSet(specs)
           out == Policy!order_candidates_with_specs(config, specs, strategy, health, 0, picks)
           SortKey(i) == KeyOf(config, strategy, health, live[i])
           Lat(c) == IF health[c.name].latency = Policy!NoValue THEN 0 ELSE health[c.name].latency + 1
<1>0. n \in Nat /\ DOMAIN live = 1..n
  OBVIOUS
<1>1. ASSUME NEW i \in 1..n PROVE /\ Policy!CostOf(config, live[i]) \in Nat
                                  /\ Policy!WeightOf(config, live[i]) \in Nat
                                  /\ health[live[i].name].in_flight \in Nat
                                  /\ health[live[i].name].latency \in Nat \cup {-1}
  <2>1. live[i] \in X
    BY <1>0
  <2>2. PICK j \in DOMAIN specs : live[i] = specs[j]
    BY <2>1 DEF Policy!ToSet
  <2>3. health[specs[j].name].in_flight \in Nat /\ health[specs[j].name].latency \in Nat \cup {-1}
    BY DEF Orderable, Policy!NoValue
  <2> QED BY <2>2, <2>3, SettingsAreNumbers
<1>2. \A i \in 1..n : Lat(live[i]) \in Nat /\ Lat(live[i]) = (IF health[live[i].name].latency = -1 THEN -1 ELSE health[live[i].name].latency) + 1
  BY <1>1 DEF Policy!NoValue
<1> HIDE DEF Lat
<1>3. ASSUME NEW keys \in [1..n -> Int], NEW p, Ranked(p, out, live, n, keys),
             \A i, j \in 1..n : Policy!Before(keys, i, j) => KeyBefore(config, strategy, health, live, i, j)
      PROVE  /\ Rearranges(p, out, live, n)
             /\ \A i, j \in 1..n : i < j => KeyBefore(config, strategy, health, live, p[i], p[j])
  <2>1. Rearranges(p, out, live, n) /\ p \in [1..n -> 1..n]
    BY <1>3 DEF Ranked, Rearranges
  <2>2. ASSUME NEW i \in 1..n, NEW j \in 1..n, i < j PROVE KeyBefore(config, strategy, health, live, p[i], p[j])
    <3>1. Policy!Before(keys, p[i], p[j])
      BY <1>3, <2>2 DEF Ranked
    <3>2. p[i] \in 1..n /\ p[j] \in 1..n
      BY <2>1
    <3> QED BY <1>3, <3>1, <3>2
  <2> QED BY <2>1, <2>2
<1>4. CASE strategy \in {"priority", "round_robin"}
  <2>1. out = live
    <3>1. CASE strategy = "priority"
      BY <3>1 DEF Policy!order_candidates_with_specs
    <3>2. CASE strategy = "round_robin"
      <4>1. out = Policy!round_robin_order(live, 0)
        BY <3>2 DEF Policy!order_candidates_with_specs
      <4> QED BY <4>1, RotationLeads
    <3> QED BY <1>4, <3>1, <3>2
  <2> DEFINE keys == [i \in 1..n |-> 0]
  <2>2. PICK p : Ranked(p, live, live, n, keys)
    BY UnsortedIsRanked
  <2>3. keys \in [1..n -> Int] /\ \A i \in 1..n : keys[i] = 0
    OBVIOUS
  <2>4. \A i \in 1..n : SortKey(i) = 0
    BY <1>4 DEF KeyOf
  <2> HIDE DEF keys
  <2>5. \A i, j \in 1..n : Policy!Before(keys, i, j) => KeyBefore(config, strategy, health, live, i, j)
    BY <2>3, <2>4 DEF Policy!Before, KeyBefore
  <2> QED BY <1>3, <2>1, <2>2, <2>3, <2>5
<1>5. CASE strategy = "cost"
  <2> DEFINE keys == [i \in DOMAIN live |-> Policy!CostOf(config, live[i])]
  <2>1. out = Policy!StableSort(live, keys)
    BY <1>5 DEF Policy!order_candidates_with_specs
  <2>2. keys \in [1..n -> Int] /\ \A i \in 1..n : keys[i] = SortKey(i)
    BY <1>0, <1>1, <1>5 DEF KeyOf
  <2> HIDE DEF keys
  <2>3. PICK p : Ranked(p, out, live, n, keys)
    BY <2>1, <2>2, SortedIsRanked
  <2>4. \A i, j \in 1..n : Policy!Before(keys, i, j) => KeyBefore(config, strategy, health, live, i, j)
    BY <2>2 DEF Policy!Before, KeyBefore
  <2> QED BY <1>3, <2>2, <2>3, <2>4
<1>6. CASE strategy = "least_busy"
  <2> DEFINE keys == [i \in DOMAIN live |-> health[live[i].name].in_flight]
  <2>1. out = Policy!StableSort(live, keys)
    BY <1>6 DEF Policy!order_candidates_with_specs
  <2>2. keys \in [1..n -> Int] /\ \A i \in 1..n : keys[i] = SortKey(i)
    BY <1>0, <1>1, <1>6 DEF KeyOf
  <2> HIDE DEF keys
  <2>3. PICK p : Ranked(p, out, live, n, keys)
    BY <2>1, <2>2, SortedIsRanked
  <2>4. \A i, j \in 1..n : Policy!Before(keys, i, j) => KeyBefore(config, strategy, health, live, i, j)
    BY <2>2 DEF Policy!Before, KeyBefore
  <2> QED BY <1>3, <2>2, <2>3, <2>4
<1>7. CASE strategy = "latency"
  <2> DEFINE keys == [i \in DOMAIN live |-> Lat(live[i])]
  <2>1. out = Policy!StableSort(live, keys)
    BY <1>7 DEF Policy!order_candidates_with_specs, Lat
  <2>2. keys \in [1..n -> Int] /\ \A i \in 1..n : keys[i] = SortKey(i) + 1 /\ SortKey(i) \in Int
    <3>1. \A i \in 1..n : SortKey(i) = IF health[live[i].name].latency = -1 THEN -1 ELSE health[live[i].name].latency
      BY <1>7 DEF KeyOf, Policy!NoValue
    <3>2. \A i \in 1..n : SortKey(i) \in Int
      BY <1>1, <3>1
    <3>3. DOMAIN keys = 1..n /\ \A i \in 1..n : keys[i] = Lat(live[i])
      BY <1>0
    <3>4. keys = [i \in 1..n |-> keys[i]]
      BY <1>0
    <3> HIDE DEF keys, SortKey
    <3>5. \A i \in 1..n : keys[i] = SortKey(i) + 1 /\ keys[i] \in Int
      BY <1>2, <3>1, <3>2, <3>3
    <3> QED BY <3>2, <3>4, <3>5
  <2> HIDE DEF keys
  <2>3. PICK p : Ranked(p, out, live, n, keys)
    BY <2>1, <2>2, SortedIsRanked
  <2>4. \A i, j \in 1..n : Policy!Before(keys, i, j) => KeyBefore(config, strategy, health, live, i, j)
    BY <2>2 DEF Policy!Before, KeyBefore
  <2> QED BY <1>3, <2>2, <2>3, <2>4
<1>8. CASE strategy = "weighted"
  <2> DEFINE weights == [i \in DOMAIN live |-> Policy!WeightOf(config, live[i])]
  <2>1. out = Policy!weighted_order(live, weights, picks)
    BY <1>8 DEF Policy!order_candidates_with_specs
  <2>2. weights \in [1..n -> Nat]
    BY <1>0, <1>1
  <2> HIDE DEF weights
  <2>3. weights \in Seq(Nat) /\ Len(weights) = Len(live)
    BY <1>0, <2>2, ListsAreSequences
  <2>4. \E p : Rearranges(p, out, live, n)
    BY <2>1, <2>3, WeightedRearranges
  <2> QED BY <1>8, <2>4
<1> HIDE DEF out
<1> QED BY <1>4, <1>5, <1>6, <1>7, <1>8 DEF Policy!Strategy

\* The remainder of a number below the divisor.
LEMMA SmallRemainder ==
  ASSUME NEW m \in Nat \ {0}, NEW r \in 0..(m - 1)
  PROVE  r % m = r
<1> DEFINE f == r \div m
           y == r % m
<1>1. r = m * f + y /\ y \in 0..(m - 1) /\ f \in Int
  OBVIOUS
<1> HIDE DEF f, y
<1>2. CASE f >= 1
  <2>1. m * f >= m
    BY <1>1, <1>2
  <2> QED BY <1>1, <2>1
<1>3. CASE f <= -1
  <2>1. m * f <= -m
    BY <1>1, <1>3
  <2> QED BY <1>1, <2>1
<1>4. CASE f = 0
  BY <1>1, <1>4 DEF y
<1> QED BY <1>1, <1>2, <1>3, <1>4

\* Every order is fair, whatever the candidates, the settings and the health they are seen in.
LEMMA OrderIsFairAlways ==
  ASSUME NEW config, NEW specs, NEW health, Orderable(config, specs, health), NEW strategy \in Policy!Strategy,
         NEW picks \in Seq(Nat), picks # <<>>
  PROVE  Policy!OrderIsFair(config, specs, strategy, health, picks)
<1> DEFINE X == Policy!ToSet(specs)
           Order(cursor, ps) == Policy!order_candidates_with_specs(config, specs, strategy, health, cursor, ps)
           up == {i \in DOMAIN specs : health[specs[i].name].available}
           n == Policy!Cardinality(up)
           out == Order(0, picks)
           SortKey(c) == KeyOf(config, strategy, health, c)
           live == Policy!Available(specs, health)
           ws == [i \in DOMAIN live |-> Policy!WeightOf(config, live[i])]
           total == Policy!SumTo(ws, Len(live))
           Leads(c) == Policy!Cardinality({r \in 0..(total - 1) : Order(0, <<r>> \o Tail(picks))[1] = c})
           First == \E place \in [1..n -> up] :
             /\ Policy!IsInjective(place) /\ out = [r \in 1..n |-> specs[place[r]]]
             /\ strategy # "weighted" =>
                  \A i, j \in 1..n : i < j =>
                     \/ SortKey(out[i]) < SortKey(out[j])
                     \/ SortKey(out[i]) = SortKey(out[j]) /\ place[i] < place[j]
           Second == strategy = "round_robin" /\ n > 0 =>
             {Order(k, picks)[1] : k \in 5..(4 + n)} = {specs[i] : i \in up}
           Third == strategy = "weighted" =>
             \A i \in up : (\A j \in up : specs[j] = specs[i] => j = i) =>
                 LET w == specs[i].weight
                 IN  Leads(specs[i]) = (IF w = Policy!NoValue THEN Policy!Get(config, specs[i].name).weight
                                        ELSE IF w = 0 THEN 1 ELSE w)
<1>1. specs \in Seq(X) /\ DOMAIN specs = 1..Len(specs) /\ Len(specs) \in Nat
  BY DEF Orderable
<1>2. live \in Seq(X) /\ \E src : Keeps(src, live, specs, health, Len(specs))
  BY <1>1, AvailableKeeps
<1>3. PICK src : Keeps(src, live, specs, health, Len(specs))
  BY <1>2
<1>4. n = Len(live) /\ n \in Nat /\ DOMAIN live = 1..n
  <2> HIDE DEF live
  <2>1. Cardinality({i \in DOMAIN specs : health[specs[i].name].available}) = Len(live)
    BY <1>1, <1>2, <1>3, KeepsAll
  <2>2. n = Len(live)
    BY <2>1, SameCount
  <2> QED BY <1>2, <2>2
<1>5. up = {i \in 1..Len(specs) : health[specs[i].name].available}
  BY <1>1
<1>6. /\ src \in [1..n -> up] /\ \A r \in 1..n : live[r] = specs[src[r]]
      /\ \A r, t \in 1..n : r < t => src[r] < src[t]
      /\ \A i \in up : \E r \in 1..n : src[r] = i
  BY <1>3, <1>4, <1>5 DEF Keeps
<1> HIDE DEF live, n, up
<1>7. First
  <2>1. PICK p : /\ Rearranges(p, out, live, n)
                 /\ strategy # "weighted" =>
                      \A i, j \in 1..n : i < j => KeyBefore(config, strategy, health, live, p[i], p[j])
    BY <1>2, <1>4, OrdersRearrange DEF live
  <2> HIDE DEF out, SortKey
  <2>2. PICK place \in [1..n -> up] :
           /\ \A i, j \in 1..n : place[i] = place[j] => i = j
           /\ out = [r \in 1..n |-> specs[place[r]]]
           /\ \A r \in 1..n : out[r] = live[p[r]] /\ place[r] = src[p[r]]
    <3>1. Rearranges(p, out, live, n)
      BY <2>1
    <3>2. \E place : Placed(place, specs, up, src, live, p, out, n)
      BY <1>1, <1>3, <1>4, <1>5, <3>1, PlacesOfTheCaller
    <3> QED BY <3>2 DEF Placed
  <2>3. Policy!IsInjective(place)
    BY <2>2 DEF Policy!IsInjective
  <2>4. ASSUME strategy # "weighted", NEW i \in 1..n, NEW j \in 1..n, i < j
        PROVE  \/ SortKey(out[i]) < SortKey(out[j])
               \/ SortKey(out[i]) = SortKey(out[j]) /\ place[i] < place[j]
    <3>1. KeyBefore(config, strategy, health, live, p[i], p[j])
      BY <2>1, <2>4
    <3>2. p[i] \in 1..n /\ p[j] \in 1..n
      BY <2>1 DEF Rearranges
    <3>3. p[i] < p[j] => place[i] < place[j]
      BY <1>6, <2>2, <3>2
    <3>4. \/ SortKey(live[p[i]]) < SortKey(live[p[j]])
          \/ SortKey(live[p[i]]) = SortKey(live[p[j]]) /\ p[i] < p[j]
      BY <3>1 DEF KeyBefore, SortKey
    <3>5. out[i] = live[p[i]] /\ out[j] = live[p[j]]
      BY <2>2
    <3> QED BY <3>3, <3>4, <3>5
  <2> QED BY <2>2, <2>3, <2>4
<1>8. Second
  <2> SUFFICES ASSUME strategy = "round_robin", n > 0
               PROVE  {Order(k, picks)[1] : k \in 5..(4 + n)} = {specs[i] : i \in up}
    OBVIOUS
  <2>1. ASSUME NEW k \in Nat PROVE Order(k, picks)[1] = live[(k % n) + 1]
    <3>1. Order(k, picks) = Policy!round_robin_order(live, k)
      BY DEF Policy!order_candidates_with_specs, live
    <3> HIDE DEF Order
    <3> QED BY <1>2, <1>4, <3>1, RotationLeads
  <2> HIDE DEF Order
  <2>2. ASSUME NEW k \in 5..(4 + n) PROVE \E i \in up : Order(k, picks)[1] = specs[i]
    <3>1. k \in Nat /\ (k % n) + 1 \in 1..n
      BY <1>4
    <3>2. Order(k, picks)[1] = specs[src[(k % n) + 1]] /\ src[(k % n) + 1] \in up
      BY <1>6, <2>1, <3>1
    <3> QED BY <3>2
  <2>3. ASSUME NEW i \in up PROVE \E k \in 5..(4 + n) : Order(k, picks)[1] = specs[i]
    <3>1. PICK r \in 1..n : src[r] = i
      BY <1>6
    <3>2. n \in Nat \ {0} /\ r - 1 \in 0..(n - 1)
      BY <1>4
    <3>3. PICK k \in 5..(4 + n) : k % n = r - 1
      BY <3>2, EveryRemainder
    <3>4. k \in Nat /\ (k % n) + 1 = r
      BY <1>4, <3>3
    <3>5. Order(k, picks)[1] = live[r]
      BY <2>1, <3>4
    <3>6. live[r] = specs[i]
      BY <1>6, <3>1
    <3> QED BY <3>5, <3>6
  <2> DEFINE Leaders == {Order(k, picks)[1] : k \in 5..(4 + n)}
             All == {specs[i] : i \in up}
  <2>4. \A x \in Leaders : x \in All
    BY <2>2
  <2>5. \A x \in All : x \in Leaders
    BY <2>3
  <2> HIDE DEF Leaders, All
  <2>6. Leaders = All
    BY <2>4, <2>5
  <2> QED BY <2>6 DEF Leaders, All
<1>9. Third
  <2> SUFFICES ASSUME strategy = "weighted", NEW i \in up, \A j \in up : specs[j] = specs[i] => j = i
               PROVE  Leads(specs[i]) = Policy!WeightOf(config, specs[i])
    <3>1. \A i \in up : Policy!WeightOf(config, specs[i]) =
             IF specs[i].weight = Policy!NoValue THEN Policy!Get(config, specs[i].name).weight
             ELSE IF specs[i].weight = 0 THEN 1 ELSE specs[i].weight
      BY SettingsAreNumbers DEF up
    <3> HIDE DEF Leads
    <3> QED BY <3>1
  <2>1. PICK e \in 1..n : src[e] = i
    BY <1>6
  <2>2. ASSUME NEW r \in 1..n PROVE live[r] = specs[i] <=> r = e
    <3>1. live[r] = specs[src[r]] /\ src[r] \in up /\ src[e] = i /\ src[r] \in Int
      BY <1>1, <1>5, <1>6, <2>1
    <3>2. ASSUME live[r] = specs[i] PROVE r = e
      <4>1. src[r] = src[e]
        BY <3>1, <3>2
      <4>2. ~(r < e) /\ ~(e < r)
        BY <1>6, <3>1, <4>1
      <4> QED BY <1>4, <4>2
    <3> QED BY <1>6, <2>1, <3>2
  <2>3. ws \in [1..n -> Nat] /\ ws[e] = Policy!WeightOf(config, specs[i]) /\ \A r \in 1..n : ws[r] > 0
    <3>1. \A r \in 1..n : ws[r] = Policy!WeightOf(config, specs[src[r]]) /\ src[r] \in DOMAIN specs
      BY <1>4, <1>6 DEF up
    <3>2. \A r \in 1..n : ws[r] \in Nat \ {0}
      <4>1. \A k \in DOMAIN specs : Policy!WeightOf(config, specs[k]) \in Nat \ {0}
        BY SettingsAreNumbers
      <4> HIDE DEF ws
      <4> QED BY <3>1, <4>1
    <3>3. DOMAIN ws = 1..n /\ ws = [r \in 1..n |-> ws[r]]
      BY <1>4
    <3> HIDE DEF ws
    <3> QED BY <2>1, <3>1, <3>2, <3>3
  <2>4. Order(0, <<>>) = Order(0, <<>>) /\ \A ps : Order(0, ps) = Policy!weighted_order(live, ws, ps)
    BY DEF Policy!order_candidates_with_specs, live
  <2> HIDE DEF ws, Order
  <2>5. ws \in Seq(Nat) /\ Len(ws) = n
    BY <1>4, <2>3, ListsAreSequences
  <2>6. total = Policy!SumTo(ws, Len(ws)) /\ total \in Nat
    BY <1>4, <2>5, SumsAdd
  <2> HIDE DEF total
  <2>7. ASSUME NEW r \in 0..(total - 1)
        PROVE  Order(0, <<r>> \o Tail(picks))[1] = specs[i] <=> Policy!Chosen(ws, r) = e
    <3> DEFINE ps == <<r>> \o Tail(picks)
    <3>1. ps[1] = r
      OBVIOUS
    <3>2. total >= 1 /\ r % total = r
      <4>1. total \in Nat \ {0}
        BY <2>6
      <4> QED BY <4>1, SmallRemainder
    <3> HIDE DEF ps
    <3>3. Policy!weighted_order(live, ws, ps)[1] =
            live[Policy!Chosen(ws, ps[1] % (IF total < 1 THEN 1 ELSE total))]
      <4>1. Len(ws) = Len(live) /\ Len(live) > 0
        BY <1>4, <2>1, <2>5
      <4>2. Policy!weighted_order(live, ws, ps)[1] =
              live[Policy!Chosen(ws, ps[1] % (IF Policy!SumTo(ws, Len(ws)) < 1 THEN 1 ELSE Policy!SumTo(ws, Len(ws))))]
        BY <1>2, <2>5, <4>1, WeightedOrderRearranges, SMTT(30)
      <4> QED BY <2>6, <4>2
    <3>4. Order(0, ps)[1] = live[Policy!Chosen(ws, r)]
      BY <2>4, <2>6, <3>1, <3>2, <3>3, SMTT(30)
    <3>5. Policy!Chosen(ws, r) \in 1..n
      <4>1. Len(ws) > 0
        BY <1>4, <2>1, <2>5
      <4> QED BY <2>5, <4>1, ChosenIsAPlace
    <3> QED BY <2>2, <3>4, <3>5 DEF ps
  <2>8. {r \in 0..(total - 1) : Order(0, <<r>> \o Tail(picks))[1] = specs[i]} =
        {r \in 0..(total - 1) : Policy!Chosen(ws, r) = e}
    BY <2>7
  <2>9. Cardinality({r \in 0..(total - 1) : Policy!Chosen(ws, r) = e}) = ws[e]
    BY <2>1, <2>5, <2>6, ChosenByWeight
  <2> QED BY <2>3, <2>8, <2>9, SameCount
<1> HIDE DEF First, Second, Third
<1>10. Policy!OrderIsFair(config, specs, strategy, health, picks) <=> First /\ Second /\ Third
  BY DEF Policy!OrderIsFair, First, Second, Third, KeyOf, live, n, up
<1> QED BY <1>7, <1>8, <1>9, <1>10

-----------------------------------------------------------------------------
\* Flattened sequences.

\* s is the first k of the sequences, one behind the other.
FlatTo(s, seqs, lens, X, k) ==
    /\ s \in Seq(X) /\ Len(s) = Policy!SumTo(lens, k)
    /\ \A i \in 1..k : \A j \in 1..lens[i] : s[Policy!SumTo(lens, i - 1) + j] = seqs[i][j]

\* A place inside a stretch that ends at b is one of the first c, if b is.
LEMMA PlaceWithin ==
  ASSUME NEW a \in Nat, NEW b \in Nat, NEW c \in Nat, NEW l \in Nat, NEW j \in 1..l, b = a + l, b <= c
  PROVE  a + j \in 1..c
<1> QED OBVIOUS

\* Adding one more sequence keeps that.
LEMMA FlatteningOneMore ==
  ASSUME NEW X, NEW m \in Nat, NEW seqs \in [1..m -> Seq(X)], NEW lens \in Seq(Nat), Len(lens) = m,
         \A i \in 1..m : lens[i] = Len(seqs[i]),
         NEW k \in 0..(m - 1), NEW s, FlatTo(s, seqs, lens, X, k)
  PROVE  FlatTo(s \o seqs[k + 1], seqs, lens, X, k + 1)
<1> DEFINE S(i) == Policy!SumTo(lens, i)
           t == seqs[k + 1]
           more == s \o t
<1>1. /\ k \in Nat /\ k + 1 \in 1..m /\ t \in Seq(X) /\ Len(t) = lens[k + 1] /\ Len(t) \in Nat
      /\ \A i \in 1..m : lens[i] \in Nat
  OBVIOUS
<1>2. S(k + 1) = S(k) + Len(t) /\ \A i \in 0..m : S(i) \in Nat
  <2>1. S(k + 1) = S((k + 1) - 1) + lens[k + 1]
    BY <1>1, SumsAdd
  <2>2. (k + 1) - 1 = k
    BY <1>1
  <2> QED BY <1>1, <2>1, <2>2, SumsAdd
<1>3. s \in Seq(X) /\ Len(s) = S(k) /\ \A i \in 1..k : \A j \in 1..lens[i] : s[S(i - 1) + j] = seqs[i][j]
  BY DEF FlatTo
<1>4. ASSUME NEW i \in 1..k, NEW j \in 1..lens[i] PROVE S(i - 1) + j \in 1..S(k)
  <2>0. i \in 1..Len(lens) /\ i \in 0..Len(lens) /\ i - 1 \in 0..Len(lens) /\ k \in i..Len(lens) /\ k \in 0..Len(lens)
    BY <1>1
  <2>1. S(i) = S(i - 1) + lens[i] /\ S(i - 1) \in Nat /\ S(i) \in Nat
    BY <2>0, SumsAdd
  <2>3. S(i) <= S(k) /\ S(k) \in Nat
    <3>1. S(i) <= S(k)
      BY <2>0, SumsGrow
    <3>2. S(k) \in Nat
      BY <2>0, SumsAdd
    <3> QED BY <3>1, <3>2
  <2>4. lens[i] \in Nat
    BY <1>1
  <2> HIDE DEF S
  <2> QED BY <2>1, <2>3, <2>4, PlaceWithin
<1> HIDE DEF S, t
<1>5. /\ more \in Seq(X) /\ Len(more) = Len(s) + Len(t)
      /\ \A j \in 1..(Len(s) + Len(t)) : more[j] = IF j <= Len(s) THEN s[j] ELSE t[j - Len(s)]
  <2>1. s \in Seq(X) /\ t \in Seq(X)
    BY <1>1, <1>3
  <2> QED BY <2>1, ConcatProperties
<1> HIDE DEF more
<1>6. S(k) \in Nat /\ S(k) = Len(s)
  BY <1>1, <1>2, <1>3
<1>7. ASSUME NEW i \in 1..(k + 1), NEW j \in 1..lens[i] PROVE more[S(i - 1) + j] = seqs[i][j]
  <2>1. CASE i \in 1..k
    <3>1. S(i - 1) + j \in 1..S(k)
      BY <1>4, <2>1
    <3>2. more[S(i - 1) + j] = s[S(i - 1) + j]
      BY <1>1, <1>5, <1>6, <3>1, SMTT(30)
    <3> QED BY <1>3, <2>1, <3>2
  <2>2. CASE i = k + 1
    <3>1. i - 1 = k /\ lens[i] = Len(t)
      BY <1>1, <2>2
    <3>2. S(k) + j \in 1..(Len(s) + Len(t)) /\ ~(S(k) + j <= Len(s)) /\ (S(k) + j) - Len(s) = j
      BY <1>1, <1>6, <3>1
    <3>3. more[S(k) + j] = t[j]
      BY <1>5, <3>2
    <3> QED BY <2>2, <3>1, <3>3 DEF t
  <2>3. i \in 1..k \/ i = k + 1
    BY <1>1
  <2> QED BY <2>1, <2>2, <2>3
<1>8. Len(more) = S(k + 1)
  BY <1>2, <1>3, <1>5
<1> QED BY <1>5, <1>7, <1>8 DEF FlatTo, more, t, S

\* A flattened sequence of sequences holds the jth of the ith at the sum of the lengths before.
LEMMA Flattening ==
  ASSUME NEW X, NEW m \in Nat \ {0}, NEW seqs \in [1..m -> Seq(X)], NEW lens \in Seq(Nat), Len(lens) = m,
         \A i \in 1..m : lens[i] = Len(seqs[i])
  PROVE  FlatTo(Policy!FlattenSeq(seqs), seqs, lens, X, m)
<1> DEFINE step(s, k) == s \o seqs[k]
           h == [k \in 1..m |-> [s \in Seq(X) |-> step(s, k)]]
           Run(f) == f = [i \in 1..m |-> IF i = 1 THEN seqs[i] ELSE f[i - 1] \o seqs[i]]
           Fine(s, k) == FlatTo(s, seqs, lens, X, k)
<1>1. Fine(<<>>, 0)
  BY SumsAdd DEF FlatTo
<1>2. ASSUME NEW k \in 0..(m - 1), NEW s, Fine(s, k) PROVE Fine(step(s, k + 1), k + 1)
  BY <1>2, FlatteningOneMore
<1>3. \A k \in 1..m, s \in Seq(X) : h[k][s] = step(s, k)
  OBVIOUS
<1>4. \A k, s : Fine(s, k) => s \in Seq(X)
  BY DEF FlatTo
<1>5. step(<<>>, 1) = seqs[1]
  <2>1. seqs[1] \in Seq(X)
    OBVIOUS
  <2> QED BY <2>1, ConcatEmptySeq
<1>6. Len(seqs) = m
  OBVIOUS
<1> HIDE DEF h, step, Fine
<1>7. \E f : Run(f)
  <2>1. PICK f : IsRecursion(f, m, <<>>, h)
    BY RecursionExists
  <2>2. \A k \in 0..m : f[k] = IF k = 0 THEN <<>> ELSE h[k][f[k - 1]]
    BY <2>1 DEF IsRecursion
  <2> DEFINE P == {k \in 0..m : Fine(f[k], k) /\ (k > 0 => f[k] = step(f[k - 1], k))}
  <2>3. 0 \in P
    <3>1. f[0] = <<>> /\ 0 \in 0..m
      BY <2>2
    <3> QED BY <1>1, <3>1
  <2>4. ASSUME NEW k \in 0..(m - 1), k \in P PROVE k + 1 \in P
    <3>1. k + 1 \in 1..m /\ k + 1 # 0 /\ (k + 1) - 1 = k /\ k + 1 \in 0..m
      OBVIOUS
    <3>2. f[k + 1] = h[k + 1][f[k]]
      BY <2>2, <3>1
    <3>3. f[k] \in Seq(X) /\ Fine(f[k], k)
      BY <1>4, <2>4
    <3>4. f[k + 1] = step(f[k], k + 1)
      BY <1>3, <3>1, <3>2, <3>3
    <3> QED BY <1>2, <3>1, <3>3, <3>4
  <2> HIDE DEF P
  <2>5. \A k \in 0..m : k \in P
    BY <2>3, <2>4, CountingUp
  <2>6. \A i \in 1..m : f[i] = IF i = 1 THEN seqs[i] ELSE step(f[i - 1], i)
    <3> SUFFICES ASSUME NEW i \in 1..m PROVE f[i] = IF i = 1 THEN seqs[i] ELSE step(f[i - 1], i)
      OBVIOUS
    <3>1. f[i] = step(f[i - 1], i)
      BY <2>5 DEF P
    <3>2. i = 1 => f[i - 1] = <<>>
      BY <2>2
    <3> QED BY <1>5, <3>1, <3>2
  <2> DEFINE g == [i \in 1..m |-> f[i]]
             v(i) == f[i]
             w(i) == IF i = 1 THEN seqs[i] ELSE g[i - 1] \o seqs[i]
  <2>7. \A i \in 1..m : v(i) = w(i)
    <3> SUFFICES ASSUME NEW i \in 1..m PROVE v(i) = w(i)
      OBVIOUS
    <3>1. i # 1 => g[i - 1] = f[i - 1]
      OBVIOUS
    <3> HIDE DEF g
    <3> QED BY <2>6, <3>1 DEF step
  <2>8. [i \in 1..m |-> v(i)] = [i \in 1..m |-> w(i)]
    <3> HIDE DEF v, w
    <3> QED BY <2>7
  <2>9. Run(g)
    BY <2>8
  <2> HIDE DEF g, Run
  <2> QED BY <2>9
<1> DEFINE flatten == CHOOSE f : Run(f)
<1>8. Run(flatten)
  <2> HIDE DEF Run
  <2> QED BY <1>7
<1>9. Policy!FlattenSeq(seqs) = IF Len(seqs) = 0 THEN seqs ELSE (CHOOSE f : f = [i \in 1..Len(seqs) |-> IF i = 1 THEN seqs[i] ELSE f[i - 1] \o seqs[i]])[Len(seqs)]
  BY Zenon DEF Policy!FlattenSeq
<1>10. Policy!FlattenSeq(seqs) = flatten[m]
  BY <1>6, <1>9
<1> HIDE DEF flatten
<1>11. flatten[1] = seqs[1] /\ \A i \in 2..m : flatten[i] = step(flatten[i - 1], i)
  <2>1. \A i \in 1..m : flatten[i] = IF i = 1 THEN seqs[i] ELSE flatten[i - 1] \o seqs[i]
    BY <1>8
  <2>2. 1 \in 1..m /\ \A i \in 2..m : i \in 1..m /\ i # 1
    OBVIOUS
  <2> HIDE DEF Run
  <2> QED BY <2>1, <2>2 DEF step
<1> HIDE DEF Run
<1> DEFINE P == {k \in 1..m : Fine(flatten[k], k)}
<1>12. 1 \in P
  <2>1. Fine(step(<<>>, 0 + 1), 0 + 1) /\ 0 + 1 = 1
    BY <1>1, <1>2
  <2> QED BY <1>5, <1>11, <2>1
<1>13. ASSUME NEW k \in 1..(m - 1), k \in P PROVE k + 1 \in P
  <2>1. k + 1 \in 2..m /\ (k + 1) - 1 = k /\ k \in 0..(m - 1) /\ k + 1 \in 1..m
    OBVIOUS
  <2> QED BY <1>2, <1>11, <1>13, <2>1
<1> HIDE DEF P
<1>14. \A k \in 1..m : k \in P
  BY <1>12, <1>13, CountingUp
<1> QED BY <1>10, <1>14 DEF P, Fine

-----------------------------------------------------------------------------
\* Retries.

\* The cap on a delay is a number no default exceeds.
LEMMA TheCapIsANumber == Policy!BACKOFF_MAX_CAP_MS \in Nat /\ Policy!DefaultBackoff.max_ms <= Policy!BACKOFF_MAX_CAP_MS
<1>1. Policy!DefaultBackoff.max_ms = 2000
  BY DEF Policy!DefaultBackoff
<1> QED BY <1>1 DEF Policy!BACKOFF_MAX_CAP_MS

\* The bounds a retry policy obeys: attempts, statuses and delays.
RetryIsBounded(r) ==
    /\ r.attempts <= Policy!MAX_RETRY_ATTEMPTS /\ r.on_status \subseteq Policy!ALLOWED_RETRY_STATUS
    /\ \A k \in 0..32 : Policy!Base(r.backoff, k) \in 1..Policy!BACKOFF_MAX_CAP_MS

\* A delay starts at the first setting, doubles, and stays within the second.
LEMMA DelaysAreCapped ==
  ASSUME NEW b, b.initial_ms \in Nat \ {0}, b.max_ms \in Nat \ {0}, NEW k \in 0..32
  PROVE  Policy!Base(b, k) \in 1..b.max_ms
<1> DEFINE Cap(ms) == IF ms < b.max_ms THEN ms ELSE b.max_ms
           M == 1..b.max_ms
           h == [j \in 1..31 |-> [x \in M |-> Cap(2 * x)]]
           Run(f) == f = [j \in 0..31 |-> IF j = 0 THEN Cap(b.initial_ms) ELSE Cap(2 * f[j - 1])]
<1>1. Cap(b.initial_ms) \in M /\ \A x \in M : Cap(2 * x) \in M
  OBVIOUS
<1>2. \A j \in 1..31, x \in M : h[j][x] = Cap(2 * x)
  OBVIOUS
<1> HIDE DEF Cap, h, M
<1>3. \E f : Run(f)
  <2>1. PICK f : IsRecursion(f, 31, Cap(b.initial_ms), h)
    BY RecursionExists
  <2>2. f = [j \in 0..31 |-> IF j = 0 THEN Cap(b.initial_ms) ELSE h[j][f[j - 1]]]
    BY <2>1 DEF IsRecursion
  <2> DEFINE P == {j \in 0..31 : f[j] \in M}
  <2>3. 0 \in P
    BY <1>1, <2>2
  <2>4. \A j \in 0..(31 - 1) : j \in P => j + 1 \in P
    <3> SUFFICES ASSUME NEW j \in 0..(31 - 1), j \in P PROVE j + 1 \in P
      OBVIOUS
    <3>1. j + 1 \in 1..31 /\ j + 1 \in 0..31 /\ j + 1 # 0 /\ (j + 1) - 1 = j
      OBVIOUS
    <3>2. f[j + 1] = h[j + 1][f[j]]
      BY <2>2, <3>1
    <3> QED BY <1>1, <1>2, <3>1, <3>2
  <2> HIDE DEF P
  <2>5. \A j \in 0..31 : j \in P
    BY <2>3, <2>4, CountingUp
  <2> DEFINE v(j) == IF j = 0 THEN Cap(b.initial_ms) ELSE h[j][f[j - 1]]
             w(j) == IF j = 0 THEN Cap(b.initial_ms) ELSE Cap(2 * f[j - 1])
  <2>6. \A j \in 0..31 : v(j) = w(j)
    <3>1. \A j \in 1..31 : f[j - 1] \in M
      BY <2>5 DEF P
    <3> QED BY <1>2, <3>1
  <2>7. f = [j \in 0..31 |-> w(j)]
    <3> HIDE DEF w
    <3>1. f = [j \in 0..31 |-> v(j)]
      BY <2>2
    <3> HIDE DEF v
    <3> QED BY <2>6, <3>1
  <2>8. Run(f)
    BY <2>7
  <2> HIDE DEF Run
  <2> QED BY <2>8
<1> DEFINE grown == CHOOSE f : Run(f)
<1>4. Run(grown)
  <2> HIDE DEF Run
  <2> QED BY <1>3
<1>5. Policy!Base(b, k) = grown[IF k < 31 THEN k ELSE 31]
  BY Zenon DEF Policy!Base, Cap
<1> HIDE DEF grown
<1> DEFINE P == {j \in 0..31 : grown[j] \in M}
<1>6. 0 \in P
  BY <1>1, <1>4
<1>7. \A j \in 0..(31 - 1) : j \in P => j + 1 \in P
  BY <1>1, <1>4
<1> HIDE DEF P
<1>8. \A j \in 0..31 : j \in P
  BY <1>6, <1>7, CountingUp
<1>9. (IF k < 31 THEN k ELSE 31) \in P
  BY <1>8
<1> QED BY <1>5, <1>9 DEF P, M

\* So it never exceeds the cap.
LEMMA DelaysAreShort ==
  ASSUME NEW b, b.initial_ms \in Nat \ {0}, b.max_ms \in Nat \ {0}, b.max_ms <= Policy!BACKOFF_MAX_CAP_MS
  PROVE  \A k \in 0..32 : Policy!Base(b, k) \in 1..Policy!BACKOFF_MAX_CAP_MS
<1> SUFFICES ASSUME NEW k \in 0..32 PROVE Policy!Base(b, k) \in 1..Policy!BACKOFF_MAX_CAP_MS
  OBVIOUS
<1>1. Policy!Base(b, k) \in 1..b.max_ms
  BY DelaysAreCapped
<1> QED BY <1>1, TheCapIsANumber

\* The default settings are accepted ones.
LEMMA DefaultDelays ==
  /\ Policy!DefaultBackoff.initial_ms \in Nat \ {0} /\ Policy!DefaultBackoff.max_ms \in Nat \ {0}
  /\ Policy!DefaultBackoff.max_ms <= Policy!BACKOFF_MAX_CAP_MS
<1>1. Policy!DefaultBackoff.initial_ms = 200 /\ Policy!DefaultBackoff.max_ms = 2000
  BY DEF Policy!DefaultBackoff
<1> QED BY <1>1, TheCapIsANumber

\* So are the parsed ones (policy/src/lib.rs, parse_backoff).
LEMMA ParsedDelays ==
  ASSUME NEW r, Policy!parse_backoff(r).ok
  PROVE  LET b == Policy!parse_backoff(r).val
         IN  b.initial_ms \in Nat \ {0} /\ b.max_ms \in Nat \ {0} /\ b.max_ms <= Policy!BACKOFF_MAX_CAP_MS
<1> DEFINE initial == Policy!OrElse(r.initial_ms, 200)
           max == Policy!OrElse(r.max_ms, IF initial > 2000 THEN initial ELSE 2000)
           val == [initial_ms |-> initial, max_ms |-> max]
           fine == /\ initial \in 1..Policy!BACKOFF_INITIAL_MAX_MS
                   /\ Policy!parse_positive_u64(max) /\ max <= Policy!BACKOFF_MAX_CAP_MS /\ max >= initial
<1>1. Policy!parse_backoff(r) = IF fine THEN Policy!Ok(val) ELSE Policy!Err
  BY SMT DEF Policy!parse_backoff
<1> HIDE DEF initial, max
<1>2. fine /\ Policy!parse_backoff(r).val = val
  <2> HIDE DEF fine, val
  <2> QED BY <1>1 DEF Policy!Err, Policy!Ok
<1>3. val.initial_ms = initial /\ val.max_ms = max
  OBVIOUS
<1>4. initial \in 1..Policy!BACKOFF_INITIAL_MAX_MS
  BY SMT, <1>2
<1>5. initial \in Nat \ {0}
  <2> HIDE DEF fine, val
  <2> QED BY <1>4
<1>6. max \in Nat \ {0} /\ max <= Policy!BACKOFF_MAX_CAP_MS
  BY SMT, <1>2 DEF Policy!parse_positive_u64
<1> HIDE DEF fine, val
<1> QED BY Zenon, <1>2, <1>3, <1>5, <1>6

\* What parse_retry accepts is bounded.
LEMMA ParsedRetryIsBounded ==
  ASSUME NEW r, Policy!parse_retry(r).ok
  PROVE  RetryIsBounded(Policy!parse_retry(r).val)
<1> DEFINE attempts == Policy!OrElse(r.attempts, 1)
           cut == IF r.on_status = {Policy!Absent} THEN Policy!DEFAULT_RETRY_STATUS ELSE {c % 65536 : c \in r.on_status}
           backoff == IF r.backoff = [absent |-> TRUE] THEN Policy!Ok(Policy!DefaultBackoff) ELSE Policy!parse_backoff(r.backoff)
           fine == /\ Policy!RetryAttempts(attempts)
                   /\ cut \subseteq Policy!ALLOWED_RETRY_STATUS
                   /\ backoff.ok
           val == [attempts |-> attempts, backoff |-> backoff.val, on_status |-> cut]
<1>1. Policy!parse_retry(r) = IF fine
                              THEN Policy!Ok(val) ELSE Policy!Err
  BY SMT DEF Policy!parse_retry
<1> HIDE DEF attempts, cut, backoff
<1>2. /\ attempts <= Policy!MAX_RETRY_ATTEMPTS /\ cut \subseteq Policy!ALLOWED_RETRY_STATUS /\ backoff.ok
      /\ Policy!parse_retry(r).val = val
  BY <1>1 DEF Policy!Err, Policy!Ok, Policy!RetryAttempts
<1>3. /\ backoff.val.initial_ms \in Nat \ {0} /\ backoff.val.max_ms \in Nat \ {0}
      /\ backoff.val.max_ms <= Policy!BACKOFF_MAX_CAP_MS
  <2>1. CASE r.backoff = [absent |-> TRUE]
    <3>1. backoff.val = Policy!DefaultBackoff
      BY <2>1 DEF backoff, Policy!Ok
    <3> QED BY <3>1, DefaultDelays
  <2>2. CASE r.backoff # [absent |-> TRUE]
    <3>1. Policy!parse_backoff(r.backoff).ok /\ backoff.val = Policy!parse_backoff(r.backoff).val
      BY Zenon, <1>2, <2>2 DEF backoff
    <3> QED BY <3>1, ParsedDelays
  <2> QED BY <2>1, <2>2
<1>4. \A k \in 0..32 : Policy!Base(backoff.val, k) \in 1..Policy!BACKOFF_MAX_CAP_MS
  BY <1>3, DelaysAreShort
<1>5. val.attempts = attempts /\ val.on_status = cut /\ val.backoff = backoff.val
  OBVIOUS
<1> HIDE DEF val
<1> QED BY <1>2, <1>4, <1>5 DEF RetryIsBounded

\* And so is the policy a target gets: its own, the configuration's, or none.
LEMMA PlannedRetryIsBounded ==
  ASSUME NEW leaf, Policy!LeafOk(leaf), NEW cfg,
         cfg.retry = [absent |-> TRUE] \/ Policy!parse_retry(cfg.retry).ok
  PROVE  /\ Policy!leaf_to_plan(leaf, cfg).leaf = leaf
         /\ RetryIsBounded(Policy!leaf_to_plan(leaf, cfg).retry)
<1> DEFINE own == IF leaf.retry # [absent |-> TRUE] THEN leaf.retry ELSE cfg.retry
           given == IF own = [absent |-> TRUE] THEN Policy!DefaultRetry ELSE Policy!parse_retry(own).val
<1>1. Policy!leaf_to_plan(leaf, cfg) = [leaf |-> leaf, retry |-> given]
  BY Zenon DEF Policy!leaf_to_plan
<1>2. own = [absent |-> TRUE] \/ Policy!parse_retry(own).ok
  BY Zenon DEF Policy!LeafOk
<1> HIDE DEF own
<1>3. RetryIsBounded(given)
  <2>1. CASE own = [absent |-> TRUE]
    <3>1. \A k \in 0..32 : Policy!Base(Policy!DefaultBackoff, k) \in 1..Policy!BACKOFF_MAX_CAP_MS
      BY DefaultDelays, DelaysAreShort
    <3>2. given = Policy!DefaultRetry
      BY <2>1
    <3>3. /\ Policy!DefaultRetry.backoff = Policy!DefaultBackoff
          /\ Policy!DefaultRetry.attempts <= Policy!MAX_RETRY_ATTEMPTS
          /\ Policy!DefaultRetry.on_status \subseteq Policy!ALLOWED_RETRY_STATUS
      BY DEF Policy!DefaultRetry, Policy!MAX_RETRY_ATTEMPTS, Policy!ALLOWED_RETRY_STATUS, Policy!DEFAULT_RETRY_STATUS
    <3> QED BY <3>1, <3>2, <3>3 DEF RetryIsBounded
  <2>2. CASE own # [absent |-> TRUE]
    BY <1>2, <2>2, ParsedRetryIsBounded
  <2> QED BY <2>1, <2>2
<1> HIDE DEF given
<1> QED BY <1>1, <1>3

-----------------------------------------------------------------------------
\* Shaped requests, and the plan of one node of a configuration.

\* What an object reads back as, field by field.
LEMMA ReadBack ==
  ASSUME NEW obj
  PROVE  LET back == Policy!from_value(obj)
         IN  /\ DOMAIN back = {f \in DOMAIN obj : obj[f].t # "null"}
             /\ \A f \in DOMAIN back :
                  back[f] = IF f = "stop" /\ obj[f].t = "str" THEN [t |-> "array", v |-> {obj[f]}] ELSE obj[f]
BY Zenon DEF Policy!from_value

\* Reading back changes nothing the second time.
LEMMA ReadBackOnce ==
  ASSUME NEW obj
  PROVE  Policy!from_value(Policy!from_value(obj)) = Policy!from_value(obj)
<1> DEFINE back == Policy!from_value(obj)
           again == Policy!from_value(back)
<1>1. /\ DOMAIN back = {f \in DOMAIN obj : obj[f].t # "null"}
      /\ \A f \in DOMAIN back :
           back[f] = IF f = "stop" /\ obj[f].t = "str" THEN [t |-> "array", v |-> {obj[f]}] ELSE obj[f]
  BY ReadBack
<1>2. /\ DOMAIN again = {f \in DOMAIN back : back[f].t # "null"}
      /\ \A f \in DOMAIN again :
           again[f] = IF f = "stop" /\ back[f].t = "str" THEN [t |-> "array", v |-> {back[f]}] ELSE back[f]
  BY ReadBack
<1>3. again = [f \in DOMAIN again |-> again[f]] /\ back = [f \in DOMAIN back |-> back[f]]
  BY Zenon DEF Policy!from_value
<1> HIDE DEF back, again
<1>4. ASSUME NEW f \in DOMAIN back PROVE back[f].t # "null" /\ ~(f = "stop" /\ back[f].t = "str")
  <2>1. CASE f = "stop" /\ obj[f].t = "str"
    <3>1. back[f] = [t |-> "array", v |-> {obj[f]}]
      BY <1>1, <2>1
    <3> QED BY <3>1
  <2>2. CASE ~(f = "stop" /\ obj[f].t = "str")
    <3>1. back[f] = obj[f] /\ obj[f].t # "null"
      BY <1>1, <2>2
    <3> QED BY <2>2, <3>1
  <2> QED BY <2>1, <2>2
<1>5. DOMAIN again = DOMAIN back /\ \A f \in DOMAIN back : again[f] = back[f]
  BY <1>2, <1>4
<1>6. again = back
  BY <1>3, <1>5
<1> QED BY <1>6 DEF back, again

\* What a request reads back as is a request.
LEMMA ReadBackIsWellFormed ==
  ASSUME NEW obj, Policy!IsRequest(obj)
  PROVE  Policy!WellFormed(Policy!from_value(obj))
<1> DEFINE back == Policy!from_value(obj)
<1>1. /\ DOMAIN back = {f \in DOMAIN obj : obj[f].t # "null"}
      /\ \A f \in DOMAIN back :
           back[f] = IF f = "stop" /\ obj[f].t = "str" THEN [t |-> "array", v |-> {obj[f]}] ELSE obj[f]
  BY ReadBack
<1>2. "model" \in DOMAIN obj /\ \A f \in DOMAIN obj : Policy!Deserialises(f, obj[f])
  BY DEF Policy!IsRequest
<1>3. Policy!from_value(back) = back
  BY ReadBackOnce
<1> HIDE DEF back
<1>4. "model" \in DOMAIN back
  <2>1. obj["model"].t = "str"
    BY <1>2 DEF Policy!Deserialises
  <2> QED BY <1>1, <1>2, <2>1
<1>5. ASSUME NEW f \in DOMAIN back PROVE Policy!Deserialises(f, back[f])
  <2>1. Policy!Deserialises(f, obj[f])
    BY <1>1, <1>2
  <2>2. CASE f = "stop" /\ obj[f].t = "str"
    <3>1. back[f] = [t |-> "array", v |-> {obj[f]}]
      BY <1>1, <2>2
    <3> QED BY <2>2, <3>1 DEF Policy!Deserialises
  <2>3. CASE ~(f = "stop" /\ obj[f].t = "str")
    <3>1. back[f] = obj[f]
      BY <1>1, <2>3
    <3> QED BY <2>1, <3>1
  <2> QED BY <2>2, <2>3
<1>6. Policy!WellFormed(back)
  BY <1>3, <1>4, <1>5 DEF Policy!WellFormed, Policy!IsRequest
<1> QED BY <1>6 DEF back

\* What the parser asks of shaping, and the request with it laid over.
ListedParams(p) ==
    /\ DOMAIN p.default \cup DOMAIN p.override \cup p.drop \subseteq Policy!PARAM_ALLOWLIST
    /\ DOMAIN p.override \cap p.drop = {}
LEMMA ParamsAreListed ==
  ASSUME NEW p, Policy!parse_params(p).ok
  PROVE  ListedParams(p)
<1>1. Policy!parse_params(p) = IF ListedParams(p) THEN Policy!Ok(p) ELSE Policy!Err
  BY Zenon DEF Policy!parse_params, ListedParams
<1> QED BY <1>1 DEF Policy!Err

LEMMA OverlayFields ==
  ASSUME NEW p, NEW req
  PROVE  LET over == Policy!Overlay(p, req)
         IN  /\ DOMAIN over = (DOMAIN req \cup DOMAIN p.default \cup DOMAIN p.override) \ p.drop
             /\ \A f \in DOMAIN over :
                  over[f] = IF f \in DOMAIN p.override THEN p.override[f]
                            ELSE IF f \in DOMAIN req THEN req[f] ELSE p.default[f]
BY Zenon DEF Policy!Overlay

\* Values of their field's type make a request of a request.
LEMMA WellTypedShapes ==
  ASSUME NEW p, NEW req, Policy!WellFormed(req), Policy!WellTyped(p)
  PROVE  Policy!IsRequest(Policy!Overlay(p, req))
<1> DEFINE over == Policy!Overlay(p, req)
<1>1. /\ DOMAIN over = (DOMAIN req \cup DOMAIN p.default \cup DOMAIN p.override) \ p.drop
      /\ \A f \in DOMAIN over :
           over[f] = IF f \in DOMAIN p.override THEN p.override[f] ELSE IF f \in DOMAIN req THEN req[f] ELSE p.default[f]
  BY OverlayFields
<1>2. "model" \in DOMAIN req /\ \A f \in DOMAIN req : Policy!Deserialises(f, req[f])
  BY DEF Policy!WellFormed, Policy!IsRequest
<1>3. /\ "model" \notin p.drop
      /\ \A f \in DOMAIN p.default : Policy!Deserialises(f, p.default[f])
      /\ \A f \in DOMAIN p.override : Policy!Deserialises(f, p.override[f])
  BY DEF Policy!WellTyped
<1> HIDE DEF over
<1>4. "model" \in DOMAIN over
  BY <1>1, <1>2, <1>3
<1>5. ASSUME NEW f \in DOMAIN over PROVE Policy!Deserialises(f, over[f])
  BY <1>1, <1>2, <1>3
<1>6. Policy!IsRequest(over)
  BY <1>4, <1>5 DEF Policy!IsRequest
<1> QED BY <1>6 DEF over

\* What a target is sent is a request, shaped as a whole or not at all.
ShapedWhole(p, req) ==
    LET shaped == Policy!Apply(p, req)
    IN  /\ Policy!WellFormed(shaped)
        /\ Policy!TookEffect(p, shaped) \/ (shaped = req /\ ~Policy!WellTyped(p))
        /\ \A f \in (DOMAIN req \cup DOMAIN shaped) \ Policy!PARAM_ALLOWLIST : Policy!Alike(shaped, req, f)

LEMMA ShapedAsAWhole ==
  ASSUME NEW p, Policy!parse_params(p).ok, NEW req, Policy!WellFormed(req)
  PROVE  ShapedWhole(p, req)
<1> DEFINE over == Policy!Overlay(p, req)
           back == Policy!from_value(over)
           shaped == Policy!Apply(p, req)
<1>1. shaped = IF ~Policy!is_noop(p) /\ Policy!IsRequest(over) THEN back ELSE req
  BY Zenon DEF Policy!Apply
<1>2. CASE shaped = req /\ (Policy!is_noop(p) \/ ~Policy!IsRequest(over))
  <2>1. Policy!is_noop(p) => Policy!TookEffect(p, shaped)
    BY DEF Policy!is_noop, Policy!TookEffect
  <2>2. ~Policy!IsRequest(over) => ~Policy!WellTyped(p)
    BY WellTypedShapes
  <2>3. \A f : Policy!Alike(req, req, f)
    BY DEF Policy!Alike
  <2> HIDE DEF over, shaped
  <2>4. /\ Policy!WellFormed(shaped)
        /\ Policy!TookEffect(p, shaped) \/ (shaped = req /\ ~Policy!WellTyped(p))
        /\ \A f \in (DOMAIN req \cup DOMAIN shaped) \ Policy!PARAM_ALLOWLIST : Policy!Alike(shaped, req, f)
    BY <1>2, <2>1, <2>2, <2>3
  <2> QED BY <2>4 DEF shaped, ShapedWhole
<1>3. CASE shaped = back /\ Policy!IsRequest(over)
  <2>1. Policy!WellFormed(back)
    BY <1>3, ReadBackIsWellFormed
  <2>2. ListedParams(p)
    BY ParamsAreListed
  <2>3. /\ DOMAIN over = (DOMAIN req \cup DOMAIN p.default \cup DOMAIN p.override) \ p.drop
        /\ \A f \in DOMAIN over :
             over[f] = IF f \in DOMAIN p.override THEN p.override[f] ELSE IF f \in DOMAIN req THEN req[f] ELSE p.default[f]
    BY OverlayFields
  <2>4. \A obj : LET o == Policy!from_value(obj)
                 IN  /\ DOMAIN o = {f \in DOMAIN obj : obj[f].t # "null"}
                     /\ \A f \in DOMAIN o : o[f] = IF f = "stop" /\ obj[f].t = "str"
                                                    THEN [t |-> "array", v |-> {obj[f]}] ELSE obj[f]
    BY ReadBack
  <2> DEFINE overrides == Policy!from_value(p.override)
  <2>5. /\ DOMAIN back = {f \in DOMAIN over : over[f].t # "null"}
        /\ \A f \in DOMAIN back : back[f] = IF f = "stop" /\ over[f].t = "str"
                                             THEN [t |-> "array", v |-> {over[f]}] ELSE over[f]
    BY <2>4
  <2>6. /\ DOMAIN overrides = {f \in DOMAIN p.override : p.override[f].t # "null"}
        /\ \A f \in DOMAIN overrides : overrides[f] = IF f = "stop" /\ p.override[f].t = "str"
                                                       THEN [t |-> "array", v |-> {p.override[f]}] ELSE p.override[f]
    BY <2>4
  <2>7. DOMAIN req = {f \in DOMAIN req : req[f].t # "null"}
    BY <2>4 DEF Policy!WellFormed
  <2> HIDE DEF over, back, overrides
  <2>8. Policy!TookEffect(p, back)
    <3>1. ASSUME NEW f \in DOMAIN p.override PROVE Policy!Alike(back, overrides, f)
      <4>1. f \in DOMAIN over /\ over[f] = p.override[f]
        BY <2>2, <2>3 DEF ListedParams
      <4>2. f \in DOMAIN back <=> f \in DOMAIN overrides
        BY <2>5, <2>6, <4>1
      <4>3. f \in DOMAIN back => back[f] = overrides[f]
        BY <2>5, <2>6, <4>1, <4>2
      <4> QED BY <4>2, <4>3 DEF Policy!Alike
    <3>2. \A f \in p.drop : f \notin DOMAIN back
      BY <2>3, <2>5
    <3> QED BY <3>1, <3>2 DEF Policy!TookEffect, overrides
  <2>9. ASSUME NEW f, f \notin Policy!PARAM_ALLOWLIST PROVE Policy!Alike(back, req, f)
    <3>1. f \notin DOMAIN p.default \cup DOMAIN p.override \cup p.drop /\ f # "stop"
      BY <2>2, <2>9 DEF ListedParams, Policy!PARAM_ALLOWLIST
    <3>2. (f \in DOMAIN over <=> f \in DOMAIN req) /\ (f \in DOMAIN req => over[f] = req[f])
      BY <2>3, <3>1
    <3>3. f \in DOMAIN back <=> f \in DOMAIN req
      BY <2>5, <2>7, <3>2
    <3>4. f \in DOMAIN back => back[f] = req[f]
      BY <2>5, <3>1, <3>2, <3>3
    <3> QED BY <3>3, <3>4 DEF Policy!Alike
  <2> HIDE DEF shaped
  <2>10. /\ Policy!WellFormed(shaped)
         /\ Policy!TookEffect(p, shaped) \/ (shaped = req /\ ~Policy!WellTyped(p))
         /\ \A f \in (DOMAIN req \cup DOMAIN shaped) \ Policy!PARAM_ALLOWLIST : Policy!Alike(shaped, req, f)
    BY <1>3, <2>1, <2>8, <2>9
  <2> QED BY <2>10 DEF shaped, ShapedWhole
<1> HIDE DEF over, back, shaped
<1> QED BY <1>1, <1>2, <1>3

-----------------------------------------------------------------------------
\* The plan of a node: its leaves, each once, in some order.
PlannedFrom(p, route, leaves, cfg) ==
    /\ p \in [1..Len(leaves) -> 1..Len(leaves)] /\ \A i, j \in 1..Len(leaves) : p[i] = p[j] => i = j
    /\ route = [j \in 1..Len(leaves) |-> Policy!leaf_to_plan(leaves[p[j]], cfg)]
LeavesAreFine(leaves) ==
    /\ leaves \in Seq(Policy!ToSet(leaves)) /\ Len(leaves) \in 1..16
    /\ \A i \in 1..Len(leaves) : Policy!LeafOk(leaves[i])

\* A rearrangement of the leaves makes such a plan.
LEMMA Reordered ==
  ASSUME NEW leaves, NEW n \in Nat, Len(leaves) = n, NEW out, NEW p, Rearranges(p, out, leaves, n), NEW cfg
  PROVE  PlannedFrom(p, [i \in DOMAIN out |-> Policy!leaf_to_plan(out[i], cfg)], leaves, cfg)
<1> DEFINE L(l) == Policy!leaf_to_plan(l, cfg)
<1>1. DOMAIN out = 1..n /\ \A i \in 1..n : out[i] = leaves[p[i]]
  BY DEF Rearranges
<1> HIDE DEF L
<1>2. [i \in DOMAIN out |-> L(out[i])] = [j \in 1..n |-> L(leaves[p[j]])]
  BY <1>1
<1> QED BY <1>2 DEF Rearranges, PlannedFrom, L

\* An accepted node has from one to sixteen accepted leaves.
LEMMA LeavesOfANode ==
  ASSUME NEW node, Policy!parse_node(node), Policy!IsPool(node) => node.targets \in Seq(Policy!ToSet(node.targets))
  PROVE  LeavesAreFine(Policy!Leaves(node))
<1>1. CASE Policy!IsPool(node)
  BY <1>1 DEF LeavesAreFine, Policy!Leaves, Policy!parse_node, Policy!MAX_TARGETS_PER_LEVEL
<1>2. CASE ~Policy!IsPool(node)
  <2>1. Policy!Leaves(node) = <<node>> /\ Policy!LeafOk(node)
    BY <1>2 DEF Policy!Leaves, Policy!parse_node
  <2>2. node \in Policy!ToSet(<<node>>)
    BY DEF Policy!ToSet
  <2>3. <<node>> \in Seq(Policy!ToSet(<<node>>)) /\ Len(<<node>>) = 1 /\ <<node>>[1] = node
    BY <2>2
  <2> QED BY <2>1, <2>3 DEF LeavesAreFine
<1> QED BY <1>1, <1>2

\* Whatever its strategy, a node's plan has its leaves, each once.
LEMMA NodesArePlanned ==
  ASSUME NEW node, Policy!parse_node(node), Policy!IsPool(node) => node.targets \in Seq(Policy!ToSet(node.targets)),
         NEW cfg, NEW picks
  PROVE  \E p : PlannedFrom(p, Policy!NodePlan(node, cfg, picks), Policy!Leaves(node), cfg)
<1> DEFINE leaves == Policy!Leaves(node)
           n == Len(leaves)
           L(l) == Policy!leaf_to_plan(l, cfg)
<1>0. LeavesAreFine(leaves)
  BY LeavesOfANode
<1>1. n \in Nat /\ DOMAIN leaves = 1..n /\ leaves \in Seq(Policy!ToSet(leaves))
  BY <1>0 DEF LeavesAreFine
<1>2. CASE ~Policy!IsPool(node)
  <2>1. leaves = <<node>> /\ n = 1 /\ leaves[1] = node
    BY <1>2 DEF Policy!Leaves
  <2>2. Policy!NodePlan(node, cfg, picks) = <<L(node)>>
    BY <1>2 DEF Policy!NodePlan
  <2> DEFINE p == [i \in 1..1 |-> 1]
  <2>3. <<L(node)>> = [j \in 1..1 |-> L(leaves[p[j]])]
    <3> HIDE DEF L, leaves
    <3> QED BY <2>1
  <2>4. PlannedFrom(p, <<L(node)>>, leaves, cfg)
    <3> HIDE DEF leaves
    <3> QED BY <2>1, <2>3 DEF PlannedFrom
  <2> HIDE DEF p
  <2> QED BY <2>2, <2>4
<1>3. CASE Policy!IsPool(node)
  <2>1. leaves = node.targets
    BY <1>3 DEF Policy!Leaves
  <2> DEFINE costs == [i \in DOMAIN node.targets |-> Policy!OrElse(node.targets[i].cost, 100)]
             ws == [i \in DOMAIN node.targets |-> Policy!Max({1, node.targets[i].weight})]
             ordered == CASE node.strategy = "cost" -> Policy!StableSort(node.targets, costs)
                          [] node.strategy = "weighted" -> Policy!weighted_order(node.targets, ws, picks)
                          [] OTHER -> node.targets
  <2>2. Policy!NodePlan(node, cfg, picks) = [i \in DOMAIN ordered |-> L(ordered[i])]
    BY <1>3 DEF Policy!NodePlan, Policy!flatten_pool
  <2>3. \A i \in 1..n : Policy!LeafOk(leaves[i])
    BY <1>0 DEF LeavesAreFine
  <2> HIDE DEF leaves, n
  <2>30. \A i \in 1..n : leaves[i].cost \in Int /\ leaves[i].weight \in Int
    <3> SUFFICES ASSUME NEW i \in 1..n PROVE leaves[i].cost \in Int /\ leaves[i].weight \in Int
      OBVIOUS
    <3>1. Policy!LeafOk(leaves[i])
      BY <2>3
    <3>2. \A v : (v = Policy!Absent \/ Policy!parse_u32(v)) => v \in Int
      BY DEF Policy!Absent, Policy!parse_u32
    <3>3. (leaves[i].cost = Policy!Absent \/ Policy!parse_u32(leaves[i].cost)) /\ (leaves[i].weight = Policy!Absent \/ Policy!parse_u32(leaves[i].weight))
      BY Zenon, <3>1 DEF Policy!LeafOk
    <3> QED BY <3>2, <3>3
  <2>4. costs \in [1..n -> Int]
    <3>1. \A i \in 1..n : Policy!OrElse(leaves[i].cost, 100) \in Int
      BY <2>30 DEF Policy!OrElse
    <3> QED BY <1>1, <2>1, <3>1
  <2>5. ws \in Seq(Nat) /\ Len(ws) = n
    <3>1. ASSUME NEW i \in 1..n PROVE Policy!Max({1, leaves[i].weight}) \in Nat
      <4>1. leaves[i].weight \in Int
        BY <2>30
      <4>2. \E x \in {1, leaves[i].weight} : \A y \in {1, leaves[i].weight} : x >= y
        BY <4>1
      <4>3. \A y \in {1, leaves[i].weight} : Policy!Max({1, leaves[i].weight}) >= y
        BY <4>2 DEF Policy!Max
      <4>4. Policy!Max({1, leaves[i].weight}) \in {1, leaves[i].weight}
        BY <4>2 DEF Policy!Max
      <4> QED BY <4>1, <4>3, <4>4
    <3>2. ws \in [1..n -> Nat]
      BY <1>1, <2>1, <3>1
    <3> QED BY <1>1, <3>2, ListsAreSequences
  <2>6. \E p : Rearranges(p, ordered, leaves, n)
    <3>1. CASE node.strategy = "cost"
      <4>1. ordered = Policy!StableSort(leaves, costs)
        BY <2>1, <3>1
      <4>2. \E p : Ranked(p, Policy!StableSort(leaves, costs), leaves, n, costs)
        BY <1>1, <2>4, SortedIsRanked DEF n
      <4> HIDE DEF ordered
      <4> QED BY <4>1, <4>2 DEF Ranked
    <3>2. CASE node.strategy = "weighted"
      <4>1. ordered = Policy!weighted_order(leaves, ws, picks)
        BY <2>1, <3>2
      <4> HIDE DEF ordered, ws
      <4>2. \E p : Rearranges(p, Policy!weighted_order(leaves, ws, picks), leaves, n)
        BY <1>1, <2>5, WeightedRearranges DEF n
      <4> QED BY <4>1, <4>2
    <3>3. CASE node.strategy # "cost" /\ node.strategy # "weighted"
      <4>1. ordered = leaves
        BY <2>1, <3>3
      <4> HIDE DEF ordered
      <4>2. \E p : Ranked(p, leaves, leaves, n, [i \in 1..n |-> 0])
        BY <1>1, UnsortedIsRanked DEF n
      <4> QED BY <4>1, <4>2 DEF Ranked
    <3> HIDE DEF ordered
    <3> QED BY <3>1, <3>2, <3>3
  <2> HIDE DEF ordered
  <2>7. PICK p : Rearranges(p, ordered, leaves, n)
    BY <2>6
  <2>8. PlannedFrom(p, [i \in DOMAIN ordered |-> L(ordered[i])], leaves, cfg)
    BY <1>1, <2>7, Reordered DEF n
  <2> QED BY <2>2, <2>8 DEF leaves
<1> HIDE DEF leaves
<1> QED BY <1>2, <1>3

-----------------------------------------------------------------------------
\* All leaves of a configuration.

\* An index into the flattened sequence belongs to one of the sequences, at one place in it.
LEMMA PlaceOfAnIndex ==
  ASSUME NEW lens \in Seq(Nat), Len(lens) > 0, NEW i \in 1..Policy!SumTo(lens, Len(lens))
  PROVE  LET k == Policy!Chosen(lens, i - 1)
         IN  k \in 1..Len(lens) /\ i - Policy!SumTo(lens, k - 1) \in 1..lens[k]
<1> DEFINE k == Policy!Chosen(lens, i - 1)
           S(j) == Policy!SumTo(lens, j)
           n == Len(lens)
<1>1. k \in 1..n
  BY ChosenIsAPlace
<1>2. S(k - 1) <= i - 1 /\ i - 1 < S(k)
  <2>1. S(n) \in Nat
    BY SumsAdd
  <2>2. i - 1 \in 0..(S(n) - 1)
    <3> HIDE DEF n
    <3> QED BY <2>1 DEF n
  <2>3. \A c \in 1..n : Policy!Chosen(lens, i - 1) = c <=> S(c - 1) <= i - 1 /\ i - 1 < S(c)
    BY <2>2, ChosenByStretch
  <2> QED BY <1>1, <2>3
<1>3. S(k) = S(k - 1) + lens[k] /\ S(k - 1) \in Nat /\ lens[k] \in Nat
  <2>1. k - 1 \in 0..n /\ n \in Nat
    BY <1>1
  <2>2. lens[k] \in Nat
    BY <1>1
  <2> HIDE DEF k
  <2> QED BY <1>1, <2>1, <2>2, SumsAdd
<1>4. i \in Int
  <2>1. S(n) \in Nat
    BY SumsAdd
  <2> QED BY <2>1
<1> HIDE DEF k, S, n
<1>5. i - S(k - 1) \in 1..lens[k]
  BY <1>2, <1>3, <1>4
<1> QED BY <1>1, <1>5 DEF k, S, n

\* A place in one of the sequences has one index, and the index leads back to it.
LEMMA IndexOfAPlace ==
  ASSUME NEW lens \in Seq(Nat), NEW k \in 1..Len(lens), NEW j \in 1..lens[k]
  PROVE  LET i == Policy!SumTo(lens, k - 1) + j
         IN  i \in 1..Policy!SumTo(lens, Len(lens)) /\ Policy!Chosen(lens, i - 1) = k
<1> DEFINE S(c) == Policy!SumTo(lens, c)
           n == Len(lens)
           i == S(k - 1) + j
<1>1. k \in 0..n /\ k - 1 \in 0..n /\ n \in k..n /\ n \in 0..n /\ lens[k] \in Nat /\ j \in 1..lens[k]
  OBVIOUS
<1>2. S(k) = S(k - 1) + lens[k] /\ S(k - 1) \in Nat /\ S(k) \in Nat /\ S(n) \in Nat
  BY <1>1, SumsAdd
<1>3. S(k) <= S(n)
  BY <1>1, SumsGrow
<1>4. i \in 1..S(n) /\ i - 1 \in 0..(S(n) - 1) /\ S(k - 1) <= i - 1 /\ i - 1 < S(k)
  <2> HIDE DEF S, n
  <2>1. j \in Nat /\ j >= 1 /\ j <= lens[k]
    BY <1>1
  <2>2. i \in Nat /\ i >= 1 /\ i <= S(k) /\ S(k - 1) <= i - 1
    BY <1>1, <1>2, <2>1, SMTT(30)
  <2> HIDE DEF i
  <2> QED BY <1>2, <1>3, <2>2
<1> HIDE DEF i
<1>5. Policy!Chosen(lens, i - 1) = k
  BY <1>4, ChosenByStretch
<1> QED BY <1>4, <1>5 DEF i

-----------------------------------------------------------------------------
\* Lists are lists: what ConfigsAssumption says of a configuration.
Listed(cfg) ==
    /\ cfg.targets \in Seq(Policy!ToSet(cfg.targets)) /\ cfg.conditions \in Seq(Policy!ToSet(cfg.conditions))
    /\ \A i \in DOMAIN cfg.targets : LET node == cfg.targets[i] IN
         Policy!IsPool(node) => node.targets \in Seq(Policy!ToSet(node.targets))
LeafLists(cfg) == [i \in DOMAIN cfg.targets |-> Policy!Leaves(cfg.targets[i])]
Lengths(cfg) == [i \in DOMAIN cfg.targets |-> Len(Policy!Leaves(cfg.targets[i]))]
AllLeaves(cfg) == UNION {Policy!ToSet(Policy!Leaves(cfg.targets[i])) : i \in DOMAIN cfg.targets}

\* The nodes' leaves are lists, as long as Lengths says.
LEMMA LeavesAreListed ==
  ASSUME NEW cfg, Listed(cfg), Policy!ParseConfig(cfg)
  PROVE  LET m == Len(cfg.targets)
         IN  /\ m \in 1..16 /\ DOMAIN cfg.targets = 1..m
             /\ LeafLists(cfg) \in [1..m -> Seq(AllLeaves(cfg))]
             /\ Lengths(cfg) \in Seq(Nat) /\ Len(Lengths(cfg)) = m
             /\ \A i \in 1..m : /\ Lengths(cfg)[i] = Len(LeafLists(cfg)[i])
                                /\ LeafLists(cfg)[i] = Policy!Leaves(cfg.targets[i])
                                /\ LeavesAreFine(LeafLists(cfg)[i])
<1> DEFINE m == Len(cfg.targets)
<1>1. m \in 1..16 /\ \A i \in DOMAIN cfg.targets : Policy!parse_node(cfg.targets[i])
  BY Zenon DEF Policy!ParseConfig, Policy!MAX_TARGETS_PER_LEVEL
<1>2. DOMAIN cfg.targets = 1..m
  BY DEF Listed
<1>3. \A i \in 1..m : LeavesAreFine(Policy!Leaves(cfg.targets[i]))
  BY <1>1, <1>2, LeavesOfANode DEF Listed
<1> HIDE DEF m
<1>4. \A i \in 1..m : Len(Policy!Leaves(cfg.targets[i])) \in Nat
  BY <1>3 DEF LeavesAreFine
<1>5. Lengths(cfg) \in [1..m -> Nat]
  BY <1>2, <1>4 DEF Lengths
<1>6. Lengths(cfg) \in Seq(Nat) /\ Len(Lengths(cfg)) = m
  BY <1>1, <1>5, ListsAreSequences
<1>7. LeafLists(cfg) \in [1..m -> Seq(AllLeaves(cfg))]
  <2>1. ASSUME NEW i \in 1..m PROVE Policy!Leaves(cfg.targets[i]) \in Seq(AllLeaves(cfg))
    <3> DEFINE ls == Policy!Leaves(cfg.targets[i])
    <3>1. ls \in Seq(Policy!ToSet(ls))
      BY <1>3 DEF LeavesAreFine
    <3>2. Policy!ToSet(ls) \subseteq AllLeaves(cfg)
      BY <1>2 DEF AllLeaves
    <3> HIDE DEF ls
    <3>3. ls \in Seq(AllLeaves(cfg))
      BY <3>1, <3>2
    <3> QED BY <3>3 DEF ls
  <2> QED BY <1>2, <2>1 DEF LeafLists
<1>8. \A i \in 1..m : /\ Lengths(cfg)[i] = Len(LeafLists(cfg)[i])
                      /\ LeafLists(cfg)[i] = Policy!Leaves(cfg.targets[i])
  BY <1>2 DEF Lengths, LeafLists
<1> QED BY <1>1, <1>2, <1>3, <1>6, <1>7, <1>8 DEF m

\* The flattened leaves of a configuration, and how many there are.
LEMMA AllLeavesAreFlat ==
  ASSUME NEW cfg, Listed(cfg), Policy!ParseConfig(cfg)
  PROVE  LET m == Len(cfg.targets)
         IN  /\ FlatTo(Policy!FlattenSeq(LeafLists(cfg)), LeafLists(cfg), Lengths(cfg), AllLeaves(cfg), m)
             /\ Policy!SumTo(Lengths(cfg), m) \in 1..32
<1> DEFINE m == Len(cfg.targets)
           S(i) == Policy!SumTo(Lengths(cfg), i)
<1>1. /\ m \in 1..16 /\ LeafLists(cfg) \in [1..m -> Seq(AllLeaves(cfg))]
      /\ Lengths(cfg) \in Seq(Nat) /\ Len(Lengths(cfg)) = m
      /\ \A i \in 1..m : Lengths(cfg)[i] = Len(LeafLists(cfg)[i]) /\ LeavesAreFine(LeafLists(cfg)[i])
  BY LeavesAreListed
<1> HIDE DEF m
<1>2. FlatTo(Policy!FlattenSeq(LeafLists(cfg)), LeafLists(cfg), Lengths(cfg), AllLeaves(cfg), m)
  <2>1. m \in Nat \ {0}
    BY <1>1
  <2> QED BY <1>1, <2>1, Flattening
<1>3. S(m) <= 32
  BY Zenon DEF Policy!ParseConfig, Policy!Flattened, Policy!MAX_FLATTENED_TARGETS, Lengths, m
<1>4. S(m) \in Nat /\ S(m) >= 1
  <2>1. 1 \in 1..m /\ 1 \in 0..m /\ m \in 1..m /\ m \in 0..m
    BY <1>1
  <2>2. S(1) = S(1 - 1) + Lengths(cfg)[1] /\ S(0) = 0 /\ S(m) \in Nat /\ S(1) \in Nat
    BY <1>1, <2>1, SumsAdd
  <2>3. S(1) <= S(m)
    BY <1>1, <2>1, SumsGrow
  <2>4. Lengths(cfg)[1] \in 1..16
    BY <1>1, <2>1 DEF LeavesAreFine
  <2>5. 1 - 1 = 0
    OBVIOUS
  <2> HIDE DEF S
  <2> QED BY <2>2, <2>3, <2>4, <2>5
<1> HIDE DEF S
<1>5. S(m) \in 1..32
  BY <1>3, <1>4
<1> QED BY <1>2, <1>5 DEF m, S

-----------------------------------------------------------------------------
\* Each target a leaf of its own.

\* Every target of a plan is a leaf of the configuration, each occurrence a different one.
Covered(at, chosen, all, cfg) ==
    /\ Len(chosen) \in 1..32 /\ DOMAIN chosen = 1..Len(chosen)
    /\ at \in [1..Len(chosen) -> 1..Len(all)] /\ \A i, j \in 1..Len(chosen) : at[i] = at[j] => i = j
    /\ \A j \in 1..Len(chosen) : /\ Policy!LeafOk(all[at[j]])
                                  /\ chosen[j] = Policy!leaf_to_plan(all[at[j]], cfg)
\* The plans of all nodes; perm says where each has its leaves from.
NodePlans(cfg, picks) == [i \in DOMAIN cfg.targets |-> Policy!NodePlan(cfg.targets[i], cfg, picks)]
Planned(perm, cfg, picks) == \A i \in DOMAIN cfg.targets :
    PlannedFrom(perm[i], NodePlans(cfg, picks)[i], LeafLists(cfg)[i], cfg)

\* All nodes are planned that way.
LEMMA EveryNodeIsPlanned ==
  ASSUME NEW cfg, Listed(cfg), Policy!ParseConfig(cfg), NEW picks
  PROVE  \E perm : Planned(perm, cfg, picks)
<1> DEFINE perm == [i \in DOMAIN cfg.targets |->
                      CHOOSE p : PlannedFrom(p, NodePlans(cfg, picks)[i], LeafLists(cfg)[i], cfg)]
<1>1. \A i \in DOMAIN cfg.targets : Policy!parse_node(cfg.targets[i])
  BY Zenon DEF Policy!ParseConfig
<1>2. ASSUME NEW i \in DOMAIN cfg.targets
      PROVE  \E p : PlannedFrom(p, NodePlans(cfg, picks)[i], LeafLists(cfg)[i], cfg)
  <2>1. \E p : PlannedFrom(p, Policy!NodePlan(cfg.targets[i], cfg, picks), Policy!Leaves(cfg.targets[i]), cfg)
    BY <1>1, NodesArePlanned DEF Listed
  <2> QED BY <2>1 DEF NodePlans, LeafLists
<1>3. \A i \in DOMAIN cfg.targets : PlannedFrom(perm[i], NodePlans(cfg, picks)[i], LeafLists(cfg)[i], cfg)
  BY <1>2
<1> HIDE DEF perm
<1>4. Planned(perm, cfg, picks)
  BY <1>3 DEF Planned
<1> QED BY <1>4

\* Where the jth target of node k stands among all the leaves.
LEMMA TargetOfANode ==
  ASSUME NEW cfg, Listed(cfg), Policy!ParseConfig(cfg), NEW picks, NEW perm, Planned(perm, cfg, picks),
         NEW k \in 1..Len(cfg.targets), NEW j \in 1..Lengths(cfg)[k]
  PROVE  LET i == Policy!SumTo(Lengths(cfg), k - 1) + perm[k][j]
             all == Policy!FlattenSeq(LeafLists(cfg))
         IN  /\ perm[k][j] \in 1..Lengths(cfg)[k]
             /\ i \in 1..Len(all) /\ Policy!Chosen(Lengths(cfg), i - 1) = k
             /\ Policy!LeafOk(all[i]) /\ NodePlans(cfg, picks)[k][j] = Policy!leaf_to_plan(all[i], cfg)
<1> DEFINE m == Len(cfg.targets)
           lens == Lengths(cfg)
           S(c) == Policy!SumTo(lens, c)
           ls == LeafLists(cfg)
           all == Policy!FlattenSeq(ls)
           p == perm[k][j]
           i == S(k - 1) + p
<1>1. /\ DOMAIN cfg.targets = 1..m /\ lens \in Seq(Nat) /\ Len(lens) = m /\ lens[k] = Len(ls[k])
      /\ LeavesAreFine(ls[k])
  BY LeavesAreListed
<1>2. FlatTo(all, ls, lens, AllLeaves(cfg), m)
  BY AllLeavesAreFlat
<1>3. PlannedFrom(perm[k], NodePlans(cfg, picks)[k], ls[k], cfg)
  BY <1>1 DEF Planned
<1> HIDE DEF m, lens, ls, all
<1>4. p \in 1..lens[k] /\ NodePlans(cfg, picks)[k][j] = Policy!leaf_to_plan(ls[k][p], cfg)
  BY <1>1, <1>3 DEF PlannedFrom, lens
<1> HIDE DEF p
<1>5. i \in 1..S(m) /\ Policy!Chosen(lens, i - 1) = k
  <2>1. k \in 1..Len(lens)
    BY <1>1 DEF m
  <2> QED BY <1>1, <1>4, <2>1, IndexOfAPlace
<1>6. Len(all) = S(m) /\ all[i] = ls[k][p]
  <2>1. k \in 1..m
    BY DEF m
  <2> QED BY <1>2, <1>4, <2>1 DEF FlatTo
<1>7. Policy!LeafOk(ls[k][p])
  BY <1>1, <1>4 DEF LeavesAreFine
<1> QED BY <1>4, <1>5, <1>6, <1>7 DEF p, m, lens, ls, all

\* The targets of one node are leaves of the configuration.
LEMMA NodeIsCovered ==
  ASSUME NEW cfg, Listed(cfg), Policy!ParseConfig(cfg), NEW picks, NEW k \in 1..Len(cfg.targets)
  PROVE  \E at : Covered(at, NodePlans(cfg, picks)[k], Policy!FlattenSeq(LeafLists(cfg)), cfg)
<1> DEFINE route == NodePlans(cfg, picks)[k]
           all == Policy!FlattenSeq(LeafLists(cfg))
           n == Lengths(cfg)[k]
           start == Policy!SumTo(Lengths(cfg), k - 1)
<1>1. PICK perm : Planned(perm, cfg, picks)
  BY EveryNodeIsPlanned
<1> DEFINE at == [j \in 1..n |-> start + perm[k][j]]
<1>2. /\ DOMAIN cfg.targets = 1..Len(cfg.targets) /\ Lengths(cfg) \in Seq(Nat) /\ Len(Lengths(cfg)) = Len(cfg.targets)
      /\ n = Len(LeafLists(cfg)[k]) /\ LeavesAreFine(LeafLists(cfg)[k])
  BY LeavesAreListed
<1>3. n \in 1..16 /\ start \in Nat
  <2>1. k - 1 \in 0..Len(Lengths(cfg))
    BY <1>2
  <2>2. start \in Nat
    BY <1>2, <2>1, SumsAdd
  <2> QED BY <1>2, <2>2 DEF LeavesAreFine
<1>4. PlannedFrom(perm[k], route, LeafLists(cfg)[k], cfg)
  BY <1>1, <1>2 DEF Planned
<1>5. \A j \in 1..n : /\ perm[k][j] \in 1..n /\ start + perm[k][j] \in 1..Len(all)
                      /\ Policy!LeafOk(all[start + perm[k][j]])
                      /\ route[j] = Policy!leaf_to_plan(all[start + perm[k][j]], cfg)
  BY <1>1, TargetOfANode
<1>6. DOMAIN route = 1..n /\ Len(route) = n /\ \A i, j \in 1..n : perm[k][i] = perm[k][j] => i = j
  <2> HIDE DEF route, n
  <2>1. route = [j \in 1..n |-> Policy!leaf_to_plan(LeafLists(cfg)[k][perm[k][j]], cfg)] /\ \A i, j \in 1..n : perm[k][i] = perm[k][j] => i = j
    BY <1>2, <1>4 DEF PlannedFrom
  <2>2. n \in Nat
    BY <1>3
  <2> QED BY <2>1, <2>2
<1> HIDE DEF route, all, n, start
<1>7. at \in [1..n -> 1..Len(all)] /\ \A i, j \in 1..n : at[i] = at[j] => i = j
  <2>1. \A i, j \in 1..n : start + perm[k][i] = start + perm[k][j] => perm[k][i] = perm[k][j]
    BY <1>3, <1>5
  <2> QED BY <1>5, <1>6, <2>1
<1>8. \A j \in 1..n : Policy!LeafOk(all[at[j]]) /\ route[j] = Policy!leaf_to_plan(all[at[j]], cfg)
  BY <1>5
<1>9. Len(route) \in 1..32
  BY <1>3, <1>6
<1> HIDE DEF at
<1>10. Covered(at, route, all, cfg)
  BY <1>6, <1>7, <1>8, <1>9 DEF Covered
<1> QED BY <1>10 DEF route, all

-----------------------------------------------------------------------------
\* The plan of a whole configuration.

\* All plans one behind the other are as long as all leaves.
LEMMA PlansAreFlat ==
  ASSUME NEW cfg, Listed(cfg), Policy!ParseConfig(cfg), NEW picks, NEW perm, Planned(perm, cfg, picks)
  PROVE  \E X : FlatTo(Policy!FlattenSeq(NodePlans(cfg, picks)), NodePlans(cfg, picks), Lengths(cfg), X, Len(cfg.targets))
<1> DEFINE m == Len(cfg.targets)
           lens == Lengths(cfg)
           plans == NodePlans(cfg, picks)
           X == {Policy!leaf_to_plan(l, cfg) : l \in AllLeaves(cfg)}
<1>1. /\ m \in 1..16 /\ DOMAIN cfg.targets = 1..m /\ lens \in Seq(Nat) /\ Len(lens) = m
      /\ LeafLists(cfg) \in [1..m -> Seq(AllLeaves(cfg))]
      /\ \A i \in 1..m : lens[i] = Len(LeafLists(cfg)[i])
  BY LeavesAreListed
<1>2. ASSUME NEW i \in 1..m PROVE plans[i] \in Seq(X) /\ Len(plans[i]) = lens[i]
  <2> DEFINE ls == LeafLists(cfg)[i]
             n == Len(ls)
  <2>1. PlannedFrom(perm[i], plans[i], ls, cfg)
    BY <1>1 DEF Planned
  <2>2. ls \in Seq(AllLeaves(cfg)) /\ lens[i] = n
    BY <1>1
  <2>3. n \in Nat /\ \A j \in 1..n : ls[j] \in AllLeaves(cfg)
    BY <2>2
  <2> HIDE DEF plans, ls, n
  <2>4. plans[i] = [j \in 1..n |-> Policy!leaf_to_plan(ls[perm[i][j]], cfg)] /\ \A j \in 1..n : perm[i][j] \in 1..n
    BY <2>1 DEF PlannedFrom, n
  <2>5. \A j \in 1..n : Policy!leaf_to_plan(ls[perm[i][j]], cfg) \in X
    BY <2>3, <2>4
  <2> HIDE DEF X
  <2>6. plans[i] \in [1..n -> X]
    BY <2>4, <2>5
  <2> QED BY <2>2, <2>3, <2>6, ListsAreSequences
<1>3. plans \in [1..m -> Seq(X)]
  <2>1. DOMAIN plans = 1..m /\ plans = [i \in 1..m |-> plans[i]]
    BY <1>1 DEF NodePlans
  <2> HIDE DEF plans, X
  <2> QED BY <1>2, <2>1
<1> HIDE DEF m, lens, plans, X
<1>4. m \in Nat \ {0}
  BY <1>1
<1>5. FlatTo(Policy!FlattenSeq(plans), plans, lens, X, m)
  BY <1>1, <1>2, <1>3, <1>4, Flattening
<1> QED BY <1>5 DEF m, lens, plans

\* So are those of all nodes together.
LEMMA WholeIsCovered ==
  ASSUME NEW cfg, Listed(cfg), Policy!ParseConfig(cfg), NEW picks
  PROVE  \E at : Covered(at, Policy!FlattenSeq(NodePlans(cfg, picks)), Policy!FlattenSeq(LeafLists(cfg)), cfg)
<1> DEFINE m == Len(cfg.targets)
           lens == Lengths(cfg)
           S(c) == Policy!SumTo(lens, c)
           total == S(m)
           plans == NodePlans(cfg, picks)
           chosen == Policy!FlattenSeq(plans)
           all == Policy!FlattenSeq(LeafLists(cfg))
           node(i) == Policy!Chosen(lens, i - 1)
           nth(i) == i - S(node(i) - 1)
<1>1. PICK perm : Planned(perm, cfg, picks)
  BY EveryNodeIsPlanned
<1> DEFINE to(i) == S(node(i) - 1) + perm[node(i)][nth(i)]
           at == [i \in 1..total |-> to(i)]
<1>2. m \in 1..16 /\ lens \in Seq(Nat) /\ Len(lens) = m /\ DOMAIN cfg.targets = 1..m
  BY LeavesAreListed
<1>3. total \in 1..32
  BY AllLeavesAreFlat
<1>4. PICK X : FlatTo(chosen, plans, lens, X, m)
  BY <1>1, PlansAreFlat
<1>5. \A i \in 1..total : node(i) \in 1..m /\ nth(i) \in 1..lens[node(i)]
  <2> SUFFICES ASSUME NEW i \in 1..total PROVE node(i) \in 1..m /\ nth(i) \in 1..lens[node(i)]
    OBVIOUS
  <2>1. Len(lens) > 0 /\ i \in 1..Policy!SumTo(lens, Len(lens))
    BY <1>2
  <2> QED BY <1>2, <2>1, PlaceOfAnIndex
<1>6. chosen \in Seq(X) /\ Len(chosen) = total
      /\ \A k \in 1..m : \A j \in 1..lens[k] : chosen[S(k - 1) + j] = plans[k][j]
  BY <1>4 DEF FlatTo
<1>7. ASSUME NEW i \in 1..total
      PROVE  /\ chosen[i] = plans[node(i)][nth(i)] /\ i = S(node(i) - 1) + nth(i) /\ S(node(i) - 1) \in Nat
             /\ perm[node(i)][nth(i)] \in 1..lens[node(i)]
             /\ to(i) \in 1..Len(all) /\ node(to(i)) = node(i)
             /\ Policy!LeafOk(all[to(i)]) /\ plans[node(i)][nth(i)] = Policy!leaf_to_plan(all[to(i)], cfg)
  <2> DEFINE k == node(i)
             j == nth(i)
             s == S(k - 1)
  <2>1. k \in 1..m /\ j \in 1..lens[k]
    BY <1>5
  <2>2. s \in Nat
    <3>1. k - 1 \in 0..Len(lens)
      BY <1>2, <2>1
    <3> QED BY <1>2, <3>1, SumsAdd
  <2>3. i = s + j
    <3>1. i \in Int
      BY <1>3
    <3>2. j = i - s
      BY Zenon
    <3> HIDE DEF s, j
    <3> QED BY <2>2, <3>1, <3>2
  <2>4. /\ perm[k][j] \in 1..lens[k] /\ s + perm[k][j] \in 1..Len(all) /\ Policy!Chosen(lens, (s + perm[k][j]) - 1) = k
        /\ Policy!LeafOk(all[s + perm[k][j]]) /\ plans[k][j] = Policy!leaf_to_plan(all[s + perm[k][j]], cfg)
    <3> HIDE DEF k, j
    <3> QED BY <1>1, <2>1, TargetOfANode
  <2>5. chosen[s + j] = plans[k][j]
    <3> HIDE DEF k, j, chosen, plans
    <3> QED BY <1>6, <2>1
  <2> HIDE DEF chosen, plans, all
  <2>6. chosen[i] = plans[k][j]
    <3> HIDE DEF k, j, s
    <3> QED BY <2>3, <2>5
  <2> QED BY Zenon, <2>2, <2>3, <2>4, <2>6
<1>8. \A k \in 1..m : \A i, j \in 1..lens[k] : perm[k][i] = perm[k][j] => i = j
  <2>1. \A k \in 1..m : lens[k] = Len(LeafLists(cfg)[k])
    BY LeavesAreListed
  <2>2. \A k \in 1..m : PlannedFrom(perm[k], plans[k], LeafLists(cfg)[k], cfg)
    BY <1>1, <1>2 DEF Planned
  <2> HIDE DEF plans, lens
  <2> QED BY <2>1, <2>2 DEF PlannedFrom
<1> HIDE DEF node, nth
<1>9. ASSUME NEW i \in 1..total, NEW j \in 1..total, to(i) = to(j) PROVE i = j
  <2>1. node(i) = node(j)
    BY <1>7, <1>9
  <2>2. perm[node(i)][nth(i)] = perm[node(j)][nth(j)]
    <3>1. S(node(i) - 1) = S(node(j) - 1) /\ S(node(i) - 1) \in Nat /\ lens[node(i)] = lens[node(j)]
      BY <1>7, <2>1
    <3>2. perm[node(i)][nth(i)] \in 1..lens[node(i)] /\ perm[node(j)][nth(j)] \in 1..lens[node(j)]
      BY <1>7
    <3> HIDE DEF S
    <3> QED BY <1>9, <3>1, <3>2
  <2>3. nth(i) = nth(j)
    BY <1>5, <1>8, <2>1, <2>2
  <2> QED BY <1>7, <2>1, <2>3
<1>10. \A i \in 1..total : to(i) \in 1..Len(all) /\ Policy!LeafOk(all[to(i)])
                           /\ chosen[i] = Policy!leaf_to_plan(all[to(i)], cfg)
  BY Zenon, <1>7
<1> HIDE DEF to, total, chosen, all
<1>11. at \in [1..total -> 1..Len(all)] /\ \A i, j \in 1..total : at[i] = at[j] => i = j
  BY <1>9, <1>10
<1>12. \A i \in 1..total : Policy!LeafOk(all[at[i]]) /\ chosen[i] = Policy!leaf_to_plan(all[at[i]], cfg)
  BY <1>10
<1>13. DOMAIN chosen = 1..total
  BY <1>6
<1> HIDE DEF at
<1>14. Covered(at, chosen, all, cfg)
  BY <1>3, <1>6, <1>11, <1>12, <1>13 DEF Covered
<1> QED BY <1>14 DEF chosen, all, plans

-----------------------------------------------------------------------------
\* What covered targets obey.

\* What AcceptedPlanIsBounded says of the targets, whatever the strategy.
TargetsAreBounded(chosen, all, req) ==
    LET Times(s, l) == Policy!Cardinality({i \in DOMAIN s : s[i] = l})
    IN  \A t \in Policy!ToSet(chosen) :
          LET shaped == Policy!Apply(t.leaf.params, req) IN
          /\ Times([j \in DOMAIN chosen |-> chosen[j].leaf], t.leaf) <= Times(all, t.leaf)
          /\ t.retry.attempts <= Policy!MAX_RETRY_ATTEMPTS /\ t.retry.on_status \subseteq Policy!ALLOWED_RETRY_STATUS
          /\ \A k \in 0..32 : Policy!Base(t.retry.backoff, k) \in 1..Policy!BACKOFF_MAX_CAP_MS
          /\ Policy!WellFormed(shaped)
          /\ Policy!TookEffect(t.leaf.params, shaped) \/ (shaped = req /\ ~Policy!WellTyped(t.leaf.params))
          /\ \A f \in (DOMAIN req \cup DOMAIN shaped) \ Policy!PARAM_ALLOWLIST : Policy!Alike(shaped, req, f)

\* l stands in s no more often than in all.
NoMoreOftenThan(s, all, l) ==
    Policy!Cardinality({i \in DOMAIN s : s[i] = l}) <= Policy!Cardinality({i \in DOMAIN all : all[i] = l})

\* A leaf is tried no more often than the configuration has it.
LEMMA NoMoreOften ==
  ASSUME NEW X, NEW all \in Seq(X), NEW n \in Nat, NEW leaves, DOMAIN leaves = 1..n,
         NEW at \in [1..n -> 1..Len(all)], \A i, j \in 1..n : at[i] = at[j] => i = j,
         \A j \in 1..n : leaves[j] = all[at[j]], NEW l
  PROVE  NoMoreOftenThan(leaves, all, l)
<1> DEFINE A == {i \in 1..n : leaves[i] = l}
           B == {i \in 1..Len(all) : all[i] = l}
           f == [i \in A |-> at[i]]
<1>1. Len(all) \in Nat /\ DOMAIN all = 1..Len(all)
  OBVIOUS
<1>2. IsFiniteSet(B)
  <2>1. IsFiniteSet(1..Len(all)) /\ B \subseteq 1..Len(all)
    BY <1>1, FS_Interval
  <2> HIDE DEF B
  <2> QED BY <2>1, FS_Subset
<1>3. f \in Injection(A, B)
  BY DEF Injection, IsInjective
<1> HIDE DEF f
<1>4. Cardinality(A) <= Cardinality(B)
  BY <1>2, <1>3, FS_Injection
<1> QED BY <1>1, <1>4, SameCount DEF NoMoreOftenThan

\* Targets that are leaves of an accepted configuration are bounded.
LEMMA CoveredIsBounded ==
  ASSUME NEW cfg, cfg.retry = [absent |-> TRUE] \/ Policy!parse_retry(cfg.retry).ok,
         NEW req, Policy!WellFormed(req), NEW X, NEW all \in Seq(X), NEW chosen, NEW at, Covered(at, chosen, all, cfg)
  PROVE  TargetsAreBounded(chosen, all, req)
<1> DEFINE n == Len(chosen)
           leaves == [j \in DOMAIN chosen |-> chosen[j].leaf]
<1>1. n \in Nat /\ DOMAIN chosen = 1..n /\ at \in [1..n -> 1..Len(all)]
      /\ (\A i, j \in 1..n : at[i] = at[j] => i = j)
      /\ \A j \in 1..n : Policy!LeafOk(all[at[j]]) /\ chosen[j] = Policy!leaf_to_plan(all[at[j]], cfg)
  BY DEF Covered
<1> HIDE DEF n
<1>2. \A j \in 1..n : /\ Policy!LeafOk(chosen[j].leaf) /\ chosen[j].leaf = all[at[j]]
                      /\ RetryIsBounded(chosen[j].retry)
  BY <1>1, PlannedRetryIsBounded
<1>3. \A j \in 1..n : leaves[j] = all[at[j]]
  BY <1>1, <1>2
<1>4. \A l : NoMoreOftenThan(leaves, all, l)
  <2>1. DOMAIN leaves = 1..n
    BY <1>1
  <2> HIDE DEF leaves
  <2> QED BY <1>1, <1>3, <2>1, NoMoreOften
<1>5. \A t \in Policy!ToSet(chosen) : Policy!LeafOk(t.leaf) /\ RetryIsBounded(t.retry)
  BY <1>1, <1>2 DEF Policy!ToSet
<1>6. \A l : Policy!LeafOk(l) => Policy!parse_params(l.params).ok
  BY Zenon DEF Policy!LeafOk
<1> SUFFICES ASSUME NEW t \in Policy!ToSet(chosen)
             PROVE  LET shaped == Policy!Apply(t.leaf.params, req) IN
                    /\ Policy!Cardinality({i \in DOMAIN leaves : leaves[i] = t.leaf}) <= Policy!Cardinality({i \in DOMAIN all : all[i] = t.leaf})
                    /\ t.retry.attempts <= Policy!MAX_RETRY_ATTEMPTS /\ t.retry.on_status \subseteq Policy!ALLOWED_RETRY_STATUS
                    /\ \A k \in 0..32 : Policy!Base(t.retry.backoff, k) \in 1..Policy!BACKOFF_MAX_CAP_MS
                    /\ Policy!WellFormed(shaped)
                    /\ Policy!TookEffect(t.leaf.params, shaped) \/ (shaped = req /\ ~Policy!WellTyped(t.leaf.params))
                    /\ \A f \in (DOMAIN req \cup DOMAIN shaped) \ Policy!PARAM_ALLOWLIST : Policy!Alike(shaped, req, f)
  BY Zenon DEF TargetsAreBounded
<1>7. Policy!parse_params(t.leaf.params).ok
  BY <1>5, <1>6
<1>8. RetryIsBounded(t.retry)
  BY <1>5
<1>9. /\ t.retry.attempts <= Policy!MAX_RETRY_ATTEMPTS /\ t.retry.on_status \subseteq Policy!ALLOWED_RETRY_STATUS
      /\ \A k \in 0..32 : Policy!Base(t.retry.backoff, k) \in 1..Policy!BACKOFF_MAX_CAP_MS
  BY <1>8 DEF RetryIsBounded
<1>10. ShapedWhole(t.leaf.params, req)
  BY <1>7, ShapedAsAWhole
<1> HIDE DEF leaves
<1> QED BY <1>4, <1>9, <1>10 DEF NoMoreOftenThan, ShapedWhole

-----------------------------------------------------------------------------
\* The target of a conditional configuration.
Named(cfg, chosen, name) == \E n \in DOMAIN cfg.targets :
    /\ cfg.targets[n].name = name
    /\ Policy!ToSet([j \in DOMAIN chosen |-> chosen[j].leaf]) = Policy!ToSet(Policy!Leaves(cfg.targets[n]))

\* A node's targets are its leaves, none left out.
LEMMA NodeHasItsLeaves ==
  ASSUME NEW cfg, Listed(cfg), Policy!ParseConfig(cfg), NEW picks, NEW n \in DOMAIN cfg.targets
  PROVE  LET chosen == NodePlans(cfg, picks)[n]
         IN  Policy!ToSet([j \in DOMAIN chosen |-> chosen[j].leaf]) = Policy!ToSet(Policy!Leaves(cfg.targets[n]))
<1> DEFINE chosen == NodePlans(cfg, picks)[n]
           ls == Policy!Leaves(cfg.targets[n])
           k == Len(ls)
           leaves == [j \in DOMAIN chosen |-> chosen[j].leaf]
<1>1. PICK perm : Planned(perm, cfg, picks)
  BY EveryNodeIsPlanned
<1>2. LeavesAreFine(ls) /\ LeafLists(cfg)[n] = ls
  BY LeavesAreListed
<1>3. PlannedFrom(perm[n], chosen, ls, cfg)
  BY <1>1, <1>2 DEF Planned
<1>4. k \in Nat /\ DOMAIN ls = 1..k /\ \A i \in 1..k : Policy!LeafOk(ls[i])
  BY <1>2 DEF LeavesAreFine
<1> DEFINE p == perm[n]
<1> HIDE DEF p, chosen, ls
<1>5. /\ p \in [1..k -> 1..k] /\ (\A i, j \in 1..k : p[i] = p[j] => i = j)
      /\ chosen = [j \in 1..k |-> Policy!leaf_to_plan(ls[p[j]], cfg)]
  BY <1>3 DEF PlannedFrom, p
<1>6. cfg.retry = [absent |-> TRUE] \/ Policy!parse_retry(cfg.retry).ok
  BY Zenon DEF Policy!ParseConfig
<1> HIDE DEF k
<1>7. DOMAIN leaves = 1..k /\ \A j \in 1..k : leaves[j] = ls[p[j]]
  <2>1. \A j \in 1..k : Policy!leaf_to_plan(ls[p[j]], cfg).leaf = ls[p[j]]
    BY <1>4, <1>5, <1>6, PlannedRetryIsBounded
  <2> QED BY <1>5, <2>1
<1>8. \A r \in 1..k : \E j \in 1..k : p[j] = r
  <2>1. p \in Injection(1..k, 1..k)
    BY <1>5 DEF Injection, IsInjective
  <2>2. p \in Surjection(1..k, 1..k)
    BY <1>4, <2>1, FS_Injection, FS_Interval
  <2> QED BY <2>2 DEF Surjection
<1> HIDE DEF leaves
<1>9. Policy!ToSet(leaves) = Policy!ToSet(ls)
  BY <1>4, <1>5, <1>7, <1>8 DEF Policy!ToSet
<1> QED BY <1>9 DEF leaves, chosen, ls

-----------------------------------------------------------------------------
\* Accepted configurations.

\* Condition i applies.
Holds(cfg, metadata, req, i) == Policy!eval_when(cfg.conditions[i].when, metadata, req)
FirstConditionNames(cfg, chosen, metadata, req) ==
    \/ (\A i \in DOMAIN cfg.conditions : ~Holds(cfg, metadata, req, i)) /\ Named(cfg, chosen, cfg.default_target)
    \/ \E i \in DOMAIN cfg.conditions :
         /\ Holds(cfg, metadata, req, i) /\ \A j \in 1..(i - 1) : ~Holds(cfg, metadata, req, j)
         /\ Named(cfg, chosen, cfg.conditions[i].target)

\* Every name a conditional configuration uses is the name of a target.
LEMMA NamesExist ==
  ASSUME NEW cfg, Policy!ParseConfig(cfg), cfg.strategy = "conditional"
  PROVE  LET names == {cfg.targets[i].name : i \in DOMAIN cfg.targets}
         IN  cfg.default_target \in names /\ \A i \in DOMAIN cfg.conditions : cfg.conditions[i].target \in names
<1>1. Policy!validate_conditional(cfg)
  BY Zenon DEF Policy!ParseConfig
<1> QED BY Zenon, <1>1 DEF Policy!validate_conditional

\* What a conditional configuration evaluates to.
LEMMA ConditionalPlan ==
  ASSUME NEW cfg, Listed(cfg), Policy!ParseConfig(cfg), cfg.strategy = "conditional",
         NEW metadata, NEW req, NEW picks, NEW route, route = Policy!evaluate(cfg, metadata, req, picks)
  PROVE  /\ route.strategy \in Policy!Strategy
         /\ \E n \in DOMAIN cfg.targets : route.targets = NodePlans(cfg, picks)[n]
         /\ FirstConditionNames(cfg, route.targets, metadata, req)
<1> DEFINE H(i) == Holds(cfg, metadata, req, i)
           hits == {i \in DOMAIN cfg.conditions : H(i)}
           first == CHOOSE x \in hits : \A y \in hits : x <= y
           name == IF hits = {} THEN cfg.default_target ELSE cfg.conditions[first].target
           named == {i \in DOMAIN cfg.targets : cfg.targets[i].name = name}
           n == CHOOSE x \in named : \A y \in named : x <= y
           node == cfg.targets[n]
<1>1. DOMAIN cfg.conditions = 1..Len(cfg.conditions) /\ DOMAIN cfg.targets = 1..Len(cfg.targets)
  BY DEF Listed
<1>2. hits # {} => first \in hits /\ \A y \in hits : first <= y
  <2>1. hits \subseteq Nat
    BY <1>1
  <2> HIDE DEF hits
  <2>2. hits # {} => \E x \in hits : \A y \in hits : x <= y
    BY <2>1, LeastExists
  <2> QED BY <2>2
<1>3. name \in {cfg.targets[i].name : i \in DOMAIN cfg.targets}
  <2> HIDE DEF first
  <2>1. /\ cfg.default_target \in {cfg.targets[i].name : i \in DOMAIN cfg.targets}
        /\ \A i \in DOMAIN cfg.conditions : cfg.conditions[i].target \in {cfg.targets[c].name : c \in DOMAIN cfg.targets}
    BY NamesExist
  <2>2. hits # {} => first \in DOMAIN cfg.conditions
    BY <1>2
  <2> HIDE DEF hits
  <2> QED BY <2>1, <2>2
<1> HIDE DEF name
<1>4. named # {} /\ n \in named
  <2>1. named # {} /\ named \subseteq Nat
    BY <1>1, <1>3
  <2> HIDE DEF named
  <2>2. \E x \in named : \A y \in named : x <= y
    BY <2>1, LeastExists
  <2> QED BY <2>1, <2>2
<1> DEFINE value == [strategy |-> IF Policy!IsPool(node) THEN node.strategy ELSE "priority",
                     targets |-> Policy!NodePlan(node, cfg, picks),
                     matched |-> IF hits = {} THEN "default" ELSE "condition"]
<1>5. route = value
  <2>1. hits = {i \in DOMAIN cfg.conditions : Policy!eval_when(cfg.conditions[i].when, metadata, req)}
    BY DEF Holds
  <2> DEFINE name2 == IF hits = {} THEN cfg.default_target ELSE cfg.conditions[Policy!Min(hits)].target
             named2 == {i \in DOMAIN cfg.targets : cfg.targets[i].name = name2}
             node2 == cfg.targets[IF named2 = {} THEN 1 ELSE Policy!Min(named2)]
  <2> HIDE DEF hits
  <2>2. route = [strategy |-> IF Policy!IsPool(node2) THEN node2.strategy ELSE "priority",
                targets |-> Policy!NodePlan(node2, cfg, picks),
                matched |-> IF hits = {} THEN "default" ELSE "condition"]
    BY Zenon, <2>1 DEF Policy!evaluate
  <2>3. name2 = name
    BY Zenon DEF name, Policy!Min
  <2> HIDE DEF name2
  <2>4. named2 = named
    BY <2>3
  <2> HIDE DEF named2, named
  <2>5. node2 = node
    BY Zenon, <1>4, <2>4 DEF Policy!Min
  <2> QED BY Zenon, <2>2, <2>5
<1>6. n \in DOMAIN cfg.targets /\ cfg.targets[n].name = name
  BY <1>4
<1> HIDE DEF n, named
<1>7. Policy!parse_node(node)
  BY Zenon, <1>6 DEF Policy!ParseConfig
<1>8. route.strategy = (IF Policy!IsPool(node) THEN node.strategy ELSE "priority") /\ route.targets = Policy!NodePlan(node, cfg, picks)
  BY <1>5
<1> HIDE DEF value
<1>9. route.strategy \in Policy!Strategy
  <2>1. CASE Policy!IsPool(node)
    <3>1. Policy!ParseStrategy(node.strategy).ok /\ node.strategy # "conditional"
      BY Zenon, <1>7, <2>1 DEF Policy!parse_node
    <3> QED BY <1>8, <2>1, <3>1 DEF Policy!ParseStrategy, Policy!PolicyStrategy, Policy!Err
  <2>2. CASE ~Policy!IsPool(node)
    BY <1>8, <2>2 DEF Policy!Strategy
  <2> QED BY <2>1, <2>2
<1>10. route.targets = NodePlans(cfg, picks)[n]
  BY <1>6, <1>8 DEF NodePlans
<1>11. Named(cfg, route.targets, name)
  <2>1. Policy!ToSet([j \in DOMAIN route.targets |-> route.targets[j].leaf]) = Policy!ToSet(Policy!Leaves(cfg.targets[n]))
    BY <1>6, <1>10, NodeHasItsLeaves
  <2> QED BY <1>6, <2>1 DEF Named
<1>12. FirstConditionNames(cfg, route.targets, metadata, req)
  <2>1. CASE hits = {}
    <3>1. \A i \in DOMAIN cfg.conditions : ~H(i)
      BY <2>1
    <3>2. name = cfg.default_target
      BY <2>1 DEF name
    <3> QED BY <1>11, <3>1, <3>2 DEF FirstConditionNames
  <2>2. CASE hits # {}
    <3>1. first \in DOMAIN cfg.conditions /\ H(first) /\ \A y \in hits : first <= y
      BY <1>2, <2>2
    <3>2. name = cfg.conditions[first].target
      BY <2>2 DEF name
    <3> HIDE DEF first
    <3>3. \A j \in 1..(first - 1) : ~H(j)
      <4> SUFFICES ASSUME NEW j \in 1..(first - 1), H(j) PROVE FALSE
        OBVIOUS
      <4>1. j \in DOMAIN cfg.conditions /\ first \in Nat
        BY <1>1, <3>1
      <4>2. first <= j
        BY <3>1, <4>1
      <4> HIDE DEF H
      <4> QED BY <4>1, <4>2
    <3> QED BY <1>11, <3>1, <3>2, <3>3 DEF FirstConditionNames
  <2> QED BY <2>1, <2>2
<1> QED BY <1>6, <1>9, <1>10, <1>12

\* What any other configuration evaluates to.
LEMMA OtherPlans ==
  ASSUME NEW cfg, Policy!ParseConfig(cfg), cfg.strategy # "conditional",
         NEW metadata, NEW req, NEW picks, NEW route, route = Policy!evaluate(cfg, metadata, req, picks)
  PROVE  route.strategy \in Policy!Strategy /\ route.targets = Policy!FlattenSeq(NodePlans(cfg, picks))
<1>1. route = [strategy |-> cfg.strategy, matched |-> "none",
              targets |-> Policy!FlattenSeq([i \in DOMAIN cfg.targets |-> Policy!NodePlan(cfg.targets[i], cfg, picks)])]
  BY Zenon DEF Policy!evaluate
<1>2. route = [strategy |-> cfg.strategy, matched |-> "none", targets |-> Policy!FlattenSeq(NodePlans(cfg, picks))]
  BY Zenon, <1>1 DEF NodePlans
<1>3. Policy!ParseStrategy(cfg.strategy).ok
  BY Zenon DEF Policy!ParseConfig
<1>4. cfg.strategy \in Policy!Strategy
  BY <1>3 DEF Policy!ParseStrategy, Policy!PolicyStrategy, Policy!Err
<1> QED BY <1>2, <1>4

-----------------------------------------------------------------------------
\* A configuration that parses has a plan within the documented bounds (policy/src/lib.rs).
LEMMA AcceptedPlanIsBoundedAlways ==
  ASSUME NEW cfg, Listed(cfg), NEW metadata, NEW req, Policy!WellFormed(req), NEW picks
  PROVE  Policy!AcceptedPlanIsBounded(cfg, metadata, req, picks)
<1> SUFFICES ASSUME Policy!ParseConfig(cfg)
             PROVE  Policy!AcceptedPlanIsBounded(cfg, metadata, req, picks)
  BY Zenon DEF Policy!AcceptedPlanIsBounded
<1> DEFINE route == Policy!evaluate(cfg, metadata, req, picks)
           all == Policy!FlattenSeq(LeafLists(cfg))
<1>1. \E at : Covered(at, route.targets, all, cfg)
  <2>1. CASE cfg.strategy = "conditional"
    <3>1. PICK n \in DOMAIN cfg.targets : route.targets = NodePlans(cfg, picks)[n]
      BY <2>1, ConditionalPlan
    <3>2. n \in 1..Len(cfg.targets)
      BY DEF Listed
    <3> HIDE DEF route
    <3> QED BY <3>1, <3>2, NodeIsCovered
  <2>2. CASE cfg.strategy # "conditional"
    <3>1. route.targets = Policy!FlattenSeq(NodePlans(cfg, picks))
      BY <2>2, OtherPlans
    <3> HIDE DEF route
    <3> QED BY <3>1, WholeIsCovered
  <2> QED BY <2>1, <2>2
<1>2. route.strategy \in Policy!Strategy
  BY ConditionalPlan, OtherPlans
<1>3. cfg.strategy = "conditional" => FirstConditionNames(cfg, route.targets, metadata, req)
  BY ConditionalPlan
<1> HIDE DEF route
<1>4. PICK at : Covered(at, route.targets, all, cfg)
  BY <1>1
<1>5. all \in Seq(AllLeaves(cfg))
  BY AllLeavesAreFlat DEF FlatTo
<1>6. TargetsAreBounded(route.targets, all, req)
  <2>1. cfg.retry = [absent |-> TRUE] \/ Policy!parse_retry(cfg.retry).ok
    BY Zenon DEF Policy!ParseConfig
  <2> HIDE DEF all
  <2> QED BY <1>4, <1>5, <2>1, CoveredIsBounded
<1>7. Len(route.targets) \in 1..Policy!MAX_FLATTENED_TARGETS
  BY <1>4 DEF Covered, Policy!MAX_FLATTENED_TARGETS
<1>8. all = Policy!FlattenSeq([i \in DOMAIN cfg.targets |-> Policy!Leaves(cfg.targets[i])])
  BY Zenon DEF LeafLists
<1> HIDE DEF all
<1> QED BY ZenonT(40), <1>2, <1>3, <1>6, <1>7, <1>8
        DEF Policy!AcceptedPlanIsBounded, route, TargetsAreBounded, FirstConditionNames, Holds, Named

-----------------------------------------------------------------------------
\* The walk over the candidates of a sibling endpoint.

Report == {"success", "failure"}
WalkState(names) ==
    [answered : BOOLEAN, stop : BOOLEAN, unsupported : BOOLEAN, asked : Seq(names), usage : Seq(Report),
     health : Seq(names \X Report), latency : SUBSET names, settled : Seq({"tokens", "images", "zero"})]

\* What has been asked: providers the tenant may ask, within the deadline.
AskedRightly(w, s) ==
    /\ Len(s.asked) <= w.deadline
    /\ \A i \in 1..Len(s.asked) : s.asked[i] \in DOMAIN w.registry \cup w.custom
\* What has been recorded: a row for each, the last a success exactly if one answered.
RecordedRightly(w, s) ==
    /\ Len(s.usage) = Len(s.asked)
    /\ \A i \in 1..Len(s.asked) : s.usage[i] = "success" <=> w.outcome[s.asked[i]] = "ok"
    /\ \A i \in 1..Len(s.asked) : w.outcome[s.asked[i]] = "ok" => s.answered /\ i = Len(s.asked)
    /\ s.answered => Len(s.asked) >= 1 /\ w.outcome[s.asked[Len(s.asked)]] = "ok"
    /\ Len(s.settled) = IF s.answered THEN 1 ELSE 0
\* Whom the tracker has been told about.
ReportedRightly(w, s) == \A i \in 1..Len(s.health) : w.outcome[s.health[i][1]] # "unsupported"

WalkIsRight(w, s, names) ==
    s \in WalkState(names) /\ AskedRightly(w, s) /\ RecordedRightly(w, s) /\ ReportedRightly(w, s)

\* Before anyone is asked they are.
LEMMA WalkStarts ==
  ASSUME NEW w, NEW names, w.deadline \in Nat
  PROVE  WalkIsRight(w, Side!Start, names)
<1> DEFINE s == Side!Start
<1>1. /\ s.answered = FALSE /\ s.stop = FALSE /\ s.unsupported = FALSE /\ s.asked = <<>> /\ s.usage = <<>>
      /\ s.health = <<>> /\ s.latency = {} /\ s.settled = <<>> /\ s \in WalkState(names)
  BY DEF Side!Start, WalkState
<1>2. Len(<<>>) = 0 /\ ~(\E i : i \in 1..0)
  OBVIOUS
<1> HIDE DEF s
<1>3. AskedRightly(w, s) /\ RecordedRightly(w, s) /\ ReportedRightly(w, s)
  BY <1>1, <1>2 DEF AskedRightly, RecordedRightly, ReportedRightly
<1> QED BY <1>1, <1>3 DEF WalkIsRight, s

\* One attempt keeps the books right.
LEMMA AttemptKeepsBooks ==
  ASSUME NEW w, NEW names, NEW s, WalkIsRight(w, s, names), w.deadline \in Nat,
         NEW name \in names, NEW units \in {"tokens", "images", "zero"},
         NEW known \in BOOLEAN, known => name \in DOMAIN w.registry \cup w.custom
  PROVE  WalkIsRight(w, Side!Attempt(w, known, units, s, name), names)
<1> DEFINE t == Side!Attempt(w, known, units, s, name)
           n == Len(s.asked)
           out == w.outcome[name]
<1>1. s \in WalkState(names) /\ AskedRightly(w, s) /\ RecordedRightly(w, s) /\ ReportedRightly(w, s)
  BY DEF WalkIsRight
<1> SUFFICES WalkIsRight(w, t, names)
  OBVIOUS
<1>0. /\ s.asked \in Seq(names) /\ s.usage \in Seq(Report) /\ s.health \in Seq(names \X Report)
      /\ s.latency \in SUBSET names /\ s.settled \in Seq({"tokens", "images", "zero"})
      /\ s.answered \in BOOLEAN /\ s.stop \in BOOLEAN /\ s.unsupported \in BOOLEAN
      /\ s = [answered |-> s.answered, stop |-> s.stop, unsupported |-> s.unsupported, asked |-> s.asked,
              usage |-> s.usage, health |-> s.health, latency |-> s.latency, settled |-> s.settled]
  BY <1>1 DEF WalkState
<1>2. CASE t = s
  <2> HIDE DEF t
  <2> QED BY <1>2
<1>3. CASE t = [s EXCEPT !.stop = TRUE]
  <2>1. /\ t \in WalkState(names) /\ t.answered = s.answered /\ t.asked = s.asked /\ t.usage = s.usage
        /\ t.health = s.health /\ t.settled = s.settled
    BY <1>1, <1>3 DEF WalkState
  <2> HIDE DEF t
  <2> QED BY <1>1, <2>1 DEF WalkIsRight, AskedRightly, RecordedRightly, ReportedRightly
<1> DEFINE CallOf(row) ==
             /\ t \in WalkState(names) /\ t.asked = Append(s.asked, name) /\ t.usage = Append(s.usage, row)
             /\ (t.answered <=> row = "success") /\ (row = "success" <=> out = "ok")
             /\ t.settled = IF out = "ok" THEN Append(s.settled, units) ELSE s.settled
             /\ t.health = s.health \/ (out # "unsupported" /\ \E v \in Report : t.health = Append(s.health, <<name, v>>))
             /\ ~s.answered /\ known /\ n < w.deadline
<1>4. ASSUME NEW row \in Report, CallOf(row) PROVE WalkIsRight(w, t, names)
  <2> HIDE DEF t
  <2>1. /\ s.asked \in Seq(names) /\ s.usage \in Seq(Report) /\ s.health \in Seq(names \X Report)
        /\ s.settled \in Seq({"tokens", "images", "zero"}) /\ s.answered \in BOOLEAN /\ n \in Nat
    BY <1>1 DEF WalkState
  <2>2. /\ Len(t.asked) = n + 1 /\ t.asked[n + 1] = name /\ \A i \in 1..n : t.asked[i] = s.asked[i]
        /\ Len(s.usage) = n /\ Len(t.usage) = n + 1 /\ t.usage[n + 1] = row /\ \A i \in 1..n : t.usage[i] = s.usage[i]
    BY <1>1, <1>4, <2>1 DEF RecordedRightly
  <2>3. \A i \in 1..(n + 1) : i \in 1..n \/ i = n + 1
    BY <2>1
  <2>4. AskedRightly(w, t)
    BY <1>1, <1>4, <2>1, <2>2, <2>3 DEF AskedRightly
  <2>5. \A i \in 1..n : w.outcome[s.asked[i]] # "ok"
    BY <1>1, <1>4 DEF RecordedRightly
  <2>6. Len(t.settled) = IF t.answered THEN 1 ELSE 0
    <3>1. Len(s.settled) = 0
      BY <1>1, <1>4 DEF RecordedRightly
    <3>2. Len(Append(s.settled, units)) = 1
      BY <2>1, <3>1
    <3>3. t.settled = IF t.answered THEN Append(s.settled, units) ELSE s.settled
      BY <1>4
    <3> QED BY <3>1, <3>2, <3>3
  <2>7. RecordedRightly(w, t)
    BY <1>1, <1>4, <2>1, <2>2, <2>3, <2>5, <2>6 DEF RecordedRightly
  <2>8. ReportedRightly(w, t)
    <3>1. CASE t.health = s.health
      BY <1>1, <3>1 DEF ReportedRightly
    <3>2. CASE out # "unsupported" /\ \E v \in Report : t.health = Append(s.health, <<name, v>>)
      <4>1. PICK v \in Report : t.health = Append(s.health, <<name, v>>)
        BY <3>2
      <4>2. \A i \in 1..Len(t.health) : (t.health[i] = s.health[i] /\ i \in 1..Len(s.health)) \/ t.health[i] = <<name, v>>
        BY <2>1, <4>1
      <4> QED BY <1>1, <3>2, <4>2 DEF ReportedRightly
    <3> QED BY <1>4, <3>1, <3>2
  <2> QED BY <1>4, <2>4, <2>7, <2>8 DEF WalkIsRight
<1>5. CASE t # s /\ t # [s EXCEPT !.stop = TRUE]
  <2>1. ~s.answered /\ known /\ ~(Len(s.asked) >= w.deadline)
    BY <1>5 DEF Side!Attempt
  <2>2. CASE out = "ok"
    <3>1. t = [[s EXCEPT !.asked = Append(@, name)] EXCEPT
                 !.answered = TRUE, !.usage = Append(@, "success"), !.latency = @ \cup {name},
                 !.health = Append(@, <<name, "success">>), !.settled = Append(@, units)]
      BY <1>5, <2>2 DEF Side!Attempt
    <3> HIDE DEF t
    <3>4. t = [answered |-> TRUE, stop |-> s.stop, unsupported |-> s.unsupported, asked |-> Append(s.asked, name),
               usage |-> Append(s.usage, "success"), health |-> Append(s.health, <<name, "success">>),
               latency |-> s.latency \cup {name}, settled |-> Append(s.settled, units)]
      BY <1>0, <3>1
    <3>2. t \in WalkState(names)
      BY <1>0, <3>4 DEF WalkState, Report
    <3>3. CallOf("success")
      BY <3>4,  <1>1, <2>1, <2>2, <3>1, <3>2 DEF WalkState, AskedRightly, Report
    <3> QED BY <1>4, <3>3 DEF Report
  <2>3. CASE out = "unsupported"
    <3>1. t = [[s EXCEPT !.asked = Append(@, name)] EXCEPT !.usage = Append(@, "failure"), !.unsupported = TRUE]
      BY <1>5, <2>3 DEF Side!Attempt
    <3> HIDE DEF t
    <3>4. t = [answered |-> s.answered, stop |-> s.stop, unsupported |-> TRUE, asked |-> Append(s.asked, name),
               usage |-> Append(s.usage, "failure"), health |-> s.health, latency |-> s.latency, settled |-> s.settled]
      BY <1>0, <3>1
    <3>2. t \in WalkState(names)
      BY <1>0, <3>4 DEF WalkState, Report
    <3>3. CallOf("failure")
      BY <1>1, <2>1, <2>3, <3>1, <3>2 DEF WalkState, AskedRightly
    <3> QED BY <1>4, <3>3 DEF Report
  <2>4. CASE out \notin {"ok", "unsupported"}
    <3>2. PICK fault \in BOOLEAN :
            t = [[s EXCEPT !.asked = Append(@, name)] EXCEPT
                   !.usage = Append(@, "failure"), !.unsupported = FALSE, !.latency = @ \cup {name},
                   !.health = IF fault THEN Append(@, <<name, "failure">>) ELSE @]
      BY <1>5, <2>4 DEF Side!Attempt
    <3> HIDE DEF t
    <3>5. t = [answered |-> s.answered, stop |-> s.stop, unsupported |-> FALSE, asked |-> Append(s.asked, name),
               usage |-> Append(s.usage, "failure"),
               health |-> IF fault THEN Append(s.health, <<name, "failure">>) ELSE s.health,
               latency |-> s.latency \cup {name}, settled |-> s.settled]
      BY <1>0, <3>2
    <3>3. t \in WalkState(names)
      BY <1>0, <3>5 DEF WalkState, Report
    <3>4. CallOf("failure")
      BY <1>1, <2>1, <2>4, <3>2, <3>3 DEF WalkState, AskedRightly, Report
    <3> QED BY <1>4, <3>4 DEF Report
  <2> QED BY <2>2, <2>3, <2>4
<1> QED BY <1>2, <1>3, <1>5

\* Whichever endpoint it is.
LEMMA EveryAttemptKeepsBooks ==
  ASSUME NEW endpoint \in Side!Endpoint, NEW w, NEW names, NEW s, WalkIsRight(w, s, names), w.deadline \in Nat,
         NEW name \in names
  PROVE  WalkIsRight(w, Side!attempt(endpoint, w, s, name), names)
<1>0. ASSUME NEW known \in BOOLEAN, known => name \in DOMAIN w.registry \cup w.custom,
             NEW units \in {"tokens", "images", "zero"}
      PROVE  WalkIsRight(w, Side!Attempt(w, known, units, s, name), names)
  BY <1>0, AttemptKeepsBooks
<1>1. /\ Side!ResolvesFor(w, name) \in BOOLEAN /\ Side!BuiltIn(w, name) \in BOOLEAN
      /\ Side!ResolvesFor(w, name) => name \in DOMAIN w.registry \cup w.custom
      /\ Side!BuiltIn(w, name) => name \in DOMAIN w.registry \cup w.custom
  BY DEF Side!ResolvesFor, Side!BuiltIn
<1>2. CASE endpoint = "embeddings"
  <2>1. Side!attempt(endpoint, w, s, name) = Side!Attempt(w, Side!ResolvesFor(w, name), "tokens", s, name)
    BY <1>2 DEF Side!attempt, Side!embeddings_attempt, Side!Sound
  <2> QED BY <1>0, <1>1, <2>1
<1>3. CASE endpoint = "rerank"
  <2>1. Side!attempt(endpoint, w, s, name) = Side!Attempt(w, Side!ResolvesFor(w, name), "tokens", s, name)
    BY <1>3 DEF Side!attempt, Side!rerank_attempt, Side!Sound
  <2> QED BY <1>0, <1>1, <2>1
<1>4. CASE endpoint = "images"
  <2>1. Side!attempt(endpoint, w, s, name) = Side!Attempt(w, Side!BuiltIn(w, name), "images", s, name)
    BY <1>4 DEF Side!attempt, Side!image_generation_attempt, Side!Sound
  <2> QED BY <1>0, <1>1, <2>1
<1>5. CASE endpoint = "speech"
  <2>1. Side!attempt(endpoint, w, s, name) = Side!Attempt(w, Side!ResolvesFor(w, name), "zero", s, name)
    BY <1>5 DEF Side!attempt, Side!speech_attempt, Side!Sound
  <2> QED BY <1>0, <1>1, <2>1
<1>6. CASE endpoint \in Side!Sound
  <2>1. Side!attempt(endpoint, w, s, name) = Side!Attempt(w, Side!BuiltIn(w, name), "zero", s, name)
    BY <1>6 DEF Side!attempt, Side!audio_text_attempt, Side!Sound
  <2> QED BY <1>0, <1>1, <2>1
<1> QED BY <1>2, <1>3, <1>4, <1>5, <1>6 DEF Side!Endpoint, Side!Sound

\* The walk over a whole list of candidates keeps the books right.
LEMMA WalkKeepsBooks ==
  ASSUME NEW endpoint \in Side!Endpoint, NEW w, w.deadline \in Nat, NEW names, NEW order \in Seq(names)
  PROVE  WalkIsRight(w, Side!Walk(endpoint, w, order), names)
<1> DEFINE n == Len(order)
           step(s, k) == Side!attempt(endpoint, w, s, order[k])
           h == [k \in 1..n |-> [s \in WalkState(names) |-> step(s, k)]]
           Run(f) == f = [k \in 0..n |-> IF k = 0 THEN Side!Start ELSE step(f[k - 1], k)]
           Fine(s) == WalkIsRight(w, s, names)
<1>0. n \in Nat
  OBVIOUS
<1>1. Fine(Side!Start)
  BY WalkStarts
<1>2. ASSUME NEW k \in 0..(n - 1), NEW s, Fine(s) PROVE Fine(step(s, k + 1))
  <2>1. order[k + 1] \in names
    OBVIOUS
  <2> QED BY <1>2, <2>1, EveryAttemptKeepsBooks
<1>3. \A k \in 1..n, s \in WalkState(names) : h[k][s] = step(s, k)
  OBVIOUS
<1>9. \A s : Fine(s) => s \in WalkState(names)
  BY DEF WalkIsRight
<1> HIDE DEF n, h, step, Fine
<1>4. \E f : Run(f)
  <2>1. PICK f : IsRecursion(f, n, Side!Start, h)
    BY <1>0, RecursionExists
  <2>2. \A k \in 0..n : f[k] = IF k = 0 THEN Side!Start ELSE h[k][f[k - 1]]
    BY <2>1 DEF IsRecursion
  <2> DEFINE P == {k \in 0..n : Fine(f[k]) /\ (k > 0 => f[k] = step(f[k - 1], k))}
  <2>3. 0 \in P
    <3>1. f[0] = Side!Start /\ 0 \in 0..n
      BY <1>0, <2>2
    <3> QED BY <1>1, <3>1
  <2>4. ASSUME NEW k \in 0..(n - 1), k \in P PROVE k + 1 \in P
    <3>1. k + 1 \in 1..n /\ k + 1 # 0 /\ (k + 1) - 1 = k /\ k + 1 \in 0..n
      BY <1>0
    <3>2. f[k + 1] = h[k + 1][f[k]]
      BY <2>2, <3>1
    <3>3. f[k] \in WalkState(names) /\ Fine(f[k])
      BY <1>9, <2>4
    <3>4. f[k + 1] = step(f[k], k + 1)
      BY <1>3, <3>1, <3>2, <3>3
    <3> QED BY <1>2, <3>1, <3>3, <3>4
  <2> HIDE DEF P
  <2>5. \A k \in 0..n : k \in P
    BY <1>0, <2>3, <2>4, CountingUp
  <2>6. \A k \in 0..n : f[k] = IF k = 0 THEN Side!Start ELSE step(f[k - 1], k)
    <3>1. \A k \in 0..n : k > 0 => f[k] = step(f[k - 1], k)
      BY <2>5 DEF P
    <3>2. f[0] = Side!Start
      BY <1>0, <2>2
    <3> QED BY <3>1, <3>2
  <2>7. f = [k \in 0..n |-> f[k]]
    BY <2>1 DEF IsRecursion
  <2>8. Run(f)
    <3> DEFINE v(k) == f[k]
               u(k) == IF k = 0 THEN Side!Start ELSE step(f[k - 1], k)
    <3>1. \A k \in 0..n : v(k) = u(k)
      BY <2>6
    <3>2. [k \in 0..n |-> v(k)] = [k \in 0..n |-> u(k)]
      <4> HIDE DEF v, u
      <4> QED BY <3>1
    <3> QED BY <2>7, <3>2
  <2> HIDE DEF Run
  <2> QED BY <2>8
<1> DEFINE after == CHOOSE f : Run(f)
<1>5. Run(after)
  <2> HIDE DEF Run
  <2> QED BY <1>4
<1>6. Side!Walk(endpoint, w, order) = after[n]
  BY Zenon DEF Side!Walk, n, step
<1> HIDE DEF after
<1>7. \A k \in 0..n : Fine(after[k])
  <2>1. after[0] = Side!Start /\ \A k \in 1..n : after[k] = step(after[k - 1], k)
    BY <1>0, <1>5
  <2> HIDE DEF Run
  <2> DEFINE P == {k \in 0..n : Fine(after[k])}
  <2>2. 0 \in P
    <3>1. 0 \in 0..n
      BY <1>0
    <3> QED BY <1>1, <2>1, <3>1
  <2>3. ASSUME NEW k \in 0..(n - 1), k \in P PROVE k + 1 \in P
    <3>1. k + 1 \in 1..n /\ (k + 1) - 1 = k /\ k + 1 \in 0..n
      BY <1>0
    <3>2. Fine(after[k])
      BY <2>3
    <3> QED BY <1>2, <2>1, <3>1, <3>2
  <2> HIDE DEF P
  <2>4. \A k \in 0..n : k \in P
    BY <1>0, <2>2, <2>3, CountingUp
  <2> QED BY <2>4 DEF P
<1> QED BY <1>0, <1>6, <1>7 DEF n, Fine

-----------------------------------------------------------------------------
\* Whom a sibling endpoint may ask.

\* SetToSeq lists the members of a finite set.
LEMMA Listing ==
  ASSUME NEW S, IsFiniteSet(S)
  PROVE  \E n \in Nat : Side!SetToSeq(S) \in [1..n -> S]
<1>1. Side!Cardinality(S) = Cardinality(S)
  BY DEF Side!Cardinality, Cardinality
<1>2. Cardinality(S) \in Nat /\ ExistsBijection(1..Cardinality(S), S)
  BY FS_CardinalityType
<1> DEFINE n == Cardinality(S)
<1>3. PICK f \in [1..n -> S] : \A a, b \in 1..n : f[a] = f[b] => a = b
  BY <1>2 DEF ExistsBijection, Bijection, Injection, Surjection, IsInjective
<1> HIDE DEF n
<1>4. \E g \in [1..n -> S] : Side!IsInjective(g)
  BY <1>3 DEF Side!IsInjective
<1>5. Side!SetToSeq(S) = CHOOSE g \in [1..n -> S] : Side!IsInjective(g)
  BY <1>1 DEF Side!SetToSeq, n
<1>6. Side!SetToSeq(S) \in [1..n -> S]
  BY <1>4, <1>5
<1> QED BY <1>2, <1>6 DEF n

\* A table and a request as the assumption has them.
LikeTheCode(w, req) ==
    IsFiniteSet(DOMAIN w.registry) /\ w.deadline \in Nat /\ req.chain \in Seq(Policy!ToSet(req.chain))

\* The candidates are a list, and of a region's own providers if one is required.
LEMMA CandidatesAreListed ==
  ASSUME NEW w, NEW region, NEW req, NEW preset, LikeTheCode(w, req)
  PROVE  LET s == Side!Candidates(w, region, req, preset)
         IN  /\ \E n \in Nat : DOMAIN s = 1..n
             /\ region # "any" => \A i \in DOMAIN s : region \in w.registry[s[i]]
<1> DEFINE s == Side!Candidates(w, region, req, preset)
           S == {n \in DOMAIN w.registry : region \in w.registry[n]}
           Right == /\ \E n \in Nat : DOMAIN s = 1..n
                    /\ region # "any" => \A i \in DOMAIN s : region \in w.registry[s[i]]
<1> SUFFICES Right
  OBVIOUS
<1>1. CASE region # "any"
  <2>1. IsFiniteSet(S)
    BY FS_Subset DEF LikeTheCode
  <2>2. s = Side!SetToSeq(S)
    BY <1>1 DEF Side!Candidates
  <2>3. PICK n \in Nat : s \in [1..n -> S]
    BY <2>1, <2>2, Listing
  <2> HIDE DEF s
  <2> QED BY <2>3
<1>2. CASE region = "any" /\ req.chain # <<>>
  <2>1. s = req.chain
    BY <1>2 DEF Side!Candidates
  <2> QED BY <1>2, <2>1 DEF LikeTheCode
<1>3. CASE region = "any" /\ req.chain = <<>>
  <2>1. s = <<preset>>
    BY <1>3 DEF Side!Candidates
  <2>2. DOMAIN <<preset>> = 1..1
    OBVIOUS
  <2> QED BY <1>3, <2>1, <2>2
<1> HIDE DEF Right
<1> QED BY <1>1, <1>2, <1>3

\* Those of every endpoint.
LEMMA EligibleAreListed ==
  ASSUME NEW endpoint \in Side!Endpoint, NEW w, NEW req, LikeTheCode(w, req)
  PROVE  LET s == Side!Eligible(endpoint, w, req)
         IN  /\ \E n \in Nat : DOMAIN s = 1..n
             /\ endpoint \notin Side!Sound /\ req.personal /\ req.region # "any" =>
                  \A i \in DOMAIN s : req.region \in w.registry[s[i]]
<1> DEFINE s == Side!Eligible(endpoint, w, req)
           Of(personal, preset) == Side!Candidates(w, Side!required_region(personal, req), req, preset)
           Right == /\ \E n \in Nat : DOMAIN s = 1..n
                    /\ endpoint \notin Side!Sound /\ req.personal /\ req.region # "any" =>
                         \A i \in DOMAIN s : req.region \in w.registry[s[i]]
<1> SUFFICES Right
  OBVIOUS
<1>1. ASSUME NEW preset, NEW personal, s = Of(personal, preset), endpoint \notin Side!Sound => personal = req.personal
      PROVE  Right
  <2>1. req.personal => Side!required_region(req.personal, req) = req.region
    BY DEF Side!required_region
  <2> HIDE DEF s
  <2>2. \E n \in Nat : DOMAIN s = 1..n
    BY <1>1, CandidatesAreListed
  <2>3. ASSUME endpoint \notin Side!Sound, req.personal, req.region # "any"
        PROVE  \A i \in DOMAIN s : req.region \in w.registry[s[i]]
    BY <1>1, <2>1, <2>3, CandidatesAreListed
  <2> QED BY <2>2, <2>3
<1> HIDE DEF Right
<1>2. CASE endpoint = "embeddings"
  <2>1. s = Of(req.personal, Side!OwnerOr(w, req, "openai"))
    BY <1>2 DEF Side!Eligible, Side!Sound, Side!embeddings_candidates
  <2> QED BY <1>1, <2>1
<1>3. CASE endpoint = "rerank"
  <2>1. s = Of(req.personal, Side!OwnerOr(w, req, "cohere"))
    BY <1>3 DEF Side!Eligible, Side!Sound, Side!rerank_candidates
  <2> QED BY <1>1, <2>1
<1>4. CASE endpoint = "images"
  <2>1. s = Of(req.personal, "openai")
    BY <1>4 DEF Side!Eligible, Side!Sound, Side!image_generation_candidates
  <2> QED BY <1>1, <2>1
<1>5. CASE endpoint = "speech"
  <2>1. s = Of(req.personal, Side!OwnerOr(w, req, "openai"))
    BY <1>5 DEF Side!Eligible, Side!Sound, Side!speech_candidates
  <2> QED BY <1>1, <2>1
<1>6. CASE endpoint \in Side!Sound
  <2>1. s = Of(FALSE, "openai")
    BY <1>6 DEF Side!Eligible, Side!Sound, Side!audio_text_candidates
  <2> QED BY <1>1, <1>6, <2>1
<1> QED BY <1>2, <1>3, <1>4, <1>5, <1>6 DEF Side!Endpoint, Side!Sound

\* Every order of a list is a list of its members.
LEMMA OrdersAreLists ==
  ASSUME NEW s, NEW n \in Nat, DOMAIN s = 1..n, NEW order \in Orders(s)
  PROVE  order \in Seq({s[i] : i \in DOMAIN s})
<1>1. PICK place \in [1..n -> 1..n] : order = [i \in 1..n |-> s[place[i]]]
  BY DEF Orders
<1>2. order \in [1..n -> {s[i] : i \in DOMAIN s}]
  BY <1>1
<1> DEFINE names == {s[i] : i \in DOMAIN s}
<1> HIDE DEF names
<1> QED BY <1>2 DEF names

-----------------------------------------------------------------------------
\* The record of a sibling endpoint.

\* What a walk that is right has counted.
LEMMA SuccessesAreSettled ==
  ASSUME NEW w, NEW names, NEW s, WalkIsRight(w, s, names)
  PROVE  Side!Cardinality({i \in DOMAIN s.usage : s.usage[i] = "success"}) = Len(s.settled)
<1> DEFINE n == Len(s.asked)
           good == {i \in DOMAIN s.usage : s.usage[i] = "success"}
<1>1. DOMAIN s.usage = 1..n /\ n \in Nat /\ s.answered \in BOOLEAN
  BY DEF WalkIsRight, RecordedRightly, WalkState
<1>4. Side!Cardinality(good) = Cardinality(good)
  BY DEF Side!Cardinality, Cardinality
<1>2. CASE s.answered
  <2>1. good = {n}
    BY <1>1, <1>2 DEF WalkIsRight, RecordedRightly
  <2>2. Cardinality({n}) = 1
    BY FS_Singleton
  <2> HIDE DEF good
  <2> QED BY <1>2, <1>4, <2>1, <2>2 DEF WalkIsRight, RecordedRightly, good
<1>3. CASE ~s.answered
  <2>1. good = {}
    BY <1>1, <1>3 DEF WalkIsRight, RecordedRightly
  <2>2. Cardinality({}) = 0
    BY FS_EmptySet
  <2> QED BY <1>3, <1>4, <2>1, <2>2 DEF WalkIsRight, RecordedRightly
<1> QED BY <1>1, <1>2, <1>3

\* Each endpoint is the same course over its own candidates, after its own validation.
LEMMA EveryServingIsACourse ==
  ASSUME NEW endpoint \in Side!Endpoint, NEW w, NEW req, NEW order
  PROVE  \E invalid : Side!serve(endpoint, w, req, order) =
             Side!Course(invalid, Side!Eligible(endpoint, w, req), w, Side!Walk(endpoint, w, order))
<1> DEFINE Is(invalid) == Side!serve(endpoint, w, req, order) =
             Side!Course(invalid, Side!Eligible(endpoint, w, req), w, Side!Walk(endpoint, w, order))
<1>1. CASE endpoint = "embeddings"
  <2>1. Is(Side!embeddings_invalid(req))
    BY <1>1 DEF Side!serve, Side!Eligible, Side!Sound, Side!embeddings
  <2> QED BY <2>1
<1>2. CASE endpoint = "rerank"
  <2>1. Is(Side!rerank_invalid(req))
    BY <1>2 DEF Side!serve, Side!Eligible, Side!Sound, Side!rerank
  <2> QED BY <2>1
<1>3. CASE endpoint = "images"
  <2>1. Is(Side!image_generation_invalid(req))
    BY <1>3 DEF Side!serve, Side!Eligible, Side!Sound, Side!image_generation
  <2> QED BY <2>1
<1>4. CASE endpoint = "speech"
  <2>1. Is(Side!speech_invalid(req))
    BY <1>4 DEF Side!serve, Side!Eligible, Side!Sound, Side!speech
  <2> QED BY <2>1
<1>5. CASE endpoint \in Side!Sound
  <2>1. Is(~Side!parse_multipart(req.parts))
    BY <1>5 DEF Side!serve, Side!Eligible, Side!Sound, Side!run_audio_text
  <2> QED BY <2>1
<1> QED BY <1>1, <1>2, <1>3, <1>4, <1>5 DEF Side!Endpoint, Side!Sound

\* Whatever the endpoint, the providers and how they answer, the record is consistent.
LEMMA EndpointIsConsistentAlways ==
  ASSUME NEW endpoint \in Side!Endpoint, NEW w, NEW req, LikeTheCode(w, req),
         NEW order \in Orders(Side!Eligible(endpoint, w, req))
  PROVE  Side!EndpointIsConsistent(endpoint, w, req, order)
<1> DEFINE list == Side!Eligible(endpoint, w, req)
           names == {list[i] : i \in DOMAIN list}
           s == Side!Walk(endpoint, w, order)
           r == Side!serve(endpoint, w, req, order)
           home(n) == endpoint \notin Side!Sound /\ req.personal /\ req.region # "any" => req.region \in w.registry[n]
<1>1. order \in Seq(names) /\ \A n \in names : home(n)
  BY EligibleAreListed, OrdersAreLists
<1> HIDE DEF names
<1>2. WalkIsRight(w, s, names)
  BY <1>1, WalkKeepsBooks DEF LikeTheCode
<1>3. PICK invalid : r = Side!Course(invalid, list, w, s)
  BY EveryServingIsACourse
<1> HIDE DEF s, list, r
<1> DEFINE Shape == [as : {"invalid", "blocked", "denied"}, asked : {<<>>}, health : {<<>>}, latency : {{}}, settled : {<<>>},
                     usage : {<<>>, <<"sovereign_block">>, <<"failure">>}, decision : {"none", "residency_blocked"}]
<1>4. \/ r \in Shape
      \/ /\ r.asked = s.asked /\ r.health = s.health /\ r.usage = s.usage /\ r.settled = s.settled
         /\ r.as \in {"ok", "failed", "unsupported"} /\ (r.as = "ok" <=> s.answered) /\ (r.as = "ok" <=> r.decision = "ok")
  <2>1. r = IF invalid THEN Side!Ended("invalid", Side!Start, "none", <<>>)
            ELSE IF list = <<>> THEN Side!Ended("blocked", Side!Start, "residency_blocked", <<"sovereign_block">>)
            ELSE IF ~w.admits THEN Side!Ended("denied", Side!Start, "none", <<"failure">>)
            ELSE IF s.answered THEN Side!Ended("ok", s, "ok", s.usage)
            ELSE IF s.unsupported THEN Side!Ended("unsupported", s, "none", s.usage)
            ELSE Side!Ended("failed", s, "all_failed", s.usage)
    BY <1>3 DEF Side!Course
  <2> QED BY <2>1 DEF Side!Ended, Side!Start
<1> SUFFICES /\ (r.as = "ok") = (Len(r.settled) = 1) /\ (r.as = "ok") = (r.decision = "ok")
             /\ r.as = "ok" <=> \E i \in DOMAIN r.asked : w.outcome[r.asked[i]] = "ok"
             /\ Side!Cardinality({i \in DOMAIN r.usage : r.usage[i] = "success"}) = Len(r.settled)
             /\ r.as \in {"ok", "failed", "unsupported"} => Len(r.usage) = Len(r.asked)
             /\ r.as \in {"invalid", "blocked", "denied"} => r.asked = <<>> /\ r.health = <<>>
             /\ \A i \in DOMAIN r.asked : r.asked[i] \in DOMAIN w.registry \cup w.custom
             /\ \A i \in DOMAIN r.asked : home(r.asked[i])
             /\ \A i \in DOMAIN r.health : w.outcome[r.health[i][1]] # "unsupported"
             /\ Len(r.asked) <= w.deadline
  BY DEF Side!EndpointIsConsistent, r
<1>5. CASE r \in Shape
  <2>1. /\ r.as \in {"invalid", "blocked", "denied"} /\ r.asked = <<>> /\ r.health = <<>> /\ r.settled = <<>>
        /\ r.decision # "ok" /\ r.usage \in {<<>>, <<"sovereign_block">>, <<"failure">>}
    BY <1>5
  <2>2. DOMAIN <<>> = {} /\ Len(<<>>) = 0 /\ w.deadline \in Nat
    BY DEF LikeTheCode
  <2>3. {i \in DOMAIN r.usage : r.usage[i] = "success"} = {}
    BY <2>1
  <2>4. Side!Cardinality({}) = 0
    BY FS_EmptySet DEF Side!Cardinality, Cardinality
  <2> HIDE DEF home, Shape
  <2>5. (r.as = "ok" <=> Len(r.settled) = 1) /\ (r.as = "ok" <=> r.decision = "ok")
    BY <2>1, <2>2
  <2>6. (r.as = "ok") = (Len(r.settled) = 1) /\ (r.as = "ok") = (r.decision = "ok")
    BY Zenon, <2>5
  <2>7. Side!Cardinality({i \in DOMAIN r.usage : r.usage[i] = "success"}) = Len(r.settled)
    BY <2>1, <2>2, <2>3, <2>4
  <2>8. r.as \notin {"ok", "failed", "unsupported"} /\ Len(r.asked) <= w.deadline
    BY <2>1, <2>2
  <2>9. DOMAIN r.asked = {} /\ DOMAIN r.health = {} /\ r.as # "ok"
    BY <2>1, <2>2
  <2> QED BY Zenon, <2>1, <2>6, <2>7, <2>8, <2>9
<1>6. CASE ~(r \in Shape)
  <2>1. /\ s.asked \in Seq(names) /\ s.health \in Seq(names \X Report) /\ s.answered \in BOOLEAN
        /\ DOMAIN s.asked = 1..Len(s.asked) /\ DOMAIN s.health = 1..Len(s.health)
    BY <1>2 DEF WalkIsRight, WalkState
  <2>2. AskedRightly(w, s) /\ RecordedRightly(w, s) /\ ReportedRightly(w, s)
    BY <1>2 DEF WalkIsRight
  <2>3. s.answered <=> \E i \in DOMAIN s.asked : w.outcome[s.asked[i]] = "ok"
    BY <2>1, <2>2 DEF RecordedRightly
  <2>4. Side!Cardinality({i \in DOMAIN s.usage : s.usage[i] = "success"}) = Len(s.settled)
    BY <1>2, SuccessesAreSettled
  <2>5. \A i \in DOMAIN s.asked : home(s.asked[i])
    BY <1>1, <2>1
  <2>6. Len(s.settled) = 1 <=> s.answered
    BY <2>2 DEF RecordedRightly
  <2> HIDE DEF home, Shape
  <2>7. (r.as = "ok" <=> Len(r.settled) = 1) /\ (r.as = "ok" <=> r.decision = "ok")
    BY <1>4, <1>6, <2>6
  <2>8. \A i \in DOMAIN r.asked : r.asked[i] \in DOMAIN w.registry \cup w.custom
    BY <1>4, <1>6, <2>1, <2>2 DEF AskedRightly
  <2>9. \A i \in DOMAIN r.health : w.outcome[r.health[i][1]] # "unsupported"
    BY <1>4, <1>6, <2>1, <2>2 DEF ReportedRightly
  <2>11. (r.as = "ok") = (Len(r.settled) = 1) /\ (r.as = "ok") = (r.decision = "ok")
    BY Zenon, <2>7
  <2>12. r.as = "ok" <=> \E i \in DOMAIN r.asked : w.outcome[r.asked[i]] = "ok"
    BY <1>4, <1>6, <2>3
  <2>10. Len(r.asked) <= w.deadline /\ Len(r.usage) = Len(r.asked)
    BY <1>4, <1>6, <2>2 DEF AskedRightly, RecordedRightly
  <2>13. Side!Cardinality({i \in DOMAIN r.usage : r.usage[i] = "success"}) = Len(r.settled)
    BY <1>4, <1>6, <2>4
  <2>14. \A i \in DOMAIN r.asked : home(r.asked[i])
    BY <1>4, <1>6, <2>5
  <2>15. ~(r.as \in {"invalid", "blocked", "denied"})
    BY <1>4, <1>6
  <2> QED BY Zenon, <2>8, <2>9, <2>10, <2>11, <2>12, <2>13, <2>14, <2>15
<1> QED BY <1>5, <1>6

-----------------------------------------------------------------------------
\* The decisions, for every question that may be asked.

\* A request is served only under a key it earned, with the capabilities the key's tier,
\* overrides, hold-backs and released flags leave it (auth.rs, entitlements, flags).
THEOREM AdmissionsAreEarned == Decide => []Access
<1>1. AskedFor => Access
  <2> SUFFICES ASSUME AskedFor, q.topic = "access" PROVE Auth!AdmissionIsEarned(q.gateway, q.call)
    BY DEF Access
  <2>1. q.gateway \in Gateways /\ q.call \in Credentials
    BY DEF AskedFor
  <2> QED BY <2>1, GatewaysAssumption, AdmissionIsEarnedAlways
<1> QED BY <1>1, QuestionsAreAsked, PTL

\* Every model has the price of the row that means it, and a cost is shown in a currency
\* that has a rate (limits/src/lib.rs, price_for; fx.rs, resolve).
THEOREM CostsAreWellPriced == Decide => []Cost
<1>1. Cost
  BY CostIsWellPricedAlways DEF Cost
<1> QED BY <1>1, PTL

\* The candidates are the available ones, each once, sorted as the strategy says, with a
\* turn and a share for every one (strategy.rs, order_candidates_with_specs_rng).
THEOREM OrdersAreFair == Decide => []CandidateOrder
<1>1. AskedFor => CandidateOrder
  <2> SUFFICES ASSUME AskedFor, q.topic = "order"
               PROVE  Policy!OrderIsFair(RouterConfig, q.specs, q.strategy, q.health, Picks)
    BY DEF CandidateOrder
  <2>1. q.specs \in SpecLists /\ q.strategy \in Policy!Strategy /\ q.health \in HealthViews
    BY DEF AskedFor
  <2>2. Orderable(RouterConfig, q.specs, q.health)
    <3>1. \A n \in DOMAIN RouterConfig : RouterConfig[n].weight \in Nat \ {0} /\ RouterConfig[n].cost \in Nat
      BY OrdersAssumption
    <3>2. /\ q.specs \in Seq(Policy!ToSet(q.specs))
          /\ \A i \in DOMAIN q.specs : {q.specs[i].weight, q.specs[i].cost} \subseteq Nat \cup {Policy!NoValue}
      BY <2>1, OrdersAssumption
    <3>3. ASSUME NEW i \in DOMAIN q.specs
          PROVE  /\ q.health[q.specs[i].name].in_flight \in Nat
                 /\ q.health[q.specs[i].name].latency \in Nat \cup {Policy!NoValue}
      <4>1. q.specs[i].name \in UNION {{s[j].name : j \in DOMAIN s} : s \in SpecLists}
        BY <2>1
      <4> QED BY <2>1, <4>1, OrdersAssumption
    <3> QED BY <3>1, <3>2, <3>3 DEF Orderable
  <2>3. Picks \in Seq(Nat) /\ Picks # <<>>
    BY OrdersAssumption
  <2> QED BY <2>1, <2>2, <2>3, OrderIsFairAlways
<1> QED BY <1>1, QuestionsAreAsked, PTL

\* What parses evaluates to at most 32 targets, each a leaf of the configuration, with
\* bounded retries and delays, and the first condition's target where there are conditions.
\* Each target is sent a well-formed request, with every override and drop in effect or,
\* where the configuration has a value of the wrong type or drops the model, as it came;
\* nothing is reshaped that is not on the list (policy/src/lib.rs).
THEOREM PlansAreBounded == Decide => []PlanBounded
<1>1. AskedFor => PlanBounded
  <2> SUFFICES ASSUME AskedFor, q.topic = "config"
               PROVE  Policy!AcceptedPlanIsBounded(q.cfg, q.meta, q.req, Picks)
    BY DEF PlanBounded
  <2>1. q.cfg \in Configs /\ q.req \in RoutedRequests
    BY DEF AskedFor
  <2>2. Listed(q.cfg) /\ Policy!WellFormed(q.req)
    BY <2>1, ConfigsAssumption, RequestsAssumption DEF Listed
  <2> QED BY <2>2, AcceptedPlanIsBoundedAlways
<1> QED BY <1>1, QuestionsAreAsked, PTL

\* Whatever endpoint beside chat is asked, whatever its providers answer and in whatever order
\* they are tried: one record that agrees with who was asked, who answered, what is settled and
\* what the tracker is told, within the tenant's providers, the region and the deadline
\* (embeddings.rs, rerank_api.rs, images_api.rs, audio_api.rs).
THEOREM SiblingsKeepTheirBooks == Decide => []SiblingRecord
<1>1. AskedFor => SiblingRecord
  <2> SUFFICES ASSUME AskedFor, q.topic = "endpoint",
                      NEW order \in Orders(Side!Eligible(q.endpoint, q.world, q.ask))
               PROVE  Side!EndpointIsConsistent(q.endpoint, q.world, q.ask, order)
    BY DEF SiblingRecord
  <2>1. q.endpoint \in Side!Endpoint /\ q.world \in Worlds /\ q.ask \in Asks \cup Uploads
    BY DEF AskedFor
  <2>2. LikeTheCode(q.world, q.ask)
    BY <2>1, WorldsAssumption DEF LikeTheCode
  <2> QED BY <2>1, <2>2, EndpointIsConsistentAlways
<1> QED BY <1>1, QuestionsAreAsked, PTL

\* Who may use what, in which order the candidates are tried, what a routing configuration
\* turns into, and how the other endpoints try theirs, together.
THEOREM DecisionsAreRight == Decide => []AccessAndRouting
<1>1. Access /\ CandidateOrder /\ PlanBounded /\ SiblingRecord <=> AccessAndRouting
  BY DEF AccessAndRouting
<1> QED BY <1>1, AdmissionsAreEarned, OrdersAreFair, PlansAreBounded, SiblingsKeepTheirBooks, PTL
=============================================================================
