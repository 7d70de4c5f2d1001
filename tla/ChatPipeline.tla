---------------------------- MODULE ChatPipeline ----------------------------
(***************************************************************************)
(* A buffered chat completion from the model gates to the answer            *)
(* (proxy.rs: chat_completions_core, chat_completions_pipeline), with the   *)
(* response cache's keys and flush generations (crates/cache/src/lib.rs)    *)
(* and the purge endpoint (cache_api.rs).                                   *)
(*                                                                          *)
(* Requests and purges interleave at every shared access: the two loads of  *)
(* a generation, the lookup, the admission, each target's attempt, the      *)
(* settlement with the queued cache write, and the writer applying it.  The *)
(* attempt on one target, the limit guards, idempotency and streaming have  *)
(* modules of their own and are here what the pipeline sees of them.        *)
(*                                                                          *)
(* A profile is what one request brings along:                              *)
(*   owner, namespace   its tenant and cache namespace                      *)
(*   body       the request as parsed: present field -> JSON value [t, v]   *)
(*   chain      its targets, each a provider with its own params            *)
(*   config     the chain comes from a routing configuration; only then     *)
(*              is there anything to shape, or a cache directive            *)
(*   data       where it has personal data: none, content, name, tool_args  *)
(*   region     the region it asks for, or "any"                            *)
(*   cache      off, use, no_store, refresh;  stream, oversize              *)
(*   combo      the models the combo of this name pins; catalog, mode   as  *)
(*              for the gates                                               *)
(***************************************************************************)
EXTENDS Integers, Sequences, FiniteSets, SequencesExt
Shaping == INSTANCE RoutingPolicy

CONSTANTS
    Requests, Profiles,
    Owners,          \* tenants with a share of the cache
    Resident,        \* built-in provider -> regions it is resident in
    CustomProviders, \* providers of tenants; resident nowhere
    Normal,          \* a provider's name as written -> trimmed, in lower case
    Forbidden,       \* models: "disabled", "excluded" or "unprovisioned"
    MaxScopes,       \* MAX_PURGED_SCOPES_PER_TENANT
    MaxPurges        \* bound: purges per behaviour

Wildcard == "*"
Nobody == "nobody"
Off == [as |-> "off"]
Bypass == [as |-> "bypass"]

ASSUME PipelineAssumption == MaxScopes \in Nat \ {0} /\ Nobody \notin Requests
ASSUME ResidentAssumption == IsFiniteSet(DOMAIN Resident)
\* A chain has a target; without a configuration nothing is shaped or cached
\* (default_target_plan; the directive is the configuration's).
ASSUME ProfileAssumption ==
    \A p \in Profiles :
        /\ p.chain \in Seq(ToSet(p.chain)) /\ p.chain # <<>>
        /\ p.data \in {"none", "content", "name", "tool_args"}
        /\ ~p.config => p.cache = "off" /\ \A t \in ToSet(p.chain) : Shaping!is_noop(t.params)

VARIABLES
    pc, profile,
    wild,          \* the wildcard generation a planning request has loaded
    plan, targets, \* the cache plan; the targets still to try
    calls,         \* what each request has sent to which provider
    from,          \* the request whose answer was served, Nobody before
    admitted, settled, usage, decision,
    generations,   \* per tenant: scope -> flush generation, for the purged scopes
    queued, store, \* cache writes on their way; entries
    began, planned \* history: purges in force when planning began and when it ended
vars == <<pc, profile, wild, plan, targets, calls, from, admitted, settled, usage, decision,
          generations, queued, store, began, planned>>
accounting == <<admitted, settled, usage, decision>>
caching == <<generations, queued, store>>
history == <<began, planned>>

Init ==
    /\ pc = [r \in Requests |-> "idle"]
    /\ profile \in [Requests -> Profiles]
    /\ wild = [r \in Requests |-> 0] /\ plan = [r \in Requests |-> Off]
    /\ targets = [r \in Requests |-> <<>>] /\ calls = [r \in Requests |-> {}]
    /\ from = [r \in Requests |-> Nobody]
    /\ admitted = [r \in Requests |-> FALSE] /\ settled = [r \in Requests |-> 0]
    /\ usage = [r \in Requests |-> <<>>] /\ decision = [r \in Requests |-> "none"]
    /\ generations = [t \in Owners |-> <<>>] /\ queued = {} /\ store = {}
    /\ began = [r \in Requests |-> 0] /\ planned = [r \in Requests |-> 0]

Goto(r, l) == pc' = [pc EXCEPT ![r] = l]

-----------------------------------------------------------------------------
\* Gates

\* The combo's pinned models in turn, then -- without a combo -- the catalogue, then the
\* model of the payload: disabled, excluded by a framework (strict), not provisioned.
Refused(p, model, catalog) ==
    \/ model \in Forbidden.disabled
    \/ model \in Forbidden.excluded /\ p.mode = "strict"
    \/ model \in Forbidden.unprovisioned /\ catalog
Passes(p) ==
    /\ \A i \in DOMAIN p.combo : ~Refused(p, p.combo[i], p.catalog)
    /\ ~Refused(p, p.body["model"].v, p.catalog /\ p.combo = <<>>)

Arrive(r) ==
    /\ pc[r] = "idle"
    /\ Goto(r, IF Passes(profile[r]) THEN "plan" ELSE "refused")
    /\ UNCHANGED <<profile, wild, plan, targets, calls, from, accounting, caching, history>>

-----------------------------------------------------------------------------
\* The cache plan

\* residency_classifier_text: content and tool calls, not the name of a message.
contains_personal_data(p) == p.data \in {"content", "tool_args"}
required_region(p) == IF contains_personal_data(p) THEN p.region ELSE "any"

generation(t, scope) == IF scope \in DOMAIN generations[t] THEN generations[t][scope] ELSE 0
Effective(t, ns) == generation(t, ns) + generation(t, Wildcard)

\* When a request takes part in the cache at all.
Cacheable(p) ==
    /\ p.cache \in {"use", "refresh"}
    /\ ~contains_personal_data(p) /\ required_region(p) = "any"
    /\ ~p.stream /\ p.owner \in Owners

Plan(r) ==
    LET p == profile[r]
    IN  /\ pc[r] = "plan"
        /\ targets' = [targets EXCEPT ![r] = p.chain]
        /\ IF Cacheable(p)
             THEN /\ wild' = [wild EXCEPT ![r] = generation(p.owner, Wildcard)]
                  /\ began' = [began EXCEPT ![r] = Effective(p.owner, p.namespace)]
                  /\ Goto(r, "generation") /\ UNCHANGED plan
             ELSE /\ plan' = [plan EXCEPT ![r] = IF p.cache = "off" THEN Off ELSE Bypass]
                  /\ Goto(r, "residency") /\ UNCHANGED <<wild, began>>
        /\ UNCHANGED <<profile, calls, from, accounting, caching, planned>>

\* What is sent to a target: each dispatch shapes the request with that target's params.
Shaped(p, t) == Shaping!Apply(t.params, p.body)

\* The content a key is made of: neither how the answer travels nor who asked.
KeyView(req) == [f \in DOMAIN req \ {"user", "stream"} |-> req[f]]
provider_chain(p) == [i \in DOMAIN p.chain |-> Normal[p.chain[i].provider]]

\* A purge of everything is forgotten when the key is made.
exact_key_genMutant(p, g, w) == [owner |-> p.owner, namespace |-> p.namespace, chain |-> provider_chain(p),
                                 body |-> KeyView(Shaped(p, p.chain[1])), generation |-> IF g >= w THEN g ELSE w]

\* The key is made of the payload, before it is shaped.
exact_key_genUnshaped(p, g, w) == [owner |-> p.owner, namespace |-> p.namespace, chain |-> provider_chain(p),
                                   body |-> KeyView(p.body), generation |-> g + w]

\* The names of the whole chain, but the content as the first target alone shapes it.
\* generation_effective folds the two generations with a sum, mixed into the key.
exact_key_gen(p, g, w) == [owner |-> p.owner, namespace |-> p.namespace, chain |-> provider_chain(p),
                           body |-> KeyView(Shaped(p, p.chain[1])), generation |-> g + w]

\* The second load of the generation, and the key.
Key(r) ==
    LET p == profile[r]
    IN  /\ pc[r] = "generation"
        /\ plan' = [plan EXCEPT ![r] = [as |-> "active",
                     key |-> exact_key_gen(p, generation(p.owner, p.namespace), wild[r])]]
        /\ planned' = [planned EXCEPT ![r] = Effective(p.owner, p.namespace)]
        /\ Goto(r, IF p.cache = "refresh" THEN "residency" ELSE "lookup")
        /\ UNCHANGED <<profile, wild, targets, calls, from, accounting, caching, began>>

\* A hit is answered at once: one usage event, no admission, no decision, no settlement.
Lookup(r) ==
    LET hits == {e \in store : e.key = plan[r].key}
    IN  /\ pc[r] = "lookup"
        /\ IF hits = {}
             THEN Goto(r, "residency") /\ UNCHANGED <<from, usage>>
             ELSE \E e \in hits : /\ from' = [from EXCEPT ![r] = e.by]
                                  /\ usage' = [usage EXCEPT ![r] = Append(@, "cache_hit")]
                                  /\ Goto(r, "hit")
        /\ UNCHANGED <<profile, wild, plan, targets, calls, admitted, settled, decision, caching, history>>

-----------------------------------------------------------------------------
\* Residency and admission

default_target_plan(name) == [provider |-> name, params |-> Shaping!NoParams]
provider_resident(name, region) == name \in DOMAIN Resident /\ region \in Resident[name]

\* The residency filter is skipped for a chain that came from a configuration.
EligibleMutant(p) ==
    IF required_region(p) = "any" \/ p.config THEN ToSet(p.chain)
    ELSE {default_target_plan(n) : n \in {m \in DOMAIN Resident : provider_resident(m, required_region(p))}}

\* A configured chain is filtered; any other is replaced by every resident built-in.
Eligible(p) ==
    CASE required_region(p) = "any" -> ToSet(p.chain)
      [] required_region(p) # "any" /\ p.config -> {t \in ToSet(p.chain) : provider_resident(t.provider, required_region(p))}
      [] OTHER -> {default_target_plan(n) : n \in {m \in DOMAIN Resident : provider_resident(m, required_region(p))}}

\* The order of the attempts is any permutation here (RoutingStrategy has the orders);
\* without an eligible target the request is blocked.
Residency(r) ==
    LET p == profile[r]
    IN  /\ pc[r] = "residency"
        /\ IF Eligible(p) = {}
             THEN /\ Goto(r, "blocked")
                  /\ usage' = [usage EXCEPT ![r] = Append(@, "sovereign_block")]
                  /\ decision' = [decision EXCEPT ![r] = "residency_blocked"]
                  /\ UNCHANGED targets
             ELSE /\ Goto(r, "admit")
                  /\ \E order \in SetToSeqs(Eligible(p)) : targets' = [targets EXCEPT ![r] = order]
                  /\ UNCHANGED <<usage, decision>>
        /\ UNCHANGED <<profile, wild, plan, calls, from, admitted, settled, caching, history>>

\* guards.admit; a denied request leaves a failure event.
Admit(r) ==
    /\ pc[r] = "admit"
    /\ \/ /\ admitted' = [admitted EXCEPT ![r] = TRUE]
          /\ Goto(r, IF profile[r].stream THEN "streaming" ELSE "attempt") /\ UNCHANGED usage
       \/ /\ usage' = [usage EXCEPT ![r] = Append(@, "limit_denied")]
          /\ Goto(r, "denied") /\ UNCHANGED admitted
    /\ UNCHANGED <<profile, wild, plan, targets, calls, from, settled, decision, caching, history>>

-----------------------------------------------------------------------------
\* Attempts

\* Content and names are masked, the arguments of tool calls are not.
Sent(p) == IF p.data = "tool_args" THEN "clear" ELSE "masked"
Known(name) == name \in DOMAIN Resident \cup CustomProviders

Called(r) == calls' = [calls EXCEPT ![r] = @ \cup {[provider |-> Head(targets[r]).provider, data |-> Sent(profile[r])]}]

\* A target without a provider or without a key is left out.
Skip(r) ==
    /\ pc[r] = "attempt" /\ targets[r] # <<>>
    /\ targets' = [targets EXCEPT ![r] = Tail(@)]
    /\ UNCHANGED <<pc, profile, wild, plan, calls, from, accounting, caching, history>>

\* attempt_target is exhausted (its failures are AttemptLoop's).
Exhaust(r) ==
    /\ pc[r] = "attempt" /\ targets[r] # <<>> /\ Known(Head(targets[r]).provider)
    /\ Called(r) /\ targets' = [targets EXCEPT ![r] = Tail(@)]
    /\ UNCHANGED <<pc, profile, wild, plan, from, accounting, caching, history>>

\* The winner: its answer is masked, the decision and the usage event are recorded.
Win(r) ==
    /\ pc[r] = "attempt" /\ targets[r] # <<>> /\ Known(Head(targets[r]).provider)
    /\ Called(r) /\ from' = [from EXCEPT ![r] = r]
    /\ decision' = [decision EXCEPT ![r] = "ok"]
    /\ usage' = [usage EXCEPT ![r] = Append(@, "success")]
    /\ Goto(r, "settle")
    /\ UNCHANGED <<profile, wild, plan, targets, admitted, settled, caching, history>>

\* No target won.
AllFailed(r) ==
    /\ pc[r] = "attempt" /\ targets[r] = <<>>
    /\ decision' = [decision EXCEPT ![r] = "all_failed"]
    /\ Goto(r, "failed")
    /\ UNCHANGED <<profile, wild, plan, targets, calls, from, admitted, settled, usage, caching, history>>

\* The client hangs up while a provider is asked: the handler is dropped at its await.
HangUp(r) ==
    /\ pc[r] = "attempt" /\ targets[r] # <<>> /\ Known(Head(targets[r]).provider)
    /\ Called(r) /\ Goto(r, "gone")
    /\ UNCHANGED <<profile, wild, plan, targets, from, accounting, caching, history>>

\* Only an answer that is not for the cache is settled.
SettleMutant(r) ==
    /\ pc[r] = "settle"
    /\ settled' = [settled EXCEPT ![r] = IF plan[r].as = "active" THEN @ ELSE @ + 1]
    /\ queued' = IF plan[r].as = "active" /\ ~profile[r].oversize
                   THEN queued \cup {[key |-> plan[r].key, by |-> r]} ELSE queued
    /\ Goto(r, "answered")
    /\ UNCHANGED <<profile, wild, plan, targets, calls, from, admitted, usage, decision, generations, store, history>>

\* Settlement, the cache write (unless it is too large) and the answer.
Settle(r) ==
    /\ pc[r] = "settle"
    /\ settled' = [settled EXCEPT ![r] = @ + 1]
    /\ queued' = IF plan[r].as = "active" /\ ~profile[r].oversize
                   THEN queued \cup {[key |-> plan[r].key, by |-> r]} ELSE queued
    /\ Goto(r, "answered")
    /\ UNCHANGED <<profile, wild, plan, targets, calls, from, admitted, usage, decision, generations, store, history>>

-----------------------------------------------------------------------------
\* The cache writer and purges

\* apply_insert: the entry replaces one of its key; or the lane drops the write.
Apply(w) ==
    /\ w \in queued /\ queued' = queued \ {w}
    /\ \/ store' = {e \in store : e.key # w.key} \cup {w}
       \/ UNCHANGED store
    /\ UNCHANGED <<pc, profile, wild, plan, targets, calls, from, accounting, generations, history>>

\* Expired or evicted.
Forget(e) ==
    /\ e \in store /\ store' = store \ {e}
    /\ UNCHANGED <<pc, profile, wild, plan, targets, calls, from, accounting, generations, queued, history>>

\* A tenant that has purged its last free scope can no longer purge everything.
RoomMutant(t, scope) == Cardinality(DOMAIN generations[t]) < MaxScopes

\* bump: the wildcard keeps a scope in reserve until it is first used.
Room(t, scope) ==
    LET reserve == IF scope # Wildcard /\ Wildcard \notin DOMAIN generations[t] THEN 1 ELSE 0
    IN  Cardinality(DOMAIN generations[t]) + reserve < MaxScopes

Purges == MapThenSumSet(LAMBDA t : MapThenSumSet(LAMBDA s : generations[t][s], DOMAIN generations[t]), Owners)

Purge(t, scope) ==
    LET old == generations[t]
    IN  /\ Purges < MaxPurges
        /\ scope \in DOMAIN old \/ Room(t, scope)
        /\ generations' = [generations EXCEPT ![t] =
             [s \in DOMAIN old \cup {scope} |-> IF s = scope THEN generation(t, s) + 1 ELSE old[s]]]
        /\ UNCHANGED <<pc, profile, wild, plan, targets, calls, from, accounting, queued, store, history>>

Namespaces == {p.namespace : p \in Profiles}
Next ==
    \/ \E r \in Requests : \/ Arrive(r) \/ Plan(r) \/ Key(r) \/ Lookup(r) \/ Residency(r) \/ Admit(r)
                           \/ Skip(r) \/ Exhaust(r) \/ Win(r) \/ AllFailed(r) \/ HangUp(r) \/ Settle(r)
    \/ \E w \in queued : Apply(w)
    \/ \E e \in store : Forget(e)
    \/ \E t \in Owners, scope \in Namespaces \cup {Wildcard} : Purge(t, scope)

Spec == Init /\ [][Next]_vars

-----------------------------------------------------------------------------
\* A cached answer is served only to a request of the same tenant whose chain names the
\* same providers and whose first target would have been sent the same content, both of
\* which may use the cache.  It comes from a provider of this request's own chain, and
\* where that target shapes as the first one does, in both chains, it answers what this
\* request would have sent there; of a target with params of its own the key says
\* nothing (see ShapingNeverCollides).  Nor is it served across a purge: not if
\* a purge of its namespace or of everything was complete after the answer's request had
\* made its key and before this one began to make its own -- although the generation is
\* read in two loads and writes arrive late (proxy.rs cache_plan, FlushRegistry).
HitIsSound ==
    \A r \in Requests : pc[r] = "hit" =>
        LET p == profile[r] w == profile[from[r]] winner == Head(targets[from[r]])
        IN  /\ <<p.owner, p.namespace, provider_chain(p)>> = <<w.owner, w.namespace, provider_chain(w)>>
            /\ KeyView(Shaped(p, p.chain[1])) = KeyView(Shaped(w, w.chain[1]))
            /\ winner \in ToSet(w.chain)
            /\ \A k \in DOMAIN w.chain : w.chain[k] = winner =>
                 /\ Normal[p.chain[k].provider] = Normal[winner.provider]
                 /\ p.chain[k].params = p.chain[1].params /\ winner.params = w.chain[1].params =>
                      KeyView(Shaped(p, p.chain[k])) = KeyView(Shaped(w, winner))
            /\ Cacheable(p) /\ Cacheable(w) /\ ~w.oversize
            /\ began[r] <= planned[from[r]]

\* "post-shaping so configs that shape differently never collide" (cache/src/lib.rs:179):
\* a hit is the answer to what this request would have sent to the provider that gave
\* it.  It does not hold: a target behind the first one shapes with params the key has
\* not seen (proxy.rs:3191, :3967).
ShapingNeverCollides ==
    \A r \in Requests : pc[r] = "hit" =>
        LET p == profile[r] w == profile[from[r]] winner == Head(targets[from[r]])
        IN  \E t \in ToSet(p.chain) : /\ Normal[t.provider] = Normal[winner.provider]
                                     /\ KeyView(Shaped(p, t)) = KeyView(Shaped(w, winner))

\* A tenant can always purge everything, however many scopes it has purged before
\* (cache/src/lib.rs, bump).
FlushAllPossible ==
    \A t \in Owners : Wildcard \in DOMAIN generations[t] \/ Cardinality(DOMAIN generations[t]) < MaxScopes

\* A hit is as sound as its key, no purge lies between the two requests, and a tenant
\* never runs out of purges (proxy.rs cache_plan, FlushRegistry).
CacheIsSound == HitIsSound /\ FlushAllPossible

\* Personal data of a request that asks for a region goes only to providers resident
\* there; what the classifier does not see is masked before it goes anywhere
\* (proxy.rs, residency_classifier_text and the residency filter).
DataStaysHome ==
    \A r \in Requests : \A c \in calls[r] :
        LET p == profile[r]
        IN  p.region # "any" /\ p.data # "none" =>
                provider_resident(c.provider, p.region) \/ (p.data = "name" /\ c.data = "masked")

\* Every way out leaves one consistent record: a provider's answer is decided, reported
\* and settled exactly once; a cached one is reported, never admitted nor settled; a
\* refused, blocked or denied request has reached no provider; nothing is settled that
\* was not admitted and answered (proxy.rs, chat_completions_pipeline).
OneRecord ==
    \A r \in Requests :
        /\ pc[r] = "answered" => /\ admitted[r] /\ settled[r] = 1 /\ decision[r] = "ok"
                                 /\ usage[r] = <<"success">> /\ from[r] = r
        /\ pc[r] = "hit" => ~admitted[r] /\ calls[r] = {} /\ usage[r] = <<"cache_hit">>
        /\ pc[r] \in {"refused", "blocked", "denied"} => calls[r] = {}
        /\ pc[r] = "failed" => decision[r] = "all_failed" /\ from[r] = Nobody
        /\ pc[r] # "answered" => settled[r] = 0
=============================================================================
