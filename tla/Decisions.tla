----------------------------- MODULE Decisions ------------------------------
(***************************************************************************)
(* The decisions the gateway takes without keeping state, each put to it as *)
(* a question: a step asks one, and an invariant compares the answer with   *)
(* what it has to be.  The questions are CONSTANTS, assumed to be ones the  *)
(* code can be asked: keys filed under their own name, features and tiers   *)
(* that exist, a pick for every target of a pool.                           *)
(***************************************************************************)
EXTENDS Integers, Sequences, FiniteSets
Auth == INSTANCE Authentication
Costs == INSTANCE Pricing
Policy == INSTANCE RoutingPolicy
Side == INSTANCE Endpoints

CONSTANTS
    Gateways, Credentials,             \* key registries with their toggles; what calls present
    Tables, Displays, Regions, Models, \* exchange tables; currencies asked for; model names
    RouterConfig, SpecLists, HealthViews,  \* RouterConfig; candidates; views of the health tracker
    Picks,                             \* numbers drawn, one per target of a pool
    Configs, RoutedRequests, Metadata, \* routing configurations and what they are evaluated on
    Worlds, Asks, Uploads              \* what an endpoint beside chat meets, and is asked

VARIABLE q
NoQuestion == [topic |-> "none"]

-----------------------------------------------------------------------------
\* Admission

\* As load_from_json files it: under its own name, of a tier and with features that exist.
RegisteredKey(name, vk) ==
    /\ vk.key = name /\ vk.tier \in Auth!Tier /\ vk.overrides \subseteq Auth!Feature
ASSUME GatewaysAssumption ==
    /\ \A g \in Gateways : /\ g.toggles.on \in BOOLEAN /\ g.bridge \in BOOLEAN
                           /\ \A k \in DOMAIN g.keys : RegisteredKey(k, g.keys[k])
    /\ \A c \in Credentials : c.throttled \in BOOLEAN /\ c.session_verifies \in BOOLEAN
                          /\ c.authorization.prefixed \in BOOLEAN

AskAccess == q = NoQuestion /\ \E g \in Gateways, c \in Credentials : q' = [topic |-> "access", gateway |-> g, call |-> c]

\* See Authentication.AdmissionIsEarned (auth.rs, entitlements/src/lib.rs, flags/src/lib.rs).
Access == q.topic = "access" => Auth!AdmissionIsEarned(q.gateway, q.call)

-----------------------------------------------------------------------------
\* Costs

AskCost == q = NoQuestion /\ \E t \in Tables, c \in Displays, r \in Regions, m \in Models :
    q' = [topic |-> "cost", table |-> t, display |-> c, region |-> r, model |-> m]

\* Every model has the price of the row that means it, in every currency and region: see
\* Pricing.CostIsWellPriced (limits/src/lib.rs, pricing.rs, fx.rs).
Cost == q.topic = "cost" => Costs!CostIsWellPriced(q.table, q.display, q.region, q.model)

-----------------------------------------------------------------------------
\* Candidate orders

\* A weight or cost of a candidate is a number or NoValue; a provider's own weight is not 0.
ASSUME OrdersAssumption ==
    /\ \A n \in DOMAIN RouterConfig : RouterConfig[n].weight \in Nat \ {0} /\ RouterConfig[n].cost \in Nat
    /\ \A s \in SpecLists :
         /\ s \in Seq(Policy!ToSet(s)) /\ Len(s) <= Len(Picks)
         /\ \A i \in DOMAIN s : {s[i].weight, s[i].cost} \subseteq Nat \cup {Policy!NoValue}
    /\ \A h \in HealthViews, n \in UNION {{s[i].name : i \in DOMAIN s} : s \in SpecLists} :
         /\ h[n].available \in BOOLEAN /\ h[n].in_flight \in Nat
         /\ h[n].latency \in Nat \cup {Policy!NoValue}
    /\ Picks \in Seq(Nat) /\ Picks # <<>>

AskOrder == q = NoQuestion /\ \E specs \in SpecLists, s \in Policy!Strategy, h \in HealthViews :
    q' = [topic |-> "order", specs |-> specs, strategy |-> s, health |-> h]

\* See RoutingStrategy.OrderIsFair (strategy.rs, order_candidates_with_specs_rng).
CandidateOrder ==
    q.topic = "order" => Policy!OrderIsFair(RouterConfig, q.specs, q.strategy, q.health, Picks)

-----------------------------------------------------------------------------
\* Routing configurations

\* Lists are lists; the rest of a configuration is for the parser to find out.  A
\* request has been parsed before it is routed.
ASSUME RequestsAssumption == \A req \in RoutedRequests : Policy!WellFormed(req)
ASSUME ConfigsAssumption ==
    /\ Len(Picks) >= Policy!MAX_TARGETS_PER_LEVEL
    /\ \A c \in Configs :
         /\ c.targets \in Seq(Policy!ToSet(c.targets)) /\ c.conditions \in Seq(Policy!ToSet(c.conditions))
         /\ \A i \in DOMAIN c.targets : LET node == c.targets[i] IN
              Policy!IsPool(node) => node.targets \in Seq(Policy!ToSet(node.targets))

AskConfig == q = NoQuestion /\ \E c \in Configs, r \in RoutedRequests, m \in Metadata :
    q' = [topic |-> "config", cfg |-> c, req |-> r, meta |-> m]

\* See RoutingPolicy.AcceptedPlanIsBounded (policy/src/lib.rs).
PlanBounded ==
    q.topic = "config" => Policy!AcceptedPlanIsBounded(q.cfg, q.meta, q.req, Picks)

-----------------------------------------------------------------------------
\* The endpoints beside chat

\* The registry is a finite table; a chain is a list; an attempt may start while time is left.
ASSUME WorldsAssumption ==
    /\ \A w \in Worlds : IsFiniteSet(DOMAIN w.registry) /\ w.deadline \in Nat
    /\ \A a \in Asks \cup Uploads : a.chain \in Seq(Policy!ToSet(a.chain))

AskEndpoint == q = NoQuestion /\ \E e \in Side!Endpoint, w \in Worlds : \E a \in IF e \in Side!Sound THEN Uploads ELSE Asks :
    q' = [topic |-> "endpoint", endpoint |-> e, world |-> w, ask |-> a]

\* Every order of a list.
Orders(s) ==
    {[i \in DOMAIN s |-> s[place[i]]] : place \in {p \in [DOMAIN s -> DOMAIN s] : \A i, j \in DOMAIN s : p[i] = p[j] => i = j}}
\* See Endpoints.EndpointIsConsistent (embeddings.rs and its siblings), whatever order the
\* candidates are tried in.
SiblingRecord ==
    q.topic = "endpoint" =>
        \A order \in Orders(Side!Eligible(q.endpoint, q.world, q.ask)) :
            Side!EndpointIsConsistent(q.endpoint, q.world, q.ask, order)

-----------------------------------------------------------------------------
\* Who may use what, in which order the candidates are tried, what a routing
\* configuration turns into, and how the other endpoints try theirs (auth.rs,
\* entitlements, flags, strategy.rs, policy, embeddings.rs and its siblings).
AccessAndRouting == Access /\ CandidateOrder /\ PlanBounded /\ SiblingRecord

Asked == AskAccess \/ AskCost \/ AskOrder \/ AskConfig \/ AskEndpoint
Decide == q = NoQuestion /\ [][Asked]_q
=============================================================================
