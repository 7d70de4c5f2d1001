---------------------------- MODULE Entitlements ----------------------------
(***************************************************************************)
(* Which optional features a tenant has and whether it is served at all     *)
(* (crates/entitlements/src/lib.rs), and the toggles that hold a feature    *)
(* back (crates/flags/src/lib.rs).                                          *)
(***************************************************************************)
EXTENDS Integers, FiniteSets, Sequences

Feature == {"semantic_cache", "advanced_guardrails", "agentic_security", "prompt_registry",
            "finops_export", "routing_policy", "audit_ledger", "audit_artifact", "model_catalog",
            "token_compression", "telemetry_durable"}
Tier == {"free", "standard", "business", "enterprise"}
TenantState == {"pending", "active", "suspended", "closed"}

\* TenantState::can_transition_to: closed is terminal, and staying is not a transition.
can_transition_to(from, to) ==
    <<from, to>> \in {<<"pending", "active">>, <<"pending", "closed">>, <<"active", "suspended">>,
                      <<"active", "closed">>, <<"suspended", "active">>, <<"suspended", "closed">>}
serves_traffic(state) == state = "active"

tier_baseline(tier) ==
    LET standard == {"routing_policy", "semantic_cache", "advanced_guardrails", "prompt_registry"}
    IN  CASE tier = "free" -> {"routing_policy", "token_compression"}
          [] tier = "standard" -> standard
          [] tier = "business" -> standard \cup {"finops_export"}
          [] tier = "enterprise" -> standard \cup {"finops_export", "agentic_security"}

\* The holdbacks are taken away before the overrides are added.
resolveMutant(tier, overrides, holdbacks) == (tier_baseline(tier) \ holdbacks) \cup overrides

\* CapabilitySet::resolve
resolve(tier, overrides, holdbacks) == (tier_baseline(tier) \cup overrides) \ holdbacks
from_flag_key(flag) == IF flag \in Feature THEN {flag} ELSE {}
\* RouteplaneEntitlementProvider::resolve_bool
ProviderResolves(capabilities, flag, default) ==
    IF from_flag_key(flag) = {} THEN default ELSE flag \in capabilities

-----------------------------------------------------------------------------
\* Toggles: the memoized snapshot is a function of flag to whether it is released (and,
\* where the toggle is constrained, for which tiers).

memoize_bools(flags) == [f \in DOMAIN flags |-> IF flags[f] THEN Tier ELSE {}]
\* memoize_client_features_json: a document that does not parse leaves the snapshot.
memoize_client_features_json(snapshot, doc) == IF doc.parses THEN doc.toggles ELSE snapshot
to_unleash_context(tenant, tier, region) == [user_id |-> tenant, tier |-> tier, region |-> region]
\* UnleashFlags::resolve_bool: a flag the snapshot does not know has the caller's default.
FlagResolves(snapshot, flag, default, ctx) ==
    IF flag \in DOMAIN snapshot THEN ctx.tier \in snapshot[flag] ELSE default
=============================================================================
