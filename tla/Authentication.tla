--------------------------- MODULE Authentication ---------------------------
(***************************************************************************)
(* Who a request belongs to and what it may do                              *)
(* (crates/routeplane/src/auth.rs): the key registry, the credential a      *)
(* request presents, the tenant context every handler receives.             *)
(*                                                                          *)
(* A credential is a key name; a header is absent ("none"), blank, or holds *)
(* one.  The throttle (AuthFailures) and the console session                *)
(* (ConsoleAccounts) are given as their verdicts.                           *)
(***************************************************************************)
EXTENDS Entitlements

NoTenant == "none"

-----------------------------------------------------------------------------
\* Virtual keys

\* resolved_tenant_id: the key's name stands in for a tenant that is not given.
resolved_tenant_id(vk) == IF vk.tenant = NoTenant THEN vk.name ELSE vk.tenant
\* canonical_tenant_id, TenantId::new: only a given tenant, well-formed, owns resources.
TenantId(tenant, malformed) == tenant # NoTenant /\ tenant \notin malformed
canonical_tenant_id(vk, malformed) == IF TenantId(vk.tenant, malformed) THEN vk.tenant ELSE NoTenant

capability_set(vk, global) == resolve(vk.tier, vk.overrides, vk.holdbacks \cup global)

\* effective_requested_region: the header, when it is not blank, replaces the default.
effective_requested_region(vk, header) ==
    IF header \notin {"none", "blank"} THEN header ELSE vk.residency

is_model_provisioned(vk, model) == model \in vk.provisioned
\* resolve_slug: "@slug/model" of an integration that lists the model.
resolve_slug(vk, model) ==
    CASE ~model.at -> [as |-> "not_a_slug"]
      [] model.at /\ model.slug \in DOMAIN vk.integrations /\ model.bare \in vk.integrations[model.slug].models ->
            [as |-> "resolved", adapter |-> vk.integrations[model.slug].adapter, model |-> model.bare]
      [] OTHER -> [as |-> "denied"]

-----------------------------------------------------------------------------
\* The registry

\* load_from_json: an unreadable, unparsable or empty registry refuses to start; of two
\* entries with one key the later one stays.
load_from_json(doc) ==
    IF ~doc.readable \/ ~doc.parses \/ doc.keys = <<>> THEN [ok |-> FALSE]
    ELSE LET named(k) == {i \in DOMAIN doc.keys : doc.keys[i].key = k}
             last(k) == CHOOSE i \in named(k) : \A j \in named(k) : j <= i
         IN  [ok |-> TRUE, keys |-> [k \in {doc.keys[i].key : i \in DOMAIN doc.keys} |-> doc.keys[last(k)]]]

\* holdbacks_from_var, parse_holdbacks: an entry that names no feature refuses to start.
holdbacks_from_var(var) ==
    CASE var.as = "unset" -> [ok |-> TRUE, set |-> {}]
      [] var.as = "not_unicode" -> [ok |-> FALSE]
      [] OTHER -> IF \A f \in var.entries : from_flag_key(f) # {}
                    THEN [ok |-> TRUE, set |-> var.entries] ELSE [ok |-> FALSE]

lookup_constant_time(state, key) == IF key \in DOMAIN state.keys THEN {state.keys[key]} ELSE {}

\* resolve_tenant_context: what the toggles have not released is held back as well; a
\* toggle the snapshot does not know counts as released.
eval_context_for(vk) == to_unleash_context(resolved_tenant_id(vk), vk.tier, vk.residency)
resolve_tenant_context(state, vk) ==
    LET unreleased == IF state.toggles.on
                        THEN {f \in Feature : ~FlagResolves(state.toggles.snapshot, f, TRUE, eval_context_for(vk))}
                        ELSE {}
    IN  [tenant |-> resolved_tenant_id(vk), owner |-> canonical_tenant_id(vk, state.malformed), tier |-> vk.tier,
         capabilities |-> capability_set(vk, state.holdbacks \cup unreleased),
         frameworks |-> vk.frameworks, mode |-> vk.mode]

-----------------------------------------------------------------------------
\* The middleware

\* source_ip_key: the trusted header, else the first forwarded address.
source_ip_key(headers) ==
    CASE headers.trusted \notin {"none", "blank"} -> headers.trusted
      [] headers.forwarded \notin {"none", "blank"} -> headers.forwarded
      [] OTHER -> "unknown"

\* bearer_gateway_candidate: only a Bearer token with the gateway's prefix is one.
bearer_gateway_candidate(authorization) ==
    CASE authorization.scheme # "bearer" -> [key |-> "none", other |-> FALSE]
      [] authorization.scheme = "bearer" /\ authorization.prefixed -> [key |-> authorization.token, other |-> FALSE]
      [] OTHER -> [key |-> "none", other |-> TRUE]
\* resolve_gateway_credential: the native header, when it is not blank, is the credential.
resolve_gateway_credential(native, authorization) ==
    IF native \notin {"none", "blank"} THEN [key |-> native, other |-> FALSE]
    ELSE bearer_gateway_candidate(authorization)

Refused(how, failures) == [as |-> how, failures |-> failures]
Serve(state, vk, session) ==
    [as |-> "served", failures |-> 0, key |-> vk, context |-> resolve_tenant_context(state, vk), session |-> session]

\* auth_middleware: throttle first, then the credential or else a console session.
auth_middleware(state, req) ==
    LET credential == resolve_gateway_credential(req.native, req.authorization)
        found == lookup_constant_time(state, credential.key)
        console == lookup_constant_time(state, state.console_key)
    IN  CASE req.throttled -> Refused("throttled", 0)
          [] ~req.throttled /\ credential.key # "none" ->
                IF \E vk \in found : serves_traffic(vk.state)
                  THEN Serve(state, CHOOSE vk \in found : TRUE, FALSE)
                  ELSE Refused("unauthorized", 1)
          [] ~req.throttled /\ credential.key = "none" ->
                IF /\ credential.other /\ state.bridge /\ req.session_verifies
                   /\ \E vk \in console : serves_traffic(vk.state)
                  THEN Serve(state, CHOOSE vk \in console : TRUE, TRUE)
                  ELSE Refused("unauthorized", 1)

-----------------------------------------------------------------------------
\* A handler runs only for a tenant that is served, under the credential the client put
\* first (a wrong native key is never made good by the Authorization header, nor by a
\* session), with no feature that the operator, the key or an unreleased toggle holds
\* back -- not even one the key overrides; and a refusal is counted against the source
\* exactly once, a throttled request not at all (auth.rs, auth_middleware).
AdmissionIsEarned(state, req) ==
    LET r == auth_middleware(state, req)
        held == state.holdbacks \cup r.key.holdbacks \cup
                (IF state.toggles.on THEN {f \in DOMAIN state.toggles.snapshot : r.key.tier \notin state.toggles.snapshot[f]}
                                     ELSE {})
    IN  /\ r.failures = IF r.as = "unauthorized" THEN 1 ELSE 0
        /\ r.as = "served" =>
             /\ ~req.throttled /\ r.key.state = "active"
             /\ req.native \notin {"none", "blank"} => r.key.key = req.native /\ ~r.session
             /\ r.session => r.key.key = state.console_key /\ req.session_verifies
             /\ ~r.session => r.key.key \in {req.native, req.authorization.token}
             /\ r.context.capabilities \cap held = {}
             /\ r.context.owner # NoTenant => r.context.owner = r.context.tenant
=============================================================================
