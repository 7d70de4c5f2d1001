---------------------------- MODULE RoutingPolicy ----------------------------
(***************************************************************************)
(* The routing configuration a request carries or names                     *)
(* (crates/policy/src/lib.rs): the parser with its limits, the registry of  *)
(* saved configurations, and the evaluation to an ordered list of targets.  *)
(* A parsed JSON field is its value, Absent, or Bad where the JSON type is   *)
(* wrong; a parser returns Err or the value it built.                       *)
(***************************************************************************)
EXTENDS Integers, Sequences, FiniteSets, FiniteSetsExt, SequencesExt, RoutingStrategy

Absent == -1
Bad == -2
U32_MAX == 2147483647          \* stands for u32::MAX: the largest integer TLC has
MAX_TARGETS_PER_LEVEL == 16
MAX_FLATTENED_TARGETS == 32
MAX_CONDITIONS == 16
MAX_CLAUSES_PER_CONDITION == 8
MAX_RETRY_ATTEMPTS == 5
MAX_NESTING_DEPTH == 2
BACKOFF_INITIAL_MAX_MS == 10000
BACKOFF_MAX_CAP_MS == 30000
ALLOWED_RETRY_STATUS == {408, 429, 500, 502, 503, 504}
DEFAULT_RETRY_STATUS == {429, 500, 502, 503, 504}
PARAM_ALLOWLIST == {"model", "temperature", "max_tokens", "max_completion_tokens", "top_p",
                    "stop", "n", "presence_penalty", "frequency_penalty", "user"}
CONDITION_PARAM_FIELDS == {"model", "user", "stream", "max_tokens", "max_completion_tokens",
                           "temperature"}
PolicyStrategy == Strategy \cup {"conditional"}

Err == [ok |-> FALSE]
Ok(v) == [ok |-> TRUE, val |-> v]
OrElse(v, d) == IF v = Absent THEN d ELSE v

parse_u32(v) == v \in 0..U32_MAX
parse_positive_u64(v) == v \in Nat \ {0}

\* PolicyStrategy::parse accepts the router's spellings and conditional, and
\* unlike the router's own parser refuses anything else.
ParseStrategy(s) == IF s \in PolicyStrategy THEN Ok(s) ELSE Err
\* as_router_str: what is left of conditional is priority.
as_router_str(s) == IF s = "conditional" THEN "priority" ELSE s

parse_backoff(b) ==
    LET initial == OrElse(b.initial_ms, 200)
        max == OrElse(b.max_ms, IF initial > 2000 THEN initial ELSE 2000)
    IN  IF /\ initial \in 1..BACKOFF_INITIAL_MAX_MS
           /\ parse_positive_u64(max) /\ max <= BACKOFF_MAX_CAP_MS /\ max >= initial
        THEN Ok([initial_ms |-> initial, max_ms |-> max]) ELSE Err

DefaultBackoff == [initial_ms |-> 200, max_ms |-> 2000]
DefaultRetry == [attempts |-> 0, on_status |-> DEFAULT_RETRY_STATUS, backoff |-> DefaultBackoff]

\* At most five retries.
RetryAttempts(a) == parse_u32(a) /\ a <= MAX_RETRY_ATTEMPTS

\* parse_retry: a status is cut to 16 bits before the allow-list is asked.
parse_retry(r) ==
    LET attempts == OrElse(r.attempts, 1)
        cut == IF r.on_status = {Absent} THEN DEFAULT_RETRY_STATUS ELSE {c % 65536 : c \in r.on_status}
        backoff == IF r.backoff = [absent |-> TRUE] THEN Ok(DefaultBackoff) ELSE parse_backoff(r.backoff)
    IN  IF /\ RetryAttempts(attempts)
           /\ cut \subseteq ALLOWED_RETRY_STATUS
           /\ backoff.ok
        THEN Ok([attempts |-> attempts, backoff |-> backoff.val, on_status |-> cut])
        ELSE Err

\* Backoff::delay for retry k, and the jitter drawn from 0..base.
Base(b, k) ==
    LET Cap(ms) == IF ms < b.max_ms THEN ms ELSE b.max_ms
        grown[j \in 0..31] == IF j = 0 THEN Cap(b.initial_ms) ELSE Cap(2 * grown[j - 1])
    IN  grown[IF k < 31 THEN k ELSE 31]
Delays(b, k) == 0..Base(b, k)

parse_hedge(h) ==
    LET max == OrElse(h.max, 1)
    IN  IF h.delay_ms \in 1..60000 /\ max \in 1..2
        THEN Ok([delay |-> h.delay_ms, max_extra |-> max]) ELSE Err

\* parse_cache_directive: the threshold, in thousandths, is a semantic setting.
parse_cache_directive(c) ==
    LET ttl == OrElse(c.ttl_seconds, 300)
        bytes == OrElse(c.max_response_bytes, 262144)
        threshold == IF c.similarity = Absent /\ c.mode = "semantic" THEN 950 ELSE c.similarity
    IN  IF /\ c.mode \in {"simple", "semantic"}
           /\ ttl \in 10..86400
           /\ c.similarity # Absent => c.mode = "semantic" /\ c.similarity \in 800..999
           /\ bytes \in 1..262144
        THEN Ok([mode |-> c.mode, ttl |-> ttl, threshold |-> threshold, bytes |-> bytes]) ELSE Err

-----------------------------------------------------------------------------
\* ParamShaping over a request's fields: a function from the fields that are present
\* to JSON values [t, v] (a whole number is "num", any other "frac")

parse_params(p) ==
    IF /\ DOMAIN p.default \cup DOMAIN p.override \cup p.drop \subseteq PARAM_ALLOWLIST
       /\ DOMAIN p.override \cap p.drop = {}
    THEN Ok(p) ELSE Err
NoParams == [default |-> <<>>, override |-> <<>>, drop |-> {}]
is_noop(p) == DOMAIN p.default = {} /\ DOMAIN p.override = {} /\ p.drop = {}

\* Whether ChatCompletionRequest takes the JSON value j in its field f; a null is an
\* absent field, but the model has to be there.
Deserialises(f, j) ==
    /\ f = "model" => j.t = "str"
    /\ f = "user" => j.t \in {"str", "null"}
    /\ f \in {"max_tokens", "max_completion_tokens", "n"} => j.t = "null" \/ (j.t = "num" /\ parse_u32(j.v))
    /\ f \in {"temperature", "top_p", "presence_penalty", "frequency_penalty"} => j.t \in {"null", "num", "frac"}
    /\ f = "stop" => j.t \in {"null", "str"} \/ (j.t = "array" /\ \A x \in j.v : x.t = "str")

\* The request read back: nulls are gone and a lone stop is a list of one.
from_value(obj) ==
    [f \in {g \in DOMAIN obj : obj[g].t # "null"} |->
        IF f = "stop" /\ obj[f].t = "str" THEN [t |-> "array", v |-> {obj[f]}] ELSE obj[f]]

\* Defaults fill, overrides replace, drops remove, in this order.
Overlay(p, req) ==
    [f \in (DOMAIN req \cup DOMAIN p.default \cup DOMAIN p.override) \ p.drop |->
        IF f \in DOMAIN p.override THEN p.override[f] ELSE IF f \in DOMAIN req THEN req[f] ELSE p.default[f]]
IsRequest(obj) == "model" \in DOMAIN obj /\ \A f \in DOMAIN obj : Deserialises(f, obj[f])

\* Only the loss of the model is noticed; a value of the wrong type goes out.
ApplyMutant(p, req) ==
    IF ~is_noop(p) /\ "model" \in DOMAIN Overlay(p, req) THEN from_value(Overlay(p, req)) ELSE req

\* apply: what is no longer a request leaves the request as it came, all of it.
Apply(p, req) ==
    IF ~is_noop(p) /\ IsRequest(Overlay(p, req)) THEN from_value(Overlay(p, req)) ELSE req

pinned_model(p) ==
    IF "model" \in DOMAIN p.override /\ p.override["model"].t = "str" THEN p.override["model"].v ELSE "none"

\* A request as it was parsed, and shaping whose values all have their field's type.
WellFormed(req) == IsRequest(req) /\ from_value(req) = req
WellTyped(p) ==
    /\ "model" \notin p.drop
    /\ \A f \in DOMAIN p.default : Deserialises(f, p.default[f])
    /\ \A f \in DOMAIN p.override : Deserialises(f, p.override[f])

Alike(a, b, f) == (f \in DOMAIN a <=> f \in DOMAIN b) /\ (f \in DOMAIN a => a[f] = b[f])
TookEffect(p, shaped) ==
    /\ \A f \in DOMAIN p.override : Alike(shaped, from_value(p.override), f)
    /\ \A f \in p.drop : f \notin DOMAIN shaped

-----------------------------------------------------------------------------
\* Targets: a leaf, or a pool of leaves

IsPool(node) == "targets" \in DOMAIN node

LeafOk(l) ==
    /\ l.provider # ""
    /\ l.weight = Absent \/ parse_u32(l.weight)
    /\ l.cost = Absent \/ parse_u32(l.cost)
    /\ l.retry = [absent |-> TRUE] \/ parse_retry(l.retry).ok
    /\ parse_params(l.params).ok

\* parse_node: a pool sits at depth 1, has a strategy other than conditional, and
\* 1 to 16 leaves.
parse_node(node) ==
    IF IsPool(node)
    THEN /\ ParseStrategy(node.strategy).ok /\ node.strategy # "conditional"
         /\ Len(node.targets) \in 1..MAX_TARGETS_PER_LEVEL
         /\ \A i \in DOMAIN node.targets : ~IsPool(node.targets[i]) /\ LeafOk(node.targets[i])
    ELSE LeafOk(node)

Leaves(node) == IF IsPool(node) THEN node.targets ELSE <<node>>
Flattened(cfg) == SumTo([i \in DOMAIN cfg.targets |-> Len(Leaves(cfg.targets[i]))], Len(cfg.targets))

\* validate_conditional leaves the conditions' own targets unchecked.
validate_conditionalMutant(cfg) ==
    LET names == {cfg.targets[i].name : i \in DOMAIN cfg.targets} IN
    cfg.strategy = "conditional" =>
        /\ "" \notin names /\ Cardinality(names) = Len(cfg.targets)
        /\ cfg.default_target # ""

\* validate_conditional: unique names, and every name that is used exists.
validate_conditional(cfg) ==
    LET names == {cfg.targets[i].name : i \in DOMAIN cfg.targets} IN
    cfg.strategy = "conditional" =>
        /\ "" \notin names /\ Cardinality(names) = Len(cfg.targets)
        /\ cfg.default_target \in names
        /\ \A i \in DOMAIN cfg.conditions : cfg.conditions[i].target \in names

\* validate_path and validate_when: a clause is [path, field, op, val].
ClauseOk(c) ==
    /\ \/ c.path = "metadata"
       \/ c.path = "params" /\ c.field \in CONDITION_PARAM_FIELDS
    /\ \/ c.op \in {"eq", "ne"}
       \/ c.op \in {"in", "nin"} /\ c.val.t = "array"
       \/ c.op \in {"gt", "gte", "lt", "lte"} /\ c.val.t = "num"
       \/ c.op = "exists" /\ c.val.t = "bool"

parse_conditions(cs) ==
    /\ Len(cs) <= MAX_CONDITIONS
    /\ \A i \in DOMAIN cs : /\ Cardinality(cs[i].when) <= MAX_CLAUSES_PER_CONDITION
                            /\ \A c \in cs[i].when : ClauseOk(c)

\* RoutingConfig::parse
ParseConfig(cfg) ==
    /\ ParseStrategy(cfg.strategy).ok
    /\ cfg.retry = [absent |-> TRUE] \/ parse_retry(cfg.retry).ok
    /\ Len(cfg.targets) \in 1..MAX_TARGETS_PER_LEVEL
    /\ \A i \in DOMAIN cfg.targets : parse_node(cfg.targets[i])
    /\ Flattened(cfg) <= MAX_FLATTENED_TARGETS
    /\ parse_conditions(cfg.conditions)
    /\ validate_conditional(cfg)

-----------------------------------------------------------------------------
\* Evaluation

\* resolve_path and param_value: a JSON value [t, v], or NoJson.
NoJson == [t |-> "none", v |-> 0]
resolve_path(c, metadata, req) ==
    LET src == IF c.path = "metadata" THEN metadata ELSE req
    IN  IF c.field \in DOMAIN src /\ (c.path = "metadata" \/ c.field \in CONDITION_PARAM_FIELDS)
        THEN src[c.field] ELSE NoJson

\* A missing value satisfies only exists = false; numbers compare with numbers.
eval_op(op, actual, val) ==
    \/ op = "exists" /\ ((actual # NoJson) <=> (val.v = 1))
    \/ /\ actual # NoJson
       /\ \/ op = "eq" /\ actual = val
          \/ op = "ne" /\ actual # val
          \/ op = "in" /\ actual \in val.v
          \/ op = "nin" /\ actual \notin val.v
          \/ /\ actual.t = "num"
             /\ \/ op = "gt" /\ actual.v > val.v
                \/ op = "gte" /\ actual.v >= val.v
                \/ op = "lt" /\ actual.v < val.v
                \/ op = "lte" /\ actual.v <= val.v

eval_when(when, metadata, req) ==
    \A c \in when : eval_op(c.op, resolve_path(c, metadata, req), c.val)

leaf_to_plan(leaf, cfg) ==
    LET own == IF leaf.retry # [absent |-> TRUE] THEN leaf.retry ELSE cfg.retry IN
    [leaf |-> leaf, retry |-> IF own = [absent |-> TRUE] THEN DefaultRetry ELSE parse_retry(own).val]

\* flatten_pool: cost and weighted pools are ordered here, others keep their order.
flatten_pool(pool, cfg, picks) ==
    LET ordered == CASE pool.strategy = "cost" -> 
                          StableSort(pool.targets, [i \in DOMAIN pool.targets |-> OrElse(pool.targets[i].cost, 100)])
                     [] pool.strategy = "weighted" ->
                          weighted_order(pool.targets, [i \in DOMAIN pool.targets |-> Max({1, pool.targets[i].weight})], picks)
                     [] OTHER -> pool.targets
    IN  [i \in DOMAIN ordered |-> leaf_to_plan(ordered[i], cfg)]

NodePlan(node, cfg, picks) ==
    IF IsPool(node) THEN flatten_pool(node, cfg, picks) ELSE <<leaf_to_plan(node, cfg)>>

\* evaluate: the first condition that holds names the target, else the default;
\* without conditions every target is flattened in place.
evaluate(cfg, metadata, req, picks) ==
    IF cfg.strategy = "conditional"
    THEN LET hits == {i \in DOMAIN cfg.conditions : eval_when(cfg.conditions[i].when, metadata, req)}
             name == IF hits = {} THEN cfg.default_target ELSE cfg.conditions[Min(hits)].target
             named == {i \in DOMAIN cfg.targets : cfg.targets[i].name = name}
             node == cfg.targets[IF named = {} THEN 1 ELSE Min(named)]
         IN  [strategy |-> IF IsPool(node) THEN node.strategy ELSE "priority",
              targets |-> NodePlan(node, cfg, picks),
              matched |-> IF hits = {} THEN "default" ELSE "condition"]
    ELSE [strategy |-> cfg.strategy, matched |-> "none",
          targets |-> FlattenSeq([i \in DOMAIN cfg.targets |-> NodePlan(cfg.targets[i], cfg, picks)])]

-----------------------------------------------------------------------------
\* Metadata, saved configurations and the header

\* parse_metadata: an object of strings, numbers and booleans, at most 4 KiB.
parse_metadata(h) ==
    CASE h.kind = "absent" -> Ok(<<>>)
      [] h.kind = "large" -> Err
      [] h.kind = "object" -> IF \A k \in DOMAIN h.map : h.map[k].t \in {"str", "num", "bool"}
                              THEN Ok(h.map) ELSE Err
      [] OTHER -> Err

\* load_registry_from_file: one bad entry refuses the file; a combo needs a fresh
\* name and a model pinned on every target; a repeated id replaces the earlier
\* configuration, but not the combo that one was filed under.
load_registry_from_file(entries) ==
    LET Add(reg, e) ==
            IF reg = "refused" \/ e.id = "" \/ ~ParseConfig(e.routing) THEN "refused"
            ELSE IF e.combo = "" THEN [k \in DOMAIN reg \cup {e.id} |-> IF k = e.id THEN e.routing ELSE reg[k]]
            ELSE IF \/ e.combo \in DOMAIN reg
                    \/ \E i \in DOMAIN e.routing.targets, l \in 1..16 :
                         /\ l \in DOMAIN Leaves(e.routing.targets[i])
                         /\ pinned_model(Leaves(e.routing.targets[i])[l].params) = "none"
                 THEN "refused"
            ELSE [k \in DOMAIN reg \cup {e.id, e.combo} |-> IF k \in {e.id, e.combo} THEN e.routing ELSE reg[k]]
    IN  FoldLeft(Add, <<>>, entries)

\* resolve_routing_config: the header's kind decides; no header is no config.
resolve_routing_config(h, registry) ==
    CASE h.kind = "absent" -> Ok("none")
      [] h.kind = "inline" -> IF h.sections \subseteq {"routing", "guardrails"}
                              THEN IF "routing" \notin h.sections THEN Ok("none")
                                   ELSE IF ParseConfig(h.routing) THEN Ok(h.routing) ELSE Err
                              ELSE Err
      [] h.kind = "saved" -> IF h.id \in DOMAIN registry THEN Ok(registry[h.id]) ELSE Err
      [] OTHER -> Err

-----------------------------------------------------------------------------
\* Every configuration the parser accepts evaluates, for any request, metadata
\* and random picks, to a plan within the platform's bounds: at least one target
\* and no target the configuration does not have, none twice, at most five
\* retries each, on retryable statuses only, no delay beyond thirty seconds, and the
\* target of the first condition that holds.  What a target is sent is a request
\* again, shaped as a whole or not at all: every override took effect (so a pinned
\* model is pinned) and every drop, or -- only where a value of the configuration
\* has not its field's type, or the model is dropped -- nothing did; a field
\* outside the allow-list is as the client sent it
\* (RoutingConfig::parse, evaluate, ParamShaping::apply).
AcceptedPlanIsBounded(cfg, metadata, req, picks) ==
    ParseConfig(cfg) => \A plan \in {evaluate(cfg, metadata, req, picks)} :
        LET all == FlattenSeq([i \in DOMAIN cfg.targets |-> Leaves(cfg.targets[i])])
            Times(s, l) == Cardinality({i \in DOMAIN s : s[i] = l})
        IN
        /\ Len(plan.targets) \in 1..MAX_FLATTENED_TARGETS
        /\ plan.strategy \in Strategy
        /\ \A t \in ToSet(plan.targets) :
             LET shaped == Apply(t.leaf.params, req) IN
             /\ Times([j \in DOMAIN plan.targets |-> plan.targets[j].leaf], t.leaf) <= Times(all, t.leaf)
             /\ t.retry.attempts <= MAX_RETRY_ATTEMPTS /\ t.retry.on_status \subseteq ALLOWED_RETRY_STATUS
             /\ \A k \in 0..32 : Base(t.retry.backoff, k) \in 1..BACKOFF_MAX_CAP_MS
             /\ WellFormed(shaped)
             /\ TookEffect(t.leaf.params, shaped) \/ (shaped = req /\ ~WellTyped(t.leaf.params))
             /\ \A f \in (DOMAIN req \cup DOMAIN shaped) \ PARAM_ALLOWLIST : Alike(shaped, req, f)
        /\ cfg.strategy = "conditional" =>
             LET Holds(i) == eval_when(cfg.conditions[i].when, metadata, req)
                 Named(name) == \E n \in DOMAIN cfg.targets :
                     /\ cfg.targets[n].name = name
                     /\ ToSet([j \in DOMAIN plan.targets |-> plan.targets[j].leaf]) = ToSet(Leaves(cfg.targets[n]))
             IN  \/ (\A i \in DOMAIN cfg.conditions : ~Holds(i)) /\ Named(cfg.default_target)
                 \/ \E i \in DOMAIN cfg.conditions :
                      Holds(i) /\ (\A j \in 1..(i - 1) : ~Holds(j)) /\ Named(cfg.conditions[i].target)

\* A target that pins a model is sent that model, so that the name of a combo never
\* reaches a provider (policy/src/lib.rs:411, :1704); an override of the wrong type
\* beside the pin breaks it.
PinsHold(cfg, req) ==
    ParseConfig(cfg) => \A i \in DOMAIN cfg.targets : \A l \in ToSet(Leaves(cfg.targets[i])) :
        pinned_model(l.params) # "none" => Apply(l.params, req)["model"].v = pinned_model(l.params)
=============================================================================
