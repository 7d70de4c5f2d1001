--------------------------- MODULE RoutingStrategy ---------------------------
(***************************************************************************)
(* The order in which the candidates of a request are tried                 *)
(* (crates/router/src/strategy.rs).  A candidate is [name, weight, cost]    *)
(* with NoValue where the spec leaves the provider's own setting in force;  *)
(* the random number generator is a sequence of numbers taken modulo the    *)
(* total weight.                                                            *)
(***************************************************************************)
EXTENDS Integers, Sequences, FiniteSets, FiniteSetsExt, SequencesExt

NoValue == -1
Strategy == {"priority", "weighted", "cost", "latency", "round_robin", "least_busy"}

\* RoutingStrategy::parse: three spellings of two names, and priority for the rest.
parse(value) ==
    CASE value \in {"weighted", "cost", "latency"} -> value
      [] value \in {"round_robin", "roundrobin", "round-robin"} -> "round_robin"
      [] value \in {"least_busy", "leastbusy", "least-busy"} -> "least_busy"
      [] OTHER -> "priority"

\* RouterConfig: the compiled-in settings, and the default for any other provider.
with_defaults ==
    [gemini |-> [weight |-> 1, cost |-> 30], openai |-> [weight |-> 1, cost |-> 50],
     azure_openai |-> [weight |-> 1, cost |-> 55], anthropic |-> [weight |-> 1, cost |-> 80]]
Get(config, name) ==
    IF name \in DOMAIN config THEN config[name] ELSE [weight |-> 1, cost |-> 100]

plain(name) == [name |-> name, weight |-> NoValue, cost |-> NoValue]
CostOf(config, c) == IF c.cost # NoValue THEN c.cost ELSE Get(config, c.name).cost

\* A zero weight is taken as it is: the candidate can never be drawn.
WeightOfMutant(config, c) == IF c.weight # NoValue THEN c.weight ELSE Get(config, c.name).weight

WeightOf(config, c) ==
    LET w == IF c.weight # NoValue THEN c.weight ELSE Get(config, c.name).weight
    IN  IF w < 1 THEN 1 ELSE w

\* sort_by_key is stable: order by key, then by place.
Before(keys, i, j) == keys[i] < keys[j] \/ (keys[i] = keys[j] /\ i < j)
StableSort(s, keys) ==
    LET place(r) == CHOOSE i \in DOMAIN s : Cardinality({j \in DOMAIN s : Before(keys, j, i)}) = r - 1
    IN  [r \in DOMAIN s |-> s[place(r)]]

\* The running sum of the first i weights.
SumTo(ws, i) ==
    LET sum[k \in 0..Len(ws)] == IF k = 0 THEN 0 ELSE sum[k - 1] + ws[k] IN sum[i]

\* The index at which the running sum passes the pick.
Chosen(ws, pick) ==
    LET hit == {i \in DOMAIN ws : pick < SumTo(ws, i)} IN IF hit = {} THEN 1 ELSE Min(hit)

\* weighted_order: draw without replacement, one pick per round.
Draw(st, pick) ==
    LET total == SumTo(st.ws, Len(st.ws))
        i == Chosen(st.ws, pick % (IF total < 1 THEN 1 ELSE total))
    IN  [pool |-> RemoveAt(st.pool, i), ws |-> RemoveAt(st.ws, i), out |-> Append(st.out, st.pool[i])]
weighted_order(pool, weights, picks) ==
    LET after[k \in 0..Len(pool)] ==
            IF k = 0 THEN [pool |-> pool, ws |-> weights, out |-> <<>>] ELSE Draw(after[k - 1], picks[k])
    IN  after[Len(pool)].out

\* round_robin_order: rotate by the cursor that was current.
round_robin_order(live, cursor) ==
    IF Len(live) <= 1 THEN live
    ELSE LET start == cursor % Len(live)
         IN  SubSeq(live, start + 1, Len(live)) \o SubSeq(live, 1, start)

\* The candidates whose breaker admits a request, in the caller's order.
Available(specs, health) ==
    LET kept[i \in 0..Len(specs)] ==
            IF i = 0 THEN <<>>
            ELSE IF health[specs[i].name].available THEN Append(kept[i - 1], specs[i]) ELSE kept[i - 1]
    IN  kept[Len(specs)]

\* order_candidates_with_specs: health is the tracker's view of the owner,
\* [available, latency, in_flight] per name, with NoValue for no sample.
order_candidates_with_specs(config, specs, strategy, health, cursor, picks) ==
    LET live == Available(specs, health)
        Lat(c) == IF health[c.name].latency = NoValue THEN 0 ELSE health[c.name].latency + 1
    IN CASE strategy = "priority" -> live
         [] strategy = "cost" -> StableSort(live, [i \in DOMAIN live |-> CostOf(config, live[i])])
         [] strategy = "latency" -> StableSort(live, [i \in DOMAIN live |-> Lat(live[i])])
         [] strategy = "weighted" -> weighted_order(live, [i \in DOMAIN live |-> WeightOf(config, live[i])], picks)
         [] strategy = "round_robin" -> round_robin_order(live, cursor)
         [] strategy = "least_busy" -> StableSort(live, [i \in DOMAIN live |-> health[live[i].name].in_flight])

\* order_candidates: bare names, so every setting is the provider's own.
order_candidates(config, names, strategy, health, cursor, picks) ==
    order_candidates_with_specs(config, [i \in DOMAIN names |-> plain(names[i])],
                                strategy, health, cursor, picks)

-----------------------------------------------------------------------------
\* Whatever the strategy, the candidates tried are exactly the available ones,
\* once each; cheaper, faster or less busy ones come first and an unmeasured
\* provider before all; equal ones keep the caller's order; over one round of
\* cursors each candidate leads; and a candidate that is listed once leads for
\* exactly its weight of the picks, at least one (order_candidates_with_specs_rng).
OrderIsFair(config, specs, strategy, health, picks) ==
    LET Order(cursor, ps) == order_candidates_with_specs(config, specs, strategy, health, cursor, ps)
        up == {i \in DOMAIN specs : health[specs[i].name].available}
        n == Cardinality(up)
        out == Order(0, picks)
        Key(c) == CASE strategy = "cost" -> CostOf(config, c)
                    [] strategy = "least_busy" -> health[c.name].in_flight
                    [] strategy = "latency" -> IF health[c.name].latency = NoValue THEN -1 ELSE health[c.name].latency
                    [] OTHER -> 0
        live == Available(specs, health)
        total == SumTo([i \in DOMAIN live |-> WeightOf(config, live[i])], Len(live))
        Leads(c) == Cardinality({r \in 0..(total - 1) : Order(0, <<r>> \o Tail(picks))[1] = c})
    IN
    /\ \E place \in [1..n -> up] :
         /\ IsInjective(place) /\ out = [r \in 1..n |-> specs[place[r]]]
         /\ strategy # "weighted" =>
              \A i, j \in 1..n : i < j =>
                 \/ Key(out[i]) < Key(out[j])
                 \/ Key(out[i]) = Key(out[j]) /\ place[i] < place[j]
    /\ strategy = "round_robin" /\ n > 0 =>
         {Order(k, picks)[1] : k \in 5..(4 + n)} = {specs[i] : i \in up}
    /\ strategy = "weighted" =>
         \A i \in up : (\A j \in up : specs[j] = specs[i] => j = i) =>
             LET w == specs[i].weight
             IN  Leads(specs[i]) = (IF w = NoValue THEN Get(config, specs[i].name).weight
                                    ELSE IF w = 0 THEN 1 ELSE w)
=============================================================================
