---------------------------- MODULE UsageReports ----------------------------
(***************************************************************************)
(* The usage events the handlers record and the reports the console APIs    *)
(* compute from a tenant's ring (crates/routeplane/src/observability.rs).   *)
(* Times are seconds, cost is micro-USD, names are members of small sets.   *)
(***************************************************************************)
EXTENDS Integers, Sequences, FiniteSets, FiniteSetsExt, SequencesExt

None == "none"     \* Option::None of a name
NoLatency == -1    \* Option::None of latency_ms
\* Providers whose label starts with '(' are synthetic: no upstream was called.
Synthetic == {"(sovereign_block)", "(guardrails_denied)", "(prompt_render)", "(feedback)",
              "(cache)", "(semantic-cache)"}

\* UsageEvent, reduced to the fields a report reads.
Blank == [ts |-> 0, key |-> None, provider |-> None, model |-> None, use_case |-> None,
          total_tokens |-> 0, cached_tokens |-> 0, cost |-> 0, latency_ms |-> NoLatency,
          region |-> None, sovereign_routed |-> FALSE, success |-> FALSE, error |-> None,
          cache_hit |-> None, cache_status |-> None, saved |-> 0, guardrails |-> <<>>]

\* Only the closed set of labels reaches an event: anything else an upstream said
\* becomes upstream_error.
safe_usage_error(raw) ==
    IF raw \in {"rate_limit_exceeded", "budget_exceeded", "sovereign_block",
                "guardrails_denied", "stream_error"}
    THEN raw ELSE "upstream_error"

SuccessEvent(e, tokens) ==
    [e EXCEPT !.total_tokens = tokens, !.success = TRUE]
FailureEvent(e, raw) ==
    [e EXCEPT !.total_tokens = 0, !.success = FALSE, !.error = safe_usage_error(raw)]
SovereignBlock(e) ==
    [e EXCEPT !.provider = "(sovereign_block)", !.total_tokens = 0, !.sovereign_routed = TRUE,
              !.success = FALSE, !.error = "sovereign_block"]
PromptRender(e) ==
    [e EXCEPT !.provider = "(prompt_render)", !.total_tokens = 0, !.success = TRUE]
Feedback(e) ==
    [e EXCEPT !.provider = "(feedback)", !.model = None, !.total_tokens = 0, !.region = None,
              !.sovereign_routed = FALSE, !.success = TRUE]
GuardrailsBlock(e, outcomes) ==
    [e EXCEPT !.provider = "(guardrails_denied)", !.total_tokens = 0, !.success = FALSE,
              !.error = "guardrails_denied", !.guardrails = outcomes]
GuardrailsOutputDenied(e, tokens, outcomes) ==
    [e EXCEPT !.total_tokens = tokens, !.success = FALSE,
              !.error = "guardrails_denied", !.guardrails = outcomes]

with_stream_error(e, failed) ==
    IF failed THEN [e EXCEPT !.success = FALSE, !.error = "stream_error"] ELSE e
with_cache_hit(e, saved) ==
    [e EXCEPT !.cache_hit = "hit", !.cache_status = "hit", !.saved = saved]
with_cache_status(e, status) ==
    IF status = None THEN e ELSE [e EXCEPT !.cache_hit = "miss", !.cache_status = status]

-----------------------------------------------------------------------------
\* Reports over a tenant's ring, oldest event first

\* The events that are upstream attempts.
Attempts(ring) == SelectSeq(ring, LAMBDA e : e.provider \notin Synthetic)

Count(s, Test(_)) == Len(SelectSeq(s, Test))
Total(s, Value(_)) == FoldLeft(LAMBDA n, e : n + Value(e), 0, s)

usage_summary(ring) ==
    LET a == Attempts(ring) IN
    [window |-> Len(ring),
     guardrail_block |-> Count(ring, LAMBDA e : e.error = "guardrails_denied"),
     sovereign_block |-> Count(ring, LAMBDA e : e.error = "sovereign_block"),
     success |-> Count(a, LAMBDA e : e.success),
     failure |-> Count(a, LAMBDA e : ~e.success),
     participating |-> Count(a, LAMBDA e : e.cache_hit # None),
     hits |-> Count(a, LAMBDA e : e.cache_hit = "hit")]

\* ChargebackTotals::accumulate over the events of one group.
Totals(s) ==
    [requests |-> Len(s),
     successful_requests |-> Count(s, LAMBDA e : e.success),
     total_tokens |-> Total(s, LAMBDA e : e.total_tokens),
     cost |-> Total(s, LAMBDA e : e.cost)]

\* Nearest rank: the smallest sample that p per cent of the samples do not exceed.
Nearest(sorted, p) ==
    LET n == Len(sorted)
        rank == (p * n + 99) \div 100
    IN  sorted[IF rank < 1 THEN 1 ELSE IF rank > n THEN n ELSE rank]

from_samples(samples) ==
    LET sorted == SortSeq(samples, LAMBDA a, b : a < b) IN
    IF samples = <<>> THEN [count |-> 0]
    ELSE [count |-> Len(samples), p50 |-> Nearest(sorted, 50), p95 |-> Nearest(sorted, 95),
          p99 |-> Nearest(sorted, 99), max |-> sorted[Len(sorted)]]

Latencies(s) ==
    LET timed == SelectSeq(s, LAMBDA e : e.latency_ms # NoLatency)
    IN  [i \in 1..Len(timed) |-> timed[i].latency_ms]

GroupBy(s, Field(_)) ==
    [v \in {Field(s[i]) : i \in 1..Len(s)} |-> SelectSeq(s, LAMBDA e : Field(e) = v)]

latency_stats(ring) ==
    LET g == GroupBy(Attempts(ring), LAMBDA e : e.provider) IN
    [overall |-> from_samples(Latencies(Attempts(ring))),
     by_provider |-> [p \in {q \in DOMAIN g : Latencies(g[q]) # <<>>} |-> from_samples(Latencies(g[p]))]]

chargeback(ring) ==
    LET a == Attempts(ring)
        model == GroupBy(a, LAMBDA e : e.model)
        key == GroupBy(a, LAMBDA e : e.key)
        use == GroupBy(SelectSeq(a, LAMBDA e : e.use_case # None), LAMBDA e : e.use_case)
    IN [window |-> Len(ring), events_matched |-> Len(a), totals |-> Totals(a),
        by_model |-> [v \in DOMAIN model |-> Totals(model[v])],
        by_key |-> [v \in DOMAIN key |-> Totals(key[v])],
        by_use_case |-> [v \in DOMAIN use |-> Totals(use[v])],
        latency |-> from_samples(Latencies(a))]

AtLeast1(n) == IF n < 1 THEN 1 ELSE n

\* An off-by-one: the clamp lets the last instant past the last bucket.
BucketMutant(offset, secs, n) == offset \div secs + 1

\* The bucket an offset falls in, 0-based and clamped.
Bucket(offset, secs, n) ==
    LET i == offset \div secs IN IF i > n - 1 THEN n - 1 ELSE i

\* usage_timeseries: n equal buckets that end at now; avg of an empty bucket is 0.
usage_timeseries(ring, now, window, count) ==
    LET n == AtLeast1(count)
        secs == AtLeast1(AtLeast1(window) \div n)
        start == now - secs * n
        inside == SelectSeq(Attempts(ring), LAMBDA e : start <= e.ts /\ e.ts < now)
        of(i) == SelectSeq(inside, LAMBDA e : Bucket(e.ts - start, secs, n) = i)
        row(s) == LET ms == Latencies(s)
                      sum == FoldLeft(LAMBDA x, y : x + y, 0, ms)
                  IN [requests |-> Len(s), errors |-> Count(s, LAMBDA e : ~e.success),
                      tokens |-> Total(s, LAMBDA e : e.total_tokens),
                      cost |-> Total(s, LAMBDA e : e.cost),
                      avg_latency_ms |-> IF ms = <<>> THEN 0 ELSE sum \div Len(ms)]
    IN  [bucket_secs |-> secs, window_secs |-> secs * n,
         total_events_in_window |-> Len(inside), buckets |-> [i \in 0..(n - 1) |-> row(of(i))]]

\* guardrail_outcomes counts every event of the window, synthetic ones included.
guardrail_outcomes(ring, now, window, count) ==
    LET n == AtLeast1(count)
        secs == AtLeast1(AtLeast1(window) \div n)
        start == now - secs * n
        inside == SelectSeq(ring, LAMBDA e : start <= e.ts /\ e.ts < now)
        hits(e) == Count(e.guardrails, LAMBDA o : o # "pass")
    IN  [total_requests |-> Len(inside),
         affected_requests |-> Count(inside, LAMBDA e : hits(e) > 0),
         series |-> [i \in 0..(n - 1) |->
             Total(SelectSeq(inside, LAMBDA e : Bucket(e.ts - start, secs, n) = i), hits)]]

\* cache_savings: a hit of the exact or semantic cache saves its whole cost.
cache_savings(ring, now, window) ==
    LET start == now - AtLeast1(window)
        inside == SelectSeq(ring, LAMBDA e : start <= e.ts /\ e.ts < now)
        hit == SelectSeq(inside, LAMBDA e : \/ e.cache_hit = "hit"
                                            \/ e.provider \in {"(cache)", "(semantic-cache)"})
    IN  [cacheable_lookups |-> Count(inside, LAMBDA e : e.cache_hit # None),
         cache_hits |-> Len(hit),
         saved_cost |-> Total(hit, LAMBDA e : e.saved),
         saved_tokens |-> Total(hit, LAMBDA e : e.total_tokens + e.cached_tokens)]

\* Renders and feedback are not attempts at anything and are left out of the log.
is_logged_attempt(e) == e.provider \notin {"(prompt_render)", "(feedback)"}

LogRow(e) ==
    [provider |-> e.provider, key |-> e.key, model |-> e.model, region |-> e.region,
     outcome |-> IF e.success THEN "success"
                 ELSE IF e.error \in {"sovereign_block", "guardrails_denied"} THEN "blocked"
                 ELSE "error"]

\* The newest rows first, at most limit of them.
recent_events(ring, limit) ==
    LET rows == SelectSeq(Reverse(ring), is_logged_attempt)
    IN  [i \in 1..(IF limit < Len(rows) THEN limit ELSE Len(rows)) |-> LogRow(rows[i])]

Regulated(e) == e.region # None \/ e.sovereign_routed

residency_outcome(e) ==
    CASE e.error = "sovereign_block" -> "residency_blocked"
      [] e.error # "sovereign_block" /\ ~e.success -> IF Regulated(e) THEN "all_failed" ELSE "not_regulated"
      [] e.error # "sovereign_block" /\ e.success -> IF e.sovereign_routed THEN "sovereign_routed" ELSE "not_regulated"

\* A row names the region an event was routed to only when it was served there.
residency_report(ring, limit) ==
    LET logged == SelectSeq(Reverse(ring), is_logged_attempt)
        n(o) == Count(logged, LAMBDA e : residency_outcome(e) = o)
    IN  [total |-> Len(logged), regulated |-> Count(logged, Regulated),
         by_outcome |-> [o \in {"residency_blocked", "all_failed", "sovereign_routed", "not_regulated"} |-> n(o)],
         rows |-> [i \in 1..(IF limit < Len(logged) THEN limit ELSE Len(logged)) |->
                     [outcome |-> residency_outcome(logged[i]),
                      required |-> logged[i].region,
                      routed |-> IF logged[i].sovereign_routed /\ logged[i].success
                                 THEN logged[i].region ELSE None]]]

\* finalize(): a share of the total, 0 of an empty window; here in per cent.
finalize(n, total) == IF total > 0 THEN (100 * n) \div total ELSE 0

-----------------------------------------------------------------------------
SumOver(f, Field(_)) == MapThenSumSet(LAMBDA v : Field(f[v]), DOMAIN f)

\* The reports of one ring agree: groups and buckets partition the totals (an
\* event exactly on a bucket edge is counted once), the summary, the chargeback
\* and the log count the same attempts, percentiles are ordered samples, a hit
\* is a cacheable lookup, and no block is presented as served in its region.
ReportsAgree(ring, now, window, count) ==
    LET c == chargeback(ring)
        s == usage_summary(ring)
        t == usage_timeseries(ring, now, window, count)
        g == guardrail_outcomes(ring, now, window, count)
        r == residency_report(ring, Len(ring))
        l == from_samples(Latencies(Attempts(ring)))
        inWindow == SelectSeq(ring, LAMBDA e : now - t.window_secs <= e.ts /\ e.ts < now)
    IN
    /\ SumOver(c.by_model, LAMBDA x : x.cost) = c.totals.cost
    /\ SumOver(c.by_key, LAMBDA x : x.requests) = c.totals.requests
    /\ s.success + s.failure = c.totals.requests /\ s.success = c.totals.successful_requests
    /\ SumOver(t.buckets, LAMBDA b : b.requests) = t.total_events_in_window
    /\ SumOver(t.buckets, LAMBDA b : b.cost) = chargeback(inWindow).totals.cost
    /\ g.affected_requests <= g.total_requests
    /\ MapThenSumSet(LAMBDA i : g.series[i], DOMAIN g.series) >= g.affected_requests
    /\ l.count > 0 => /\ l.p50 <= l.p95 /\ l.p95 <= l.p99 /\ l.p99 <= l.max
                      /\ 2 * Cardinality({i \in DOMAIN Latencies(Attempts(ring)) :
                                            Latencies(Attempts(ring))[i] <= l.p50}) >= l.count
    /\ SumOver(r.by_outcome, LAMBDA n : n) = r.total /\ Len(recent_events(ring, Len(ring))) = r.total
    /\ \A i \in DOMAIN r.rows : r.rows[i].routed # None => r.rows[i].outcome = "sovereign_routed"
    /\ s.hits <= s.participating
=============================================================================
