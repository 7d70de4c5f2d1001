---------------------------- MODULE OutputChecks ----------------------------
(***************************************************************************)
(* Checks on a model's answer: verbatim leakage of the system prompt and    *)
(* banned keywords (crates/guardrails/src/detect.rs), structural JSON       *)
(* schemas (crates/guardrails/src/schema.rs), and the verdict they add up   *)
(* to (crates/guardrails/src/lib.rs).                                       *)
(*                                                                          *)
(* A word is <<text, is it capitalised>>.  The rolling hash is taken modulo *)
(* h.mod (2^64 in the code) with base h.base over an arbitrary hash of a    *)
(* word, so that collisions happen.                                         *)
(***************************************************************************)
EXTENDS Integers, Sequences, FiniteSets, SequencesExt

-----------------------------------------------------------------------------
\* System prompt leakage

LEAK_MAX_WORDS == 4096
LEAK_MIN_SPAN_FLOOR == 4
Clamp(n) == IF n < LEAK_MIN_SPAN_FLOOR THEN LEAK_MIN_SPAN_FLOOR
            ELSE IF n > LEAK_MAX_WORDS THEN LEAK_MAX_WORDS ELSE n

normalize_words(text) ==
    [i \in 1..(IF Len(text) < LEAK_MAX_WORDS THEN Len(text) ELSE LEAK_MAX_WORDS) |-> text[i][1]]
token_hash(h, word) == h.of[word] % h.mod

Power(h, n) == FoldLeft(LAMBDA p, i : (p * h.base) % h.mod, 1, [i \in 1..n |-> i])

\* The leaving word is scaled by one power too many.
LeavingMutant(h, words, n, i) == token_hash(h, words[i + 1 - n]) * Power(h, n)

Leaving(h, words, n, i) == token_hash(h, words[i + 1 - n]) * Power(h, n - 1)

\* The hashes of the runs of n words, as one pass over the words computes them.
WindowHashes(h, words, n) ==
    LET Roll(st, i) ==
            LET now == (st.hash * h.base + token_hash(h, words[i])) % h.mod
            IN  IF i < n THEN [st EXCEPT !.hash = now]
                ELSE [hash |-> (now - Leaving(h, words, n, i)) % h.mod, runs |-> Append(st.runs, now)]
    IN  FoldLeft(Roll, [hash |-> 0, runs |-> <<>>], [i \in DOMAIN words |-> i]).runs

system_contains_span(sys, span) ==
    /\ span # <<>> /\ Len(span) <= Len(sys)
    /\ \E j \in 1..(Len(sys) + 1 - Len(span)) : SubSeq(sys, j, j + Len(span) - 1) = span

has_shared_span(h, sys, out, n) ==
    /\ n > 0 /\ Len(sys) >= n /\ Len(out) >= n
    /\ LET hashes == ToSet(WindowHashes(h, sys, n))
           windows == WindowHashes(h, out, n)
       IN  \E i \in DOMAIN windows :
             windows[i] \in hashes /\ system_contains_span(sys, SubSeq(out, i, i + n - 1))

detect_system_prompt_leak(h, system, output, min) ==
    has_shared_span(h, normalize_words(system), normalize_words(output), Clamp(min))

\* Grow the span until it is shared no more.
longest_shared_span_words(h, system, output, min) ==
    LET sys == normalize_words(system)
        out == normalize_words(output)
        most == IF Len(sys) < Len(out) THEN Len(sys) ELSE Len(out)
        best[n \in 0..(most + 1)] ==
            IF n <= most /\ has_shared_span(h, sys, out, n) THEN best[n + 1] ELSE n - 1
    IN  IF Clamp(min) > most \/ ~has_shared_span(h, sys, out, Clamp(min)) THEN 0 ELSE best[Clamp(min)]

leak_span_bucket(h, system, output, min) ==
    LET span == longest_shared_span_words(h, system, output, min)
    IN  IF ~detect_system_prompt_leak(h, system, output, min) THEN "none"
        ELSE IF span <= 15 THEN "short" ELSE IF span <= 63 THEN "medium" ELSE "large"

-----------------------------------------------------------------------------
\* Keywords and verdicts

MAX_KEYWORDS == 256
KeywordMatcher(keywords) == [ok |-> Cardinality(keywords) <= MAX_KEYWORDS, empty |-> keywords = {}, set |-> keywords]
is_match(matcher, words) == ~matcher.empty /\ \E w \in words : w \in matcher.set
is_blocking(outcome) == outcome.action = "deny" /\ outcome.verdict # "pass"

-----------------------------------------------------------------------------
\* JSON schemas.  A value is [t, v]: an object is a function of its keys, an array a
\* sequence, a string its length; a number counts halves and keeps whether it was written
\* as a float.  A schema is a function of its keywords.

MAX_SCHEMA_DEPTH == 16
UNSUPPORTED_KEYWORDS ==
    {"$ref", "$dynamicRef", "oneOf", "anyOf", "allOf", "not", "if", "then", "else", "pattern",
     "patternProperties", "propertyNames", "prefixItems", "contains", "dependentSchemas",
     "unevaluatedProperties", "unevaluatedItems"}
SchemaType == {"object", "array", "string", "number", "integer", "boolean", "null"}
matches(type, value) ==
    IF type = "integer" THEN value.t = "number" /\ value.v % 2 = 0 ELSE value.t = type

Has(schema, k) == k \in DOMAIN schema
\* An array of sub-schemas is not looked into.
parse_atMutant(schema, depth) ==
    /\ depth <= MAX_SCHEMA_DEPTH
    /\ DOMAIN schema \cap UNSUPPORTED_KEYWORDS = {}
    /\ Has(schema, "type") => schema["type"] \subseteq SchemaType

RECURSIVE parse_at(_, _)
parse_at(schema, depth) ==
    /\ depth <= MAX_SCHEMA_DEPTH
    /\ DOMAIN schema \cap UNSUPPORTED_KEYWORDS = {}
    /\ Has(schema, "type") => schema["type"] \subseteq SchemaType
    /\ Has(schema, "properties") =>
         \A name \in DOMAIN schema.properties : parse_at(schema.properties[name], depth + 1)
    /\ Has(schema, "items") => parse_at(schema.items, depth + 1)

AtLeast(schema, k, n) == Has(schema, k) => n >= schema[k]
AtMost(schema, k, n) == Has(schema, k) => n <= schema[k]

RECURSIVE validate_at(_, _)
validate_at(schema, value) ==
    /\ Has(schema, "type") => \E type \in schema["type"] : matches(type, value)
    /\ Has(schema, "enum") => value \in schema["enum"]
    /\ value.t = "string" => AtLeast(schema, "minLength", value.v) /\ AtMost(schema, "maxLength", value.v)
    /\ value.t = "number" => AtLeast(schema, "minimum", value.v) /\ AtMost(schema, "maximum", value.v)
    /\ value.t = "object" =>
         /\ Has(schema, "required") => schema.required \subseteq DOMAIN value.v
         /\ Has(schema, "properties") =>
              \A name \in DOMAIN schema.properties \cap DOMAIN value.v :
                 validate_at(schema.properties[name], value.v[name])
         /\ Has(schema, "additionalProperties") /\ ~schema.additionalProperties =>
              DOMAIN value.v \subseteq (IF Has(schema, "properties") THEN DOMAIN schema.properties ELSE {})
    /\ value.t = "array" =>
         /\ AtLeast(schema, "minItems", Len(value.v)) /\ AtMost(schema, "maxItems", Len(value.v))
         /\ Has(schema, "items") => \A i \in DOMAIN value.v : validate_at(schema.items, value.v[i])

-----------------------------------------------------------------------------
\* Properties

\* The rolling hash, whatever it collides on, finds a leak exactly when n words in a row
\* of the answer stand in the prompt, and the bucket is that of the longest such run
\* (detect.rs, detect_system_prompt_leak and leak_span_bucket).
LeakIsExact(h, system, output, min) ==
    LET sys == normalize_words(system)
        out == normalize_words(output)
        n == Clamp(min)
        shared == {k \in n..Len(out) : \E i \in 1..(Len(out) + 1 - k) : \E j \in 1..(Len(sys) + 1 - k) :
                      SubSeq(out, i, i + k - 1) = SubSeq(sys, j, j + k - 1)}
        longest == CHOOSE k \in shared : \A l \in shared : l <= k
    IN  /\ detect_system_prompt_leak(h, system, output, min) <=> shared # {}
        /\ leak_span_bucket(h, system, output, min) =
             (IF shared = {} THEN "none" ELSE IF longest < 16 THEN "short"
              ELSE IF longest < 64 THEN "medium" ELSE "large")

\* Sub-schemas at any depth, whichever keyword they sit under.
RECURSIVE SubSchemas(_)
SubSchemas(schema) ==
    {schema} \cup
    (IF Has(schema, "items") THEN SubSchemas(schema.items) ELSE {}) \cup
    (IF Has(schema, "properties")
     THEN UNION {SubSchemas(schema.properties[k]) : k \in DOMAIN schema.properties} ELSE {})

\* The places of the value the schema reaches, each with the sub-schema that governs it.
RECURSIVE Governed(_, _)
Governed(schema, value) ==
    {<<schema, value>>} \cup
    (IF value.t = "array" /\ Has(schema, "items")
     THEN UNION {Governed(schema.items, value.v[i]) : i \in DOMAIN value.v} ELSE {}) \cup
    (IF value.t = "object" /\ Has(schema, "properties")
     THEN UNION {Governed(schema.properties[k], value.v[k]) : k \in DOMAIN schema.properties \cap DOMAIN value.v}
     ELSE {})

\* A schema that is accepted is enforced to the last level: no level of it has a keyword
\* the validator does not know how to enforce, and in a value it lets through every place
\* it governs has its type, its required members and no member it closes off (schema.rs,
\* parse_at and validate_at).
SchemaEnforced(schema, value) ==
    parse_at(schema, 0) =>
        /\ \A s \in SubSchemas(schema) : DOMAIN s \cap UNSUPPORTED_KEYWORDS = {}
        /\ validate_at(schema, value) => \A g \in Governed(schema, value) :
             /\ Has(g[1], "type") => \E type \in g[1]["type"] : matches(type, g[2])
             /\ g[2].t = "object" /\ Has(g[1], "required") => g[1].required \subseteq DOMAIN g[2].v
             /\ g[2].t = "object" /\ Has(g[1], "additionalProperties") /\ ~g[1].additionalProperties =>
                  \A k \in DOMAIN g[2].v : Has(g[1], "properties") /\ k \in DOMAIN g[1].properties
=============================================================================
