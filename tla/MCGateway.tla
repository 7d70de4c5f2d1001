----------------------------- MODULE MCGateway ------------------------------
(***************************************************************************)
(* The chat pipeline, and the decisions it rests on.  A behaviour puts one  *)
(* question to one of the algorithms that keep no state (those of Decisions *)
(* and the ones only asked here), or runs two requests of one family        *)
(* through the pipeline: one tenant with a cache share, two built-in        *)
(* providers of which one is resident in "in", a custom provider, and       *)
(* purges of one namespace or of everything in between.                     *)
(***************************************************************************)
EXTENDS ChatPipeline, Decisions
U == INSTANCE UsageReports
D == INSTANCE PersonalData
O == INSTANCE OutputChecks
T == INSTANCE TokenCompression
R == INSTANCE PromptRegistry
M == INSTANCE ModelCatalogue
N == INSTANCE ProviderAnswers
Q == INSTANCE ProviderRequests

Str(x) == [t |-> "str", v |-> x]
Num(n) == [t |-> "num", v |-> n]
Null == [t |-> "null", v |-> 0]
List(xs) == [t |-> "array", v |-> xs]

Plain(n) == default_target_plan(n)
Over(n, over) == [provider |-> n, params |-> [Shaping!NoParams EXCEPT !.override = over]]
Hi == [model |-> Str("m1"), messages |-> Str("hi")]
Cold == [temperature |-> Num(0)]
Warm == [model |-> Str("m1"), messages |-> Str("hi"), temperature |-> Num(7)]

\* A cacheable request without personal data; one with personal data and no configuration.
Ordinary == [owner |-> "t1", namespace |-> "n1", body |-> Hi, chain |-> <<Plain("home")>>,
             data |-> "none", region |-> "any", cache |-> "use", stream |-> FALSE,
             oversize |-> FALSE, config |-> TRUE, combo |-> <<>>, catalog |-> FALSE, mode |-> "strict"]
Personal == [Ordinary EXCEPT !.data = "content", !.region = "in", !.chain = <<Plain("abroad")>>,
                             !.config = FALSE, !.cache = "off"]
Configured == [Personal EXCEPT !.config = TRUE, !.cache = "use"]

\* Chains that share the names of their providers and differ in content or params; one
\* that writes the name otherwise; a shaping that takes and one that does not.
Alikes == {
    Ordinary,
    [Ordinary EXCEPT !.chain = <<Plain("Home")>>],
    [Ordinary EXCEPT !.chain = <<Over("home", [model |-> Str("m2")])>>],
    [Ordinary EXCEPT !.chain = <<Over("home", [model |-> Str("m2"), temperature |-> Str("hot")])>>],
    [Ordinary EXCEPT !.chain = <<Over("home", Cold), Plain("abroad")>>],
    [Ordinary EXCEPT !.chain = <<Over("home", Cold), Over("abroad", Cold)>>],
    [Ordinary EXCEPT !.chain = <<Over("home", Cold), Over("abroad", Cold)>>, !.body = Warm]}

Others == {
    Ordinary,
    [Ordinary EXCEPT !.namespace = "n2"],
    [Ordinary EXCEPT !.cache = "refresh"],
    [Ordinary EXCEPT !.oversize = TRUE],
    [Ordinary EXCEPT !.owner = "t2", !.chain = <<Plain("custom"), Plain("home")>>],
    [Ordinary EXCEPT !.stream = TRUE, !.body.model = Str("unknown")],
    [Ordinary EXCEPT !.combo = <<"m1", "unknown">>, !.catalog = TRUE],
    Personal,
    [Configured EXCEPT !.chain = <<Plain("abroad"), Plain("home")>>],
    [Configured EXCEPT !.chain = <<Plain("custom")>>, !.data = "tool_args"],
    [Personal EXCEPT !.data = "name"]}

MCProfiles == Alikes \cup Others
\* Bound: both requests of a behaviour are of one family, and alike chains are as long.
Together ==
    \/ \A r \in Requests : profile[r] \in Others
    \/ \E n \in 1..2 : \A r \in Requests : profile[r] \in Alikes /\ Len(profile[r].chain) = n
MCNormal == [n \in {"home", "Home", "abroad", "custom"} |-> IF n = "Home" THEN "home" ELSE n]
MCResident == [n \in {"home", "abroad"} |-> IF n = "home" THEN {"in"} ELSE {"eu"}]
MCForbidden == [disabled |-> {}, excluded |-> {"risky"}, unprovisioned |-> {"unknown"}]

-----------------------------------------------------------------------------
\* Candidate orders

Names == {"openai", "gemini", "local"}
MCHealthViews ==
    {[n \in Names |-> CASE n = "openai" -> a [] n = "gemini" -> b
                        [] OTHER -> [available |-> TRUE, latency |-> 7, in_flight |-> 1]] :
       a, b \in [available : BOOLEAN, latency : {Policy!NoValue, 7}, in_flight : {0, 1}]}
MCPicks == <<4, 1, 0, 2, 7, 0, 0, 1, 5, 0, 3, 1, 9, 0, 0, 2>>
MCRouterConfig == Policy!with_defaults
MCSpecLists ==
    {<<Policy!plain("openai"), Policy!plain("gemini"), Policy!plain("local")>>,
     <<[Policy!plain("local") EXCEPT !.weight = 0, !.cost = 50], [Policy!plain("openai") EXCEPT !.weight = 3]>>,
     <<[Policy!plain("gemini") EXCEPT !.cost = 100, !.weight = 2], Policy!plain("local"), Policy!plain("openai")>>}

-----------------------------------------------------------------------------
\* Routing configurations

NoRetry == [absent |-> TRUE]
Retries == {NoRetry} \cup
    {[attempts |-> a, on_status |-> s, backoff |-> b] :
        a \in {Policy!Absent, 5, 6}, s \in {{Policy!Absent}, {}, {65536 + 429}, {400}},
        b \in {[absent |-> TRUE], [initial_ms |-> 10000, max_ms |-> Policy!Absent],
               [initial_ms |-> 3000, max_ms |-> 2999], [initial_ms |-> Policy!Absent, max_ms |-> 30000]}}
Shapes == {Policy!NoParams,
           [default |-> [top_p |-> Num(1)], override |-> [model |-> Str("m")], drop |-> {"user"}],
           [default |-> <<>>, override |-> [model |-> Str("m"), temperature |-> Str("hot")], drop |-> {"user"}],
           [default |-> [max_tokens |-> [t |-> "frac", v |-> 5]], override |-> <<>>, drop |-> {}],
           [default |-> <<>>, override |-> [max_tokens |-> Null, stop |-> Str("x")], drop |-> {}],
           [default |-> <<>>, override |-> [stop |-> List({Str("x"), Num(1)}), n |-> Num(-1)], drop |-> {}],
           [default |-> <<>>, override |-> [temperature |-> Num(0)], drop |-> {"model"}],
           [default |-> [messages |-> Num(2)], override |-> <<>>, drop |-> {}]}
ALeaf == [name |-> "a", provider |-> "openai", weight |-> Policy!Absent, cost |-> Policy!Absent,
          retry |-> NoRetry, params |-> Policy!NoParams]
BLeaf == [ALeaf EXCEPT !.name = "b", !.provider = "gemini", !.cost = 20, !.weight = 2]
APool(s) == [name |-> "b", strategy |-> s, targets |-> <<ALeaf, BLeaf, ALeaf>>]
Clauses == {[path |-> p, field |-> "max_tokens", op |-> o, val |-> Num(5)] :
              p \in {"metadata", "params", "headers"}, o \in {"eq", "ne", "gt", "lte"}} \cup
           {[path |-> "metadata", field |-> "tier", op |-> "exists", val |-> [t |-> "bool", v |-> b]] : b \in {0, 1}} \cup
           {[path |-> "params", field |-> "messages", op |-> "nin", val |-> [t |-> "array", v |-> {}]]}
Base0 == [strategy |-> "priority", targets |-> <<ALeaf, BLeaf>>, conditions |-> <<>>,
          default_target |-> "", retry |-> NoRetry]
MCConfigs ==
    {[Base0 EXCEPT !.retry = r, !.targets[1].params = p] : r \in Retries, p \in Shapes} \cup
    {[Base0 EXCEPT !.strategy = s, !.targets = <<ALeaf, APool(ps)>>] :
        s \in Policy!PolicyStrategy \cup {"random"}, ps \in {"cost", "weighted", "latency", "conditional"}} \cup
    {[Base0 EXCEPT !.targets = [i \in 1..n |-> APool("cost")]] : n \in {0, 10, 11, 17}} \cup
    {[Base0 EXCEPT !.strategy = "conditional", !.default_target = d, !.targets = <<ALeaf, APool("weighted")>>,
                   !.conditions = <<[when |-> {c}, target |-> t], [when |-> {}, target |-> "a"]>>] :
        d \in {"", "a", "z"}, c \in Clauses, t \in {"b", "z"}} \cup
    {[Base0 EXCEPT !.strategy = "conditional", !.default_target = "a", !.targets = <<ALeaf, APool("weighted")>>,
                   !.conditions = <<[when |-> {c}, target |-> "b"]>>] : c \in Clauses}
MCMetadata == {<<>>, [tier |-> Num(1), max_tokens |-> Num(6)]}
MCRoutedRequests ==
    {[model |-> Str("m0"), messages |-> Num(1)],
     [model |-> Str("m0"), messages |-> Num(1), max_tokens |-> Num(5), user |-> Str("u")]}

\* See RoutingPolicy.PinsHold (policy/src/lib.rs:411, :1704); it does not hold.
ComboNameStaysInside == q.topic = "config" => Policy!PinsHold(q.cfg, q.req)

-----------------------------------------------------------------------------
\* Reports

Ev(p, k) == [U!Blank EXCEPT !.provider = p, !.model = "m", !.key = k, !.region = "in"]
Events ==
    {U!with_cache_status([U!SuccessEvent(Ev("openai", "k1"), 3) EXCEPT !.cost = 5, !.ts = t, !.latency_ms = 9,
                           !.sovereign_routed = b], "miss") : t \in {0, 4, 9, 10}, b \in BOOLEAN} \cup
    {[U!FailureEvent(Ev("gemini", "k2"), "boom") EXCEPT !.ts = 7, !.latency_ms = 2],
     [U!SovereignBlock(Ev("openai", "k1")) EXCEPT !.ts = 6],
     [U!PromptRender(Ev("openai", "k2")) EXCEPT !.ts = 8],
     [U!Feedback(Ev("openai", "k2")) EXCEPT !.ts = 8],
     [U!with_cache_hit(U!SuccessEvent(Ev("(cache)", "k1"), 3), 5) EXCEPT !.ts = 5],
     [U!with_stream_error(U!SuccessEvent(Ev("openai", "k2"), 4), TRUE) EXCEPT !.ts = 3],
     [U!GuardrailsOutputDenied(Ev("openai", "k2"), 4, <<"pass", "deny", "deny">>) EXCEPT !.ts = 9, !.cost = 2],
     [U!GuardrailsBlock(Ev("openai", "k2"), <<"deny">>) EXCEPT !.ts = 1]}
Rings == {<<>>} \cup {<<a, b>> : a, b \in Events} \cup {<<a, b, a>> : a, b \in Events}

AskReports == q = NoQuestion /\ \E ring \in Rings, w \in {0, 5, 9, 10}, n \in {0, 3} :
    q' = [topic |-> "reports", ring |-> ring, window |-> w, count |-> n]

\* See UsageReports.ReportsAgree (observability.rs).
Reports == q.topic = "reports" => U!ReportsAgree(q.ring, 10, q.window, q.count)

-----------------------------------------------------------------------------
\* Personal data

Aadhaar == <<2, 3, 4, 1, 2, 3, 4, 1, 2, 3, 4, 6>>
Both == <<4, 0, 8, 5, 8, 2, 3, 5, 9, 7, 7, 5>>
Iban == <<16, 11, 8, 2, 32, 14, 28, 29, 1, 2, 3, 4, 5, 6, 9, 8, 7, 6, 5, 4, 3, 2>>
Gstin == <<2, 7, 10, 11, 12, 25, 14, 1, 2, 3, 4, 15, 1, 35, 11>>
Pan == <<10, 11, 12, 25, 14, 1, 2, 3, 4, 15>>
Card == <<4, 1, 1, 1, 1, 1, 1, 1, 1, 1, 1, 1, 1, 1, 1, 1>>
Spans ==
    {D!Id(Aadhaar, <<4, 4, 4>>, x) : x \in {"", ".", "-"}} \cup
    {D!Id(Both, <<4, 4, 4>>, x) : x \in {"", " "}} \cup
    {D!Id(<<1, 2, 3, 4, 5, 6, 7, 8, 9, 0, 1, 8>>, <<4, 4, 4>>, "-"),
     D!Id(Pan, <<10>>, ""), D!Id([Pan EXCEPT ![4] = 13], <<10>>, ""), D!Id([Pan EXCEPT ![4] = 35], <<10>>, ""),
     D!Id(Gstin, <<15>>, ""), D!Id(<<17, 13, 15, 12, 0, 10, 11, 12, 1, 2, 3>>, <<11>>, ""),
     D!Id(<<28, 1, 2, 3, 4, 5, 6, 7, 13>>, <<9>>, ""), D!Id(<<22, 1, 2, 3, 4, 5, 6, 7, 20>>, <<9>>, ""),
     D!Id(<<5, 2, 9, 9, 8, 2, 2, 4, 7, 2, 5>>, <<3, 3, 3, 2>>, "..-"),
     D!Id(<<1, 0, 2, 3, 4, 5, 6, 7, 8, 1>>, <<10>>, ""),
     D!Id(<<9, 8, 7, 6, 5, 4, 3, 2, 1, 0>>, <<5, 5>>, " ")} \cup
    {D!Id(Iban, <<4, 4, 4, 4, 4, 2>>, x) : x \in {"", " "}} \cup
    {D!Id(Card, <<4, 4, 4, 4>>, x) : x \in {"", "-"}} \cup
    {D!Id(<<7, 8, 4, 1, 9, 8, 4, 1, 2, 3, 4, 5, 6, 7, x>>, <<3, 4, 7, 1>>, "-") : x \in {3, 4}} \cup
    {D!Id(<<1, 2, 3, 4, 5, 6, 7, 8, 2>>, <<3, 3, 3>>, x) : x \in {"", " "}} \cup
    {D!Id(<<1, 2, 3, 4, 5, 6, 7, 8, 9>>, <<3, 2, 4>>, x) : x \in {"-", " "}} \cup
    {D!Id(<<6, 1, 7, 5, 5, 5, 0, 1, 9, 9>>, <<3, 3, 4>>, x) : x \in {"", "-", "."}} \cup
    {D!Word(w, v) : w \in {"email", "ipv4", "phone", "jwt", "aws_key", "private_key"}, v \in {"", "octet_above_255"}} \cup
    {D!Word("json_embedded_secret", v) : v \in {"real", "templated"}} \cup
    {D!Word("connection_string", v) : v \in {"real", "no_userinfo"}} \cup
    {D!Word("db_schema_dump", v) : v \in {"real", "no_sensitive_column"}}
Variants(s) == {[s EXCEPT !.hidden = h, !.lower = l, !.isolated = i] :
                   h, i \in BOOLEAN, l \in IF s.word = "id" /\ D!PAN(s) THEN BOOLEAN ELSE {FALSE}}
Texts ==
    {<<v>> : v \in UNION {Variants(s) : s \in Spans}} \cup
    {<<[D!Word("pan_cue", "") EXCEPT !.hidden = h], v, D!Word("email", "")>> :
        h \in BOOLEAN, v \in UNION {Variants(s) : s \in Spans}} \cup
    {<<a, b>> : a, b \in Spans} \cup
    {<<D!Id(<<1, 6, 7, 3, 7, 7, 5, 4, 2, 8, 9, 6>>, <<4, 4, 4>>, "")>>}
Bodies == {[validator |-> "aadhaar", body |-> Append(b, d)] : d \in 0..9,
              b \in {SubSeq(Aadhaar, 1, 11), SubSeq(Both, 1, 11), <<9, 0, 9, 0, 5, 5, 8, 9, 8, 6, 1>>}} \cup
          {[validator |-> "card", body |-> Card], [validator |-> "iban", body |-> Iban],
           [validator |-> "gstin", body |-> Gstin], [validator |-> "tfn", body |-> <<1, 2, 3, 4, 5, 6, 7, 8, 2>>],
           [validator |-> "nric", body |-> <<28, 1, 2, 3, 4, 5, 6, 7, 13>>],
           [validator |-> "saudi_id", body |-> <<1, 0, 2, 3, 4, 5, 6, 7, 8, 1>>]}

AskText == q = NoQuestion /\ \E t \in Texts : q' = [topic |-> "text", text |-> t]
AskBody == q = NoQuestion /\ \E b \in Bodies : q' = [topic |-> "body", of |-> b]

\* See PersonalData.RedactionComplete (detect.rs redact, residency classify).
Redaction == q.topic = "text" => D!RedactionComplete(q.text)

\* See PersonalData.CheckDigitsCatch (verhoeff.rs and the validators of both crates).
CheckDigits ==
    q.topic = "body" =>
        CASE q.of.validator = "aadhaar" -> D!CheckDigitsCatch(D!is_aadhaar, q.of.body, TRUE)
          [] q.of.validator = "card" -> D!CheckDigitsCatch(D!is_card, q.of.body, FALSE)
          [] q.of.validator = "iban" -> D!CheckDigitsCatch(D!is_iban, q.of.body, TRUE)
          [] q.of.validator = "gstin" -> D!CheckDigitsCatch(D!is_gstin, q.of.body, FALSE)
          [] q.of.validator = "tfn" -> D!CheckDigitsCatch(D!is_tfn, q.of.body, TRUE)
          [] q.of.validator = "nric" -> D!CheckDigitsCatch(D!is_nric, q.of.body, FALSE)
          [] q.of.validator = "saudi_id" -> D!CheckDigitsCatch(D!is_saudi_id, q.of.body, FALSE)

\* See PersonalData.AadhaarTakesOver (detect.rs, is_my_number).
MyNumberStillMasked == q.topic = "text" => D!AadhaarTakesOver(q.text)
\* See PersonalData.TokensMaskAlike (detect.rs, redact_with_pii_tokens).
TokensMaskTheSame == q.topic = "text" => D!TokensMaskAlike(q.text)

-----------------------------------------------------------------------------
\* Checks on the answer

\* The words of the code's test and one more; the hashes collide on purpose.
W(s) == [i \in DOMAIN s |-> <<s[i], i % 2 = 0>>]
Prompts == {W(s) : s \in {<<"a", "b", "a", "c", "b", "a">>, <<"a", "a", "a", "a", "b", "a">>, <<"c", "b", "a">>}}
Answers == {W(s) : s \in UNION {[1..n -> {"a", "b", "c"}] : n \in 3..5}}
Hashes == {[of |-> f, base |-> 3, mod |-> 8] : f \in {[a |-> 1, b |-> 4, c |-> 6], [a |-> 7, b |-> 7, c |-> 2]}}
Long(n) == W([i \in 1..n |-> IF i % 5 = 0 THEN "b" ELSE "a"])

AskLeak ==
    /\ q = NoQuestion
    /\ \/ \E h \in Hashes, s \in Prompts, a \in Answers, n \in {0, 5} :
           q' = [topic |-> "leak", h |-> h, system |-> s, answer |-> a, min |-> n]
       \/ \E h \in {CHOOSE f \in Hashes : TRUE}, n \in {15, 16, 63, 64} :
           q' = [topic |-> "leak", h |-> h, system |-> Long(70), answer |-> Long(n), min |-> 4]

\* See OutputChecks.LeakIsExact (detect.rs, detect_system_prompt_leak).
Leak == q.topic = "leak" => O!LeakIsExact(q.h, q.system, q.answer, q.min)

NumberSchemas == {("type" :> {"integer"}), ("type" :> {"number", "null"} @@ "minimum" :> 3),
                  ("enum" :> {[t |-> "number", v |-> 4]}), ("pattern" :> "x"), ("type" :> {"float"}), <<>>}
Schemas ==
    {("type" :> {"object"} @@ "properties" :> ("a" :> s) @@ "required" :> r @@ "additionalProperties" :> b) :
        s \in NumberSchemas, r \in {{}, {"a"}, {"b"}}, b \in BOOLEAN} \cup
    {("type" :> {"array"} @@ "items" :> ("properties" :> ("a" :> s)) @@ "maxItems" :> 1) : s \in NumberSchemas} \cup
    {("items" :> ("items" :> s @@ "minItems" :> 1)) : s \in NumberSchemas} \cup
    {("type" :> {"string"} @@ "maxLength" :> 2), ("oneOf" :> {})}
Nums == {[t |-> "number", v |-> v] : v \in 2..4}
Objects == {[t |-> "object", v |-> f] : f \in UNION {[k -> Nums] : k \in SUBSET {"a", "b"}}}
Values == Nums \cup Objects \cup {[t |-> "string", v |-> 3], [t |-> "null", v |-> 0]} \cup
          {[t |-> "array", v |-> <<x, y>>] : x, y \in Nums} \cup {[t |-> "array", v |-> <<x>>] : x \in Objects} \cup
          {[t |-> "array", v |-> <<[t |-> "array", v |-> <<x>>]>>] : x \in Nums}

AskSchema == q = NoQuestion /\ \E s \in Schemas, v \in Values : q' = [topic |-> "schema", schema |-> s, value |-> v]

\* See OutputChecks.SchemaEnforced (schema.rs).
Schema == q.topic = "schema" => O!SchemaEnforced(q.schema, q.value)

-----------------------------------------------------------------------------
\* Tool output

L1(k, n) == T!Line(k, n, "", 0)
Reps(l, n) == [i \in 1..n |-> l]
Outputs ==
    {<<L1("diff_header", 40), L1("hunk", 20)>> \o Reps(L1("context", 30), n) \o <<L1("change", 20)>> \o Reps(L1("context", 30), m) :
        n, m \in {0, 1, 2, 9}} \cup
    {<<L1("on_branch", 20), L1("untracked_header", 20)>> \o Reps(L1("tabbed", 40), n) \o e :
        n \in {4, 5, 6, 9}, e \in {<<>>, <<L1("context", 1)>>, <<L1("other", 20)>>}} \cup
    {[i \in 1..n |-> T!Line("match", 40, IF i <= m THEN "a" ELSE "b", 0)] : n \in {5, 12}, m \in {0, 5, 6, 11}} \cup
    {<<L1("dot_path", 2)>> \o [i \in 1..12 |-> T!Line("path", 40, "", IF i \in a..b THEN 4 ELSE 2)] : a, b \in {1, 6, 12}} \cup
    {<<L1("other", 9)>> \o [i \in 1..9 |-> T!Line("tree", 40, "", IF i > a THEN 5 ELSE 2)] \o <<L1("tree_total", 20)>> :
        a \in {0, 5, 9}} \cup
    {Reps(L1(k, 30), n) : k \in {"ls", "numbered_one"}, n \in {20, 25, 26, 30, 31}} \cup
    {Reps(L1("other", 9), n) \o Reps(L1("blank", 1), m) \o <<L1("other", 9)>> \o Reps(L1("more", 9), l) :
        n \in {52, 58}, m \in 0..3, l \in {0, 2, 3, 4}} \cup
    {[i \in 1..n |-> T!Line("other", 9, "", i)] : n \in {28, 29, 59, 60, 61, 80}} \cup
    {Reps(L1("compiling", 40), n) \o <<L1("error", 60)>> \o Reps(L1("compiling", 40), m) : n, m \in {0, 3, 4, 9}}

AskOutput == q = NoQuestion /\ \E ls \in Outputs : q' = [topic |-> "output", lines |-> ls]

\* See TokenCompression.NothingVanishes (rtk/src/lib.rs).
Compression == q.topic = "output" => T!NothingVanishes(q.lines)

-----------------------------------------------------------------------------
\* Costs

MCTables == {[present |-> p, readable |-> r, parses |-> j, rates |-> t, region |-> g, default |-> d] :
             p, r, j \in BOOLEAN, t \in {<<>>, "GBP" :> 79, "INR" :> 8500},
             g \in {<<>>, "IN" :> "GBP"}, d \in {"", "GBP", "EUR"}}
MCDisplays == {"", "GBP", "INR"}
MCRegions == {"IN", "EU", "US"}
MCModels == {<<"openai", "/", "gpt", "-", "4o", "-", "mini">>, <<"o1", "-", "preview">>, <<"foo1">>, <<"x", "o1">>}

-----------------------------------------------------------------------------
\* Admission

AKey(k) == [key |-> k, name |-> "n1", tenant |-> "t1", state |-> "active", tier |-> "standard", overrides |-> {},
            holdbacks |-> {}, residency |-> "none", frameworks |-> {}, mode |-> "strict"]
Registries ==
    {"k1" :> [AKey("k1") EXCEPT !.state = s, !.overrides = o, !.holdbacks = h, !.tenant = t] @@
     "kc" :> [AKey("kc") EXCEPT !.tier = "enterprise"] :
        s \in Auth!TenantState, o \in {{}, {"finops_export"}}, h \in {{}, {"finops_export", "prompt_registry"}},
        t \in {"none", "t1", "bad/"}}
MCGateways ==
    {[keys |-> k, holdbacks |-> h, toggles |-> [on |-> g, snapshot |-> "agentic_security" :> {"free"} @@ "finops_export" :> t],
      malformed |-> {"bad/"}, console_key |-> c, bridge |-> b] :
        k \in Registries, h \in {{}, {"finops_export"}}, g, b \in BOOLEAN, t \in {{}, Auth!Tier}, c \in {"kc", "k9"}}
MCCredentials == {[native |-> n, authorization |-> a, throttled |-> FALSE, session_verifies |-> TRUE] :
            n \in {"none", "blank", "k1", "k9"},
            a \in {[scheme |-> s, prefixed |-> p, token |-> t] : s \in {"none", "bearer"}, p \in BOOLEAN, t \in {"k1", "k9"}}} \cup
         {[native |-> "k1", authorization |-> [scheme |-> "none", prefixed |-> FALSE, token |-> ""],
           throttled |-> TRUE, session_verifies |-> FALSE]}

-----------------------------------------------------------------------------
\* Stored prompts

Text(n) == [tag |-> "text", size |-> n, name |-> ""]
Tag(t, n) == [tag |-> t, name |-> n, size |-> 0]
Part(id, as, n) == [tag |-> "partial", name |-> id, size |-> 0, ref |-> [id |-> id, as |-> as, name |-> n]]
Templates ==
    {<<Text(1)>>, <<Text(200), Part("p2", "latest", 0), Text(100)>>, <<Part("p1", "latest", 0)>>,
     <<Tag("open", "x"), Part("p2", "latest", 0), Tag("close", "x"), Tag("var", "y")>>,
     <<Tag("inverted", "x"), Tag("var", "y"), Tag("close", "x"), Part("p3", "version", 1)>>,
     <<Part("p2", "label", "prod"), Tag("var", "x"), Part("p3", "latest", 0)>>,
     <<Tag("open", "x"), Tag("close", "y")>>, <<Tag("var", "")>>} \cup
    {[i \in 1..n |-> Part("p2", "latest", 0)] : n \in {7, 64, 65}}
AVersion(t, n) == [version |-> n, size |-> 1, template |-> t, model |-> "m1", params |-> [user |-> "u"],
                   variables |-> <<[name |-> "y", required |-> FALSE]>>]
Lbl(n) == [name |-> n, wellformed |-> TRUE, numeric |-> FALSE]
Splits == {<<>>} \cup {<<[label |-> Lbl("a"), version |-> 1, weight |-> w, model |-> "none", params |-> <<>>],
                        [label |-> Lbl("b"), version |-> v, weight |-> 2 - w, model |-> "m2", params |-> [user |-> "v"]]>> :
                        w \in 0..2, v \in {2, 3}}
APrompt(id, ts, vs) == [tenant |-> "t1", id |-> id, experiments |-> FALSE, latest |-> 0, labels |-> [prod |-> 1],
                        versions |-> [i \in DOMAIN ts |-> AVersion(ts[i], i)], variants |-> vs]
Files == {<<APrompt("p1", <<a, <<Text(2)>>>>, vs), APrompt("p2", <<b>>, <<>>), APrompt("p3", <<c>>, <<>>)>> :
            a, b \in Templates, c \in {<<Text(3)>>, <<Part("p2", "latest", 0)>>, [i \in 1..8 |-> Part("p4", "latest", 0)]}, vs \in {<<>>}} \cup
         {<<APrompt("p1", <<<<Text(1)>>, <<Text(2)>>>>, vs)>> : vs \in Splits}
Bounds == [template |-> 64, variables |-> 128, labels |-> 32, prompts |-> 1000]
Cohorts == {R!NoCohort} \cup {[as |-> "key", bucket |-> b, buckets |-> 4] : b \in 0..3}
Renders == {[tenant |-> t, entitled |-> TRUE, ref |-> r, vars |-> v, missing |-> m, header |-> R!NoCohort, user |-> R!NoCohort,
             overrides |-> [messages |-> "mine"]] :
              t \in {"t1", "t2"}, r \in {[id |-> "p1", as |-> "latest", name |-> 0]}, m \in {"error", "empty"},
              v \in {<<>>, [x |-> [tag |-> "val", type |-> "string", size |-> 1, truth |-> FALSE]],
                          [x |-> [tag |-> "val", type |-> "number", size |-> 1, truth |-> FALSE]]}}

AskPrompt == q = NoQuestion /\ \E f \in Files, r \in Renders, c \in Cohorts :
    /\ c = R!NoCohort \/ Len(f) = 1
    /\ q' = [topic |-> "prompt", file |-> f, req |-> [r EXCEPT !.header = c]]

\* See PromptRegistry.PromptIsWhatItSays (prompts/src/lib.rs, prompts_api.rs).
StoredPrompts == q.topic = "prompt" => R!PromptIsWhatItSays(q.file, Bounds, q.req)

-----------------------------------------------------------------------------
\* Endpoints

Providers == {"openai", "cohere", "own"}
MCWorlds == {[registry |-> [openai |-> {"us"}, cohere |-> c], custom |-> {"own"}, available |-> Providers,
            keys |-> k, admits |-> a, deadline |-> d, outcome |-> o] :
             c \in {{"us"}, {"in", "us"}}, k \in {Providers, {"cohere", "own"}}, a \in BOOLEAN, d \in {1, 3},
             o \in [Providers -> {"ok", "unsupported", "Upstream5xx", "RateLimited"}]}
MCAsks == {[input |-> i, personal |-> p, region |-> r, chain |-> c, owner |-> "own", builtin_model |-> b, parts |-> <<>>] :
           i \in {"given", "too_many"}, p, b \in BOOLEAN, r \in {"any", "in"}, c \in {<<>>, <<"openai", "own", "cohere">>}}
Forms == {<<>>, <<[name |-> "file", blank |-> FALSE], [name |-> "model", blank |-> FALSE]>>,
          <<[name |-> "file", blank |-> FALSE], [name |-> "model", blank |-> FALSE], [name |-> "file", blank |-> TRUE]>>}
MCUploads == {[input |-> "given", personal |-> TRUE, region |-> r, chain |-> c, owner |-> "own", builtin_model |-> FALSE, parts |-> f] :
              r \in {"any", "in"}, c \in {<<>>, <<"openai", "own", "cohere">>}, f \in Forms}

Blocks == {<<>>} \cup {<<[type |-> t, usable |-> u, value |-> "a"], [type |-> "text", usable |-> TRUE, value |-> "b"]>> :
                          t \in {"text", "image", "tool_use"}, u \in BOOLEAN}
AskMessages == q = NoQuestion /\ \E s \in {"", "be brief"}, b \in Blocks, c \in {<<>>, <<"openai">>}, m, t, l, o \in BOOLEAN, f \in {"stop", "length", "other"} :
    q' = [topic |-> "messages", custom |-> IF o THEN {"own"} ELSE {}, finish |-> f,
           ask |-> [max_tokens |-> m, stream |-> t, system |-> s, chain |-> c, builtin_model |-> l, owner |-> "own",
                    messages |-> <<[role |-> "user", blocks |-> b]>>]]

\* See Endpoints.MessagesKeepTheText (messages_api.rs).
Messages ==
    q.topic = "messages" =>
        Side!MessagesKeepTheText([custom |-> q.custom], q.ask,
                                 [c \in {<<>>, <<"openai">>, <<"anthropic">>} |-> [ok |-> TRUE, readable |-> TRUE, finish |-> q.finish]])

\* See Endpoints.AudioHasHardFilter (audio_api.rs).
AudioStaysHome ==
    q.topic = "endpoint" => Side!AudioHasHardFilter(q.endpoint, q.world, q.ask, Side!Eligible(q.endpoint, q.world, q.ask))

-----------------------------------------------------------------------------
\* The catalogue

Named == {<<>>, <<"gpt", "-", "4">>, <<"mine">>}
AskModel == q = NoQuestion /\ \E a, s \in Named, c \in {<<>>, <<<<"mine">>, <<"fast">>>>}, o \in {<<>>, M!Owned("own", <<<<"mine">>, <<"gpt", "-", "4">>, <<"fast">>>>)},
               id \in {<<"gpt", "-", "4">>, <<"mine">>, <<"fast">>, <<"none">>} :
    q' = [topic |-> "model", env |-> [azure |-> a, self_hosted |-> s, combos |-> c, custom |-> o], id |-> id]

\* See ModelCatalogue.CatalogueAgrees (models_api.rs).
Catalogue == q.topic = "model" => M!CatalogueAgrees(q.env, q.id)

-----------------------------------------------------------------------------
\* Providers' answers

TextBlocks == {[kind |-> "text", pieces |-> <<>>], [kind |-> "text", pieces |-> <<"a", "b">>]}
ToolBlock(id) == [kind |-> "tool", id |-> id, name |-> "f", pieces |-> <<"x", "y">>]
BlockLists == {<<t>> : t \in TextBlocks} \cup {<<t, ToolBlock(7)>> : t \in TextBlocks} \cup
              {<<ToolBlock(7), t, ToolBlock(8)>> : t \in TextBlocks} \cup {<<ToolBlock(7), ToolBlock(8)>>}
Stops(dialect) == CASE dialect = "anthropic" -> {"end_turn", "max_tokens", "tool_use", "refusal"}
                    [] dialect = "gemini" -> {"STOP", "MAX_TOKENS", "SAFETY"}
                    [] dialect = "cohere" -> {"COMPLETE", "MAX_TOKENS", "TOOL_CALL", "ERROR"}
                    [] OTHER -> {"stop", "tool_calls"}
Counts == [input : {5}, output : {3}, read : {-1, 2}, created : {-1, 1}, thoughts : {-1, 4}]
AskAnswer == q = NoQuestion /\ \E dialect \in N!Dialects, blocks \in BlockLists, tokens \in Counts, cut \in {4 * k : k \in 0..18} :
    \E stop \in Stops(dialect) :
        LET answer == [blocks |-> blocks, stop |-> stop, tokens |-> tokens]
        IN  /\ cut <= Len(N!Bytes(N!events(dialect, answer)))
            /\ q' = [topic |-> "answer", dialect |-> dialect, answer |-> answer, cut |-> cut]

\* See ProviderAnswers.StreamIsTheAnswer (adapters/src/sse.rs, anthropic.rs, gemini.rs,
\* cohere.rs, openai.rs).
StreamedAnswers == q.topic = "answer" => N!StreamIsTheAnswer(q.dialect, q.answer, q.cut)
\* See ProviderAnswers.SameFinish (anthropic.rs:578); it does not hold.
FinishAgrees == q.topic = "answer" /\ q.dialect = "anthropic" => N!SameFinish(q.answer)

-----------------------------------------------------------------------------
\* Requests to providers

Said(role, parts) == [role |-> role, parts |-> parts, cached |-> FALSE, calls |-> Q!NoCalls, answers |-> 0]
Hint(m) == [m EXCEPT !.cached = TRUE]
Calling(parts, args) == [Said("assistant", parts) EXCEPT !.calls = <<[id |-> 7, name |-> "f", args |-> args],
                                                                    [id |-> 8, name |-> "g", args |-> "y"]>>]
Tell(role, words) == Said(role, <<Q!TextPart(words, FALSE)>>)
Talks == {<<Tell("system", <<"be">>), Tell("user", <<"hi">>), Hint(Tell("system", <<"brief">>))>>,
          <<Tell("user", <<"ask">>), Calling(<<Q!TextPart(<<"so">>, FALSE), Q!Image("png")>>, "x"),
            [Tell("tool", <<"r">>) EXCEPT !.answers = 8], [Tell("tool", <<"s">>) EXCEPT !.answers = 7]>>,
          <<Hint(Said("user", <<Q!TextPart(<<"see">>, TRUE), Q!Image("svg"), Q!TextPart(<<"this">>, FALSE), Q!Image("png")>>)),
            Calling(<<>>, "broken")>>,
          <<Hint(Said("user", <<Q!Image("odd")>>)), [Tell("assistant", <<"a">>) EXCEPT !.calls = <<>>]>>,
          <<Said("developer", <<Q!TextPart(<<"d">>, TRUE)>>), Said("user", <<Q!Image("http"), Q!TextPart(<<"a", "b">>, FALSE)>>)>>}
Plans == [max_completion : {-1, 9}, max_tokens : {-1, 4}, n : {1, 2}, tools : BOOLEAN,
          choice : {"absent", "required", "f"}, format : {"absent", "json_schema"}, model : {"chat", "reasoning"}]
Settings == [endpoint : BOOLEAN, deployments : {{}, {"chat"}}, include_usage : BOOLEAN]
AskRequest == q = NoQuestion /\ \E adapter \in Q!Adapters, talk \in Talks, shape \in Plans, stream \in BOOLEAN :
    \E e \in IF adapter \in {"azure_openai", "bedrock", "self_hosted"} THEN Settings
              ELSE {[endpoint |-> TRUE, deployments |-> {}, include_usage |-> TRUE]} :
        q' = [topic |-> "request", adapter |-> adapter, request |-> shape @@ [messages |-> talk], stream |-> stream, settings |-> e]

\* See ProviderRequests.RequestIsFaithful (adapters/src: anthropic.rs, gemini.rs, cohere.rs,
\* openai.rs and the adapters of its dialect).
ProviderBodies == q.topic = "request" => Q!RequestIsFaithful(q.adapter, q.request, q.stream, q.settings)

-----------------------------------------------------------------------------
Serving == [topic |-> "requests"]
GatewayInit ==
    /\ Init
    /\ \/ q = Serving /\ Together
       \/ q = NoQuestion /\ profile = [r \in Requests |-> Ordinary]
AskHere ==
    \/ AskReports \/ AskText \/ AskBody \/ AskLeak \/ AskSchema \/ AskOutput
    \/ AskPrompt \/ AskMessages \/ AskModel \/ AskAnswer \/ AskRequest
GatewayNext ==
    \/ q = Serving /\ Next /\ UNCHANGED q
    \/ (Asked \/ AskHere) /\ UNCHANGED vars
GatewaySpec == GatewayInit /\ [][GatewayNext]_<<vars, q>>

Swapped == Permutations(Requests)

-----------------------------------------------------------------------------
\* What is found in a text and what leaves the gateway of it, and what a stored prompt
\* becomes: see PersonalData (detect.rs, redact), OutputChecks (leak, schema),
\* TokenCompression (rtk) and PromptRegistry (prompts).
Content == Redaction /\ CheckDigits /\ Leak /\ Schema /\ Compression /\ StoredPrompts

\* What the gateway exchanges besides chat: with clients, Anthropic's messages and the
\* catalogue; with the console, the reports; with the providers, requests and answers: see
\* Endpoints (messages_api.rs), ModelCatalogue (models_api.rs), UsageReports (observability.rs), ProviderRequests and
\* ProviderAnswers (adapters/src).
Interfaces == Messages /\ Catalogue /\ Reports /\ ProviderBodies /\ StreamedAnswers
=============================================================================
