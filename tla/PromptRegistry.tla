--------------------------- MODULE PromptRegistry ---------------------------
(***************************************************************************)
(* Stored prompts: loading the registry, resolving a reference, the A/B     *)
(* variant of a cohort, rendering a template with its partials              *)
(* (crates/prompts/src/lib.rs), and the handlers (prompts_api.rs).          *)
(*                                                                          *)
(* Text is a sequence of pieces; the size of a piece is given in KiB.  A    *)
(* reference is an id with a selector: latest, a label or a version.        *)
(***************************************************************************)
EXTENDS Integers, Sequences, FiniteSets, SequencesExt

MAX_PARTIAL_DEPTH == 3
MAX_PARTIAL_EXPANSIONS == 64
MAX_RENDER_OUTPUT == 256      \* KiB
MAX_VARIANTS == 16
NoModel == "none"

-----------------------------------------------------------------------------
\* Templates

\* parse_nodes: the tokens from i on, up to the tag that closes the section, as a tree.
RECURSIVE parse_nodes(_, _, _, _)
parse_nodes(tokens, i, close, nodes) ==
    IF i > Len(tokens) THEN [ok |-> close = "", nodes |-> nodes, next |-> i]
    ELSE LET t == tokens[i]
         IN  CASE t.tag = "close" -> [ok |-> close = t.name, nodes |-> nodes, next |-> i + 1]
               [] t.tag \in {"open", "inverted"} ->
                    LET inner == parse_nodes(tokens, i + 1, t.name, <<>>)
                    IN  IF ~inner.ok THEN inner
                        ELSE parse_nodes(tokens, inner.next, close,
                                         Append(nodes, [tag |-> "section", name |-> t.name,
                                                        inverted |-> t.tag = "inverted", children |-> inner.nodes]))
               [] OTHER -> parse_nodes(tokens, i + 1, close, Append(nodes, t))
parse_template(tokens) ==
    IF \E i \in DOMAIN tokens : tokens[i].tag = "malformed" \/ (tokens[i].tag # "text" /\ tokens[i].name = "")
      THEN [ok |-> FALSE]                        \* tokenize, classify_tag, non_empty
      ELSE parse_nodes(tokens, 1, "", <<>>)

-----------------------------------------------------------------------------
\* Loading

BadVersion(v, bounds) ==
    v.version < 1 \/ v.size > bounds.template \/ Len(v.variables) > bounds.variables \/ ~parse_template(v.template).ok
\* A label like "v2" would read as a version.
variant_label_is_sane(label) == label.wellformed /\ ~label.numeric
Numbers(rec) == {rec.versions[i].version : i \in DOMAIN rec.versions}
Weight(rec) == FoldLeft(LAMBDA n, v : n + v.weight, 0, rec.variants)

\* Nobody checks that a variant's version exists.
VariantsOkMutant(rec) ==
    /\ Len(rec.variants) <= MAX_VARIANTS
    /\ \A i \in DOMAIN rec.variants :
        /\ variant_label_is_sane(rec.variants[i].label)
        /\ rec.variants[i].label.name \notin DOMAIN rec.labels \cup {rec.variants[j].label.name : j \in 1..(i - 1)}
    /\ rec.variants # <<>> => Weight(rec) > 0

VariantsOk(rec) ==
    /\ Len(rec.variants) <= MAX_VARIANTS
    /\ \A i \in DOMAIN rec.variants :
        /\ variant_label_is_sane(rec.variants[i].label)
        /\ rec.variants[i].label.name \notin DOMAIN rec.labels \cup {rec.variants[j].label.name : j \in 1..(i - 1)}
        /\ rec.variants[i].version \in Numbers(rec)
    /\ rec.variants # <<>> => Weight(rec) > 0

\* load_from_json: one bad record refuses the file.
RecordOk(rec, bounds) ==
    /\ ~rec.experiments /\ rec.versions # <<>> /\ Cardinality(DOMAIN rec.labels) <= bounds.labels
    /\ \A i \in DOMAIN rec.versions : ~BadVersion(rec.versions[i], bounds)
    /\ Cardinality(Numbers(rec)) = Len(rec.versions)
    /\ \A l \in DOMAIN rec.labels : rec.labels[l] \in Numbers(rec)
    /\ VariantsOk(rec)
    /\ rec.latest # 0 => rec.latest \in Numbers(rec)
Store(rec) ==
    [labels |-> rec.labels, variants |-> rec.variants,
     latest |-> IF rec.latest # 0 THEN rec.latest ELSE CHOOSE n \in Numbers(rec) : \A m \in Numbers(rec) : m <= n,
     versions |-> [n \in Numbers(rec) |->
        LET v == rec.versions[CHOOSE i \in DOMAIN rec.versions : rec.versions[i].version = n]
        IN  [nodes |-> parse_template(v.template).nodes, model |-> v.model, params |-> v.params,
             declared |-> [x \in {v.variables[i].name : i \in DOMAIN v.variables} |->
                             v.variables[SelectLastInSeq(v.variables, LAMBDA w : w.name = x)].required]]]]
load_from_json(file, bounds) ==
    LET mine(t) == {i \in DOMAIN file : file[i].tenant = t}
        tenants == {file[i].tenant : i \in DOMAIN file}
        at(t, id) == CHOOSE i \in mine(t) : file[i].id = id
    IN  IF /\ \A i \in DOMAIN file : RecordOk(file[i], bounds)
           /\ \A i, j \in DOMAIN file : i # j => <<file[i].tenant, file[i].id>> # <<file[j].tenant, file[j].id>>
           /\ \A t \in tenants : Cardinality(mine(t)) <= bounds.prompts
          THEN [ok |-> TRUE, tenants |-> [t \in tenants |->
                  [id \in {file[i].id : i \in mine(t)} |-> Store(file[at(t, id)])]]]
          ELSE [ok |-> FALSE]

-----------------------------------------------------------------------------
\* Resolving

Err(code) == [ok |-> FALSE, code |-> code]
NoVariant == [label |-> [name |-> "none"]]

\* assign_variant: without a cohort the first; else the one whose share of the weights
\* the cohort's bucket falls into (bucket of buckets is the cohort's hash).
assign_variant(variants, cohort) ==
    LET upto(i) == FoldLeft(LAMBDA n, v : n + v.weight, 0, SubSeq(variants, 1, i))
        total == upto(Len(variants))
        mine == {i \in DOMAIN variants : cohort.bucket * total < upto(i) * cohort.buckets}
    IN  IF cohort.as = "none" \/ total = 0 THEN variants[1]
        ELSE IF mine = {} THEN Last(variants)
        ELSE variants[CHOOSE i \in mine : \A j \in mine : i <= j]

\* resolve_with_cohort: the tenant's own prompts only.
resolve_with_cohort(reg, tenant, ref, cohort) ==
    IF tenant \notin DOMAIN reg.tenants \/ ref.id \notin DOMAIN reg.tenants[tenant] THEN Err("prompt_not_found")
    ELSE LET p == reg.tenants[tenant][ref.id]
             v == IF ref.as = "latest" /\ p.variants # <<>> THEN assign_variant(p.variants, cohort) ELSE NoVariant
             n == CASE ref.as = "latest" -> {IF p.variants # <<>> THEN v.version ELSE p.latest}
                    [] ref.as = "label" /\ ref.name \in DOMAIN p.labels -> {p.labels[ref.name]}
                    [] ref.as = "version" -> {ref.name}
                    [] OTHER -> {}
         IN  IF n \subseteq DOMAIN p.versions /\ n # {}
               THEN [ok |-> TRUE, id |-> ref.id, number |-> CHOOSE x \in n : TRUE, variant |-> v,
                     version |-> p.versions[CHOOSE x \in n : TRUE]]
               ELSE Err("prompt_version_not_found")
NoCohort == [as |-> "none", bucket |-> 0, buckets |-> 1]
resolve(reg, tenant, ref) == resolve_with_cohort(reg, tenant, ref, NoCohort)

-----------------------------------------------------------------------------
\* Rendering

is_truthy(v) == (v.type = "bool" /\ v.truth) \/ (v.type = "string" /\ v.size > 0)
SizeOf(out) == FoldLeft(LAMBDA n, x : n + x.size, 0, out)
Put(state, piece) ==
    LET out == Append(state.out, piece)
    IN  IF SizeOf(out) > MAX_RENDER_OUTPUT THEN [state EXCEPT !.error = "prompt_too_large"]
        ELSE [state EXCEPT !.out = out]
Fail(state, code) == [state EXCEPT !.error = code]

\* render_nodes: the state is what was put out, how many partials were included, and the
\* first error; stack is the chain of prompts being rendered.
RECURSIVE render_nodes(_, _, _, _, _)
render_nodes(ctx, nodes, declared, stack, state) ==
    LET Node(s, n) ==
          CASE s.error # "" -> s
            [] s.error = "" /\ n.tag = "text" -> Put(s, n)
            [] s.error = "" /\ n.tag = "var" ->
                 CASE n.name \in DOMAIN ctx.vars -> Put(s, ctx.vars[n.name])
                   [] n.name \notin DOMAIN ctx.vars /\ ctx.missing = "error" ->
                        IF n.name \in DOMAIN declared /\ ~declared[n.name] THEN s ELSE Fail(s, "prompt_render_failed")
                   [] OTHER -> s
            [] s.error = "" /\ n.tag = "section" ->
                 IF (n.name \in DOMAIN ctx.vars /\ is_truthy(ctx.vars[n.name])) # n.inverted
                   THEN render_nodes(ctx, n.children, declared, stack, s) ELSE s
            [] s.error = "" /\ n.tag = "partial" ->
                 LET found == resolve(ctx.reg, ctx.tenant, n.ref)
                 IN  CASE Len(stack) > MAX_PARTIAL_DEPTH -> Fail(s, "prompt_partial_cycle")
                       [] Len(stack) <= MAX_PARTIAL_DEPTH /\ ~found.ok -> Fail(s, "prompt_render_failed")
                       [] OTHER ->
                            IF found.id \in ToSet(stack) THEN Fail(s, "prompt_partial_cycle")
                            ELSE IF s.includes = MAX_PARTIAL_EXPANSIONS THEN Fail(s, "prompt_too_large")
                            ELSE render_nodes(ctx, found.version.nodes, found.version.declared,
                                              Append(stack, found.id), [s EXCEPT !.includes = @ + 1])
    IN  FoldLeft(Node, state, nodes)

\* merge_params: a variant's parameters go over the version's.
merge_params(version, variant) ==
    [k \in DOMAIN version \cup DOMAIN variant |-> IF k \in DOMAIN variant THEN variant[k] ELSE version[k]]

Rendered(found, state) ==
    LET served == found.variant # NoVariant
    IN  IF state.error # "" THEN Err(state.error)
        ELSE [ok |-> TRUE, text |-> state.out, number |-> found.number, variant |-> found.variant,
              model |-> IF served /\ found.variant.model # NoModel THEN found.variant.model ELSE found.version.model,
              params |-> merge_params(found.version.params, IF served THEN found.variant.params ELSE <<>>)]
RenderFound(ctx, found) ==
    IF ~found.ok THEN found
    ELSE Rendered(found, render_nodes(ctx, found.version.nodes, found.version.declared, <<found.id>>,
                                      [out |-> <<>>, includes |-> 0, error |-> ""]))
render_with_cohort(reg, tenant, ref, vars, missing, cohort) ==
    RenderFound([reg |-> reg, tenant |-> tenant, vars |-> vars, missing |-> missing],
                resolve_with_cohort(reg, tenant, ref, cohort))

\* prompt_completions: parameters, then the model, then the body; the messages last.
Completion(r, bound) ==
    IF "model" \notin DOMAIN bound THEN Err("prompt_render_failed")
    ELSE [ok |-> TRUE, chat |-> merge_params(bound, [messages |-> r.text]), rendered |-> r]
Bound(r, overrides) ==
    merge_params(merge_params(r.params, IF r.model # NoModel THEN [model |-> r.model] ELSE <<>>), overrides)
Completed(req, r) == IF ~r.ok THEN r ELSE Completion(r, Bound(r, req.overrides))
prompt_completions(reg, req) ==
    IF ~req.entitled THEN Err("feature_not_entitled")              \* entitlement_gate
    ELSE Completed(req, render_with_cohort(reg, req.tenant, req.ref, req.vars, req.missing,
                                           IF req.header.as # "none" THEN req.header ELSE req.user))

-----------------------------------------------------------------------------
\* The reference: what the template says, partials written out, without any cap; a
\* partial below the third level is "deep", whatever it is.
RECURSIVE Written(_, _, _, _)
Written(ctx, nodes, declared, depth) ==
    LET One(n) ==
          CASE n.tag = "text" -> <<n>>
            [] n.tag = "var" -> IF n.name \in DOMAIN ctx.vars THEN <<ctx.vars[n.name]>>
                                ELSE IF ctx.missing = "empty" \/ (n.name \in DOMAIN declared /\ ~declared[n.name]) THEN <<>>
                                ELSE <<[tag |-> "bad", size |-> 0]>>
            [] n.tag = "section" -> IF (n.name \in DOMAIN ctx.vars /\ is_truthy(ctx.vars[n.name])) # n.inverted
                                      THEN Written(ctx, n.children, declared, depth) ELSE <<>>
            [] n.tag = "partial" ->
                 LET p == resolve(ctx.reg, ctx.tenant, n.ref)
                 IN  IF depth = MAX_PARTIAL_DEPTH \/ ~p.ok THEN <<[tag |-> "bad", size |-> 0]>>
                     ELSE <<[tag |-> "include", size |-> 0]>> \o Written(ctx, p.version.nodes, p.version.declared, depth + 1)
    IN  FoldLeft(LAMBDA out, n : out \o One(n), <<>>, nodes)

\* Of a registry that loads, every prompt has a version to serve, a cohort is never given
\* a variant without weight, and rendering -- cyclic partials included -- puts out exactly
\* what the templates of the tenant say or fails, and fails only for a missing value, a
\* partial that cannot be included, or a cap; what is sent on has the rendered text as
\* its messages whatever the request's own body says (prompts/src/lib.rs, prompts_api.rs).
PromptIsWhatItSays(file, bounds, req) ==
    \A reg \in {load_from_json(file, bounds)} : reg.ok =>
        \A found \in {resolve_with_cohort(reg, req.tenant, req.ref, req.header)}, sent \in {prompt_completions(reg, req)} :
            /\ ~found.ok => found.code = "prompt_not_found" \/ req.ref.as # "latest"
            /\ sent.ok => sent.chat.messages = sent.rendered.text
            /\ found.ok /\ found.variant # NoVariant /\ req.header.as # "none" => found.variant.weight > 0
            /\ found.ok =>
                LET ctx == [reg |-> reg, tenant |-> req.tenant, vars |-> req.vars, missing |-> req.missing]
                IN  \A r \in {render_with_cohort(reg, req.tenant, req.ref, req.vars, req.missing, req.header)},
                       said \in {Written(ctx, found.version.nodes, found.version.declared, 0)} :
                    LET pieces == SelectSeq(said, LAMBDA x : x.tag # "include")
                    IN  /\ r.ok <=> /\ \A i \in DOMAIN said : said[i].tag # "bad"
                                    /\ Len(said) - Len(pieces) <= MAX_PARTIAL_EXPANSIONS
                                    /\ SizeOf(pieces) <= MAX_RENDER_OUTPUT
                        /\ r.ok => r.text = pieces
=============================================================================
