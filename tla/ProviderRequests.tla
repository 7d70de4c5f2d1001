-------------------------- MODULE ProviderRequests --------------------------
(***************************************************************************)
(* How the adapters (crates/adapters/src) put a chat request in the words   *)
(* of a provider.  The OpenAI dialect is the gateway's own, with fields     *)
(* taken out or renamed; Anthropic, Gemini and Cohere have shapes of their  *)
(* own for the system prompt, tool calls and their results, and images.     *)
(*                                                                          *)
(* A text is a sequence of words; an image is told by how its URL is given; *)
(* arguments that are not JSON are "broken".                                *)
(***************************************************************************)
EXTENDS Integers, Sequences, FiniteSets, SequencesExt

Absent == "absent"
NoCap == -1
Either(a, b) == IF a = NoCap THEN b ELSE a

Rejected(why) == [sent |-> FALSE, why |-> why]

-----------------------------------------------------------------------------
\* Messages: a role, parts, tool calls (NoCalls when the field is absent), the call answered

NoCalls == Absent
TextPart(words, cached) == [kind |-> "text", words |-> words, cached |-> cached]
Image(url) == [kind |-> "image", url |-> url]
DataUrl == {"png", "svg"}                          \* parse_data_url succeeds
Supported == {"png"}                               \* is_anthropic_supported_media_type
Remote == {"http"}

IsText(p) == p.kind = "text"
as_text(m) == FlattenSeq([i \in 1..Len(SelectSeq(m.parts, IsText)) |-> SelectSeq(m.parts, IsText)[i].words])
has_images(m) == \E i \in 1..Len(m.parts) : m.parts[i].kind = "image"
Calls(m) == m.role = "assistant" /\ m.calls # NoCalls
\* Arguments are parsed again; what does not parse becomes an empty object.
input(args) == IF args = "broken" THEN "{}" ELSE args

unhinted(parts) == [i \in 1..Len(parts) |-> IF IsText(parts[i]) THEN [parts[i] EXCEPT !.cached = FALSE] ELSE parts[i]]
Word(w) == [kind |-> "text", words |-> w, cached |-> FALSE]
NonEmpty(words) == IF words = <<>> THEN <<>> ELSE <<Word(words)>>

-----------------------------------------------------------------------------
\* Anthropic

\* anthropic_image_block: inline in a type it knows, or by an address; anything else is left out.
anthropic_image_block(p) == IF p.url \in Supported \cup Remote THEN <<p>> ELSE <<>>
\* anthropic_content: a plain text unless there are images or cache hints; the message's
\* own hint goes to its last block.
anthropic_content(m) ==
    LET hinted == m.cached \/ \E i \in 1..Len(m.parts) : IsText(m.parts[i]) /\ m.parts[i].cached
        block(p) == IF IsText(p) THEN <<p>> ELSE anthropic_image_block(p)
        blocks == FlattenSeq([i \in 1..Len(m.parts) |-> block(m.parts[i])])
    IN  IF ~(has_images(m) \/ hinted) THEN <<Word(as_text(m))>>
        ELSE IF m.cached /\ blocks # <<>> THEN [blocks EXCEPT ![Len(blocks)] = [cached |-> TRUE] @@ @]
        ELSE blocks

\* A tool's answer goes without the call it answers.
anthropic_messageMutant(m) ==
    CASE m.role = "tool" -> [role |-> "user", blocks |-> <<[kind |-> "result", id |-> 0, words |-> as_text(m)]>>]
      [] OTHER -> [role |-> m.role, blocks |-> anthropic_content(m)]

\* build_anthropic_request, one message that is not the system's.
anthropic_message(m) ==
    CASE m.role = "tool" -> [role |-> "user", blocks |-> <<[kind |-> "result", id |-> m.answers, words |-> as_text(m)]>>]
      [] Calls(m) -> [role |-> "assistant",
                      blocks |-> NonEmpty(as_text(m)) \o
                                 [i \in 1..Len(m.calls) |-> [kind |-> "call", id |-> m.calls[i].id,
                                                             name |-> m.calls[i].name, args |-> input(m.calls[i].args)]]]
      [] OTHER -> [role |-> m.role, blocks |-> anthropic_content(m)]
\* build_anthropic_system: one text, or a block each when one of them has a cache hint.
build_anthropic_system(messages) ==
    LET parts == SelectSeq(messages, LAMBDA m : m.role = "system")
        words == [i \in 1..Len(parts) |-> as_text(parts[i])]
    IN  IF \E i \in 1..Len(parts) : parts[i].cached
          THEN [i \in 1..Len(parts) |-> TextPart(words[i], parts[i].cached)]
          ELSE NonEmpty(FlattenSeq(words))
map_anthropic_tool_choice(choice) == IF choice = "required" THEN "any" ELSE choice
ANTHROPIC_DEFAULT_MAX_TOKENS == 1024
Turns(messages) == SelectSeq(messages, LAMBDA m : m.role # "system")
reject_multi_completion(r) == r.n > 1
build_anthropic_request(r) ==
    IF reject_multi_completion(r) THEN Rejected("n_not_supported")
    ELSE LET turns == Turns(r.messages)
         IN  [sent |-> TRUE, system |-> build_anthropic_system(r.messages),
              turns |-> [i \in 1..Len(turns) |-> anthropic_message(turns[i])],
              cap |-> Either(Either(r.max_completion, r.max_tokens), ANTHROPIC_DEFAULT_MAX_TOKENS), old_cap |-> NoCap,
              tools |-> r.tools, choice |-> map_anthropic_tool_choice(r.choice), format |-> Absent, n |-> 1,
              counted |-> TRUE]

-----------------------------------------------------------------------------
\* Gemini

\* gemini_content_parts refuses an image it would have to fetch.
gemini_refuses(m) == \E i \in 1..Len(m.parts) : m.parts[i].kind = "image" /\ m.parts[i].url \notin DataUrl
gemini_role(m) == IF m.role = "user" THEN "user" ELSE "model"
\* A result is keyed by the function's name at Gemini; the call's id stands in for it.
gemini_content(m) ==
    CASE m.role = "tool" -> [role |-> "user", blocks |-> <<[kind |-> "result", id |-> m.answers, words |-> as_text(m)]>>]
      [] Calls(m) -> [role |-> "model",
                      blocks |-> NonEmpty(as_text(m)) \o
                                 [i \in 1..Len(m.calls) |-> [kind |-> "call", id |-> 0, name |-> m.calls[i].name,
                                                             args |-> input(m.calls[i].args)]]]
      [] OTHER -> [role |-> gemini_role(m), blocks |-> unhinted(m.parts)]
\* map_response_format and GeminiGenerationConfig::from_request; a stream has one candidate.
map_response_format(format) == IF format \in {"json_object", "json_schema"} THEN format ELSE Absent
generation_config(r, stream) ==
    [cap |-> Either(r.max_completion, r.max_tokens), format |-> map_response_format(r.format),
     n |-> IF stream THEN 1 ELSE r.n]
build_gemini_request(r, stream) ==
    LET turns == Turns(r.messages)
        system == SelectSeq(r.messages, LAMBDA m : m.role = "system")
    IN  IF \E i \in 1..Len(turns) : turns[i].role # "tool" /\ ~Calls(turns[i]) /\ gemini_refuses(turns[i])
          THEN Rejected("inline images only")
          ELSE [sent |-> TRUE, system |-> NonEmpty(FlattenSeq([i \in 1..Len(system) |-> as_text(system[i])])),
                turns |-> [i \in 1..Len(turns) |-> gemini_content(turns[i])],
                old_cap |-> NoCap, tools |-> r.tools, choice |-> Absent, counted |-> TRUE]
               @@ generation_config(r, stream)

-----------------------------------------------------------------------------
\* Cohere

\* build_cohere_message, cohere_content: the parts go as they are when there are images.
build_cohere_message(m) ==
    CASE m.role = "tool" -> [role |-> "tool", blocks |-> <<[kind |-> "result", id |-> m.answers, words |-> as_text(m)]>>]
      [] Calls(m) -> [role |-> "assistant",
                      blocks |-> NonEmpty(as_text(m)) \o
                                 [i \in 1..Len(m.calls) |-> [kind |-> "call", id |-> m.calls[i].id,
                                                             name |-> m.calls[i].name, args |-> m.calls[i].args]]]
      [] OTHER -> [role |-> IF m.role \in {"assistant", "system"} THEN m.role ELSE "user",
                   blocks |-> IF has_images(m) THEN m.parts ELSE <<Word(as_text(m))>>]
map_cohere_tool_choice(choice) == IF choice \in {"required", "none"} THEN choice ELSE Absent
map_cohere_response_format(format) == IF format \in {"json_object", "json_schema"} THEN "json_object" ELSE Absent
build_cohere_request(r) ==
    [sent |-> TRUE, system |-> <<>>, turns |-> [i \in 1..Len(r.messages) |-> build_cohere_message(r.messages[i])],
     cap |-> Either(r.max_completion, r.max_tokens), old_cap |-> NoCap, tools |-> r.tools,
     choice |-> map_cohere_tool_choice(r.choice), format |-> map_cohere_response_format(r.format), n |-> 1,
     counted |-> TRUE]

-----------------------------------------------------------------------------
\* The OpenAI dialect

\* strip_cache_control_for_openai, on the message and on its parts.
stripped(m) == [m EXCEPT !.cached = FALSE, !.parts = unhinted(m.parts)]
openai_message(m) ==
    [role |-> m.role,
     blocks |-> (IF m.role = "tool" THEN <<[kind |-> "result", id |-> m.answers, words |-> as_text(m)]>> ELSE m.parts)
                \o (IF m.calls = NoCalls THEN <<>>
                    ELSE [i \in 1..Len(m.calls) |-> [kind |-> "call", id |-> m.calls[i].id,
                                                     name |-> m.calls[i].name, args |-> m.calls[i].args]])]
rejects_max_tokens(model) == model = "reasoning"
\* remap_max_tokens_for_reasoning_models: the newer field wins where both are set.
remap_max_tokens_for_reasoning_models(body, model) ==
    IF rejects_max_tokens(model) THEN [body EXCEPT !.cap = Either(body.cap, body.old_cap), !.old_cap = NoCap] ELSE body
\* The body is the request; a stream asks for the counts unless it was told not to.
openai_body(r, stream, include_usage) ==
    [sent |-> TRUE, system |-> <<>>, turns |-> [i \in 1..Len(r.messages) |-> openai_message(stripped(r.messages[i]))],
     cap |-> r.max_completion, old_cap |-> r.max_tokens, tools |-> r.tools, choice |-> r.choice, format |-> r.format,
     n |-> r.n, counted |-> ~stream \/ include_usage]

openai_request(r, stream) == remap_max_tokens_for_reasoning_models(openai_body(r, stream, TRUE), r.model)
\* resolve_deployment: with a table a model that is not in it has no deployment.
resolve_deployment(e, model) == e.deployments = {} \/ model \in e.deployments
azure_request(r, stream, e) ==
    IF ~e.endpoint THEN Rejected("not configured")
    ELSE IF ~resolve_deployment(e, r.model) THEN Rejected("deployment_unmapped")
    ELSE openai_request(r, stream)
bedrock_request(r, stream, e) == IF ~e.endpoint THEN Rejected("not configured") ELSE openai_body(r, stream, TRUE)
self_hosted_request(r, stream, e) ==
    IF ~e.endpoint THEN Rejected("not configured") ELSE openai_body(r, stream, e.include_usage)
groq_request(r, stream) == openai_body(r, stream, TRUE)
mistral_request(r, stream) == openai_body(r, stream, TRUE)
deepseek_request(r, stream) == openai_body(r, stream, TRUE)
together_request(r, stream) == openai_body(r, stream, TRUE)
fireworks_request(r, stream) == openai_body(r, stream, TRUE)
openrouter_request(r, stream) == openai_body(r, stream, TRUE)
xai_request(r, stream) == openai_body(r, stream, TRUE)

Adapters == {"anthropic", "gemini", "cohere", "openai", "azure_openai", "bedrock", "self_hosted", "groq", "mistral",
             "deepseek", "together", "fireworks", "openrouter", "xai"}
request(adapter, r, stream, e) ==
    CASE adapter = "anthropic" -> build_anthropic_request(r)
      [] adapter = "gemini" -> build_gemini_request(r, stream)
      [] adapter = "cohere" -> build_cohere_request(r)
      [] adapter = "openai" -> openai_request(r, stream)
      [] adapter = "azure_openai" -> azure_request(r, stream, e)
      [] adapter = "bedrock" -> bedrock_request(r, stream, e)
      [] adapter = "self_hosted" -> self_hosted_request(r, stream, e)
      [] adapter = "groq" -> groq_request(r, stream)
      [] adapter = "mistral" -> mistral_request(r, stream)
      [] adapter = "deepseek" -> deepseek_request(r, stream)
      [] adapter = "together" -> together_request(r, stream)
      [] adapter = "fireworks" -> fireworks_request(r, stream)
      [] adapter = "openrouter" -> openrouter_request(r, stream)
      [] OTHER -> xai_request(r, stream)

-----------------------------------------------------------------------------
\* Embeddings, reranking and speech: what the adapters answer without asking

Embeds == {"openai", "azure_openai", "mistral", "together", "fireworks", "self_hosted", "gemini", "cohere"}
embeddings(adapter, inputs, e) ==
    CASE adapter \notin Embeds -> Rejected("embeddings_not_supported")
      [] adapter \in {"azure_openai", "self_hosted"} /\ ~e.endpoint -> Rejected("not configured")
      [] adapter = "cohere" /\ inputs = <<>> -> Rejected("invalid_request")
      [] OTHER -> [sent |-> TRUE, inputs |-> inputs]
\* What comes back is numbered in the order it comes in.
embedded(vectors) == [i \in 1..Len(vectors) |-> [index |-> i - 1, vector |-> vectors[i]]]

\* CohereProvider::rerank puts the documents the client sent beside the scores: the
\* provider tells an index (zero if it does not).
rerank(documents, results, return_documents) ==
    IF documents = <<>> THEN Rejected("invalid_request")
    ELSE [sent |-> TRUE,
          results |-> [i \in 1..Len(results) |->
                         [index |-> results[i].index, score |-> results[i].score,
                          document |-> IF return_documents /\ results[i].index < Len(documents)
                                         THEN documents[results[i].index + 1] ELSE Absent]]]
\* audio_multipart: the language only when transcribing; other formats than the two of JSON
\* are taken as text.
audio_multipart(params, include_language) ==
    [language |-> IF include_language THEN params.language ELSE Absent, prompt |-> params.prompt, format |-> params.format,
     parsed |-> params.format \in {Absent, "json", "verbose_json"}]

-----------------------------------------------------------------------------
\* What was said, one item after the other, however it is cut into parts and blocks.
Items(block) ==
    CASE block.kind = "text" -> [i \in 1..Len(block.words) |-> <<"word", block.words[i]>>]
      [] block.kind = "image" -> <<<<"image", block.url>>>>
      [] block.kind = "call" -> <<<<"call", block.id, block.name, block.args>>>>
      [] OTHER -> <<<<"result", block.id, block.words>>>>
Said(blocks) == FlattenSeq([i \in 1..Len(blocks) |-> Items(blocks[i])])
Heard(wire) == FlattenSeq([i \in 1..Len(wire.turns) |-> Said(wire.turns[i].blocks)])

\* What the adapter can say: images beside calls or in a tool's answer have no place, and
\* Anthropic takes some kinds only; arguments must parse for Anthropic and Gemini, which has
\* no ids for calls; only two of them keep the system prompt apart.
Sayable(adapter, m) ==
    LET own == adapter \in {"anthropic", "gemini", "cohere"}
        takes(p) == \/ IsText(p)
                    \/ ~(own /\ Calls(m)) /\ (adapter # "anthropic" \/ p.url \in Supported \cup Remote)
        call(c) == <<"call", IF adapter = "gemini" THEN 0 ELSE c.id, c.name,
                     IF adapter \in {"anthropic", "gemini"} THEN input(c.args) ELSE c.args>>
    IN  IF m.role = "tool" THEN <<<<"result", m.answers, as_text(m)>>>>
        ELSE Said(SelectSeq(m.parts, takes)) \o
             (IF m.calls = NoCalls \/ (own /\ ~Calls(m)) THEN <<>> ELSE [i \in 1..Len(m.calls) |-> call(m.calls[i])])
ShowsImage(blocks) == \E i \in 1..Len(blocks) : blocks[i].kind = "image"
Apart(adapter) == adapter \in {"anthropic", "gemini"}

\* A request is refused without being sent, or the provider hears the conversation: every
\* word, image, call and result it can take in its order, the words of all system messages
\* apart or in their places, a result under the id of its call; the cap on the answer is
\* the client's, in the field the model accepts; cache hints reach Anthropic alone (and Cohere,
\* beside an image); as many answers are asked for as the client wants, or one where the stream or the API has one
\* (adapters/src: build_anthropic_request, build_gemini_request, build_cohere_request,
\* strip_cache_control_for_openai, remap_max_tokens_for_reasoning_models).
RequestIsFaithful(adapter, r, stream, e) ==
    LET wire == request(adapter, r, stream, e)
        mine == IF Apart(adapter) THEN Turns(r.messages) ELSE r.messages
        system == SelectSeq(r.messages, LAMBDA m : m.role = "system")
        blocks == FlattenSeq([i \in 1..Len(wire.turns) |-> wire.turns[i].blocks])
        cap == Either(r.max_completion, r.max_tokens)
    IN  wire.sent =>
        /\ Heard(wire) = FlattenSeq([i \in 1..Len(mine) |-> Sayable(adapter, mine[i])])
        /\ Apart(adapter) =>
             Said(wire.system) = Said([i \in 1..Len(system) |-> Word(as_text(system[i]))])
        /\ IF wire.cap # NoCap THEN wire.cap = cap \/ (cap = NoCap /\ adapter = "anthropic") ELSE wire.old_cap = cap
        /\ adapter \in {"openai", "azure_openai"} /\ r.model = "reasoning" => wire.old_cap = NoCap
        /\ \A i \in 1..Len(blocks) :
             blocks[i].kind = "text" /\ blocks[i].cached => adapter = "anthropic" \/ (adapter = "cohere" /\ ShowsImage(blocks))
        /\ \/ wire.n = r.n
           \/ wire.n = 1 /\ (adapter = "cohere" \/ (stream /\ adapter = "gemini"))
=============================================================================
