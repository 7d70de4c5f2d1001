--------------------------- MODULE ModelCatalogue ---------------------------
(***************************************************************************)
(* The models the gateway knows (crates/routeplane/src/models_api.rs): the  *)
(* table of what is known of a model by a part of its name, the catalogue,  *)
(* what a tenant sees of it, and the frameworks that exclude a model.       *)
(*                                                                          *)
(* A name is a sequence of pieces, as in Pricing.  Of a row only the        *)
(* frameworks that exclude the model are kept; modalities, capabilities and *)
(* the context window are shown and never decided on.                       *)
(***************************************************************************)
EXTENDS Integers, Sequences, FiniteSets, SequencesExt

\* The rows without restrictions, in the order of META_TABLE.
OpenAiRows ==
    <<<<"gpt", "-", "4", "o", "-", "mini", "-", "tts">>, <<"gpt", "-", "4", "o", "-", "transcribe">>,
      <<"gpt", "-", "4", "o", "-", "mini">>, <<"gpt", "-", "4", "o">>, <<"gpt", "-", "4", "-", "turbo">>,
      <<"gpt", "-", "4">>, <<"gpt", "-", "3", ".", "5", "-", "turbo">>, <<"o1", "-", "mini">>, <<"o1">>,
      <<"text", "-", "embed", "ding">>, <<"moderation">>, <<"gpt", "-", "image", "-", "1">>, <<"dall", "-", "e">>,
      <<"whisper">>, <<"tts">>>>
AnthropicToBedrockRows ==
    <<<<"claude", "-", "3", "-", "5", "-", "sonnet">>, <<"claude", "-", "3", "-", "5", "-", "haiku">>,
      <<"claude", "-", "3", "-", "opus">>, <<"claude", "-", "3", "-", "haiku">>, <<"claude">>,
      <<"gemini", "-", "2", ".", "0", "-", "flash">>, <<"gemini", "-", "1", ".", "5", "-", "pro">>,
      <<"gemini", "-", "1", ".", "5", "-", "flash">>, <<"gemini">>, <<"mistral", "-", "embed">>,
      <<"mistral", "-", "large">>, <<"mistral", "-", "small">>, <<"open", "-", "mistral", "-", "nemo">>,
      <<"rerank">>, <<"embed">>, <<"command", "-", "r", "-", "plus">>, <<"command", "-", "r">>,
      <<"amazon", ".", "titan", "-", "text">>, <<"meta", ".", "llama3">>, <<"anthropic", ".", "claude">>>>
GroqRows ==
    <<<<"whisper", "-", "large">>, <<"llama", "-", "3", ".", "3", "-", "70b", "-", "versatile">>,
      <<"llama", "-", "3", ".", "1", "-", "8b", "-", "instant">>, <<"gemma2", "-", "9b", "-", "it">>, <<"qwen">>,
      <<"deepseek", "-", "r1", "-", "distill">>, <<"moonshotai", "/", "kimi", "-", "k2">>>>

\* ... and the rows from there on: DeepSeek, Together and xAI.
Sovereign == {"DPDP", "RBI", "HIPAA"}
Row(pat, excluded) == [pat |-> pat, excluded |-> excluded]
Free(pats) == [i \in DOMAIN pats |-> Row(pats[i], {})]
RestrictedRows ==
    <<Row(<<"deepseek", "-", "reasoner">>, Sovereign), Row(<<"deepseek", "-", "v4">>, Sovereign),
      Row(<<"deepseek", "-", "chat">>, Sovereign)>> \o
    Free(<<<<"bge", "-", "large">>, <<"Llama", "-", "3", ".", "3", "-", "70B">>, <<"Qwen2", ".", "5", "-", "72B">>,
           <<"DeepSeek", "-", "V3">>, <<"Mixtral", "-", "8x7B">>>>) \o
    <<Row(<<"grok", "-", "4">>, {"HIPAA"}), Row(<<"grok", "-", "3">>, {"HIPAA"})>>
META_TABLE == Free(OpenAiRows) \o Free(AnthropicToBedrockRows) \o Free(GroqRows) \o RestrictedRows

PartOf(id, pat) == \E i \in 1..(Len(id) + 1 - Len(pat)) : SubSeq(id, i, i + Len(pat) - 1) = pat
\* compliance_restrictions_for: the first row whose pattern the name contains.
Rows(id) == {k \in DOMAIN META_TABLE : PartOf(id, META_TABLE[k].pat)}
compliance_restrictions_for(id) ==
    IF Rows(id) = {} THEN {} ELSE META_TABLE[CHOOSE k \in Rows(id) : \A l \in Rows(id) : k <= l].excluded

-----------------------------------------------------------------------------
\* The catalogue

Owned(owner, ids) == [i \in DOMAIN ids |-> [id |-> ids[i], owner |-> owner]]
CATALOG ==
    Owned("openai",
          <<<<"gpt", "-", "4", "o">>, <<"gpt", "-", "4", "o", "-", "mini">>, <<"gpt", "-", "4", "-", "turbo">>,
            <<"gpt", "-", "4">>, <<"gpt", "-", "3", ".", "5", "-", "turbo">>, <<"o1">>, <<"o1", "-", "mini">>,
            <<"text", "-", "embed", "ding", "-", "3", "-", "small">>,
            <<"text", "-", "embed", "ding", "-", "3", "-", "large">>,
            <<"text", "-", "embed", "ding", "-", "ada", "-", "002">>, <<"omni", "-", "moderation", "-", "latest">>,
            <<"text", "-", "moderation", "-", "latest">>, <<"gpt", "-", "image", "-", "1">>,
            <<"dall", "-", "e", "-", "3">>, <<"whisper", "-", "1">>, <<"gpt", "-", "4", "o", "-", "transcribe">>,
            <<"tts", "-", "1">>, <<"tts", "-", "1", "-", "hd">>, <<"gpt", "-", "4", "o", "-", "mini", "-", "tts">>>>) \o
    Owned("anthropic",
          <<<<"claude", "-", "3", "-", "5", "-", "sonnet", "-", "latest">>,
            <<"claude", "-", "3", "-", "5", "-", "haiku", "-", "latest">>,
            <<"claude", "-", "3", "-", "opus", "-", "latest">>, <<"claude", "-", "3", "-", "haiku", "-", "20240307">>>>) \o
    Owned("gemini",
          <<<<"gemini", "-", "2", ".", "0", "-", "flash">>, <<"gemini", "-", "1", ".", "5", "-", "pro">>,
            <<"gemini", "-", "1", ".", "5", "-", "flash">>>>) \o
    Owned("mistral",
          <<<<"mistral", "-", "large", "-", "latest">>, <<"mistral", "-", "small", "-", "latest">>,
            <<"open", "-", "mistral", "-", "nemo">>, <<"mistral", "-", "embed">>>>) \o
    Owned("cohere",
          <<<<"command", "-", "r", "-", "plus">>, <<"command", "-", "r">>, <<"embed", "-", "v4", ".", "0">>,
            <<"embed", "-", "english", "-", "v3", ".", "0">>, <<"embed", "-", "multilingual", "-", "v3", ".", "0">>,
            <<"rerank", "-", "v3", ".", "5">>, <<"rerank", "-", "v4", ".", "0", "-", "pro">>>>) \o
    Owned("bedrock",
          <<<<"anthropic", ".", "claude", "-", "3", "-", "5", "-", "sonnet", "-", "20240620", "-", "v1", ":", "0">>,
            <<"anthropic", ".", "claude", "-", "3", "-", "haiku", "-", "20240307", "-", "v1", ":", "0">>,
            <<"amazon", ".", "titan", "-", "text", "-", "express", "-", "v1">>,
            <<"meta", ".", "llama3", "-", "70b", "-", "instruct", "-", "v1", ":", "0">>>>) \o
    Owned("groq",
          <<<<"llama", "-", "3", ".", "3", "-", "70b", "-", "versatile">>,
            <<"llama", "-", "3", ".", "1", "-", "8b", "-", "instant">>, <<"gemma2", "-", "9b", "-", "it">>,
            <<"qwen", "/", "qwen", "3", "-", "32b">>,
            <<"deepseek", "-", "r1", "-", "distill", "-", "llama", "-", "70b">>,
            <<"moonshotai", "/", "kimi", "-", "k2", "-", "instruct">>, <<"whisper", "-", "large", "-", "v3">>,
            <<"whisper", "-", "large", "-", "v3", "-", "turbo">>>>) \o
    Owned("deepseek",
          <<<<"deepseek", "-", "v4", "-", "flash">>, <<"deepseek", "-", "v4", "-", "pro">>,
            <<"deepseek", "-", "chat">>, <<"deepseek", "-", "reasoner">>>>) \o
    Owned("together",
          <<<<"meta", "-", "llama", "/", "Llama", "-", "3", ".", "3", "-", "70B", "-", "Instruct", "-", "Turbo">>,
            <<"Qwen", "/", "Qwen2", ".", "5", "-", "72B", "-", "Instruct", "-", "Turbo">>,
            <<"deepseek", "-", "ai", "/", "DeepSeek", "-", "V3">>,
            <<"mistralai", "/", "Mixtral", "-", "8x7B", "-", "Instruct", "-", "v0", ".", "1">>,
            <<"BAAI", "/", "bge", "-", "large", "-", "en", "-", "v1", ".", "5">>>>) \o
    Owned("fireworks",
          <<<<"accounts", "/", "fireworks", "/", "models", "/", "llama", "-", "v3p1", "-", "70b", "-", "instruct">>,
            <<"accounts", "/", "fireworks", "/", "models", "/", "qwen", "2p5", "-", "72b", "-", "instruct">>,
            <<"accounts", "/", "fireworks", "/", "models", "/", "deepseek", "-", "v3">>,
            <<"accounts", "/", "fireworks", "/", "models", "/", "mixtral", "-", "8x22b", "-", "instruct">>,
            <<"nomic", "-", "ai", "/", "nomic", "-", "embed", "-", "text", "-", "v1", ".", "5">>>>) \o
    Owned("xai",
          <<<<"grok", "-", "4", ".", "3">>, <<"grok", "-", "4", "-", "0709">>, <<"grok", "-", "3">>,
            <<"grok", "-", "3", "-", "fast">>>>) \o
    Owned("openrouter",
          <<<<"openai", "/", "gpt", "-", "4", "o">>, <<"anthropic", "/", "claude", "-", "sonnet", "-", "4">>,
            <<"meta", "-", "llama", "/", "llama", "-", "3", ".", "3", "-", "70b", "-", "instruct">>,
            <<"deepseek", "/", "deepseek", "-", "chat">>>>)

is_builtin_model(id) == \E i \in DOMAIN CATALOG : CATALOG[i].id = id

\* discovered_models: one deployment each of Azure and of the own server, where named.
discovered_models(env) ==
    (IF env.azure # <<>> THEN Owned("azure_openai", <<env.azure>>) ELSE <<>>) \o
    (IF env.self_hosted # <<>> THEN Owned("self_hosted", <<env.self_hosted>>) ELSE <<>>)
Ids(list) == {list[i].id : i \in DOMAIN list}
full_catalog(env) ==
    FoldLeft(LAMBDA out, m : IF m.id \in Ids(out) THEN out ELSE Append(out, m), CATALOG, discovered_models(env))
combo_models(env) == Owned("routeplane", env.combos)
custom_provider_models(env, existing) == SelectSeq(env.custom, LAMBDA m : m.id \notin Ids(existing))

list_models(env) ==
    LET known == full_catalog(env) \o combo_models(env) IN known \o custom_provider_models(env, known)

First(list, id) == list[SelectInSeq(list, LAMBDA m : m.id = id)]
NotFound == [id |-> <<>>, owner |-> "nobody"]

\* The tenant's own models are looked at first.
retrieve_modelMutant(env, id) ==
    CASE id \in Ids(env.custom) -> First(env.custom, id)
      [] id \notin Ids(env.custom) /\ id \in Ids(full_catalog(env)) -> First(full_catalog(env), id)
      [] id \in Ids(combo_models(env)) -> First(combo_models(env), id)
      [] OTHER -> NotFound

\* retrieve_model: the catalogue, then the combos, then the tenant's own models.
retrieve_model(env, id) ==
    CASE id \in Ids(full_catalog(env)) -> First(full_catalog(env), id)
      [] id \notin Ids(full_catalog(env)) /\ id \in Ids(combo_models(env)) -> First(combo_models(env), id)
      [] id \notin Ids(full_catalog(env) \o combo_models(env)) /\ id \in Ids(env.custom) -> First(env.custom, id)
      [] OTHER -> NotFound

-----------------------------------------------------------------------------
\* A model is retrieved exactly if it is listed and then as the one listed first, whatever
\* names the deployments, combos and own models of a tenant share with the catalogue; and
\* the table knows every catalogued model of a provider that a framework excludes, while
\* the same weights hosted elsewhere are not excluded (models_api.rs).
CatalogueAgrees(env, id) ==
    LET list == list_models(env)
    IN  /\ retrieve_model(env, id) = IF id \in Ids(list) THEN First(list, id) ELSE NotFound
        /\ \A i, j \in DOMAIN CATALOG : CATALOG[i].id = CATALOG[j].id => i = j
        /\ \A i \in DOMAIN CATALOG :
             LET m == CATALOG[i]
             IN  compliance_restrictions_for(m.id) =
                     CASE m.owner = "deepseek" \/ PartOf(m.id, <<"deepseek", "-", "chat">>) -> Sovereign
                       [] m.owner = "xai" -> {"HIPAA"}
                       [] OTHER -> {}

\* The convention of the table (models_api.rs:152, "most-specific-first"): no row is hidden
\* behind an earlier, more general one.  Two are: "anthropic.claude" and "whisper-large".
Hidden == {k \in DOMAIN META_TABLE : \E l \in 1..(k - 1) : PartOf(META_TABLE[k].pat, META_TABLE[l].pat)}
=============================================================================
