------------------------------ MODULE Endpoints ------------------------------
(***************************************************************************)
(* The endpoints beside chat: embeddings, rerank, image generation,         *)
(* transcription, translation and speech (embeddings.rs, rerank_api.rs,     *)
(* images_api.rs, audio_api.rs), which share one course -- validate,        *)
(* classify, filter by residency, admit, try the candidates one by one --   *)
(* and /v1/messages (messages_api.rs), which translates to chat and back.   *)
(*                                                                          *)
(* The world a request meets is a record: registry (built-in provider ->    *)
(* regions), custom (the tenant's providers), available, keys, admits, and  *)
(* the outcome each provider would have.                                    *)
(***************************************************************************)
EXTENDS Integers, Sequences, FiniteSets, SequencesExt
LOCAL Errors == INSTANCE ProviderErrors WITH OnStatus <- {}

Endpoint == {"embeddings", "rerank", "images", "transcriptions", "translations", "speech"}
Sound == {"transcriptions", "translations"}

-----------------------------------------------------------------------------
\* Validation

embeddings_invalid(req) == req.input \in {"empty", "too_many"}
rerank_invalid(req) == req.input = "empty"                     \* no documents
image_generation_invalid(req) == req.input = "empty"
speech_invalid(req) == req.input \in {"empty", "no_voice"}

\* parse_multipart: the parts in turn; the last of a name counts.
parse_multipart(parts) ==
    LET bad == \E i \in DOMAIN parts : parts[i].name = "unreadable" \/ (parts[i].name = "temperature" /\ parts[i].blank)
        last(name) == SelectLastInSeq(parts, LAMBDA p : p.name = name)
    IN  ~bad /\ \A name \in {"file", "model"} : last(name) # 0 /\ ~parts[last(name)].blank

-----------------------------------------------------------------------------
\* Candidates

\* ResidencyEngine::required_region: a region binds personal data alone.
required_region(personal, req) == IF personal THEN req.region ELSE "any"

\* The client's chain goes before the region it asks for.
CandidatesMutant(w, region, req, preset) ==
    CASE req.chain # <<>> -> req.chain
      [] req.chain = <<>> /\ region # "any" -> SetToSeq({n \in DOMAIN w.registry : region \in w.registry[n]})
      [] OTHER -> <<preset>>

\* Every built-in provider resident in the region; else the header's chain; else the preset.
Candidates(w, region, req, preset) ==
    CASE region # "any" -> SetToSeq({n \in DOMAIN w.registry : region \in w.registry[n]})
      [] region = "any" /\ req.chain # <<>> -> req.chain
      [] OTHER -> <<preset>>
\* The provider of the tenant that has the model, unless the model is a built-in one.
OwnerOr(w, req, default) == IF req.owner \in w.custom /\ ~req.builtin_model THEN req.owner ELSE default

\* Text is classified, and sound is not: its classification is empty.
embeddings_candidates(w, req) == Candidates(w, required_region(req.personal, req), req, OwnerOr(w, req, "openai"))
rerank_candidates(w, req) == Candidates(w, required_region(req.personal, req), req, OwnerOr(w, req, "cohere"))
image_generation_candidates(w, req) == Candidates(w, required_region(req.personal, req), req, "openai")
speech_candidates(w, req) == Candidates(w, required_region(req.personal, req), req, OwnerOr(w, req, "openai"))
audio_text_candidates(w, req) == Candidates(w, required_region(FALSE, req), req, "openai")
Eligible(endpoint, w, req) ==
    CASE endpoint = "embeddings" -> embeddings_candidates(w, req)
      [] endpoint = "rerank" -> rerank_candidates(w, req)
      [] endpoint = "images" -> image_generation_candidates(w, req)
      [] endpoint = "speech" -> speech_candidates(w, req)
      [] endpoint \in Sound -> audio_text_candidates(w, req)

-----------------------------------------------------------------------------
\* The attempts

Start == [answered |-> FALSE, stop |-> FALSE, unsupported |-> FALSE, asked |-> <<>>,
          usage |-> <<>>, health |-> <<>>, latency |-> {}, settled |-> <<>>]

\* The health of a provider that answers 422 for the endpoint suffers.
AttemptMutant(w, known, units, s, name) ==
    LET out == w.outcome[name]
        asked == [s EXCEPT !.asked = Append(@, name)]
    IN  CASE s.answered \/ s.stop \/ ~known \/ name \notin w.available \/ name \notin w.keys -> s
          [] OTHER ->
              IF out = "ok" THEN [asked EXCEPT !.answered = TRUE, !.usage = Append(@, "success"),
                                               !.health = Append(@, <<name, "success">>), !.settled = Append(@, units)]
              ELSE [asked EXCEPT !.usage = Append(@, "failure"), !.health = Append(@, <<name, "failure">>),
                                 !.unsupported = out = "unsupported"]

\* One candidate: skipped without provider, closed circuit or key; none is asked once the
\* deadline has passed; "unsupported" is the endpoint's own 422.
Attempt(w, known, units, s, name) ==
    LET out == w.outcome[name]
        skipped == ~known \/ name \notin w.available \/ name \notin w.keys
        asked == [s EXCEPT !.asked = Append(@, name)]
    IN  IF s.answered \/ s.stop \/ skipped THEN s
        ELSE IF Len(s.asked) >= w.deadline THEN [s EXCEPT !.stop = TRUE]
        ELSE CASE out = "ok" ->
                    [asked EXCEPT !.answered = TRUE, !.usage = Append(@, "success"), !.latency = @ \cup {name},
                                  !.health = Append(@, <<name, "success">>), !.settled = Append(@, units)]
               [] out = "unsupported" -> [asked EXCEPT !.usage = Append(@, "failure"), !.unsupported = TRUE]
               [] out \notin {"ok", "unsupported"} ->
                    [asked EXCEPT !.usage = Append(@, "failure"), !.unsupported = FALSE, !.latency = @ \cup {name},
                                  !.health = IF Errors!CountsAsHealthFailure(out) THEN Append(@, <<name, "failure">>) ELSE @]

BuiltIn(w, name) == name \in DOMAIN w.registry
ResolvesFor(w, name) == BuiltIn(w, name) \/ name \in w.custom       \* resolve_provider

\* What is settled: the tokens, the number of images, or nothing for sound.
embeddings_attempt(w, s, name) == Attempt(w, ResolvesFor(w, name), "tokens", s, name)
rerank_attempt(w, s, name) == Attempt(w, ResolvesFor(w, name), "tokens", s, name)
image_generation_attempt(w, s, name) == Attempt(w, BuiltIn(w, name), "images", s, name)
speech_attempt(w, s, name) == Attempt(w, ResolvesFor(w, name), "zero", s, name)
audio_text_attempt(w, s, name) == Attempt(w, BuiltIn(w, name), "zero", s, name)

attempt(endpoint, w, s, name) ==
    CASE endpoint = "embeddings" -> embeddings_attempt(w, s, name)
      [] endpoint = "rerank" -> rerank_attempt(w, s, name)
      [] endpoint = "images" -> image_generation_attempt(w, s, name)
      [] endpoint = "speech" -> speech_attempt(w, s, name)
      [] endpoint \in Sound -> audio_text_attempt(w, s, name)

\* The candidates one by one, in the order RoutingStrategy gives.
Walk(endpoint, w, order) ==
    LET after[k \in 0..Len(order)] == IF k = 0 THEN Start ELSE attempt(endpoint, w, after[k - 1], order[k])
    IN  after[Len(order)]

Ended(as, s, decision, usage) ==
    [as |-> as, asked |-> s.asked, health |-> s.health, latency |-> s.latency,
     usage |-> usage, decision |-> decision, settled |-> s.settled]

\* The whole course: validate, filter, admit, and what becomes of the walk.
Course(invalid, eligible, w, s) ==
    IF invalid THEN Ended("invalid", Start, "none", <<>>)
    ELSE IF eligible = <<>> THEN Ended("blocked", Start, "residency_blocked", <<"sovereign_block">>)
    ELSE IF ~w.admits THEN Ended("denied", Start, "none", <<"failure">>)
    ELSE IF s.answered THEN Ended("ok", s, "ok", s.usage)
    ELSE IF s.unsupported THEN Ended("unsupported", s, "none", s.usage)
    ELSE Ended("failed", s, "all_failed", s.usage)

embeddings(w, req, order) ==
    Course(embeddings_invalid(req), embeddings_candidates(w, req), w, Walk("embeddings", w, order))
rerank(w, req, order) == Course(rerank_invalid(req), rerank_candidates(w, req), w, Walk("rerank", w, order))
image_generation(w, req, order) ==
    Course(image_generation_invalid(req), image_generation_candidates(w, req), w, Walk("images", w, order))
speech(w, req, order) == Course(speech_invalid(req), speech_candidates(w, req), w, Walk("speech", w, order))
run_audio_text(endpoint, w, req, order) ==
    Course(~parse_multipart(req.parts), audio_text_candidates(w, req), w, Walk(endpoint, w, order))

serve(endpoint, w, req, order) ==
    CASE endpoint = "embeddings" -> embeddings(w, req, order)
      [] endpoint = "rerank" -> rerank(w, req, order)
      [] endpoint = "images" -> image_generation(w, req, order)
      [] endpoint = "speech" -> speech(w, req, order)
      [] endpoint \in Sound -> run_audio_text(endpoint, w, req, order)

-----------------------------------------------------------------------------
\* /v1/messages

\* to_canonical_content: text and image blocks; other blocks are left out, and without an
\* image the texts are joined.
to_canonical_content(blocks) ==
    LET kept == SelectSeq(blocks, LAMBDA b : b.type \in {"text", "image"} /\ b.usable)
    IN  IF \E i \in DOMAIN kept : kept[i].type = "image" THEN [parts |-> kept]
        ELSE [text |-> [i \in DOMAIN kept |-> kept[i].value]]
\* to_canonical_request: a system text becomes the first message.
to_canonical_request(req) ==
    (IF req.system # "" THEN <<[role |-> "system", content |-> [text |-> <<req.system>>]]>> ELSE <<>>) \o
    [i \in DOMAIN req.messages |-> [role |-> req.messages[i].role, content |-> to_canonical_content(req.messages[i].blocks)]]

map_finish_reason(finish) ==
    CASE finish = "length" -> "max_tokens"
      [] finish = "tool_calls" -> "tool_use"
      [] finish \in {"max_tokens", "stop_sequence", "tool_use"} -> finish
      [] OTHER -> "end_turn"

\* messages: no streaming, max_tokens required, Anthropic unless the client or the model
\* says otherwise; an error of the pipeline goes through as it is.
messages(w, req, core) ==
    IF ~req.max_tokens \/ req.stream THEN [as |-> "invalid"]
    ELSE LET chain == IF req.chain = <<>> /\ (req.builtin_model \/ req.owner \notin w.custom) THEN <<"anthropic">> ELSE req.chain
             answer == core[chain]
         IN  [as |-> "done", chain |-> chain, sent |-> to_canonical_request(req),
              status |-> IF answer.ok /\ ~answer.readable THEN "error" ELSE IF answer.ok THEN "ok" ELSE "core_error",
              reason |-> map_finish_reason(answer.finish)]

-----------------------------------------------------------------------------
\* Every course leaves one consistent record: it is settled and decided "ok" exactly if a
\* provider answered, with one success behind the failures of those asked before it; no
\* one is asked before admission or after an answer, or who is not the tenant's to ask;
\* personal text that must stay in a region reaches only providers resident there; and a
\* provider that does not offer the endpoint does not suffer for it (embeddings.rs and
\* its siblings).
EndpointIsConsistent(endpoint, w, req, order) ==
    \A r \in {serve(endpoint, w, req, order)} :
        /\ (r.as = "ok") = (Len(r.settled) = 1) /\ (r.as = "ok") = (r.decision = "ok")
        /\ r.as = "ok" <=> \E i \in DOMAIN r.asked : w.outcome[r.asked[i]] = "ok"
        /\ Cardinality({i \in DOMAIN r.usage : r.usage[i] = "success"}) = Len(r.settled)
        /\ r.as \in {"ok", "failed", "unsupported"} => Len(r.usage) = Len(r.asked)
        /\ r.as \in {"invalid", "blocked", "denied"} => r.asked = <<>> /\ r.health = <<>>
        /\ \A i \in DOMAIN r.asked : r.asked[i] \in DOMAIN w.registry \cup w.custom
        /\ endpoint \notin Sound /\ req.personal /\ req.region # "any" =>
             \A i \in DOMAIN r.asked : req.region \in w.registry[r.asked[i]]
        /\ \A i \in DOMAIN r.health : w.outcome[r.health[i][1]] # "unsupported"
        /\ Len(r.asked) <= w.deadline

\* What /v1/messages sends on says what the client said: the texts of a message stay
\* together and in order, with its images where it has some; a client's own choice of
\* providers is kept, a built-in model goes to Anthropic otherwise; and what it answers is
\* one of Anthropic's stop reasons (messages_api.rs).
MessagesKeepTheText(w, req, core) ==
    LET r == messages(w, req, core)
        texts(blocks) == SelectSeq(blocks, LAMBDA b : b.type = "text" /\ b.usable)
        skip == IF req.system # "" THEN 1 ELSE 0
    IN  r.as = "done" =>
        /\ r.chain = IF req.chain # <<>> THEN req.chain ELSE IF req.builtin_model \/ req.owner \notin w.custom THEN <<"anthropic">> ELSE <<>>
        /\ r.reason \in {"end_turn", "max_tokens", "stop_sequence", "tool_use"}
        /\ \A i \in DOMAIN req.messages :
             LET said == texts(req.messages[i].blocks)
                 sent == r.sent[i + skip].content
             IN  IF "text" \in DOMAIN sent
                   THEN sent.text = [j \in DOMAIN said |-> said[j].value]
                        /\ \A j \in DOMAIN req.messages[i].blocks :
                             req.messages[i].blocks[j].type = "image" => ~req.messages[i].blocks[j].usable
                   ELSE texts(sent.parts) = said

\* "a region required by the virtual key or the `x-routeplane-residency` header is a HARD
\* filter to resident providers" (audio_api.rs:33): no provider elsewhere is asked.
AudioHasHardFilter(endpoint, w, req, order) ==
    endpoint \in Sound /\ req.region # "any" =>
        \A i \in DOMAIN serve(endpoint, w, req, order).asked :
            req.region \in w.registry[serve(endpoint, w, req, order).asked[i]]
=============================================================================
