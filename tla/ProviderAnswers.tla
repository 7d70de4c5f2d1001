--------------------------- MODULE ProviderAnswers ---------------------------
(***************************************************************************)
(* How the adapters (crates/adapters/src) turn a provider's answer into the *)
(* gateway's: whole, and as a stream of chunks.  Each dialect has its own   *)
(* events, its own state between them and its own words for how an answer   *)
(* ended; the bytes of a stream arrive cut anywhere.                        *)
(*                                                                          *)
(* An answer is what the provider has to say, before it is put in its       *)
(* dialect: blocks of text and tool calls, a word for the end, the tokens.  *)
(* Text and arguments are sequences of pieces, the unit of a delta.         *)
(***************************************************************************)
EXTENDS Integers, Sequences, FiniteSets, SequencesExt

None == -1
Or0(n) == IF n = None THEN 0 ELSE n
NoFinish == "none"
NoUsage == [prompt |-> None, completion |-> None, cached |-> None, created |-> None]
usage(prompt, completion, cached, created) ==
    [prompt |-> prompt, completion |-> completion, cached |-> cached, created |-> created]

Chunk == [text |-> <<>>, calls |-> <<>>, finish |-> NoFinish, usage |-> NoUsage]
content_delta(pieces) == [Chunk EXCEPT !.text = pieces]
NoName == "unnamed"
tool_call_chunk(index, id, name, args) ==
    [Chunk EXCEPT !.calls = <<[index |-> index, id |-> id, name |-> name, args |-> args]>>]
finish_chunk(reason, u) == [Chunk EXCEPT !.finish = reason, !.usage = u]
Failed == [Chunk EXCEPT !.finish = "error"]        \* an Err item of the stream

Pieces(blocks) == FlattenSeq([i \in 1..Len(blocks) |-> blocks[i].pieces])
Texts(answer) == SelectSeq(answer.blocks, LAMBDA b : b.kind = "text")
Tools(answer) == SelectSeq(answer.blocks, LAMBDA b : b.kind = "tool")

-----------------------------------------------------------------------------
\* The whole answer

response(text, calls, finish, u) == [text |-> text, calls |-> calls, finish |-> finish, usage |-> u]
OwnCalls(answer) ==
    LET tools == Tools(answer)
    IN  [i \in 1..Len(tools) |-> [id |-> tools[i].id, name |-> tools[i].name, args |-> tools[i].pieces]]

map_stop_reason(stop) ==
    CASE stop \in {"end_turn", "stop_sequence"} -> "stop" [] stop = "max_tokens" -> "length" [] OTHER -> stop
\* AnthropicProvider::chat_completion: cached prompt tokens are prompt tokens.
anthropic_usage(t) == usage(t.input + Or0(t.read) + Or0(t.created), t.output, t.read, t.created)
anthropic_response(answer) ==
    response(Pieces(Texts(answer)), OwnCalls(answer),
             IF answer.stop = "tool_use" THEN "tool_calls" ELSE map_stop_reason(answer.stop),
             anthropic_usage(answer.tokens))

map_gemini_finish(stop) ==
    CASE stop = "STOP" -> "stop" [] stop = "MAX_TOKENS" -> "length"
      [] stop \in {"SAFETY", "RECITATION"} -> "content_filter" [] OTHER -> stop
\* GeminiProvider::chat_completion: an id is made of the part's place; thoughts are completion.
gemini_usage(t) == usage(t.input, t.output + Or0(t.thoughts), t.read, None)
gemini_calls(answer) ==
    LET at(i) == answer.blocks[i]
        places == SelectSeq([i \in 1..Len(answer.blocks) |-> i], LAMBDA i : at(i).kind = "tool")
    IN  [k \in 1..Len(places) |-> [id |-> places[k] - 1, name |-> at(places[k]).name, args |-> at(places[k]).pieces]]
gemini_response(answer) ==
    response(Pieces(Texts(answer)), gemini_calls(answer),
             IF Tools(answer) # <<>> THEN "tool_calls" ELSE map_gemini_finish(answer.stop),
             gemini_usage(answer.tokens))

\* CohereProvider::chat_completion, cohere_content_text, cohere_usage_to_canonical: the
\* counts of `tokens` before those beside it.
cohere_content_text(answer) == Pieces(Texts(answer))
cohere_usage_to_canonical(t) == usage(t.input, t.output, None, None)
cohere_response(answer) ==
    response(cohere_content_text(answer), OwnCalls(answer),
             CASE Tools(answer) # <<>> \/ answer.stop = "TOOL_CALL" -> "tool_calls"
               [] answer.stop \in {"COMPLETE", "STOP_SEQUENCE"} -> "stop"
               [] answer.stop = "MAX_TOKENS" -> "length" [] OTHER -> answer.stop,
             cohere_usage_to_canonical(answer.tokens))

\* The OpenAI dialect is the gateway's.  The number of cached tokens is lifted out of its
\* detail by the adapters of OpenAI, Azure, Bedrock and self-hosted endpoints, and in every
\* stream; the adapters of the other vendors leave it there ("compat").
lift_openai_cached_tokens(t) == usage(t.input, t.output, t.read, None)
openai_response(answer) ==
    response(Pieces(Texts(answer)), OwnCalls(answer), answer.stop, lift_openai_cached_tokens(answer.tokens))
compat_response(answer) ==
    response(Pieces(Texts(answer)), OwnCalls(answer), answer.stop, usage(answer.tokens.input, answer.tokens.output, None, None))

-----------------------------------------------------------------------------
\* What the providers send when asked to stream, event by event

anthropic_events(answer) ==
    LET block(b) ==
            <<IF b.kind = "tool" THEN [type |-> "content_block_start", block |-> "tool_use", id |-> b.id, name |-> b.name]
              ELSE [type |-> "content_block_start", block |-> "text"]>>
            \o [i \in 1..Len(b.pieces) |->
                  [type |-> "content_block_delta", piece |-> b.pieces[i],
                   delta |-> IF b.kind = "tool" THEN "input_json_delta" ELSE "text_delta"]]
            \o <<[type |-> "content_block_stop"]>>
    IN  <<[type |-> "message_start", tokens |-> answer.tokens], [type |-> "ping"]>>
        \o FlattenSeq([i \in 1..Len(answer.blocks) |-> block(answer.blocks[i])])
        \o <<[type |-> "message_delta", stop |-> answer.stop, output |-> answer.tokens.output], [type |-> "message_stop"]>>

\* One frame per block; the last one also has the finish reason and the counts.
gemini_events(answer) ==
    LET n == Len(answer.blocks)
    IN  [i \in 1..n |->
           [type |-> "frame", parts |-> <<answer.blocks[i]>>,
            stop |-> IF i = n THEN answer.stop ELSE NoFinish, tokens |-> answer.tokens]]
        \o <<[type |-> "usage"]>>

cohere_events(answer) ==
    LET texts == Pieces(Texts(answer))
        tools == Tools(answer)
        call(i) == <<[type |-> "tool-call-start", index |-> i - 1, id |-> tools[i].id, name |-> tools[i].name]>>
                   \o [k \in 1..Len(tools[i].pieces) |->
                         [type |-> "tool-call-delta", index |-> i - 1, piece |-> tools[i].pieces[k]]]
                   \o <<[type |-> "tool-call-end"]>>
    IN  <<[type |-> "message-start"]>>
        \o [i \in 1..Len(texts) |-> [type |-> "content-delta", piece |-> texts[i]]]
        \o FlattenSeq([i \in 1..Len(tools) |-> call(i)])
        \o <<[type |-> "message-end", stop |-> answer.stop, tokens |-> answer.tokens]>>

\* Chunks already; the counts come in one of their own when they were asked for.
openai_events(answer, include_usage) ==
    LET texts == Pieces(Texts(answer))
        tools == Tools(answer)
        chunk(c) == [type |-> "chunk", chunk |-> c]
        call(i) == <<chunk(tool_call_chunk(i - 1, tools[i].id, tools[i].name, <<>>))>>
                   \o [k \in 1..Len(tools[i].pieces) |->
                         chunk(tool_call_chunk(i - 1, None, NoName, <<tools[i].pieces[k]>>))]
    IN  [i \in 1..Len(texts) |-> chunk(content_delta(<<texts[i]>>))]
        \o FlattenSeq([i \in 1..Len(tools) |-> call(i)])
        \o <<chunk(finish_chunk(answer.stop, NoUsage))>>
        \o (IF include_usage THEN <<[type |-> "counts", tokens |-> answer.tokens]>> ELSE <<>>)
        \o <<[type |-> "[DONE]"]>>

-----------------------------------------------------------------------------
\* From events to chunks: the state that is kept, the chunks, and whether the stream goes on

Going(st, out) == [st |-> st, out |-> out, end |-> FALSE]
Done(st) == [st |-> st, out |-> <<>>, end |-> TRUE]
Err(st) == [st |-> st, out |-> <<Failed>>, end |-> TRUE]

AnthropicStreamState == [tokens |-> [input |-> 0, output |-> 0, read |-> None, created |-> None],
                         next |-> 0, current |-> None, saw |-> FALSE]
\* The tool keeps the index of the block before it.
OpenToolMutant(st) == [st EXCEPT !.next = @ + 1, !.current = 0, !.saw = TRUE]

\* content_block_start of a tool_use block: the next index, until the block stops.
OpenTool(st) == [st EXCEPT !.next = @ + 1, !.current = st.next, !.saw = TRUE]
translate_anthropic_event(e, st) ==
    CASE e.type = "garbage" \/ e.type = "error" -> Err(st)
      [] e.type = "message_start" -> Going([st EXCEPT !.tokens = e.tokens], <<Chunk>>)
      [] e.type = "content_block_start" /\ e.block = "tool_use" ->
           Going(OpenTool(st), <<tool_call_chunk(st.next, e.id, e.name, <<>>)>>)
      [] e.type = "content_block_start" /\ e.block # "tool_use" -> Going([st EXCEPT !.current = None], <<>>)
      [] e.type = "content_block_stop" -> Going([st EXCEPT !.current = None], <<>>)
      [] e.type = "content_block_delta" /\ e.delta = "text_delta" -> Going(st, <<content_delta(<<e.piece>>)>>)
      [] e.type = "content_block_delta" /\ e.delta = "input_json_delta" ->
           Going(st, IF st.current = None THEN <<>> ELSE <<tool_call_chunk(st.current, None, NoName, <<e.piece>>)>>)
      [] e.type = "message_delta" ->
           Going(st, <<finish_chunk(IF e.stop = "tool_use" \/ st.saw THEN "tool_calls" ELSE map_stop_reason(e.stop),
                                    anthropic_usage([st.tokens EXCEPT !.output = e.output]))>>)
      [] e.type = "message_stop" -> Done(st)
      [] OTHER -> Going(st, <<>>)

GeminiStreamState == [next |-> 0, saw |-> FALSE]
gemini_part(s, part) ==
    IF part.kind = "text"
      THEN Going(s.st, s.out \o IF part.pieces = <<>> THEN <<>> ELSE <<content_delta(part.pieces)>>)
      ELSE Going([next |-> s.st.next + 1, saw |-> TRUE],
                 Append(s.out, tool_call_chunk(s.st.next, s.st.next, part.name, part.pieces)))
translate_gemini_chunk(e, st) ==
    CASE e.type \in {"garbage", "error"} -> Err(st)
      [] e.type = "frame" ->
           LET r == FoldLeft(gemini_part, Going(st, <<>>), e.parts)
           IN  IF e.stop = NoFinish THEN r
               ELSE Going(r.st, Append(r.out, finish_chunk(IF r.st.saw THEN "tool_calls" ELSE map_gemini_finish(e.stop),
                                                           gemini_usage(e.tokens))))
      [] OTHER -> Going(st, <<>>)

CohereStreamState == [saw |-> FALSE]
parse_cohere_stream_event(e, st) ==
    CASE e.type = "garbage" -> Err(st)
      [] e.type = "tool-call-start" -> Going([saw |-> TRUE], <<tool_call_chunk(e.index, e.id, e.name, <<>>)>>)
      [] e.type = "tool-call-delta" -> Going(st, <<tool_call_chunk(e.index, None, NoName, <<e.piece>>)>>)
      [] e.type = "content-delta" -> Going(st, <<content_delta(<<e.piece>>)>>)
      [] e.type = "message-end" ->
           Going(st, <<finish_chunk(CASE st.saw -> "tool_calls"
                                      [] e.stop \in {"COMPLETE", "STOP_SEQUENCE", "TOOL_CALL"} -> "stop"
                                      [] e.stop = "MAX_TOKENS" -> "length" [] OTHER -> e.stop,
                                    cohere_usage_to_canonical(e.tokens))>>)
      [] OTHER -> Going(st, <<>>)

parse_openai_sse_payload(e, st) ==
    CASE e.type \in {"garbage", "error"} -> Err(st)
      [] e.type = "[DONE]" -> Done(st)
      [] e.type = "counts" -> Going(st, <<[Chunk EXCEPT !.usage = lift_openai_cached_tokens(e.tokens)]>>)
      [] OTHER -> Going(st, <<e.chunk>>)

-----------------------------------------------------------------------------
\* Bytes: a payload's line is its opening, its rest and a newline; a line that has no
\* payload (a comment, a field, a blank one) is skipped.

NewLine == [byte |-> "newline"]
Line(e) == <<[byte |-> "data", of |-> e], [byte |-> "rest", of |-> e], NewLine>>
Blank == <<[byte |-> "other"], NewLine>>
Bytes(events) == FlattenSeq([i \in 1..Len(events) |-> Line(events[i]) \o Blank])

\* next_payload until it gives nothing: the payloads of the whole lines, and what is left.
next_payloads(buf) ==
    LET ends == SelectSeq([i \in 1..Len(buf) |-> i], LAMBDA i : buf[i] = NewLine)
        starts == [k \in 1..Len(ends) |-> IF k = 1 THEN 1 ELSE ends[k - 1] + 1]
        lines == [k \in 1..Len(ends) |-> SubSeq(buf, starts[k], ends[k])]
        payloads == SelectSeq(lines, LAMBDA l : l[1].byte = "data")
    IN  [payloads |-> [k \in 1..Len(payloads) |-> payloads[k][1].of],
         rest |-> SubSeq(buf, IF ends = <<>> THEN 1 ELSE Last(ends) + 1, Len(buf))]

Dialects == {"anthropic", "gemini", "cohere", "openai", "compat"}
Start(dialect) == CASE dialect = "anthropic" -> AnthropicStreamState
                    [] dialect = "gemini" -> GeminiStreamState
                    [] dialect = "cohere" -> CohereStreamState
                    [] OTHER -> [none |-> TRUE]
translate(dialect, e, st) ==
    CASE dialect = "anthropic" -> translate_anthropic_event(e, st)
      [] dialect = "gemini" -> translate_gemini_chunk(e, st)
      [] dialect = "cohere" -> parse_cohere_stream_event(e, st)
      [] OTHER -> parse_openai_sse_payload(e, st)
events(dialect, answer) ==
    CASE dialect = "anthropic" -> anthropic_events(answer)
      [] dialect = "gemini" -> gemini_events(answer)
      [] dialect = "cohere" -> cohere_events(answer)
      [] OTHER -> openai_events(answer, TRUE)
whole(dialect, answer) ==
    CASE dialect = "anthropic" -> anthropic_response(answer)
      [] dialect = "gemini" -> gemini_response(answer)
      [] dialect = "cohere" -> cohere_response(answer)
      [] dialect = "openai" -> openai_response(answer)
      [] OTHER -> compat_response(answer)

\* xxx_sse_to_chunks: each read is buffered and its payloads translated; a failed read is
\* an error and the end.
Broken == <<[byte |-> "transport error"]>>
sse_to_chunks(dialect, reads) ==
    LET one(s, e) == IF s.end THEN s
                     ELSE LET r == translate(dialect, e, s.st)
                          IN  [s EXCEPT !.st = r.st, !.out = @ \o r.out, !.end = r.end]
        read(s, bytes) ==
            IF s.end THEN s
            ELSE IF bytes = Broken THEN [s EXCEPT !.out = Append(@, Failed), !.end = TRUE]
            ELSE LET p == next_payloads(s.buf \o bytes)
                 IN  FoldLeft(one, [s EXCEPT !.buf = p.rest], p.payloads)
    IN  FoldLeft(read, [st |-> Start(dialect), buf |-> <<>>, out |-> <<>>, end |-> FALSE], reads).out

\* An adapter that does not stream: the whole answer in two chunks.
tool_calls_to_chunks(calls) ==
    [i \in 1..Len(calls) |-> [index |-> i - 1, id |-> calls[i].id, name |-> calls[i].name, args |-> calls[i].args]]
opening_chunk_choice(r) == [Chunk EXCEPT !.text = r.text, !.calls = tool_calls_to_chunks(r.calls)]
buffered_response_as_stream(r) == <<opening_chunk_choice(r), finish_chunk(r.finish, r.usage)>>

\* What a client puts together from the chunks: its SDK adds up text and arguments, calls by
\* their index, and keeps the last finish reason and the last counts.
Collect(chunks) ==
    LET deltas == FlattenSeq([i \in 1..Len(chunks) |-> chunks[i].calls])
        indices == {deltas[i].index : i \in 1..Len(deltas)}
        call(k) == LET mine == SelectSeq(deltas, LAMBDA d : d.index = k)
                   IN  [id |-> mine[1].id, name |-> mine[1].name,
                        args |-> FlattenSeq([i \in 1..Len(mine) |-> mine[i].args])]
        ends == SelectSeq(chunks, LAMBDA c : c.finish # NoFinish)
        counts == SelectSeq(chunks, LAMBDA c : c.usage # NoUsage)
    IN  [text |-> FlattenSeq([i \in 1..Len(chunks) |-> chunks[i].text]),
         calls |-> [k \in 1..Cardinality(indices) |-> call(k - 1)],
         finish |-> IF ends = <<>> THEN NoFinish ELSE Last(ends).finish,
         usage |-> IF counts = <<>> THEN NoUsage ELSE Last(counts).usage]

-----------------------------------------------------------------------------
\* The two paths agree on text, calls and counts, but for what one of them cannot know: a
\* Gemini call has no id of its own, and seven vendors' cached tokens are found in a stream
\* only.  How the answer ended they call the same unless a reason other than "tool_use"
\* ends an Anthropic answer with calls, or "TOOL_CALL" a Cohere one without.
SameAnswer(dialect, answer, streamed) ==
    \A w \in {whole(dialect, answer)} :
    LET ids(r) == {r.calls[i].id : i \in 1..Len(r.calls)}
        plain(r) == [i \in 1..Len(r.calls) |-> [r.calls[i] EXCEPT !.id = IF dialect = "gemini" THEN 0 ELSE @]]
    IN  /\ streamed.text = w.text
        /\ plain(streamed) = plain(w)
        /\ \A r \in {w, streamed} : Cardinality(ids(r)) = Len(r.calls)
        /\ streamed.usage = IF dialect = "compat" THEN [w.usage EXCEPT !.cached = answer.tokens.read] ELSE w.usage
        /\ \/ streamed.finish = w.finish
           \/ dialect = "anthropic" /\ Tools(answer) # <<>> /\ answer.stop # "tool_use" /\ streamed.finish = "tool_calls"
           \/ dialect = "cohere" /\ Tools(answer) = <<>> /\ answer.stop = "TOOL_CALL" /\ streamed.finish = "stop"

\* Wherever the bytes are cut, a client that reads the stream of an answer has what the
\* other path gives whole, with one finish reason; a stream that breaks off gives a
\* beginning of it, and an error after it if the transport failed or a payload makes no
\* sense (adapters/src/sse.rs, anthropic.rs translate_anthropic_event, gemini.rs
\* translate_gemini_chunk, cohere.rs parse_cohere_stream_event, openai.rs
\* openai_sse_to_chunks).
StreamIsTheAnswer(dialect, answer, cut) ==
    \A sent \in {events(dialect, answer)} : \A bytes \in {Bytes(sent)} :
    \A before \in {SubSeq(sent, 1, cut \div Len(Line(sent[1]) \o Blank))}, head \in {SubSeq(bytes, 1, cut)} :
    \A spoilt \in {sse_to_chunks(dialect, <<Bytes(before), Line([type |-> "garbage"]), bytes>>)},
       full \in {sse_to_chunks(dialect, <<bytes>>)},
       broken \in {sse_to_chunks(dialect, <<head, Broken>>)} :
        /\ sse_to_chunks(dialect, <<head, SubSeq(bytes, cut + 1, Len(bytes))>>) = full
        /\ \A streamed \in {Collect(full)} : SameAnswer(dialect, answer, streamed)
        /\ Cardinality({i \in 1..Len(full) : full[i].finish # NoFinish}) = 1
        /\ Collect(buffered_response_as_stream(whole(dialect, answer))) = whole(dialect, answer)
        /\ IsPrefix(sse_to_chunks(dialect, <<head>>), full)
        /\ \/ broken = Append(sse_to_chunks(dialect, <<head>>), Failed)
           \/ broken = full /\ dialect \in {"anthropic", "openai", "compat"}
        /\ \/ spoilt = Append(sse_to_chunks(dialect, <<Bytes(before)>>), Failed)
           \/ before = sent /\ spoilt = full

\* "so the buffered path emits the same OpenAI-canonical finish_reason as the streaming
\* path (message_delta)" (anthropic.rs:578).
SameFinish(answer) ==
    Collect(sse_to_chunks("anthropic", <<Bytes(anthropic_events(answer))>>)).finish = anthropic_response(answer).finish
=============================================================================
