----------------------------- MODULE LlmStream -----------------------------
(***************************************************************************)
(* One answer of a language model: the bytes of the response through       *)
(* SseParser (agents/streaming.rs), parse_sse_event of the provider        *)
(* (agents/provider.rs) and collect_chat_response (agents/llm.rs), and the *)
(* conversation as the providers' convert_messages put it in a request.    *)
(*                                                                         *)
(* The bytes are symbols: "LF", "CR", and a line without its end, one of   *)
(* <<"event", name>>, <<"data", payload>> and <<"other">>.                 *)
(* A payload is what its JSON says, Bad when it is none:                   *)
(*   Anthropic  [tool, id, name], [text], [json], [stop, in, out]          *)
(*   OpenAI     [usage, choices] with a choice [finish, content, calls]    *)
(* Arguments of a tool call are pieces of JSON, valid when all are there.  *)
(***************************************************************************)
EXTENDS Integers, Sequences, FiniteSetsExt

LF == <<"LF">>
CR == <<"CR">>
Line(kind, v) == <<kind, v>>
Bad == [kind |-> "bad"]
NoName == "none"

Flat(ss) == LET f[i \in 0..Len(ss)] == IF i = 0 THEN << >> ELSE f[i - 1] \o ss[i] IN f[Len(ss)]

-----------------------------------------------------------------------------
(* SseParser *)

\* Where an event that ends at i lets the next one begin, 0 for no delimiter.
EndsAt(buf, i) ==
  IF i + 3 <= Len(buf) /\ SubSeq(buf, i, i + 3) = <<CR, LF, CR, LF>> THEN i + 4
  ELSE IF i + 1 <= Len(buf) /\ SubSeq(buf, i, i + 1) = <<LF, LF>> THEN i + 2 ELSE 0

Delimiters(buf) == {i \in DOMAIN buf : EndsAt(buf, i) # 0}

\* An event has its last `event:' and the payloads of its `data:' lines.
ParsedEvent(raw) ==
  LET named == SelectSeq(raw, LAMBDA x : x[1] = "event")
      data == SelectSeq(raw, LAMBDA x : x[1] = "data")
  IN IF named = << >> /\ data = << >> THEN << >>
     ELSE << [name |-> IF named = << >> THEN NoName ELSE named[Len(named)][2],
              data |-> IF Len(data) = 1 THEN data[1][2] ELSE Bad] >>

RECURSIVE Feed(_, _)
\* feed: the complete events of the buffer, and what is left.
Feed(buf, events) ==
  IF Delimiters(buf) = {} THEN [buf |-> buf, events |-> events]
  ELSE LET i == Min(Delimiters(buf))
       IN Feed(SubSeq(buf, EndsAt(buf, i), Len(buf)), events \o ParsedEvent(SubSeq(buf, 1, i - 1)))

Received(chunks) ==
  LET f[i \in 0..Len(chunks)] ==
        IF i = 0 THEN [buf |-> << >>, events |-> << >>]
        ELSE Feed(f[i - 1].buf \o chunks[i], f[i - 1].events)
  IN f[Len(chunks)].events

-----------------------------------------------------------------------------
(* parse_sse_event *)

TextDelta(t) == [kind |-> "text", text |-> t]
CallStart(id, name) == [kind |-> "start", id |-> id, name |-> name]
CallDelta(id, json) == [kind |-> "delta", id |-> id, json |-> json]
CallEnd(id) == [kind |-> "end", id |-> id]
Done(in, out, stop) == [kind |-> "done", in |-> in, out |-> out, stop |-> stop]
Fault == [kind |-> "error"]
NoId == ""

AnthropicStop(s) ==
  CASE s = "end_turn" -> "EndTurn" [] s = "tool_use" -> "ToolUse" [] s = "max_tokens" -> "MaxTokens"
    [] s = "stop_sequence" -> "StopSequence"
    [] OTHER -> "Unknown"

AnthropicChunks(e) ==
  CASE e.name = "content_block_start" /\ e.data.kind = "tool" -> <<CallStart(e.data.id, e.data.name)>>
    [] e.name = "content_block_delta" /\ e.data.kind = "text" -> <<TextDelta(e.data.text)>>
    [] e.name = "content_block_delta" /\ e.data.kind = "json" -> <<CallDelta(NoId, e.data.json)>>
    [] e.name = "content_block_stop" -> <<CallEnd(NoId)>>
    [] e.name = "message_delta" /\ e.data.kind = "stop" ->
         <<Done(e.data.in, e.data.out, AnthropicStop(e.data.stop))>>
    [] e.name = "error" -> <<Fault>>
    [] OTHER -> << >>

OpenAIStop(s) ==
  CASE s = "stop" -> "EndTurn" [] s = "tool_calls" -> "ToolUse" [] s = "length" -> "MaxTokens"
    [] OTHER -> "Unknown"

CallChunks(c) ==
  (IF c.name # NoName THEN <<CallStart(c.id, c.name)>> ELSE << >>)
    \o (IF c.args # << >> THEN <<CallDelta(c.id, c.args)>> ELSE << >>)

ChoiceChunks(choice) ==
  (IF choice.content # "" THEN <<TextDelta(choice.content)>> ELSE << >>)
    \o Flat([i \in DOMAIN choice.calls |-> CallChunks(choice.calls[i])])

\* A chunk with usage and no finish_reason counts as the end of a turn.
OpenAIChunks(e) ==
  LET d == e.data
      finish == SelectSeq([i \in DOMAIN d.choices |-> d.choices[i].finish], LAMBDA f : f # NoName)
      ended == IF d.usage # << >>
                 THEN <<Done(d.usage[1], d.usage[2],
                             IF finish = << >> THEN "EndTurn" ELSE OpenAIStop(finish[1]))>>
               ELSE IF finish # << >> THEN <<Done(0, 0, OpenAIStop(finish[1]))>>
               ELSE << >>
  IN CASE d.kind = "chunk" -> ended \o Flat([i \in DOMAIN d.choices |-> ChoiceChunks(d.choices[i])])
       [] d.kind = "error" -> <<Fault>>
       [] OTHER -> << >>

ChunksOf(provider, events) ==
  Flat([i \in DOMAIN events |-> IF provider = "anthropic" THEN AnthropicChunks(events[i])
                                ELSE OpenAIChunks(events[i])])

-----------------------------------------------------------------------------
(* collect_chat_response *)

NullArgs == << >>
Whole(json) == json # << >> /\ json[Len(json)] = "}"
Call(c) == [id |-> c.id, name |-> c.name, args |-> IF Whole(c.json) THEN c.json ELSE NullArgs]

Empty == [text |-> << >>, pending |-> << >>, calls |-> << >>, cur |-> 0,
          in |-> 0, out |-> 0, stop |-> "no_done_event", ok |-> TRUE]

\* The call a chunk is about: the first with its id, the current one without.
Target(acc, id) ==
  LET same == {i \in DOMAIN acc.pending : acc.pending[i].id = id}
  IN IF id = NoId THEN acc.cur ELSE IF same = {} THEN 0 ELSE Min(same)

Without(s, i) == SubSeq(s, 1, i - 1) \o SubSeq(s, i + 1, Len(s))

\* Mutant: the end of a block leaves the call pending.
FinishTwice(acc, i) ==
  [acc EXCEPT !.calls = Append(@, Call(acc.pending[i])), !.cur = 0]

Finish(acc, i) ==
  [acc EXCEPT !.calls = Append(@, Call(acc.pending[i])), !.pending = Without(@, i), !.cur = 0]

Collect1(acc, c) ==
  LET i == Target(acc, c.id)
  IN CASE ~acc.ok -> acc
       [] acc.ok /\ c.kind = "text" -> [acc EXCEPT !.text = Append(@, c.text)]
       [] acc.ok /\ c.kind = "start" ->
            [acc EXCEPT !.pending = Append(@, [id |-> c.id, name |-> c.name, json |-> << >>]),
                        !.cur = Len(acc.pending) + 1]
       [] acc.ok /\ c.kind = "delta" ->
            IF i = 0 THEN acc ELSE [acc EXCEPT !.pending[i].json = @ \o c.json]
       [] acc.ok /\ c.kind = "end" -> IF i = 0 THEN acc ELSE Finish(acc, i)
       [] acc.ok /\ c.kind = "done" ->
            [acc EXCEPT !.in = IF c.in > 0 THEN c.in ELSE @,
                        !.out = IF c.out > 0 THEN c.out ELSE @, !.stop = c.stop]
       [] acc.ok /\ c.kind = "error" -> [acc EXCEPT !.ok = FALSE]

\* Calls without an end are taken as they are.
Response(chunks) ==
  LET f[i \in 0..Len(chunks)] == IF i = 0 THEN Empty ELSE Collect1(f[i - 1], chunks[i])
      last == f[Len(chunks)]
  IN [ok |-> last.ok, text |-> last.text, stop |-> last.stop, in |-> last.in, out |-> last.out,
      calls |-> last.calls \o [i \in DOMAIN last.pending |-> Call(last.pending[i])]]

-----------------------------------------------------------------------------
(* convert_messages.  A message is [role, blocks, id], a block             *)
(* <<"text", t>>, <<"use", id, name>> or <<"result", id, t>>; a message    *)
(* that is not in blocks is its one text.                                  *)

Kind(blocks, kind) == SelectSeq(blocks, LAMBDA b : b[1] = kind)

\* The text of a message with the role of a tool is the result it has an id for.
AnthropicBlocks(m) ==
  [i \in DOMAIN m.blocks |->
     IF m.role = "tool" /\ m.id # NoId /\ m.blocks[i][1] = "text"
       THEN <<"result", m.id, m.blocks[i][2]>> ELSE m.blocks[i]]
AnthropicMessages(msgs) ==
  LET kept == SelectSeq(msgs, LAMBDA m : m.role # "system")
  IN [i \in DOMAIN kept |-> [role |-> IF kept[i].role = "assistant" THEN "assistant" ELSE "user",
                             blocks |-> AnthropicBlocks(kept[i])]]

\* The text of a user, the text and the calls of the assistant, a result that
\* comes as a message of a tool.
OpenAIBlocks(m) ==
  CASE m.role \in {"system", "user"} -> Kind(m.blocks, "text")
    [] m.role = "assistant" -> Kind(m.blocks, "text") \o Kind(m.blocks, "use")
    [] m.role = "tool" -> << <<"result", m.id, m.blocks[1][2]>> >>
OpenAIMessages(system, msgs) ==
  LET own == [i \in DOMAIN msgs |-> [role |-> msgs[i].role, blocks |-> OpenAIBlocks(msgs[i])]]
  IN IF system = "" THEN own
     ELSE << [role |-> "system", blocks |-> << <<"text", system>> >>] >> \o own

\* The provider a model belongs to, by how its name begins; an unknown one is
\* taken for OpenAI's.
ResolveProvider(begins, hasSlash) ==
  CASE begins = "claude" -> "anthropic"
    [] begins \in {"gpt-", "o1", "o3"} -> "openai"
    [] OTHER -> IF hasSlash THEN "ollama" ELSE "openai"

\* What a message says; a tool says a result.
Says(m) == IF m.role = "tool" THEN << <<"result", m.id, m.blocks[1][2]>> >> ELSE m.blocks

\* Everything said in a conversation is in its request, in its order, except
\* that providers other than Anthropic do not get the results of tools, which
\* run_turn adds as messages of the user.
RequestTellsAll(begins, hasSlash, system, msgs) ==
  LET Spoken(ms) == Flat([i \in DOMAIN ms |-> ms[i].blocks])
      Heeded(m) == IF m.role = "user" THEN Kind(m.blocks, "text") ELSE Says(m)
      first == IF system = "" THEN << >> ELSE << <<"text", system>> >>
  IN IF ResolveProvider(begins, hasSlash) = "anthropic"
       THEN Spoken(AnthropicMessages(msgs)) = Flat([i \in DOMAIN msgs |-> Says(msgs[i])])
     ELSE Spoken(OpenAIMessages(system, msgs))
            = first \o Flat([i \in DOMAIN msgs |-> Heeded(msgs[i])])

-----------------------------------------------------------------------------
(* What a provider sends for an answer [text, calls, stop, in, out].       *)

Sse(name, payload, crlf) ==
  LET eol == IF crlf THEN <<CR, LF>> ELSE <<LF>>
  IN (IF name = NoName THEN << >> ELSE <<Line("event", name)>> \o eol)
       \o <<Line("data", payload)>> \o eol \o eol

AnthropicWire(m, crlf) ==
  LET Ev(n, p) == Sse(n, p, crlf)
      text == IF m.text = << >> THEN << >>
              ELSE Ev("content_block_start", [kind |-> "other"])
                   \o Flat([i \in DOMAIN m.text |->
                              Ev("content_block_delta", [kind |-> "text", text |-> m.text[i]])])
                   \o Ev("content_block_stop", [kind |-> "other"])
      UseOf(c) ==
        Ev("content_block_start", [kind |-> "tool", id |-> c.id, name |-> c.name])
          \o Flat([i \in DOMAIN c.args |->
                     Ev("content_block_delta", [kind |-> "json", json |-> <<c.args[i]>>])])
          \o Ev("content_block_stop", [kind |-> "other"])
  IN text \o Flat([i \in DOMAIN m.calls |-> UseOf(m.calls[i])])
       \o Ev("message_delta", [kind |-> "stop", stop |-> m.stop, in |-> m.in, out |-> m.out])

OpenAIWire(m, crlf) ==
  LET Chunk(usage, choices) ==
        Sse(NoName, [kind |-> "chunk", usage |-> usage, choices |-> choices], crlf)
      Choice(finish, content, calls) ==
        Chunk(<< >>, <<[finish |-> finish, content |-> content, calls |-> calls]>>)
      CallOf(c) ==
        Choice(NoName, "", <<[id |-> c.id, name |-> c.name, args |-> << >>]>>)
          \o Flat([i \in DOMAIN c.args |->
                     Choice(NoName, "", <<[id |-> NoId, name |-> NoName, args |-> <<c.args[i]>>]>>)])
  IN Flat([i \in DOMAIN m.text |-> Choice(NoName, m.text[i], << >>)])
       \o Flat([i \in DOMAIN m.calls |-> CallOf(m.calls[i])])
       \o Choice(m.stop, "", << >>)
       \o Chunk(<<m.in, m.out>>, << >>)

Wire(provider, m, crlf) ==
  IF provider = "anthropic" THEN AnthropicWire(m, crlf) ELSE OpenAIWire(m, crlf)

Heard(provider, chunks) == Response(ChunksOf(provider, Received(chunks)))

IsPrefixOf(s, t) == Len(s) <= Len(t) /\ SubSeq(t, 1, Len(s)) = s

\* However the bytes are cut into reads, and wherever the connection ends: the
\* events are those of the bytes read at once, the text and the calls are what
\* the model had said, in its order, no call has half of its arguments, and an
\* answer that has come to its end is complete.
AnswerIsHeard(provider, m, crlf, cut, end) ==
  LET wire == SubSeq(Wire(provider, m, crlf), 1, end)
      chunks == <<SubSeq(wire, 1, cut), SubSeq(wire, cut + 1, Len(wire))>>
      r == Heard(provider, chunks)
      said == [i \in DOMAIN m.calls |-> [id |-> m.calls[i].id, name |-> m.calls[i].name,
                                         args |-> m.calls[i].args]]
  IN /\ Received(chunks) = Received(<<wire>>)
     /\ r.ok
     /\ IsPrefixOf(r.text, m.text)
     /\ Len(r.calls) <= Len(said)
     /\ \A i \in DOMAIN r.calls :
          /\ r.calls[i].id = said[i].id /\ r.calls[i].name = said[i].name
          /\ r.calls[i].args \in {said[i].args, NullArgs}
     /\ r.stop # "no_done_event" => r.text = m.text /\ r.calls = said
=============================================================================
