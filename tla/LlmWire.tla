------------------------------- MODULE LlmWire --------------------------------
(***************************************************************************)
(* What llm_provider.py puts on the wire and takes off it.  The agent keeps  *)
(* its messages in the shape of Anthropic's API: a role and a sequence of    *)
(* blocks.  A text is its name, the contents of calls and results are left   *)
(* out but for whether a call's arguments could be read.                     *)
(***************************************************************************)
EXTENDS Integers, SequencesExt

Text(name) == [type |-> "text", id |-> name]

ToolUse(id, name, args) ==
    [type |-> "tool_use", id |-> id, name |-> name, args |-> args]

ToolResult(id, accepted) ==
    [type |-> "tool_result", id |-> id, accepted |-> accepted]

Message(role, blocks) == [role |-> role, blocks |-> blocks, cached |-> FALSE]

(* The blocks of one type, in their order. *)
OfType(blocks, type) ==
    LET kept[i \in 0..Len(blocks)] ==
            IF i = 0 THEN <<>>
            ELSE IF blocks[i].type = type THEN Append(kept[i - 1], blocks[i])
            ELSE kept[i - 1]
    IN  kept[Len(blocks)]

-------------------------------------------------------------------------------
(* AnthropicProvider. *)

(* Mutant: the mark for the cache moves with the conversation. *)
WrapLastForCache(messages) ==
    [i \in DOMAIN messages |-> [messages[i] EXCEPT !.cached = (i = Len(messages))]]

(* _wrap_first_user_for_anthropic_cache: the first message, the one whose     *)
(* content is a plain string, is marked for the prompt cache.                *)
WrapFirstForCache(messages) ==
    [i \in DOMAIN messages |-> [messages[i] EXCEPT !.cached = (i = 1)]]

(* The response is passed on as it came; a block is named by its turn and place. *)
FromAnthropic(reply, turn) ==
    [stop   |-> reply.stop,
     blocks |-> [i \in DOMAIN reply.blocks |->
                    LET b == reply.blocks[i]
                    IN  IF b.type = "text" THEN Text(<<turn, i>>)
                        ELSE ToolUse(<<turn, i>>, b.name, b.args)]]

-------------------------------------------------------------------------------
(* OpenAICompatibleProvider. *)

(* A message of results becomes one message of role tool per result, and one  *)
(* of the user if it has text too.                                           *)
UserToOpenAI(blocks) ==
    LET results == OfType(blocks, "tool_result")
        texts   == OfType(blocks, "text")
    IN  [i \in DOMAIN results |-> Message("tool", <<results[i]>>)]
            \o (IF texts = <<>> THEN <<>> ELSE <<Message("user", texts)>>)

(* Mutant: an assistant message with text loses its calls. *)
AssistantTextOrCalls(blocks) ==
    LET texts == OfType(blocks, "text")
    IN  <<Message("assistant", IF texts # <<>> THEN texts ELSE OfType(blocks, "tool_use"))>>

(* The texts are joined and go first, the calls follow.                      *)
AssistantToOpenAI(blocks) ==
    <<Message("assistant", OfType(blocks, "text") \o OfType(blocks, "tool_use"))>>

(* _anthropic_messages_to_openai. *)
ToOpenAI(messages) ==
    <<Message("system", <<Text("system")>>)>> \o
    FlattenSeq([i \in DOMAIN messages |->
        IF messages[i].role = "assistant" THEN AssistantToOpenAI(messages[i].blocks)
        ELSE UserToOpenAI(messages[i].blocks)])

(* What json.loads makes of a call's arguments: text that is not JSON counts  *)
(* as no arguments at all.                                                   *)
ReadArguments(args) == IF args = "garbage" THEN "empty" ELSE args

(* The text, if any, then the calls; finish_reason in Anthropic's words.      *)
FromOpenAI(reply, turn) ==
    [stop   |-> IF reply.finish = "tool_calls" THEN "tool_use" ELSE reply.finish,
     blocks |-> (IF reply.text THEN <<Text(<<turn, 0>>)>> ELSE <<>>) \o
                [i \in DOMAIN reply.calls |->
                    ToolUse(<<turn, i>>, reply.calls[i].name, ReadArguments(reply.calls[i].args))]]

-------------------------------------------------------------------------------
(* build_provider: what goes out and what comes back, by provider.           *)

Wire(provider, messages) ==
    IF provider = "anthropic" THEN WrapFirstForCache(messages) ELSE ToOpenAI(messages)

Response(provider, reply, turn) ==
    IF provider = "anthropic" THEN FromAnthropic(reply, turn) ELSE FromOpenAI(reply, turn)

-------------------------------------------------------------------------------
(* What both APIs demand of a conversation. *)

Ids(blocks) == [i \in DOMAIN blocks |-> blocks[i].id]

CallsOf(message) == Ids(OfType(message.blocks, "tool_use"))

(* The results sent after message i and before the assistant's next one.     *)
ResultsAfter(messages, i) ==
    LET turn == {j \in DOMAIN messages :
                    j > i /\ \A k \in (i + 1)..j : messages[k].role # "assistant"}
        end  == Cardinality(turn) + i
    IN  Ids(OfType(FlattenSeq([j \in 1..(end - i) |-> messages[i + j].blocks]),
                   "tool_result"))

EachCallAnswered(messages) ==
    \A i \in DOMAIN messages :
        messages[i].role = "assistant" => ResultsAfter(messages, i) = CallsOf(messages[i])
===============================================================================
