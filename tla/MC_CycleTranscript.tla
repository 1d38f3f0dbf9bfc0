-------------------------- MODULE MC_CycleTranscript --------------------------
(* The instance of CycleTranscript for TLC: one model of each provider and    *)
(* one cost.py has no rates for, and for each provider replies of every kind   *)
(* the loop tells apart.                                                     *)
EXTENDS CycleTranscript

Served ==
    [m \in {"claude-opus-4-7", "deepseek/deepseek-v3.2", "unknown"} |->
        IF m = "claude-opus-4-7" THEN "anthropic" ELSE "openrouter"]

AText == [type |-> "text"]
ACall(name) == [type |-> "tool_use", name |-> name, args |-> "object"]
OCall(name, args) == [name |-> name, args |-> args]

AnthropicReplies ==
    [stop : {"end_turn"}, blocks : {<<>>, <<AText>>, <<AText, ACall("hold")>>}]
    \cup [stop : {"tool_use"},
          blocks : {<<AText, ACall("order"), ACall("order")>>,
                    <<ACall("hold"), AText, ACall("order")>>}]
    \cup [stop : {"max_tokens"}, blocks : {<<ACall("order")>>}]

OpenAIReplies ==
    {[text |-> TRUE, calls |-> <<>>, finish |-> "stop"],
     [text |-> TRUE, calls |-> <<OCall("hold", "object")>>, finish |-> "tool_calls"],
     [text |-> TRUE, calls |-> <<OCall("order", "object"), OCall("order", "garbage")>>,
      finish |-> "tool_calls"],
     [text |-> FALSE, calls |-> <<OCall("order", "object"), OCall("order", "list")>>,
      finish |-> "tool_calls"],
     [text |-> FALSE, calls |-> <<OCall("order", "object")>>, finish |-> "stop"]}

SomeReplies == [anthropic |-> AnthropicReplies, openrouter |-> OpenAIReplies]

Tokens(input, read, write5m, write1h, output) ==
    [input |-> input, read |-> read, write5m |-> write5m, write1h |-> write1h,
     output |-> output]

(* A call writes the cache, some of it for an hour, or reads it; the other       *)
(* provider reports neither.                                                   *)
SomeUsages ==
    [anthropic  |-> {Tokens(1, 0, 2, 3, 1), Tokens(1, 4, 0, 0, 1)},
     openrouter |-> {Tokens(6, 0, 0, 0, 1)}]

(* Cents per million tokens; the last has no rates in cost.py. *)
Prices ==
    [m \in DOMAIN Served |->
        IF m = "claude-opus-4-7" THEN Tokens(1500, 150, 1875, 3000, 7500)
        ELSE IF m = "deepseek/deepseek-v3.2" THEN Tokens(23, 0, 0, 0, 34)
        ELSE Tokens(40, 0, 0, 0, 120)]
===============================================================================
