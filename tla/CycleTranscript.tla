---------------------------- MODULE CycleTranscript ---------------------------
(***************************************************************************)
(* The conversation of a trading cycle with its model: the loop of run_cycle *)
(* (agent.py) through the provider that was built for the cycle              *)
(* (llm_provider.py), and what run_one_cycle (main.py) keeps of it: the calls *)
(* and their outcomes in decisions, the tokens in token_usage, which the      *)
(* dashboard prices (cost.py).                                               *)
(*                                                                          *)
(* The model is the environment: any reply of Replies, any usage of Usages.   *)
(* What a call does to the account is TradeCycle's subject; here it is        *)
(* accepted, rejected, or raises.                                            *)
(***************************************************************************)
EXTENDS LlmWire, Cost, FiniteSets

CONSTANTS Models,    \* bound: the models a cycle may be configured with
          Provider,  \* the provider that serves a model
          Replies,   \* bound: what a provider's API may answer
          Usages,    \* bound: the tokens it may bill
          ListPrice, \* what a token of each kind costs with a model, as it is sold
          MaxTurns,  \* agent.MAX_TURNS
          MaxCycles  \* bound: cycles of a run

ASSUME ModelsAssumption ==
    /\ Provider \in [Models -> {"anthropic", "openrouter"}]
    /\ MaxTurns \in Nat \ {0} /\ MaxCycles \in Nat

TokenType == [input : Nat, read : Nat, write5m : Nat, write1h : Nat, output : Nat]

ASSUME UsagesAssumption ==
    \A p \in {"anthropic", "openrouter"} : Usages[p] \subseteq TokenType

(* The price list is not cost.py's table: a model the table has no rates for    *)
(* costs at most what the table falls back to ("conservative rather than zero",  *)
(* cost.py:87), and a write to the cache that lives longer is not cheaper.       *)
ASSUME PricesAssumption ==
    /\ ListPrice \in [Models -> TokenType]
    /\ \A m \in Models :
          /\ ListPrice[m].write5m <= ListPrice[m].write1h
          /\ \A kind \in DOMAIN ListPrice[m] : ListPrice[m][kind] <= RatesOf(m)[kind]

(* What the two APIs answer in. *)
Arguments == {"object", "list", "garbage"}

AnthropicReply ==
    [stop : STRING,
     blocks : Seq([type : {"text"}]
                  \cup [type : {"tool_use"}, name : STRING, args : Arguments])]

OpenAIReply ==
    [finish : STRING, text : BOOLEAN, calls : Seq([name : STRING, args : Arguments])]

ASSUME RepliesAssumption ==
    /\ Replies["anthropic"] \subseteq AnthropicReply
    /\ Replies["openrouter"] \subseteq OpenAIReply

VARIABLES
    \* the locals of run_one_cycle and run_cycle
    pc, model, turn, messages, reply, todo, results, actions, usage,
    \* the request under way
    request,
    \* SQLite: the last decisions row, token_usage
    decision, usageRows,
    \* history: the bill of the running cycle, that of the cycles that have a row,
    \* and what the rows may miss of it; bound: cycles so far
    spent, billed, doubt, cycles

convo  == <<messages, reply, todo, results, request>>
tables == <<decision, usageRows>>
money  == <<spent, billed, doubt>>
vars   == <<pc, model, turn, convo, actions, usage, tables, money, cycles>>

NoTokens == [input |-> 0, read |-> 0, creation |-> 0, write5m |-> 0,
             write1h |-> 0, output |-> 0]

NoReply == [stop |-> "", blocks |-> <<>>]

ToolUses == OfType(reply.blocks, "tool_use")

HoldOnly == \A i \in DOMAIN ToolUses : ToolUses[i].name = "hold"

Action(name, accepted, inferred) ==
    [name |-> name, accepted |-> accepted, inferred |-> inferred]

-------------------------------------------------------------------------------
(* Tokens. *)

(* What resp.usage reports of the tokens billed: one response splits its writes *)
(* to the cache by lifetime, the next may give their sum only.                   *)
Reported(tokens, split) ==
    [input |-> tokens.input, read |-> tokens.read, output |-> tokens.output,
     creation |-> tokens.write5m + tokens.write1h,
     write5m |-> IF split THEN tokens.write5m ELSE 0,
     write1h |-> IF split THEN tokens.write1h ELSE 0]

AddUsage(total, u) == [k \in DOMAIN total |-> total[k] + u[k]]

(* Mutant: what is not split is not attributed to either lifetime. *)
RowTokensNoFallback(total) ==
    [k \in {"input", "read", "write5m", "write1h", "output"} |-> total[k]]

(* The columns of a token_usage row: if no response of the cycle split its      *)
(* writes they all count as 5m; if one did, those not split are in no column.    *)
RowTokens(total) ==
    [input |-> total.input, read |-> total.read, output |-> total.output,
     write1h |-> total.write1h,
     write5m |-> IF total.write5m + total.write1h = 0 THEN total.creation
                 ELSE total.write5m]

UsageRow == [model |-> model, tokens |-> RowTokens(usage)]

(* What the API bills for a call, each token at its price and each write to the  *)
(* cache at the lifetime it has, told or not.                                   *)
Bill(tokens) == Price(tokens, ListPrice[model])

(* What a row may miss of its cycle: writes whose lifetime was not told may have *)
(* been 1h, which are booked as 5m, or not at all beside others that were told.  *)
NotTold(total) == total.creation - (total.write5m + total.write1h)

Doubt(total) ==
    NotTold(total) * (ListPrice[model].write1h -
        (IF total.write5m + total.write1h = 0 THEN ListPrice[model].write5m ELSE 0))

-------------------------------------------------------------------------------
Init ==
    /\ pc = "idle" /\ model \in Models /\ turn = 0
    /\ messages = <<>> /\ reply = NoReply /\ todo = <<>> /\ results = <<>>
    /\ request = <<>> /\ actions = <<>> /\ usage = NoTokens
    /\ decision = <<>> /\ usageRows = <<>>
    /\ spent = 0 /\ billed = 0 /\ doubt = 0 /\ cycles = 0

(* effective_model, build_provider, and the first message: the context.       *)
BeginCycle ==
    /\ pc = "idle" /\ cycles < MaxCycles
    /\ cycles' = cycles + 1
    /\ model' \in Models
    /\ messages' = <<Message("user", <<Text("context")>>)>>
    /\ pc' = "ask"
    /\ UNCHANGED <<turn, reply, todo, results, request, actions, usage, tables, money>>

(* provider.complete translates the whole conversation and sends it.          *)
Ask ==
    /\ pc = "ask" /\ turn < MaxTurns
    /\ turn' = turn + 1
    /\ request' = Wire(Provider[model], messages)
    /\ pc' = "wait"
    /\ UNCHANGED <<model, messages, reply, todo, results, actions, usage,
                   tables, money, cycles>>

(* The reply is billed, translated and appended to the conversation; ids are  *)
(* the API's, new for every call.                                            *)
Receive ==
    /\ pc = "wait"
    /\ \E r \in Replies[Provider[model]], tokens \in Usages[Provider[model]],
          split \in BOOLEAN :
             /\ reply' = Response(Provider[model], r, turn)
             /\ usage' = AddUsage(usage, Reported(tokens, split))
             /\ spent' = spent + Bill(tokens)
    /\ messages' = Append(messages, Message("assistant", reply'.blocks))
    /\ todo' = ToolUses' /\ results' = <<>>
    /\ pc' = IF todo' = <<>> THEN "infer" ELSE "apply"
    /\ UNCHANGED <<model, turn, request, actions, tables, billed, doubt,
                   cycles>>

(* Mutant: a text that follows tool calls adds nothing to the actions. *)
InferFirstOnly ==
    /\ pc = "infer"
    /\ actions' = IF turn = 1 THEN Append(actions, Action("hold", TRUE, TRUE)) ELSE actions
    /\ pc' = "decide"
    /\ UNCHANGED <<model, turn, convo, usage, tables, money, cycles>>

(* No call in the reply: a hold is inferred, and the loop ends.               *)
InferHold ==
    /\ pc = "infer"
    /\ actions' = Append(actions, Action("hold", TRUE, TRUE))
    /\ pc' = "decide"
    /\ UNCHANGED <<model, turn, convo, usage, tables, money, cycles>>

(* The tool_result of a call, "ok" or "REJECTED". *)
ResultOf(call, accepted) == <<ToolResult(call.id, accepted)>>

(* The next call of the reply.  A hold is always accepted; arguments that are *)
(* JSON but no object raise, as in Abort.                                    *)
Apply ==
    /\ pc = "apply" /\ todo # <<>>
    /\ LET call == Head(todo)
       IN  /\ call.args # "list"
           /\ \E accepted \in (IF call.name = "hold" THEN {TRUE} ELSE BOOLEAN) :
                 /\ actions' = Append(actions, Action(call.name, accepted, FALSE))
                 /\ results' = results \o ResultOf(call, accepted)
    /\ todo' = Tail(todo)
    /\ UNCHANGED <<pc, model, turn, messages, reply, request, usage, tables,
                   money, cycles>>

(* Holds only: the results are not sent.  Otherwise they are appended, and    *)
(* the model is asked again unless it stopped for another reason.             *)
EndTurn ==
    /\ pc = "apply" /\ todo = <<>>
    /\ \/ HoldOnly /\ pc' = "decide" /\ messages' = messages
       \/ /\ ~HoldOnly
          /\ messages' = Append(messages, Message("user", results))
          /\ pc' = IF reply.stop = "tool_use" THEN "ask" ELSE "decide"
    /\ UNCHANGED <<model, turn, reply, todo, results, request, actions, usage,
                   tables, money, cycles>>

TurnsUsedUp ==
    /\ pc = "ask" /\ turn = MaxTurns
    /\ pc' = "decide"
    /\ UNCHANGED <<model, turn, convo, actions, usage, tables, money, cycles>>

LogDecision ==
    /\ pc = "decide"
    /\ decision' = actions
    /\ pc' = "usage"
    /\ UNCHANGED <<model, turn, convo, actions, usage, usageRows, money, cycles>>

(* The locals of the loop, once the cycle is over. *)
LocalsGone ==
    /\ pc' = "idle" /\ turn' = 0
    /\ messages' = <<>> /\ reply' = NoReply /\ todo' = <<>> /\ results' = <<>>
    /\ request' = <<>> /\ actions' = <<>> /\ usage' = NoTokens /\ spent' = 0

LogTokenUsage ==
    /\ pc = "usage"
    /\ usageRows' = Append(usageRows, UsageRow)
    /\ billed' = billed + spent /\ doubt' = doubt + Doubt(usage)
    /\ LocalsGone
    /\ UNCHANGED <<model, decision, cycles>>

(* A call, a database write or the process fails: what the cycle was billed is  *)
(* in no row.                                                                  *)
Abort ==
    /\ pc # "idle"
    /\ LocalsGone
    /\ UNCHANGED <<model, tables, billed, doubt, cycles>>

Next ==
    \/ BeginCycle \/ Ask \/ Receive \/ InferHold \/ Apply \/ EndTurn
    \/ TurnsUsedUp \/ LogDecision \/ LogTokenUsage \/ Abort

Spec == Init /\ [][Next]_vars

-------------------------------------------------------------------------------
(* Properties. *)

(* Both APIs refuse a conversation in which a call is not answered, once and   *)
(* in its place, before the assistant speaks again: none that is sent is, in   *)
(* either shape, whatever the model replied and the executor rejected.         *)
EveryCallAnswered == EachCallAnswered(request)

(* Within a cycle a request repeats the one before it, down to the marks for   *)
(* the prompt cache, and goes on from there: "call 2+ doesn't re-bill the user *)
(* text" (llm_provider.py:170).                                              *)
RequestsExtend ==
    [][request # <<>> /\ pc' # "idle" => IsPrefix(request, request')]_vars

(* A decision row tells every call the model made, in the order it made them,  *)
(* with a hold at the end exactly when its last reply made none: what was      *)
(* rejected, or was not answered because the loop ended, included.            *)
CallsMade ==
    FlattenSeq([i \in DOMAIN messages |-> OfType(messages[i].blocks, "tool_use")])

DecisionTellsEveryCall ==
    pc = "usage" =>
        LET told == IF ToolUses = <<>> THEN Front(decision) ELSE decision
        IN  /\ decision # <<>>
            /\ [i \in DOMAIN told |-> told[i].name] =
               [i \in DOMAIN CallsMade |-> CallsMade[i].name]
            /\ \A i \in DOMAIN decision :
                  decision[i].inferred <=> i = Len(decision) /\ ToolUses = <<>>

(* Across cycles on different models and providers, what the dashboard adds up  *)
(* from token_usage never falls short of the bills of the cycles that have a row  *)
(* by more than the doubt their responses left about the writes to the cache, and  *)
(* exceeds them only where cost.py falls back for want of the model's rates: if    *)
(* every response splits its writes and every model is listed, it is exact.        *)
Listed(m) == ListPrice[m] = RatesOf(m)

SpendIsBooked ==
    /\ billed <= Aggregate(usageRows) + doubt
    /\ (\A i \in DOMAIN usageRows : Listed(usageRows[i].model))
          => Aggregate(usageRows) <= billed
===============================================================================
