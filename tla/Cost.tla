-------------------------------- MODULE Cost ----------------------------------
(***************************************************************************)
(* cost.py: what the rows of token_usage cost.  Rates are in cents per       *)
(* million tokens, costs in millionths of a cent.                            *)
(***************************************************************************)
EXTENDS Integers, Sequences

Rates(input, read, write5m, write1h, output) ==
    [input |-> input, read |-> read, write5m |-> write5m, write1h |-> write1h,
     output |-> output]

Sonnet   == Rates(300, 30, 375, 600, 1500)
Haiku    == Rates(100, 10, 125, 200, 500)
Opus     == Rates(1500, 150, 1875, 3000, 7500)
DeepSeek31 == Rates(20, 0, 0, 0, 80)
DeepSeek32 == Rates(23, 0, 0, 0, 34)

(* PRICING, with the table an unknown model falls back to. *)
RatesOf(model) ==
    CASE model = "claude-haiku-4-5-20251001"   -> Haiku
      [] model = "claude-opus-4-7"             -> Opus
      [] model = "deepseek/deepseek-chat-v3.1" -> DeepSeek31
      [] model = "deepseek/deepseek-v3.2"      -> DeepSeek32
      [] OTHER                                 -> Sonnet

(* The price of tokens by kind at some rates; total_usd of a CostBreakdown.   *)
Price(tokens, rates) ==
    tokens.input * rates.input + tokens.read * rates.read
        + tokens.write5m * rates.write5m + tokens.write1h * rates.write1h
        + tokens.output * rates.output

CostForRow(row) == Price(row.tokens, RatesOf(row.model))

(* The sum over the rows, in their order. *)
Aggregate(rows) ==
    LET total[i \in 0..Len(rows)] ==
            IF i = 0 THEN 0 ELSE total[i - 1] + CostForRow(rows[i])
    IN  total[Len(rows)]
===============================================================================
