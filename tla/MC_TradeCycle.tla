---------------------------- MODULE MC_TradeCycle -----------------------------
(* Instances of TradeCycle for TLC: the assets, the risk limits, and one set *)
(* of tool calls and starting positions per question.                        *)
EXTENDS TradeCycle

BTC == "BTC"
ETH == "ETH"
DOGE == "DOGE"

Market(a, side, usd, reduceOnly) ==
    [tool |-> "place_market_order", asset |-> a, side |-> side, usd |-> usd,
     px |-> 0, reduceOnly |-> reduceOnly]

Limit(a, side, usd, px, reduceOnly) ==
    [tool |-> "place_limit_order", asset |-> a, side |-> side, usd |-> usd,
     px |-> px, reduceOnly |-> reduceOnly]

(* Tools whose arguments do not size an order. *)
Plain(tool, a) == [tool |-> tool, asset |-> a, side |-> "buy", usd |-> 0,
                   px |-> 0, reduceOnly |-> FALSE]

Close(a) == Plain("close_position", a)
Cancel(a) == Plain("cancel_all", a)

(* Limits nothing below reaches, for the questions that are not about caps. *)
LooseRisk == [maxPositionPct |-> 1000, maxTotalPct |-> 1000, maxLeverage |-> 10,
              killSwitchPct |-> -90, minOrder |-> 1]

(* config.yaml's shape: per-asset cap below total cap, leverage above both. *)
TightRisk == [maxPositionPct |-> 30, maxTotalPct |-> 60, maxLeverage |-> 2,
              killSwitchPct |-> -10, minOrder |-> 5]

(* A total cap that binds before two assets reach their own. *)
CapRisk == [TightRisk EXCEPT !.maxTotalPct = 40]

FlatOnly == {[a \in Assets |-> 0]}
LongOrFlat == {[a \in Assets |-> 0], [a \in Assets |-> IF a = BTC THEN 2 ELSE 0]}
LongOnly == {[a \in Assets |-> 2]}

NewDay == {None}

(* Today began before the run, with the equity of the run or far above it.    *)
AnyDay == {None, 140}

NoneResting == {{}}

(* A limit order that an earlier cycle left on the book. *)
OneOrNoneResting ==
    {{}, {[oid |-> 0, asset |-> BTC, lots |-> 1, px |-> 10, reduceOnly |-> FALSE]}}

OneMark == {10}
TwoMarks == {10, 15}

(* One call of every outcome, DOGE being uncorrelated. *)
LogCalls ==
    {Market(BTC, "buy", 10, FALSE), Market(ETH, "buy", 10, FALSE),
     Market(DOGE, "buy", 10, FALSE), Close(BTC), Plain("hold", BTC),
     Plain("unknown", BTC)}

(* Orders within the caps and past them, both ways on correlated assets, a   *)
(* limit order that reduces, and a close.                                    *)
OrderCalls ==
    {Market(BTC, "buy", 20, FALSE), Market(BTC, "sell", 44, FALSE),
     Market(ETH, "buy", 30, FALSE), Limit(BTC, "sell", 30, 10, TRUE), Cancel(BTC),
     Close(BTC)}

(* One order each way and a close, to watch the kill switch trip and release. *)
DayCalls == {Market(BTC, "buy", 10, FALSE), Close(BTC)}

(* A market order that asks to be reduce-only. *)
ReduceCalls == {Market(BTC, side, 20, TRUE) : side \in Sides}
===============================================================================
