------------------------------- MODULE RiskGate -------------------------------
(***************************************************************************)
(* The pre-trade risk gate of src/hl_agent/risk.py as pure operators.       *)
(*                                                                          *)
(* Money and coin sizes are integers in the smallest unit an instance needs *)
(* and fractions are integer percents.  The Python code computes the same   *)
(* comparisons on floats; only their order on exact values is modelled.     *)
(*                                                                          *)
(* An account is [equity, positions, orders]: positions maps every asset to *)
(* [size, basis, value] where size is the signed coin size, basis the       *)
(* signed notional at the entry price (size * entry_px) and value the       *)
(* unsigned notional at the mark (position_value_usd).  An asset without a  *)
(* position has size 0.  orders is the set of resting orders, each a record *)
(* with an asset field.                                                     *)
(***************************************************************************)
EXTENDS Integers, Functions

CONSTANTS Assets,          \* every asset the exchange may report
          AllowedAssets    \* settings.config.assets

ASSUME AllowedAssetsAssumption == AllowedAssets \subseteq Assets

Percent == 100

Sides == {"buy", "sell"}

Abs(n) == IF n < 0 THEN -n ELSE n

(* The notional an order of usd adds to a signed position. *)
Signed(side, usd) == IF side = "buy" THEN usd ELSE -usd

HasPosition(account, a) == account.positions[a].size # 0

(* The drop from the day's first equity has reached the configured percent. *)
KillSwitchActive(account, starting, risk) ==
    /\ starting > 0
    /\ (account.equity - starting) * Percent <= risk.killSwitchPct * starting

CurrentNotional(account, a) ==
    IF HasPosition(account, a) THEN account.positions[a].value ELSE 0

(* Mutant: the sign of the new notional is kept, so no short is ever large. *)
NewNotionalSigned(account, a, side, usd) ==
    (IF HasPosition(account, a) THEN account.positions[a].basis ELSE 0)
        + Signed(side, usd)

(* The notional the gate expects after the order: the entry-priced notional *)
(* of the position plus the order, while CurrentNotional is mark-priced.    *)
NewNotional(account, a, side, usd) ==
    Abs((IF HasPosition(account, a) THEN account.positions[a].basis ELSE 0)
        + Signed(side, usd))

OtherNotional(account, a) ==
    SumFunctionOnSet([b \in Assets |-> account.positions[b].value], Assets \ {a})

WithinAssetCap(account, risk, a, side, usd) ==
    LET new == NewNotional(account, a, side, usd)
    IN  new > CurrentNotional(account, a)
            => new * Percent <= account.equity * risk.maxPositionPct

NewTotal(account, a, side, usd) ==
    OtherNotional(account, a) + NewNotional(account, a, side, usd)

(* Mutant: the total without the asset being traded. *)
WithinTotalCapOthersOnly(account, risk, a, side, usd) ==
    OtherNotional(account, a) * Percent <= account.equity * risk.maxTotalPct

WithinTotalCap(account, risk, a, side, usd) ==
    NewTotal(account, a, side, usd) * Percent
        <= account.equity * risk.maxTotalPct

WithinLeverage(account, risk, a, side, usd) ==
    NewTotal(account, a, side, usd) <= account.equity * risk.maxLeverage

(* Mutant: check_open_or_increase never asks the kill switch. *)
CheckWithoutKillSwitch(account, starting, risk, a, side, usd) ==
    /\ a \in AllowedAssets
    /\ side \in Sides
    /\ usd >= risk.minOrder
    /\ account.equity > 0
    /\ WithinAssetCap(account, risk, a, side, usd)
    /\ WithinTotalCap(account, risk, a, side, usd)
    /\ WithinLeverage(account, risk, a, side, usd)

(* check_open_or_increase: every early return is a conjunct. *)
CheckOpenOrIncrease(account, starting, risk, a, side, usd) ==
    /\ a \in AllowedAssets
    /\ side \in Sides
    /\ usd >= risk.minOrder
    /\ account.equity > 0
    /\ ~KillSwitchActive(account, starting, risk)
    /\ WithinAssetCap(account, risk, a, side, usd)
    /\ WithinTotalCap(account, risk, a, side, usd)
    /\ WithinLeverage(account, risk, a, side, usd)

CheckClose(account, a) == HasPosition(account, a)

CheckCancel(account, a) == \E o \in account.orders : o.asset = a
===============================================================================
