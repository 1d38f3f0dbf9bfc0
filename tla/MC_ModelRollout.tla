---------------------------- MODULE MC_ModelRollout ----------------------------
(* The instance of ModelRollout for TLC: windows of a few bars, files with    *)
(* one outage of the exchange at any place, of any length.                   *)
EXTENDS ModelRollout

CONSTANT Bars   \* bars after the warm-up

(* The bars from the first one after the warm-up on, but for an outage.       *)
WithOutage(a, b) ==
    LET Kept(bar) == bar - WarmupBars \notin a..b
    IN  SelectSeq([n \in 1..Bars |-> WarmupBars + n - 1], Kept)

OneOutage == {WithOutage(a, b) : a, b \in 0..Bars}

WholeFile == {WithOutage(1, 0)}

(* The hourly file is complete, or its pull broke off where the warm-up ends. *)
HoursOrCut == {(WarmupBars + Bars) \div 4, WarmupBars \div 4}

(* The buffers just after a restart, or refilled. *)
JustRestarted == {[funding |-> 1, oi |-> FALSE]}

Refilled == {[funding |-> 2, oi |-> TRUE]}
===============================================================================
