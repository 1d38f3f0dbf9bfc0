---------------------------- MODULE MC_TpSlMonitor ----------------------------
(* Instances of TpSlMonitor for TLC. *)
EXTENDS TpSlMonitor

TwoChecks == [k \in Kinds |-> 2]
LossAndProfit == {-1, 1}
OffOrOne == {0, 1}
===============================================================================
