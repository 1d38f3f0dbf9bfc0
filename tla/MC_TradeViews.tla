---------------------------- MODULE MC_TradeViews -----------------------------
(* The instance of TradeViews for TLC. *)
EXTENDS TradeViews

(* A window may begin flat, long or short. *)
AnyStart == {-2, 0, 1}
===============================================================================
