------------------------------- MODULE Features -------------------------------
(***************************************************************************)
(* The features of the tree model (features.py), each by the candles it      *)
(* reads: how many there have to be, and how far back from the last one it   *)
(* looks.  Two calls that read the same candles compute the same value, so   *)
(* the value itself is left out.  A feature that is NaN for want of candles   *)
(* reads none; NaN of the data itself (no volume, no variance) is left out.  *)
(***************************************************************************)
EXTENDS Integers

Least(a, b) == IF a <= b THEN a ELSE b

(* More candles than any list holds. *)
WholeList == 100000

(* A feature of the last n candles; Since(n, m) is one that goes on with     *)
(* fewer than it would like.                                                *)
Window(series, n) == [series |-> series, needs |-> n, reach |-> n]
Since(series, least, n) == [series |-> series, needs |-> least, reach |-> n]

return_15m == Window("15m", 1)
return_1h  == Window("15m", 5)
return_4h  == Window("15m", 17)
return_24h == Window("15m", 97)

realized_vol_4h  == Window("15m", 17)
realized_vol_24h == Window("15m", 97)
atr_14           == Window("1h", 15)

ma_cross_5_20  == Window("15m", 20)
ma_cross_12_50 == Window("15m", 50)
slope_4h       == Window("15m", 16)
slope_24h      == Window("15m", 96)
rsi_14         == Window("15m", 15)

(* Mutant: the average is over all the closes there are. *)
macdUncapped == Since("15m", 26, WholeList)

macd             == Since("15m", 26, 100)
macd_signal_diff == Since("15m", 34, 108)

distance_from_vwap_24h == Window("15m", 96)
bollinger_position     == Window("15m", 20)
volume_z_score_24h     == Window("15m", 97)
volume_ratio_4h        == Window("15m", 17)

bar_body_ratio          == Window("15m", 1)
upper_wick_ratio        == Window("15m", 1)
lower_wick_ratio        == Window("15m", 1)
close_position_in_range == Window("15m", 1)

vol_weighted_return_4h     == Window("15m", 17)
signed_volume_imbalance_4h == Window("15m", 16)

consecutive_up_count == Since("15m", 2, 11)
acceleration_4h      == Window("15m", 16)
range_expansion      == Window("1h", 21)

(* What funding_z_24h and oi_change_24h_pct have to go on. *)
funding_z_24h(history) == IF history < 2 THEN 0 ELSE history
oi_change_24h_pct(found) == IF found THEN 1 ELSE 0

CandleFeatures ==
    [r_15m |-> return_15m, r_1h |-> return_1h, r_4h |-> return_4h,
     r_24h |-> return_24h,
     realized_vol_4h |-> realized_vol_4h, realized_vol_24h |-> realized_vol_24h,
     atr_14 |-> atr_14,
     ma_cross_5_20 |-> ma_cross_5_20, ma_cross_12_50 |-> ma_cross_12_50,
     slope_4h |-> slope_4h, slope_24h |-> slope_24h,
     rsi_14 |-> rsi_14, macd |-> macd, macd_signal_diff |-> macd_signal_diff,
     distance_from_vwap_24h |-> distance_from_vwap_24h,
     bollinger_position |-> bollinger_position,
     volume_z_score_24h |-> volume_z_score_24h, volume_ratio_4h |-> volume_ratio_4h,
     bar_body_ratio |-> bar_body_ratio, upper_wick_ratio |-> upper_wick_ratio,
     lower_wick_ratio |-> lower_wick_ratio,
     close_position_in_range |-> close_position_in_range,
     vol_weighted_return_4h |-> vol_weighted_return_4h,
     signed_volume_imbalance_4h |-> signed_volume_imbalance_4h,
     consecutive_up_count |-> consecutive_up_count,
     acceleration_4h |-> acceleration_4h, range_expansion |-> range_expansion]

(* The features that are refilled cycle by cycle after a restart.            *)
HistoryFeatures == {"funding_z_24h", "oi_change_24h_pct"}

FeatureNames == DOMAIN CandleFeatures \cup HistoryFeatures

(* FeatureContext: funding readings kept, and whether a reading of the open  *)
(* interest of a day ago was found.                                          *)
NoContext == [funding |-> 0, oi |-> FALSE]

Reads(w, candles) == IF candles < w.needs THEN 0 ELSE Least(w.reach, candles)

(* build_features: how many candles or readings each feature goes by, of c15  *)
(* 15-minute and c1h hourly candles.  The features of the time of day and the *)
(* funding rate itself are left out.                                         *)
BuildFeatures(c15, c1h, ctx) ==
    [f \in FeatureNames |->
        IF f = "funding_z_24h" THEN funding_z_24h(ctx.funding)
        ELSE IF f = "oi_change_24h_pct" THEN oi_change_24h_pct(ctx.oi)
        ELSE LET w == CandleFeatures[f]
             IN  Reads(w, IF w.series = "15m" THEN c15 ELSE c1h)]
===============================================================================
