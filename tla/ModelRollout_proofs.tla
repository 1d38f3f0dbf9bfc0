-------------------------- MODULE ModelRollout_proofs --------------------------
(***************************************************************************)
(* Proofs about TreeTraining, for every file with every gap, all windows and *)
(* all least sizes of the slices that the assumption on them allows, and      *)
(* about ModelRollout, which runs it beside deployments: for any number of     *)
(* trainings and deployments, whatever files they train on.                   *)
(***************************************************************************)
EXTENDS ModelRollout, FiniteSetTheorems, TLAPS

(* The walk over the folds of a training. *)

FoldType == [start : Nat, train : SUBSET Nat, val : SUBSET Nat, test : SUBSET Nat]

(* The fold of the window at s, of the bars b. *)
WindowOf(b, s) ==
    LET Within(from, to) ==
            {k \in 1..(Len(b) - LabelHorizon) : from <= b[k] + 1 /\ b[k] + 1 < to}
    IN  [start |-> s,
         train |-> Within(s, s + TrainSpan),
         val   |-> Within(s + TrainSpan, s + TrainSpan + ValSpan),
         test  |-> Within(s + TrainSpan + ValSpan, s + TrainSpan + ValSpan + TestSpan)]

Ascending ==
    /\ bars \in Seq(Nat)
    /\ \A i, j \in 1..Len(bars) : i < j => bars[i] < bars[j]

(* What each fold found so far is, and how the windows follow each other.     *)
FoldsAreWindows ==
    /\ folds \in Seq(FoldType)
    /\ \A i \in DOMAIN folds :
          /\ folds[i] = WindowOf(bars, folds[i].start)
          /\ Enough(folds[i])
          /\ folds[i].start + StepSpan <= start
    /\ \A i, j \in DOMAIN folds :
          i < j => folds[i].start + StepSpan <= folds[j].start

WalkInv ==
    /\ step \in {"idle", "load", "matrix", "folds", "fit"}
    /\ Ascending
    /\ start \in Nat
    /\ FoldsAreWindows
    /\ step \in {"idle", "load", "matrix"} => folds = <<>>

-------------------------------------------------------------------------------
LEMMA FoldIsWindow == \A s : Fold(s) = WindowOf(bars, s)
BY DEF Fold, WindowOf, Slice, Rows, Ts

(* A fold has a start in time, and its position in the walk is a number.      *)
LEMMA FoldTypes ==
    ASSUME FoldsAreWindows, NEW i \in DOMAIN folds
    PROVE  /\ folds[i] \in FoldType /\ folds[i].start \in Nat
           /\ folds[i] = WindowOf(bars, folds[i].start)
           /\ Enough(folds[i])
           /\ folds[i].start + StepSpan <= start
<1>1. folds \in Seq(FoldType)
  BY DEF FoldsAreWindows
<1>2. folds[i] \in FoldType
  BY <1>1
<1>3. folds[i].start \in Nat
  BY <1>2 DEF FoldType
<1>. QED  BY <1>2, <1>3 DEF FoldsAreWindows

(* Rows that are earlier in time are earlier in the file.                     *)
LEMMA RowOrder ==
    ASSUME Ascending, NEW j \in Rows, NEW k \in Rows
    PROVE  /\ j \in 1..Len(bars) /\ k \in 1..Len(bars)
           /\ Ts(j) \in Nat
           /\ Ts(j) < Ts(k) => j < k
<1>1. LabelHorizon \in Nat /\ Len(bars) \in Nat
  BY TrainingAssumption DEF TrainingAssumption, Ascending
<1>2. j \in 1..Len(bars) /\ k \in 1..Len(bars)
  BY <1>1 DEF Rows
<1>3. bars[j] \in Nat /\ bars[k] \in Nat
  BY <1>2 DEF Ascending
<1>4. k < j => bars[k] < bars[j]
  BY <1>2 DEF Ascending
<1>. QED  BY <1>2, <1>3, <1>4 DEF Ts

(* A row of a later window stands later in the file.                          *)
LEMMA SliceOrder ==
    ASSUME Ascending, NEW a \in Nat, NEW b \in Nat, NEW c \in Nat, NEW d \in Nat,
           b <= c, NEW j \in Slice(a, b), NEW k \in Slice(c, d)
    PROVE  j \in Nat /\ k \in Nat /\ j < k
<1>1. j \in Rows /\ k \in Rows /\ Ts(j) < b /\ c <= Ts(k)
  BY DEF Slice
<1>2. Ts(j) \in Nat /\ Ts(k) \in Nat /\ j \in Nat /\ k \in Nat
  BY <1>1, RowOrder
<1>3. Ts(j) < Ts(k)
  BY <1>1, <1>2
<1>. QED  BY <1>1, <1>2, <1>3, RowOrder

(* The slices of a fold are numbers of rows. *)
LEMMA FoldIsTyped ==
    ASSUME NEW s \in Nat
    PROVE  Fold(s) \in FoldType /\ Fold(s).start = s
<1>1. \A a, b : Slice(a, b) \subseteq Nat
  BY DEF Slice, Rows
<1>. QED  BY <1>1 DEF Fold, FoldType

(* Within a fold training comes before validation, validation before testing. *)
LEMMA FoldOrder ==
    ASSUME Ascending, NEW s \in Nat
    PROVE  /\ \A j \in Fold(s).train, k \in Fold(s).val :
                 j \in Nat /\ k \in Nat /\ j < k
           /\ \A j \in Fold(s).val, k \in Fold(s).test :
                 j \in Nat /\ k \in Nat /\ j < k
           /\ \A j \in Fold(s).train, k \in Fold(s).test :
                 j \in Nat /\ k \in Nat /\ j < k
<1> DEFINE a == s + TrainSpan
           b == s + TrainSpan + ValSpan
           c == s + TrainSpan + ValSpan + TestSpan
<1>1. a \in Nat /\ b \in Nat /\ c \in Nat /\ a <= b
  BY TrainingAssumption DEF TrainingAssumption
<1>2. Fold(s).train = Slice(s, a) /\ Fold(s).val = Slice(a, b) /\ Fold(s).test = Slice(b, c)
  BY DEF Fold
<1> HIDE DEF a, b, c
<1>3. \A j \in Slice(s, a), k \in Slice(a, b) : j \in Nat /\ k \in Nat /\ j < k
  BY <1>1, SliceOrder
<1>4. \A j \in Slice(a, b), k \in Slice(b, c) : j \in Nat /\ k \in Nat /\ j < k
  BY <1>1, SliceOrder
<1>5. \A j \in Slice(s, a), k \in Slice(b, c) : j \in Nat /\ k \in Nat /\ j < k
  BY <1>1, SliceOrder
<1>. QED  BY <1>2, <1>3, <1>4, <1>5

(* The rows of a validation slice lie between training and testing, and there  *)
(* are more of them than a label looks ahead.                                *)
LEMMA ValidationSeparates ==
    ASSUME Ascending, NEW s \in Nat, Enough(Fold(s)),
           NEW k \in Fold(s).train, NEW t \in Fold(s).test
    PROVE  k + LabelHorizon < t
<1>1. k \in Nat /\ t \in Nat /\ k < t
  BY FoldOrder
<1>2. LabelHorizon \in Nat /\ MinVal \in Nat /\ LabelHorizon <= MinVal + 1
  BY TrainingAssumption DEF TrainingAssumption
<1>3. SUFFICES ASSUME t <= k + LabelHorizon
               PROVE  FALSE
  BY <1>1, <1>2
<1> DEFINE between == (k + 1) .. (t - 1)
<1>4. Fold(s).val \subseteq between
  BY <1>1, FoldOrder
<1>5. IsFiniteSet(between) /\ Cardinality(between) <= t - 1 - k
  <2>1. k + 1 \in Int /\ t - 1 \in Int
    BY <1>1
  <2>2. /\ IsFiniteSet(between)
        /\ Cardinality(between)
             = IF k + 1 > t - 1 THEN 0 ELSE (t - 1) - (k + 1) + 1
    BY <2>1, FS_Interval
  <2> HIDE DEF between
  <2>. QED  BY <1>1, <2>2
<1> HIDE DEF between
<1>6. IsFiniteSet(Fold(s).val) /\ Cardinality(Fold(s).val) <= Cardinality(between)
  BY <1>4, <1>5, FS_Subset
<1>7. Cardinality(Fold(s).val) \in Nat /\ Cardinality(between) \in Nat
  BY <1>5, <1>6, FS_CardinalityType
<1>8. Cardinality(Fold(s).val) > MinVal
  BY DEF Enough
<1>. QED  BY <1>1, <1>2, <1>3, <1>5, <1>6, <1>7, <1>8

-------------------------------------------------------------------------------
LEMMA WalkInit == Init => WalkInv
BY DEF Init, WalkInv, Ascending, FoldsAreWindows

LEMMA WalkExit ==
    ASSUME Exit
    PROVE  WalkInv'
BY DEF Exit, WalkInv, Ascending, FoldsAreWindows

(* One more window: it starts where the walk stands, after all before it.     *)
LEMMA WalkNextFold ==
    ASSUME WalkInv, NextFold
    PROVE  WalkInv'
<1>1. /\ step = "folds" /\ step' = "folds" /\ bars' = bars
      /\ start' = start + StepSpan
  BY DEF NextFold
<1>2. start \in Nat /\ StepSpan \in Nat \ {0}
  BY TrainingAssumption DEF WalkInv, TrainingAssumption
<1>3. start' \in Nat /\ start' = start + StepSpan
  BY <1>1, <1>2
<1>4. Ascending' /\ Ascending
  BY <1>1 DEF WalkInv, Ascending
<1>5. FoldsAreWindows'
  <2>1. CASE folds' = folds
    <3>1. \A i \in DOMAIN folds : folds[i].start + StepSpan <= start'
      BY <1>2, <1>3, FoldTypes DEF WalkInv
    <3>. QED  BY <1>1, <2>1, <3>1 DEF WalkInv, FoldsAreWindows
  <2>2. CASE Enough(Fold(start)) /\ folds' = Append(folds, Fold(start))
    <3> DEFINE n == Len(folds)
               f == WindowOf(bars, start)
    <3>1. Fold(start) = f
      BY FoldIsWindow
    <3>2. f \in FoldType /\ f.start = start /\ Enough(f)
      BY <1>2, <2>2, <3>1, FoldIsTyped
    <3> HIDE DEF f
    <3>3. folds \in Seq(FoldType) /\ n \in Nat /\ DOMAIN folds = 1..n
      BY DEF WalkInv, FoldsAreWindows
    <3>4. /\ folds' \in Seq(FoldType) /\ DOMAIN folds' = 1..(n + 1)
          /\ folds'[n + 1] = f
          /\ \A i \in 1..n : folds'[i] = folds[i]
      BY <2>2, <3>1, <3>2, <3>3
    <3>5. \A i \in 1..n :
             /\ folds[i].start \in Nat
             /\ folds[i] = WindowOf(bars, folds[i].start) /\ Enough(folds[i])
             /\ folds[i].start + StepSpan <= start
      BY <3>3, FoldTypes DEF WalkInv
    <3>6. \A i \in 1..(n + 1) :
             /\ folds'[i] = WindowOf(bars, folds'[i].start) /\ Enough(folds'[i])
             /\ folds'[i].start + StepSpan <= start'
      <4> TAKE i \in 1..(n + 1)
      <4>1. CASE i \in 1..n
        <5>1. folds'[i] = folds[i]
          BY <4>1, <3>4
        <5>. QED  BY <4>1, <5>1, <1>2, <1>3, <3>5
      <4>2. CASE i = n + 1
        <5>1. folds'[i] = f
          BY <4>2, <3>4
        <5>2. folds'[i].start + StepSpan = start'
          BY <5>1, <3>2, <1>3
        <5>3. f = WindowOf(bars, f.start)
          BY <3>2 DEF f
        <5>. QED  BY <5>1, <5>2, <5>3, <3>2, <1>2, <1>3
      <4>. QED  BY <4>1, <4>2, <3>3
    <3>7. \A i, j \in 1..(n + 1) :
             i < j => folds'[i].start + StepSpan <= folds'[j].start
      <4> SUFFICES ASSUME NEW i \in 1..(n + 1), NEW j \in 1..(n + 1), i < j
                   PROVE  folds'[i].start + StepSpan <= folds'[j].start
        OBVIOUS
      <4>1. i \in 1..n
        BY <3>3
      <4>2. CASE j \in 1..n
        BY <4>1, <4>2, <3>3, <3>4 DEF WalkInv, FoldsAreWindows
      <4>3. CASE j = n + 1
        BY <4>1, <4>3, <3>2, <3>4, <3>5
      <4>. QED  BY <4>2, <4>3, <3>3
    <3>. QED  BY <1>1, <3>4, <3>6, <3>7 DEF FoldsAreWindows
  <2>. QED  BY <2>1, <2>2 DEF NextFold
<1>. QED  BY <1>1, <1>3, <1>4, <1>5 DEF WalkInv

LEMMA WalkStep ==
    ASSUME WalkInv, [Next]_training
    PROVE  WalkInv'
<1>1. CASE Begin
  BY <1>1 DEF Begin, locals, WalkInv, Ascending, FoldsAreWindows
<1>2. CASE LoadParquets
  <2>1. Ascending'
    BY <1>2, TrainingAssumption DEF LoadParquets, TrainingAssumption, Ascending
  <2>2. folds' = <<>>
    BY <1>2 DEF LoadParquets, WalkInv
  <2>. QED  BY <1>2, <2>1, <2>2 DEF LoadParquets, WalkInv, FoldsAreWindows
<1>3. CASE BuildMatrix
  <2>1. folds' = <<>> /\ bars' = bars
    BY <1>3 DEF BuildMatrix, WalkInv
  <2>2. Len(bars) \in Nat /\ 1 \in 1..Len(bars)
    BY <1>3, TrainingAssumption DEF BuildMatrix, WalkInv, Ascending, Rows, TrainingAssumption
  <2>3. Ts(1) \in Nat
    BY <2>2 DEF WalkInv, Ascending, Ts
  <2>. QED  BY <1>3, <2>1, <2>3 DEF BuildMatrix, WalkInv, Ascending, FoldsAreWindows
<1>4. CASE NextFold
  BY <1>4, WalkNextFold
<1>5. CASE Summarize
  BY <1>5 DEF Summarize, locals, WalkInv, Ascending, FoldsAreWindows
<1>6. CASE Over
  BY <1>6, WalkExit DEF Over
<1>7. CASE UNCHANGED training
  BY <1>7 DEF training, locals, WalkInv, Ascending, FoldsAreWindows
<1>. QED  BY <1>1, <1>2, <1>3, <1>4, <1>5, <1>6, <1>7 DEF Next, Compute

(* Every window the training has found so far is one of its walk, in order.   *)
THEOREM WalkCorrect == Spec => []WalkInv
BY WalkInit, WalkStep, PTL DEF Spec

-------------------------------------------------------------------------------
(* TestIsUnseen: whatever gaps the data has, a fold is fitted on what is known *)
(* before its first test row, the labels' bars ahead included.                *)
THEOREM OutOfSample == Spec => []TestIsUnseen
<1>1. WalkInv => TestIsUnseen
  <2> SUFFICES ASSUME WalkInv, NEW i \in DOMAIN folds, NEW t \in folds[i].test
               PROVE  /\ \A k \in folds[i].train : k + LabelHorizon < t
                      /\ \A k \in folds[i].val : k < t
    BY DEF TestIsUnseen
  <2> DEFINE s == folds[i].start
  <2>1. s \in Nat /\ folds[i] = Fold(s) /\ Enough(Fold(s)) /\ Ascending
    BY FoldTypes, FoldIsWindow DEF WalkInv
  <2> HIDE DEF s
  <2>2. t \in Fold(s).test
    BY <2>1
  <2>3. \A k \in Fold(s).train : k + LabelHorizon < t
    BY <2>1, <2>2, ValidationSeparates
  <2>4. \A k \in Fold(s).val : k < t
    BY <2>1, <2>2, FoldOrder
  <2>. QED  BY <2>1, <2>3, <2>4
<1>. QED  BY <1>1, WalkCorrect, PTL

(* FoldsGoForward: with a step no shorter than the test window no row is       *)
(* tested twice.                                                             *)
THEOREM TestedOnce == Spec => []FoldsGoForward
<1>1. WalkInv => FoldsGoForward
  <2> SUFFICES ASSUME WalkInv, StepSpan >= TestSpan,
                      NEW i \in DOMAIN folds, NEW j \in DOMAIN folds, i < j,
                      NEW t \in folds[i].test, NEW u \in folds[j].test
               PROVE  t < u
    BY DEF FoldsGoForward
  <2> DEFINE r == folds[i].start
             s == folds[j].start
             a == r + TrainSpan + ValSpan
             b == r + TrainSpan + ValSpan + TestSpan
             c == s + TrainSpan + ValSpan
             d == s + TrainSpan + ValSpan + TestSpan
  <2>1. /\ r \in Nat /\ s \in Nat /\ r + StepSpan <= s /\ Ascending
        /\ folds[i] = Fold(r) /\ folds[j] = Fold(s)
    BY FoldTypes, FoldIsWindow DEF WalkInv, FoldsAreWindows
  <2>2. Fold(r).test = Slice(a, b) /\ Fold(s).test = Slice(c, d)
    BY DEF Fold
  <2> HIDE DEF r, s
  <2>3. a \in Nat /\ b \in Nat /\ c \in Nat /\ d \in Nat /\ b <= c
    BY <2>1, TrainingAssumption DEF TrainingAssumption
  <2>4. t \in Slice(a, b) /\ u \in Slice(c, d)
    BY <2>1, <2>2
  <2> HIDE DEF a, b, c, d
  <2>. QED  BY <2>1, <2>3, <2>4, SliceOrder
<1>. QED  BY <1>1, WalkCorrect, PTL

-------------------------------------------------------------------------------
(* The longest windows of the features: 108 bars of 15 minutes, 21 hours.     *)
LongEnough(w) ==
    /\ w.needs \in Nat /\ w.reach \in Nat
    /\ \/ w.series = "15m" /\ w.needs <= 108 /\ w.reach <= 108
       \/ w.series = "1h" /\ w.needs <= 21 /\ w.reach <= 21

LEMMA LongestWindows == \A f \in DOMAIN CandleFeatures : LongEnough(CandleFeatures[f])
<1>1. /\ LongEnough(return_15m) /\ LongEnough(return_1h)
      /\ LongEnough(return_4h) /\ LongEnough(return_24h)
      /\ LongEnough(realized_vol_4h) /\ LongEnough(realized_vol_24h)
      /\ LongEnough(atr_14) /\ LongEnough(ma_cross_5_20)
      /\ LongEnough(ma_cross_12_50) /\ LongEnough(slope_4h)
      /\ LongEnough(slope_24h) /\ LongEnough(rsi_14)
      /\ LongEnough(macd) /\ LongEnough(macd_signal_diff)
      /\ LongEnough(distance_from_vwap_24h) /\ LongEnough(bollinger_position)
      /\ LongEnough(volume_z_score_24h) /\ LongEnough(volume_ratio_4h)
      /\ LongEnough(bar_body_ratio) /\ LongEnough(upper_wick_ratio)
      /\ LongEnough(lower_wick_ratio) /\ LongEnough(close_position_in_range)
      /\ LongEnough(vol_weighted_return_4h) /\ LongEnough(signed_volume_imbalance_4h)
      /\ LongEnough(consecutive_up_count) /\ LongEnough(acceleration_4h)
      /\ LongEnough(range_expansion)
  BY DEF LongEnough, Window, Since,
      return_15m, return_1h, return_4h, return_24h, realized_vol_4h,
      realized_vol_24h, atr_14, ma_cross_5_20, ma_cross_12_50, slope_4h,
      slope_24h, rsi_14, macd, macd_signal_diff, distance_from_vwap_24h,
      bollinger_position, volume_z_score_24h, volume_ratio_4h,
      bar_body_ratio, upper_wick_ratio, lower_wick_ratio,
      close_position_in_range, vol_weighted_return_4h,
      signed_volume_imbalance_4h, consecutive_up_count, acceleration_4h,
      range_expansion
<1>. QED  BY <1>1 DEF CandleFeatures

(* What every feature goes by when it has all the candles it wants. *)
AllRead ==
    [f \in FeatureNames |->
        IF f = "funding_z_24h" \/ f = "oi_change_24h_pct" THEN 0
        ELSE CandleFeatures[f].reach]

LEMMA EnoughCandles ==
    ASSUME NEW c15 \in Nat, c15 >= 108, NEW c1h \in Nat, c1h >= 21
    PROVE  BuildFeatures(c15, c1h, NoContext) = AllRead
<1>1. ASSUME NEW f \in DOMAIN CandleFeatures
      PROVE  Reads(CandleFeatures[f], IF CandleFeatures[f].series = "15m" THEN c15 ELSE c1h)
               = CandleFeatures[f].reach
  BY LongestWindows DEF LongEnough, Reads, Least
<1>2. funding_z_24h(NoContext.funding) = 0 /\ oi_change_24h_pct(NoContext.oi) = 0
  BY DEF NoContext, funding_z_24h, oi_change_24h_pct
<1>3. \A f \in FeatureNames :
         f = "funding_z_24h" \/ f = "oi_change_24h_pct" \/ f \in DOMAIN CandleFeatures
  BY DEF FeatureNames, HistoryFeatures
<1>. QED  BY <1>1, <1>2, <1>3 DEF BuildFeatures, AllRead

(* The file starts WARMUP_BARS before the first row, and no two bars are one.  *)
WarmUp ==
    /\ WarmupBars >= 108
    /\ \A d \in Datasets : \A i \in 1..Len(d) : d[i] >= WarmupBars
    /\ \A h \in HourFiles : h >= 21

MatrixInv ==
    /\ step \in {"matrix"} => bars \in Datasets /\ hours \in HourFiles
    /\ reads \subseteq {AllRead}

LEMMA MatrixStep ==
    ASSUME WarmUp, MatrixInv, [Next]_training
    PROVE  MatrixInv'
<1>1. CASE BuildMatrix
  <2>1. /\ bars \in Datasets /\ hours \in HourFiles
        /\ step' = "folds" /\ reads' = {RowFeatures(k) : k \in Rows}
    BY <1>1 DEF BuildMatrix, MatrixInv
  <2>2. ASSUME NEW k \in Rows
        PROVE  RowFeatures(k) = AllRead
    <3>1. k \in 1..Len(bars) /\ k \in Nat /\ bars[k] \in Nat
      BY <2>1, TrainingAssumption DEF TrainingAssumption, Rows
    <3>2. bars[k] >= 108 /\ hours \in Nat /\ hours >= 21 /\ WarmupBars \in Nat
      BY <2>1, <3>1, TrainingAssumption DEF WarmUp, TrainingAssumption
    <3>3. Ts(k) \in Nat /\ Ts(k) \div 4 \in Nat /\ Ts(k) \div 4 >= 21
      BY <3>1, <3>2 DEF Ts
    <3>4. HoursBy(Ts(k)) \in Nat /\ HoursBy(Ts(k)) >= 21
      BY <3>2, <3>3 DEF HoursBy, Least
    <3>5. WarmupBars + k \in Nat /\ WarmupBars + k >= 108
      BY <3>1, <3>2 DEF WarmUp
    <3>. QED  BY <3>4, <3>5, EnoughCandles DEF RowFeatures
  <2>. QED  BY <2>1, <2>2 DEF MatrixInv
<1>2. CASE Begin \/ NextFold \/ Summarize \/ UNCHANGED training
  BY <1>2 DEF MatrixInv, Begin, NextFold, Summarize, locals, training
<1>3. CASE LoadParquets
  BY <1>3 DEF MatrixInv, LoadParquets
<1>4. CASE Over
  BY <1>4 DEF MatrixInv, Over, Exit
<1>. QED  BY <1>1, <1>2, <1>3, <1>4 DEF Next, Compute

(* RowsAreComparable: with a warm-up of 108 bars, and 21 hours in the hourly    *)
(* file, no row of a matrix has a feature cut short.                          *)
THEOREM RowsAlike ==
    ASSUME WarmUp
    PROVE  Spec => []RowsAreComparable
<1>1. Init => MatrixInv
  BY DEF Init, MatrixInv
<1>2. MatrixInv /\ [Next]_training => MatrixInv'
  BY MatrixStep
<1>3. MatrixInv => RowsAreComparable
  <2> SUFFICES ASSUME MatrixInv PROVE Cardinality(reads) <= 1
    BY DEF RowsAreComparable
  <2>1. IsFiniteSet({AllRead}) /\ Cardinality({AllRead}) = 1
    BY FS_Singleton
  <2>2. reads \in SUBSET {AllRead}
    BY DEF MatrixInv
  <2> HIDE DEF AllRead
  <2>. QED  BY <2>1, <2>2, FS_Subset
<1>. QED  BY <1>1, <1>2, <1>3, PTL DEF Spec

-------------------------------------------------------------------------------
(* The files of a model, from its training to the predictor.                  *)

Scripts ==
    /\ step \in {"idle", "load", "matrix", "folds", "fit"}
    /\ retrain \in {"idle", "archive", "train", "pickle", "open", "meta"}
    /\ step # "idle" => retrain = "train"
    /\ deploy \in {"idle", "sync"} /\ synced \subseteq Kinds
    /\ deploy = "idle" => synced = {}

Files ==
    /\ local \in [Kinds -> Contents] /\ droplet \in [Kinds -> Contents]
    /\ archive \in [Kinds -> SUBSET Contents]
    /\ served \in [Kinds -> Versions] \cup {None}
    /\ trainings \in Versions /\ DOMAIN models = 0..trainings
    /\ retrain \in {"archive", "train"} => trainings < MaxTrainings

(* What stands in the repository at each step of a retraining.  Without its   *)
(* pickle the metadata is gone too, unless one died between the two moves.    *)
Place ==
    /\ retrain \in {"archive", "train"} => local["pkl"] = None
    /\ retrain = "pickle" => local["pkl"] = Partial
    /\ retrain \in {"open", "meta"} => local["pkl"] # None
    /\ retrain \in {"train", "pickle", "open"} /\ ~halfMoved => local["meta"] = None
    /\ retrain = "meta" => local["meta"] = Partial
    /\ retrain = "idle" /\ local["pkl"] = None /\ ~halfMoved => local["meta"] = None

Shipped == \A k \in Kinds : droplet[k] # None

(* A pair that is not torn is one, and between its two files a deployment has    *)
(* copied what it found.                                                       *)
Halfway ==
    /\ ~torn => droplet["pkl"] = droplet["meta"]
    /\ synced # {} /\ synced # Kinds =>
          \A k \in synced : found[k] # None => droplet[k] = found[k]

RolloutInv ==
    /\ Scripts /\ Files /\ Place /\ Shipped /\ Halfway
    /\ RollbackKept /\ ServedPairMatches

-------------------------------------------------------------------------------
LEMMA KindFacts ==
    /\ Kinds = {"pkl", "meta"} /\ "pkl" \in Kinds /\ "meta" \in Kinds
    /\ \A k \in Kinds : k = "pkl" \/ k = "meta"
    /\ None \notin Versions /\ Partial \notin Versions /\ None # Partial
    /\ None \in Contents /\ Partial \in Contents /\ Versions \subseteq Contents
BY RolloutAssumption DEF Kinds, Versions, Contents, RolloutAssumption

LEMMA RolloutStart == RolloutInit => RolloutInv
<1> SUFFICES ASSUME RolloutInit PROVE RolloutInv
  OBVIOUS
<1>1. 0 \in Versions /\ 0 # None /\ 0 # Partial
  BY RolloutAssumption DEF Versions, RolloutAssumption
<1>2. Pair(0) \in [Kinds -> Versions] /\ Pair(0)["pkl"] = 0 /\ Pair(0)["meta"] = 0
  BY <1>1 DEF Pair, Kinds
<1>3. Scripts
  BY DEF RolloutInit, Init, Scripts
<1>4. Files
  BY <1>1, <1>2, KindFacts DEF RolloutInit, Files
<1>5. \A k \in Kinds : Pair(0)[k] = 0
  BY <1>2, KindFacts
<1>6. RollbackKept
  BY <1>5 DEF RolloutInit, RollbackKept
<1>. QED
  BY <1>1, <1>2, <1>3, <1>4, <1>5, <1>6
  DEF RolloutInit, RolloutInv, Place, Shipped, Halfway, ServedPairMatches

-------------------------------------------------------------------------------
(* An action that leaves the files, the server and the scripts alone.         *)
LEMMA InvKept ==
    ASSUME RolloutInv,
           UNCHANGED <<files, served, servedTorn, retrain, deploy, synced, history>>,
           step' \in {"idle", "load", "matrix", "folds", "fit"},
           step' # "idle" => retrain = "train"
    PROVE  RolloutInv'
BY DEF RolloutInv, Scripts, Files, Place, Shipped, Halfway, RollbackKept,
       ServedPairMatches, files, history

LEMMA InvArchiveModel ==
    ASSUME RolloutInv, ArchiveModel
    PROVE  RolloutInv'
<1> USE DEF ArchiveModel, server, history, training
<1>1. /\ retrain = "idle" /\ trainings < MaxTrainings
      /\ UNCHANGED <<step, droplet, served, servedTorn, deploy, synced, models, found,
                     torn, halfMoved, trainings>>
  OBVIOUS
<1>2. Shipped' /\ Halfway' /\ ServedPairMatches'
  BY <1>1 DEF RolloutInv, Shipped, Halfway, ServedPairMatches
<1>3. CASE local.pkl = None
  BY <1>1, <1>2, <1>3 DEF RolloutInv, Scripts, Files, Place, RollbackKept
<1>4. CASE local.pkl # None
  <2>1. /\ archive' = [archive EXCEPT !["pkl"] = @ \cup {local["pkl"]}]
        /\ local' = [local EXCEPT !["pkl"] = None]
        /\ retrain' = "archive"
    BY <1>4 DEF Move
  <2>2. /\ local' \in [Kinds -> Contents] /\ archive' \in [Kinds -> SUBSET Contents]
        /\ local'["pkl"] = None /\ local'["meta"] = local["meta"]
        /\ archive'["pkl"] = archive["pkl"] \cup {local["pkl"]}
        /\ archive'["meta"] = archive["meta"]
    BY <2>1, KindFacts DEF RolloutInv, Files
  <2>3. Scripts'
    BY <1>1, <2>1 DEF RolloutInv, Scripts
  <2>4. Files'
    BY <1>1, <2>1, <2>2 DEF RolloutInv, Files
  <2>5. Place'
    BY <2>1, <2>2 DEF Place
  <2>6. RollbackKept'
    BY <1>1, <2>2, KindFacts DEF RolloutInv, RollbackKept
  <2>. QED  BY <1>2, <2>3, <2>4, <2>5, <2>6 DEF RolloutInv
<1>. QED  BY <1>3, <1>4

LEMMA InvArchiveMeta ==
    ASSUME RolloutInv, ArchiveMeta
    PROVE  RolloutInv'
<1> USE DEF ArchiveMeta, server, history, training
<1>1. /\ retrain = "archive" /\ retrain' = "train"
      /\ UNCHANGED <<step, droplet, served, servedTorn, deploy, synced, models, found,
                     torn, halfMoved, trainings>>
  OBVIOUS
<1>2. Shipped' /\ Halfway' /\ ServedPairMatches'
  BY <1>1 DEF RolloutInv, Shipped, Halfway, ServedPairMatches
<1>3. CASE local.meta = None
  BY <1>1, <1>2, <1>3 DEF RolloutInv, Scripts, Files, Place, RollbackKept
<1>4. CASE local.meta # None
  <2>1. /\ archive' = [archive EXCEPT !["meta"] = @ \cup {local["meta"]}]
        /\ local' = [local EXCEPT !["meta"] = None]
    BY <1>4 DEF Move
  <2>2. /\ local' \in [Kinds -> Contents] /\ archive' \in [Kinds -> SUBSET Contents]
        /\ local'["meta"] = None /\ local'["pkl"] = local["pkl"]
        /\ archive'["meta"] = archive["meta"] \cup {local["meta"]}
        /\ archive'["pkl"] = archive["pkl"]
    BY <2>1, KindFacts DEF RolloutInv, Files
  <2>3. Scripts'
    BY <1>1 DEF RolloutInv, Scripts
  <2>4. Files'
    BY <1>1, <2>2 DEF RolloutInv, Files
  <2>5. Place'
    BY <1>1, <2>2 DEF RolloutInv, Place
  <2>6. RollbackKept'
    BY <1>1, <2>2, KindFacts DEF RolloutInv, RollbackKept
  <2>. QED  BY <1>2, <2>3, <2>4, <2>5, <2>6 DEF RolloutInv
<1>. QED  BY <1>3, <1>4

(* A file is opened or written: what the droplet has is not the one that goes. *)
LEMMA InvWrite ==
    ASSUME RolloutInv, NEW kind \in Kinds, NEW content \in Contents,
           local' = [local EXCEPT ![kind] = content],
           ~halfMoved => local[kind] \in {None, Partial},
           UNCHANGED <<archive, droplet, served, servedTorn, deploy, synced, found, torn,
                       halfMoved>>
    PROVE  /\ local' \in [Kinds -> Contents]
           /\ local'[kind] = content
           /\ \A k \in Kinds \ {kind} : local'[k] = local[k]
           /\ Shipped' /\ Halfway' /\ RollbackKept' /\ ServedPairMatches'
<1>1. /\ local' \in [Kinds -> Contents]
      /\ local'[kind] = content
      /\ \A k \in Kinds \ {kind} : local'[k] = local[k]
  BY DEF RolloutInv, Files
<1>2. Shipped' /\ Halfway' /\ ServedPairMatches'
  BY DEF RolloutInv, Shipped, Halfway, ServedPairMatches
<1>3. ASSUME NEW k \in Kinds, droplet[k] # Partial, ~halfMoved
      PROVE  droplet[k] \in archive[k] \cup {local'[k]}
  BY <1>1, <1>3 DEF RolloutInv, RollbackKept, Shipped
<1>. QED  BY <1>1, <1>2, <1>3 DEF RollbackKept

LEMMA InvOpenPickle ==
    ASSUME RolloutInv, OpenPickle
    PROVE  RolloutInv'
<1> USE DEF OpenPickle, server
<1>1. /\ retrain = "train" /\ retrain' = "pickle" /\ step' = "idle"
      /\ local' = [local EXCEPT !["pkl"] = Partial]
      /\ trainings' = trainings + 1 /\ DOMAIN models' = 0..trainings'
      /\ UNCHANGED <<archive, droplet, served, servedTorn, deploy, synced, found, torn,
                     halfMoved>>
  BY DEF RolloutInv, Scripts, Exit
<1>2. /\ local' \in [Kinds -> Contents]
      /\ local'["pkl"] = Partial /\ local'["meta"] = local["meta"]
      /\ Shipped' /\ Halfway' /\ RollbackKept' /\ ServedPairMatches'
  BY <1>1, InvWrite, KindFacts DEF RolloutInv, Place
<1>3. trainings' \in Versions
  BY <1>1, RolloutAssumption DEF RolloutInv, Files, Versions, RolloutAssumption
<1>4. Scripts'
  BY <1>1 DEF RolloutInv, Scripts
<1>5. Files'
  BY <1>1, <1>2, <1>3 DEF RolloutInv, Files
<1>6. Place'
  BY <1>1, <1>2 DEF RolloutInv, Place
<1>. QED  BY <1>2, <1>4, <1>5, <1>6 DEF RolloutInv

(* The three that follow it. *)
LEMMA InvSave ==
    ASSUME RolloutInv, DumpPickle \/ OpenMeta \/ DumpMeta
    PROVE  RolloutInv'
<1> USE DEF server, history, training, Write
<1>0. trainings \in Contents /\ trainings # None /\ trainings # Partial
  BY KindFacts DEF RolloutInv, Files
<1>1. /\ UNCHANGED <<step, archive, droplet, served, servedTorn, deploy, synced, models,
                     found, torn, halfMoved, trainings>>
      /\ retrain \in {"pickle", "open", "meta"}
  BY DEF DumpPickle, OpenMeta, DumpMeta
<1>2. step = "idle"
  BY <1>1 DEF RolloutInv, Scripts
<1>3. CASE DumpPickle
  <2>1. retrain = "pickle" /\ retrain' = "open"
        /\ local' = [local EXCEPT !["pkl"] = trainings]
    BY <1>3 DEF DumpPickle
  <2>2. /\ local' \in [Kinds -> Contents]
        /\ local'["pkl"] = trainings /\ local'["meta"] = local["meta"]
        /\ Shipped' /\ Halfway' /\ RollbackKept' /\ ServedPairMatches'
    BY <1>0, <1>1, <2>1, InvWrite, KindFacts DEF RolloutInv, Place
  <2>3. Scripts' /\ Files'
    BY <1>1, <1>2, <2>1, <2>2 DEF RolloutInv, Scripts, Files
  <2>4. Place'
    BY <1>0, <1>1, <2>1, <2>2 DEF RolloutInv, Place
  <2>. QED  BY <2>2, <2>3, <2>4 DEF RolloutInv
<1>4. CASE OpenMeta
  <2>1. retrain = "open" /\ retrain' = "meta"
        /\ local' = [local EXCEPT !["meta"] = Partial]
    BY <1>4 DEF OpenMeta
  <2>2. /\ local' \in [Kinds -> Contents]
        /\ local'["meta"] = Partial /\ local'["pkl"] = local["pkl"]
        /\ Shipped' /\ Halfway' /\ RollbackKept' /\ ServedPairMatches'
    BY <1>1, <2>1, InvWrite, KindFacts DEF RolloutInv, Place
  <2>3. Scripts' /\ Files'
    BY <1>1, <1>2, <2>1, <2>2 DEF RolloutInv, Scripts, Files
  <2>4. Place'
    BY <1>1, <2>1, <2>2 DEF RolloutInv, Place
  <2>. QED  BY <2>2, <2>3, <2>4 DEF RolloutInv
<1>5. CASE DumpMeta
  <2>1. retrain = "meta" /\ retrain' = "idle"
        /\ local' = [local EXCEPT !["meta"] = trainings]
    BY <1>5 DEF DumpMeta
  <2>2. /\ local' \in [Kinds -> Contents]
        /\ local'["meta"] = trainings /\ local'["pkl"] = local["pkl"]
        /\ Shipped' /\ Halfway' /\ RollbackKept' /\ ServedPairMatches'
    BY <1>0, <1>1, <2>1, InvWrite, KindFacts DEF RolloutInv, Place
  <2>3. Scripts' /\ Files'
    BY <1>1, <1>2, <2>1, <2>2 DEF RolloutInv, Scripts, Files
  <2>4. Place'
    BY <1>1, <2>1, <2>2 DEF RolloutInv, Place
  <2>. QED  BY <2>2, <2>3, <2>4 DEF RolloutInv
<1>. QED  BY <1>3, <1>4, <1>5

LEMMA InvRetrainDies ==
    ASSUME RolloutInv, RetrainDies
    PROVE  RolloutInv'
<1>1. /\ retrain # "idle" /\ retrain' = "idle"
      /\ halfMoved' = (halfMoved \/ retrain = "archive")
      /\ UNCHANGED <<files, served, servedTorn, deploy, synced, models, found, torn, trainings>>
  BY DEF RetrainDies, server
<1>2. step' = "idle"
  BY DEF RetrainDies, Over, Exit, training
<1>3. Scripts' /\ Files'
  BY <1>1, <1>2 DEF RolloutInv, Scripts, Files, files
<1>4. Place'
  BY <1>1, KindFacts DEF RolloutInv, Scripts, Place, files
<1>5. RollbackKept'
  BY <1>1 DEF RolloutInv, RollbackKept, files
<1>6. Shipped' /\ Halfway' /\ ServedPairMatches'
  BY <1>1 DEF RolloutInv, Shipped, Halfway, ServedPairMatches, files
<1>. QED  BY <1>3, <1>4, <1>5, <1>6 DEF RolloutInv

-------------------------------------------------------------------------------
LEMMA InvStartDeploy ==
    ASSUME RolloutInv, StartDeploy
    PROVE  RolloutInv'
<1>1. /\ deploy = "idle" /\ deploy' = "sync" /\ synced' = {}
      /\ UNCHANGED <<step, files, served, servedTorn, retrain, models, torn, halfMoved,
                     trainings>>
  BY DEF StartDeploy, training, server
<1>2. Scripts' /\ Files' /\ Place'
  BY <1>1 DEF RolloutInv, Scripts, Files, Place, files
<1>3. Halfway'
  BY <1>1 DEF RolloutInv, Scripts, Halfway, files
<1>4. Shipped' /\ RollbackKept' /\ ServedPairMatches'
  BY <1>1 DEF RolloutInv, Shipped, RollbackKept, ServedPairMatches, files
<1>. QED  BY <1>2, <1>3, <1>4 DEF RolloutInv

LEMMA InvSync ==
    ASSUME RolloutInv, NEW k \in Kinds, Sync(k)
    PROVE  RolloutInv'
<1>1. /\ deploy = "sync" /\ k \notin synced /\ synced' = synced \cup {k}
      /\ droplet' = IF local[k] # None THEN [droplet EXCEPT ![k] = local[k]] ELSE droplet
      /\ found' = IF synced = {} THEN local ELSE found
      /\ torn' = IF local = Pair(None) /\ found' = local THEN torn
                 ELSE ~(synced' = Kinds /\ found' = local /\ local["pkl"] = local["meta"])
      /\ UNCHANGED <<step, local, archive, served, servedTorn, retrain, deploy, models,
                     halfMoved, trainings>>
  BY DEF Sync, training, server, Copied
<1>2. /\ droplet' \in [Kinds -> Contents]
      /\ droplet'[k] = IF local[k] # None THEN local[k] ELSE droplet[k]
      /\ \A j \in Kinds \ {k} : droplet'[j] = droplet[j]
  BY <1>1 DEF RolloutInv, Files
<1>3. Scripts'
  BY <1>1 DEF RolloutInv, Scripts
<1>4. Files'
  BY <1>1, <1>2 DEF RolloutInv, Files
<1>5. Place' /\ ServedPairMatches'
  BY <1>1 DEF RolloutInv, Place, ServedPairMatches
<1>6. Shipped'
  BY <1>2 DEF RolloutInv, Shipped
<1>7. RollbackKept'
  BY <1>1, <1>2 DEF RolloutInv, RollbackKept
<1>8. ASSUME ~torn' PROVE droplet'["pkl"] = droplet'["meta"]
  <2>1. CASE local = Pair(None) /\ found' = local
    <3>1. local[k] = None /\ ~torn
      BY <1>1, <1>8, <2>1 DEF Pair, Kinds
    <3>2. droplet' = droplet
      BY <1>1, <3>1
    <3>. QED  BY <3>1, <3>2 DEF RolloutInv, Halfway
  <2>2. CASE ~(local = Pair(None) /\ found' = local)
    <3>1. synced' = Kinds /\ found' = local /\ local["pkl"] = local["meta"]
      BY <1>1, <1>8, <2>2
    <3>2. \A j \in Kinds : local[j] # None /\ local[j] = local["pkl"]
      <4>1. local \in [Kinds -> Contents]
        BY DEF RolloutInv, Files
      <4>2. local["pkl"] = None => local = Pair(None)
        BY <3>1, <4>1 DEF Pair, Kinds
      <4>. QED  BY <2>2, <3>1, <4>2, KindFacts
    <3>3. synced # {} /\ synced # Kinds /\ found = local
      <4>1. Kinds \ {k} \subseteq synced /\ Kinds \ {k} # {}
        BY <1>1, <3>1 DEF Kinds
      <4>. QED  BY <1>1, <3>1, <4>1
    <3>4. \A j \in Kinds \ {k} : droplet[j] = local[j]
      <4>1. \A j \in Kinds \ {k} : j \in synced
        BY <1>1, <3>1
      <4>. QED  BY <3>2, <3>3, <4>1 DEF RolloutInv, Halfway
    <3>5. \A j \in Kinds : droplet'[j] = local["pkl"]
      BY <1>2, <3>2, <3>4
    <3>. QED  BY <3>5, KindFacts
  <2>. QED  BY <2>1, <2>2
<1>9. ASSUME synced' # {}, synced' # Kinds, NEW j \in synced', found'[j] # None
      PROVE  droplet'[j] = found'[j]
  <2>1. synced = {}
    <3>1. \A m \in Kinds : m # k => m \in synced \/ synced = {}
      BY <1>1, KindFacts DEF RolloutInv, Scripts
    <3>. QED  BY <1>1, <1>9, <3>1 DEF RolloutInv, Scripts
  <2>. QED  BY <1>1, <1>2, <1>9, <2>1
<1>10. Halfway'
  BY <1>8, <1>9 DEF Halfway
<1>. QED  BY <1>3, <1>4, <1>5, <1>6, <1>7, <1>10 DEF RolloutInv

(* What the server loads is what stands on the droplet, or nothing.           *)
LEMMA LoadedPair ==
    ASSUME RolloutInv
    PROVE  /\ Loaded \in [Kinds -> Versions] \cup {None}
           /\ Loaded # None => Loaded = droplet
<1>1. CASE droplet.pkl \in Versions /\ droplet.meta \in Versions
  <2>1. \A k \in Kinds : droplet[k] \in Versions
    BY <1>1, KindFacts
  <2>2. droplet \in [Kinds -> Versions]
    BY <2>1 DEF RolloutInv, Files
  <2>. QED  BY <1>1, <2>2 DEF Loaded
<1>2. CASE ~(droplet.pkl \in Versions /\ droplet.meta \in Versions)
  BY <1>2 DEF Loaded
<1>. QED  BY <1>1, <1>2

LEMMA InvEndDeploy ==
    ASSUME RolloutInv, EndDeploy
    PROVE  RolloutInv'
<1>1. /\ deploy = "sync" /\ synced = Kinds /\ deploy' = "idle" /\ synced' = {}
      /\ \/ served' = Loaded /\ servedTorn' = torn
         \/ served' = served /\ servedTorn' = servedTorn
      /\ UNCHANGED <<step, files, retrain, models, torn, halfMoved, trainings>>
  BY DEF EndDeploy, StartServer, training, server
<1>2. Scripts' /\ Place' /\ Shipped' /\ RollbackKept'
  BY <1>1 DEF RolloutInv, Scripts, Place, Shipped, RollbackKept, files
<1>3. Files'
  BY <1>1, LoadedPair DEF RolloutInv, Files, files
<1>4. ~torn => droplet["pkl"] = droplet["meta"]
  BY DEF RolloutInv, Halfway
<1>5. Halfway' /\ ServedPairMatches'
  BY <1>1, <1>4, LoadedPair DEF RolloutInv, Halfway, ServedPairMatches, files
<1>. QED  BY <1>2, <1>3, <1>5 DEF RolloutInv

LEMMA InvDeployFails ==
    ASSUME RolloutInv, DeployFails
    PROVE  RolloutInv'
<1>1. /\ deploy = "sync" /\ deploy' = "idle" /\ synced' = {}
      /\ UNCHANGED <<step, files, served, servedTorn, retrain, models, torn, halfMoved,
                     trainings>>
  BY DEF DeployFails, training, server
<1>2. Scripts' /\ Files' /\ Place' /\ Shipped' /\ RollbackKept' /\ ServedPairMatches'
  BY <1>1 DEF RolloutInv, Scripts, Files, Place, Shipped, RollbackKept,
              ServedPairMatches, files
<1>3. Halfway'
  BY <1>1 DEF RolloutInv, Halfway, files
<1>. QED  BY <1>2, <1>3 DEF RolloutInv

LEMMA InvRestart ==
    ASSUME RolloutInv, Restart
    PROVE  RolloutInv'
<1>1. /\ served' = Loaded /\ servedTorn' = torn
      /\ UNCHANGED <<step, files, retrain, deploy, synced, models, found, torn, halfMoved,
                     trainings>>
  BY DEF Restart, StartServer, training, scripts, history
<1>2. Scripts' /\ Place' /\ Shipped' /\ RollbackKept'
  BY <1>1 DEF RolloutInv, Scripts, Place, Shipped, RollbackKept, files
<1>3. Files'
  BY <1>1, LoadedPair DEF RolloutInv, Files, files
<1>4. ~torn => droplet["pkl"] = droplet["meta"]
  BY DEF RolloutInv, Halfway
<1>5. Halfway' /\ ServedPairMatches'
  BY <1>1, <1>4, LoadedPair DEF RolloutInv, Halfway, ServedPairMatches, files
<1>. QED  BY <1>2, <1>3, <1>5 DEF RolloutInv

-------------------------------------------------------------------------------
LEMMA RolloutStep ==
    ASSUME RolloutInv, [RolloutNext]_vars
    PROVE  RolloutInv'
<1>1. CASE Train
  <2>1. UNCHANGED <<files, served, servedTorn, retrain, deploy, synced, history>> /\ retrain = "train"
    BY <1>1 DEF Train, server, scripts
  <2>2. step' \in {"idle", "load", "matrix", "folds", "fit"}
    BY <1>1 DEF Train, Begin, Compute, LoadParquets, BuildMatrix, NextFold, Summarize,
                RolloutInv, Scripts
  <2>. QED  BY <2>1, <2>2, InvKept
<1>2. CASE Predict \/ UNCHANGED vars
  <2>1. UNCHANGED <<step, files, served, servedTorn, retrain, deploy, synced, history>>
    BY <1>2 DEF Predict, vars, training, server, scripts
  <2>2. step' \in {"idle", "load", "matrix", "folds", "fit"}
        /\ (step' # "idle" => retrain = "train")
    BY <2>1 DEF RolloutInv, Scripts
  <2>. QED  BY <2>1, <2>2, InvKept
<1>3. CASE \E k \in Kinds : Sync(k)
  BY <1>3, InvSync
<1>. QED
  BY <1>1, <1>2, <1>3, InvArchiveModel, InvArchiveMeta, InvOpenPickle, InvSave,
     InvRetrainDies, InvStartDeploy, InvEndDeploy, InvDeployFails, InvRestart
  DEF RolloutNext

THEOREM RolloutCorrect == RolloutSpec => []RolloutInv
BY RolloutStart, RolloutStep, PTL DEF RolloutSpec

(* TypeOK: the files hold models, their metadata or nothing, and a training    *)
(* computes only within a retraining.                                        *)
THEOREM RolloutTyped == RolloutSpec => []TypeOK
<1>1. RolloutInv => TypeOK
  BY DEF RolloutInv, Scripts, Files, TypeOK
<1>. QED  BY <1>1, RolloutCorrect, PTL

(* ServedPairMatches: no order of retrainings, deaths, deployments and restarts  *)
(* gives the server a pickle and the metadata of two models, but for a start       *)
(* after a deployment in which data/models changed between its two copies, that    *)
(* found half a model, or that broke off between them, and before the next one.    *)
THEOREM ServedPair == RolloutSpec => []ServedPairMatches
<1>1. RolloutInv => ServedPairMatches
  BY DEF RolloutInv
<1>. QED  BY <1>1, RolloutCorrect, PTL

(* RollbackKept: the model that is live is in the repository or its archive,   *)
(* with its metadata, after any number of retrainings.                        *)
THEOREM RollbackPossible == RolloutSpec => []RollbackKept
<1>1. RolloutInv => RollbackKept
  BY DEF RolloutInv
<1>. QED  BY <1>1, RolloutCorrect, PTL

(* A training beside deployments and restarts is a training: what is proved of *)
(* TreeTraining holds of it.                                                 *)
THEOREM RolloutTrains == RolloutSpec => Spec
<1>1. RolloutInit => Init
  BY DEF RolloutInit
<1>2. ASSUME RolloutInv, [RolloutNext]_vars
      PROVE  [Next]_training
  <2>1. CASE Train
    BY <2>1 DEF Train, Next
  <2>2. CASE OpenPickle
    BY <2>2 DEF OpenPickle, Next, Over
  <2>3. CASE RetrainDies
    BY <2>3 DEF RetrainDies, Next
  <2>4. CASE ~Train /\ ~OpenPickle /\ ~RetrainDies
    BY <1>2, <2>4
    DEF RolloutNext, vars, ArchiveModel, ArchiveMeta, DumpPickle, OpenMeta, DumpMeta, Write,
        StartDeploy, EndDeploy, DeployFails, Sync, Restart, Predict
  <2>. QED  BY <2>1, <2>2, <2>3, <2>4
<1>. QED  BY <1>1, <1>2, RolloutCorrect, PTL DEF RolloutSpec, Spec
===============================================================================
