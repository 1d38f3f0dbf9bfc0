----------------------------- MODULE TreeTraining -----------------------------
(***************************************************************************)
(* A run of scripts/train_tree.py: the feature matrix with its labels, the   *)
(* walk-forward folds that measure the model, and the final fit.             *)
(*                                                                          *)
(* The unit of time is the 15-minute bar.  Bars are known by the bar they     *)
(* are; the exchange may have gaps, so neighbours in the data need not be    *)
(* neighbours in time.  What a booster learns is left out: only which bars   *)
(* it was shown matters here.                                                *)
(***************************************************************************)
EXTENDS Features, FiniteSets, Sequences

CONSTANTS Datasets,      \* bars the file may hold from WARMUP_BARS on, in order
          HourFiles,     \* hourly bars the other file may hold
          WarmupBars,    \* WARMUP_BARS
          LabelHorizon,  \* LABEL_HORIZON
          TrainSpan, ValSpan, TestSpan, StepSpan,  \* --train-days ... --step-days
          MinTrain, MinVal, MinTest                \* rows a slice must exceed

ASSUME TrainingAssumption ==
    /\ \A d \in Datasets :
          /\ d \in Seq(Nat)
          /\ \A i, j \in 1..Len(d) : i < j => d[i] < d[j]
    /\ HourFiles \subseteq Nat
    /\ WarmupBars \in Nat /\ LabelHorizon \in Nat \ {0}
    /\ TrainSpan \in Nat \ {0} /\ ValSpan \in Nat \ {0} /\ TestSpan \in Nat \ {0}
    /\ StepSpan \in Nat \ {0}
    /\ MinTrain \in Nat /\ MinVal \in Nat /\ MinTest \in Nat
    /\ LabelHorizon <= MinVal + 1

VARIABLES
    \* step of the run, the bars it loaded, and of hourly bars how many
    step, bars, hours,
    \* what the features of its rows went by
    reads,
    \* the walk: where the next window starts, the folds found so far
    start, folds

locals == <<bars, hours, reads, start, folds>>
training == <<step, locals>>

(* The process is over. *)
Exit ==
    /\ step' = "idle"
    /\ bars' = <<>> /\ hours' = 0 /\ reads' = {} /\ start' = 0 /\ folds' = <<>>

-------------------------------------------------------------------------------
(* _build_feature_matrix.  Row k stands at bar WARMUP_BARS + k of the file.   *)

Rows == 1..(Len(bars) - LabelHorizon)

(* The close of its bar, which is also the close of the bar's last minute.    *)
Ts(k) == bars[k] + 1

(* The hourly bars that have closed by then. *)
HoursBy(t) == Least(hours, t \div 4)

(* Training data has neither funding nor open interest. *)
RowFeatures(k) == BuildFeatures(WarmupBars + k, HoursBy(Ts(k)), NoContext)

-------------------------------------------------------------------------------
(* _walk_forward_folds.                                                      *)

(* Mutant: the end of a window belongs to it. *)
SliceInclusive(from, to) == {k \in Rows : from <= Ts(k) /\ Ts(k) <= to}

Slice(from, to) == {k \in Rows : from <= Ts(k) /\ Ts(k) < to}

Fold(s) ==
    [start |-> s,
     train |-> Slice(s, s + TrainSpan),
     val   |-> Slice(s + TrainSpan, s + TrainSpan + ValSpan),
     test  |-> Slice(s + TrainSpan + ValSpan, s + TrainSpan + ValSpan + TestSpan)]

EndTest(s) == s + TrainSpan + ValSpan + TestSpan

(* Mutant: only the slices that are fitted and tested have to be filled. *)
EnoughButVal(f) ==
    Cardinality(f.train) > MinTrain /\ Cardinality(f.test) > MinTest

Enough(f) ==
    /\ Cardinality(f.train) > MinTrain
    /\ Cardinality(f.val) > MinVal
    /\ Cardinality(f.test) > MinTest

-------------------------------------------------------------------------------
Init ==
    /\ step = "idle"
    /\ bars = <<>> /\ hours = 0 /\ reads = {} /\ start = 0 /\ folds = <<>>

Begin ==
    /\ step = "idle"
    /\ step' = "load"
    /\ UNCHANGED locals

(* _load_parquets, of files that a pull may have left shorter than asked for. *)
LoadParquets ==
    /\ step = "load"
    /\ bars' \in Datasets /\ hours' \in HourFiles
    /\ step' = "matrix"
    /\ UNCHANGED <<reads, start, folds>>

BuildMatrix ==
    /\ step = "matrix"
    /\ Rows # {}
    /\ reads' = {RowFeatures(k) : k \in Rows}
    /\ start' = Ts(1)
    /\ step' = "folds"
    /\ UNCHANGED <<bars, hours, folds>>

NextFold ==
    /\ step = "folds"
    /\ EndTest(start) <= Ts(Len(bars) - LabelHorizon)
    /\ folds' = IF Enough(Fold(start)) THEN Append(folds, Fold(start)) ELSE folds
    /\ start' = start + StepSpan
    /\ UNCHANGED <<step, bars, hours, reads>>

(* Each fold has been trained and tested, and _summarize has its numbers.     *)
(* With no fold at all it raises.                                            *)
Summarize ==
    /\ step = "folds"
    /\ EndTest(start) > Ts(Len(bars) - LabelHorizon)
    /\ folds # <<>>
    /\ step' = "fit"
    /\ UNCHANGED locals

(* It has saved its model, was killed, or raised an exception, the            *)
(* ValueErrors of too little data among them.                                *)
Over == step # "idle" /\ Exit

Compute == LoadParquets \/ BuildMatrix \/ NextFold \/ Summarize

Next == Begin \/ Compute \/ Over

Spec == Init /\ [][Next]_training

-------------------------------------------------------------------------------
(* Properties. *)

(* The measured accuracy is out of sample whatever gaps the data has: what a  *)
(* fold is fitted on, the bars its labels look ahead to included, is known    *)
(* before its first test row, and early stopping sees earlier rows only      *)
(* (train_tree.py:12, :258).                                                 *)
TestIsUnseen ==
    \A i \in DOMAIN folds : \A t \in folds[i].test :
        /\ \A k \in folds[i].train : k + LabelHorizon < t
        /\ \A k \in folds[i].val : k < t

(* With a step no shorter than the test window the folds test one row after   *)
(* another, none twice, so the mean and deviation the gate and the drift      *)
(* check go by count each row once (train_tree.py:226).                      *)
FoldsGoForward ==
    StepSpan >= TestSpan =>
        \A i, j \in DOMAIN folds : i < j =>
            \A s \in folds[i].test, t \in folds[j].test : s < t

(* "The 100-bar cap is intentional" (features.py:288): the warm-up covers the *)
(* longest window, so all rows of a matrix are made of the same number of     *)
(* candles and no feature drifts with its row's place in the file.           *)
RowsAreComparable == Cardinality(reads) <= 1
===============================================================================
