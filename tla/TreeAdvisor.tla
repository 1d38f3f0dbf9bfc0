----------------------------- MODULE TreeAdvisor ------------------------------
(***************************************************************************)
(* The tree advisor of one asset over the cycles of one process after        *)
(* another: the market snapshot a cycle takes (market_data.py), the          *)
(* predictions the model makes from its rolling buffers (tree_model.py) and   *)
(* the cycle logs (agent.py, storage.py), and the outcomes a later cycle      *)
(* scores them with (tree_outcomes.py).                                      *)
(*                                                                          *)
(* Times are minutes and pass in steps of Step.  A price is named by the      *)
(* moment the market had it: the close of a candle is the moment the candle   *)
(* closed, and the candle of the bar that is still open reports the moment    *)
(* it was asked for.  Whether a later price is above an earlier one, and the  *)
(* direction the model predicts, are up to the environment.                  *)
(***************************************************************************)
EXTENDS DriftCheck, FiniteSets, SequencesExt

CONSTANTS Bar,            \* minutes of a candle
          CloseMatchTol,  \* tree_outcomes._CLOSE_MATCH_TOL_MS
          Candles,        \* config.market_data.candles_15m
          HorizonBars,    \* horizon_bars of the model's meta.json
          MaxAge,         \* max_age_hours of tree_predictions_needing_backfill
          OiBuffer,       \* tree_model._OI_BUFFER_MS
          OiLag,          \* tree_model._OI_TARGET_LAG_MS
          OiTol,          \* tree_model._OI_TARGET_TOL_MS
          FundingKeep,    \* tree_model._FUNDING_KEEP
          Step,           \* bound: minutes between two moments
          MaxTime,        \* bound: minutes of a run
          MaxPredictions, \* bound: predictions of a run
          None            \* a NULL column, a NaN feature

ASSUME AdvisorAssumption ==
    /\ Step \in Nat \ {0} /\ Bar \in Nat \ {0} /\ Bar % Step = 0
    /\ CloseMatchTol \in Nat /\ Candles \in Nat \ {0} /\ HorizonBars \in Nat \ {0}
    /\ 2 * CloseMatchTol >= Bar /\ Step <= CloseMatchTol
    /\ OiLag \in Nat /\ OiTol \in Nat /\ OiLag <= OiBuffer /\ OiBuffer \in Nat
    /\ OiBuffer <= OiLag + OiTol
    /\ FundingKeep \in Nat \ {0} /\ MaxAge \in Nat
    /\ MaxTime \in Nat /\ MaxPredictions \in Nat
    /\ None \notin Int

VARIABLES
    now,
    \* the cycle: its step, its snapshot, the rows it has still to score
    pc, snap, todo,
    \* the predictor: open interest readings (by time) and funding readings
    oi, funding,
    \* SQLite: tree_predictions in the order of their ids
    rows,
    \* history: when this process predicted, whether the last prediction had an
    \* open interest of the day before; bound: predictions so far
    predicted, foundOi, predictions

locals  == <<snap, todo>>
buffers == <<oi, funding, predicted, foundOi>>
vars    == <<now, pc, locals, buffers, rows, predictions>>

Gap(s, t) == IF s < t THEN t - s ELSE s - t

-------------------------------------------------------------------------------
(* Candles.  Bar k is the one that opens at k * Bar. *)

CloseTime(k) == Bar * (k + 1)

(* _fetch_candles: the last Candles bars and their closes, the open one       *)
(* included.                                                                 *)
FetchCandles ==
    LET last == now \div Bar
    IN  [k \in {n \in 0..last : n > last - Candles} |->
            IF k = last THEN now ELSE CloseTime(k)]

(* Mutant: the candle the target falls into is taken. *)
CandleOfTarget(candles, target) == {k \in DOMAIN candles : k = target \div Bar}

(* Mutant: the tolerance is the minute a cycle drifts by. *)
CandleWithinMinute(candles, target) ==
    {k \in DOMAIN candles : Gap(CloseTime(k), target) <= 1}

(* find_realized_close: the candle whose close is closest to the target, if   *)
(* it is within tolerance.                                                   *)
RealizedCandle(candles, target) ==
    {k \in DOMAIN candles :
        /\ Gap(CloseTime(k), target) <= CloseMatchTol
        /\ \A n \in DOMAIN candles :
              Gap(CloseTime(k), target) <= Gap(CloseTime(n), target)}

-------------------------------------------------------------------------------
NoSnap == [candles |-> [k \in {} |-> None], asked |-> 0, at |-> 0,
           whole |-> TRUE]

Init ==
    /\ now = 0
    /\ pc = "idle" /\ snap = NoSnap /\ todo = {}
    /\ oi = {} /\ funding = 0 /\ predicted = {} /\ foundOi = TRUE
    /\ rows = <<>> /\ predictions = 0

(* Time passes, also while a cycle waits for the network: one step at most,   *)
(* between the two ends of its snapshot or before its predictions.  Database   *)
(* rows are read and written in no time.                                     *)
Tick ==
    /\ now + Step <= MaxTime
    /\ pc \in {"idle", "stamp", "pending"}
    /\ pc # "idle" => now = snap.asked
    /\ now' = now + Step
    /\ UNCHANGED <<pc, locals, buffers, rows, predictions>>

(* get_snapshot asks for the mids, then for the candles, and is stamped with  *)
(* the time at which it is complete.                                         *)
GetSnapshot ==
    /\ pc = "idle"
    /\ snap' = [candles |-> FetchCandles, asked |-> now, at |-> 0,
               whole |-> TRUE]
    /\ pc' = "stamp"
    /\ UNCHANGED <<now, todo, buffers, rows, predictions>>

Stamp ==
    /\ pc = "stamp"
    /\ snap' = [snap EXCEPT !.at = now]
    /\ pc' = "pending"
    /\ UNCHANGED <<now, todo, buffers, rows, predictions>>

Target(r) == r.ts + HorizonBars * Bar

(* tree_predictions_needing_backfill: unscored rows that are not too old.    *)
NeedingBackfill ==
    {i \in DOMAIN rows : rows[i].realized = None /\ rows[i].ts >= now - MaxAge}

ReadPending ==
    /\ pc = "pending"
    /\ todo' = NeedingBackfill
    /\ pc' = "score"
    /\ UNCHANGED <<now, snap, buffers, rows, predictions>>

(* Mutant: the horizon need not have elapsed. *)
ElapsedAlways(r) == TRUE

(* The guard of backfill_from_snapshot. *)
Elapsed(r) == Target(r) <= snap.at

(* score_prediction and update_tree_outcome; the candle may be the one that   *)
(* is still forming.                                                        *)
Scored(r, k, correct) ==
    [r EXCEPT !.realized = snap.candles[k], !.correct = correct]

(* One row of the loop: scored, skipped, or failed and skipped.              *)
ScoreRow ==
    /\ pc = "score" /\ todo # {}
    /\ LET i  == CHOOSE n \in todo : \A m \in todo : n <= m
           ks == RealizedCandle(snap.candles, Target(rows[i]))
       IN  /\ todo' = todo \ {i}
           /\ IF Elapsed(rows[i]) /\ ks # {}
              THEN \E k \in ks, correct \in BOOLEAN :
                      rows' = [rows EXCEPT ![i] = Scored(@, k, correct)]
              ELSE rows' = rows
    /\ UNCHANGED <<now, pc, snap, buffers, predictions>>

BackfillDone ==
    /\ pc = "score" /\ todo = {}
    /\ pc' = "predict"
    /\ UNCHANGED <<now, locals, buffers, rows, predictions>>

(* A row, or the query, raises; the rest of the cycle goes on without it.    *)
BackfillFails ==
    /\ \/ /\ pc = "score" /\ todo # {} /\ pc' = pc
          /\ todo' = todo \ {CHOOSE n \in todo : \A m \in todo : n <= m}
       \/ pc = "pending" /\ pc' = "predict" /\ todo' = todo
    /\ snap' = [snap EXCEPT !.whole = FALSE]
    /\ UNCHANGED <<now, buffers, rows, predictions>>

(* Mutant: the buffer is cut to the lag itself. *)
OiAfterLag(t) == {s \in oi \cup {t} : s >= t - OiLag + Step}

(* _update_state: the new reading is kept with those of the last OiBuffer.   *)
OiAfter(t) == {s \in oi \cup {t} : s >= t - OiBuffer}

FundingAfter == IF funding < FundingKeep THEN funding + 1 ELSE FundingKeep

(* _oi_24h_ago: the reading closest to the target, if one is near enough.    *)
Oi24hAgo(readings, t) ==
    LET near == {s \in readings : Gap(s, t - OiLag) <= OiTol}
    IN  {s \in near : \A r \in near : Gap(s, t - OiLag) <= Gap(r, t - OiLag)}

(* predict, and the row of log_tree_prediction, stamped when it is written;  *)
(* building the features or writing the row may fail.                        *)
Predict ==
    /\ pc = "predict" /\ predictions < MaxPredictions
    /\ oi' = OiAfter(snap.at) /\ funding' = FundingAfter
    /\ predicted' = predicted \cup {snap.at}
    /\ foundOi' = (Oi24hAgo(oi', snap.at) # {})
    /\ predictions' = predictions + 1
    /\ pc' = "idle" /\ snap' = NoSnap
    /\ \/ rows' = rows
       \/ rows' = Append(rows, [ts |-> now, realized |-> None, correct |-> FALSE])
    /\ UNCHANGED <<now, todo>>

(* A call of the cycle raises. *)
Abort ==
    /\ pc # "idle"
    /\ pc' = "idle" /\ snap' = NoSnap /\ todo' = {}
    /\ UNCHANGED <<now, buffers, rows, predictions>>

(* try_build_predictor at startup: the buffers begin empty.                  *)
Restart ==
    /\ predicted # {} \/ pc # "idle"
    /\ pc' = "idle" /\ snap' = NoSnap /\ todo' = {}
    /\ oi' = {} /\ funding' = 0 /\ predicted' = {} /\ foundOi' = TRUE
    /\ UNCHANGED <<now, rows, predictions>>

Next ==
    \/ Tick \/ GetSnapshot \/ Stamp \/ ReadPending \/ ScoreRow \/ BackfillDone
    \/ BackfillFails \/ Predict \/ Abort \/ Restart

Spec == Init /\ [][Next]_vars

-------------------------------------------------------------------------------
(* tree_accuracy_summary, what drift_check computes its verdict from.        *)

Recent(hours) == {i \in DOMAIN rows : rows[i].ts >= now - hours}

ScoredCount(hours) == Cardinality({i \in Recent(hours) : rows[i].realized # None})

CorrectCount(hours) == Cardinality({i \in Recent(hours) : rows[i].correct})

-------------------------------------------------------------------------------
(* Properties. *)

RowType == [ts : 0..now, realized : 0..now \cup {None}, correct : BOOLEAN]

(* The shape of the table, the snapshot and the buffers; funding readings     *)
(* never outgrow the day they stand for.                                     *)
TypeOK ==
    /\ now \in 0..MaxTime
    /\ pc \in {"idle", "stamp", "pending", "score", "predict"}
    /\ rows \in Seq(RowType) /\ todo \subseteq DOMAIN rows
    /\ oi \subseteq 0..now /\ predicted \subseteq 0..now
    /\ funding \in 0..FundingKeep
    /\ foundOi \in BOOLEAN

(* "scored against the 15m candle whose close lands at approximately          *)
(* t + H x 15min" (tree_outcomes.py:3): whatever the phase of the cycles in   *)
(* the bar and however late a row is scored, it is scored with a price the     *)
(* asset had within the tolerance of the target.                             *)
ScoredNearTarget ==
    \A i \in DOMAIN rows :
        LET r == rows[i]
        IN  r.realized # None => Gap(r.realized, Target(r)) <= CloseMatchTol

(* Half a bar of tolerance leaves no gap between two candles: a backfill that *)
(* did not fail has scored every row young enough whose horizon has elapsed   *)
(* and whose target the snapshot reaches back to.                            *)
NoneFallsBetweenCandles ==
    pc = "predict" /\ snap.whole =>
        \A i \in DOMAIN rows :
            /\ rows[i].ts >= now - MaxAge
            /\ Target(rows[i]) <= snap.at
            /\ \E k \in DOMAIN snap.candles : CloseTime(k) <= Target(rows[i])
            => rows[i].realized # None

(* A row is scored once, whatever candles later cycles see, and not before    *)
(* its horizon has elapsed.                                                  *)
ScoredOnceAfterHorizon ==
    [][\A i \in DOMAIN rows :
          rows'[i] # rows[i] => rows[i].realized = None /\ Target(rows[i]) <= now]_vars

(* Predictions follow each other at most this far apart, from the lag on.    *)
Steady ==
    LET far   == OiBuffer - OiLag + OiTol
        last  == CHOOSE t \in predicted : \A s \in predicted : s <= t
    IN  /\ \E s \in predicted : s <= last - OiLag + OiTol
        /\ \A s \in predicted \ {last} : \E t \in predicted : s < t /\ t - s <= far

(* "slightly more than 24h so we always have a reading within +-90min of the  *)
(* 24h-ago target" (tree_model.py:41): true of a process whose cycles have    *)
(* not been interrupted for longer than the buffer and the tolerance allow.   *)
OiReadingWhenSteady == predicted # {} /\ Steady => foundOi

(* One prediction more that came true never turns the verdict for the worse,  *)
(* for the predictions scored so far and a few more.  Left out is the branch   *)
(* for a live accuracy without any variance ("no measurable variance", OK):   *)
(* there a backtest without variance hides that no prediction came true.      *)
MoreHitsNeverWorse ==
    LET scored == ScoredCount(MaxAge)
    IN  /\ CorrectCount(MaxAge) <= scored
        /\ \A n \in scored..(scored + 3) : \A hits \in 1..n :
              Variance(n, hits - 1) # 0 =>
                  ComputeVerdict(n, hits) <= ComputeVerdict(n, hits - 1)
===============================================================================
