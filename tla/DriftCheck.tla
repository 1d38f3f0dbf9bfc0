------------------------------ MODULE DriftCheck ------------------------------
(***************************************************************************)
(* The verdict of scripts/drift_check.py on the live accuracy of the tree    *)
(* advisor.  The z-score is compared without its root and quotient: z < -t   *)
(* exactly when the accuracy is below the mean and the squared distance      *)
(* exceeds t squared times the combined variance.                            *)
(***************************************************************************)
EXTENDS Integers

CONSTANTS BacktestMean,  \* walk_forward_summary.accuracy.mean, in percent
          BacktestVar,   \* the square of its std, in percent squared
          MinSamples     \* --min-samples

ASSUME DriftAssumption ==
    /\ BacktestMean \in 0..100 /\ BacktestVar \in Nat
    /\ MinSamples \in Nat \ {0}

(* (mean - accuracy)^2 and the combined variance, in percent squared, times n^3. *)
Distance(n, hits) ==
    LET d == BacktestMean * n - 100 * hits IN d * d * n

Variance(n, hits) == BacktestVar * n * n * n + 10000 * hits * (n - hits)

(* z < -t / 2. *)
Below(n, hits, t) ==
    /\ 100 * hits < BacktestMean * n
    /\ 4 * Distance(n, hits) > t * t * Variance(n, hits)

(* Mutant: the sign of the z-score is lost. *)
UnsignedVerdict(n, hits) ==
    IF n < MinSamples \/ Variance(n, hits) = 0 THEN 0
    ELSE IF 4 * Distance(n, hits) > 25 * Variance(n, hits) THEN 2
    ELSE IF 4 * Distance(n, hits) > 9 * Variance(n, hits) THEN 1 ELSE 0

(* The exit code: 0 for OK or INSUFFICIENT, 1 for WARN, 2 for ALERT.          *)
ComputeVerdict(n, hits) ==
    IF n < MinSamples \/ Variance(n, hits) = 0 THEN 0
    ELSE IF Below(n, hits, 5) THEN 2
    ELSE IF Below(n, hits, 3) THEN 1 ELSE 0
===============================================================================
