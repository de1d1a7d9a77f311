------------------------------ MODULE Measurement ------------------------------
(***************************************************************************)
(* measurement.is_real_improvement, on the statistics of two trials: the   *)
(* median, and `noise', which is 9 * stdev^2 / n (the square of three      *)
(* standard errors).  Medians are integers in some unit; the comparisons   *)
(* are multiplied out, so that nothing is rounded.                         *)
(***************************************************************************)
EXTENDS Integers

\* The relative gain over the baseline's median is at least mde percent.
GainReaches(base, gain, mde) ==
    \/ base > 0 /\ 100 * gain >= mde * base
    \/ base < 0 /\ 100 * gain <= mde * base

Gain(base, cand, minimize) == IF minimize THEN base - cand ELSE cand - base

IsRealImprovement(base, cand, mde, minimize) ==
    /\ base.median # 0
    /\ GainReaches(base.median, Gain(base.median, cand.median, minimize), mde)
    /\ (base.median - cand.median) * (base.median - cand.median)
         >= base.noise + cand.noise
=============================================================================
