-------------------------------- MODULE MCTuner --------------------------------
(* Small instances of Tuner: the searches, the trials that may come out of an *)
(* evaluation and the budgets.                                                *)
EXTENDS Tuner

\* A trial that every replicate completed, fairly.
Fair(median, noise) ==
    [status |-> "COMPLETED", comparable |-> TRUE, feasible |-> TRUE,
     median |-> median, noise |-> noise, gpu |-> 1, cost |-> 1]

\* Fair but below the quality floor; measured another configuration; stopped by
\* the guard.
BelowFloor     == [Fair(1, NoStats) EXCEPT !.feasible = FALSE]
OtherSignature == [Fair(1, NoStats) EXCEPT !.comparable = FALSE]
Aborted        == [Fair(1, NoStats) EXCEPT !.status = "ABORTED", !.comparable = FALSE,
                                           !.feasible = FALSE, !.gpu = 0, !.cost = 0]
Broken == {BelowFloor, OtherSignature, Aborted}

Wide == [max_trials |-> 0, hard_cap |-> 64, max_aborts |-> 5, streak_k |-> 3,
         no_progress_m |-> 9, max_gpu |-> 0, max_cost |-> 0]

\* Grid over five values of which the baseline is the third, with no limit but
\* the grid's own size, then with one limit at a time.
Grid == [strategy |-> "grid", start |-> <<3>>, dims |-> << <<1, 2, 3, 4, 5>> >>,
         lo |-> 0, hi |-> 0, grain |-> 1, points |-> 2, rounds |-> 1, minimize |-> TRUE, mde |-> 3,
         attributable |-> TRUE,
         budget |-> Wide, outcomes |-> Broken \cup {Fair(m, NoStats) : m \in {1, 2}}]
Limits == {Wide,
           [Wide EXCEPT !.max_trials = 9],
           [Wide EXCEPT !.max_trials = 2],
           [Wide EXCEPT !.hard_cap = 3],
           [Wide EXCEPT !.max_aborts = 2, !.streak_k = 9],
           [Wide EXCEPT !.no_progress_m = 2],
           [Wide EXCEPT !.max_gpu = 3],
           [Wide EXCEPT !.max_cost = 3]}

\* Replicated trials over four values: medians and noise around an effect of 40
\* percent, so that many pairs are not comparable.
Noisy == [Grid EXCEPT !.start = <<1>>, !.dims = << <<1, 2, 3, 4>> >>, !.mde = 40,
                      !.budget.max_trials = 9,
                      !.outcomes = {Fair(m, s) : m \in {2, 3, 6}, s \in {0, 1, 8}}]

\* Refine 0..16 grains in three rounds of three points, from a baseline off the grid.
Refine == [Grid EXCEPT !.strategy = "refine", !.start = <<5 * 64>>, !.hi = 16 * 64,
                       !.grain = 64, !.points = 3, !.rounds = 3,
                       !.outcomes = {Fair(1, NoStats), Fair(2, NoStats), BelowFloor}]
\* Bounds finer than the grain, a quarter and three quarters of one; and a baseline
\* outside the bounds.
Fine    == [Refine EXCEPT !.start = <<2 * 64>>, !.lo = 64, !.hi = 3 * 64, !.grain = 4 * 64]
Outside == [Refine EXCEPT !.start = <<24 * 64>>]

\* Coordinate descent over two dimensions, of two and three values.
Plane == [Grid EXCEPT !.strategy = "coordinate", !.start = <<1, 2>>, !.rounds = 3,
                      !.dims = << <<1, 2>>, <<1, 2, 3>> >>, !.minimize = FALSE,
                      !.outcomes = {Fair(m, NoStats) : m \in 1..3} \cup {BelowFloor, Aborted}]

MCJobs   == {[Grid EXCEPT !.budget = b] : b \in Limits}
              \cup {[Grid EXCEPT !.attributable = FALSE], Noisy, Refine, Fine, Outside, Plane}

ASSUME MCJobsAssumption == \A j \in MCJobs : OneScale(j)
=============================================================================
