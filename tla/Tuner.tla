--------------------------------- MODULE Tuner ---------------------------------
(***************************************************************************)
(* tuning.py: the Tuner's three search strategies under the loop guard.    *)
(* The search is sequential; one step is one iteration of a strategy's     *)
(* loop: evaluate a candidate (or find it in the trial cache), consider it *)
(* against the best so far, check whether to halt.  What a trial measures  *)
(* is the environment's choice, made once per candidate.                   *)
(***************************************************************************)
EXTENDS Measurement, Sequences, FiniteSets

CONSTANT Jobs   \* the searches considered

None   == << >>
\* A candidate: a value for each dimension.
Coords == Seq(Int) \ {None}

Statuses == {"COMPLETED", "FAILED", "ABORTED"}

\* A Trial, less what the search never reads.  `noise' is NoStats when there are
\* no replicate statistics.  With replicates, the status is the first one's, and a
\* trial is comparable or feasible only if all of them completed.
NoStats == -1
Trial == [status : Statuses, comparable : BOOLEAN, feasible : BOOLEAN,
          median : Int, noise : Nat \cup {NoStats}, gpu : Nat, cost : Nat]

\* max_trials = 0, max_gpu = 0 and max_cost = 0 stand for None.
LoopBudget == [max_trials : Nat, hard_cap : Nat, max_aborts : Nat,
               streak_k : Nat, no_progress_m : Nat, max_gpu : Nat, max_cost : Nat]

\* What a Tuner is constructed and called with: TuneDim.values of each dimension
\* (grid, coordinate) or the bounds lo, hi of the only one (refine); rounds is
\* coordinate's max_passes too.  The baseline is at `start', mde is in percent,
\* `attributable' is false for a memory metric that is not measured in a subprocess,
\* and `outcomes' are the trials that evaluating a candidate may give.  The bounds of
\* a refinement may be any two values, and its baseline need not be within them.
\* `grain' is what its points are rounded to (0.0001), in a unit small enough for
\* each round's interval to be quartered exactly.
ExactQuarters(j) ==
    /\ j.grain \in Nat /\ j.grain >= 4
    /\ \A x \in {j.lo, j.hi, j.start[1], j.grain} : x % 4^j.rounds = 0

IsJob(j) ==
    /\ j.strategy \in {"grid", "refine", "coordinate"}
    /\ j.start \in Coords
    /\ j.dims \in Seq(Seq(Int))
    /\ j.lo \in Int /\ j.hi \in Int
    /\ IF j.strategy = "refine"
       THEN Len(j.start) = 1 /\ ExactQuarters(j)
       ELSE Len(j.start) = Len(j.dims)
    /\ j.strategy = "grid" => Len(j.dims) = 1
    /\ j.points \in Nat \ {0, 1}
    /\ j.rounds \in Nat \ {0}
    /\ j.minimize \in BOOLEAN /\ j.attributable \in BOOLEAN
    /\ j.mde \in Nat
    /\ j.budget \in LoopBudget
    /\ j.outcomes \subseteq Trial
    /\ \A t \in j.outcomes : t.comparable \/ t.feasible => t.status = "COMPLETED"

ASSUME TunerAssumption == \A j \in Jobs : IsJob(j)

VARIABLES
    job,        \* the search; fixed
    pc,         \* "start", "search", "done"
    trial,      \* the trial of each candidate evaluated so far (self._cache)
    trials,     \* the candidates in the order of their trials (self.trials)
    best,       \* the best candidate so far, or None
    incumbent,  \* coordinate: the candidate the sweep varies
    pos,        \* where the strategy's loops are
    streak, aborts, stale, gpu, cost,   \* guard state; stale is _since_improve
    late,       \* has the wall-clock budget passed?
    halt        \* _halt, the latched halt reason; "none" while there is none

search == <<best, incumbent, pos>>
guard  == <<streak, aborts, gpu, cost, late>>
vars   == <<job, pc, trial, trials, search, guard, stale, halt>>

budget == job.budget
Ran(c) == c \in DOMAIN trial

Ask == {"BASELINE_UNGROUNDED", "NONCOMPARABLE_STREAK"}
Reasons == Ask \cup {"BUDGET_TRIALS", "BUDGET_WALLCLOCK", "BUDGET_ABORTS",
                     "BUDGET_GPU_HOURS", "BUDGET_COST", "NO_PROGRESS"}

\* _halt or SEARCH_EXHAUSTED, once the search is over.
Reason == IF halt = "none" THEN "SEARCH_EXHAUSTED" ELSE halt

TypeOK ==
    /\ job \in Jobs
    /\ pc \in {"start", "search", "done"}
    /\ DOMAIN trial \subseteq Coords /\ trial \in [DOMAIN trial -> job.outcomes]
    /\ trials \in Seq(Coords)
    /\ best \in Coords \cup {None}
    /\ incumbent \in Coords
    /\ pos \in [round : 1..(job.rounds + 1), dim : Nat \ {0}, i : Nat \ {0},
                lo : Int, hi : Int, changed : BOOLEAN]
    /\ {streak, aborts, stale, gpu, cost} \subseteq Nat
    /\ late \in BOOLEAN
    /\ halt \in Reasons \cup {"none"}

\* The strategy's own size: the trial limit when max_trials is None.
SumOfLengths == Cardinality(UNION {{d} \X DOMAIN job.dims[d] : d \in DOMAIN job.dims})
StrategySize == CASE job.strategy = "grid"       -> Len(job.dims[1])
                  [] job.strategy = "refine"     -> job.points * job.rounds
                  [] job.strategy = "coordinate" -> job.rounds * SumOfLengths

MaxTrials ==
    LET wanted == IF budget.max_trials = 0 THEN StrategySize ELSE budget.max_trials
    IN  IF wanted < budget.hard_cap THEN wanted ELSE budget.hard_cap

Init ==
    /\ job \in Jobs
    /\ pc = "start"
    /\ trial = << >>
    /\ trials = << >>
    /\ best = None
    /\ incumbent = job.start
    /\ pos = [round |-> 1, dim |-> 1, i |-> 1, lo |-> job.lo, hi |-> job.hi, changed |-> FALSE]
    /\ streak = 0 /\ aborts = 0 /\ stale = 0 /\ gpu = 0 /\ cost = 0
    /\ late = FALSE
    /\ halt = "none"

-----------------------------------------------------------------------------
(* One evaluation: _eval, _record, _consider, _check_halt                  *)

Recorded(c, t) == [d \in DOMAIN trial \cup {c} |-> IF d = c THEN t ELSE trial[d]]

\* Mutant: a fair trial does not end the streak.
EvaluateStreak(c) ==
    IF Ran(c)
    THEN UNCHANGED <<trial, trials, streak, aborts, gpu, cost>>
    ELSE \E t \in job.outcomes :
           /\ trial' = Recorded(c, t)
           /\ trials' = Append(trials, c)
           /\ gpu' = gpu + t.gpu
           /\ cost' = cost + t.cost
           /\ streak' = IF t.comparable THEN streak ELSE streak + 1
           /\ aborts' = IF ~t.comparable /\ t.status # "COMPLETED" THEN aborts + 1 ELSE aborts

\* A candidate already in the cache costs nothing and counts for nothing.
Evaluate(c) ==
    IF Ran(c)
    THEN UNCHANGED <<trial, trials, streak, aborts, gpu, cost>>
    ELSE \E t \in job.outcomes :
           /\ trial' = Recorded(c, t)
           /\ trials' = Append(trials, c)
           /\ gpu' = gpu + t.gpu
           /\ cost' = cost + t.cost
           /\ streak' = IF t.comparable THEN 0 ELSE streak + 1
           /\ aborts' = IF ~t.comparable /\ t.status # "COMPLETED" THEN aborts + 1 ELSE aborts

\* _better(): b is NoTrial when there is no best yet.
NoTrial == [status |-> "NONE"]
Better(a, b) ==
    /\ a.comparable /\ a.feasible
    /\ job.attributable
    /\ \/ b = NoTrial
       \/ /\ b # NoTrial /\ a.noise # NoStats /\ b.noise # NoStats
          /\ IsRealImprovement(b, a, job.mde, job.minimize)
       \/ /\ b # NoTrial /\ (a.noise = NoStats \/ b.noise = NoStats)
          /\ IF job.minimize THEN a.median < b.median ELSE a.median > b.median

BestTrial == IF best = None THEN NoTrial ELSE trial[best]

\* Mutants: the patience is counted down; a trial is compared with the baseline
\* and not with the best.
ConsiderCountsDown(c) ==
    LET t == trial'[c] IN
    IF Better(t, BestTrial)
    THEN best' = c /\ stale' = 0
    ELSE best' = best /\ stale' = stale - (IF t.comparable THEN 1 ELSE 0)

ConsiderBaseline(c) ==
    LET t == trial'[c] IN
    IF Better(t, trial[job.start])
    THEN best' = c /\ stale' = 0
    ELSE best' = best /\ stale' = stale + (IF t.comparable THEN 1 ELSE 0)

Consider(c) ==
    LET t == trial'[c] IN
    IF Better(t, BestTrial)
    THEN best' = c /\ stale' = 0
    ELSE best' = best /\ stale' = stale + (IF t.comparable THEN 1 ELSE 0)

\* Mutant: the trial limit is passed by one.
TripsLate == <<
    <<"NONCOMPARABLE_STREAK", streak' >= budget.streak_k>>,
    <<"BUDGET_ABORTS", aborts' >= budget.max_aborts>>,
    <<"BUDGET_TRIALS", Len(trials') > MaxTrials>>,
    <<"NO_PROGRESS", stale' >= budget.no_progress_m>> >>

\* The reasons in the order the code tests them, each with its condition on the
\* guard state after the evaluation.
Trips == <<
    <<"NONCOMPARABLE_STREAK", streak' >= budget.streak_k>>,
    <<"BUDGET_ABORTS", aborts' >= budget.max_aborts>>,
    <<"BUDGET_TRIALS", Len(trials') >= MaxTrials>>,
    <<"BUDGET_WALLCLOCK", late'>>,
    <<"BUDGET_GPU_HOURS", budget.max_gpu # 0 /\ gpu' >= budget.max_gpu>>,
    <<"BUDGET_COST", budget.max_cost # 0 /\ cost' >= budget.max_cost>>,
    <<"NO_PROGRESS", stale' >= budget.no_progress_m>> >>

CheckHalt ==
    /\ late' \in {late, TRUE}
    /\ \/ /\ \A k \in 1..Len(Trips) : ~Trips[k][2]
          /\ halt' = "none" /\ pc' = "search"
       \/ \E k \in 1..Len(Trips) :
             /\ Trips[k][2] /\ \A j \in 1..(k - 1) : ~Trips[j][2]
             /\ halt' = Trips[k][1] /\ pc' = "done"

\* The baseline trial: it must be comparable, it goes through the same
\* comparison, and the guard is not consulted after it.  A round or a pass
\* starts with _since_improve = 0.
EvalStart ==
    /\ pc = "start"
    /\ Evaluate(job.start)
    /\ IF trial'[job.start].comparable
         THEN /\ best' = IF Better(trial'[job.start], NoTrial) THEN job.start ELSE None
              /\ stale' = IF job.strategy = "grid" /\ best' = None THEN 1 ELSE 0
              /\ pc' = "search" /\ UNCHANGED halt
         ELSE /\ UNCHANGED <<best, stale>>
              /\ pc' = "done" /\ halt' = "BASELINE_UNGROUNDED"
    /\ UNCHANGED <<job, incumbent, pos, late>>

Try(c) ==
    /\ Evaluate(c)
    /\ Consider(c)
    /\ CheckHalt
    /\ pos' = [pos EXCEPT !.i = @ + 1]

\* The loops ran to their end (or a round found no best): no halt reason.
Stop == pc' = "done" /\ UNCHANGED <<job, trial, trials, search, guard, stale, halt>>

-----------------------------------------------------------------------------
(* grid(): every value of the dimension but the start's                    *)

\* One dimension changed; a grid has no other.
Candidate == [incumbent EXCEPT ![pos.dim] = job.dims[pos.dim][pos.i]]

GridStep ==
    /\ pc = "search" /\ job.strategy = "grid"
    /\ pos.i <= Len(job.dims[1])
    /\ LET c == Candidate IN
         IF c = job.start
         THEN /\ pos' = [pos EXCEPT !.i = @ + 1]
              /\ UNCHANGED <<pc, trial, trials, best, guard, stale, halt>>
         ELSE Try(c)
    /\ UNCHANGED <<job, incumbent>>

\* Mutant: the last value is left out.
GridEndEarly ==
    /\ pc = "search" /\ job.strategy = "grid"
    /\ pos.i >= Len(job.dims[1])
    /\ Stop

GridEnd ==
    /\ pc = "search" /\ job.strategy = "grid"
    /\ pos.i > Len(job.dims[1])
    /\ Stop

-----------------------------------------------------------------------------
(* refine(): rounds of evenly spaced points, zooming in on the best        *)

\* round(..., 4) of point i of the interval: the nearest multiple of the grain, and
\* either one half-way between two.
Points(i) ==
    LET n == job.points - 1
        x == pos.lo * n + (pos.hi - pos.lo) * (i - 1)
        k == x \div (n * job.grain)
    IN  {v \in {k * job.grain, (k + 1) * job.grain} :
           /\ 2 * (v * n) <= 2 * x + n * job.grain
           /\ 2 * x - n * job.grain <= 2 * (v * n)}

RefineStep ==
    /\ pc = "search" /\ job.strategy = "refine"
    /\ pos.round <= job.rounds
    /\ pos.i <= job.points
    /\ \E v \in Points(pos.i) : Try(<<v>>)
    /\ UNCHANGED <<job, incumbent>>

\* After a round: stop without a best, else halve the interval around it.  Around a
\* best outside the bounds this may turn the interval over (lo > hi).
NextRound ==
    /\ pc = "search" /\ job.strategy = "refine"
    /\ pos.round <= job.rounds
    /\ pos.i > job.points
    /\ best # None
    /\ LET quarter == (pos.hi - pos.lo) \div 4
           b == best[1]
       IN pos' = [pos EXCEPT !.round = @ + 1, !.i = 1,
                     !.lo = IF b - quarter > job.lo THEN b - quarter ELSE job.lo,
                     !.hi = IF b + quarter < job.hi THEN b + quarter ELSE job.hi]
    /\ stale' = IF pos.round < job.rounds THEN 0 ELSE stale
    /\ UNCHANGED <<job, pc, trial, trials, best, incumbent, guard, halt>>

\* Mutant: a round that finds no best does not end the search.
RefineEndLate ==
    /\ pc = "search" /\ job.strategy = "refine"
    /\ pos.round > job.rounds
    /\ Stop

RefineEnd ==
    /\ pc = "search" /\ job.strategy = "refine"
    /\ \/ pos.round > job.rounds
       \/ pos.i > job.points /\ best = None
    /\ Stop

-----------------------------------------------------------------------------
(* coordinate(): sweep the dimensions in turn, moving to every improvement *)

CoordinateStep ==
    /\ pc = "search" /\ job.strategy = "coordinate"
    /\ pos.round <= job.rounds
    /\ pos.dim <= Len(job.dims)
    /\ pos.i <= Len(job.dims[pos.dim])
    /\ Evaluate(Candidate)
    /\ Consider(Candidate)
    /\ CheckHalt
    /\ IF best' # best
         THEN incumbent' = Candidate /\ pos' = [pos EXCEPT !.i = @ + 1, !.changed = TRUE]
         ELSE incumbent' = incumbent /\ pos' = [pos EXCEPT !.i = @ + 1]
    /\ UNCHANGED job

NextDimension ==
    /\ pc = "search" /\ job.strategy = "coordinate"
    /\ pos.dim <= Len(job.dims)
    /\ pos.i > Len(job.dims[pos.dim])
    /\ pos' = [pos EXCEPT !.dim = @ + 1, !.i = 1]
    /\ UNCHANGED <<job, pc, trial, trials, best, incumbent, guard, stale, halt>>

\* A pass that changed something is followed by another, up to max_passes.
NextPass ==
    /\ pc = "search" /\ job.strategy = "coordinate"
    /\ pos.dim > Len(job.dims)
    /\ pos.changed
    /\ pos.round < job.rounds
    /\ pos' = [pos EXCEPT !.round = @ + 1, !.dim = 1, !.i = 1, !.changed = FALSE]
    /\ stale' = 0
    /\ UNCHANGED <<job, pc, trial, trials, best, incumbent, guard, halt>>

CoordinateEnd ==
    /\ pc = "search" /\ job.strategy = "coordinate"
    /\ pos.dim > Len(job.dims)
    /\ ~pos.changed \/ pos.round = job.rounds
    /\ Stop

Step == \/ EvalStart
        \/ GridStep \/ GridEnd
        \/ RefineStep \/ NextRound \/ RefineEnd
        \/ CoordinateStep \/ NextDimension \/ NextPass \/ CoordinateEnd

Done == pc = "done" /\ UNCHANGED vars

Next == Step \/ Done

\* One thread runs the search, and every trial ends.
Spec == Init /\ [][Next]_vars /\ WF_vars(Step)

-----------------------------------------------------------------------------
\* TuningResult.recommendation.
RecommendationSafe ==
    best # None /\ trial[best].comparable /\ trial[best].feasible /\ Reason \notin Ask
Recommended == IF pc = "done" /\ RecommendationSafe THEN best ELSE None

\* Searches whose fair trials can be put in order: a positive metric, an effect
\* that must be more than nothing, and replicate statistics for all or for none.
\* A negative metric turns the sign of the relative gain, and a trial that lacks
\* statistics is compared without regard to noise.
OneScale(j) ==
    LET fair == {t \in j.outcomes : t.comparable /\ t.feasible} IN
    /\ j.mde > 0
    /\ \A t \in fair : t.median > 0
    /\ (\A t \in fair : t.noise = NoStats) \/ (\A t \in fair : t.noise # NoStats)

\* What the search passed over does not beat its best.  A trial is compared with
\* the best of its time only, and noise makes two trials incomparable; yet no
\* trial, whenever it was run, is a real improvement on the best there is now,
\* and there is a best as soon as a trial could be one.  What is recommended at
\* the end is no worse than a feasible baseline, noise or not.
NothingBeatsTheBest ==
    /\ \A c \in DOMAIN trial : ~Better(trial[c], BestTrial)
    /\ Recommended # None /\ trial[job.start].feasible =>
         IF job.minimize THEN trial[Recommended].median <= trial[job.start].median
                         ELSE trial[Recommended].median >= trial[job.start].median

\* The guard's counters tell the truth about the trials run: the streak is the
\* run of non-comparable trials at the end, aborts the failed ones among all,
\* and no candidate is run twice.
CountersMatchTrials ==
    LET n == Len(trials)
        bad(k) == ~trial[trials[k]].comparable
    IN /\ streak <= n
       /\ \A k \in (n - streak + 1)..n : bad(k)
       /\ streak < n => ~bad(n - streak)
       /\ aborts = Cardinality({k \in 1..n : trial[trials[k]].status # "COMPLETED"})
       /\ n = Cardinality(DOMAIN trial)

\* The search never churns: the limits on trials, on the streak and on the
\* aborts are reached, never passed, and no trial is launched once the GPU-hours
\* or the cost are used up -- but for the trial of the first candidate, which is
\* run without consulting the guard after the baseline.  A refinement from a
\* baseline within the bounds stays within half a grain of them: rounding may step
\* over a bound, and the best found there turn the interval over, but round after
\* round this does not add up.
SearchIsBounded ==
    /\ Len(trials) > 2 => Len(trials) <= MaxTrials
    /\ streak > 1 => streak <= budget.streak_k
    /\ aborts > 1 => aborts <= budget.max_aborts
    /\ Len(trials) > 2 =>
         LET last == trial[trials[Len(trials)]] IN
           /\ budget.max_gpu # 0 => gpu - last.gpu < budget.max_gpu
           /\ budget.max_cost # 0 => cost - last.cost < budget.max_cost
    /\ job.strategy = "refine" /\ job.start[1] \in job.lo..job.hi =>
         \A c \in DOMAIN trial : /\ 2 * job.lo - job.grain <= 2 * c[1]
                                 /\ 2 * c[1] <= 2 * job.hi + job.grain

\* The trial limit leaves room for every value of the grid, and the baseline is one.
RoomForAll ==
    /\ job.strategy = "grid" /\ MaxTrials >= Len(job.dims[1])
    /\ \E i \in 1..Len(job.dims[1]) : job.start[1] = job.dims[1][i]

\* A grid or coordinate search that ends by itself, and not on its last pass, has
\* run every value (every neighbour of the recommendation along one dimension), and
\* none is better.  So has a grid with room for all its values that the trial limit
\* ends: no value is left when it does.
SearchIsComplete ==
    /\ pc = "done" /\ job.strategy # "refine"
    /\ \/ halt = "none" /\ ~pos.changed
       \/ halt = "BUDGET_TRIALS" /\ RoomForAll
    => \A d \in 1..Len(job.dims) : \A i \in 1..Len(job.dims[d]) :
         LET c == [incumbent EXCEPT ![d] = job.dims[d][i]]
         IN  Ran(c) /\ ~Better(trial[c], BestTrial)

\* Every search ends.
Terminates == <>(pc = "done")

=============================================================================
