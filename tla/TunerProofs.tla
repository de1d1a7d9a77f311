----------------------------- MODULE TunerProofs -----------------------------
(***************************************************************************)
(* Proofs about Tuner, for any searches, trials and budgets: what the      *)
(* guard counts, where it stops, what a search that ends by itself has     *)
(* covered, and that nothing it ran beats its best.  One step of a search  *)
(* is an evaluation, a comparison and a look at the guard; each part has   *)
(* lemmas of its own, and the steps of the three strategies share them.    *)
(***************************************************************************)
EXTENDS Tuner, TLAPS, FiniteSetTheorems

Baseline == job.start
TheRan == DOMAIN trial
Sweeps == job.strategy # "refine"
\* The candidate with value i of dimension d.
Neighbour(d, i) == [incumbent EXCEPT ![d] = job.dims[d][i]]

\* Nothing has happened yet.
AtStart ==
    pc = "start" =>
        /\ trials = << >> /\ TheRan = {} /\ best = None
        /\ streak = 0 /\ aborts = 0 /\ gpu = 0 /\ cost = 0 /\ halt = "none"
\* The baseline has been run, and was comparable if the search goes on.
Grounded ==
    /\ pc # "start" => Ran(Baseline)
    /\ pc = "search" => trial[Baseline].comparable
\* The candidates in trials are those that were run.
TrialsAreRun ==
    /\ \A k \in 1..Len(trials) : Ran(trials[k])
    /\ IsFiniteSet(TheRan)
\* A grid runs its values and its baseline, a refinement points of its line.
OnlyCandidatesRun ==
    /\ job.strategy = "grid" =>
         \A c \in TheRan \ {Baseline} : \E i \in 1..Len(job.dims[1]) : c = Neighbour(1, i)
    /\ job.strategy = "refine" => \A c \in TheRan : \E v \in Int : c = <<v>>
\* The limit on trials ends the search when it is reached.
HaltedAtTheLimit == halt = "BUDGET_TRIALS" => Len(trials) >= MaxTrials
\* The best may win.
BestMayWin ==
    best # None =>
        Ran(best) /\ trial[best].comparable /\ trial[best].feasible /\ job.attributable
\* While the search goes on the limits are ahead, but for the trial of the first
\* candidate.
LimitsAhead ==
    pc = "search" =>
        /\ streak = 0 \/ streak < budget.streak_k
        /\ aborts = 0 \/ aborts < budget.max_aborts
        /\ \/ Len(trials) <= 1
           \/ /\ Len(trials) < MaxTrials
              /\ budget.max_gpu # 0 => gpu < budget.max_gpu
              /\ budget.max_cost # 0 => cost < budget.max_cost
\* The limits are reached, never passed.
WithinLimits ==
    /\ Len(trials) > 2 => Len(trials) <= MaxTrials
    /\ streak > 1 => streak <= budget.streak_k
    /\ aborts > 1 => aborts <= budget.max_aborts
    /\ Len(trials) > 2 =>
         /\ budget.max_gpu # 0 =>
              gpu - trial[trials[Len(trials)]].gpu < budget.max_gpu
         /\ budget.max_cost # 0 =>
              cost - trial[trials[Len(trials)]].cost < budget.max_cost
\* A multiple of the grain, and one that is no more than half a grain outside the
\* bounds.
Rounded(v) == \E k \in Int : v = k * job.grain
Near(v) == 2 * job.lo - job.grain <= 2 * v /\ 2 * v <= 2 * job.hi + job.grain
\* What x may be rounded to is near the bounds, though x itself may be further off.
RoundsUpNear(x) ==
    \A v \in Int : Rounded(v) /\ 2 * v <= 2 * x + job.grain => 2 * v <= 2 * job.hi + job.grain
RoundsDownNear(x) ==
    \A v \in Int : Rounded(v) /\ 2 * x - job.grain <= 2 * v => 2 * job.lo - job.grain <= 2 * v
FromWithin == job.strategy = "refine" /\ job.start[1] \in job.lo..job.hi
\* A refinement from within its bounds stays near them: what was run is the baseline
\* or a rounded value, the interval is turned over around a rounded best only, by a
\* grain at most, and both its ends are rounded to what is near the bounds.
WithinBounds ==
    FromWithin =>
        /\ \A c \in TheRan : \/ c = Baseline
                            \/ \E v \in Int : c = <<v>> /\ Rounded(v) /\ Near(v)
        /\ \/ pos.lo <= pos.hi
           \/ \E v \in Int : best = <<v>> /\ Rounded(v)
        /\ pos.lo - pos.hi <= job.grain
        /\ \A x \in {pos.lo, pos.hi} : RoundsUpNear(x) /\ RoundsDownNear(x)
\* A pass that changed nothing has run what it has passed.
SweptSoFar ==
    Sweeps =>
        /\ DOMAIN incumbent = 1..Len(job.dims)
        /\ job.strategy = "grid" => incumbent = Baseline /\ pos.dim = 1
        /\ pos.changed \/
           \A d \in 1..Len(job.dims) : \A i \in 1..Len(job.dims[d]) :
             d < pos.dim \/ (d = pos.dim /\ i < pos.i) => Ran(Neighbour(d, i))
\* A search that ended by itself has passed all there is to pass.
EndedAtTheEnd ==
    Sweeps /\ pc = "done" /\ halt = "none" /\ ~pos.changed =>
        \A d \in 1..Len(job.dims) : \A i \in 1..Len(job.dims[d]) : Ran(Neighbour(d, i))

IInv ==
    /\ AtStart
    /\ Grounded
    /\ TrialsAreRun
    /\ OnlyCandidatesRun
    /\ HaltedAtTheLimit
    /\ BestMayWin
    /\ CountersMatchTrials
    /\ LimitsAhead
    /\ WithinLimits
    /\ WithinBounds
    /\ SweptSoFar
    /\ EndedAtTheEnd

\* Of trials on one scale the best is unbeaten, and no worse than the baseline.
BestIsUnbeaten ==
    /\ \A c \in TheRan : ~Better(trial[c], BestTrial)
    /\ best # None /\ trial[Baseline].feasible =>
         IF job.minimize THEN trial[best].median <= trial[Baseline].median
                         ELSE trial[best].median >= trial[Baseline].median

------------------------------------------------------------------------------
(* The search and its trials.                                              *)

\* What a Tuner is constructed with.
LEMMA JobType ==
    ASSUME job \in Jobs
    PROVE  /\ IsJob(job) /\ None \notin Coords
           /\ job.budget \in LoopBudget
           /\ Baseline \in Coords
           /\ job.dims \in Seq(Seq(Int)) /\ job.lo \in Int /\ job.hi \in Int
           /\ Baseline \in Seq(Int)
           /\ job.strategy # "refine" => Len(job.dims) >= 1 /\ Len(Baseline) = Len(job.dims)
           /\ job.strategy = "refine" =>
                /\ Baseline = <<job.start[1]>> /\ job.start[1] \in Int
                /\ job.grain \in Nat /\ job.grain >= 4
  <1>1. IsJob(job)
    BY TunerAssumption
  <1>2. job.start \in Seq(Int) /\ job.start # << >>
    BY <1>1 DEF IsJob, Coords, None
  <1>3. job.dims \in Seq(Seq(Int)) /\ job.strategy # "refine" => Len(job.start) = Len(job.dims)
    BY <1>1 DEF IsJob
  <1>4. Len(job.start) >= 1
    BY <1>2
  <1>5. ASSUME job.strategy = "refine" PROVE job.start = <<job.start[1]>> /\ job.start[1] \in Int
    BY <1>1, <1>2, <1>5 DEF IsJob
  <1>6. job.strategy = "refine" => job.grain \in Nat /\ job.grain >= 4
    BY <1>1 DEF IsJob, ExactQuarters
  <1>7. job.strategy # "refine" => Len(job.start) = Len(job.dims)
    BY <1>1 DEF IsJob
  <1>8. job.dims \in Seq(Seq(Int)) /\ job.lo \in Int /\ job.hi \in Int /\ job.budget \in LoopBudget
    BY <1>1 DEF IsJob
  <1>9. job.start \in Coords /\ None \notin Coords
    BY <1>1 DEF IsJob, Coords
  <1>. QED
    BY <1>1, <1>2, <1>4, <1>5, <1>6, <1>7, <1>8, <1>9 DEF Baseline

\* What an evaluation may give is a trial, and not the mark of a missing one.
LEMMA OutcomeType ==
    ASSUME job \in Jobs, NEW t \in job.outcomes
    PROVE  /\ t \in Trial /\ t # NoTrial
           /\ t.comparable \/ t.feasible => t.status = "COMPLETED"
  <1>1. t \in Trial /\ (t.comparable \/ t.feasible => t.status = "COMPLETED")
    BY TunerAssumption DEF IsJob
  <1>2. t.status # NoTrial.status
    BY <1>1 DEF Trial, Statuses, NoTrial
  <1>. QED
    BY <1>1, <1>2

\* The trial of a candidate that was run.
LEMMA TrialType ==
    ASSUME TypeOK, NEW c \in Coords, Ran(c)
    PROVE  /\ trial[c] \in job.outcomes /\ trial[c] \in Trial
           /\ trial[c].comparable \/ trial[c].feasible => trial[c].status = "COMPLETED"
  <1>1. trial[c] \in job.outcomes /\ job \in Jobs
    BY DEF TypeOK, Ran
  <1>. QED
    BY <1>1, OutcomeType

\* The limit on trials is a number: a sweep has finitely many candidates.
LEMMA MaxTrialsType ==
    ASSUME job \in Jobs
    PROVE  MaxTrials \in Nat
  <1>1. job.dims \in Seq(Seq(Int)) /\ job.points \in Nat /\ job.rounds \in Nat
    BY JobType DEF IsJob
  <1>2. SumOfLengths \in Nat
    <2> DEFINE Values(d) == {d} \X DOMAIN job.dims[d]
               Each == {Values(d) : d \in DOMAIN job.dims}
               f == [d \in DOMAIN job.dims |-> Values(d)]
    <2>1. IsFiniteSet(DOMAIN job.dims)
      <3>1. DOMAIN job.dims = 1..Len(job.dims) /\ Len(job.dims) \in Int
        BY <1>1
      <3>. QED
        BY <3>1, FS_Interval
    <2>2. \A d \in DOMAIN job.dims : IsFiniteSet(Values(d))
      <3> SUFFICES ASSUME NEW d \in DOMAIN job.dims PROVE IsFiniteSet(Values(d))
        OBVIOUS
      <3>1. job.dims[d] \in Seq(Int)
        BY <1>1
      <3>2. IsFiniteSet(DOMAIN job.dims[d])
        BY <3>1, FS_Interval
      <3>. QED
        BY <3>2, FS_Singleton, FS_Product
    <2>3. IsFiniteSet(Each)
      <3>1. f \in Surjection(DOMAIN job.dims, Each)
        BY DEF Surjection
      <3>. QED
        BY <2>1, <3>1, FS_Surjection
    <2>4. IsFiniteSet(UNION Each)
      BY <2>2, <2>3, FS_UNION
    <2>. QED
      BY <2>4, FS_CardinalityType DEF SumOfLengths
  <1>3. StrategySize \in Nat
    <2>1. CASE job.strategy = "grid"
      <3>1. Len(job.dims) = 1
        BY <2>1, JobType DEF IsJob
      <3>2. job.dims[1] \in Seq(Int)
        BY <1>1, <3>1
      <3>. QED
        BY <2>1, <3>2 DEF StrategySize
    <2>2. CASE job.strategy = "refine"
      BY <1>1, <2>2 DEF StrategySize
    <2>3. CASE job.strategy = "coordinate"
      BY <1>1, <1>2, <2>3 DEF StrategySize
    <2>. QED
      BY <2>1, <2>2, <2>3, JobType DEF IsJob
  <1>. QED
    BY <1>3, JobType DEF MaxTrials, budget, LoopBudget

------------------------------------------------------------------------------
(* One evaluation.                                                         *)

\* It runs the candidate, if it was not run before, and leaves the others.
LEMMA EvaluateRuns ==
    ASSUME TypeOK, job' = job, NEW c \in Coords, Evaluate(c)
    PROVE  /\ \A x : Ran(x)' <=> Ran(x) \/ x = c
           /\ \A x : Ran(x) => trial'[x] = trial[x]
           /\ DOMAIN trial' \subseteq Coords /\ trial' \in [DOMAIN trial' -> job.outcomes]
           /\ TheRan' = TheRan \cup {c}
  <1>1. CASE Ran(c)
    <2>1. trial' = trial
      BY <1>1 DEF Evaluate
    <2>. QED
      BY <1>1, <2>1 DEF Ran, TheRan, TypeOK
  <1>2. CASE ~Ran(c)
    <2>1. PICK t \in job.outcomes : trial' = Recorded(c, t)
      BY <1>2 DEF Evaluate
    <2>2. /\ DOMAIN trial' = DOMAIN trial \cup {c} /\ trial'[c] = t
          /\ \A x \in DOMAIN trial : trial'[x] = trial[x]
      BY <1>2, <2>1 DEF Recorded, Ran
    <2>3. trial' = [x \in DOMAIN trial' |-> trial'[x]]
      BY <2>1 DEF Recorded
    <2>4. \A x \in DOMAIN trial' : trial'[x] \in job.outcomes
      BY <2>2 DEF TypeOK
    <2>5. trial' \in [DOMAIN trial' -> job.outcomes]
      BY <2>3, <2>4
    <2>. QED
      BY <2>2, <2>5 DEF Ran, TheRan, TypeOK
  <1>. QED
    BY <1>1, <1>2

\* The trials and counters after it.
LEMMA EvaluateType ==
    ASSUME TypeOK, job' = job, NEW c \in Coords, Evaluate(c)
    PROVE  /\ trials' \in Seq(Coords)
           /\ streak' \in Nat /\ aborts' \in Nat /\ gpu' \in Nat /\ cost' \in Nat
  <1>1. CASE Ran(c)
    BY <1>1 DEF Evaluate, TypeOK
  <1>2. CASE ~Ran(c)
    <2>1. PICK t \in job.outcomes :
            /\ trials' = Append(trials, c)
            /\ gpu' = gpu + t.gpu
            /\ cost' = cost + t.cost
            /\ streak' = IF t.comparable THEN 0 ELSE streak + 1
            /\ aborts' = IF ~t.comparable /\ t.status # "COMPLETED" THEN aborts + 1 ELSE aborts
      BY <1>2 DEF Evaluate
    <2>2. t.gpu \in Nat /\ t.cost \in Nat
      BY OutcomeType DEF TypeOK, Trial
    <2>3. streak \in Nat /\ aborts \in Nat /\ gpu \in Nat /\ cost \in Nat
      BY DEF TypeOK
    <2>4. trials' \in Seq(Coords)
      BY <2>1 DEF TypeOK
    <2>5. streak' \in Nat /\ aborts' \in Nat
      BY <2>1, <2>3
    <2>. QED
      BY <2>1, <2>2, <2>3, <2>4, <2>5
  <1>. QED
    BY <1>1, <1>2

\* What the look at the guard decides.
LEMMA CheckHaltMeans ==
    ASSUME CheckHalt
    PROVE  \/ /\ pc' = "search" /\ halt' = "none"
              /\ ~(streak' >= budget.streak_k)
              /\ ~(aborts' >= budget.max_aborts)
              /\ ~(Len(trials') >= MaxTrials)
              /\ ~(budget.max_gpu # 0 /\ gpu' >= budget.max_gpu)
              /\ ~(budget.max_cost # 0 /\ cost' >= budget.max_cost)
           \/ /\ pc' = "done" /\ halt' \in Reasons
              /\ halt' = "BUDGET_TRIALS" => Len(trials') >= MaxTrials
  <1>1. Len(Trips) = 7
    BY DEF Trips
  <1>2. /\ Trips[1][2] = (streak' >= budget.streak_k)
        /\ Trips[2][2] = (aborts' >= budget.max_aborts)
        /\ Trips[3][2] = (Len(trials') >= MaxTrials)
        /\ Trips[5][2] = (budget.max_gpu # 0 /\ gpu' >= budget.max_gpu)
        /\ Trips[6][2] = (budget.max_cost # 0 /\ cost' >= budget.max_cost)
    BY DEF Trips
  <1>3. /\ Trips[1][1] \in Reasons /\ Trips[1][1] # "BUDGET_TRIALS"
        /\ Trips[2][1] \in Reasons /\ Trips[2][1] # "BUDGET_TRIALS"
        /\ Trips[3][1] \in Reasons
        /\ Trips[4][1] \in Reasons /\ Trips[4][1] # "BUDGET_TRIALS"
        /\ Trips[5][1] \in Reasons /\ Trips[5][1] # "BUDGET_TRIALS"
        /\ Trips[6][1] \in Reasons /\ Trips[6][1] # "BUDGET_TRIALS"
        /\ Trips[7][1] \in Reasons /\ Trips[7][1] # "BUDGET_TRIALS"
    BY DEF Trips, Reasons, Ask
  <1>4. CASE \A k \in 1..Len(Trips) : ~Trips[k][2]
    <2>1. ~Trips[1][2] /\ ~Trips[2][2] /\ ~Trips[3][2] /\ ~Trips[5][2] /\ ~Trips[6][2]
      BY <1>1, <1>4
    <2>2. pc' = "search" /\ halt' = "none"
      BY <1>4 DEF CheckHalt
    <2>. QED
      BY <1>2, <2>1, <2>2
  <1>5. CASE \E k \in 1..Len(Trips) : Trips[k][2]
    <2>1. PICK k \in 1..Len(Trips) : Trips[k][2] /\ halt' = Trips[k][1] /\ pc' = "done"
      BY <1>5 DEF CheckHalt
    <2>2. k = 1 \/ k = 2 \/ k = 3 \/ k = 4 \/ k = 5 \/ k = 6 \/ k = 7
      BY <1>1, <2>1
    <2>3. halt' \in Reasons /\ (halt' = "BUDGET_TRIALS" => k = 3)
      BY <1>3, <2>1, <2>2
    <2>. QED
      BY <1>2, <2>1, <2>3
  <1>. QED
    BY <1>4, <1>5

\* The candidates in trials are those that were run, and the counters count them.
LEMMA EvaluateCounts ==
    ASSUME TypeOK, TrialsAreRun, CountersMatchTrials,
           job' = job, NEW c \in Coords, Evaluate(c)
    PROVE  TrialsAreRun' /\ CountersMatchTrials'
  <1>1. CASE Ran(c)
    <2>1. UNCHANGED <<trial, trials, streak, aborts>>
      BY <1>1 DEF Evaluate
    <2>. QED
      BY <2>1 DEF TrialsAreRun, CountersMatchTrials, TheRan, Ran
  <1>2. CASE ~Ran(c)
    <2>1. PICK t \in job.outcomes :
            /\ trial' = Recorded(c, t)
            /\ trials' = Append(trials, c)
            /\ streak' = IF t.comparable THEN 0 ELSE streak + 1
            /\ aborts' = IF ~t.comparable /\ t.status # "COMPLETED" THEN aborts + 1 ELSE aborts
      BY <1>2 DEF Evaluate
    <2>2. t \in Trial /\ (t.comparable => t.status = "COMPLETED")
      BY OutcomeType DEF TypeOK
    <2>3. PICK n \in Nat : n = Len(trials)
      BY DEF TypeOK
    <2>4. /\ Len(trials') = n + 1 /\ trials'[n + 1] = c
          /\ \A k \in 1..n : trials'[k] = trials[k]
      BY <2>1, <2>3 DEF TypeOK
    <2>5. trial'[c] = t /\ \A x : Ran(x) => trial'[x] = trial[x] /\ Ran(x)'
      BY <1>2, <2>1 DEF Recorded, Ran
    <2>6. \A k \in 1..n : trials[k] \in Coords /\ Ran(trials[k])
      BY <2>3 DEF TypeOK, TrialsAreRun
    <2>7. \A k \in 1..n : trial'[trials'[k]] = trial[trials[k]]
      BY <2>4, <2>5, <2>6
    <2>8. trial'[trials'[n + 1]] = t
      BY <2>4, <2>5
    <2>9. TrialsAreRun'
      <3>1. \A k \in 1..n : trials'[k] \in DOMAIN trial'
        BY <2>4, <2>5, <2>6 DEF Ran
      <3>2. trials'[n + 1] \in DOMAIN trial'
        BY <2>4, EvaluateRuns DEF Ran
      <3>3. IsFiniteSet(TheRan')
        BY EvaluateRuns, FS_AddElement DEF TrialsAreRun
      <3>. QED
        BY <2>4, <3>1, <3>2, <3>3 DEF TrialsAreRun, Ran
    <2>10. CountersMatchTrials'
      <3> DEFINE A == {k \in 1..n : trial[trials[k]].status # "COMPLETED"}
                 B == {k \in 1..(n + 1) : trial'[trials'[k]].status # "COMPLETED"}
      <3>1. PICK u \in Nat : u = streak /\ u <= n
        BY <2>3 DEF TypeOK, CountersMatchTrials
      <3>2. /\ \A k \in (n - u + 1)..n : ~trial[trials[k]].comparable
            /\ u < n => trial[trials[n - u]].comparable
            /\ aborts = Cardinality(A) /\ n = Cardinality(TheRan)
        BY <2>3, <3>1 DEF CountersMatchTrials, TheRan
      <3>3. PICK w \in Nat : w = streak' /\ w = IF t.comparable THEN 0 ELSE u + 1
        BY <2>1, <3>1
      <3>4. w <= n + 1
        BY <3>1, <3>3
      <3>5. \A k \in (n + 1 - w + 1)..(n + 1) : ~trial'[trials'[k]].comparable
        <4>1. CASE t.comparable
          BY <3>3, <4>1
        <4>2. CASE ~t.comparable
          <5> SUFFICES ASSUME NEW k \in (n - u + 1)..(n + 1)
                       PROVE  ~trial'[trials'[k]].comparable
            BY <3>1, <3>3, <4>2
          <5>1. CASE k = n + 1
            BY <2>8, <4>2, <5>1
          <5>2. CASE k # n + 1
            <6>1. k \in (n - u + 1)..n /\ k \in 1..n
              BY <3>1, <5>2
            <6>. QED
              BY <2>7, <3>2, <6>1
          <5>. QED
            BY <5>1, <5>2
        <4>. QED
          BY <4>1, <4>2
      <3>6. w < n + 1 => trial'[trials'[n + 1 - w]].comparable
        <4>1. CASE t.comparable
          BY <2>8, <3>3, <4>1
        <4>2. CASE ~t.comparable
          <5>1. w < n + 1 => u < n /\ n + 1 - w = n - u /\ n - u \in 1..n
            BY <3>1, <3>3, <4>2
          <5>. QED
            BY <2>7, <3>2, <5>1
        <4>. QED
          BY <4>1, <4>2
      <3>7. aborts' = Cardinality(B)
        <4>1. IsFiniteSet(A) /\ n + 1 \notin A
          <5>1. IsFiniteSet(1..n) /\ A \in SUBSET (1..n)
            <6>1. 1 \in Int /\ n \in Int
              OBVIOUS
            <6>. QED
              BY <6>1, FS_Interval
          <5>2. IsFiniteSet(A)
            BY <5>1, FS_Subset
          <5>. QED
            BY <5>2
        <4>2. CASE t.status = "COMPLETED"
          <5>1. B = A
            BY <2>7, <2>8, <4>2
          <5>. QED
            BY <2>1, <3>2, <4>2, <5>1
        <4>3. CASE t.status # "COMPLETED"
          <5>1. B = A \cup {n + 1}
            BY <2>7, <2>8, <4>3
          <5>2. Cardinality(B) = Cardinality(A) + 1
            BY <4>1, <5>1, FS_AddElement
          <5>3. aborts' = aborts + 1
            BY <2>1, <2>2, <4>3
          <5>. QED
            BY <3>2, <5>2, <5>3
        <4>. QED
          BY <4>2, <4>3
      <3>8. n + 1 = Cardinality(TheRan')
        <4>1. c \notin TheRan /\ IsFiniteSet(TheRan) /\ TheRan' = TheRan \cup {c}
          BY <1>2, EvaluateRuns DEF TheRan, Ran, TrialsAreRun
        <4>. QED
          BY <3>2, <4>1, FS_AddElement
      <3>10. Cardinality({k \in 1..Len(trials') : trial'[trials'[k]].status # "COMPLETED"})
               = Cardinality(B)
        BY <2>4
      <3>. HIDE DEF A, B
      <3>. QED
        BY <2>4, <3>3, <3>4, <3>5, <3>6, <3>7, <3>8, <3>10 DEF CountersMatchTrials, TheRan
    <2>. QED
      BY <2>9, <2>10
  <1>. QED
    BY <1>1, <1>2

\* What depends on the search alone does not change.
LEMMA SameJob ==
    ASSUME job' = job
    PROVE  /\ MaxTrials' = MaxTrials /\ budget' = budget /\ Baseline' = Baseline
           /\ Sweeps' = Sweeps
           /\ \A a, b : Better(a, b)' <=> Better(a, b)
  <1>1. MaxTrials' = MaxTrials
    BY DEF MaxTrials, StrategySize, SumOfLengths, budget
  <1>2. \A a, b : Better(a, b)' <=> Better(a, b)
    BY DEF Better
  <1>. QED
    BY <1>1, <1>2 DEF budget, Baseline, Sweeps

\* One more trial, while the search goes on, reaches the limits at most.
LEMMA EvaluateLimits ==
    ASSUME TypeOK, IInv, pc = "search", job' = job, NEW c \in Coords, Evaluate(c)
    PROVE  WithinLimits'
  <1> DEFINE b == budget
  <1>1. MaxTrials \in Nat /\ MaxTrials' = MaxTrials /\ budget' = b
    BY MaxTrialsType, SameJob DEF TypeOK
  <1>2. /\ b.streak_k \in Nat /\ b.max_aborts \in Nat /\ b.max_gpu \in Nat
        /\ b.max_cost \in Nat
    BY JobType DEF TypeOK, LoopBudget, budget
  <1>3. CASE Ran(c)
    <2>1. UNCHANGED <<trial, trials, streak, aborts, gpu, cost>>
      BY <1>3 DEF Evaluate
    <2>. QED
      BY <1>1, <2>1 DEF IInv, WithinLimits
  <1>4. CASE ~Ran(c)
    <2>1. PICK t \in job.outcomes :
            /\ trial' = Recorded(c, t)
            /\ trials' = Append(trials, c)
            /\ gpu' = gpu + t.gpu
            /\ cost' = cost + t.cost
            /\ streak' = IF t.comparable THEN 0 ELSE streak + 1
            /\ aborts' = IF ~t.comparable /\ t.status # "COMPLETED" THEN aborts + 1 ELSE aborts
      BY <1>4 DEF Evaluate
    <2>2. t.gpu \in Nat /\ t.cost \in Nat
      BY OutcomeType DEF TypeOK, Trial
    <2>3. PICK n \in Nat : n = Len(trials)
      BY DEF TypeOK
    <2>4. Len(trials') = n + 1 /\ trials'[n + 1] = c /\ trial'[c] = t
      BY <2>1, <2>3 DEF TypeOK, Recorded
    <2>5. streak \in Nat /\ aborts \in Nat /\ gpu \in Nat /\ cost \in Nat
      BY DEF TypeOK
    <2>6. /\ streak = 0 \/ streak < b.streak_k
          /\ aborts = 0 \/ aborts < b.max_aborts
          /\ n > 1 => /\ n < MaxTrials
                      /\ b.max_gpu # 0 => gpu < b.max_gpu
                      /\ b.max_cost # 0 => cost < b.max_cost
      BY <2>3 DEF IInv, LimitsAhead
    <2>. HIDE DEF b
    <2>7. streak' > 1 => streak' <= b.streak_k
      BY <1>2, <2>1, <2>5, <2>6
    <2>8. aborts' > 1 => aborts' <= b.max_aborts
      BY <1>2, <2>1, <2>5, <2>6
    <2>9. n + 1 > 2 => n + 1 <= MaxTrials
      BY <1>1, <2>6
    <2>10. gpu' - t.gpu = gpu /\ cost' - t.cost = cost
      BY <2>1, <2>2, <2>5
    <2>11. n + 1 > 2 => /\ b.max_gpu # 0 => gpu' - t.gpu < b.max_gpu
                        /\ b.max_cost # 0 => cost' - t.cost < b.max_cost
      BY <2>6, <2>10
    <2>. QED
      BY <1>1, <2>4, <2>7, <2>8, <2>9, <2>11 DEF WithinLimits
  <1>. QED
    BY <1>3, <1>4

\* The guard lets the search go on while the limits are ahead.
LEMMA CheckHaltLimits ==
    ASSUME TypeOK, job' = job, NEW c \in Coords, Evaluate(c), CheckHalt
    PROVE  LimitsAhead'
  <1>1. SUFFICES ASSUME pc' = "search" PROVE LimitsAhead'
    BY DEF LimitsAhead
  <1>2. /\ budget.streak_k \in Nat /\ budget.max_aborts \in Nat /\ budget.max_gpu \in Nat
        /\ budget.max_cost \in Nat /\ MaxTrials \in Nat
    BY JobType, MaxTrialsType DEF TypeOK, LoopBudget, budget
  <1>3. PICK s \in Nat, a \in Nat, g \in Nat, m \in Nat, n \in Nat :
          s = streak' /\ a = aborts' /\ g = gpu' /\ m = cost' /\ n = Len(trials')
    BY EvaluateType
  <1>4. /\ ~(streak' >= budget.streak_k)
        /\ ~(aborts' >= budget.max_aborts)
        /\ ~(Len(trials') >= MaxTrials)
        /\ ~(budget.max_gpu # 0 /\ gpu' >= budget.max_gpu)
        /\ ~(budget.max_cost # 0 /\ cost' >= budget.max_cost)
    BY <1>1, CheckHaltMeans
  <1>5. /\ s < budget.streak_k /\ a < budget.max_aborts /\ n < MaxTrials
        /\ budget.max_gpu # 0 => g < budget.max_gpu
        /\ budget.max_cost # 0 => m < budget.max_cost
    BY <1>2, <1>3, <1>4
  <1>. QED
    BY <1>3, <1>5, SameJob DEF LimitsAhead

\* What is considered may become the best.
LEMMA ConsiderMeans ==
    ASSUME TypeOK, IInv, job' = job, NEW c \in Coords, Evaluate(c), Consider(c)
    PROVE  /\ best' \in {best, c} /\ best' \in Coords \cup {None}
           /\ stale' \in Nat
           /\ BestMayWin'
  <1>1. best' \in {best, c} /\ stale' \in Nat
    BY DEF Consider, TypeOK
  <1>2. BestMayWin'
    <2>1. CASE Better(trial'[c], BestTrial)
      <3>1. /\ best' = c /\ trial'[c].comparable /\ trial'[c].feasible /\ job.attributable
        BY <2>1 DEF Consider, Better
      <3>2. Ran(c)'
        BY EvaluateRuns
      <3>. QED
        BY <3>1, <3>2 DEF BestMayWin, Ran
    <2>2. CASE ~Better(trial'[c], BestTrial)
      <3>1. best' = best
        BY <2>2 DEF Consider
      <3>2. best # None => best \in DOMAIN trial' /\ trial'[best] = trial[best]
        BY EvaluateRuns DEF IInv, BestMayWin, Ran
      <3>. QED
        BY <3>1, <3>2 DEF IInv, BestMayWin, Ran
    <2>. QED
      BY <2>1, <2>2
  <1>. QED
    BY <1>1, <1>2 DEF TypeOK

------------------------------------------------------------------------------
(* The candidates of the three strategies.                                 *)

\* Evenly spaced points of an interval are between its ends, also if it is turned over.
LEMMA SpacedPoint ==
    ASSUME NEW l \in Int, NEW h \in Int, NEW n \in Nat \ {0}, NEW i \in 0..n
    PROVE  \/ n * l <= l * n + (h - l) * i /\ l * n + (h - l) * i <= n * h
           \/ n * h <= l * n + (h - l) * i /\ l * n + (h - l) * i <= n * l
  <1>1. PICK w \in Int : w = h - l
    OBVIOUS
  <1>2. PICK d \in Int, e \in Int : d = w * i /\ e = w * n
    OBVIOUS
  <1>3. CASE w >= 0
    <2>1. 0 <= d /\ d <= e
      BY <1>2, <1>3
    <2>. QED
      BY <1>1, <1>2, <2>1
  <1>4. CASE w < 0
    <2>1. d <= 0 /\ e <= d
      BY <1>2, <1>4
    <2>. QED
      BY <1>1, <1>2, <2>1
  <1>. QED
    BY <1>3, <1>4

\* Less than one multiple apart is not apart.
LEMMA NextMultiple ==
    ASSUME NEW g \in Nat \ {0}, NEW v \in Int, NEW b \in Int,
           \E k \in Int : v = k * g, \E k \in Int : b = k * g,
           v < b + g
    PROVE  v <= b
  <1>1. PICK k \in Int, m \in Int : v = k * g /\ b = m * g
    OBVIOUS
  <1>2. ASSUME k >= m + 1 PROVE FALSE
    <2>1. k * g >= (m + 1) * g
      BY <1>2
    <2>. QED
      BY <1>1, <2>1
  <1>3. k <= m
    BY <1>2
  <1>. QED
    BY <1>1, <1>3

\* A point of a refinement is a candidate, and rounded.
LEMMA PointType ==
    ASSUME TypeOK, job.strategy = "refine", pos.i <= job.points, NEW v \in Points(pos.i)
    PROVE  /\ v \in Int /\ <<v>> \in Coords /\ Rounded(v)
           /\ \E x \in {pos.lo, pos.hi} : 2 * v <= 2 * x + job.grain
           /\ \E x \in {pos.lo, pos.hi} : 2 * x - job.grain <= 2 * v
  <1>1. job.points \in Nat \ {0, 1} /\ job.grain \in Nat \ {0}
    BY JobType DEF TypeOK, IsJob
  <1>2. pos.i \in Nat \ {0} /\ pos.lo \in Int /\ pos.hi \in Int
    BY DEF TypeOK
  <1>3. PICK n \in Nat \ {0}, i \in Nat, g \in Nat \ {0} :
           n = job.points - 1 /\ i = pos.i - 1 /\ i <= n /\ g = job.grain
    BY <1>1, <1>2
  <1>4. PICK l \in Int, h \in Int : l = pos.lo /\ h = pos.hi
    BY <1>2
  <1>5. PICK x \in Int : x = l * n + (h - l) * i
    OBVIOUS
  <1>6. n * g \in Nat \ {0}
    OBVIOUS
  <1>7. PICK k \in Int : k = x \div (n * g)
    BY <1>6
  <1>8. /\ v \in {k * g, (k + 1) * g}
        /\ 2 * (v * n) <= 2 * x + n * g
        /\ 2 * x - n * g <= 2 * (v * n)
    BY <1>3, <1>4, <1>5, <1>7 DEF Points
  <1>9. v \in Int /\ Rounded(v)
    <2>1. k + 1 \in Int /\ k * g \in Int /\ (k + 1) * g \in Int
      OBVIOUS
    <2>. QED
      BY <1>3, <1>8, <2>1 DEF Rounded
  <1>10. <<v>> \in Coords
    <2>1. <<v>> \in Seq(Int) /\ Len(<<v>>) = 1 /\ Len(<< >>) = 0
      BY <1>9
    <2>. QED
      BY <2>1 DEF Coords, None
  <1>11. \/ n * l <= x /\ x <= n * h
         \/ n * h <= x /\ x <= n * l
    BY <1>3, <1>5, SpacedPoint
  \* Divided by n.
  <1>12. ASSUME NEW y \in Int, x <= n * y PROVE 2 * v <= 2 * y + g
    <2>1. n * (2 * v) <= n * (2 * y + g)
      <3>1. n * (2 * v) = 2 * (v * n) /\ n * (2 * y + g) = 2 * (n * y) + n * g
        BY <1>9
      <3>2. PICK ny \in Int, ng \in Int, vn \in Int : ny = n * y /\ ng = n * g /\ vn = v * n
        BY <1>9
      <3>. QED
        BY <1>8, <1>12, <3>1, <3>2
    <2>. QED
      BY <1>9, <2>1
  <1>13. ASSUME NEW y \in Int, n * y <= x PROVE 2 * y - g <= 2 * v
    <2>1. n * (2 * y - g) <= n * (2 * v)
      <3>1. n * (2 * v) = 2 * (v * n) /\ n * (2 * y - g) = 2 * (n * y) - n * g
        BY <1>9
      <3>2. PICK ny \in Int, ng \in Int, vn \in Int : ny = n * y /\ ng = n * g /\ vn = v * n
        BY <1>9
      <3>. QED
        BY <1>8, <1>13, <3>1, <3>2
    <2>. QED
      BY <1>9, <2>1
  <1>. QED
    BY <1>3, <1>4, <1>9, <1>10, <1>11, <1>12, <1>13

\* A candidate with one value changed to another of its dimension is a candidate.
LEMMA NeighbourType ==
    ASSUME TypeOK, NEW c \in Coords, DOMAIN c = 1..Len(job.dims),
           NEW d \in 1..Len(job.dims), NEW i \in 1..Len(job.dims[d])
    PROVE  [c EXCEPT ![d] = job.dims[d][i]] \in Coords
  <1>1. job.dims \in Seq(Seq(Int))
    BY JobType DEF TypeOK
  <1>2. job.dims[d] \in Seq(Int)
    BY <1>1
  <1>3. job.dims[d][i] \in Int
    BY <1>2
  <1>4. c \in Seq(Int) /\ Len(job.dims) \in Nat /\ d \in DOMAIN c
    BY <1>1 DEF Coords
  <1>5. PICK e : e = [c EXCEPT ![d] = job.dims[d][i]]
    OBVIOUS
  <1>6. e \in Seq(Int) /\ Len(e) = Len(c)
    BY <1>3, <1>4, <1>5
  <1>7. Len(c) >= 1
    BY <1>4
  <1>. QED
    BY <1>5, <1>6, <1>7 DEF Coords, None

\* What a sweep tries is a candidate.
LEMMA CandidateType ==
    ASSUME TypeOK, SweptSoFar, Sweeps,
           pos.dim <= Len(job.dims), pos.i <= Len(job.dims[pos.dim])
    PROVE  /\ Candidate \in Coords /\ DOMAIN Candidate = 1..Len(job.dims)
           /\ pos.dim \in 1..Len(job.dims) /\ pos.i \in 1..Len(job.dims[pos.dim])
           /\ Candidate = Neighbour(pos.dim, pos.i)
  <1>1. job.dims \in Seq(Seq(Int)) /\ pos.dim \in Nat \ {0} /\ pos.i \in Nat \ {0}
    BY JobType DEF TypeOK, IsJob
  <1>2. pos.dim \in 1..Len(job.dims)
    BY <1>1
  <1>3. pos.i \in 1..Len(job.dims[pos.dim])
    BY <1>1, <1>2
  <1>4. incumbent \in Coords /\ DOMAIN incumbent = 1..Len(job.dims)
    BY DEF TypeOK, SweptSoFar
  <1>. QED
    BY <1>2, <1>3, <1>4, NeighbourType DEF Candidate, Neighbour

\* An evaluation during the search, whatever the strategy.
LEMMA TryStep ==
    ASSUME TypeOK, IInv, pc = "search", job' = job, NEW c \in Coords,
           Evaluate(c), Consider(c), CheckHalt
    PROVE  /\ AtStart' /\ Grounded' /\ TrialsAreRun' /\ BestMayWin'
           /\ CountersMatchTrials' /\ LimitsAhead' /\ WithinLimits' /\ HaltedAtTheLimit'
           /\ TheRan' = TheRan \cup {c}
  <1>1. pc' \in {"search", "done"}
    BY DEF CheckHalt
  <1>2. AtStart'
    BY <1>1 DEF AtStart
  <1>3. Grounded'
    <2>1. Baseline \in Coords /\ Ran(Baseline) /\ Baseline' = Baseline
          /\ trial[Baseline].comparable
      BY JobType, SameJob DEF TypeOK, IInv, Grounded
    <2>2. trial'[Baseline] = trial[Baseline] /\ Baseline \in DOMAIN trial'
      BY <2>1, EvaluateRuns DEF Ran
    <2>. QED
      BY <2>1, <2>2 DEF Grounded, Ran
  <1>4. TrialsAreRun' /\ CountersMatchTrials'
    BY EvaluateCounts DEF IInv
  <1>5. HaltedAtTheLimit'
    BY CheckHaltMeans, SameJob DEF HaltedAtTheLimit
  <1>. QED
    BY <1>2, <1>3, <1>4, <1>5, ConsiderMeans, CheckHaltLimits, EvaluateLimits, EvaluateRuns

\* The guard stops a search with a reason.
LEMMA HaltIsLatched ==
    ASSUME CheckHalt
    PROVE  EndedAtTheEnd'
  <1>1. pc' = "search" \/ halt' \in Reasons
    BY CheckHaltMeans
  <1>2. "none" \notin Reasons
    BY DEF Reasons, Ask
  <1>. QED
    BY <1>1, <1>2 DEF EndedAtTheEnd

\* Its variables keep their types.
LEMMA TryType ==
    ASSUME TypeOK, IInv, pc = "search", UNCHANGED job, NEW c \in Coords,
           Evaluate(c), Consider(c), CheckHalt
    PROVE  /\ pc' \in {"start", "search", "done"} /\ halt' \in Reasons \cup {"none"}
           /\ DOMAIN trial' \subseteq Coords /\ trial' \in [DOMAIN trial' -> job.outcomes]
           /\ trials' \in Seq(Coords)
           /\ best' \in Coords \cup {None}
           /\ {streak', aborts', stale', gpu', cost'} \subseteq Nat
           /\ late' \in BOOLEAN
  <1>1. late' \in BOOLEAN
    BY DEF CheckHalt, TypeOK
  <1>. QED
    BY <1>1, EvaluateRuns, EvaluateType, ConsiderMeans, CheckHaltMeans

------------------------------------------------------------------------------
(* Types.                                                                  *)

Positions == [round : 1..(job.rounds + 1), dim : Nat \ {0}, i : Nat \ {0},
              lo : Int, hi : Int, changed : BOOLEAN]

\* The loops move on: a value, a value and an improvement, a dimension, a round
\* of a refinement, a pass.
LEMMA PositionType ==
    ASSUME NEW p \in Positions
    PROVE  /\ \A k \in Nat \ {0} : /\ [p EXCEPT !.i = k] \in Positions
                                   /\ [p EXCEPT !.i = k, !.changed = TRUE] \in Positions
           /\ \A d \in Nat \ {0} : [p EXCEPT !.dim = d, !.i = 1] \in Positions
           /\ \A r \in 1..(job.rounds + 1) : \A l, h \in Int :
                [p EXCEPT !.round = r, !.i = 1, !.lo = l, !.hi = h] \in Positions
           /\ \A r \in 1..(job.rounds + 1) :
                [p EXCEPT !.round = r, !.dim = 1, !.i = 1, !.changed = FALSE] \in Positions
  <1>1. ASSUME NEW k \in Nat \ {0}
        PROVE  /\ [p EXCEPT !.i = k] \in Positions
               /\ [p EXCEPT !.i = k, !.changed = TRUE] \in Positions
    BY DEF Positions
  <1>2. ASSUME NEW d \in Nat \ {0}, NEW k \in Nat \ {0}
        PROVE  [p EXCEPT !.dim = d, !.i = k] \in Positions
    BY DEF Positions
  <1>3. ASSUME NEW r \in 1..(job.rounds + 1), NEW k \in Nat \ {0}, NEW l \in Int, NEW h \in Int
        PROVE  [p EXCEPT !.round = r, !.i = k, !.lo = l, !.hi = h] \in Positions
    BY DEF Positions
  <1>4. ASSUME NEW r \in 1..(job.rounds + 1), NEW d \in Nat \ {0}, NEW k \in Nat \ {0},
               NEW c \in BOOLEAN
        PROVE  [p EXCEPT !.round = r, !.dim = d, !.i = k, !.changed = c] \in Positions
    BY DEF Positions
  <1>5. 1 \in Nat \ {0} /\ FALSE \in BOOLEAN
    OBVIOUS
  <1>. QED
    BY <1>1, <1>2, <1>3, <1>4, <1>5

\* Every step keeps the types.
LEMMA TypeStep == TypeOK /\ IInv /\ [Next]_vars => TypeOK'
  <1> SUFFICES ASSUME TypeOK, IInv, [Next]_vars PROVE TypeOK'
    OBVIOUS
  <1>1. /\ pos \in Positions /\ job.rounds \in Nat \ {0} /\ incumbent \in Coords
        /\ Baseline \in Coords
    BY JobType DEF TypeOK, Positions, IsJob
  <1>2. ASSUME pos' = [pos EXCEPT !.i = @ + 1] PROVE pos' \in Positions
    BY <1>1, <1>2 DEF Positions
  <1>3. CASE EvalStart
    <2>1. Evaluate(Baseline) /\ UNCHANGED <<job, incumbent, pos, late>>
      BY <1>3 DEF EvalStart, Baseline
    <2>2. /\ pc' \in {"search", "done"} /\ halt' \in Reasons \cup {"none"}
          /\ best' \in Coords \cup {None} /\ stale' \in Nat
      BY <1>1, <1>3 DEF EvalStart, Baseline, Reasons, Ask, TypeOK
    <2>. QED
      BY <1>1, <2>1, <2>2, EvaluateRuns, EvaluateType DEF TypeOK
  <1>4. CASE GridStep
    <2>1. UNCHANGED <<job, incumbent>> /\ pos' \in Positions /\ pc = "search"
      BY <1>2, <1>4 DEF GridStep, Try
    <2>2. CASE Candidate = job.start
      BY <1>4, <2>1, <2>2 DEF GridStep, guard, TypeOK, Positions
    <2>3. CASE Candidate # job.start
      <3>1. Evaluate(Candidate) /\ Consider(Candidate) /\ CheckHalt
        BY <1>4, <2>3 DEF GridStep, Try
      <3>2. Candidate \in Coords
        <4>1. /\ job.strategy = "grid" /\ Sweeps /\ SweptSoFar /\ pos.dim = 1
              /\ pos.i <= Len(job.dims[1])
          BY <1>4 DEF GridStep, IInv, SweptSoFar, Sweeps
        <4>2. Len(job.dims) = 1
          BY <4>1, JobType DEF IsJob, TypeOK
        <4>3. pos.dim <= Len(job.dims) /\ pos.i <= Len(job.dims[pos.dim])
          BY <4>1, <4>2
        <4>. QED
          BY <4>1, <4>3, CandidateType
      <3>. QED
        BY <2>1, <3>1, <3>2, TryType DEF TypeOK, Positions
    <2>. QED
      BY <2>2, <2>3
  <1>5. CASE RefineStep
    <2>1. UNCHANGED <<job, incumbent>> /\ pos' \in Positions /\ pc = "search"
      BY <1>2, <1>5 DEF RefineStep, Try
    <2>2. PICK v \in Points(pos.i) : Evaluate(<<v>>) /\ Consider(<<v>>) /\ CheckHalt
      BY <1>5 DEF RefineStep, Try
    <2>3. <<v>> \in Coords
      BY <1>5, PointType DEF RefineStep
    <2>. QED
      BY <2>1, <2>2, <2>3, TryType DEF TypeOK, Positions
  <1>6. CASE CoordinateStep
    <2>1. Candidate \in Coords
      BY <1>6, CandidateType DEF CoordinateStep, IInv, Sweeps
    <2>2. /\ UNCHANGED job /\ pc = "search"
          /\ Evaluate(Candidate) /\ Consider(Candidate) /\ CheckHalt
      BY <1>6 DEF CoordinateStep
    <2>3. incumbent' \in Coords /\ pos' \in Positions
      <3>1. CASE best' = best
        BY <1>1, <1>2, <1>6, <3>1 DEF CoordinateStep
      <3>2. CASE best' # best
        <4>1. pos' = [pos EXCEPT !.i = @ + 1, !.changed = TRUE] /\ incumbent' = Candidate
          BY <1>6, <3>2 DEF CoordinateStep
        <4>. QED
          <5>1. pos.i + 1 \in Nat \ {0} /\ pos.round \in 1..(job.rounds + 1)
            BY <1>1 DEF Positions
          <5>2. pos' = [pos EXCEPT !.i = pos.i + 1, !.changed = TRUE]
            BY <4>1
          <5>3. pos' \in Positions
            BY <1>1, <5>1, <5>2, PositionType
          <5>. QED
            BY <2>1, <4>1, <5>3
      <3>. QED
        BY <3>1, <3>2
    <2>. QED
      BY <2>1, <2>2, <2>3, TryType DEF TypeOK, Positions
  <1>7. CASE NextRound
    <2>1. job.lo \in Int /\ job.hi \in Int
      BY JobType DEF TypeOK, IsJob
    <2>2. best \in Coords /\ best # None /\ Ran(best)
      BY <1>7 DEF NextRound, TypeOK, IInv, BestMayWin
    <2>3. best[1] \in Int
      BY <1>7, <2>1, <2>2 DEF NextRound, IInv, OnlyCandidatesRun, TheRan, Ran
    <2>4. pos' \in Positions
      <3> DEFINE q == (pos.hi - pos.lo) \div 4
                 l == IF best[1] - q > job.lo THEN best[1] - q ELSE job.lo
                 h == IF best[1] + q < job.hi THEN best[1] + q ELSE job.hi
      <3>1. q \in Int
        BY <1>1 DEF Positions
      <3>2. l \in Int /\ h \in Int
        BY <2>1, <2>3, <3>1
      <3>3. pos' = [pos EXCEPT !.round = @ + 1, !.i = 1, !.lo = l, !.hi = h]
        BY <1>7 DEF NextRound
      <3>4. pos.round + 1 \in 1..(job.rounds + 1)
        BY <1>1, <1>7 DEF NextRound, Positions
      <3>. HIDE DEF l, h
      <3>5. pos' = [pos EXCEPT !.round = pos.round + 1, !.i = 1, !.lo = l, !.hi = h]
        BY <3>3
      <3>6. 1 \in Nat \ {0}
        OBVIOUS
      <3>. QED
        BY <1>1, <3>2, <3>4, <3>5, <3>6, PositionType
    <2>5. stale' \in Nat
      BY <1>7 DEF NextRound, TypeOK
    <2>. QED
      BY <1>7, <2>4, <2>5 DEF NextRound, guard, TypeOK, Positions
  <1>8. CASE NextDimension
    <2>1. pos' \in Positions
      <3>1. pos' = [pos EXCEPT !.dim = pos.dim + 1, !.i = 1]
        BY <1>8 DEF NextDimension
      <3>2. pos.dim + 1 \in Nat \ {0} /\ 1 \in Nat \ {0} /\ pos.round \in 1..(job.rounds + 1)
        BY <1>1 DEF Positions
      <3>. QED
        BY <1>1, <3>1, <3>2, PositionType
    <2>. QED
      BY <1>8, <2>1 DEF NextDimension, guard, TypeOK, Positions
  <1>9. CASE NextPass
    <2>1. pos' \in Positions
      <3>1. pos' = [pos EXCEPT !.round = pos.round + 1, !.dim = 1, !.i = 1, !.changed = FALSE]
        BY <1>9 DEF NextPass
      <3>2. pos.round + 1 \in 1..(job.rounds + 1) /\ 1 \in Nat \ {0}
        BY <1>1, <1>9 DEF NextPass, Positions
      <3>. QED
        BY <1>1, <3>1, <3>2, PositionType
    <2>. QED
      BY <1>9, <2>1 DEF NextPass, guard, TypeOK, Positions
  <1>10. CASE GridEnd \/ RefineEnd \/ CoordinateEnd
    BY <1>10 DEF GridEnd, RefineEnd, CoordinateEnd, Stop, search, guard, TypeOK
  <1>11. CASE Done \/ UNCHANGED vars
    BY <1>11 DEF Done, vars, search, guard, TypeOK
  <1>. QED
    BY <1>3, <1>4, <1>5, <1>6, <1>7, <1>8, <1>9, <1>10, <1>11 DEF Next, Step

------------------------------------------------------------------------------
(* The invariant.                                                          *)

\* A step that runs nothing.
LEMMA KeepStep ==
    ASSUME TypeOK, IInv, pc # "start", pc' \in {pc, "done"}, pc' = "search" => pc = "search",
           UNCHANGED <<job, trial, trials, best, streak, aborts, gpu, cost, halt>>
    PROVE  /\ AtStart' /\ Grounded' /\ TrialsAreRun' /\ BestMayWin'
           /\ CountersMatchTrials' /\ LimitsAhead' /\ WithinLimits' /\ HaltedAtTheLimit'
           /\ TheRan' = TheRan
  <1>1. TheRan' = TheRan
    BY DEF TheRan, Ran
  <1>2. AtStart' /\ Grounded' /\ TrialsAreRun' /\ BestMayWin'
    BY <1>1, SameJob DEF IInv, AtStart, Grounded, TrialsAreRun, BestMayWin, Ran
  <1>3. CountersMatchTrials'
    BY DEF IInv, CountersMatchTrials, Ran
  <1>4. LimitsAhead' /\ WithinLimits' /\ HaltedAtTheLimit'
    BY SameJob DEF IInv, LimitsAhead, WithinLimits, HaltedAtTheLimit
  <1>. QED
    BY <1>1, <1>2, <1>3, <1>4

\* What was run stays run.
LEMMA NeighboursStayRun ==
    ASSUME TypeOK, SweptSoFar, Sweeps, job' = job, incumbent' = incumbent,
           \A x : Ran(x) => Ran(x)',
           NEW d \in 1..Len(job.dims), NEW i \in 1..Len(job.dims[d]), Ran(Neighbour(d, i))
    PROVE  Ran(Neighbour(d, i))'
  <1>1. Neighbour(d, i)' = Neighbour(d, i)
    BY DEF Neighbour
  <1>. QED
    BY <1>1 DEF Ran

\* A sweep that goes on to the next value, the candidate being run.
LEMMA NextValue ==
    ASSUME TypeOK, SweptSoFar, Sweeps, UNCHANGED <<job, incumbent>>,
           \A x : Ran(x) => Ran(x)',
           NEW c \in Coords, c = Neighbour(pos.dim, pos.i), Ran(c)',
           pos' = [pos EXCEPT !.i = pos.i + 1]
    PROVE  SweptSoFar'
  <1>1. /\ pos'.dim = pos.dim /\ pos'.i = pos.i + 1 /\ pos'.changed = pos.changed
        /\ pos.i \in Nat /\ pos.dim \in Nat
    BY DEF TypeOK
  <1>2. ASSUME ~pos.changed, NEW d \in 1..Len(job.dims), NEW i \in 1..Len(job.dims[d]),
               d < pos.dim \/ (d = pos.dim /\ i < pos.i + 1)
        PROVE  Ran(Neighbour(d, i))'
    <2>1. CASE d = pos.dim /\ i = pos.i
      <3>1. Neighbour(d, i)' = Neighbour(d, i) /\ Neighbour(d, i) = c
        BY <2>1 DEF Neighbour
      <3>. QED
        BY <3>1 DEF Ran
    <2>2. CASE ~(d = pos.dim /\ i = pos.i)
      <3>1. i \in Nat
        <4>1. job.dims \in Seq(Seq(Int))
          BY JobType DEF TypeOK, IsJob
        <4>2. job.dims[d] \in Seq(Int)
          BY <4>1
        <4>. QED
          BY <4>2
      <3>2. d < pos.dim \/ (d = pos.dim /\ i < pos.i)
        BY <1>1, <1>2, <2>2, <3>1
      <3>3. Ran(Neighbour(d, i))
        BY <1>2, <3>2 DEF SweptSoFar
      <3>. QED
        BY <3>3, NeighboursStayRun
    <2>. QED
      BY <2>1, <2>2
  <1>3. /\ DOMAIN incumbent' = 1..Len(job'.dims)
        /\ job'.strategy = "grid" => incumbent' = Baseline' /\ pos'.dim = 1
    BY <1>1, SameJob DEF SweptSoFar
  <1>4. pos'.changed \/
        \A d \in 1..Len(job'.dims) : \A i \in 1..Len(job'.dims[d]) :
           d < pos'.dim \/ (d = pos'.dim /\ i < pos'.i) => Ran(Neighbour(d, i))'
    BY <1>1, <1>2
  <1>. QED
    BY <1>3, <1>4 DEF SweptSoFar

\* The baseline.
LEMMA EvalStartStep ==
    ASSUME TypeOK, IInv, EvalStart
    PROVE  IInv'
  <1>1. /\ Evaluate(Baseline) /\ UNCHANGED <<job, incumbent, pos>> /\ pc = "start"
        /\ Baseline \in Coords /\ job \in Jobs
    BY JobType DEF EvalStart, Baseline, TypeOK
  <1>2. /\ TheRan = {} /\ best = None /\ streak = 0 /\ aborts = 0 /\ trials = << >>
        /\ halt = "none"
    BY <1>1 DEF IInv, AtStart
  <1>3. ~Ran(Baseline)
    BY <1>1, <1>2 DEF TheRan, Ran
  <1>4. PICK t \in job.outcomes :
          /\ trial' = Recorded(Baseline, t)
          /\ trials' = Append(trials, Baseline)
          /\ streak' = IF t.comparable THEN 0 ELSE streak + 1
          /\ aborts' = IF ~t.comparable /\ t.status # "COMPLETED" THEN aborts + 1 ELSE aborts
    BY <1>1, <1>3 DEF Evaluate
  <1>5. trial'[Baseline] = t /\ Len(trials') = 1 /\ Baseline' = Baseline
    BY <1>1, <1>2, <1>4, SameJob DEF TypeOK, Recorded
  <1>6. TheRan' = {Baseline} /\ Baseline \in DOMAIN trial'
    BY <1>1, <1>2, EvaluateRuns DEF TheRan
  <1>7. \/ t.comparable /\ pc' = "search"
        \/ ~t.comparable /\ pc' = "done" /\ halt' = "BASELINE_UNGROUNDED" /\ best' = best
    BY <1>5 DEF EvalStart, Baseline
  <1>8. AtStart'
    BY <1>7 DEF AtStart
  <1>9. Grounded'
    BY <1>5, <1>6, <1>7 DEF Grounded, Ran
  <1>10. TrialsAreRun' /\ CountersMatchTrials'
    BY <1>1, EvaluateCounts DEF IInv
  <1>11. BestMayWin'
    <2>1. CASE ~t.comparable
      BY <1>2, <1>7, <2>1 DEF BestMayWin, None
    <2>2. CASE t.comparable
      <3>1. best' = IF Better(t, NoTrial) THEN Baseline ELSE None
        BY <1>5, <2>2 DEF EvalStart, Baseline
      <3>2. CASE Better(t, NoTrial)
        BY <1>1, <1>5, <1>6, <3>1, <3>2 DEF BestMayWin, Better, Ran
      <3>3. CASE ~Better(t, NoTrial)
        BY <3>1, <3>3 DEF BestMayWin, None
      <3>. QED
        BY <3>2, <3>3
    <2>. QED
      BY <2>1, <2>2
  <1>12. LimitsAhead'
    BY <1>2, <1>4, <1>5, <1>7 DEF LimitsAhead
  <1>13. WithinLimits'
    BY <1>2, <1>4, <1>5 DEF WithinLimits
  <1>14. WithinBounds'
    <2> SUFFICES ASSUME FromWithin PROVE WithinBounds'
      BY <1>1 DEF WithinBounds, FromWithin
    <2>1. /\ pos.lo - pos.hi <= job.grain /\ pos.lo <= pos.hi
          /\ \A x \in {pos.lo, pos.hi} : RoundsUpNear(x) /\ RoundsDownNear(x)
      BY <1>1, <1>2 DEF IInv, WithinBounds, None
    <2>. QED
      BY <1>1, <1>5, <1>6, <2>1 DEF WithinBounds, RoundsUpNear, RoundsDownNear, Rounded
  <1>17. OnlyCandidatesRun'
    <2>1. job.strategy = "refine" => \E v \in Int : Baseline = <<v>>
      BY <1>1, JobType
    <2>. QED
      BY <1>1, <1>5, <1>6, <2>1 DEF OnlyCandidatesRun
  <1>18. HaltedAtTheLimit'
    BY <1>2, <1>7 DEF EvalStart, HaltedAtTheLimit
  <1>15. SweptSoFar'
    <2> SUFFICES ASSUME Sweeps PROVE SweptSoFar'
      BY <1>1, SameJob DEF SweptSoFar
    <2>1. /\ DOMAIN incumbent' = 1..Len(job'.dims)
          /\ job'.strategy = "grid" => incumbent' = Baseline' /\ pos'.dim = 1
      BY <1>1, <1>5 DEF IInv, SweptSoFar
    <2>2. \A x : Ran(x) => Ran(x)'
      BY <1>1, EvaluateRuns
    <2>3. ASSUME ~pos.changed, NEW d \in 1..Len(job.dims), NEW i \in 1..Len(job.dims[d]),
                 d < pos.dim \/ (d = pos.dim /\ i < pos.i)
          PROVE  Ran(Neighbour(d, i))'
      <3>1. Ran(Neighbour(d, i)) /\ SweptSoFar
        BY <2>3 DEF IInv, SweptSoFar
      <3>. QED
        BY <1>1, <2>2, <3>1, NeighboursStayRun
    <2>. QED
      BY <1>1, <2>1, <2>3 DEF SweptSoFar
  <1>16. EndedAtTheEnd'
    BY <1>7 DEF EndedAtTheEnd
  <1>. QED
    BY <1>8, <1>9, <1>10, <1>11, <1>12, <1>13, <1>14, <1>15, <1>16, <1>17, <1>18 DEF IInv

\* A value of the grid: the baseline's own is skipped.
LEMMA GridStepKeeps ==
    ASSUME TypeOK, IInv, GridStep
    PROVE  IInv'
  <1>1. /\ UNCHANGED <<job, incumbent>> /\ pc = "search" /\ Sweeps /\ job.strategy = "grid"
        /\ SweptSoFar /\ pos.dim = 1 /\ pos.i <= Len(job.dims[1]) /\ pos.i \in Nat
    BY DEF GridStep, IInv, SweptSoFar, Sweeps, TypeOK
  <1>2. Len(job.dims) = 1
    BY <1>1, JobType DEF IsJob, TypeOK
  <1>3. pos.dim <= Len(job.dims) /\ pos.i <= Len(job.dims[pos.dim])
    BY <1>1, <1>2
  <1>4. PICK c \in Coords : c = Candidate /\ c = Neighbour(pos.dim, pos.i)
    BY <1>1, <1>3, CandidateType
  <1>5. pos' = [pos EXCEPT !.i = pos.i + 1]
    BY DEF GridStep, Try
  <1>6. WithinBounds'
    BY <1>1 DEF WithinBounds, FromWithin
  <1>9. ASSUME TheRan' \subseteq TheRan \cup {c} PROVE OnlyCandidatesRun'
    <2>1. c = Neighbour(1, pos.i) /\ pos.i \in 1..Len(job.dims[1])
      BY <1>1, <1>2, <1>3, <1>4, CandidateType
    <2>2. \A i : Neighbour(1, i)' = Neighbour(1, i)
      BY <1>1 DEF Neighbour
    <2>. QED
      BY <1>1, <1>9, <2>1, <2>2, SameJob DEF IInv, OnlyCandidatesRun
  <1>7. CASE c = job.start
    <2>1. UNCHANGED <<pc, trial, trials, best, streak, aborts, gpu, cost, halt>>
      BY <1>4, <1>7 DEF GridStep, guard
    <2>2. Ran(c)' /\ \A x : Ran(x) => Ran(x)'
      BY <1>1, <1>7, <2>1 DEF IInv, Grounded, Baseline, Ran
    <2>3. SweptSoFar'
      BY <1>1, <1>4, <1>5, <2>2, NextValue
    <2>4. EndedAtTheEnd'
      BY <1>1, <2>1 DEF EndedAtTheEnd
    <2>. QED
      BY <1>1, <1>6, <1>9, <2>1, <2>3, <2>4, KeepStep DEF IInv
  <1>8. CASE c # job.start
    <2>1. Evaluate(c) /\ Consider(c) /\ CheckHalt
      BY <1>4, <1>8 DEF GridStep, Try
    <2>2. Ran(c)' /\ \A x : Ran(x) => Ran(x)'
      BY <1>1, <2>1, EvaluateRuns
    <2>3. SweptSoFar'
      BY <1>1, <1>4, <1>5, <2>2, NextValue
    <2>4. EndedAtTheEnd'
      BY <2>1, HaltIsLatched
    <2>. QED
      BY <1>1, <1>6, <1>9, <2>1, <2>3, <2>4, TryStep DEF IInv
  <1>. QED
    BY <1>7, <1>8

\* A point of a refinement.
LEMMA RefineStepKeeps ==
    ASSUME TypeOK, IInv, RefineStep
    PROVE  IInv'
  <1>1. /\ UNCHANGED <<job, incumbent>> /\ pc = "search" /\ ~Sweeps /\ job.strategy = "refine"
        /\ WithinBounds
    BY DEF RefineStep, IInv, Sweeps
  <1>2. PICK v \in Points(pos.i) : Evaluate(<<v>>) /\ Consider(<<v>>) /\ CheckHalt
    BY DEF RefineStep, Try
  <1>3. /\ v \in Int /\ <<v>> \in Coords /\ Rounded(v)
        /\ \E x \in {pos.lo, pos.hi} : 2 * v <= 2 * x + job.grain
        /\ \E x \in {pos.lo, pos.hi} : 2 * x - job.grain <= 2 * v
    BY <1>1, PointType DEF RefineStep
  <1>4. pos'.lo = pos.lo /\ pos'.hi = pos.hi
    BY <1>2 DEF RefineStep, Try, TypeOK
  <1>5. TheRan' = TheRan \cup {<<v>>} /\ best' \in {best, <<v>>}
    BY <1>1, <1>2, <1>3, TryStep, ConsiderMeans
  <1>6. WithinBounds'
    <2> SUFFICES ASSUME FromWithin PROVE WithinBounds'
      BY <1>1 DEF WithinBounds, FromWithin
    <2>1. Near(v)
      BY <1>1, <1>3 DEF WithinBounds, RoundsUpNear, RoundsDownNear, Near
    <2>2. \A c \in TheRan' : \/ c = Baseline
                             \/ \E u \in Int : c = <<u>> /\ Rounded(u) /\ Near(u)
      BY <1>1, <1>3, <1>5, <2>1 DEF WithinBounds
    <2>3. \/ pos.lo <= pos.hi
          \/ \E u \in Int : best' = <<u>> /\ Rounded(u)
      BY <1>1, <1>3, <1>5 DEF WithinBounds
    <2>4. /\ pos.lo - pos.hi <= job.grain
          /\ \A x \in {pos.lo, pos.hi} : RoundsUpNear(x) /\ RoundsDownNear(x)
      BY <1>1 DEF WithinBounds
    <2>. QED
      BY <1>1, <1>4, <2>2, <2>3, <2>4, SameJob
         DEF WithinBounds, RoundsUpNear, RoundsDownNear, Rounded, Near
  <1>7. SweptSoFar' /\ EndedAtTheEnd'
    BY <1>1, SameJob DEF SweptSoFar, EndedAtTheEnd
  <1>8. OnlyCandidatesRun'
    BY <1>1, <1>3, <1>5 DEF IInv, OnlyCandidatesRun
  <1>. QED
    BY <1>1, <1>2, <1>3, <1>6, <1>7, <1>8, TryStep DEF IInv

\* A value of a dimension: an improvement moves the sweep.
LEMMA CoordinateStepKeeps ==
    ASSUME TypeOK, IInv, CoordinateStep
    PROVE  IInv'
  <1>1. /\ UNCHANGED job /\ pc = "search" /\ Sweeps /\ job.strategy = "coordinate"
        /\ SweptSoFar /\ pos.dim <= Len(job.dims) /\ pos.i <= Len(job.dims[pos.dim])
    BY DEF CoordinateStep, IInv, Sweeps
  <1>2. PICK c \in Coords : /\ c = Candidate /\ c = Neighbour(pos.dim, pos.i)
                            /\ DOMAIN c = 1..Len(job.dims)
    BY <1>1, CandidateType
  <1>3. Evaluate(c) /\ Consider(c) /\ CheckHalt
    BY <1>2 DEF CoordinateStep
  <1>4. Ran(c)' /\ \A x : Ran(x) => Ran(x)'
    BY <1>1, <1>3, EvaluateRuns
  <1>5. WithinBounds'
    BY <1>1 DEF WithinBounds, FromWithin
  <1>6. EndedAtTheEnd'
    BY <1>3, HaltIsLatched
  <1>8. OnlyCandidatesRun'
    BY <1>1 DEF OnlyCandidatesRun
  <1>7. SweptSoFar'
    <2>1. CASE best' = best
      <3>1. incumbent' = incumbent /\ pos' = [pos EXCEPT !.i = pos.i + 1]
        BY <2>1 DEF CoordinateStep
      <3>. QED
        BY <1>1, <1>2, <1>4, <3>1, NextValue
    <2>2. CASE best' # best
      <3>1. incumbent' = c /\ pos' = [pos EXCEPT !.i = pos.i + 1, !.changed = TRUE]
        BY <1>2, <2>2 DEF CoordinateStep
      <3>2. pos'.changed
        BY <3>1 DEF TypeOK
      <3>. QED
        BY <1>1, <1>2, <3>1, <3>2 DEF SweptSoFar
    <2>. QED
      BY <2>1, <2>2
  <1>. QED
    BY <1>1, <1>3, <1>5, <1>6, <1>7, <1>8, TryStep DEF IInv

\* The next interval, cut off at the bounds around a best b that is near them: both
\* its ends are rounded to what is near the bounds, and it is turned over around a
\* rounded best only.
LEMMA NextInterval ==
    ASSUME job.lo \in Int, job.hi \in Int, job.lo <= job.hi,
           job.grain \in Nat, job.grain >= 4,
           NEW b \in Int, NEW w \in Int, 0 - w <= job.grain,
           (w >= 0 /\ job.lo <= b /\ b <= job.hi) \/ (Rounded(b) /\ Near(b)),
           NEW q \in Int, q = w \div 4,
           NEW l \in Int, l = IF b - q > job.lo THEN b - q ELSE job.lo,
           NEW h \in Int, h = IF b + q < job.hi THEN b + q ELSE job.hi
    PROVE  /\ l <= h \/ Rounded(b)
           /\ l - h <= job.grain
           /\ RoundsUpNear(l) /\ RoundsUpNear(h)
           /\ RoundsDownNear(l) /\ RoundsDownNear(h)
  <1>1. PICK g \in Nat, lo \in Int, hi \in Int :
           g = job.grain /\ g >= 4 /\ lo = job.lo /\ hi = job.hi /\ lo <= hi
    OBVIOUS
  <1>2. 4 * q <= w /\ w <= 4 * q + 3
    OBVIOUS
  <1>3. -2 * q < g /\ (w >= 0 => q >= 0)
    BY <1>1, <1>2
  <1>4. 2 * lo - g <= 2 * b /\ 2 * b <= 2 * hi + g
    BY <1>1 DEF Near
  <1>5. ASSUME NEW v \in Int, Rounded(v), Rounded(b), v < b + g PROVE v <= b
    BY <1>1, <1>5, NextMultiple DEF Rounded
  <1>6. ASSUME NEW v \in Int, Rounded(v), Rounded(b), b < v + g PROVE b <= v
    BY <1>1, <1>6, NextMultiple DEF Rounded
  <1>7. l <= h \/ Rounded(b)
    BY <1>3
  <1>8. l - h <= g
    BY <1>1, <1>2, <1>3, <1>4
  <1>9. ASSUME NEW v \in Int, Rounded(v), 2 * v <= 2 * l + g \/ 2 * v <= 2 * h + g
        PROVE  2 * v <= 2 * hi + g
    <2>1. CASE 2 * v <= 2 * hi + g
      BY <2>1
    <2>2. CASE 2 * v > 2 * hi + g
      <3>1. 2 * v <= 2 * (b - q) + g
        BY <1>9, <2>2, <1>1
      <3>2. Rounded(b)
        <4>1. CASE w >= 0 /\ lo <= b /\ b <= hi
          BY <1>3, <2>2, <3>1, <4>1
        <4>. QED
          BY <1>1, <4>1
      <3>3. v < b + g
        BY <1>3, <3>1
      <3>. QED
        BY <1>4, <1>5, <1>9, <3>2, <3>3
    <2>. QED
      BY <2>1, <2>2
  <1>10. ASSUME NEW v \in Int, Rounded(v), 2 * l - g <= 2 * v \/ 2 * h - g <= 2 * v
         PROVE  2 * lo - g <= 2 * v
    <2>1. CASE 2 * lo - g <= 2 * v
      BY <2>1
    <2>2. CASE 2 * lo - g > 2 * v
      <3>1. 2 * (b + q) - g <= 2 * v
        BY <1>10, <2>2, <1>1
      <3>2. Rounded(b)
        <4>1. CASE w >= 0 /\ lo <= b /\ b <= hi
          BY <1>3, <2>2, <3>1, <4>1
        <4>. QED
          BY <1>1, <4>1
      <3>3. b < v + g
        BY <1>3, <3>1
      <3>. QED
        BY <1>4, <1>6, <1>10, <3>2, <3>3
    <2>. QED
      BY <2>1, <2>2
  <1>. QED
    BY <1>1, <1>7, <1>8, <1>9, <1>10 DEF RoundsUpNear, RoundsDownNear

\* The next round of a refinement: the interval around the best, cut off at the
\* bounds.
LEMMA NextRoundKeeps ==
    ASSUME TypeOK, IInv, NextRound
    PROVE  IInv'
  <1>1. /\ UNCHANGED <<job, pc, trial, trials, best, incumbent, halt>>
        /\ UNCHANGED <<streak, aborts, gpu, cost>>
        /\ pc = "search" /\ ~Sweeps /\ job.strategy = "refine" /\ best # None
    BY DEF NextRound, guard, Sweeps
  <1>2. /\ job.lo \in Int /\ job.hi \in Int /\ pos.lo \in Int /\ pos.hi \in Int
        /\ job.grain \in Nat /\ job.grain >= 4
    BY <1>1, JobType DEF TypeOK
  <1>3. best \in TheRan
    BY <1>1 DEF IInv, BestMayWin, TheRan, Ran
  <1>4. PICK b \in Int : b = best[1] /\ best = <<b>>
    BY <1>1, <1>3 DEF IInv, OnlyCandidatesRun
  <1>5. PICK w \in Int : w = pos.hi - pos.lo
    BY <1>2
  <1>6. PICK q \in Int : q = w \div 4
    OBVIOUS
  <1>7. PICK l \in Int : l = IF b - q > job.lo THEN b - q ELSE job.lo
    BY <1>2
  <1>8. PICK h \in Int : h = IF b + q < job.hi THEN b + q ELSE job.hi
    BY <1>2
  <1>9. pos' = [pos EXCEPT !.round = @ + 1, !.i = 1, !.lo = l, !.hi = h]
    BY <1>4, <1>5, <1>6, <1>7, <1>8 DEF NextRound
  <1>10. pos'.lo = l /\ pos'.hi = h
    BY <1>9 DEF TypeOK
  <1>11. WithinBounds'
    <2> SUFFICES ASSUME FromWithin PROVE WithinBounds'
      BY <1>1 DEF WithinBounds, FromWithin
    <2>1. 0 - w <= job.grain
      BY <1>2, <1>5 DEF IInv, WithinBounds
    <2>2. job.lo <= job.hi
      BY <1>2 DEF FromWithin
    <2>3. (w >= 0 /\ job.lo <= b /\ b <= job.hi) \/ (Rounded(b) /\ Near(b))
      <3>1. CASE best = Baseline
        <4>1. job.lo <= b /\ b <= job.hi
          <5>1. b = job.start[1]
            BY <1>4, <3>1 DEF Baseline
          <5>. QED
            BY <1>2, <5>1 DEF FromWithin
        <4>2. CASE pos.lo <= pos.hi
          BY <1>2, <1>5, <4>1, <4>2
        <4>3. CASE Rounded(b)
          BY <1>2, <4>1, <4>3 DEF Near
        <4>4. pos.lo <= pos.hi \/ Rounded(b)
          BY <1>4 DEF IInv, WithinBounds
        <4>. QED
          BY <4>2, <4>3, <4>4
      <3>2. CASE best # Baseline
        <4>1. PICK v \in Int : best = <<v>> /\ Rounded(v) /\ Near(v)
          BY <1>3, <3>2 DEF IInv, WithinBounds
        <4>2. v = b
          BY <1>4, <4>1
        <4>. QED
          BY <4>1, <4>2
      <3>. QED
        BY <3>1, <3>2
    <2>4. /\ l <= h \/ Rounded(b)
          /\ l - h <= job.grain
          /\ RoundsUpNear(l) /\ RoundsUpNear(h)
          /\ RoundsDownNear(l) /\ RoundsDownNear(h)
      BY <1>2, <1>6, <1>7, <1>8, <2>1, <2>2, <2>3, NextInterval
    <2>5. TheRan' = TheRan /\ best' = <<b>>
      BY <1>1, <1>4 DEF TheRan
    <2>6. \A c \in TheRan : \/ c = Baseline
                            \/ \E v \in Int : c = <<v>> /\ Rounded(v) /\ Near(v)
      BY DEF IInv, WithinBounds
    <2>. QED
      BY <1>1, <1>10, <2>4, <2>5, <2>6, SameJob
         DEF WithinBounds, RoundsUpNear, RoundsDownNear, Rounded, Near
  <1>12. SweptSoFar' /\ EndedAtTheEnd' /\ OnlyCandidatesRun'
    BY <1>1, SameJob DEF SweptSoFar, EndedAtTheEnd, IInv, OnlyCandidatesRun, TheRan
  <1>. QED
    BY <1>1, <1>11, <1>12, KeepStep DEF IInv

\* The next dimension: all of this one has been passed.
LEMMA NextDimensionKeeps ==
    ASSUME TypeOK, IInv, NextDimension
    PROVE  IInv'
  <1>1. /\ UNCHANGED <<job, pc, trial, trials, best, incumbent, halt>>
        /\ UNCHANGED <<streak, aborts, gpu, cost>>
        /\ pc = "search" /\ Sweeps /\ job.strategy = "coordinate" /\ SweptSoFar
        /\ pos.i > Len(job.dims[pos.dim]) /\ pos.dim \in Nat /\ pos.i \in Nat
    BY DEF NextDimension, guard, Sweeps, IInv, TypeOK
  <1>2. pos'.dim = pos.dim + 1 /\ pos'.i = 1 /\ pos'.changed = pos.changed
    BY DEF NextDimension, TypeOK
  <1>3. WithinBounds' /\ EndedAtTheEnd' /\ OnlyCandidatesRun'
    BY <1>1 DEF WithinBounds, FromWithin, EndedAtTheEnd, OnlyCandidatesRun
  <1>4. SweptSoFar'
    <2>1. ASSUME ~pos.changed, NEW d \in 1..Len(job.dims), NEW i \in 1..Len(job.dims[d]),
                 d < pos.dim + 1 \/ (d = pos.dim + 1 /\ i < 1)
          PROVE  Ran(Neighbour(d, i))'
      <3>1. job.dims \in Seq(Seq(Int))
        BY JobType DEF TypeOK, IsJob
      <3>2. job.dims[d] \in Seq(Int)
        BY <3>1
      <3>3. d \in Nat /\ i \in Nat /\ i >= 1 /\ Len(job.dims[d]) \in Nat /\ i <= Len(job.dims[d])
        BY <3>1, <3>2
      <3>4. d < pos.dim \/ (d = pos.dim /\ i < pos.i)
        BY <1>1, <2>1, <3>3
      <3>5. Ran(Neighbour(d, i))
        BY <1>1, <2>1, <3>4 DEF SweptSoFar
      <3>. QED
        BY <1>1, <3>5 DEF Ran, Neighbour
    <2>. QED
      BY <1>1, <1>2, <2>1 DEF SweptSoFar, Baseline
  <1>. QED
    BY <1>1, <1>3, <1>4, KeepStep DEF IInv

\* The next pass: nothing is passed yet.
LEMMA NextPassKeeps ==
    ASSUME TypeOK, IInv, NextPass
    PROVE  IInv'
  <1>1. /\ UNCHANGED <<job, pc, trial, trials, best, incumbent, halt>>
        /\ UNCHANGED <<streak, aborts, gpu, cost>>
        /\ pc = "search" /\ Sweeps /\ job.strategy = "coordinate" /\ SweptSoFar
    BY DEF NextPass, guard, Sweeps, IInv
  <1>2. pos'.dim = 1 /\ pos'.i = 1
    BY DEF NextPass, TypeOK
  <1>3. WithinBounds' /\ EndedAtTheEnd' /\ OnlyCandidatesRun'
    BY <1>1 DEF WithinBounds, FromWithin, EndedAtTheEnd, OnlyCandidatesRun
  <1>4. SweptSoFar'
    <2>1. ASSUME NEW d \in 1..Len(job.dims), NEW i \in 1..Len(job.dims[d])
          PROVE  ~(d < 1 \/ (d = 1 /\ i < 1))
      <3>1. job.dims \in Seq(Seq(Int))
        BY JobType DEF TypeOK, IsJob
      <3>2. job.dims[d] \in Seq(Int)
        BY <3>1
      <3>. QED
        BY <3>1, <3>2
    <2>. QED
      BY <1>1, <1>2, <2>1 DEF SweptSoFar
  <1>. QED
    BY <1>1, <1>3, <1>4, KeepStep DEF IInv

\* Where the loops stay, what they have passed stays passed.
LEMMA SamePlace ==
    ASSUME IInv, UNCHANGED <<job, trial, best, incumbent, pos>>
    PROVE  WithinBounds' /\ SweptSoFar' /\ OnlyCandidatesRun'
  <1>1. /\ TheRan' = TheRan /\ Baseline' = Baseline
        /\ \A d, i : Neighbour(d, i)' = Neighbour(d, i)
    BY DEF TheRan, Baseline, Neighbour
  <1>2. OnlyCandidatesRun'
    BY <1>1 DEF IInv, OnlyCandidatesRun
  <1>3. WithinBounds'
    BY <1>1 DEF IInv, WithinBounds, FromWithin, RoundsUpNear, RoundsDownNear, Rounded, Near
  <1>4. SweptSoFar'
    BY <1>1 DEF IInv, SweptSoFar, Sweeps, Ran
  <1>. QED
    BY <1>2, <1>3, <1>4

\* The loops end when all is passed.
LEMMA EndKeeps ==
    ASSUME TypeOK, IInv, GridEnd \/ RefineEnd \/ CoordinateEnd
    PROVE  IInv'
  <1>1. /\ UNCHANGED <<job, trial, trials, best, incumbent, pos, halt>>
        /\ UNCHANGED <<streak, aborts, gpu, cost>>
        /\ pc = "search" /\ pc' = "done"
    BY DEF GridEnd, RefineEnd, CoordinateEnd, Stop, search, guard
  <1>2. WithinBounds' /\ SweptSoFar' /\ OnlyCandidatesRun'
    BY <1>1, SamePlace
  <1>3. EndedAtTheEnd'
    <2> SUFFICES ASSUME Sweeps, ~pos.changed,
                        NEW d \in 1..Len(job.dims), NEW i \in 1..Len(job.dims[d])
                 PROVE  Ran(Neighbour(d, i))
      BY <1>1 DEF EndedAtTheEnd, Sweeps, Ran, Neighbour
    <2>1. job.dims \in Seq(Seq(Int)) /\ pos.dim \in Nat /\ pos.i \in Nat /\ SweptSoFar
      BY JobType DEF TypeOK, IsJob, IInv
    <2>2. job.dims[d] \in Seq(Int) /\ d \in Nat /\ d <= Len(job.dims) /\ Len(job.dims) \in Nat
      BY <2>1
    <2>3. i \in Nat /\ i <= Len(job.dims[d]) /\ Len(job.dims[d]) \in Nat
      BY <2>2
    <2>4. d < pos.dim \/ (d = pos.dim /\ i < pos.i)
      <3>1. CASE GridEnd
        <4>1. pos.dim = 1 /\ pos.i > Len(job.dims[1]) /\ Len(job.dims) = 1
          BY <2>1, <3>1, JobType DEF GridEnd, SweptSoFar, IsJob, TypeOK
        <4>2. d = 1
          BY <2>2, <4>1
        <4>. QED
          BY <2>1, <2>3, <4>1, <4>2
      <3>2. CASE RefineEnd
        BY <3>2 DEF RefineEnd, Sweeps
      <3>3. CASE CoordinateEnd
        <4>1. pos.dim > Len(job.dims)
          BY <3>3 DEF CoordinateEnd
        <4>. QED
          BY <2>1, <2>2, <4>1
      <3>. QED
        BY <3>1, <3>2, <3>3
    <2>. QED
      BY <2>1, <2>4 DEF SweptSoFar
  <1>. QED
    BY <1>1, <1>2, <1>3, KeepStep DEF IInv

\* No step disturbs the invariant.
LEMMA InvariantStep == TypeOK /\ IInv /\ [Next]_vars => IInv'
  <1> SUFFICES ASSUME TypeOK, IInv, [Next]_vars PROVE IInv'
    OBVIOUS
  <1>1. CASE Done \/ UNCHANGED vars
    <2>1. UNCHANGED <<job, pc, trial, trials, best, incumbent, pos, halt>>
          /\ UNCHANGED <<streak, aborts, gpu, cost>>
      BY <1>1 DEF Done, vars, search, guard
    <2>2. AtStart' /\ Grounded' /\ TrialsAreRun' /\ BestMayWin'
      BY <2>1 DEF IInv, AtStart, Grounded, TrialsAreRun, BestMayWin, TheRan, Ran, Baseline
    <2>3. CountersMatchTrials'
      BY <2>1 DEF IInv, CountersMatchTrials, Ran
    <2>4. LimitsAhead' /\ WithinLimits' /\ HaltedAtTheLimit'
      BY <2>1, SameJob DEF IInv, LimitsAhead, WithinLimits, HaltedAtTheLimit
    <2>5. WithinBounds' /\ SweptSoFar' /\ OnlyCandidatesRun'
      BY <2>1, SamePlace
    <2>6. EndedAtTheEnd'
      BY <2>1 DEF IInv, EndedAtTheEnd, Ran, Neighbour, Sweeps
    <2>. QED
      BY <2>2, <2>3, <2>4, <2>5, <2>6 DEF IInv
  <1>. QED
    BY <1>1, EvalStartStep, GridStepKeeps, RefineStepKeeps, NextRoundKeeps,
       CoordinateStepKeeps, NextDimensionKeeps, NextPassKeeps, EndKeeps DEF Next, Step

\* A search starts with nothing run.
LEMMA InitialState == Init => TypeOK /\ IInv
  <1> SUFFICES ASSUME Init PROVE TypeOK /\ IInv
    OBVIOUS
  <1>1. /\ job \in Jobs /\ IsJob(job) /\ Baseline \in Coords
    BY JobType DEF Init
  <1>2. TypeOK
    <2>1. job.rounds \in Nat \ {0} /\ job.lo \in Int /\ job.hi \in Int /\ job.start \in Coords
      BY <1>1 DEF IsJob
    <2>2. pos \in [round : 1..(job.rounds + 1), dim : Nat \ {0}, i : Nat \ {0},
                   lo : Int, hi : Int, changed : BOOLEAN]
      BY <2>1 DEF Init
    <2>3. DOMAIN trial \subseteq Coords /\ trial \in [DOMAIN trial -> job.outcomes]
      <3>1. trial = << >> /\ DOMAIN trial = {}
        BY DEF Init
      <3>2. trial = [x \in {} |-> {}]
        BY <3>1
      <3>. QED
        BY <3>1, <3>2
    <2>4. /\ job \in Jobs /\ pc \in {"start", "search", "done"}
          /\ best \in Coords \cup {None} /\ late \in BOOLEAN /\ halt \in Reasons \cup {"none"}
      BY DEF Init
    <2>5. streak = 0 /\ aborts = 0 /\ stale = 0 /\ gpu = 0 /\ cost = 0
      BY DEF Init
    <2>6. {streak, aborts, stale, gpu, cost} \subseteq Nat
      BY <2>5
    <2>7. incumbent \in Coords
      BY <2>1 DEF Init
    <2>8. trials \in Seq(Coords)
      BY <1>1 DEF Init
    <2>. QED
      BY <2>2, <2>3, <2>4, <2>6, <2>7, <2>8 DEF TypeOK
  <1>3. TheRan = {} /\ trials = << >> /\ Len(trials) = 0
    BY DEF Init, TheRan
  <1>4. /\ AtStart /\ Grounded /\ BestMayWin /\ LimitsAhead /\ EndedAtTheEnd
        /\ HaltedAtTheLimit
    BY <1>3 DEF Init, AtStart, Grounded, BestMayWin, LimitsAhead, EndedAtTheEnd,
                HaltedAtTheLimit
  <1>10. OnlyCandidatesRun
    BY <1>3 DEF OnlyCandidatesRun
  <1>5. TrialsAreRun
    BY <1>3, FS_EmptySet DEF TrialsAreRun
  <1>6. CountersMatchTrials
    <2>1. {k \in 1..Len(trials) : trial[trials[k]].status # "COMPLETED"} = {}
      BY <1>3
    <2>2. DOMAIN trial = {}
      BY <1>3 DEF TheRan
    <2>3. Cardinality({}) = 0
      BY FS_EmptySet
    <2>4. streak = 0 /\ aborts = 0
      BY DEF Init
    <2>5. aborts = Cardinality({k \in 1..Len(trials) : trial[trials[k]].status # "COMPLETED"})
      BY <2>1, <2>3, <2>4
    <2>6. Len(trials) = Cardinality(DOMAIN trial)
      BY <1>3, <2>2, <2>3
    <2>. QED
      BY <1>3, <2>4, <2>5, <2>6 DEF CountersMatchTrials
  <1>7. WithinLimits
    BY <1>3 DEF Init, WithinLimits
  <1>8. WithinBounds
    <2> SUFFICES ASSUME FromWithin PROVE WithinBounds
      BY DEF WithinBounds
    <2>1. /\ job.lo \in Int /\ job.hi \in Int /\ job.lo <= job.hi /\ job.grain \in Nat
          /\ pos.lo = job.lo /\ pos.hi = job.hi
      BY <1>1, JobType DEF FromWithin, Init
    <2>2. \A x \in {pos.lo, pos.hi} : RoundsUpNear(x) /\ RoundsDownNear(x)
      BY <2>1 DEF RoundsUpNear, RoundsDownNear
    <2>. QED
      BY <1>3, <2>1, <2>2 DEF WithinBounds
  <1>9. SweptSoFar
    <2>1. Sweeps => DOMAIN incumbent = 1..Len(job.dims)
      BY <1>1, JobType DEF Init, Sweeps, Baseline
    <2>2. ASSUME NEW d \in 1..Len(job.dims), NEW i \in 1..Len(job.dims[d])
          PROVE  ~(d < pos.dim \/ (d = pos.dim /\ i < pos.i))
      <3>1. job.dims \in Seq(Seq(Int))
        BY <1>1 DEF IsJob
      <3>2. job.dims[d] \in Seq(Int)
        BY <3>1
      <3>. QED
        BY <3>1, <3>2 DEF Init
    <2>. QED
      BY <2>1, <2>2 DEF Init, SweptSoFar, Baseline
  <1>. QED
    BY <1>2, <1>4, <1>5, <1>6, <1>7, <1>8, <1>9, <1>10 DEF IInv

------------------------------------------------------------------------------
(* The comparison, on one scale, is an order.                              *)

\* The gain that is compared, of positive medians.
LEMMA RealGain ==
    ASSUME NEW base \in Trial, NEW cand \in Trial, base.median > 0,
           NEW mde \in Nat \ {0}, NEW minimize \in BOOLEAN,
           NEW g \in Int, g = Gain(base.median, cand.median, minimize)
    PROVE  /\ IsRealImprovement(base, cand, mde, minimize) <=>
                100 * g >= mde * base.median /\ g * g >= base.noise + cand.noise
           /\ IsRealImprovement(base, cand, mde, minimize) => g > 0
  <1>1. PICK p \in Int, q \in Int : p = base.median /\ q = cand.median
    BY DEF Trial
  <1>2. g = p - q \/ g = q - p
    BY <1>1 DEF Gain
  <1>3. (p - q) * (p - q) = g * g
    BY <1>2
  <1>4. GainReaches(p, g, mde) <=> 100 * g >= mde * p
    BY <1>1 DEF GainReaches
  <1>5. p # 0
    BY <1>1
  <1>6. IsRealImprovement(base, cand, mde, minimize) <=>
           100 * g >= mde * p /\ g * g >= base.noise + cand.noise
    BY <1>1, <1>3, <1>4, <1>5 DEF IsRealImprovement
  <1>7. mde * p > 0
    BY <1>1
  <1>8. 100 * g >= mde * p => g > 0
    BY <1>7
  <1>. QED
    BY <1>1, <1>6, <1>8

\* Two gains add up: what improves on an improvement is an improvement.
LEMMA GainsAddUp ==
    ASSUME NEW b \in Trial, NEW m \in Trial, NEW c \in Trial,
           b.median > 0, m.median > 0,
           b.noise \in Nat, m.noise \in Nat, c.noise \in Nat,
           NEW mde \in Nat \ {0}, NEW minimize \in BOOLEAN,
           IsRealImprovement(b, m, mde, minimize), IsRealImprovement(m, c, mde, minimize)
    PROVE  IsRealImprovement(b, c, mde, minimize)
  <1>0. b.median \in Int /\ m.median \in Int /\ c.median \in Int
    BY DEF Trial
  <1>1. PICK y \in Int : y = Gain(b.median, m.median, minimize)
    BY <1>0 DEF Gain
  <1>2. PICK x \in Int : x = Gain(m.median, c.median, minimize)
    BY <1>0 DEF Gain
  <1>3. x + y = Gain(b.median, c.median, minimize) /\ x + y \in Int
    BY <1>0, <1>1, <1>2 DEF Gain
  <1>4. 100 * y >= mde * b.median /\ y * y >= b.noise + m.noise /\ y > 0
    BY <1>1, RealGain
  <1>5. x * x >= m.noise + c.noise /\ x > 0
    BY <1>2, RealGain
  <1>6. PICK k \in Int : k = mde * b.median
    BY <1>0
  <1>7. 100 * (x + y) >= k
    BY <1>4, <1>5, <1>6
  <1>8. (x + y) * (x + y) >= x * x + y * y
    <2>1. (x + y) * (x + y) = x * x + y * y + 2 * (x * y) /\ x * y \in Int
      OBVIOUS
    <2>2. x * y >= 0
      BY <1>4, <1>5
    <2>3. PICK xx \in Int, yy \in Int, xy \in Int : xx = x * x /\ yy = y * y /\ xy = x * y
      OBVIOUS
    <2>. QED
      BY <2>1, <2>2, <2>3
  <1>9. (x + y) * (x + y) >= b.noise + c.noise
    <2>1. PICK xx \in Int, yy \in Int, zz \in Int :
             xx = x * x /\ yy = y * y /\ zz = (x + y) * (x + y)
      OBVIOUS
    <2>. QED
      BY <1>4, <1>5, <1>8, <2>1
  <1>. QED
    BY <1>3, <1>6, <1>7, <1>9, RealGain

\* Of fair trials on one scale: none beats itself, the better one has the better
\* median, and what beats a trial that beats another beats the other.
LEMMA BetterIsAnOrder ==
    ASSUME job \in Jobs, OneScale(job),
           NEW a \in job.outcomes, NEW b \in job.outcomes, NEW c \in job.outcomes,
           a.comparable, a.feasible, b.comparable, b.feasible, c.comparable, c.feasible
    PROVE  /\ ~Better(a, a)
           /\ Better(a, b) => IF job.minimize THEN a.median < b.median
                                              ELSE a.median > b.median
           /\ Better(a, b) /\ Better(b, c) => Better(a, c)
  <1>1. /\ a \in Trial /\ b \in Trial /\ c \in Trial
        /\ a # NoTrial /\ b # NoTrial /\ c # NoTrial
    BY OutcomeType
  <1>2. /\ job.mde \in Nat \ {0} /\ job.minimize \in BOOLEAN
        /\ a.median > 0 /\ b.median > 0 /\ c.median > 0
    BY JobType DEF IsJob, OneScale
  <1>3. /\ a.median \in Int /\ b.median \in Int /\ c.median \in Int
        /\ a.noise \in Nat \cup {NoStats} /\ b.noise \in Nat \cup {NoStats}
        /\ c.noise \in Nat \cup {NoStats}
    BY <1>1 DEF Trial
  <1>4. CASE a.noise = NoStats /\ b.noise = NoStats /\ c.noise = NoStats
    BY <1>1, <1>2, <1>3, <1>4 DEF Better
  <1>5. CASE a.noise # NoStats /\ b.noise # NoStats /\ c.noise # NoStats
    <2>1. a.noise \in Nat /\ b.noise \in Nat /\ c.noise \in Nat
      BY <1>3, <1>5
    <2>2. /\ Better(a, a) => IsRealImprovement(a, a, job.mde, job.minimize)
          /\ Better(a, b) => IsRealImprovement(b, a, job.mde, job.minimize)
          /\ Better(b, c) => IsRealImprovement(c, b, job.mde, job.minimize)
          /\ job.attributable /\ IsRealImprovement(c, a, job.mde, job.minimize) => Better(a, c)
          /\ Better(a, b) => job.attributable
      BY <1>1, <1>5 DEF Better
    <2>3. ~IsRealImprovement(a, a, job.mde, job.minimize)
      <3>1. 0 = Gain(a.median, a.median, job.minimize)
        BY <1>3 DEF Gain
      <3>. QED
        BY <1>1, <1>2, <3>1, RealGain
    <2>4. IsRealImprovement(b, a, job.mde, job.minimize) =>
             IF job.minimize THEN a.median < b.median ELSE a.median > b.median
      <3>1. PICK g \in Int : g = Gain(b.median, a.median, job.minimize)
        BY <1>3 DEF Gain
      <3>2. IsRealImprovement(b, a, job.mde, job.minimize) => g > 0
        BY <1>1, <1>2, <3>1, RealGain
      <3>. QED
        BY <1>3, <3>1, <3>2 DEF Gain
    <2>5. /\ IsRealImprovement(c, b, job.mde, job.minimize)
          /\ IsRealImprovement(b, a, job.mde, job.minimize)
          => IsRealImprovement(c, a, job.mde, job.minimize)
      BY <1>1, <1>2, <2>1, GainsAddUp
    <2>. QED
      BY <2>2, <2>3, <2>4, <2>5
  <1>. QED
    BY <1>4, <1>5 DEF OneScale

\* The best is fair, and only a fair trial is better than any.
LEMMA FairTrials ==
    ASSUME TypeOK, IInv
    PROVE  /\ best # None =>
                /\ best \in TheRan /\ BestTrial = trial[best]
                /\ trial[best] \in job.outcomes
                /\ trial[best].comparable /\ trial[best].feasible /\ job.attributable
           /\ best = None => BestTrial = NoTrial
           /\ \A a, b : Better(a, b) => a.comparable /\ a.feasible /\ job.attributable
           /\ \A a : Better(a, NoTrial) <=> a.comparable /\ a.feasible /\ job.attributable
  <1>1. best # None => best \in Coords /\ Ran(best)
    BY DEF TypeOK, IInv, BestMayWin
  <1>. QED
    BY <1>1, TrialType DEF IInv, BestMayWin, BestTrial, TheRan, Ran, Better

\* A comparison leaves nothing better than the best.
LEMMA ConsiderKeeps ==
    ASSUME TypeOK, IInv, BestIsUnbeaten, OneScale(job), pc = "search", job' = job,
           NEW c \in Coords, Evaluate(c), Consider(c)
    PROVE  BestIsUnbeaten'
  <1>1. PICK t : t = trial'[c]
    OBVIOUS
  <1>2. /\ TheRan' = TheRan \cup {c} /\ t \in job.outcomes
        /\ \A x \in TheRan : x \in Coords /\ trial'[x] = trial[x] /\ trial[x] \in job.outcomes
    BY <1>1, EvaluateRuns, TrialType DEF TheRan, Ran
  <1>3. /\ Baseline \in TheRan /\ Baseline' = Baseline /\ trial'[Baseline] = trial[Baseline]
        /\ trial[Baseline].comparable
    BY <1>2, JobType, SameJob DEF TypeOK, IInv, Grounded, TheRan, Ran
  <1>4. job \in Jobs
    BY DEF TypeOK
  <1>5. CASE ~Better(t, BestTrial)
    <2>1. best' = best
      BY <1>1, <1>5 DEF Consider
    <2>2. BestTrial' = BestTrial
      BY <1>2, <2>1, FairTrials DEF BestTrial
    <2>3. \A x \in TheRan' : ~Better(trial'[x], BestTrial)
      BY <1>1, <1>2, <1>5 DEF BestIsUnbeaten
    <2>4. best # None => best \in TheRan
      BY FairTrials
    <2>5. best # None => trial'[best] = trial[best]
      BY <1>2, <2>4
    <2>. QED
      BY <1>3, <2>1, <2>2, <2>3, <2>5, SameJob DEF BestIsUnbeaten
  <1>6. CASE Better(t, BestTrial)
    <2>1. best' = c /\ c # None /\ t.comparable /\ t.feasible /\ job.attributable
      BY <1>1, <1>4, <1>6, JobType, FairTrials DEF Consider
    <2>2. BestTrial' = t
      BY <1>1, <2>1 DEF BestTrial, None
    <2>3. ~Better(t, t)
      BY <1>2, <1>4, <2>1, BetterIsAnOrder
    <2>4. ASSUME NEW x \in TheRan, Better(trial[x], t)
          PROVE  FALSE
      <3>1. trial[x].comparable /\ trial[x].feasible /\ trial[x] \in job.outcomes
        BY <1>2, <2>4, FairTrials
      <3>2. Better(trial[x], BestTrial)
        <4>1. CASE best = None
          BY <2>1, <3>1, <4>1, FairTrials
        <4>2. CASE best # None
          BY <1>2, <1>4, <1>6, <2>1, <2>4, <3>1, <4>2, FairTrials, BetterIsAnOrder
        <4>. QED
          BY <4>1, <4>2
      <3>. QED
        BY <3>2 DEF BestIsUnbeaten
    <2>5. \A x \in TheRan' : ~Better(trial'[x], t)
      BY <1>1, <1>2, <2>3, <2>4
    <2>6. trial[Baseline].feasible =>
             IF job.minimize THEN t.median <= trial[Baseline].median
                             ELSE t.median >= trial[Baseline].median
      <3>1. SUFFICES ASSUME trial[Baseline].feasible
                     PROVE  IF job.minimize THEN t.median <= trial[Baseline].median
                                            ELSE t.median >= trial[Baseline].median
        OBVIOUS
      <3>2. best # None
        <4>1. Better(trial[Baseline], NoTrial)
          BY <1>3, <2>1, <3>1, FairTrials
        <4>. QED
          BY <1>3, <4>1, FairTrials DEF BestIsUnbeaten
      <3>3. /\ trial[best] \in job.outcomes /\ trial[best].comparable /\ trial[best].feasible
            /\ Better(t, trial[best])
        BY <1>6, <3>2, FairTrials
      <3>4. IF job.minimize THEN t.median < trial[best].median
                            ELSE t.median > trial[best].median
        BY <1>2, <1>4, <2>1, <3>3, BetterIsAnOrder
      <3>5. IF job.minimize THEN trial[best].median <= trial[Baseline].median
                            ELSE trial[best].median >= trial[Baseline].median
        BY <3>1, <3>2 DEF BestIsUnbeaten
      <3>6. t.median \in Int /\ trial[best].median \in Int /\ trial[Baseline].median \in Int
        BY <1>2, <1>3, <1>4, <3>3, OutcomeType DEF Trial
      <3>. QED
        BY <3>4, <3>5, <3>6
    <2>. QED
      BY <1>1, <1>3, <2>1, <2>2, <2>5, <2>6, SameJob DEF BestIsUnbeaten
  <1>. QED
    BY <1>5, <1>6

\* No step leaves anything better than the best.
LEMMA UnbeatenStep ==
    TypeOK /\ IInv /\ OneScale(job) /\ BestIsUnbeaten /\ [Next]_vars => BestIsUnbeaten'
  <1> SUFFICES ASSUME TypeOK, IInv, OneScale(job), BestIsUnbeaten, [Next]_vars
               PROVE  BestIsUnbeaten'
    OBVIOUS
  <1>1. ASSUME UNCHANGED <<job, trial, best>> PROVE BestIsUnbeaten'
    BY <1>1 DEF BestIsUnbeaten, BestTrial, Better, TheRan, Ran, Baseline
  <1>2. CASE EvalStart
    <2>1. /\ Evaluate(Baseline) /\ job' = job /\ Baseline \in Coords /\ job \in Jobs
          /\ TheRan = {} /\ best = None /\ Baseline' = Baseline
      BY <1>2, JobType, SameJob DEF EvalStart, IInv, AtStart, Baseline, TypeOK
    <2>2. PICK t : t = trial'[Baseline]
      OBVIOUS
    <2>3. TheRan' = {Baseline} /\ t \in job.outcomes
      BY <2>1, <2>2, EvaluateRuns DEF Ran
    <2>4. CASE Better(t, NoTrial) /\ best' = Baseline
      <3>1. BestTrial' = t
        BY <2>1, <2>2, <2>4, JobType DEF BestTrial
      <3>2. ~Better(t, t)
        BY <2>1, <2>3, <2>4, FairTrials, BetterIsAnOrder
      <3>3. t.median \in Int
        BY <2>1, <2>3, OutcomeType DEF Trial
      <3>. QED
        BY <2>1, <2>2, <2>3, <2>4, <3>1, <3>2, <3>3, SameJob DEF BestIsUnbeaten
    <2>5. CASE ~Better(t, NoTrial) /\ best' = None
      <3>1. BestTrial' = NoTrial
        BY <2>5 DEF BestTrial
      <3>. QED
        BY <2>1, <2>2, <2>3, <2>5, <3>1, SameJob DEF BestIsUnbeaten
    <2>6. CASE ~t.comparable /\ best' = best
      <3>1. ~Better(t, NoTrial)
        BY <2>6 DEF Better
      <3>. QED
        BY <2>1, <2>5, <2>6, <3>1
    <2>. QED
      BY <1>2, <2>2, <2>4, <2>5, <2>6 DEF EvalStart, Baseline
  <1>3. CASE GridStep
    <2>1. /\ job' = job /\ pc = "search" /\ Sweeps /\ job.strategy = "grid" /\ SweptSoFar
          /\ pos.dim = 1 /\ pos.i <= Len(job.dims[1])
      BY <1>3 DEF GridStep, IInv, SweptSoFar, Sweeps
    <2>2. Len(job.dims) = 1
      BY <2>1, JobType DEF IsJob, TypeOK
    <2>3. pos.dim <= Len(job.dims) /\ pos.i <= Len(job.dims[pos.dim])
      BY <2>1, <2>2
    <2>4. PICK c \in Coords : c = Candidate
      BY <2>1, <2>3, CandidateType
    <2>5. CASE c = job.start
      BY <1>1, <1>3, <2>4, <2>5 DEF GridStep
    <2>6. CASE c # job.start
      <3>1. Evaluate(c) /\ Consider(c)
        BY <1>3, <2>4, <2>6 DEF GridStep, Try
      <3>. QED
        BY <2>1, <3>1, ConsiderKeeps
    <2>. QED
      BY <2>5, <2>6
  <1>4. CASE RefineStep
    <2>1. PICK v \in Points(pos.i) :
             job' = job /\ pc = "search" /\ Evaluate(<<v>>) /\ Consider(<<v>>)
      BY <1>4 DEF RefineStep, Try
    <2>2. <<v>> \in Coords
      BY <1>4, PointType DEF RefineStep
    <2>. QED
      BY <2>1, <2>2, ConsiderKeeps
  <1>5. CASE CoordinateStep
    <2>1. /\ job' = job /\ pc = "search" /\ Candidate \in Coords
          /\ Evaluate(Candidate) /\ Consider(Candidate)
      BY <1>5, CandidateType DEF CoordinateStep, IInv, Sweeps
    <2>. QED
      BY <2>1, ConsiderKeeps
  <1>6. CASE NextRound \/ NextDimension \/ NextPass
    BY <1>1, <1>6 DEF NextRound, NextDimension, NextPass
  <1>7. CASE GridEnd \/ RefineEnd \/ CoordinateEnd
    BY <1>1, <1>7 DEF GridEnd, RefineEnd, CoordinateEnd, Stop, search
  <1>8. CASE Done \/ UNCHANGED vars
    BY <1>1, <1>8 DEF Done, vars, search
  <1>. QED
    BY <1>2, <1>3, <1>4, <1>5, <1>6, <1>7, <1>8 DEF Next, Step

------------------------------------------------------------------------------
(* The theorems.                                                           *)

\* The invariant holds in every search.
THEOREM Inductive == Spec => [](TypeOK /\ IInv)
  <1>. QED
    BY InitialState, TypeStep, InvariantStep, PTL DEF Spec

\* The variables have their types: every candidate a strategy constructs is one,
\* and the loops stay within their rounds.
THEOREM TypeCorrect == Spec => []TypeOK
  <1>. QED
    BY Inductive, PTL

\* The guard's counters tell the truth about the trials run, and no candidate is
\* run twice.
THEOREM CountersAreTrue == Spec => []CountersMatchTrials
  <1>1. IInv => CountersMatchTrials
    BY DEF IInv
  <1>. QED
    BY <1>1, Inductive, PTL

\* The limits are reached and never passed, but for the first candidate's trial, and
\* a refinement from a baseline within its bounds stays within half a grain of them:
\* a point may be rounded over a bound and become the best around which the next
\* interval is turned over, yet what that interval's points are rounded to is no
\* further off.
THEOREM SearchStaysBounded == Spec => []SearchIsBounded
  <1>1. TypeOK /\ IInv => SearchIsBounded
    <2> SUFFICES ASSUME TypeOK, IInv PROVE SearchIsBounded
      OBVIOUS
    <2>1. ASSUME FromWithin, NEW c \in DOMAIN trial
          PROVE  2 * job.lo - job.grain <= 2 * c[1] /\ 2 * c[1] <= 2 * job.hi + job.grain
      <3>1. CASE c = Baseline
        <4>1. c[1] = job.start[1] /\ job.start[1] \in job.lo..job.hi
          BY <2>1, <3>1 DEF FromWithin, Baseline
        <4>2. job.lo \in Int /\ job.hi \in Int /\ job.grain \in Nat
          BY <2>1, JobType DEF FromWithin, TypeOK
        <4>. QED
          BY <4>1, <4>2
      <3>2. CASE c # Baseline
        BY <2>1, <3>2 DEF IInv, WithinBounds, TheRan, Near
      <3>. QED
        BY <3>1, <3>2
    <2>. QED
      BY <2>1 DEF IInv, WithinLimits, SearchIsBounded, FromWithin
  <1>. QED
    BY <1>1, Inductive, PTL

\* Of trials on one scale nothing that was run beats the best there is.
THEOREM BestStaysUnbeaten ==
    ASSUME \A j \in Jobs : OneScale(j)
    PROVE  Spec => []BestIsUnbeaten
  <1>1. Init => BestIsUnbeaten
    BY DEF Init, BestIsUnbeaten, TheRan
  <1>2. TypeOK => OneScale(job)
    BY DEF TypeOK
  <1>3. TypeOK /\ IInv /\ BestIsUnbeaten /\ [Next]_vars => BestIsUnbeaten'
    BY <1>2, UnbeatenStep
  <1>. QED
    BY <1>1, <1>3, Inductive, PTL DEF Spec

\* Noise makes trials incomparable and the best changes hands, yet no trial,
\* whenever it was run, is a real improvement on the best of now, and what is
\* recommended is no worse than a feasible baseline: two real improvements add up
\* to one, since their noise adds up to less than the square of their sum.
THEOREM NothingRunIsBetter ==
    ASSUME \A j \in Jobs : OneScale(j)
    PROVE  Spec => []NothingBeatsTheBest
  <1>1. BestIsUnbeaten => NothingBeatsTheBest
    BY DEF BestIsUnbeaten, NothingBeatsTheBest, TheRan, Recommended, Baseline
  <1>. QED
    BY <1>1, BestStaysUnbeaten, PTL

\* A grid with room for all its values that the trial limit ends has run them: it has
\* run as many candidates as there are values, and no others.
LEMMA FullGridHasRun ==
    ASSUME TypeOK, IInv, pc = "done", halt = "BUDGET_TRIALS", RoomForAll,
           NEW d \in 1..Len(job.dims), NEW i \in 1..Len(job.dims[d])
    PROVE  Ran(Neighbour(d, i))
  <1>1. /\ job.strategy = "grid" /\ incumbent = Baseline /\ job \in Jobs
        /\ job.dims \in Seq(Seq(Int))
    BY JobType DEF RoomForAll, TypeOK, IInv, SweptSoFar, Sweeps
  <1>2. Len(job.dims) = 1 /\ d = 1
    BY <1>1, JobType DEF IsJob
  <1>3. PICK n \in Nat : n = Len(job.dims[1])
    BY <1>1, <1>2
  <1> DEFINE I == 1..n
             f == [k \in I |-> Neighbour(1, k)]
             N == {Neighbour(1, k) : k \in I}
  <1>4. f \in Surjection(I, N)
    BY DEF Surjection
  <1>5. IsFiniteSet(I) /\ Cardinality(I) = n
    <2>1. 1 \in Int /\ n \in Int
      OBVIOUS
    <2>2. IsFiniteSet(I) /\ Cardinality(I) = IF 1 > n THEN 0 ELSE n - 1 + 1
      BY <2>1, FS_Interval
    <2>. QED
      BY <2>2
  <1>6. IsFiniteSet(N) /\ Cardinality(N) <= n
    BY <1>4, <1>5, FS_Surjection
  <1>7. TheRan \subseteq N
    <2>1. Baseline \in N
      <3>1. PICK k \in I : job.start[1] = job.dims[1][k]
        BY <1>3 DEF RoomForAll
      <3>2. Neighbour(1, k) = Baseline
        <4>1. Baseline = [Baseline EXCEPT ![1] = Baseline[1]]
          BY <1>1, JobType
        <4>. QED
          BY <1>1, <3>1, <4>1 DEF Neighbour, Baseline
      <3>. QED
        BY <3>2
    <2>. QED
      BY <1>1, <1>3, <2>1 DEF IInv, OnlyCandidatesRun
  <1>8. Cardinality(TheRan) >= n
    <2>1. Len(trials) >= MaxTrials /\ MaxTrials >= n
      BY <1>3 DEF IInv, HaltedAtTheLimit, RoomForAll
    <2>2. Len(trials) = Cardinality(TheRan) /\ Len(trials) \in Nat /\ MaxTrials \in Nat
      BY <1>1, MaxTrialsType DEF IInv, CountersMatchTrials, TheRan, TypeOK
    <2>. QED
      BY <2>1, <2>2
  <1>9. TheRan = N
    <2>1. /\ IsFiniteSet(TheRan) /\ Cardinality(TheRan) <= Cardinality(N)
          /\ Cardinality(TheRan) = Cardinality(N) => TheRan = N
      BY <1>6, <1>7, FS_Subset
    <2>2. Cardinality(TheRan) \in Nat /\ Cardinality(N) \in Nat
      BY <1>6, <2>1, FS_CardinalityType
    <2>3. Cardinality(TheRan) = Cardinality(N)
      BY <1>6, <1>8, <2>1, <2>2
    <2>. QED
      BY <2>1, <2>3
  <1>. QED
    BY <1>2, <1>3, <1>9 DEF TheRan, Ran

\* A sweep that ends by itself, and not on its last pass, has run every neighbour
\* of the candidate it ends at, and none is better; so has a grid that the limit on
\* its trials ends, if it left room for all its values.
THEOREM SweepIsComplete ==
    ASSUME \A j \in Jobs : OneScale(j)
    PROVE  Spec => []SearchIsComplete
  <1>1. TypeOK /\ IInv /\ BestIsUnbeaten => SearchIsComplete
    <2> SUFFICES ASSUME TypeOK, IInv, BestIsUnbeaten, Sweeps, pc = "done",
                        \/ halt = "none" /\ ~pos.changed
                        \/ halt = "BUDGET_TRIALS" /\ RoomForAll,
                        NEW d \in 1..Len(job.dims), NEW i \in 1..Len(job.dims[d])
                 PROVE  Ran(Neighbour(d, i)) /\ ~Better(trial[Neighbour(d, i)], BestTrial)
      BY DEF SearchIsComplete, Sweeps, Neighbour
    <2>1. Ran(Neighbour(d, i))
      BY FullGridHasRun DEF IInv, EndedAtTheEnd
    <2>. QED
      BY <2>1 DEF BestIsUnbeaten, TheRan, Ran
  <1>. QED
    BY <1>1, Inductive, BestStaysUnbeaten, PTL

==============================================================================
