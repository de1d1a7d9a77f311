# Verification of the benchmark engine

TLA+ models of the engine behind the benchmark plugin (`benchmark_engine`), the
TLC runs that check them and the TLAPS proofs about them. The reference is the
source: every definition listed under `map` in `PROJECT.json` names the lines it
translates. This file says what the system consists of, what each module models
and leaves out, what the runs and proofs show, and what is still to be done.

Contents: 1 the system, 2 modules, 3 runs, 4 bounds and fairness, 5 proofs,
6 disagreements between code and documentation, 7 observations without a run,
8 not modelled, 9 plan.

## 1. The system

A benchmark run takes a declared configuration through gates, builds (or reuses)
an artifact, measures it and files a tagged record; a tuner makes many such runs.

| Component | State | Operations | Meets | What is hard | Correct means |
|---|---|---|---|---|---|
| DAG scheduler (`engine/scheduler.py`, `step.py`) | results, done, remaining; threads of two pools | `run`, `_pool`, `_run_one` | cache, launchers | two pools and a serial loop per wave, tasks that raise, failed dependencies, cycles | a performance measure runs alone; a step runs on completed dependencies only; a run ends, with an error for a cycle and only for one |
| Launcher, worker, monitor (`launcher.py`, `worker.py`, `guard.py`) | the subprocess, the guard's count and action, `result.json` | `run`, `main`, `monitor_process` | scheduler, OOM guard, the operating system | three actors, signals, a join with a timeout, a file that outlives a run | an abort has a cause, a breach is stopped, the result is this launch's |
| OOM guard (`guard.py`, `ResourceBudget`) | consecutive hard samples | `observe`, `verdict` | launcher, lifecycle | streams around the thresholds, truncated thresholds | kills for what its last samples say, never below the ceiling |
| Signature cache (`cache.py`) | entries and temporary directories on disk | `has`, `store` | scheduler, other processes with the same workdir | crashes between file operations, two processes that miss together | what is visible is whole and stays |
| Run lifecycle (`lifecycle.py`, `measure_entry.py`, `fingerprint.py`, `effective.py`, `discipline/`) | config and its freeze, recorder, prep cache, three files per run id | `run_lifecycle`, `classify`, `_persist` | everything above, the domain's hooks | exceptions from every step, cached artifacts of other environments, priors, crashes while filing | a tag is earned, a comparison is between comparables, a record is the last result |
| Tuner and loop guard (`tuning.py`, `measurement.py`) | trial cache, best, incumbent, counters, halt reason | `grid`, `refine`, `coordinate`, `_check_halt` | lifecycle | counters and strategies interacting, noise, budgets met in the middle of a sweep | nothing beats the recommendation; the search ends, within its limits |
| Gates (`preflight.py`, `manifest.py`, `signature.py`) | none | `run_preflight`, `baseline_diff`, `check_manifest`, `field_diff` | lifecycle, the domains' hooks | several gates, each with its own rule for what may differ | what passes differs from the baseline by the treatment only |
| Command domain (`benchmark_domains/command.py`, `benchmark_ops/command.py`) | a workroot: one directory per stage, a stage cache; the recorder | `validate`, `prep`, `measure`, `_capture_effective`, `run_command_stage` | scheduler, cache, shell commands | directories shared by all configurations and never emptied, cache hits in the middle of a chain, commands that fail half-way | an artifact is made from what its key says; a measurement from its own configuration |
| OpenSearch domain (`benchmark_domains/opensearch/`) | the live index, the session's handles, the prep entry | `apply_config`, `verify_config`, `prep`, `save_prep`, `load_prep`, `reconstruct`, `measure` | lifecycle, a container | three memories of one build with different lives; builds that fail half-way, containers that stop | what is searched is whole and force-merged |
| Index, sweep, analysis, resources, plugin | none | read and format | | | |

Interactions: the tuner and the sweep call `run_lifecycle`; it builds a DAG of
two steps, `prep -> measure`, and gives it to the scheduler with a cache for
prep and, if asked, a subprocess launcher for measure; the launcher starts the
worker and a monitor thread that owns an OOM guard; the lifecycle applies a
guard of its own to the reported peak, classifies and writes three files. The
shared state that outlives a call is on disk: the cache (`<workdir>/_cache`), the
step directories with `result.json`, and the run directories.

The full list of components, modelled or not, and of hazards with the line where
each bites, is in `PROJECT.json`.

## 2. Modules

Names follow the source where TLA+ allows. Operators marked as mutants in the
modules are altered versions of the operator after them; they show that a
property is sensitive to the code and are used by nothing else.

- **Scheduler** - one action per step of the main thread (`StartWave`,
  `NextPool`, `Collect`, `CollectException`, `Cancel`, `Reraise`, `EndWave`,
  `CycleError`, `Return`), of the pools' workers (`Take`) and of `_run_one` (`CacheHit`,
  `Launch`, `LauncherReturns`, `LauncherRaises`, `Store`, `StoreRaises`). A pool
  is the sequence of names submitted to it with two counters: `taken` by workers
  and `got` by the main thread, which collects in submission order as
  `Executor.map` does. A task that raised is noticed at its turn; the executor then
  cancels the tasks in the queue one by one, from its end (`Cancel`), while the
  threads go on taking them from its front, and the exception leaves `run()` when
  those that were taken have ended (`Reraise`). Dependency relation, kinds of step and presence of
  a cache are chosen in `Init` and stay.
- **DagRun** - what `run()` promises to its caller, without waves, pools or
  threads: steps start when their dependencies completed, a performance measure
  starts alone, a step below a failure is blocked, a stuck graph is given up.
  `Scheduler!DagSpec` maps the scheduler's state to it.
- **SchedulerProofs** - theorems about Scheduler, among them that it implements
  DagRun (section 5).
- **OOMGuard** - thresholds, `observe` and the budget gate as operators over a
  `ResourceBudget`, its fractions in percent; integers, with the truncation of
  `int(total * frac)`; Launcher's monitor feeds it. **OOMGuardProofs** - theorems about it (section 5).
- **Launcher** - main thread, monitor thread and worker as three actors over one
  workdir in which `result.json` is never removed. A dead child that nobody has
  waited for is a zombie the monitor sees as running (guard.py 81) until the main
  thread reaps it. **LauncherProofs** - theorems about it.
- **Cache** - `store` as its file operations (copy, write descriptor, test,
  `rmtree` as `Unlink` and `RemoveDir`, rename, clean up), two processes, a crash
  possible before each. **CacheProofs** - theorems about it.
- **Measurement** - `is_real_improvement` in integers: medians in some unit, the
  effect in percent, and the three-standard-errors test as a comparison of squares
  (`noise` is nine times the squared standard error), so that nothing is rounded. **Tuner** - one action per iteration of each strategy's
  loop: evaluate or find in the trial cache, consider, check the limits. What a
  trial gives is any of the outcomes of its job. A candidate is a tuple of integers,
  and `trial` is a partial function of candidates. A refinement has any bounds and
  any baseline; `Points` rounds as `round(..., 4)` does, to the nearest multiple of a
  `grain`, in a unit so small that the halving of the interval is exact. **TunerProofs** - theorems about
  it.
- **Lifecycle** - a sequence of calls of `run_lifecycle` over one workdir. Its
  variables are the locals of a call (configuration, recorder, artifact, result),
  what outlives it (cache entries with the environment they were made in, run
  directories, and the `result.json` of each run id's measure step, `left`) and a
  few facts the code does not know: whether a value really deviated, which
  environment an artifact came from, which call made a measurement, how many gave a
  metric. The recorder (`captured`) keeps the last value of each parameter, over prep
  and an in-process measure. In a subprocess the worker may report, fail, leave part
  of a document, or die before it opens the file (`WorkerReports`, `WorkerFails`);
  the launcher then reads what is there, be it an earlier call's (`Answer`,
  `AnswerTorn`), or nothing (`NoAnswer`). The domain's hooks are nondeterministic: they pass, refuse, raise,
  clamp a parameter (and report that to the recorder), or write into the frozen
  config. The gates before the freeze are one refusal (their rules are in the
  next modules); the tolerance test is equality of abstract metrics.
  **LifecycleProofs** - theorems about it.
- **Gates** - the manifest check and phase A of the preflight as operators over
  functions from parameters to values.
- **Command** - calls for several configurations over one workroot. The content
  of a file is what determined it: triples of stage, parameter and value its
  command, and the commands upstream, were given. Variables are the directories
  of the stages (`disk`), the stage cache (`cache`), what the recorder was told
  (`captured`) and how each stage ended (`out`). `Run` is `run_command_stage` with
  the copy to the cache, `Fail` any failure of it, after which each file is old,
  new or cut short, `Die` the end of the harness. `Admitted` is the gates in
  order; `PhaseFails` and `PhaseSucceeds` end `_run_stages`. The artifact and the
  effective file stand for `produces` and `effective_from`; whether metrics can be
  read is success or failure; quoting is left out. How ready stages overlap is
  Scheduler's subject: here they go one by one, in every order.
  **CommandProofs** - theorems about it.
- **OpenSearch** - calls over sessions. `index[c][k]` is the index of build key `k`
  in container `c`: chunks ingested and segments over all shards. `handle[k]` is
  the session's `_cache`, `entry[w][k]` the prep entry in a workdir's cache. A
  bulk request adds up to one segment per shard, a force-merge leaves at most the
  target per shard; each may fail with or without effect; a container may stop at
  any time. Phase C sees the number of segments, or -1 if the request for it fails,
  which passes (`Verify`); `counted` and `hit` of a call are what its record says of
  that and of the prep cache. Documents have fixed ids, so a chunk ingested twice counts once.
  Settings read back as created and are left out, as are the heap check,
  latencies and recall. **OpenSearchProofs** - theorems about it.

`MC*` modules give constants values for TLC; the `.cfg` of a run names the
properties.

## 3. Runs

| Run | Question | Result |
|---|---|---|
| `scheduler` | Does `run()` keep measurements alone, fail what is below a failure, report cycles and only cycles, end, and implement `DagRun`, for every dependency relation over three steps? | holds, 1.04 million states |
| `launcher` | Under any order of main thread, monitor and worker, twice in one workdir: has an abort a cause, is the result settled once reported, does `run()` return, does a breach end the worker? | holds, 4,182 states |
| `launcher_stale` | Is "worker produced no result" recognised? | violated |
| `cache` | Two processes, crashes and failing producers: are hits whole and stable while stores do not overlap; is an entry never lost and does a store end even when they do? | holds, 3,333 states |
| `cache_torn` | Are stores atomic when they overlap? | violated |
| `tuner` | Is the recommendation unbeaten and no worse than the baseline, do counters match trials, is the search bounded, complete when it ends by itself or with a full grid, near its bounds, finite? | holds, 137,704 states |
| `lifecycle` | Two calls, crashes, changes of environment, every domain behaviour: are citable tags sound as far as the recorder reaches, RELIABLE measured twice by calls that measured, in-process comparisons comparable, records the last result beside its own configuration? | holds, 4.38 million states |
| `lifecycle_deviation` | Can a run that deviated from its declaration be cited? | violated |
| `command` | Three calls over one workroot, six pipelines, failing commands and a dying harness: is a cached artifact what its key says, is a measurement made under its own configuration and unlike the baseline in the treatment only, is GPU time charged in the call that spent it, does an admitted pipeline never get stuck? | holds, 524,146 states |
| `command_effective` | Is what is recorded as effective what the command used? | violated |
| `opensearch` | Three sessions, four runs, two containers, two workdirs, in process and in a subprocess: does a populated handle mean a whole, force-merged index, and a passed data-integrity check a whole one, merged unless nobody looked? | holds, 3.70 million states |
| `opensearch_session` | Is prep reused across sessions while its container is up? | violated |

What the properties mean and the code they are about is in the comment above
each of them. The ones that carry most:

- `DependenciesCompleted` and `FailurePropagates`: in the code a failed step is
  in `done` like a completed one, so its dependents become ready; only the second
  loop of the wave keeps them from being launched.
- `RaiseIsContained`: between a task's exception, the main thread's turn for it and
  the cancelling of the queue the threads go on taking. What they can still start
  are steps of the same pool; no later pool, no performance measure and no later
  wave starts behind a `run()` that is on its way out.
- `AbortHasACause`: two hard samples in a row, or an emergency one, of this
  launch's worker; the guard is created per launch, and a sample of a dead child
  must not count.
- `EntryNotLost`: if no producer raised and nobody died, a whole entry is left
  when all stores of two processes are over, though two `rmtree`s and two renames
  interleave. `VisibleIsWhole`
  and `EntryIsStable` speak of histories in which no two stores overlapped
  (variable `shared`); `cache_torn` shows why they must.
- `NothingBeatsTheBest`: the best is found by a chain of pairwise comparisons
  with noise, each against the best of its time; no comparable feasible trial is
  a real improvement over the one recommended at the end, which is no worse than
  a feasible baseline.
- `SearchIsBounded`: besides the limits, a refinement from a baseline within its
  bounds stays within half a unit of rounding (0.00005) of them. It can leave them:
  a point may be rounded over a bound, and as best it turns the next interval over
  (`lo > hi`); the property says that this does not add up over the rounds.
- `SearchIsComplete`: a sweep that ends by itself has left no neighbour untried, and
  so has a grid that its limit on trials ends, if the limit left room for all values.
- `EntryMatchesKey`, `MeasuredIsDeclared`: a stage's command names its own
  parameters only, yet its artifact depends on those of every stage upstream;
  directories are shared, so a hit must refer to the entry and not to what the
  last configuration left behind. Both presume that each artifact a command
  names is one the code replaces (`Resolved`; see section 7).
- `OnlyTheTreatmentDiffers`: the diff against the baseline, the placeholders and
  the keys select parameters by three different rules; whatever reached the
  measurement passed the first.
- `PassedIsBuilt`: the data-integrity check counts documents; that the index was
  force-merged too rests on phase C, which looks before prep, or on prep, and on
  nothing deleting or growing the index in between. Nothing vouches for it when
  phase C got no count and the prep was a hit, and the property does not either
  (section 7).
- `CitedIsSound`: what the recorder knows is compared, and no more. No cited result
  has a failed or skipped validation behind it, a value that measure itself
  recorded away from the declared one, in this process, in a worker or in the call
  whose `result.json` was found, or, with the artifact still in memory, one that
  prep recorded so and measure has not recorded again.
- `ReliableIsMeasuredTwice`: a prior may be the record of an aborted run, of the
  same run id or of an unreliable one; RELIABLE, given by a call that has measured,
  still means that two measurements were made and agreed. A call that is handed an
  earlier `result.json` is left out: it can be RELIABLE for one (section 7).
- `RecordIsTheLastResult`, `CompletedKeepsItsConfig`: the files of a run
  directory belong together, across exceptions and re-runs, unless a crash cut
  the last persist short.

## 4. Bounds and fairness

- Three steps are the least with a chain of two edges, a diamond's half and a
  cycle through a non-member; the relations include self-loops and one unknown
  name. Two threads are the least at which a pool takes while another task runs
  and a third is queued. Kinds, cache and outcomes are free.
- Two launches (`MaxRuns`) are needed for a stale file; a third meets the same
  directory as the second. Memory is one of four levels, at and between the
  guard's thresholds.
- Two processes with two runs each share one cache entry; entries of different
  signatures are different directories and do not meet.
- Tuner: a grid of five values with each limit in turn, a noisy grid of four, a
  plane of two by three in three passes, and refinements of three rounds: over
  sixteen grains from a baseline that is no point of the first round, between bounds
  half a grain apart (both are rounded out of the interval, up or down), and from a
  baseline outside the bounds.
- Lifecycle: one build key and two configurations that differ in `repro_nonce`;
  two calls are what a stale artifact, a prior, an overwritten record, a repeat
  and a `result.json` of an earlier call need. One parameter is enough for a clamp in
  prep that measure repeats, undoes or leaves alone: parameters are compared one by
  one. The three options are a call without a cache (for which a subprocess is asked
  and not given), one with a cache in process, and one in a subprocess with guard and
  ceiling. Configurations are interchangeable too. Environments change only between calls. Metrics and environments
  are interchangeable and are reduced by symmetry (no liveness is checked there).
  `CHECK_DEADLOCK FALSE` because the calls run out, as in the next two.
- Command: a chain, a fork, two measurements, a need met only through another
  stage, a cycle and an unknown need, of up to four stages; two parameters with
  two values, a configuration that lacks one and one with an extra one. Three
  calls are the least for a hit on an entry whose directory another
  configuration has used since. `From` is a closure of any length, so longer
  chains differ from these in nothing the properties see.
- OpenSearch: one key whose index has one shard and one with two, two chunks each
  (the least for a half-built index), merged to one segment per shard. Two
  containers and two workdirs are the least for an entry that is not the
  session's and for a handle without an entry; three sessions and four runs allow
  build, rebuild, a failed build and a retry in one history. One session runs at a
  time: two that share a container are outside the model.

Fairness. Scheduler: the main thread and the pool's threads are scheduled by the
operating system (weak fairness of each), and a launcher returns or raises
(`RunOne`); a step that never ends is outside the claim. Launcher: main and
monitor thread take their steps; the worker owes nothing, it may run for ever
below the ceiling and then so does `run()`. Cache: a process takes its next file
operation unless it crashes. Tuner: the loop goes on, i.e. every trial returns.

## 5. What is proved

Eight modules hold theorems. Every invariant and every action property of a run
that holds is stated by one of them: the run shows it on a small instance, the
theorem for every value of the constants.

`SchedulerProofs` proves, for any finite set of steps, any set of names, any
family of dependency relations and any integer `max_parallel`
(`SchedulerAssumption`, the only assumption):

| Theorem | States |
|---|---|
| `TypeCorrect` | `[]TypeOK` |
| `Inductive` | `[]IInv` |
| `MeasureIsAlone` | no step is under way while a performance measure is |
| `DependenciesAreCompleted` | a step under way has only completed dependencies |
| `CycleErrorIsReal` | the cycle error is raised only if no order of the steps exists, and a normal return means there was one |
| `HitsAreStored` | a completed cacheable step has an entry |
| `RaiseStaysContained` | once a task has raised, the steps that still start are those submitted to the same pool, which holds no performance measure |
| `StepsAreAccounted` | `[]Accounted`, what has become of each step in each phase of its wave |
| `FailureIsPropagated` | when `run()` returns, a step below a failed one was never launched and is FAILED, and every other one has the result of its own run |
| `ImplementsDagRun` | the scheduler implements DagRun (`Spec => DagSpec`) |

None of the invariants is inductive by itself. That a measure is alone depends on which
steps can be busy at all, so `IInv` says

- `BusyInWindow`: a busy step is `pool[i]` for some `got < i <= taken`, the tasks
  taken and not yet collected;
- `SerialWindow`: in the serial loop that window holds at most one index;
- `PoolOfPhase`: the names in the pool are of the kind the phase runs, and in
  `ready`;
- `RaisedInWindow`: a task that raised is in that window too, until the exception
  has left `run()`;
- `RaisingPool`: while an exception is leaving a pool, its names are of one kind, and
  a serial loop has nothing left to take;
- `ReadyIsSafe`: the dependencies of a ready step have completed;
- `StuckNeverReady`: a non-empty set of steps each of which waits for a member of
  it, or for an unknown name, stays in `remaining`;
- `EndIsJustified`: what `pc` being "cycle" or "returned" says about `remaining`;
- `HitIsStored` itself.

`MeasureIsAlone` follows from the first three (two busy steps would be two
indices of a window of one, or of a pool without measures),
`DependenciesAreCompleted` from `ReadyIsSafe`, `CycleErrorIsReal` from
`StuckNeverReady` with `EndIsJustified`. `RaiseStaysContained` needs to know, at the
moment of a `Take`, where the task that raised is: `RaisedInWindow` puts it into the
pool that is being taken from, `PoolOfPhase` and `RaisingPool` give the kind, and
`SerialWindow` excludes the serial loop.

What a return promises needs a second invariant, `Accounted`, relative to the first.
A step may not be launched twice, skipped, or settled by another's result, although
its wave has three phases and its pool two counters. So `Accounted` follows each step:
outside the wave it is untouched (`OthersAreUntouched`), the pool holds every ready step
of the phase's kind once (`PoolIsExact`), what has been collected has settled and what
has not been taken is untouched (`PoolIsCollected`), the kinds of earlier phases have
settled and those of later ones are untouched (`WaveIsOrdered`), and what is done
either ran on completed dependencies or was blocked by one that had not
(`DoneIsSettled`). `FailureIsPropagated` is its last part at the return.

`ImplementsDagRun` has one lemma per kind of step. The mapping (`AbstractState`) reads
a step's state off `at` and, for an idle one, off whether it has a result. Most steps
of the main thread are stutters; `Take` is DagRun's start, which owes that
dependencies have completed and a measure is alone (`ReadyIsSafe`, `MeasureIsAlone`);
the end of a wave's second loop blocks several steps at once (`StartWaveBlocks`); a
collected exception and the cycle error both give up.

`OpenSearchProofs` proves `TypeCorrect`, `PopulatedIndexIsBuilt` and
`PassedIndexIsBuilt` (`[]TypeOK`, `[]PopulatedIsBuilt`, `[]PassedIsBuilt`) for any sets
of keys, workdirs and containers and any numbers of chunks, shards, segments,
sessions and runs, from `OpenSearchAssumption` alone (the numbers are positive and
`None` is none of the values). `PopulatedIsBuilt` is not inductive: that the
force-merge ends a whole build needs `BuildKeepsChunks` (a build has ingested every
chunk before the current one, and only `Merge` marks the handle), that the
index is there needs `HandleIsIndexed`. `PassedIsBuilt` needs `MergedBeforeSearch`:
from a phase C that got a count to the search the segments stay within the target,
and where it got none they do if prep was no hit, because this call's merge or the
one a populated handle remembers came between. The proof has a lemma per action, on top of two about replacing one index
and about what a bulk request and a force-merge make of it.

`LauncherProofs` proves `TypeCorrect`, `AbortsHaveACause` and `VerdictIsSettled`
(`[]TypeOK`, `[]AbortHasACause`, `SettledAfterVerdict`) for any number of launches in
the workdir (`LauncherAssumption`: that number is a natural one). An abort is decided
by the main thread from a dict the monitor thread writes, so the cause has to be carried
from the sample to the verdict: `CountIsLastSample` (a polling guard has counted at
most one hard sample, the last), `KillHasACause` (a kill that is decided, under way or
in the dict has the last two samples to show for it), `ActionAtExit` (the dict is empty
until the monitor's last statement, so no later sample can spoil the cause),
`MonitorIsBudgeted` and `VerdictFromAction`. The type invariant needs
the first of them: without it the count is unbounded. `ReapedIsDead` gives
`VerdictIsSettled`.

`CacheProofs` proves `TypeCorrect`, `VisibleEntryIsWhole` and `VisibleEntryIsStable`
(`[]TypeOK`, `[]VisibleIsWhole`, `EntryIsStable`) for any set of processes and any number
of runs, with and without crashes (`CacheAssumption`: at least one run each). The
argument is that a store which overlaps no other has the entry to itself: `OneStore`,
`StoreSeesNoEntry` (it found none, so nobody relies on one, and it shows nothing
before its rename) and `TmpIsWhole` (what it renames has both files).

Stores that do overlap can take an entry apart (`cache_torn`), but two processes do not
lose it: `TwoDoNotLoseTheEntry` proves `[]EntryNotLost` if there are at most two. Its
invariant, `Contest`, says that somebody is always going to win: a directory
belongs to a process that is past its rename (`DirectoriesAreOwned`), which may take
its own apart only if its descriptor was gone (`OwnerSeesNoEntry`); who removes the
present one has listed just what is left of it (`RemovesTheRest`); and so, while
there is no whole entry, one of the two will yet rename one into place unless the
other does (`SomeoneWins`). The hypothesis is needed. Two processes that both found
a third's entry can remove half of it each and both then raise; TLC shows the
loss with three.

`OOMGuardProofs` proves `AcceptedEstimateIsSafe` for every memory size, every
estimate and any fractions: what the budget gate accepts the guard does not kill, as
long as it keeps to its estimate. It rests on `ThresholdsOrdered`, the order of the
truncated thresholds, and on the hypothesis that the emergency fraction is not below
the hard one, which holds of the defaults and is checked nowhere. No run has this property: it is a fact about three operators.

`LifecycleProofs` proves `TypeCorrect`, `CitedResultIsSound`,
`ReliableResultIsRepeated`, `InProcessResultIsComparable`, `RecordHoldsTheLastResult` and
`CompletedRecordKeepsItsConfig` (`[]TypeOK`, `[]CitedIsSound`,
`[]ReliableIsMeasuredTwice`, `[]InProcessIsComparable`, `[]RecordIsTheLastResult`,
`[]CompletedKeepsItsConfig`) for any configurations, environments, metrics and options
and any number of calls, with and without crashes (`ConfigAssumption`: the options are
options, the number of calls is a natural one, `None` is no metric). A tag is given in
one step, but what it says was decided by prep, the cache or an earlier call:
`LiveIsKnown` carries from prep that an artifact in memory was made in this environment
and that the recorder still holds what prep clamped; `LeftIsTold` says of every
`result.json` in the workdir, whichever call left it, that a measurement was made for it
and that its own worker's recorder saw what it deviates by; `MeasuredOncePerCall`,
`MetricsAreMeasured` and `FreshIsAnother` make a prior count as a second measurement,
which it is if this call's own worker reported, because the prior's metric was measured
before; `KnownIsGood` says of a result on its way to the disk what the properties say
of a returned one; `RecordInProgress` says how far `_persist` has come and that a
completed result is filed with an unchanged config.

`CommandProofs` proves `TypeCorrect`, `EntriesMatchTheirKeys`, `MeasurementsAreDeclared`,
`MeasurementsAreComparable`, `OwnStagesAreCharged` and `AdmittedPipelinesMoveOn`
(`[]TypeOK`, `[]EntryMatchesKey`, `[]MeasuredIsDeclared`, `[]OnlyTheTreatmentDiffers`,
`[]ChargedIsSpent`, `[]AdmittedNeverSticks`) for any finite pipelines, any
configurations and baselines and any number of calls (`CommandAssumption`). What a file
holds is a closure over the stages its command read, so the proofs start with the laws
of `From` (`FromStep`: a stage reaches itself and what its neighbours reach). The
invariant says of every file a call relies on, whichever call wrote it, what it is made
from: `ArtifactsAreCurrent` for the directories of stages that ran or were hits,
`EntriesAreKeyed` for entries - the artifact is the part of the key that the stage read
its way to, `PhasesInOrder` that only prep stages have entries and all of them precede
the measurements. That an admitted pipeline moves on is a fact about finite graphs:
of the stages left, one that reaches the fewest waits for none of the others
(`SomeStageIsFirst`, over the well-founded order of strict inclusion).

`TunerProofs` proves `TypeCorrect`, `CountersAreTrue` and `SearchStaysBounded`
(`[]TypeOK`, `[]CountersMatchTrials`, `[]SearchIsBounded`) for any searches, trials and
budgets (`TunerAssumption`: a job is what a Tuner can be constructed with, and a
refinement's unit is fine enough to quarter its intervals), and `NothingRunIsBetter` and
`SweepIsComplete` (`[]NothingBeatsTheBest`, `[]SearchIsComplete`) for searches on one
scale. The invariant has a part per counter and per loop: `LimitsAhead` (while the
search goes on the guard has not fired, but for the first candidate, which is not
guarded) makes `WithinLimits` inductive; `WithinBounds` is about the halving of a
refinement whose points are rounded: not the interval but what its ends can be rounded
to is within half a grain of the bounds, and it is turned over by a grain at most,
around a rounded best only; `OnlyCandidatesRun` and `HaltedAtTheLimit` let the number of
trials stand for the values of a full grid (`FullGridHasRun`); `SweptSoFar` says that a pass that changed nothing has run what it has
passed, and becomes `EndedAtTheEnd`. A search compares each trial with the best of its
time only, so that nothing beats the best in the end needs the comparison to be an order:
`GainsAddUp` proves it transitive, because two gains of one sign square to more
in sum than apart and so cover the noise of the outer two trials.

That is true on one scale (`OneScale`, a hypothesis of those two theorems, not an
assumption of the module; `MCTuner` assumes it of its jobs): the fair trials have
positive medians, `mde` is positive, and all or none have replicate statistics.
A negative median flips the sign of the relative gain, a zero one has none, and with
`mde` zero a noiseless trial would beat itself. A search in which only some trials have
statistics compares those without by their medians, with no regard to noise, and the
result is no longer an order. The code enforces none of the three.

Only model-checked: liveness (`Terminates` of the scheduler and of the tuner,
`StoreEnds`, `VerdictFollowsExit`, `BreachIsStopped`; fairness and ENABLED are outside what
tlapm handles), and the five properties that are violated.

## 6. Where code and documentation disagree

Each is a run that TLC finds violated; `PROJECT.json` quotes the lines.

1. `launcher.py:91` takes the existence of `result.json` for this worker's
   answer; a relaunch whose worker dies early returns the previous launch's
   result.
2. `cache.py:48` removes an entry in place before the rename that the doc string
   calls atomic.
3. `lifecycle.py:195`: what prep captured is lost on a cache hit and for a
   subprocess, so a deviation in prep can be cited.
4. `opensearch/domain.py:134` deletes the live index a cached prep points to; in
   every session but the one that built it, prep is not reused and the run fails.
5. `command.py:183` reads a stage's effective configuration from the shared
   workdir before the cache entry, so that a hit is given another
   configuration's.

## 7. Observations without a run

- `worker.py:32` says "report, don't crash the protocol", but line 34 writes the
  result outside the exception handler: a result that is no JSON, or a death
  while writing, makes `run()` raise (`ReadResult` of Launcher).
- `tuning.py:315` counts candidates found in the trial cache as lack of progress,
  while the message (`tuning.py:440`) speaks of trials: coordinate descent halts
  with NO_PROGRESS before it has run as many trials.
- `effective.py:20-22` keeps the last value of a name, and prep and an in-process
  measure share a recorder: a measure that records a parameter at its declared value
  erases the record of prep's having clamped it, and a run on that artifact is
  QUALIFIED or RELIABLE (`facts.deviated` is "hidden"). No domain of the repository
  records one name in both hooks.
- A worker that dies before it opens `result.json` hands its caller the file of the
  previous call of the same run id (`launcher_stale`). With that call's result as
  prior the run is RELIABLE, though only one measurement was made;
  `reliability.py:5` has "A single-run measurement is QUALIFIED at most".
- `reliability.py:92` tests the validation with `is False`; other values that say
  no (0, "False", `numpy.bool_`) do not keep a run from being RELIABLE.
- `CommandDomain.validate` accepts the artifact of any stage as a placeholder, but
  a prep stage is only given those of the stages it needs directly: one of a stage
  further up stays in the command as text (`MCSkipped`), where
  `docs/superpowers/plans/` speaks of an upstream stage.
- Placeholders in the file names of `metrics_from` and `effective_from` are
  validated and never replaced; a stage whose kind is neither prep nor measure is
  validated and never run; of two measure stages that report "passed" the later
  one counts.
- A command that exits 0 without writing its metrics or its artifact is measured
  by the files of an earlier run of its workdir; the model takes such a command to
  have written them.
- `baseline_diff` takes any parameter whose path ends with the treatment's name for
  the treatment and lets parameters pass that the baseline lacks; `sweep.py:4-5`
  says "only the treatment differs".
- Phase C of the OpenSearch domain compares the segments of all shards with a
  target that force-merge applies to each: an index of two shards or more is
  refused from the second run of a session on.
- `_segment_count` gives -1 for any exception and phase C lets it pass
  (`domain.py:121-122, 197`). A session that rebuilds an index whose force-merge fails,
  and then runs the key from a workdir with an entry of an earlier session, is normally
  refused there; if the segments request of that one call fails, the documents are
  complete, and the index is measured unmerged and passes.
- After a build that failed, the handle stays "created" and the half-built index
  has more segments than the target: phase C refuses every retry in that session.
- On a hit, a measurement in a subprocess searches the container named in the
  entry, while the gates of the call verified the session's.
- `lifecycle.py:6-8` promises a persisted record for every run. Exceptions of
  `apply_config`, `verify_config`, the cache's `store`, a subprocess launcher, and
  `assert_unchanged` leave `run_lifecycle` without one (`HookRaises`,
  `StoreRaises`, `LauncherRaises`, `MutationFound`).
- A frozen config changed by domain code is noticed for completed runs only: a
  failed or aborted one is filed with the changed config under the old run id. In
  a subprocess the config is a fresh, unfrozen copy.
- A cached artifact of another environment fails every later in-process run of
  its key and is never replaced; in a subprocess it is measured unchecked.
- With negative medians the relative gain changes sign and
  the second part of `NothingBeatsTheBest` fails; the first may with a zero `mde`, or
  when only some trials have replicate statistics (`OneScale`, section 5).
- `max_trials`, `hard_cap` or a GPU budget already used up by the baseline are
  exceeded by one candidate (`SearchIsBounded` allows for it;
  `tests/test_sanity_gaps.py` is about the same limit).
- `tuning.py:355-374` checks neither that the baseline is within the bounds nor that
  they are coarser than four decimals. Bounds of (0.00001, 0.001) have 0.0 evaluated;
  a best outside the bounds turns the interval over, and from a baseline outside them
  later rounds can be further off. With `points=1` line 364 divides by zero.
- A grid whose baseline is not among its values needs one trial more than it has
  values; its default limit, their number, ends it before the last one is tried.
- A fully explored grid reports BUDGET_TRIALS, because its default limit is the
  number of its values; `docs/benchmark/specs/2026-10-17-native-engine-design.md:325`
  has SEARCH_EXHAUSTED.
- `TuningResult.render` marks `best` as recommended (`tuning.py:132`) also when
  `recommendation` is None.
- Three processes that race for a cache entry can lose it between two `rmtree`s; two
  cannot (`TwoDoNotLoseTheEntry`).
- The guard's action is lost if the join of five seconds (`launcher.py:85`) ends
  before a monitor that sleeps five seconds after SIGTERM (`guard.py:100`): the
  step is then reported FAILED instead of ABORTED_GUARDRAIL.

## 8. Not modelled, and why

Text and layout (analysis, reports, rendering), hashing (a signature is a
one-to-one name), the bootstrap interval (read by nothing), probes of external
tools (`resources.py`), the numerical kernels of the seismic domain, recipes,
templates, the plugin hook and the experiment scripts. The sweep and the report
index have no state of their own: one is a loop of `run_lifecycle` calls, the
sequences Lifecycle and Command have, the other reads the records whose states
Lifecycle gives. The seismic domain keeps its prep in the cache entry itself, which
is the case Lifecycle and Cache model. A worker that outlives a dead harness and
writes its `result.json` during a later call is left out of Lifecycle, and Launcher
has one launcher at a time. The commands of a pipeline and the search
engine are external: they are modelled by what the domains rely on.

## 9. Plan

Done, in this order: scheduler with its abstract specification and first proofs;
guard, launcher, cache; tuner; lifecycle; gates and command domain; OpenSearch
domain with its proofs; proofs about the launcher and the cache; the scheduler's
account of its steps and its refinement of DagRun; proofs about the lifecycle, the
command domain and the tuner; the cache with two processes.

Left:

1. *The gates as lemmas*: what `check_manifest` and `baseline_diff` accept, stated
   about the operators of Gates.
2. *Two sessions at once* over one container, and two processes over one
   command workroot.
3. *The rest of the tuner's comparison*: which of the conditions of `OneScale` each
   part of `NothingBeatsTheBest` needs.
