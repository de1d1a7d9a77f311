------------------------------ MODULE Scheduler ------------------------------
(***************************************************************************)
(* benchmark_engine/engine/scheduler.py: Scheduler.run executes a DAG of   *)
(* steps in waves.  A wave takes every step whose dependencies are done,   *)
(* fails the ones with a failed dependency, runs the cacheable (prep)      *)
(* steps in a thread pool, then the parallel-safe measures in a second     *)
(* pool, then the performance measures one at a time.  A wave is the       *)
(* sequence `pool' of the names handed to the current pool (or serial      *)
(* loop): workers take from its front, the main thread collects results    *)
(* in the same order.                                                      *)
(***************************************************************************)
EXTENDS Integers, Sequences, FiniteSets

CONSTANTS
    Steps,        \* names of the steps of the run (by_name)
    Names,        \* Steps and any name a dependency may mention
    Graphs,       \* the dependency relations considered (edges(steps))
    MaxParallel   \* Scheduler.max_parallel

ASSUME SchedulerAssumption ==
    /\ Steps \subseteq Names
    /\ IsFiniteSet(Steps)
    /\ Graphs \subseteq [Steps -> SUBSET Names]
    /\ MaxParallel \in Int

VARIABLES
    deps,       \* step -> names it depends on; fixed for the run
    kind,       \* step -> how it is scheduled; fixed for the run
    caching,    \* is there a SignatureCache; fixed for the run
    entries,    \* cacheable steps with a visible cache entry
    pc,         \* where the main thread is
    ready,      \* the steps of the current wave that will be run
    pool,       \* names given to the current pool, in submission order
    taken,      \* how many of them a worker has taken
    got,        \* how many of them the main thread has collected
    at,         \* where _run_one is for each step
    results, done, remaining   \* the locals of run()

run  == <<deps, kind, caching>>
main == <<pc, ready, pool, results, done, remaining>>
vars == <<deps, kind, caching, entries, pc, ready, pool, taken, got, at,
          results, done, remaining>>

Status  == {"COMPLETED", "FAILED", "ABORTED_GUARDRAIL"}
Kinds   == {"prep", "parallel", "perf"}
Phases  == {"prep", "parallel", "perf"}
Busy    == {"started", "running", "storing"}
Stopped == {"returned", "raised", "cycle"}

Active  == {n \in Steps : at[n] \in Busy}
\* Mutant: performance measures are pooled with the parallel-safe ones.
OfMixed(S, k) == {n \in S : kind[n] = k \/ (k = "parallel" /\ kind[n] = "perf")}
Of(S, k) == {n \in S : kind[n] = k}

\* The pool's threads; the performance measures run in the main thread.
Width == IF pc # "perf" /\ MaxParallel > 1 THEN MaxParallel ELSE 1

\* list(names) of a set iterates in an order the code does not choose.
Orders(S) == {o \in [1..Cardinality(S) -> S] :
                 \A i, j \in 1..Cardinality(S) : i # j => o[i] # o[j]}

TypeOK ==
    /\ deps \in [Steps -> SUBSET Names]
    /\ kind \in [Steps -> Kinds]
    /\ caching \in BOOLEAN
    /\ entries \subseteq Steps
    /\ pc \in Phases \cup Stopped \cup {"wave", "raising"}
    /\ ready \subseteq Steps
    /\ pool \in Seq(Steps)
    /\ taken \in 0..Len(pool)
    /\ got \in 0..taken
    /\ at \in [Steps -> Busy \cup Status \cup {"idle", "RAISED"}]
    /\ results \in [Steps -> Status \cup {"none"}]
    /\ done \subseteq Steps
    /\ remaining \subseteq Steps

Init ==
    /\ deps \in Graphs
    /\ kind \in [Steps -> Kinds]
    /\ caching \in BOOLEAN
    /\ entries \in SUBSET (IF caching THEN Of(Steps, "prep") ELSE {})
    /\ pc = "wave"
    /\ ready = {}
    /\ pool = << >>
    /\ taken = 0
    /\ got = 0
    /\ at = [n \in Steps |-> "idle"]
    /\ results = [n \in Steps |-> "none"]
    /\ done = {}
    /\ remaining = Steps

-----------------------------------------------------------------------------
(* The main thread                                                         *)

Runnable == {n \in remaining : deps[n] \subseteq done}
\* Mutants: failed dependencies are not looked at; an aborted one is let pass.
BlockedNever  == {}
BlockedByFail == {n \in Runnable : \E d \in deps[n] : results[d] = "FAILED"}
Blocked  == {n \in Runnable : \E d \in deps[n] : results[d] # "COMPLETED"}

\* Hand the steps of S to a new pool.
Submit(S) ==
    /\ pool' \in Orders(S)
    /\ taken' = 0
    /\ got' = 0

StartWave ==
    /\ pc = "wave"
    /\ Runnable # {}
    /\ results' = [n \in Steps |-> IF n \in Blocked THEN "FAILED" ELSE results[n]]
    /\ done' = done \cup Blocked
    /\ remaining' = remaining \ Blocked
    /\ ready' = Runnable \ Blocked
    /\ Submit(Of(Runnable \ Blocked, "prep"))
    /\ pc' = "prep"
    /\ UNCHANGED <<run, entries, at>>

\* The pool has been drained: on to the next kind of step of this wave.
NextPool ==
    /\ got = Len(pool)
    /\ \/ /\ pc = "prep"
          /\ pc' = "parallel"
          /\ Submit(Of(ready, "parallel"))
       \/ /\ pc = "parallel"
          /\ pc' = "perf"
          /\ Submit(Of(ready, "perf"))
    /\ UNCHANGED <<run, entries, ready, at, results, done, remaining>>

EndWave ==
    /\ pc = "perf"
    /\ got = Len(pool)
    /\ pc' = "wave"
    /\ done' = done \cup ready
    /\ remaining' = remaining \ ready
    /\ ready' = {}
    /\ UNCHANGED <<run, entries, pool, taken, got, at, results>>

\* Mutant: a result is collected before the task has one.
CollectEarly ==
    /\ pc \in Phases
    /\ got < taken
    /\ results' = [results EXCEPT ![pool[got + 1]] = at[pool[got + 1]]]
    /\ got' = got + 1
    /\ UNCHANGED <<run, entries, pc, ready, pool, taken, at, done, remaining>>

\* Mutant: a task that raised is given a FAILED result and the loop goes on.
CollectSwallow ==
    /\ pc \in Phases
    /\ got < taken
    /\ LET n == pool[got + 1] IN
          /\ at[n] \in Status \cup {"RAISED"}
          /\ results' = [results EXCEPT ![n] = IF at[n] = "RAISED" THEN "FAILED" ELSE at[n]]
    /\ got' = got + 1
    /\ UNCHANGED <<run, entries, pc, ready, pool, taken, at, done, remaining>>

\* results[n] = r, for the next name in submission order.
Collect ==
    /\ pc \in Phases
    /\ got < taken
    /\ LET n == pool[got + 1] IN
          /\ at[n] \in Status
          /\ results' = [results EXCEPT ![n] = at[n]]
    /\ got' = got + 1
    /\ UNCHANGED <<run, entries, pc, ready, pool, taken, at, done, remaining>>

\* The next name's task raised.  The serial loop is left at once; the executor
\* still holds the tasks no thread has taken.
CollectException ==
    /\ pc \in Phases
    /\ got < taken
    /\ at[pool[got + 1]] = "RAISED"
    /\ pc' = "raising"
    /\ pool' = IF pc = "perf" THEN SubSeq(pool, 1, taken) ELSE pool
    /\ UNCHANGED <<run, entries, ready, taken, got, at, results, done, remaining>>

\* The finally of the executor's map cancels the futures one by one, the last
\* submitted first, while the threads go on taking from the front; a future that
\* has been taken cannot be cancelled.
Cancel ==
    /\ pc = "raising"
    /\ taken < Len(pool)
    /\ pool' = SubSeq(pool, 1, Len(pool) - 1)
    /\ UNCHANGED <<run, entries, pc, ready, taken, got, at, results, done, remaining>>

\* The executor's with block waits for the tasks that were taken, then the
\* exception leaves run().
Reraise ==
    /\ pc = "raising"
    /\ taken = Len(pool)
    /\ Active = {}
    /\ pc' = "raised"
    /\ UNCHANGED <<run, entries, ready, pool, taken, got, at, results, done, remaining>>

\* Mutants: the cycle test before the test that the loop is over; a cycle test
\* that only knows dependencies between steps.
CycleErrorFirst ==
    /\ pc = "wave"
    /\ Runnable = {}
    /\ pc' = "cycle"
    /\ UNCHANGED <<run, entries, ready, pool, taken, got, at, results, done, remaining>>

CycleErrorKnown ==
    /\ pc = "wave"
    /\ remaining # {}
    /\ \A n \in remaining : deps[n] \cap remaining # {}
    /\ pc' = "cycle"
    /\ UNCHANGED <<run, entries, ready, pool, taken, got, at, results, done, remaining>>

CycleError ==
    /\ pc = "wave"
    /\ remaining # {}
    /\ Runnable = {}
    /\ pc' = "cycle"
    /\ UNCHANGED <<run, entries, ready, pool, taken, got, at, results, done, remaining>>

Return ==
    /\ pc = "wave"
    /\ remaining = {}
    /\ pc' = "returned"
    /\ UNCHANGED <<run, entries, ready, pool, taken, got, at, results, done, remaining>>

-----------------------------------------------------------------------------
(* _run_one, in a worker thread of the pool or inline in the main thread   *)

Take ==
    /\ pc \in Phases \cup {"raising"}
    /\ taken < Len(pool)
    /\ Cardinality(Active) < Width
    /\ pc = "perf" => taken = got
    /\ at' = [at EXCEPT ![pool[taken + 1]] = "started"]
    /\ taken' = taken + 1
    /\ UNCHANGED <<run, entries, main, got>>

Become(n, s) == at' = [at EXCEPT ![n] = s]

UsesCache(n) == caching /\ kind[n] = "prep"

CacheHit(n) ==
    /\ at[n] = "started"
    /\ UsesCache(n)
    /\ n \in entries
    /\ Become(n, "COMPLETED")
    /\ UNCHANGED <<run, entries, main, taken, got>>

Launch(n) ==
    /\ at[n] = "started"
    /\ ~(UsesCache(n) /\ n \in entries)
    /\ Become(n, "running")
    /\ UNCHANGED <<run, entries, main, taken, got>>

LauncherReturns(n) ==
    /\ at[n] = "running"
    /\ \E s \in Status :
          Become(n, IF s = "COMPLETED" /\ UsesCache(n) THEN "storing" ELSE s)
    /\ UNCHANGED <<run, entries, main, taken, got>>

LauncherRaises(n) ==
    /\ at[n] = "running"
    /\ Become(n, "RAISED")
    /\ UNCHANGED <<run, entries, main, taken, got>>

\* Mutant: the artifact is not stored.
StoreSkipped(n) ==
    /\ at[n] = "storing"
    /\ Become(n, "COMPLETED")
    /\ UNCHANGED <<run, entries, main, taken, got>>

Store(n) ==
    /\ at[n] = "storing"
    /\ Become(n, "COMPLETED")
    /\ entries' = entries \cup {n}
    /\ UNCHANGED <<run, main, taken, got>>

StoreRaises(n) ==
    /\ at[n] = "storing"
    /\ Become(n, "RAISED")
    /\ UNCHANGED <<run, entries, main, taken, got>>

RunOne(n) == \/ CacheHit(n) \/ Launch(n) \/ LauncherReturns(n)
             \/ LauncherRaises(n) \/ Store(n) \/ StoreRaises(n)

Main == \/ StartWave \/ NextPool \/ EndWave \/ Collect \/ CollectException
        \/ Cancel \/ Reraise \/ CycleError \/ Return

\* run() has returned or raised; nothing more happens.
Finished == pc \in Stopped /\ UNCHANGED vars

Next == Main \/ Take \/ (\E n \in Steps : RunOne(n)) \/ Finished

\* The main thread and the pool's threads are scheduled by the operating
\* system; every launched step is taken to end (or raise) eventually.
Fairness == /\ WF_vars(Main)
            /\ WF_vars(Take)
            /\ \A n \in Steps : WF_vars(RunOne(n))

Spec == Init /\ [][Next]_vars
FairSpec == Spec /\ Fairness

-----------------------------------------------------------------------------
(* Properties                                                              *)

\* Timing and memory are comparable only without contention: while a
\* performance measure runs, no other step of the run is between its take and
\* its result (the doc string of scheduler.py, lines 3-4).
MeasureAlone ==
    \A m, n \in Active : kind[m] = "perf" => m = n

\* A step is taken only when each of its dependencies belongs to the run and
\* has a COMPLETED result, and that stays true while the step runs, so that
\* _resolve finds the outputs of every StepRef.
DependenciesCompleted ==
    \A n \in Active : \A d \in deps[n] : d \in Steps /\ results[d] = "COMPLETED"

\* When run() returns, every step has one result, and a step was run exactly
\* when all its dependencies completed: a failure blocks all its descendants
\* and nothing else.
FailurePropagates ==
    pc = "returned" =>
        \A n \in Steps :
            /\ results[n] # "none"
            /\ at[n] = "idle" <=> (\E d \in deps[n] : results[d] # "COMPLETED")
            /\ at[n] # "idle" => results[n] = at[n]

\* A set of steps each of which waits for a member of the set or for a name
\* that is no step.
Stuck(R) == R # {} /\ \A n \in R : ~(deps[n] \subseteq Steps \ R)

\* The cycle error is raised exactly for the graphs that cannot be ordered:
\* there is a stuck set when it is raised and none when run() returns.
CycleIsReal ==
    /\ pc = "cycle" => Stuck(remaining)
    /\ pc = "returned" => \A R \in SUBSET Steps : ~Stuck(R)

\* A completed cacheable step of a run with a cache has its entry: the cache_dir
\* it reports to the steps that depend on it exists.
HitIsStored ==
    \A n \in Steps : at[n] = "COMPLETED" /\ UsesCache(n) => n \in entries

\* The strengthening that makes the invariants above inductive: who can be busy
\* (the window of the pool, one step wide in the serial loop), where a task that
\* raised is and what is left to take beside it, what the wave's steps may rely
\* on, and that a stuck set never becomes ready.
BusyInWindow ==
    \A n \in Active : \E i \in (got + 1)..taken : pool[i] = n
SerialWindow ==
    \A i \in 1..Len(pool) : kind[pool[i]] = "perf" => taken <= got + 1
PoolOfPhase ==
    /\ pc \in Phases => \A i \in 1..Len(pool) : kind[pool[i]] = pc
    /\ pc \in Phases \cup {"raising"} => \A i \in 1..Len(pool) : pool[i] \in ready
    /\ pc \notin Phases \cup {"raising"} => Active = {}
RaisedInWindow ==
    \A n \in Steps : at[n] = "RAISED" =>
        /\ pc \in Phases \cup {"raising", "raised"}
        /\ \E i \in (got + 1)..taken : pool[i] = n
RaisingPool ==
    pc = "raising" => \A i, j \in 1..Len(pool) :
        /\ kind[pool[i]] = kind[pool[j]]
        /\ kind[pool[i]] = "perf" => taken = Len(pool)
ReadyIsSafe ==
    /\ ready \subseteq remaining
    /\ done = Steps \ remaining
    /\ \A n \in ready : \A d \in deps[n] : d \in done /\ results[d] = "COMPLETED"
StuckNeverReady ==
    \A R \in SUBSET Steps : Stuck(R) => R \subseteq remaining \ ready
EndIsJustified ==
    /\ pc = "cycle" => Runnable = {} /\ remaining # {}
    /\ pc = "returned" => remaining = {}
    /\ pc = "wave" => ready = {}

IInv ==
    /\ BusyInWindow
    /\ SerialWindow
    /\ PoolOfPhase
    /\ RaisedInWindow
    /\ RaisingPool
    /\ ReadyIsSafe
    /\ StuckNeverReady
    /\ EndIsJustified
    /\ HitIsStored

\* Once a task has raised, whether or not the main thread has come to its result
\* and the executor to cancelling the rest, the only steps that still start are
\* those submitted to the same pool with it: no later pool, no performance
\* measure and no later wave (the exception leaves the loops of lines 51-85).
RaiseIsContained ==
    [][\A m, n \in Steps :
          at[m] = "RAISED" /\ at[n] = "idle" /\ at'[n] # "idle" =>
              /\ {m, n} \subseteq ready
              /\ kind[m] = kind[n] /\ kind[n] # "perf"]_vars

\* run() ends, for every graph, whatever the steps and the cache do.
Terminates == <>(pc \in Stopped)

\* The scheduler implements the abstract DAG execution of DagRun: a step is
\* settled there when its task has an outcome, before the main thread has
\* collected it.
AbstractState ==
    [n \in Steps |->
        CASE at[n] \in Busy -> "running"
          [] at[n] \in Status -> at[n]
          [] at[n] = "RAISED" -> "error"
          [] at[n] = "idle" -> IF results[n] = "none" THEN "pending" ELSE "blocked"]

AbstractOutcome ==
    CASE pc \in Stopped -> pc
      [] pc = "raising" -> "failing"
      [] OTHER -> "open"

Dag == INSTANCE DagRun WITH state <- AbstractState, outcome <- AbstractOutcome

DagSpec == Dag!Spec
=============================================================================
