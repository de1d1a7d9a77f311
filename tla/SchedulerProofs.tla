--------------------------- MODULE SchedulerProofs ---------------------------
(***************************************************************************)
(* Proofs about Scheduler, for any set of steps, any dependency relations  *)
(* and any max_parallel.  The inductive invariant is about the window      *)
(* got+1..taken of the current pool: every busy step is in it, and it has  *)
(* at most one element when the pool is the serial loop.                   *)
(***************************************************************************)
EXTENDS Scheduler, FiniteSetTheorems, TLAPS

\* A submission order of a finite set of steps is a sequence of its members.
LEMMA OrdersType ==
    ASSUME NEW S, S \subseteq Steps, NEW o \in Orders(S)
    PROVE  /\ o \in Seq(Steps)
           /\ Len(o) \in Nat
           /\ \A i \in 1..Len(o) : o[i] \in S
  <1>1. IsFiniteSet(S)
    BY FS_Subset, SchedulerAssumption
  <1>2. Cardinality(S) \in Nat
    BY <1>1, FS_CardinalityType
  <1>3. o \in [1..Cardinality(S) -> S]
    BY DEF Orders
  <1>4. o \in Seq(S) /\ Len(o) = Cardinality(S)
    BY <1>2, <1>3
  <1>. QED
    BY <1>2, <1>3, <1>4

\* A pool whose last names were withdrawn holds the others as they were.
LEMMA CutPool ==
    ASSUME NEW p \in Seq(Steps), NEW k \in 0..Len(p)
    PROVE  /\ SubSeq(p, 1, k) \in Seq(Steps)
           /\ Len(SubSeq(p, 1, k)) = k
           /\ \A i \in 1..k : SubSeq(p, 1, k)[i] = p[i]
  OBVIOUS

\* What the main thread does to the pool when it gives up: it withdraws names
\* that no thread has taken.
LEMMA Withdrawn ==
    ASSUME TypeOK, CollectException \/ Cancel
    PROVE  /\ pool' \in Seq(Steps)
           /\ taken \in 0..Len(pool') /\ Len(pool') \in 0..Len(pool)
           /\ \A i \in 1..Len(pool') : pool'[i] = pool[i]
           /\ pc' = "raising" /\ pc \in Phases \cup {"raising"}
           /\ pc = "perf" => Len(pool') = taken
           /\ UNCHANGED <<run, entries, ready, taken, got, at, results, done, remaining>>
  <1> USE DEF TypeOK
  <1>1. CASE CollectException
    <2>1. CASE pc = "perf"
      BY <1>1, <2>1, CutPool DEF CollectException
    <2>2. CASE pc # "perf"
      BY <1>1, <2>2 DEF CollectException
    <2>. QED
      BY <1>1, <2>1, <2>2 DEF CollectException
  <1>2. CASE Cancel
    <2>1. Len(pool) - 1 \in 0..Len(pool)
      BY <1>2 DEF Cancel
    <2>. QED
      BY <1>2, <2>1, CutPool DEF Cancel
  <1>. QED
    BY <1>1, <1>2

\* Every variable of the scheduler keeps its type: the counters stay within
\* the pool that was submitted (the loops of Scheduler.run).
THEOREM TypeCorrect == Spec => []TypeOK
  <1>1. Init => TypeOK
    BY SchedulerAssumption DEF Init, TypeOK, Of, Kinds, Phases, Status
  <1>2. TypeOK /\ [Next]_vars => TypeOK'
    <2> SUFFICES ASSUME TypeOK, [Next]_vars PROVE TypeOK'
      OBVIOUS
    <2> USE DEF TypeOK
    <2>1. CASE StartWave
      <3>1. Of(Runnable \ Blocked, "prep") \subseteq Steps
        BY DEF Of, Runnable
      <3>2. pool' \in Seq(Steps) /\ Len(pool') \in Nat /\ taken' = 0 /\ got' = 0
        BY <2>1, <3>1, OrdersType DEF StartWave, Submit
      <3>. QED
        BY <2>1, <3>2 DEF StartWave, Runnable, Blocked, run, Phases, Status
    <2>2. CASE NextPool
      <3>1. \A k : Of(ready, k) \subseteq Steps
        BY DEF Of
      <3>2. pool' \in Seq(Steps) /\ Len(pool') \in Nat /\ taken' = 0 /\ got' = 0
        BY <2>2, <3>1, OrdersType DEF NextPool, Submit
      <3>. QED
        BY <2>2, <3>2 DEF NextPool, run, Phases
    <2>3. CASE EndWave
      BY <2>3 DEF EndWave, run
    <2>4. CASE Collect
      <3>1. got + 1 \in 1..Len(pool) /\ got + 1 <= taken
        BY <2>4 DEF Collect
      <3>2. pool[got + 1] \in Steps
        BY <3>1
      <3>. QED
        BY <2>4, <3>1, <3>2 DEF Collect, run, Status
    <2>5. CASE CollectException \/ Cancel
      BY <2>5, Withdrawn DEF run
    <2>6. CASE Reraise
      BY <2>6 DEF Reraise, run, Stopped
    <2>7. CASE CycleError
      BY <2>7 DEF CycleError, run, Stopped
    <2>8. CASE Return
      BY <2>8 DEF Return, run, Stopped
    <2>9. CASE Take
      <3>1. taken + 1 \in 1..Len(pool)
        BY <2>9 DEF Take
      <3>2. pool[taken + 1] \in Steps
        BY <3>1
      <3>. QED
        BY <2>9, <3>1, <3>2 DEF Take, run, main, Busy
    <2>10. ASSUME NEW n \in Steps, RunOne(n) PROVE TypeOK'
      BY <2>10 DEF RunOne, CacheHit, Launch, LauncherReturns, LauncherRaises,
                   Store, StoreRaises, Become, run, main, Busy, Status
    <2>11. CASE UNCHANGED vars
      BY <2>11 DEF vars
    <2>. QED
      BY <2>1, <2>2, <2>3, <2>4, <2>5, <2>6, <2>7, <2>8, <2>9, <2>10, <2>11
         DEF Next, Main, Finished
  <1>. QED
    BY <1>1, <1>2, PTL DEF Spec

\* With nobody busy, or with the main thread only moving between its own
\* states, the conjuncts about the pool follow from these facts.
LEMMA NobodyBusy ==
    ASSUME TypeOK, IInv, pc \in Phases, got = Len(pool)
    PROVE  Active = {} /\ \A n \in Steps : at[n] # "RAISED"
  BY DEF TypeOK, IInv, BusyInWindow, RaisedInWindow

\* Submitting a set of ready steps of the pool's kind, while nobody is busy,
\* establishes the pool's part of the invariant.
LEMMA SubmitPool ==
    ASSUME TypeOK, IInv, Active = {}, Active' = {}, kind' = kind,
           NEW S \in SUBSET Steps, NEW k \in Phases,
           Submit(Of(S, k)), pc' = k, S \subseteq ready'
    PROVE  BusyInWindow' /\ SerialWindow' /\ PoolOfPhase'
  <1>1. /\ pool' \in Seq(Steps)
        /\ \A i \in 1..Len(pool') : pool'[i] \in Of(S, k)
        /\ taken' = 0 /\ got' = 0
    BY OrdersType DEF Submit, Of
  <1>2. \A i \in 1..Len(pool') : kind'[pool'[i]] = k /\ pool'[i] \in ready'
    BY <1>1 DEF Of
  <1>. QED
    BY <1>1, <1>2 DEF BusyInWindow, SerialWindow, PoolOfPhase

\* The main thread's wave steps: which steps are ready and what they rely on.
LEMMA StartWavePreserves ==
    ASSUME TypeOK, IInv, StartWave
    PROVE  IInv'
  <1> USE DEF TypeOK
  <1>1. Active = {} /\ Active' = {}
    BY DEF IInv, PoolOfPhase, StartWave, Active, Phases
  <1>2. BusyInWindow' /\ SerialWindow' /\ PoolOfPhase'
    <2>1. Runnable \ Blocked \in SUBSET Steps
      BY DEF Runnable
    <2>2. kind' = kind /\ pc' = "prep" /\ ready' = Runnable \ Blocked
      BY DEF StartWave, run
    <2>3. Submit(Of(Runnable \ Blocked, "prep"))
      BY DEF StartWave
    <2>. QED
      BY <1>1, <2>1, <2>2, <2>3, SubmitPool DEF Phases
  <1>3. ReadyIsSafe'
    <2>1. ReadyIsSafe /\ Blocked \subseteq Runnable /\ Runnable \subseteq remaining
      BY DEF IInv, Blocked, Runnable
    <2>2. ready' \subseteq remaining' /\ done' = Steps \ remaining'
      BY <2>1 DEF ReadyIsSafe, StartWave
    <2>3. ASSUME NEW n \in ready', NEW d \in deps[n]
          PROVE  d \in done' /\ results'[d] = "COMPLETED"
      <3>1. n \in Runnable \ Blocked
        BY <2>3 DEF StartWave
      <3>2. d \in done /\ results[d] = "COMPLETED"
        BY <3>1 DEF Runnable, Blocked
      <3>3. d \in Steps /\ d \notin Blocked
        BY <3>2, <2>1 DEF ReadyIsSafe
      <3>. QED
        BY <3>2, <3>3 DEF StartWave
    <2>. QED
      BY <2>2, <2>3 DEF ReadyIsSafe, StartWave, run
  <1>4. StuckNeverReady'
    <2> SUFFICES ASSUME NEW R \in SUBSET Steps, Stuck(R)'
                 PROVE  R \subseteq (remaining \ ready)'
      BY DEF StuckNeverReady
    <2>1. Stuck(R)
      BY DEF Stuck, StartWave, run
    <2>2. R \subseteq remaining
      BY <2>1 DEF IInv, StuckNeverReady
    <2>3. R \cap Runnable = {}
      BY <2>1, <2>2 DEF Stuck, Runnable, IInv, ReadyIsSafe
    <2>. QED
      BY <2>2, <2>3 DEF StartWave, Blocked
  <1>5. EndIsJustified' /\ HitIsStored'
    BY DEF StartWave, EndIsJustified, HitIsStored, UsesCache, run, IInv
  <1>6. RaisedInWindow' /\ RaisingPool'
    BY DEF StartWave, IInv, RaisedInWindow, RaisingPool, Phases
  <1>. QED
    BY <1>2, <1>3, <1>4, <1>5, <1>6 DEF IInv

\* Moving to the next pool of the wave.
LEMMA NextPoolPreserves ==
    ASSUME TypeOK, IInv, NextPool
    PROVE  IInv'
  <1> USE DEF TypeOK
  <1>1. pc \in Phases
    BY DEF NextPool, Phases
  <1>2. Active = {} /\ Active' = {}
    BY <1>1, NobodyBusy DEF NextPool, Active
  <1>3. PICK k \in Phases : pc' = k /\ Submit(Of(ready, k))
    BY DEF NextPool, Phases
  <1>4. BusyInWindow' /\ SerialWindow' /\ PoolOfPhase'
    <2>1. kind' = kind /\ ready' = ready
      BY DEF NextPool, run
    <2>. QED
      BY <1>2, <1>3, <2>1, SubmitPool
  <1>5. ReadyIsSafe' /\ StuckNeverReady' /\ EndIsJustified' /\ HitIsStored'
    BY DEF NextPool, run, IInv, ReadyIsSafe, StuckNeverReady, Stuck,
           EndIsJustified, HitIsStored, UsesCache
  <1>6. RaisedInWindow' /\ RaisingPool'
    BY <1>1, NobodyBusy DEF NextPool, RaisedInWindow, RaisingPool
  <1>. QED
    BY <1>4, <1>5, <1>6 DEF IInv

\* The end of a wave: its steps are done.
LEMMA EndWavePreserves ==
    ASSUME TypeOK, IInv, EndWave
    PROVE  IInv'
  <1> USE DEF TypeOK
  <1>1. Active = {} /\ Active' = {}
    BY NobodyBusy DEF EndWave, Active, Phases
  <1>2. BusyInWindow' /\ SerialWindow' /\ PoolOfPhase'
    BY <1>1 DEF EndWave, run, IInv, BusyInWindow, SerialWindow, PoolOfPhase, Phases
  <1>3. ReadyIsSafe' /\ StuckNeverReady' /\ EndIsJustified' /\ HitIsStored'
    BY DEF EndWave, run, IInv, ReadyIsSafe, StuckNeverReady, Stuck,
           EndIsJustified, HitIsStored, UsesCache
  <1>4. RaisedInWindow' /\ RaisingPool'
    BY NobodyBusy DEF EndWave, RaisedInWindow, RaisingPool, Phases
  <1>. QED
    BY <1>2, <1>3, <1>4 DEF IInv

\* Collecting a result shrinks the window by a step that is no longer busy,
\* and only writes the result of a step of the wave.
LEMMA CollectPreserves ==
    ASSUME TypeOK, IInv, Collect
    PROVE  IInv'
  <1> USE DEF TypeOK
  <1>1. /\ got + 1 \in 1..Len(pool)
        /\ pool[got + 1] \in ready
        /\ at[pool[got + 1]] \in Status
        /\ got' = got + 1
    BY DEF Collect, IInv, PoolOfPhase
  <1>2. BusyInWindow'
    <2> SUFFICES ASSUME NEW n \in Active
                 PROVE  \E i \in (got + 2)..taken : pool[i] = n
      BY <1>1 DEF BusyInWindow, Active, Collect
    <2>1. PICK i \in (got + 1)..taken : pool[i] = n
      BY DEF IInv, BusyInWindow
    <2>2. i # got + 1
      BY <1>1, <2>1 DEF Active, Busy, Status
    <2>. QED
      BY <2>1, <2>2
  <1>3. SerialWindow' /\ PoolOfPhase'
    BY DEF Collect, run, IInv, SerialWindow, PoolOfPhase, Active
  <1>4. ReadyIsSafe'
    <2> SUFFICES ASSUME NEW n \in ready, NEW d \in deps[n]
                 PROVE  results'[d] = "COMPLETED"
      BY DEF Collect, run, IInv, ReadyIsSafe
    <2>1. d \in done /\ results[d] = "COMPLETED" /\ pool[got + 1] \notin done
      BY <1>1 DEF IInv, ReadyIsSafe
    <2>. QED
      BY <2>1 DEF Collect
  <1>5. StuckNeverReady' /\ EndIsJustified' /\ HitIsStored'
    BY DEF Collect, run, IInv, StuckNeverReady, Stuck, EndIsJustified,
           HitIsStored, UsesCache, Runnable, Phases
  <1>6. RaisedInWindow' /\ RaisingPool'
    <2> SUFFICES ASSUME NEW n \in Steps, at[n] = "RAISED"
                 PROVE  \E i \in (got + 2)..taken : pool[i] = n
      BY <1>1 DEF RaisedInWindow, RaisingPool, Collect, Phases
    <2>1. PICK i \in (got + 1)..taken : pool[i] = n
      BY DEF IInv, RaisedInWindow
    <2>2. i # got + 1
      BY <1>1, <2>1 DEF Status
    <2>. QED
      BY <2>1, <2>2
  <1>. QED
    BY <1>2, <1>3, <1>4, <1>5, <1>6 DEF IInv

\* A worker takes the next name: the window grows by it, and the serial loop
\* takes only when nothing is uncollected.
LEMMA TakePreserves ==
    ASSUME TypeOK, IInv, Take
    PROVE  IInv'
  <1> USE DEF TypeOK
  <1>1. taken + 1 \in 1..Len(pool) /\ pool[taken + 1] \in Steps /\ taken' = taken + 1
    BY DEF Take
  <1>2. BusyInWindow'
    <2> SUFFICES ASSUME NEW n \in Active'
                 PROVE  \E i \in (got + 1)..(taken + 1) : pool[i] = n
      BY <1>1 DEF BusyInWindow, Take, main
    <2>1. CASE n = pool[taken + 1]
      BY <1>1, <2>1
    <2>2. CASE n # pool[taken + 1]
      <3>1. n \in Active
        BY <1>1, <2>2 DEF Active, Take
      <3>. QED
        BY <3>1 DEF IInv, BusyInWindow
    <2>. QED
      BY <2>1, <2>2
  <1>3. SerialWindow'
    BY <1>1 DEF Take, run, main, IInv, SerialWindow, PoolOfPhase, RaisingPool, Phases
  <1>4. PoolOfPhase' /\ ReadyIsSafe' /\ StuckNeverReady' /\ EndIsJustified'
    BY DEF Take, run, main, IInv, PoolOfPhase, ReadyIsSafe, StuckNeverReady,
           Stuck, EndIsJustified, Runnable, Phases
  <1>5. HitIsStored'
    BY <1>1 DEF Take, run, IInv, HitIsStored, UsesCache
  <1>6. RaisedInWindow'
    <2> SUFFICES ASSUME NEW n \in Steps, at'[n] = "RAISED"
                 PROVE  \E i \in (got + 1)..(taken + 1) : pool[i] = n
      BY <1>1 DEF RaisedInWindow, Take, main
    <2>1. at[n] = "RAISED"
      BY <1>1 DEF Take
    <2>. QED
      BY <2>1 DEF IInv, RaisedInWindow
  <1>7. RaisingPool'
    BY <1>1 DEF Take, run, main, IInv, RaisingPool
  <1>. QED
    BY <1>2, <1>3, <1>4, <1>5, <1>6, <1>7 DEF IInv

\* A step of _run_one keeps its step in the window and stores before it
\* completes.
LEMMA RunOnePreserves ==
    ASSUME TypeOK, IInv, NEW n \in Steps, RunOne(n)
    PROVE  IInv'
  <1> USE DEF TypeOK
  <1>1. /\ at[n] \in Busy
        /\ \E s : at' = [at EXCEPT ![n] = s]
        /\ UNCHANGED <<run, main, taken, got>>
    BY DEF RunOne, CacheHit, Launch, LauncherReturns, LauncherRaises, Store,
           StoreRaises, Become, Busy
  <1>2. Active' \subseteq Active
    BY <1>1 DEF Active
  <1>3. BusyInWindow' /\ SerialWindow' /\ PoolOfPhase'
    BY <1>1, <1>2 DEF IInv, BusyInWindow, SerialWindow, PoolOfPhase, main, run
  <1>4. ReadyIsSafe' /\ StuckNeverReady' /\ EndIsJustified'
    <2>1. UNCHANGED <<deps, pc, ready, results, done, remaining>>
      BY <1>1 DEF main, run
    <2>. QED
      BY <2>1 DEF IInv, ReadyIsSafe, StuckNeverReady, Stuck, EndIsJustified, Runnable
  <1>5. HitIsStored'
    BY DEF IInv, HitIsStored, UsesCache, RunOne, CacheHit, Launch, LauncherReturns,
           LauncherRaises, Store, StoreRaises, Become, run
  <1>6. RaisedInWindow' /\ RaisingPool'
    <2>1. \A m \in Steps : m # n => at'[m] = at[m]
      BY <1>1
    <2>2. pc \in Phases \cup {"raising"} /\ \E i \in (got + 1)..taken : pool[i] = n
      BY <1>1 DEF IInv, BusyInWindow, PoolOfPhase, Active
    <2>. QED
      BY <1>1, <2>1, <2>2 DEF IInv, RaisedInWindow, RaisingPool, main, run
  <1>. QED
    BY <1>3, <1>4, <1>5, <1>6 DEF IInv

\* Giving up withdraws names beyond the window, and leaves the serial loop at
\* once.
LEMMA GiveUpPreserves ==
    ASSUME TypeOK, IInv, CollectException \/ Cancel
    PROVE  IInv'
  <1> USE DEF TypeOK
  <1>1. /\ taken \in 0..Len(pool') /\ Len(pool') \in 0..Len(pool)
        /\ \A i \in 1..Len(pool') : pool'[i] = pool[i]
        /\ pc' = "raising" /\ pc \in Phases \cup {"raising"}
        /\ pc = "perf" => Len(pool') = taken
        /\ UNCHANGED <<deps, kind, caching, entries, ready, taken, got, at, results,
                      done, remaining>>
    BY Withdrawn DEF run
  <1>2. BusyInWindow' /\ RaisedInWindow'
    <2>1. \A i \in (got + 1)..taken : pool'[i] = pool[i]
      BY <1>1
    <2>. QED
      BY <1>1, <2>1 DEF IInv, BusyInWindow, RaisedInWindow, Active
  <1>3. SerialWindow' /\ PoolOfPhase'
    BY <1>1 DEF IInv, SerialWindow, PoolOfPhase, Phases
  <1>4. RaisingPool'
    <2>1. CASE pc \in Phases
      BY <1>1, <2>1 DEF IInv, PoolOfPhase, RaisingPool
    <2>2. CASE pc = "raising"
      BY <1>1, <2>2 DEF IInv, RaisingPool
    <2>. QED
      BY <1>1, <2>1, <2>2
  <1>5. ReadyIsSafe' /\ StuckNeverReady' /\ EndIsJustified' /\ HitIsStored'
    BY <1>1 DEF IInv, ReadyIsSafe, StuckNeverReady, Stuck, EndIsJustified, HitIsStored,
                UsesCache, Phases
  <1>. QED
    BY <1>2, <1>3, <1>4, <1>5 DEF IInv

\* The invariant is inductive.
THEOREM Inductive == Spec => []IInv
  <1>1. Init => IInv
    BY SchedulerAssumption
       DEF Init, IInv, BusyInWindow, SerialWindow, PoolOfPhase, ReadyIsSafe,
           StuckNeverReady, Stuck, EndIsJustified, HitIsStored, Active, Busy, Phases,
           RaisedInWindow, RaisingPool
  <1>2. TypeOK /\ IInv /\ [Next]_vars => IInv'
    <2> SUFFICES ASSUME TypeOK, IInv, [Next]_vars PROVE IInv'
      OBVIOUS
    <2> USE DEF TypeOK
    <2>1. CASE CollectException \/ Cancel
      BY <2>1, GiveUpPreserves
    <2>2. CASE Reraise
      BY <2>2 DEF Reraise, run, IInv, BusyInWindow, SerialWindow, RaisedInWindow, RaisingPool,
           PoolOfPhase, ReadyIsSafe, StuckNeverReady, Stuck, EndIsJustified,
           HitIsStored, UsesCache, Active, Phases
    <2>3. CASE CycleError
      BY <2>3 DEF CycleError, run, IInv, BusyInWindow, SerialWindow, RaisedInWindow, RaisingPool,
           PoolOfPhase, ReadyIsSafe, StuckNeverReady, Stuck, EndIsJustified,
           HitIsStored, UsesCache, Active, Runnable, Phases
    <2>4. CASE Return
      BY <2>4 DEF Return, run, IInv, BusyInWindow, SerialWindow, RaisedInWindow, RaisingPool,
           PoolOfPhase, ReadyIsSafe, StuckNeverReady, Stuck, EndIsJustified,
           HitIsStored, UsesCache, Active, Phases
    <2>5. CASE UNCHANGED vars
      BY <2>5 DEF vars, run, IInv, BusyInWindow, SerialWindow, RaisedInWindow, RaisingPool,
           PoolOfPhase, ReadyIsSafe, StuckNeverReady, Stuck, EndIsJustified,
           HitIsStored, UsesCache, Active, Runnable
    <2>. QED
      BY <2>1, <2>2, <2>3, <2>4, <2>5, StartWavePreserves, NextPoolPreserves,
         EndWavePreserves, CollectPreserves, TakePreserves, RunOnePreserves
         DEF Next, Main, Finished
  <1>. QED
    BY <1>1, <1>2, TypeCorrect, PTL DEF Spec

\* A performance measure never overlaps another step of the run.
THEOREM MeasureIsAlone == Spec => []MeasureAlone
  <1>1. TypeOK /\ IInv => MeasureAlone
    <2> SUFFICES ASSUME TypeOK, IInv, NEW m \in Active, NEW n \in Active, kind[m] = "perf"
                 PROVE  m = n
      BY DEF MeasureAlone
    <2>1. PICK i \in (got + 1)..taken : pool[i] = m
      BY DEF IInv, BusyInWindow
    <2>2. PICK j \in (got + 1)..taken : pool[j] = n
      BY DEF IInv, BusyInWindow
    <2>3. taken <= got + 1
      BY <2>1 DEF IInv, SerialWindow, TypeOK
    <2>. QED
      BY <2>1, <2>2, <2>3 DEF TypeOK
  <1>. QED
    BY <1>1, TypeCorrect, Inductive, PTL

\* Every dependency of a busy step is a step of the run with a COMPLETED result.
THEOREM DependenciesAreCompleted == Spec => []DependenciesCompleted
  <1>1. TypeOK /\ IInv => DependenciesCompleted
    <2> SUFFICES ASSUME TypeOK, IInv, NEW n \in Active, NEW d \in deps[n]
                 PROVE  d \in Steps /\ results[d] = "COMPLETED"
      BY DEF DependenciesCompleted
    <2>1. PICK i \in (got + 1)..taken : pool[i] = n
      BY DEF IInv, BusyInWindow
    <2>2. pc \in Phases \cup {"raising"}
      BY DEF IInv, PoolOfPhase
    <2>3. n \in ready
      BY <2>1, <2>2 DEF IInv, PoolOfPhase, TypeOK
    <2>. QED
      BY <2>3 DEF IInv, ReadyIsSafe, TypeOK
  <1>. QED
    BY <1>1, TypeCorrect, Inductive, PTL

\* The cycle error is raised only on a stuck graph, and run() returns only
\* when no set of steps is stuck.
THEOREM CycleErrorIsReal == Spec => []CycleIsReal
  <1>1. TypeOK /\ IInv => CycleIsReal
    <2> SUFFICES ASSUME TypeOK, IInv PROVE CycleIsReal
      OBVIOUS
    <2>1. pc = "cycle" => Stuck(remaining)
      BY DEF IInv, EndIsJustified, ReadyIsSafe, Runnable, Stuck, TypeOK
    <2>2. pc = "returned" => \A R \in SUBSET Steps : ~Stuck(R)
      BY DEF IInv, EndIsJustified, StuckNeverReady, Stuck
    <2>. QED
      BY <2>1, <2>2 DEF CycleIsReal
  <1>. QED
    BY <1>1, TypeCorrect, Inductive, PTL

\* A completed cacheable step of a run with a cache has its entry.
THEOREM HitsAreStored == Spec => []HitIsStored
  <1>1. IInv => HitIsStored
    BY DEF IInv
  <1>. QED
    BY <1>1, Inductive, PTL

\* Whatever raises, and whether or not the main thread has noticed: only steps
\* submitted to the same pool can still start.
THEOREM RaiseStaysContained == Spec => RaiseIsContained
  <1>1. TypeOK /\ IInv /\ [Next]_vars
          => [\A m, n \in Steps :
                 at[m] = "RAISED" /\ at[n] = "idle" /\ at'[n] # "idle" =>
                     /\ {m, n} \subseteq ready
                     /\ kind[m] = kind[n] /\ kind[n] # "perf"]_vars
    <2> SUFFICES ASSUME TypeOK, IInv, [Next]_vars, NEW m \in Steps, NEW n \in Steps,
                        at[m] = "RAISED", at[n] = "idle", at'[n] # "idle"
                 PROVE  /\ {m, n} \subseteq ready
                        /\ kind[m] = kind[n] /\ kind[n] # "perf"
      OBVIOUS
    <2>1. CASE Take
      <3>1. PICK i \in (got + 1)..taken : pool[i] = m
        BY DEF IInv, RaisedInWindow
      <3>2. /\ taken + 1 \in 1..Len(pool) /\ i \in 1..Len(pool)
            /\ pc \in Phases \cup {"raising"} /\ pc # "perf"
        BY <2>1, <3>1 DEF Take, TypeOK
      <3>3. n = pool[taken + 1]
        BY <2>1, <3>2 DEF Take, TypeOK
      <3>4. {m, n} \subseteq ready
        BY <3>1, <3>2, <3>3 DEF IInv, PoolOfPhase
      <3>5. CASE pc \in Phases
        BY <3>1, <3>2, <3>3, <3>4, <3>5 DEF IInv, PoolOfPhase
      <3>6. CASE pc = "raising"
        <4>1. kind[m] = kind[n]
          BY <3>1, <3>2, <3>3, <3>6 DEF IInv, RaisingPool
        <4>2. taken # Len(pool)
          BY <3>2 DEF TypeOK
        <4>3. kind[n] # "perf"
          BY <3>2, <3>3, <3>6, <4>2 DEF IInv, RaisingPool
        <4>. QED
          BY <3>4, <4>1, <4>3
      <3>. QED
        BY <3>2, <3>5, <3>6
    <2>2. CASE Main
      BY <2>2 DEF Main, StartWave, NextPool, EndWave, Collect, CollectException,
                  Cancel, Reraise, CycleError, Return
    <2>3. ASSUME NEW k \in Steps, RunOne(k) PROVE FALSE
      <3>1. k # n
        BY <2>3 DEF RunOne, CacheHit, Launch, LauncherReturns, LauncherRaises,
                    Store, StoreRaises
      <3>2. PICK s : at' = [at EXCEPT ![k] = s]
        BY <2>3 DEF RunOne, CacheHit, Launch, LauncherReturns, LauncherRaises,
                    Store, StoreRaises, Become
      <3>. QED
        BY <3>1, <3>2 DEF TypeOK
    <2>4. CASE UNCHANGED vars
      BY <2>4 DEF vars
    <2>. QED
      BY <2>1, <2>2, <2>3, <2>4 DEF Next, Finished
  <1>. QED
    BY <1>1, TypeCorrect, Inductive, PTL DEF Spec, RaiseIsContained

-----------------------------------------------------------------------------
(* What has become of each step.  The invariants above say who may run; that *)
(* run() accounts for every step rests on a second one, which follows a step *)
(* through its wave: not touched before its pool takes it, collected exactly *)
(* once, and done only with a result of its own or one of a dependency's.    *)

Untouched(n) == at[n] = "idle" /\ results[n] = "none"
Settles(n)   == at[n] \in Status /\ results[n] = at[n]

\* The kinds whose pools this wave has drained, and those still to come.
Past   == CASE pc = "prep"     -> {}
            [] pc = "parallel" -> {"prep"}
            [] pc = "perf"     -> {"prep", "parallel"}
Future == Kinds \ (Past \cup {pc})

\* A done step ran on completed dependencies, or was blocked by one that had not.
DoneIsSettled ==
    \A n \in done :
        \/ /\ Settles(n)
           /\ \A d \in deps[n] : d \in done /\ results[d] = "COMPLETED"
        \/ /\ at[n] = "idle" /\ results[n] = "FAILED"
           /\ \E d \in deps[n] : d \in done /\ results[d] # "COMPLETED"
OthersAreUntouched == \A n \in remaining \ ready : Untouched(n)
\* The pool holds each ready step of its kind once: collected, taken or waiting.
\* While the pool gives up, names are withdrawn from it.
PoolIsExact ==
    /\ pc \in Phases \cup {"raising"} =>
          \A i, j \in 1..Len(pool) : pool[i] = pool[j] => i = j
    /\ pc \in Phases =>
          \A n \in ready : kind[n] = pc => \E i \in 1..Len(pool) : pool[i] = n
PoolIsCollected ==
    pc \in Phases \cup {"raising"} =>
        /\ \A i \in 1..got : Settles(pool[i])
        /\ \A i \in (taken + 1)..Len(pool) : Untouched(pool[i])
WaveIsOrdered ==
    pc \in Phases =>
        \A n \in ready : /\ kind[n] \in Past => Settles(n)
                         /\ kind[n] \in Future => Untouched(n)

Accounted ==
    /\ DoneIsSettled
    /\ OthersAreUntouched
    /\ PoolIsExact
    /\ PoolIsCollected
    /\ WaveIsOrdered

\* A submission order of a finite set holds each of its members once.
LEMMA OrdersExact ==
    ASSUME NEW S, S \subseteq Steps, NEW o \in Orders(S)
    PROVE  /\ \A i, j \in 1..Len(o) : o[i] = o[j] => i = j
           /\ \A n \in S : \E i \in 1..Len(o) : o[i] = n
  <1>1. IsFiniteSet(S)
    BY FS_Subset, SchedulerAssumption
  <1> DEFINE c == Cardinality(S)
  <1>2. c \in Nat
    BY <1>1, FS_CardinalityType
  <1>3. o \in [1..c -> S] /\ \A i, j \in 1..c : o[i] = o[j] => i = j
    BY DEF Orders
  <1>4. Len(o) = c
    BY <1>2, <1>3
  <1>5. IsFiniteSet(1..c) /\ Cardinality(1..c) = c
    BY <1>2, FS_Interval
  <1>6. o \in Injection(1..c, S)
    BY <1>3 DEF Injection, IsInjective
  <1>7. o \in Surjection(1..c, S)
    BY <1>1, <1>5, <1>6, FS_Injection
  <1>8. \A n \in S : \E i \in 1..c : o[i] = n
    BY <1>7 DEF Surjection
  <1>. QED
    BY <1>3, <1>4, <1>8

\* Submitting the ready steps of the next kind, while none of them is touched,
\* starts an exact pool.
LEMMA SubmitExact ==
    ASSUME NEW S \in SUBSET Steps, NEW k \in Kinds, Submit(Of(S, k)),
           pc' = k, ready' = S, kind' = kind,
           \A n \in S : kind[n] = k => Untouched(n)'
    PROVE  PoolIsExact' /\ PoolIsCollected'
  <1>1. /\ pool' \in Seq(Steps)
        /\ \A i \in 1..Len(pool') : pool'[i] \in Of(S, k)
        /\ \A i, j \in 1..Len(pool') : pool'[i] = pool'[j] => i = j
        /\ \A n \in Of(S, k) : \E i \in 1..Len(pool') : pool'[i] = n
        /\ taken' = 0 /\ got' = 0
    BY OrdersType, OrdersExact DEF Submit, Of
  <1>2. PoolIsExact'
    BY <1>1 DEF PoolIsExact, Of
  <1>3. PoolIsCollected'
    BY <1>1 DEF PoolIsCollected, Of
  <1>. QED
    BY <1>2, <1>3

\* A wave: the blocked are settled as skipped, the ready are shared out.
LEMMA StartWaveAccounts ==
    ASSUME TypeOK, IInv, Accounted, StartWave
    PROVE  Accounted'
  <1> USE DEF TypeOK
  <1>1. /\ ready = {} /\ done = Steps \ remaining
        /\ Blocked \subseteq Runnable /\ Runnable \subseteq remaining
    BY DEF IInv, EndIsJustified, ReadyIsSafe, StartWave, Blocked, Runnable
  <1>2. \A n \in remaining : Untouched(n)
    BY <1>1 DEF Accounted, OthersAreUntouched
  <1>3. /\ at' = at /\ deps' = deps /\ kind' = kind
        /\ \A n \in Steps \ Blocked : results'[n] = results[n]
        /\ \A n \in Blocked : results'[n] = "FAILED"
        /\ done' = done \cup Blocked /\ remaining' = remaining \ Blocked
        /\ ready' = Runnable \ Blocked
        /\ Submit(Of(Runnable \ Blocked, "prep")) /\ pc' = "prep"
    BY <1>1 DEF StartWave, run
  <1>4. \A n \in remaining' : Untouched(n)'
    BY <1>2, <1>3 DEF Untouched
  <1>5. DoneIsSettled'
    <2> SUFFICES ASSUME NEW n \in done'
                 PROVE  (\/ /\ Settles(n)
                            /\ \A d \in deps[n] : d \in done /\ results[d] = "COMPLETED"
                         \/ /\ at[n] = "idle" /\ results[n] = "FAILED"
                            /\ \E d \in deps[n] : d \in done /\ results[d] # "COMPLETED")'
      BY DEF DoneIsSettled
    <2>1. \A d \in done : d \in Steps /\ d \notin Blocked /\ results'[d] = results[d] /\ d \in done'
      BY <1>1, <1>3
    <2>2. CASE n \in done
      BY <1>3, <2>1, <2>2 DEF Accounted, DoneIsSettled, Settles
    <2>3. CASE n \in Blocked
      <3>1. PICK d \in deps[n] : d \in done /\ results[d] # "COMPLETED"
        BY <2>3 DEF Blocked, Runnable
      <3>2. at[n] = "idle"
        BY <1>1, <1>2, <2>3 DEF Untouched
      <3>. QED
        BY <1>3, <2>1, <2>3, <3>1, <3>2
    <2>. QED
      BY <1>3, <2>2, <2>3
  <1>6. OthersAreUntouched' /\ WaveIsOrdered'
    BY <1>1, <1>3, <1>4 DEF OthersAreUntouched, WaveIsOrdered, Past
  <1>7. PoolIsExact' /\ PoolIsCollected'
    BY <1>1, <1>3, <1>4, SubmitExact DEF Kinds
  <1>. QED
    BY <1>5, <1>6, <1>7 DEF Accounted

\* The next pool has the ready steps of its kind.
LEMMA NextPoolAccounts ==
    ASSUME TypeOK, IInv, Accounted, NextPool
    PROVE  Accounted'
  <1> USE DEF TypeOK
  <1>1. PICK k \in {"parallel", "perf"} :
          /\ pc = IF k = "parallel" THEN "prep" ELSE "parallel"
          /\ pc' = k /\ Submit(Of(ready, k)) /\ got = Len(pool)
          /\ UNCHANGED <<deps, kind, ready, at, results, done, remaining>>
    BY DEF NextPool, run
  <1>2. \A n \in ready : /\ kind[n] \in Past \cup {pc} => Settles(n)
                         /\ kind[n] \in Future => Untouched(n)
    BY <1>1 DEF Accounted, WaveIsOrdered, PoolIsExact, PoolIsCollected, Phases
  <1>3. WaveIsOrdered'
    BY <1>1, <1>2 DEF WaveIsOrdered, Past, Future, Kinds, Settles, Untouched
  <1>4. PoolIsExact' /\ PoolIsCollected'
    <2>1. \A n \in ready : kind[n] = k => Untouched(n)'
      BY <1>1, <1>2 DEF Future, Past, Kinds, Untouched
    <2>. QED
      BY <1>1, <2>1, SubmitExact DEF Kinds
  <1>5. DoneIsSettled' /\ OthersAreUntouched'
    BY <1>1 DEF Accounted, DoneIsSettled, OthersAreUntouched, Settles, Untouched
  <1>. QED
    BY <1>3, <1>4, <1>5 DEF Accounted

\* A wave that ends has settled all its ready steps.
LEMMA EndWaveAccounts ==
    ASSUME TypeOK, IInv, Accounted, EndWave
    PROVE  Accounted'
  <1> USE DEF TypeOK
  <1>1. /\ pc = "perf" /\ got = Len(pool) /\ pc' = "wave"
        /\ done' = done \cup ready /\ remaining' = remaining \ ready /\ ready' = {}
        /\ UNCHANGED <<deps, kind, at, results>>
    BY DEF EndWave, run
  <1>2. \A n \in ready : Settles(n)
    BY <1>1 DEF Accounted, WaveIsOrdered, PoolIsExact, PoolIsCollected, Past, Kinds, Phases
  <1>3. DoneIsSettled'
    <2>1. \A n \in ready : \A d \in deps[n] : d \in done /\ results[d] = "COMPLETED"
      BY DEF IInv, ReadyIsSafe
    <2>. QED
      BY <1>1, <1>2, <2>1 DEF Accounted, DoneIsSettled, Settles
  <1>4. OthersAreUntouched'
    BY <1>1 DEF Accounted, OthersAreUntouched, Untouched
  <1>. QED
    BY <1>1, <1>3, <1>4 DEF Accounted, PoolIsExact, PoolIsCollected, WaveIsOrdered, Phases

\* The main thread settles the step whose result it collects.
LEMMA CollectAccounts ==
    ASSUME TypeOK, IInv, Accounted, Collect
    PROVE  Accounted'
  <1> USE DEF TypeOK
  <1>0. PICK n \in Steps : n = pool[got + 1]
    BY DEF Collect
  <1>1. /\ got + 1 \in 1..Len(pool) /\ n \in ready /\ n \in remaining
        /\ n \in Steps /\ kind[n] = pc /\ at[n] \in Status /\ pc \in Phases
    BY <1>0 DEF Collect, IInv, PoolOfPhase, ReadyIsSafe
  <1>2. /\ got' = got + 1 /\ results' = [results EXCEPT ![n] = at[n]]
        /\ UNCHANGED <<deps, kind, pc, ready, pool, taken, at, done, remaining>>
    BY <1>0 DEF Collect, run
  <1>3. /\ results'[n] = at[n]
        /\ \A m : m # n => results'[m] = results[m]
    BY <1>1, <1>2
  <1>4. Settles(n)'
    BY <1>1, <1>2, <1>3 DEF Settles
  <1>5. DoneIsSettled'
    <2>1. n \notin done
      BY <1>1 DEF IInv, ReadyIsSafe
    <2>. QED
      BY <1>2, <1>3, <2>1 DEF Accounted, DoneIsSettled, Settles
  <1>6. OthersAreUntouched'
    BY <1>1, <1>2, <1>3 DEF Accounted, OthersAreUntouched, Untouched
  <1>7. PoolIsExact'
    BY <1>2 DEF Accounted, PoolIsExact
  <1>8. PoolIsCollected'
    <2>1. \A i \in 1..Len(pool) : i # got + 1 => pool[i] # n
      BY <1>0, <1>1 DEF Accounted, PoolIsExact
    <2>2. \A i \in 1..got : Settles(pool[i])'
      BY <1>1, <1>2, <1>3, <2>1 DEF Accounted, PoolIsCollected, Settles
    <2>3. \A i \in (taken + 1)..Len(pool) : Untouched(pool[i])'
      BY <1>1, <1>2, <1>3, <2>1 DEF Accounted, PoolIsCollected, Untouched, Collect
    <2>. QED
      BY <1>0, <1>1, <1>2, <1>4, <2>2, <2>3 DEF PoolIsCollected
  <1>9. WaveIsOrdered'
    <2>1. Past' = Past /\ Future' = Future
      BY <1>2 DEF Past, Future
    <2>2. pc \notin Past \cup Future
      BY <1>1 DEF Past, Future, Phases
    <2>. QED
      BY <1>1, <1>2, <1>3, <2>1, <2>2 DEF Accounted, WaveIsOrdered, Settles, Untouched
  <1>. QED
    BY <1>5, <1>6, <1>7, <1>8, <1>9 DEF Accounted

\* What a worker does to a step of the window touches nothing that is waiting,
\* collected or done.
LEMMA TouchAccounts ==
    ASSUME TypeOK, IInv, Accounted, NEW n \in Steps, n \in ready,
           NEW s, at' = [at EXCEPT ![n] = s],
           UNCHANGED <<deps, kind, pc, ready, pool, got, results, done, remaining>>,
           taken' \in taken..Len(pool),
           \E i \in (got + 1)..taken' : pool[i] = n
    PROVE  Accounted'
  <1> USE DEF TypeOK
  <1>1. \A m \in Steps : m # n => at'[m] = at[m]
    OBVIOUS
  <1>2. n \notin done /\ done \subseteq Steps
    BY DEF IInv, ReadyIsSafe
  <1>3. DoneIsSettled'
    BY <1>1, <1>2 DEF Accounted, DoneIsSettled, Settles
  <1>4. OthersAreUntouched'
    BY <1>1 DEF Accounted, OthersAreUntouched, Untouched
  <1>5. PoolIsExact'
    BY DEF Accounted, PoolIsExact
  <1>6. PoolIsCollected' /\ WaveIsOrdered'
    <2> SUFFICES ASSUME pc \in Phases \cup {"raising"} PROVE PoolIsCollected' /\ WaveIsOrdered'
      BY DEF PoolIsCollected, WaveIsOrdered
    <2>1. PICK k \in (got + 1)..taken' : pool[k] = n
      OBVIOUS
    <2>2. k \in 1..Len(pool) /\ (pc \in Phases => kind[n] = pc)
      BY <2>1 DEF IInv, PoolOfPhase
    <2>3. \A i \in 1..Len(pool) : i # k => pool[i] \in Steps /\ pool[i] # n
      BY <2>1, <2>2 DEF Accounted, PoolIsExact
    <2>4. \A i \in 1..got : Settles(pool[i])'
      BY <1>1, <2>1, <2>3 DEF Accounted, PoolIsCollected, Settles
    <2>5. ASSUME NEW u \in Nat, taken' = u
          PROVE  \A i \in (u + 1)..Len(pool) : Untouched(pool[i])'
      <3> SUFFICES ASSUME NEW i \in (u + 1)..Len(pool) PROVE Untouched(pool[i])'
        OBVIOUS
      <3>1. i \in (taken + 1)..Len(pool) /\ i \in 1..Len(pool) /\ i # k
        BY <2>1, <2>5
      <3>2. Untouched(pool[i]) /\ pool[i] \in Steps /\ pool[i] # n
        BY <2>3, <3>1 DEF Accounted, PoolIsCollected
      <3>. QED
        BY <1>1, <3>2 DEF Untouched
    <2>6. WaveIsOrdered'
      <3> SUFFICES ASSUME pc \in Phases PROVE WaveIsOrdered'
        BY DEF WaveIsOrdered
      <3>1. Past' = Past /\ Future' = Future /\ pc \notin Past \cup Future
        BY DEF Past, Future, Phases
      <3>. QED
        BY <1>1, <2>2, <3>1 DEF Accounted, WaveIsOrdered, Settles, Untouched
    <2>7. PoolIsCollected'
      <3>1. PICK u \in Nat : taken' = u
        OBVIOUS
      <3>2. \A i \in (u + 1)..Len(pool) : Untouched(pool[i])'
        BY <2>5, <3>1
      <3>. QED
        BY <2>4, <3>1, <3>2, Zenon DEF PoolIsCollected
    <2>. QED
      BY <2>6, <2>7
  <1>. QED
    BY <1>3, <1>4, <1>5, <1>6 DEF Accounted

\* A thread takes the next step of the pool.
LEMMA TakeAccounts ==
    ASSUME TypeOK, IInv, Accounted, Take
    PROVE  Accounted'
  <1> USE DEF TypeOK
  <1>1. taken + 1 \in 1..Len(pool) /\ got + 1 <= taken + 1 /\ taken' = taken + 1
    BY DEF Take
  <1>2. PICK n \in Steps : n = pool[taken + 1]
    BY <1>1
  <1>3. n \in ready
    BY <1>1, <1>2 DEF Take, IInv, PoolOfPhase
  <1>4. \E i \in (got + 1)..taken' : pool[i] = n
    BY <1>1, <1>2
  <1>5. /\ at' = [at EXCEPT ![n] = "started"]
        /\ UNCHANGED <<deps, kind, pc, ready, pool, got, results, done, remaining>>
        /\ taken' \in taken..Len(pool)
    BY <1>1, <1>2 DEF Take, run, main
  <1>. QED
    BY <1>3, <1>4, <1>5, TouchAccounts

\* A thread at work on a step moves nothing in the pool.
LEMMA RunOneAccounts ==
    ASSUME TypeOK, IInv, Accounted, NEW n \in Steps, RunOne(n)
    PROVE  Accounted'
  <1> USE DEF TypeOK
  <1>1. /\ at[n] \in Busy
        /\ UNCHANGED <<deps, kind, pc, ready, pool, taken, got, results, done, remaining>>
    BY DEF RunOne, CacheHit, Launch, LauncherReturns, LauncherRaises, Store,
           StoreRaises, Become, Busy, run, main
  <1>2. PICK s : at' = [at EXCEPT ![n] = s]
    BY DEF RunOne, CacheHit, Launch, LauncherReturns, LauncherRaises, Store,
           StoreRaises, Become
  <1>3. PICK i \in (got + 1)..taken : pool[i] = n
    BY <1>1 DEF IInv, BusyInWindow, Active
  <1>4. n \in ready
    BY <1>1, <1>3 DEF IInv, PoolOfPhase, Active
  <1>5. taken' \in taken..Len(pool) /\ \E j \in (got + 1)..taken' : pool[j] = n
    BY <1>1, <1>3
  <1>. QED
    BY <1>1, <1>2, <1>4, <1>5, TouchAccounts

\* Giving up withdraws untouched names from the end of the pool.
LEMMA GiveUpAccounts ==
    ASSUME TypeOK, IInv, Accounted, CollectException \/ Cancel
    PROVE  Accounted'
  <1> USE DEF TypeOK
  <1>1. /\ taken \in 0..Len(pool') /\ Len(pool') \in 0..Len(pool)
        /\ \A i \in 1..Len(pool') : pool'[i] = pool[i]
        /\ pc' = "raising" /\ pc \in Phases \cup {"raising"}
        /\ UNCHANGED <<deps, kind, ready, taken, got, at, results, done, remaining>>
    BY Withdrawn DEF run
  <1>2. DoneIsSettled' /\ OthersAreUntouched' /\ WaveIsOrdered'
    BY <1>1 DEF Accounted, DoneIsSettled, OthersAreUntouched, WaveIsOrdered, Settles,
                Untouched, Phases
  <1>3. PoolIsExact'
    BY <1>1 DEF Accounted, PoolIsExact, Phases
  <1>4. PoolIsCollected'
    <2>1. ASSUME NEW i \in 1..got' PROVE Settles(pool[i])'
      <3>1. i \in 1..Len(pool') /\ pool'[i] = pool[i] /\ Settles(pool[i])
        BY <1>1, <2>1 DEF Accounted, PoolIsCollected
      <3>. QED
        BY <1>1, <3>1 DEF Settles
    <2>2. ASSUME NEW i \in (taken' + 1)..Len(pool') PROVE Untouched(pool[i])'
      <3>1. i \in 1..Len(pool') /\ pool'[i] = pool[i] /\ Untouched(pool[i])
        BY <1>1, <2>2 DEF Accounted, PoolIsCollected
      <3>. QED
        BY <1>1, <3>1 DEF Untouched
    <2>. QED
      BY <2>1, <2>2, Zenon DEF PoolIsCollected
  <1>. QED
    BY <1>2, <1>3, <1>4 DEF Accounted

\* run() accounts for every step, in every state.
THEOREM StepsAreAccounted == Spec => []Accounted
  <1>1. Init => Accounted
    BY DEF Init, Accounted, DoneIsSettled, OthersAreUntouched, PoolIsExact,
           PoolIsCollected, WaveIsOrdered, Untouched, Phases
  <1>2. TypeOK /\ IInv /\ Accounted /\ [Next]_vars => Accounted'
    <2> SUFFICES ASSUME TypeOK, IInv, Accounted, [Next]_vars PROVE Accounted'
      OBVIOUS
    <2>1. ASSUME UNCHANGED <<deps, kind, ready, pool, taken, got, at, results, done, remaining>>,
                 pc' = pc \/ pc' \notin Phases \cup {"raising"}
          PROVE  Accounted'
      <3>1. DoneIsSettled' /\ OthersAreUntouched'
        BY <2>1 DEF Accounted, DoneIsSettled, OthersAreUntouched, Settles, Untouched
      <3>2. CASE pc' \notin Phases \cup {"raising"}
        BY <3>1, <3>2 DEF Accounted, PoolIsExact, PoolIsCollected, WaveIsOrdered
      <3>3. CASE pc' = pc
        BY <2>1, <3>1, <3>3 DEF Accounted, PoolIsExact, PoolIsCollected, WaveIsOrdered,
                                Settles, Untouched, Past, Future
      <3>. QED
        BY <2>1, <3>2, <3>3
    <2>2. CASE Reraise \/ CycleError \/ Return
      BY <2>1, <2>2 DEF Reraise, CycleError, Return, run, Phases
    <2>3. CASE UNCHANGED vars
      BY <2>1, <2>3 DEF vars, run
    <2>. QED
      BY <2>2, <2>3, StartWaveAccounts, NextPoolAccounts, EndWaveAccounts,
         GiveUpAccounts, CollectAccounts, TakeAccounts, RunOneAccounts DEF Next, Main, Finished
  <1>. QED
    BY <1>1, <1>2, TypeCorrect, Inductive, PTL DEF Spec

\* A failure blocks all descendants of the failed step and nothing else, and a
\* run that returns has a result for every step.
THEOREM FailureIsPropagated == Spec => []FailurePropagates
  <1>1. TypeOK /\ IInv /\ Accounted => FailurePropagates
    <2> SUFFICES ASSUME TypeOK, IInv, Accounted, pc = "returned", NEW n \in Steps
                 PROVE  /\ results[n] # "none"
                        /\ at[n] = "idle" <=> (\E d \in deps[n] : results[d] # "COMPLETED")
                        /\ at[n] # "idle" => results[n] = at[n]
      BY DEF FailurePropagates
    <2>1. n \in done
      BY DEF IInv, EndIsJustified, ReadyIsSafe
    <2>. QED
      BY <2>1 DEF Accounted, DoneIsSettled, Settles, Status
  <1>. QED
    BY <1>1, TypeCorrect, Inductive, StepsAreAccounted, PTL

-----------------------------------------------------------------------------
(* Scheduler implements DagRun.  The state DagRun sees of a step depends on  *)
(* `at' and, for an idle step, on whether it has been given a result.        *)

\* What the refinement mapping makes of a step.
LEMMA AbstractOf ==
    ASSUME TypeOK, NEW n \in Steps
    PROVE  /\ at[n] \in Busy => AbstractState[n] = "running"
           /\ at[n] \in Status => AbstractState[n] = at[n]
           /\ at[n] = "RAISED" => AbstractState[n] = "error"
           /\ Untouched(n) => AbstractState[n] = "pending"
           /\ at[n] = "idle" /\ results[n] # "none" => AbstractState[n] = "blocked"
           /\ AbstractState[n] = "running" => at[n] \in Busy
  BY DEF TypeOK, AbstractState, Busy, Status, Untouched

States == Status \cup {"pending", "running", "error", "blocked"}

\* The mapping gives every step a state of DagRun.
LEMMA AbstractType == TypeOK => AbstractState \in [Steps -> States]
  BY DEF TypeOK, AbstractState, States, Busy, Status

\* Steps of the main thread that move no task and block none are not seen.
LEMMA SameState ==
    ASSUME at' = at, \A n \in Steps : at[n] = "idle" => results'[n] = results[n]
    PROVE  AbstractState' = AbstractState
  BY DEF AbstractState, Busy, Status

\* A step moved by a worker is the only one whose state changes.
LEMMA MovedState ==
    ASSUME TypeOK, NEW n \in Steps, NEW s \in Busy \cup Status \cup {"RAISED"},
           at' = [at EXCEPT ![n] = s], results' = results
    PROVE  AbstractState' =
             [AbstractState EXCEPT ![n] = IF s \in Busy THEN "running"
                                          ELSE IF s = "RAISED" THEN "error" ELSE s]
  <1> DEFINE new == IF s \in Busy THEN "running" ELSE IF s = "RAISED" THEN "error" ELSE s
  <1>1. \A m \in Steps \ {n} : AbstractState'[m] = AbstractState[m]
    BY DEF TypeOK, AbstractState
  <1>2. AbstractState'[n] = new
    BY DEF TypeOK, AbstractState, Busy, Status
  <1>3. AbstractState \in [Steps -> States]
    BY AbstractType
  <1>4. AbstractState' \in [Steps -> States]
    <2>1. \A m \in Steps : at'[m] \in Busy \cup Status \cup {"idle", "RAISED"}
      BY DEF TypeOK
    <2>. QED
      BY <2>1 DEF AbstractState, States, Busy, Status
  <1> HIDE DEF new
  <1>5. AbstractState' = [AbstractState EXCEPT ![n] = new]
    BY <1>1, <1>2, <1>3, <1>4
  <1>. QED
    BY <1>5 DEF new

\* The steps that run in the abstract are those under way.
LEMMA RunningIsActive == TypeOK => Dag!Running = Active
  BY AbstractOf DEF Dag!Running, Active

\* A done step has settled for DagRun, as completed if its result says so; the
\* others are still pending between two waves.
LEMMA DoneHasSettled ==
    ASSUME TypeOK, IInv, Accounted, NEW n \in done
    PROVE  /\ AbstractState[n] \in Dag!Settled
           /\ AbstractState[n] = "COMPLETED" <=> results[n] = "COMPLETED"
  BY AbstractOf DEF TypeOK, Accounted, DoneIsSettled, Settles, Dag!Settled, Dag!Status, Status

\* Between waves every remaining step is pending in the abstract.
LEMMA WaveIsPending ==
    ASSUME TypeOK, IInv, Accounted, pc = "wave", NEW n \in remaining
    PROVE  Untouched(n) /\ AbstractState[n] = "pending"
  BY AbstractOf DEF TypeOK, IInv, EndIsJustified, Accounted, OthersAreUntouched

\* The start of a wave blocks a set of steps (perhaps none).
LEMMA StartWaveBlocks ==
    ASSUME TypeOK, IInv, Accounted, StartWave
    PROVE  Dag!Block(Blocked)
  <1> USE DEF TypeOK
  <1>1. AbstractOutcome = "open" /\ AbstractOutcome' = "open"
    BY DEF AbstractOutcome, StartWave, Stopped
  <1>2. Blocked \subseteq remaining
    BY DEF Blocked, Runnable
  <1>3. ASSUME NEW n \in Blocked
        PROVE  /\ AbstractState[n] = "pending"
               /\ \E d \in deps[n] \cap Steps : AbstractState[d] \in Dag!Settled \ {"COMPLETED"}
    <2>1. PICK d \in deps[n] : d \in done /\ results[d] # "COMPLETED"
      BY DEF Blocked, Runnable
    <2>. QED
      BY <1>2, <2>1, WaveIsPending, DoneHasSettled DEF StartWave
  <1>4. AbstractState' = [n \in Steps |-> IF n \in Blocked THEN "blocked" ELSE AbstractState[n]]
    <2>1. at' = at /\ \A n \in Steps : results'[n] = IF n \in Blocked THEN "FAILED" ELSE results[n]
      BY DEF StartWave
    <2>2. \A n \in Blocked : at[n] = "idle"
      BY <1>2, WaveIsPending DEF StartWave, Untouched
    <2>. QED
      BY <2>1, <2>2 DEF AbstractState, Busy, Status
  <1>5. UNCHANGED <<deps, kind>>
    BY DEF StartWave, run
  <1>. QED
    BY <1>1, <1>3, <1>4, <1>5 DEF Dag!Block

\* A worker that takes a step starts it, with the machine to itself if it is a
\* performance measure.
LEMMA TakeStarts ==
    ASSUME TypeOK, IInv, Accounted, Take
    PROVE  \E n \in Steps : Dag!Start(n)
  <1> USE DEF TypeOK
  <1>1. taken + 1 \in 1..Len(pool) /\ pc \in Phases \cup {"raising"}
    BY DEF Take
  <1>2. PICK n \in Steps : n = pool[taken + 1]
    BY <1>1
  <1>3. n \in ready /\ (pc \in Phases => kind[n] = pc)
    BY <1>1, <1>2 DEF IInv, PoolOfPhase
  <1>4. Untouched(n)
    BY <1>1, <1>2 DEF Accounted, PoolIsCollected
  <1>5. /\ AbstractOutcome = IF pc = "raising" THEN "failing" ELSE "open"
        /\ AbstractOutcome' = AbstractOutcome
    BY <1>1 DEF AbstractOutcome, Take, main, Phases, Stopped
  <1>6. AbstractState[n] = "pending"
    BY <1>4, AbstractOf
  <1>7. \A d \in deps[n] : d \in Steps /\ AbstractState[d] = "COMPLETED"
    BY <1>3, DoneHasSettled DEF IInv, ReadyIsSafe
  <1>8. pc = "perf" => Active = {}
    BY DEF IInv, BusyInWindow, Take
  <1>9. \A m \in Active : kind[m] = kind[n]
    BY <1>1, <1>2 DEF IInv, BusyInWindow, PoolOfPhase, RaisingPool
  <1>10. pc = "raising" => kind[n] # "perf"
    BY <1>1, <1>2 DEF IInv, RaisingPool
  <1>11. AbstractState' = [AbstractState EXCEPT ![n] = "running"]
    <2>1. at' = [at EXCEPT ![n] = "started"] /\ results' = results
      BY <1>2 DEF Take, main
    <2>2. "started" \in Busy
      BY DEF Busy
    <2>. QED
      BY <2>1, <2>2, MovedState
  <1>12. UNCHANGED <<deps, kind>>
    BY DEF Take, run
  <1>13. Dag!Start(n)
    BY <1>1, <1>3, <1>5, <1>6, <1>7, <1>8, <1>9, <1>11, <1>12, <1>10, RunningIsActive
       DEF Dag!Start
  <1>. QED
    BY <1>13

\* A step of _run_one ends its step for DagRun, or is not seen.
LEMMA RunOneFinishes ==
    ASSUME TypeOK, NEW n \in Steps, RunOne(n)
    PROVE  Dag!Finish(n) \/ UNCHANGED <<deps, kind, AbstractState, AbstractOutcome>>
  <1>1. at[n] \in Busy /\ UNCHANGED <<deps, kind, pc, results>>
    BY DEF RunOne, CacheHit, Launch, LauncherReturns, LauncherRaises, Store,
           StoreRaises, Become, Busy, run, main
  <1>2. PICK s \in Busy \cup Status \cup {"RAISED"} : at' = [at EXCEPT ![n] = s]
    BY DEF RunOne, CacheHit, Launch, LauncherReturns, LauncherRaises, Store,
           StoreRaises, Become, Busy, Status
  <1> DEFINE new == IF s \in Busy THEN "running" ELSE IF s = "RAISED" THEN "error" ELSE s
  <1>3. AbstractState' = [AbstractState EXCEPT ![n] = new]
    BY <1>1, <1>2, MovedState
  <1>4. AbstractState[n] = "running" /\ AbstractState \in [Steps -> States]
    BY <1>1, AbstractOf, AbstractType
  <1>5. AbstractOutcome' = AbstractOutcome
    BY <1>1 DEF AbstractOutcome
  <1>6. CASE s \in Busy
    <2>1. AbstractState' = AbstractState
      BY <1>3, <1>4, <1>6
    <2>. QED
      BY <1>1, <1>5, <2>1
  <1>7. CASE s \notin Busy
    <2>1. new \in Dag!Status \cup {"error"}
      BY <1>7 DEF Dag!Status, Status
    <2>. QED
      BY <1>1, <1>3, <1>4, <1>5, <2>1 DEF Dag!Finish
  <1>. QED
    BY <1>6, <1>7

\* The ends of run().
LEMMA CollectExceptionGivesUp ==
    ASSUME TypeOK, IInv, CollectException
    PROVE  Dag!GiveUp
  <1> USE DEF TypeOK
  <1>1. PICK n \in Steps : n = pool[got + 1] /\ at[n] = "RAISED"
    BY DEF CollectException
  <1>2. AbstractState[n] = "error"
    BY <1>1, AbstractOf
  <1>3. AbstractState' = AbstractState
    BY SameState DEF CollectException
  <1>4. AbstractOutcome = "open" /\ AbstractOutcome' = "failing"
    BY DEF AbstractOutcome, CollectException, Phases, Stopped
  <1>. QED
    BY <1>2, <1>3, <1>4 DEF Dag!GiveUp, CollectException, run

\* When run() ends, by itself or by an exception, the abstract run has ended.
LEMMA StopEnds ==
    ASSUME TypeOK, IInv, Accounted, Reraise \/ CycleError \/ Return
    PROVE  Dag!End
  <1> USE DEF TypeOK
  <1>1. AbstractState' = AbstractState /\ UNCHANGED <<deps, kind>>
    BY SameState DEF Reraise, CycleError, Return, run
  <1>2. Dag!Running = {}
    <2>1. Active = {}
      BY DEF Reraise, CycleError, Return, IInv, PoolOfPhase, Phases
    <2>. QED
      BY <2>1, RunningIsActive
  <1>3. done = Steps \ remaining
    BY DEF IInv, ReadyIsSafe
  <1>4. CASE Reraise
    <2>1. AbstractOutcome = "failing" /\ AbstractOutcome' = "raised"
      BY <1>4 DEF Reraise, AbstractOutcome, Stopped
    <2>. QED
      BY <1>1, <1>2, <2>1 DEF Dag!End
  <1>5. CASE Return
    <2>1. AbstractOutcome = "open" /\ AbstractOutcome' = "returned"
      BY <1>5 DEF Return, AbstractOutcome, Stopped
    <2>2. \A n \in Steps : AbstractState[n] \in Dag!Settled
      BY <1>3, <1>5, DoneHasSettled DEF Return
    <2>. QED
      BY <1>1, <1>2, <2>1, <2>2 DEF Dag!End
  <1>6. CASE CycleError
    <2>1. AbstractOutcome = "open" /\ AbstractOutcome' = "cycle"
      BY <1>6 DEF CycleError, AbstractOutcome, Stopped
    <2>2. \A n \in remaining : AbstractState[n] = "pending"
      BY <1>6, WaveIsPending DEF CycleError
    <2>3. \A n \in remaining : \E d \in deps[n] : d \notin done
      BY <1>6 DEF CycleError, Runnable
    <2>4. \A n \in Steps : \/ AbstractState[n] \in Dag!Settled
                           \/ /\ AbstractState[n] = "pending"
                              /\ \E d \in deps[n] : d \in Steps => AbstractState[d] = "pending"
      <3> SUFFICES ASSUME NEW n \in remaining
                   PROVE  \E d \in deps[n] : d \in Steps => AbstractState[d] = "pending"
        BY <1>3, <2>2, DoneHasSettled
      <3>1. PICK d \in deps[n] : d \notin done
        BY <2>3
      <3>. QED
        BY <1>3, <2>2, <3>1
    <2>5. \E n \in Steps : AbstractState[n] = "pending"
      BY <1>6, <2>2 DEF CycleError
    <2>. QED
      BY <1>1, <1>2, <2>1, <2>4, <2>5 DEF Dag!End
  <1>. QED
    BY <1>4, <1>5, <1>6

\* Every behaviour of the waves, pools and threads of Scheduler.run is one of
\* the abstract execution of DagRun, under the mapping AbstractState.
THEOREM ImplementsDagRun == Spec => DagSpec
  <1>1. Init => Dag!Init
    <2> SUFFICES ASSUME Init PROVE Dag!Init
      OBVIOUS
    <2>1. AbstractState = [n \in Steps |-> "pending"]
      BY DEF Init, AbstractState, Busy, Status
    <2>2. AbstractOutcome = "open"
      BY DEF Init, AbstractOutcome, Stopped
    <2>. QED
      BY <2>1, <2>2 DEF Init, Dag!Init, Kinds
  <1>2. TypeOK /\ IInv /\ Accounted /\ [Next]_vars => [Dag!Next]_(Dag!vars)
    <2> SUFFICES ASSUME TypeOK, IInv, Accounted, [Next]_vars
                 PROVE  Dag!Next \/ UNCHANGED <<deps, kind, AbstractState, AbstractOutcome>>
      BY DEF Dag!vars
    <2>1. CASE StartWave
      <3>1. Blocked \in SUBSET Steps
        BY DEF Blocked, Runnable, TypeOK
      <3>. QED
        BY <2>1, <3>1, StartWaveBlocks DEF Dag!Next
    <2>2. CASE NextPool \/ EndWave \/ Cancel
      <3>1. AbstractState' = AbstractState /\ UNCHANGED <<deps, kind>>
        BY <2>2, SameState DEF NextPool, EndWave, Cancel, run
      <3>2. AbstractOutcome' = AbstractOutcome
        BY <2>2 DEF NextPool, EndWave, Cancel, AbstractOutcome, Stopped
      <3>. QED
        BY <3>1, <3>2
    <2>3. CASE Collect
      <3>1. AbstractState' = AbstractState
        BY <2>3, SameState DEF Collect, Status, TypeOK
      <3>. QED
        BY <2>3, <3>1 DEF Collect, run, AbstractOutcome
    <2>4. CASE CollectException
      BY <2>4, CollectExceptionGivesUp DEF Dag!Next
    <2>5. CASE Reraise \/ CycleError \/ Return
      BY <2>5, StopEnds DEF Dag!Next
    <2>6. CASE Take
      BY <2>6, TakeStarts DEF Dag!Next
    <2>7. ASSUME NEW n \in Steps, RunOne(n)
          PROVE  Dag!Next \/ UNCHANGED <<deps, kind, AbstractState, AbstractOutcome>>
      BY <2>7, RunOneFinishes DEF Dag!Next
    <2>8. CASE UNCHANGED vars
      BY <2>8, SameState DEF vars, run, AbstractOutcome
    <2>. QED
      BY <2>1, <2>2, <2>3, <2>4, <2>5, <2>6, <2>7, <2>8 DEF Next, Main, Finished
  <1>. QED
    BY <1>1, <1>2, TypeCorrect, Inductive, StepsAreAccounted, PTL
    DEF Spec, DagSpec, Dag!Spec
=============================================================================
