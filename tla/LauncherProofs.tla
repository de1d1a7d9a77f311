---------------------------- MODULE LauncherProofs ----------------------------
(***************************************************************************)
(* Proofs about Launcher, for any number of launches in the workdir.  The  *)
(* inductive invariant ties what the monitor thread is doing, and what it  *)
(* has written into the dict it shares with the main thread, to the last   *)
(* two samples its guard has seen.                                         *)
(***************************************************************************)
EXTENDS Launcher, TLAPS

\* The guard's samples justify a kill.
Cause == \/ samples[2] = "emergency"
         \/ samples[1] = "hard" /\ samples[2] = "hard"

\* A polling guard has counted at most one hard sample, the last one.
CountIsLastSample ==
    monitor = "poll" => /\ count < HardSustained
                        /\ count # 0 => samples[2] = "hard"
\* The dict is written once, by the monitor's last statement.
ActionAtExit == monitor # "exited" => action = "none"
KillHasACause ==
    /\ monitor \in {"kill", "sigterm"} => budgeted /\ Cause
    /\ action \in Kills => budgeted /\ Cause
MonitorIsBudgeted == monitor # "off" => budgeted
VerdictFromAction == verdict = "ABORTED_GUARDRAIL" => action \in Kills
\* From proc.wait() on there is no live child.
ReapedIsDead == Reaped => ~Alive

IInv ==
    /\ CountIsLastSample
    /\ ActionAtExit
    /\ KillHasACause
    /\ MonitorIsBudgeted
    /\ VerdictFromAction
    /\ ReapedIsDead

\* The guard's count, one sample at a time: what observe() returns and keeps.
LEMMA ObserveType ==
    ASSUME NEW c \in 0..HardSustained, NEW l \in Levels,
           c < HardSustained
    PROVE  /\ ObserveCount(c, l) \in 0..HardSustained
           /\ ObserveAction(c, l) \in Action
           /\ ObserveAction(c, l) \notin Kills => ObserveCount(c, l) < HardSustained
           /\ ObserveAction(c, l) \in Kills => l = "emergency" \/ (l = "hard" /\ c # 0)
           /\ ObserveAction(c, l) \notin Kills /\ l # "hard" => ObserveCount(c, l) = 0
  BY DEF ObserveCount, ObserveAction, Levels, HardSustained, Action, Kills, Warns

\* What the three actors do keeps the types.
LEMMA TypeStep == TypeOK /\ IInv /\ [Next]_vars => TypeOK'
  <1> SUFFICES ASSUME TypeOK, IInv, [Next]_vars PROVE TypeOK'
    OBVIOUS
  <1> USE DEF TypeOK
  <1>1. CASE Launch
    BY <1>1, LauncherAssumption DEF Launch, Levels, HardSustained
  <1>2. CASE Reap
    BY <1>2 DEF Reap, mon
  <1>3. ASSUME NEW late \in BOOLEAN, JoinEnds(late) PROVE TypeOK'
    BY <1>3 DEF JoinEnds, mon
  <1>4. CASE ReadResult
    BY <1>4 DEF ReadResult, mon
  <1>5. CASE Worker
    <2>1. CASE Grow
      BY <2>1 DEF Grow, main, mon
    <2>2. CASE OpenResult
      BY <2>2 DEF OpenResult, main, mon, Partial
    <2>3. CASE WriteResult
      BY <2>3 DEF WriteResult, main, mon
    <2>4. CASE WorkerDies
      BY <2>4 DEF WorkerDies, main, mon
    <2>. QED
      BY <1>5, <2>1, <2>2, <2>3, <2>4 DEF Worker
  <1>6. CASE MonitorSeesExit
    BY <1>6 DEF MonitorSeesExit, main, Action
  <1>7. CASE Sample
    <2> DEFINE level == IF Alive THEN rss ELSE "ok"
    <2>1. level \in Levels
      BY DEF Levels
    <2>2. count < HardSustained
      BY <1>7 DEF Sample, IInv, CountIsLastSample
    <2>3. ObserveCount(count, level) \in 0..HardSustained
      BY <2>1, <2>2, ObserveType
    <2>. QED
      BY <1>7, <2>1, <2>3 DEF Sample, main
  <1>8. CASE SendSignal
    BY <1>8 DEF SendSignal, main, Decided, Action
  <1>9. CASE AfterSigterm
    BY <1>9 DEF AfterSigterm, main, Action
  <1>10. CASE UNCHANGED vars
    BY <1>10 DEF vars
  <1>. QED
    BY <1>1, <1>2, <1>3, <1>4, <1>5, <1>6, <1>7, <1>8, <1>9, <1>10
    DEF Next, Main, Join, JoinTimeout, Monitor, Quiet

\* A sample moves the guard to a kill only for the last two samples.
LEMMA SampleStep == TypeOK /\ IInv /\ Sample => IInv'
  <1> SUFFICES ASSUME TypeOK, IInv, Sample PROVE IInv'
    OBVIOUS
  <1> DEFINE level == IF Alive THEN rss ELSE "ok"
  <1>1. /\ level \in Levels
        /\ count \in 0..HardSustained
        /\ samples \in (Levels \cup {"none"}) \X Levels
    BY DEF TypeOK, Levels
  <1>2. /\ monitor = "poll"
        /\ samples' = <<samples[2], level>>
        /\ count' = ObserveCount(count, level)
        /\ monitor' = IF ObserveAction(count, level) \in Kills THEN "kill" ELSE "poll"
        /\ UNCHANGED <<budgeted, launch, pc, verdict, worker, rss, action, file>>
    BY DEF Sample, main
  <1>3. /\ count < HardSustained
        /\ count # 0 => samples[2] = "hard"
        /\ budgeted /\ action = "none"
        /\ action \notin Kills /\ verdict # "ABORTED_GUARDRAIL"
    BY <1>2 DEF IInv, CountIsLastSample, ActionAtExit,
                MonitorIsBudgeted, VerdictFromAction, Kills
  <1> HIDE DEF level
  <1>4. /\ samples'[1] = samples[2]
        /\ samples'[2] = level
    BY <1>2
  <1>5. CountIsLastSample'
    BY <1>1, <1>2, <1>3, <1>4, ObserveType DEF CountIsLastSample
  <1>6. (ActionAtExit /\ MonitorIsBudgeted /\ VerdictFromAction)'
    BY <1>2, <1>3 DEF ActionAtExit, MonitorIsBudgeted, VerdictFromAction
  <1>7. KillHasACause'
    BY <1>1, <1>2, <1>3, <1>4, ObserveType DEF KillHasACause, Cause
  <1>8. ReapedIsDead'
    BY <1>2 DEF IInv, ReapedIsDead, Reaped, Alive
  <1>. QED
    BY <1>5, <1>6, <1>7, <1>8 DEF IInv

\* What the main thread does keeps the invariant.
LEMMA MainStep == TypeOK /\ IInv /\ Main => IInv'
  <1> SUFFICES ASSUME TypeOK, IInv, Main PROVE IInv'
    OBVIOUS
  <1> USE DEF IInv, CountIsLastSample, ActionAtExit,
              KillHasACause, MonitorIsBudgeted, VerdictFromAction, ReapedIsDead,
              Reaped, Alive, Cause
  <1>1. CASE Launch
    BY <1>1 DEF Launch, Kills, HardSustained
  <1>2. CASE Reap
    BY <1>2 DEF Reap, mon
  <1>3. ASSUME NEW late \in BOOLEAN, JoinEnds(late) PROVE IInv'
    BY <1>3 DEF JoinEnds, mon
  <1>4. CASE ReadResult
    <2>1. verdict' # "ABORTED_GUARDRAIL"
      BY <1>4 DEF ReadResult, TypeOK
    <2>. QED
      BY <1>4, <2>1 DEF ReadResult, mon
  <1>. QED
    BY <1>1, <1>2, <1>3, <1>4 DEF Main, Join, JoinTimeout

\* So does the worker, which the monitor and the main thread only watch.
LEMMA WorkerStep == IInv /\ Worker => IInv'
  <1> SUFFICES ASSUME IInv, Worker PROVE IInv'
    OBVIOUS
  <1>1. /\ UNCHANGED <<budgeted, pc, verdict, monitor, count, action, samples>>
        /\ Alive
    BY DEF Worker, Grow, OpenResult, WriteResult, WorkerDies, main, mon, Alive
  <1>. QED
    BY <1>1 DEF IInv, CountIsLastSample, ActionAtExit,
                KillHasACause, MonitorIsBudgeted, VerdictFromAction, ReapedIsDead,
                Reaped, Cause

\* The inductive invariant of the launcher, with the types.
THEOREM Inductive == Spec => [](TypeOK /\ IInv)
  <1>1. Init => TypeOK /\ IInv
    BY LauncherAssumption
    DEF Init, TypeOK, IInv, CountIsLastSample, ActionAtExit,
        KillHasACause, MonitorIsBudgeted, VerdictFromAction, ReapedIsDead, Reaped,
        Alive, Cause, Levels, HardSustained, Action, Kills, Absent
  <1>2. TypeOK /\ IInv /\ [Next]_vars => (TypeOK /\ IInv)'
    <2> SUFFICES ASSUME TypeOK, IInv, [Next]_vars PROVE IInv'
      BY TypeStep
    <2> USE DEF IInv, CountIsLastSample, ActionAtExit,
                KillHasACause, MonitorIsBudgeted, VerdictFromAction, ReapedIsDead,
                Reaped, Alive, Cause
    <2>1. CASE MonitorSeesExit
      BY <2>1 DEF MonitorSeesExit, main, Kills
    <2>2. CASE SendSignal
      BY <2>2 DEF SendSignal, main, Kills
    <2>3. CASE AfterSigterm
      BY <2>3 DEF AfterSigterm, main, Kills
    <2>4. CASE UNCHANGED vars
      BY <2>4 DEF vars
    <2>. QED
      BY <2>1, <2>2, <2>3, <2>4, MainStep, WorkerStep, SampleStep
      DEF Next, Monitor, Quiet
  <1>. QED
    BY <1>1, <1>2, PTL DEF Spec

\* Every variable of the launcher, the worker and the monitor keeps its type
\* (LocalProcessLauncher.run, worker.main, monitor_process).
THEOREM TypeCorrect == Spec => []TypeOK
  BY Inductive, PTL

\* A step reported as aborted was seen by the guard of this launch above the
\* emergency threshold, or twice in a row above the hard one.
THEOREM AbortsHaveACause == Spec => []AbortHasACause
  <1>1. IInv => AbortHasACause
    BY DEF IInv, VerdictFromAction, KillHasACause, Cause, AbortHasACause
  <1>. QED
    BY <1>1, Inductive, PTL

\* Once proc.wait() has returned, no step of the three actors, and no late
\* signal of the monitor, changes result.json or revives the worker.
THEOREM VerdictIsSettled == Spec => SettledAfterVerdict
  <1>1. TypeOK /\ IInv /\ [Next]_vars
          => [launch' = launch /\ Reaped /\ pc # "idle" =>
                 file' = file /\ worker' \notin {"running", "writing"}]_vars
    <2> SUFFICES ASSUME TypeOK, IInv, [Next]_vars, launch' = launch, Reaped
                 PROVE  file' = file /\ worker' \notin {"running", "writing"}
      OBVIOUS
    <2>1. ~Alive
      BY DEF IInv, ReapedIsDead
    <2>2. ~Launch
      BY DEF Launch, TypeOK
    <2>3. ~Worker
      BY <2>1 DEF Worker, Grow, OpenResult, WriteResult, WorkerDies, Alive
    <2>4. CASE Main
      BY <2>1, <2>2, <2>4 DEF Main, Reap, Join, JoinTimeout, JoinEnds, ReadResult, Alive
    <2>5. CASE Monitor
      BY <2>1, <2>5 DEF Monitor, MonitorSeesExit, Sample, SendSignal, AfterSigterm, Alive
    <2>6. CASE UNCHANGED vars
      BY <2>1, <2>6 DEF vars, Alive
    <2>. QED
      BY <2>3, <2>4, <2>5, <2>6 DEF Next, Quiet
  <1>. QED
    BY <1>1, Inductive, PTL DEF Spec, SettledAfterVerdict
=============================================================================
