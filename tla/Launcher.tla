-------------------------------- MODULE Launcher --------------------------------
(***************************************************************************)
(* engine/launcher.py LocalProcessLauncher.run, engine/worker.py main and  *)
(* guard.py monitor_process: one step run in a subprocess, with a daemon   *)
(* thread that samples its memory and may kill it.  Three actors -- the    *)
(* main thread, the monitor thread and the worker process -- share the     *)
(* step's workdir, where result.json outlives a run: the directory is the  *)
(* same whenever the same config is run again.                             *)
(***************************************************************************)
EXTENDS OOMGuard

CONSTANT MaxRuns   \* bound: launches of the step in this workdir
ASSUME LauncherAssumption == MaxRuns \in Nat

VARIABLES
    budgeted,   \* does the launcher have a ResourceBudget?  fixed
    launch,     \* number of the current launch
    pc,         \* main thread: "idle", "wait", "join", "read", "done"
    verdict,    \* what run() gave back: a status, or "raised"
    worker,     \* the subprocess
    rss,        \* level of the process tree's memory
    monitor,    \* monitor thread: "off", "poll", "kill", "sigterm", "exited"
    count,      \* its guard's count of hard samples
    action,     \* result["action"], "none" while it is unset
    samples,    \* the last two levels the guard has seen in this launch
    file        \* result.json: who wrote it and what it says

main  == <<launch, pc, verdict>>
mon   == <<monitor, count, action, samples>>
vars  == <<budgeted, launch, pc, verdict, worker, rss, monitor, count, action,
           samples, file>>

Levels == {"ok", "warn", "hard", "emergency"}

\* result.json has been created or truncated, and holds no JSON document yet.
Absent  == [by |-> 0, says |-> "absent"]
Partial == [by |-> launch, says |-> "partial"]

Alive  == worker \in {"running", "writing"}
Reaped == pc # "wait"      \* until then a dead child is a zombie

TypeOK ==
    /\ budgeted \in BOOLEAN
    /\ launch \in 0..MaxRuns
    /\ pc \in {"idle", "wait", "join", "read", "done"}
    /\ verdict \in {"none", "COMPLETED", "FAILED", "ABORTED_GUARDRAIL", "raised"}
    /\ worker \in {"none", "running", "writing", "exited", "killed"}
    /\ rss \in Levels
    /\ monitor \in {"off", "poll", "kill", "sigterm", "exited"}
    /\ count \in 0..HardSustained
    /\ action \in Action \cup {"none"}
    /\ samples \in (Levels \cup {"none"}) \X Levels
    /\ file \in [by : 0..MaxRuns,
                 says : {"absent", "partial", "COMPLETED", "FAILED"}]

Init ==
    /\ budgeted \in BOOLEAN
    /\ launch = 0
    /\ pc = "idle"
    /\ verdict = "none"
    /\ worker = "none"
    /\ rss = "ok"
    /\ monitor = "off"
    /\ count = 0
    /\ action = "none"
    /\ samples = <<"none", "ok">>
    /\ file = Absent

-----------------------------------------------------------------------------
(* The main thread.  The scheduler launches the step once per run of the   *)
(* config; a monitor left behind by an earlier launch only looks at its    *)
(* own dead child and its own dict.                                        *)

Launch ==
    /\ pc \in {"idle", "done"}
    /\ launch < MaxRuns
    /\ launch' = launch + 1
    /\ pc' = "wait"
    /\ verdict' = "none"
    /\ worker' = "running"
    /\ rss' = "ok"
    /\ monitor' = IF budgeted THEN "poll" ELSE "off"
    /\ count' = 0
    /\ action' = "none"
    /\ samples' = <<"none", "ok">>
    /\ UNCHANGED <<budgeted, file>>

\* Mutants: the main thread does not wait for the child; it waits for the
\* monitor, which takes an unreaped child for a running one.
ReapAnyTime ==
    /\ pc = "wait"
    /\ pc' = IF budgeted THEN "join" ELSE "read"
    /\ UNCHANGED <<budgeted, launch, verdict, worker, rss, mon, file>>

ReapAfterMonitor ==
    /\ pc = "wait"
    /\ ~Alive
    /\ monitor \in {"off", "exited"}
    /\ pc' = IF budgeted THEN "join" ELSE "read"
    /\ UNCHANGED <<budgeted, launch, verdict, worker, rss, mon, file>>

\* proc.wait() returns: the child is reaped.
Reap ==
    /\ pc = "wait"
    /\ ~Alive
    /\ pc' = IF budgeted THEN "join" ELSE "read"
    /\ UNCHANGED <<budgeted, launch, verdict, worker, rss, mon, file>>

\* th.join(timeout=5) returns because the monitor is done, or because it is
\* still in the five seconds it sleeps after SIGTERM; a monitor that polls
\* notices the end of the child well before the timeout.
JoinEnds(late) ==
    /\ pc = "join"
    /\ monitor = (IF late THEN "sigterm" ELSE "exited")
    /\ IF action \in Kills
         THEN pc' = "done" /\ verdict' = "ABORTED_GUARDRAIL"
         ELSE pc' = "read" /\ verdict' = verdict
    /\ UNCHANGED <<budgeted, launch, worker, rss, mon, file>>

Join        == JoinEnds(FALSE)
JoinTimeout == JoinEnds(TRUE)

\* result.json is read whoever wrote it; the exit status of the child is not.
ReadResult ==
    /\ pc = "read"
    /\ pc' = "done"
    /\ verdict' = CASE file.says = "absent" -> "FAILED"
                    [] file.says = "partial" -> "raised"
                    [] OTHER -> file.says
    /\ UNCHANGED <<budgeted, launch, worker, rss, mon, file>>

-----------------------------------------------------------------------------
(* The worker process                                                      *)

Grow ==
    /\ Alive
    /\ \E l \in Levels \ {rss} : rss' = l
    /\ UNCHANGED <<budgeted, main, worker, mon, file>>

\* The step function has returned or raised: open(result_path, "w").
OpenResult ==
    /\ worker = "running"
    /\ worker' = "writing"
    /\ file' = Partial
    /\ UNCHANGED <<budgeted, main, rss, mon>>

WriteResult ==
    /\ worker = "writing"
    /\ worker' = "exited"
    /\ \E s \in {"COMPLETED", "FAILED"} : file' = [by |-> launch, says |-> s]
    /\ UNCHANGED <<budgeted, main, rss, mon>>

\* The process ends without a result: sys.exit in the step, a signal from
\* outside, a crash, or (when writing) a result json.dumps cannot serialise.
WorkerDies ==
    /\ Alive
    /\ worker' = "exited"
    /\ UNCHANGED <<budgeted, main, rss, mon, file>>

-----------------------------------------------------------------------------
(* The monitor thread                                                      *)

\* is_running() is false for a reaped child only.
MonitorSeesExit ==
    /\ monitor = "poll"
    /\ ~Alive /\ Reaped
    /\ monitor' = "exited"
    /\ action' = "OK"
    /\ UNCHANGED <<budgeted, main, worker, rss, count, samples, file>>

\* One iteration of the loop; a zombie still runs, and uses no memory.
Sample ==
    /\ monitor = "poll"
    /\ Alive \/ ~Reaped
    /\ LET level == IF Alive THEN rss ELSE "ok" IN
          /\ samples' = <<samples[2], level>>
          /\ count' = ObserveCount(count, level)
          /\ monitor' = IF ObserveAction(count, level) \in Kills THEN "kill" ELSE "poll"
    /\ UNCHANGED <<budgeted, main, worker, rss, action, file>>

\* What the guard answered to its last sample, a terminal one.
Decided == IF samples[2] = "emergency" THEN "EMERGENCY_KILL" ELSE "HARD_KILL"

\* os.kill(pid, sig).  The child may have ended since the sample: a zombie
\* takes the signal, a reaped one raises ProcessLookupError.  A SIGTERM that
\* was sent is followed by a sleep of five seconds; the step may handle it.
SendSignal ==
    /\ monitor = "kill"
    /\ \/ /\ Decided = "EMERGENCY_KILL" \/ (~Alive /\ Reaped)
          /\ worker' = IF Alive THEN "killed" ELSE worker
          /\ monitor' = "exited"
          /\ action' = Decided
       \/ /\ Decided = "HARD_KILL" /\ (Alive \/ ~Reaped)
          /\ worker' \in {worker, IF Alive THEN "killed" ELSE worker}
          /\ monitor' = "sigterm"
          /\ UNCHANGED action
    /\ UNCHANGED <<budgeted, main, rss, count, samples, file>>

\* Mutant: no SIGKILL after the SIGTERM.
AfterSigtermGivesUp ==
    /\ monitor = "sigterm"
    /\ monitor' = "exited"
    /\ action' = "HARD_KILL"
    /\ UNCHANGED <<budgeted, main, worker, rss, count, samples, file>>

\* The end of the sleep: SIGKILL if the child is still running, then return.
AfterSigterm ==
    /\ monitor = "sigterm"
    /\ worker' = IF Alive THEN "killed" ELSE worker
    /\ monitor' = "exited"
    /\ action' = "HARD_KILL"
    /\ UNCHANGED <<budgeted, main, rss, count, samples, file>>

Monitor == MonitorSeesExit \/ Sample \/ SendSignal \/ AfterSigterm
Main    == Launch \/ Reap \/ Join \/ JoinTimeout \/ ReadResult
Worker  == Grow \/ OpenResult \/ WriteResult \/ WorkerDies

Quiet == pc = "done" /\ launch = MaxRuns /\ UNCHANGED vars

Next == Main \/ Worker \/ Monitor \/ Quiet

\* The two threads of the launcher run; nothing is assumed of the worker.
Fairness == WF_vars(Main) /\ WF_vars(Monitor)

Spec == Init /\ [][Next]_vars
FairSpec == Spec /\ Fairness

-----------------------------------------------------------------------------
\* A step is reported as aborted only when the guard of this launch has seen
\* the memory above the emergency threshold, or above the hard threshold in
\* two consecutive samples -- never for a sample of an earlier launch.
AbortHasACause ==
    verdict = "ABORTED_GUARDRAIL" =>
        /\ budgeted
        /\ \/ samples[2] = "emergency"
           \/ samples[1] = "hard" /\ samples[2] = "hard"

\* Once run() has given its verdict the worker is dead and result.json does not
\* change until the next launch: the file read is the file the caller finds.
SettledAfterVerdict ==
    [][launch' = launch /\ Reaped /\ pc # "idle" =>
          file' = file /\ worker' \notin {"running", "writing"}]_vars

\* run() does not hang on a child that has ended, although an unreaped child
\* looks alive to the monitor and run() waits for the monitor.
VerdictFollowsExit == (pc = "wait" /\ ~Alive) ~> (pc = "done")

\* With a budget, a step that stays above the hard threshold is stopped, even
\* one that never ends by itself.
BreachIsStopped ==
    budgeted =>
        (<>[](Alive => rss \in {"hard", "emergency"}) => []<>(~Alive))

-----------------------------------------------------------------------------
(* A statement of the repository that the code does not keep               *)

\* launcher.py:91-92, "worker produced no result" is a FAILED step: a launch
\* whose worker wrote nothing never reports COMPLETED.
NoResultIsFailed ==
    pc = "done" /\ verdict = "COMPLETED" => file.by = launch
=============================================================================
