------------------------------ MODULE Lifecycle ------------------------------
(***************************************************************************)
(* run_lifecycle (benchmark_engine/lifecycle.py): what one call does from  *)
(* its gates to its persisted record, and what a sequence of calls over    *)
(* one workdir does to the prep cache and to the records, with changes of  *)
(* the environment between calls and the death of the harness at any step. *)
(*                                                                         *)
(* A configuration is its identity: two that differ only in repro_nonce    *)
(* have the same build key and different run ids.  What the domain does in *)
(* a hook is free: pass, fail, raise, use a declared parameter at its      *)
(* declared or another value (and report it to the recorder), or write     *)
(* into cfg.params directly.  The hooks that run before the freeze are     *)
(* taken not to change the config.                                         *)
(***************************************************************************)
EXTENDS Naturals

CONSTANTS
  Configs,     \* the configurations submitted, by run id
  BuildKey,    \* BuildKey[c]: the key prep is cached under
  Envs,        \* environments env_fingerprint() tells apart
  Params,      \* the parameters a configuration declares
  Metrics,     \* measured values, different if not within tolerance
  Options,     \* how run_lifecycle is called; see IsOption
  MaxCalls,    \* bound: calls over the workdir
  Crashes,     \* whether the harness may die
  None,        \* no prior, no cache entry, no file, no metric
  Partial      \* what a write cut short leaves in a file

IsOption(o) ==
  /\ DOMAIN o = {"cacheable", "subprocess", "budget"}
  /\ \A f \in DOMAIN o : o[f] \in BOOLEAN

Keys == {BuildKey[c] : c \in Configs}
Statuses == {"COMPLETED", "FAILED", "ABORTED_PREFLIGHT", "ABORTED_GUARDRAIL"}
Tags == {"RELIABLE", "QUALIFIED", "EXPLORATORY", "UNRELIABLE"}
Citable == {"RELIABLE", "QUALIFIED"}

(* functional_validation["passed"]: the object False; None or absent; or   *)
(* anything else, be it True or a value that says no without being False   *)
(* (0 read from a file, a numpy.bool_).                                    *)
Validations == {"passed", "failed", "skipped"}

(* What is true of a measurement whether the code knows or not: how a      *)
(* value it rests on differed from the declared one (in measure; in prep,  *)
(* measure not having used the parameter since at its declared value; or   *)
(* hidden behind such a use), whether its artifact was made in another     *)
(* environment, whether it had that artifact in memory or read it in this  *)
(* process, and whether the call that reports it has made it.              *)
Facts == [deviated : {"no", "hidden", "prep", "measure"}, foreign : BOOLEAN,
          valid : Validations, path : {"live", "loaded", "subprocess"}, fresh : BOOLEAN]
(* What a measurement hands back; `by' is the call that made it.  In a     *)
(* subprocess this is what result.json holds.  Its peak is free: whether   *)
(* that is above the ceiling depends on the ceiling of the call.           *)
Reports == [metric : Metrics, phases : BOOLEAN, differs : BOOLEAN, facts : Facts,
            by : 1 .. MaxCalls]
(* A RunResult: status, tag and metrics, with the facts of its measurement. *)
Results == [status : Statuses, tag : Tags, metric : Metrics \cup {None},
            facts : Facts \cup {None}]
(* Of a value recorded more than once in a hook the last one is known.     *)
Artifacts == [env : Envs, clamped : SUBSET Params]

ASSUME ConfigAssumption ==
  /\ BuildKey \in [Configs -> {BuildKey[c] : c \in Configs}]
  /\ \A o \in Options : IsOption(o)
  /\ MaxCalls \in Nat
  /\ Crashes \in BOOLEAN
  /\ None \notin Metrics /\ None # Partial
  /\ {None, Partial} \cap Reports = {}

VARIABLES
  pc,        \* where the call is
  call,      \* its configuration, options and prior
  env,       \* the environment the harness runs in
  store,     \* store[k]: the cache entry of build key k
  artifact,  \* the prep artifact of this call, and whether it is in memory
  captured,  \* parameters whose value in the recorder is not the declared one
  mutated,   \* cfg.params was written to after the freeze
  result,    \* the RunResult being persisted
  records,   \* records[c]: the files of run_dir
  last,      \* last[c]: the result of the last call for c that returned
  torn,      \* configurations whose last persist was cut short
  left,      \* left[c]: what result.json of c's measure step tells its reader
  measured,  \* measured[m]: measurements that gave m
  calls

vars == <<pc, call, env, store, artifact, captured, mutated, result, records,
          last, torn, left, measured, calls>>
persisted == <<records, last, torn>>

Files == [config : {None, Partial, "declared", "mutated"},
          results : Results \cup {None, Partial},
          report : Results \cup {None, Partial}]

TypeOK ==
  /\ pc \in {"idle", "gates", "prep", "measure", "answer", "config", "results", "report"}
  /\ pc # "idle" => /\ call.cfg \in Configs /\ call.opt \in Options
                    /\ call.prior \in Results \cup {None}
  /\ env \in Envs
  /\ store \in [Keys -> Artifacts \cup {None}]
  /\ pc = "measure" => artifact.made \in Artifacts /\ artifact.live \in BOOLEAN
  /\ captured \subseteq Params /\ mutated \in BOOLEAN
  /\ pc \in {"config", "results", "report"} => result \in Results
  /\ records \in [Configs -> Files]
  /\ last \in [Configs -> Results \cup {None}]
  /\ torn \subseteq Configs
  /\ left \in [Configs -> Reports \cup {None, Partial}]
  /\ measured \in [Metrics -> 0 .. MaxCalls]
  /\ calls \in 0 .. MaxCalls

Init ==
  /\ pc = "idle" /\ call = None /\ result = None /\ artifact = None
  /\ env \in Envs
  /\ store = [k \in Keys |-> None]
  /\ captured = {} /\ mutated = FALSE
  /\ records = [c \in Configs |-> [config |-> None, results |-> None, report |-> None]]
  /\ last = [c \in Configs |-> None]
  /\ torn = {}
  /\ left = [c \in Configs |-> None]
  /\ measured = [m \in Metrics |-> 0]
  /\ calls = 0

------------------------------------------------------------------------------
Key == BuildKey[call.cfg]
Subprocess == call.opt.subprocess /\ call.opt.cacheable
Hit == call.opt.cacheable /\ store[Key] # None

(* A result on its way to the disk.                                        *)
Finish(r) == result' = r /\ pc' = "config"

Aborted(status) ==
  Finish([status |-> status,
          tag |-> IF status = "ABORTED_GUARDRAIL" THEN "UNRELIABLE" ELSE "EXPLORATORY",
          metric |-> None, facts |-> None])

(* The call is over, and its locals with it.                               *)
Leave ==
  /\ pc' = "idle" /\ call' = None /\ artifact' = None /\ result' = None
  /\ captured' = {} /\ mutated' = FALSE

Submit(c, o, prior) ==
  /\ pc = "idle" /\ calls < MaxCalls
  /\ calls' = calls + 1
  /\ call' = [cfg |-> c, opt |-> o, prior |-> prior]
  /\ pc' = "gates"
  /\ UNCHANGED <<env, store, artifact, captured, mutated, result, persisted, left, measured>>

(* The budget, the manifest, the eval suite, the domain's own validation   *)
(* or phase A may refuse: what they read of their arguments is not         *)
(* modelled.  Phases B and C meet the live system, which is left out:      *)
(* verification may find a mismatch and either hook may raise.             *)
Refuse ==
  /\ pc = "gates"
  /\ Aborted("ABORTED_PREFLIGHT")
  /\ UNCHANGED <<call, env, store, artifact, captured, mutated, persisted, left, measured, calls>>

Freeze ==
  /\ pc = "gates"
  /\ pc' = "prep"
  /\ UNCHANGED <<call, env, store, artifact, captured, mutated, result, persisted, left, measured, calls>>

HookRaises ==
  /\ pc = "gates"
  /\ Leave
  /\ UNCHANGED <<env, store, persisted, left, measured, calls>>

------------------------------------------------------------------------------
(* The prep step: reused from the cache, or run and stored.                *)
PrepHit ==
  /\ pc = "prep" /\ Hit
  /\ artifact' = [made |-> store[Key], live |-> FALSE]
  /\ pc' = "measure"
  /\ UNCHANGED <<call, env, store, captured, mutated, result, persisted, left, measured, calls>>

PrepBuildUnstamped(clamped) ==  \* mutant: the fingerprint is not saved
  /\ pc = "prep" /\ ~Hit
  /\ artifact' = [made |-> [env |-> env, clamped |-> clamped], live |-> ~Subprocess]
  /\ captured' = clamped
  /\ store' = IF call.opt.cacheable
                THEN [store EXCEPT ![Key] = [env |-> None, clamped |-> clamped]]
                ELSE store
  /\ pc' = "measure"
  /\ UNCHANGED <<call, env, mutated, result, persisted, left, measured, calls>>

PrepBuild(clamped) ==
  /\ pc = "prep" /\ ~Hit
  /\ artifact' = [made |-> [env |-> env, clamped |-> clamped], live |-> ~Subprocess]
  /\ captured' = clamped
  /\ store' = IF call.opt.cacheable
                THEN [store EXCEPT ![Key] = [env |-> env, clamped |-> clamped]]
                ELSE store
  /\ pc' = "measure"
  /\ UNCHANGED <<call, env, mutated, result, persisted, left, measured, calls>>

PrepFails ==
  /\ pc = "prep" /\ ~Hit
  /\ Aborted("FAILED")
  /\ UNCHANGED <<call, env, store, artifact, captured, mutated, persisted, left, measured, calls>>

StoreRaises ==
  /\ pc = "prep" /\ ~Hit /\ call.opt.cacheable
  /\ Leave
  /\ UNCHANGED <<env, store, persisted, left, measured, calls>>

ForeignArtifactNever == FALSE  \* mutant: the fingerprint is saved but not compared

(* The fingerprint is compared where the artifact is read back in this     *)
(* process; a mismatch is an exception in the step.                        *)
ForeignArtifact == ~Subprocess /\ ~artifact.live /\ artifact.made.env # env

(* Domain code in this process writes to cfg.params; set_param would raise *)
(* FrozenConfigError, which fails the step like any other exception.       *)
Mutate ==
  /\ \/ pc = "prep" /\ ~Hit
     \/ pc = "measure" /\ ~Subprocess /\ ~ForeignArtifact
  /\ mutated' = TRUE
  /\ UNCHANGED <<pc, call, env, store, artifact, captured, result, persisted, left, measured, calls>>

------------------------------------------------------------------------------
(* What domain.measure gives: the parameters it recorded at another value  *)
(* (clamped) and at their declared one (used), last values both.           *)
Outcomes == {o \in [metric : Metrics, valid : Validations, phases : BOOLEAN,
                    clamped : SUBSET Params, used : SUBSET Params] : o.clamped \cap o.used = {}}

(* effective() keeps the last value of a name.  The recorder that prep     *)
(* wrote to goes on to measure in this process; a worker has its own.      *)
DiffersInMeasure(o) == o.clamped # {}  \* mutant: only the measure step is recorded

Differs(o) == o.clamped # {} \/ (~Subprocess /\ captured \ o.used # {})

FactsOf(o) ==
  [deviated |-> IF o.clamped # {} THEN "measure"
                ELSE IF artifact.made.clamped \ o.used # {} THEN "prep"
                ELSE IF artifact.made.clamped # {} THEN "hidden" ELSE "no",
   foreign |-> artifact.made.env # env,
   valid |-> o.valid,
   path |-> IF Subprocess THEN "subprocess" ELSE IF artifact.live THEN "live" ELSE "loaded",
   fresh |-> TRUE]

ReportOf(o) == [metric |-> o.metric, phases |-> o.phases, differs |-> Differs(o),
                facts |-> FactsOf(o), by |-> calls]

Count(m) == measured' = [measured EXCEPT ![m] = @ + 1]

ReproducedAlone(prior, metric) ==  \* mutant: nothing to differ from is no difference
  prior = None \/ prior.metric = metric

Reproduced(prior, metric) == prior # None /\ prior.metric = metric

(* `passed is False` and `passed is None` are tests of identity.           *)
Classify(valid, phases, reproduced, differs) ==
  IF differs \/ valid = "failed" THEN "UNRELIABLE"
  ELSE IF valid = "skipped" THEN "EXPLORATORY"
  ELSE IF phases /\ reproduced THEN "RELIABLE"
  ELSE "QUALIFIED"

ResultOf(rep, status) ==
  [status |-> status,
   tag |-> IF status # "COMPLETED" THEN "UNRELIABLE"
           ELSE Classify(rep.facts.valid, rep.phases, Reproduced(call.prior, rep.metric),
                         rep.differs),
   metric |-> rep.metric,
   facts |-> [rep.facts EXCEPT !.fresh = rep.by = calls]]

(* A report becomes a result: its peak breaches the ceiling, or the tag is *)
(* decided.  A run that completes must still have the config that was      *)
(* frozen: if it has not, the exception leaves run_lifecycle with nothing  *)
(* written.                                                                *)
ConcludeUnchecked(rep) ==  \* mutant: no assert_unchanged
  /\ \/ Finish(ResultOf(rep, "COMPLETED"))
     \/ call.opt.budget /\ Finish(ResultOf(rep, "ABORTED_GUARDRAIL"))
  /\ UNCHANGED <<call, artifact, captured, mutated>>

Conclude(rep) ==
  \/ /\ \/ call.opt.budget /\ Finish(ResultOf(rep, "ABORTED_GUARDRAIL"))
        \/ ~mutated /\ Finish(ResultOf(rep, "COMPLETED"))
     /\ UNCHANGED <<call, artifact, captured, mutated>>
  \/ mutated /\ Leave

(* In this process.                                                        *)
MeasureFails ==
  /\ pc = "measure" /\ ~Subprocess
  /\ Aborted("FAILED")
  /\ UNCHANGED <<call, env, store, artifact, captured, mutated, persisted, left, measured, calls>>

Measure(o) ==
  /\ pc = "measure" /\ ~Subprocess /\ ~ForeignArtifact
  /\ Conclude(ReportOf(o))
  /\ Count(o.metric)
  /\ UNCHANGED <<env, store, persisted, left, calls>>

(* In a subprocess: the launcher may fail before the worker runs.  The     *)
(* worker replaces result.json by its report, by a failure (which tells    *)
(* the launcher no more than no file), by part of a document, or dies      *)
(* before it opens the file.  It is not removed before the launch, nor by  *)
(* any later one.                                                          *)
LauncherRaises ==
  /\ pc = "measure" /\ Subprocess
  /\ Leave
  /\ UNCHANGED <<env, store, persisted, left, measured, calls>>

WorkerReports(o) ==
  /\ pc = "measure" /\ Subprocess
  /\ left' = [left EXCEPT ![call.cfg] = ReportOf(o)]
  /\ Count(o.metric)
  /\ pc' = "answer"
  /\ UNCHANGED <<call, env, store, artifact, captured, mutated, result, persisted, calls>>

WorkerFails ==
  /\ pc = "measure" /\ Subprocess
  /\ \E x \in {None, Partial, left[call.cfg]} : left' = [left EXCEPT ![call.cfg] = x]
  /\ pc' = "answer"
  /\ UNCHANGED <<call, env, store, artifact, captured, mutated, result, persisted, measured, calls>>

(* The launcher reads what it finds, unless its guard has stopped the      *)
(* worker; a document that is not whole raises.                            *)
NoAnswer ==
  /\ pc = "answer"
  /\ call.opt.budget \/ left[call.cfg] = None
  /\ Aborted("FAILED")
  /\ UNCHANGED <<call, env, store, artifact, captured, mutated, persisted, left, measured, calls>>

AnswerTorn ==
  /\ pc = "answer" /\ left[call.cfg] = Partial
  /\ Leave
  /\ UNCHANGED <<env, store, persisted, left, measured, calls>>

Answer ==
  /\ pc = "answer" /\ left[call.cfg] \notin {None, Partial}
  /\ Conclude(left[call.cfg])
  /\ UNCHANGED <<env, store, persisted, left, measured, calls>>

------------------------------------------------------------------------------
(* _persist: three files, one after the other, each opened (and emptied)   *)
(* and then written.                                                       *)
Write(file, content) == records' = [records EXCEPT ![call.cfg][file] = content]

WriteConfig ==
  /\ pc = "config"
  /\ Write("config", IF mutated THEN "mutated" ELSE "declared")
  /\ pc' = "results"
  /\ UNCHANGED <<call, env, store, artifact, captured, mutated, result, last, torn, left, measured, calls>>

WriteResultsOnce ==  \* mutant: an existing results.yaml is kept
  /\ pc = "results"
  /\ IF records[call.cfg].results = None THEN Write("results", result) ELSE UNCHANGED records
  /\ pc' = "report"
  /\ UNCHANGED <<call, env, store, artifact, captured, mutated, result, last, torn, left, measured, calls>>

WriteResults ==
  /\ pc = "results"
  /\ Write("results", result)
  /\ pc' = "report"
  /\ UNCHANGED <<call, env, store, artifact, captured, mutated, result, last, torn, left, measured, calls>>

WriteReport ==
  /\ pc = "report"
  /\ Write("report", result)
  /\ last' = [last EXCEPT ![call.cfg] = result]
  /\ torn' = torn \ {call.cfg}
  /\ Leave
  /\ UNCHANGED <<env, store, left, measured, calls>>

Persisting == pc \in {"config", "results", "report"}

(* The harness dies; a file it had open is left partial.                   *)
Crash ==
  /\ Crashes /\ pc # "idle"
  /\ Leave
  /\ IF Persisting
       THEN /\ torn' = torn \cup {call.cfg}
            /\ \/ Write(pc, Partial)
               \/ UNCHANGED records
       ELSE UNCHANGED <<torn, records>>
  /\ UNCHANGED <<env, store, last, left, measured, calls>>

(* Between two calls the workdir meets another host, library or commit.    *)
NewEnvironment ==
  /\ pc = "idle"
  /\ env' \in Envs \ {env}
  /\ UNCHANGED <<pc, call, store, artifact, captured, mutated, result, persisted, left, measured, calls>>

Next ==
  \/ \E c \in Configs, o \in Options, prior \in {last[d] : d \in Configs} \cup {None} :
       Submit(c, o, prior)
  \/ Refuse \/ Freeze \/ HookRaises
  \/ PrepHit \/ (\E clamped \in SUBSET Params : PrepBuild(clamped)) \/ PrepFails \/ StoreRaises
  \/ Mutate
  \/ MeasureFails \/ (\E o \in Outcomes : Measure(o))
  \/ LauncherRaises \/ (\E o \in Outcomes : WorkerReports(o)) \/ WorkerFails
  \/ NoAnswer \/ AnswerTorn \/ Answer
  \/ WriteConfig \/ WriteResults \/ WriteReport
  \/ Crash \/ NewEnvironment

Spec == Init /\ [][Next]_vars

------------------------------------------------------------------------------
(***************************************************************************)
(* What the records may say.                                               *)
(***************************************************************************)
Returned == {last[c] : c \in Configs} \ {None}

(* The persist of c is neither under way nor was cut short.                *)
Settled(c) == c \notin torn /\ ~(Persisting /\ call.cfg = c)

(* A result that may be cited completed.  No failed or skipped validation  *)
(* is behind it, and no value that measure itself recorded away from the   *)
(* declared one, in this process or in a worker, in this call or in the    *)
(* one whose result.json was found; nor, with the artifact still in        *)
(* memory, one that prep recorded so and measure has not recorded anew     *)
(* (lifecycle 211-255, effective 16-22, reliability 84-119).               *)
CitedIsSound ==
  \A r \in Returned : r.tag \in Citable =>
    /\ r.status = "COMPLETED"
    /\ r.facts.valid \notin {"failed", "skipped"}
    /\ r.facts.deviated # "measure"
    /\ r.facts.path = "live" => r.facts.deviated # "prep"

(* RELIABLE is never the outcome of one measurement, if the call that      *)
(* gives the tag has measured: two of them agreed, although prep may have  *)
(* been reused, a run may have been given itself or an aborted run as its  *)
(* prior, and a crash may have eaten the record (lifecycle 235-249,        *)
(* reliability 46-69).  A call that found an old result.json may give the  *)
(* tag for one measurement: the prior's.                                   *)
ReliableIsMeasuredTwice ==
  \A r \in Returned : r.tag = "RELIABLE" /\ r.facts.fresh => measured[r.metric] >= 2

(* A run that completed in this process did not measure an artifact made   *)
(* in another environment, whenever and by whichever run the artifact was  *)
(* cached (lifecycle 157-165, fingerprint 83-90).                          *)
InProcessIsComparable ==
  \A r \in Returned :
    r.status = "COMPLETED" /\ r.facts.path # "subprocess" => ~r.facts.foreign

(* Unless a crash cut the last persist short, the files of a run directory *)
(* are those of the last call that returned a result for it, whatever was  *)
(* refused, raised or killed since (lifecycle 44-54).                      *)
RecordIsTheLastResult ==
  \A c \in Configs : Settled(c) =>
    records[c].results = last[c] /\ records[c].report = last[c]

(* A completed result is persisted beside the configuration that its run   *)
(* id names, not beside one that was changed after the freeze              *)
(* (lifecycle 122 and 256).                                                *)
CompletedKeepsItsConfig ==
  \A c \in Configs : Settled(c) /\ last[c] # None /\ last[c].status = "COMPLETED" =>
    records[c].config = "declared"

(***************************************************************************)
(* What the documentation says, and the code does not keep.                *)
(***************************************************************************)
(* reliability.py:110-112, "a run whose effective params deviated from     *)
(* declared can NEVER be RELIABLE/QUALIFIED".  The effective value of a    *)
(* parameter is taken to be the last one its hooks recorded.               *)
DeviationIsNeverCitable ==
  \A r \in Returned :
    r.status = "COMPLETED" /\ r.facts.deviated \in {"prep", "measure"} => r.tag \notin Citable
==============================================================================
