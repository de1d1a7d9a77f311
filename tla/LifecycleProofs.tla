--------------------------- MODULE LifecycleProofs ---------------------------
(***************************************************************************)
(* Proofs about Lifecycle, for any configurations, environments, metrics   *)
(* and options, any number of calls, with and without crashes.  What a     *)
(* returned result promises is decided where the tag is given and holds    *)
(* because of what prep, the cache and earlier calls left there: the       *)
(* inductive invariant carries it from prep to the record.                 *)
(***************************************************************************)
EXTENDS Lifecycle, TLAPS

\* The call has measured nothing yet.
Unmeasured == pc \in {"gates", "prep", "measure"}
\* The results there are: returned ones, and the one on its way to the disk.
Known(r) == r \in Returned \/ (Persisting /\ r = result)

\* A call measures at most once.
MeasuredOncePerCall ==
  \A m \in Metrics : /\ measured[m] <= calls
                     /\ Unmeasured => measured[m] < calls
\* A metric in a result, or in the prior of the call, has been measured.
MetricsAreMeasured ==
  \A r \in Results \ {None} :
    (Known(r) \/ (pc # "idle" /\ call.prior = r)) /\ r.metric # None =>
      measured[r.metric] >= 1
\* An artifact in memory was made here, by this call, which recorded how.
LiveIsKnown ==
  pc = "measure" /\ artifact.live =>
    artifact.made.env = env /\ captured = artifact.made.clamped
\* A report says what its own worker's recorder saw, and comes from a worker.
Told(rep) == /\ rep.facts.path = "subprocess"
             /\ rep.facts.deviated = "measure" => rep.differs
\* The result.json files come from workers of this call or of earlier ones.
LeftIsTold ==
  \A c \in Configs : left[c] \in Reports =>
    /\ Told(left[c])
    /\ measured[left[c].metric] >= 1
    /\ left[c].by <= calls /\ (Unmeasured => left[c].by < calls)
\* The worker of this call measured after the call was given its prior.
FreshIsAnother ==
  pc = "answer" /\ left[call.cfg] \in Reports /\ left[call.cfg].by = calls
    /\ Reproduced(call.prior, left[call.cfg].metric) =>
      measured[left[call.cfg].metric] >= 2
\* What the three properties of returned results say of one result.
Sound(r) ==
  r.tag \in Citable =>
    /\ r.status = "COMPLETED"
    /\ r.facts.valid \notin {"failed", "skipped"}
    /\ r.facts.deviated # "measure"
    /\ r.facts.path = "live" => r.facts.deviated # "prep"
Twice(r) == r.tag = "RELIABLE" /\ r.facts.fresh => r.metric \in Metrics /\ measured[r.metric] >= 2
Comparable(r) == r.status = "COMPLETED" /\ r.facts.path # "subprocess" => ~r.facts.foreign
KnownIsGood == \A r \in Results : Known(r) => Sound(r) /\ Twice(r) /\ Comparable(r)
\* What has been written of the record of this call.
RecordInProgress ==
  /\ Persisting /\ result.status = "COMPLETED" => ~mutated
  /\ pc \in {"results", "report"} /\ ~mutated => records[call.cfg].config = "declared"
  /\ pc = "report" => records[call.cfg].results = result

IInv ==
  /\ MeasuredOncePerCall
  /\ MetricsAreMeasured
  /\ LiveIsKnown
  /\ LeftIsTold
  /\ FreshIsAnother
  /\ KnownIsGood
  /\ RecordInProgress
  /\ RecordIsTheLastResult
  /\ CompletedKeepsItsConfig

------------------------------------------------------------------------------
(* Types.                                                                  *)

\* One file of one record changes.
LEMMA WriteType ==
  ASSUME records \in [Configs -> Files], call.cfg \in Configs,
         NEW f \in {"config", "results", "report"}, NEW x,
         Write(f, x),
         f = "config" => x \in {None, Partial, "declared", "mutated"},
         f # "config" => x \in Results \cup {None, Partial}
  PROVE  /\ records' \in [Configs -> Files]
         /\ \A c \in Configs : c # call.cfg => records'[c] = records[c]
         /\ records'[call.cfg][f] = x
         /\ \A g \in {"config", "results", "report"} :
              g # f => records'[call.cfg][g] = records[call.cfg][g]
  <1>1. CASE f = "config"
    BY <1>1 DEF Write, Files
  <1>2. CASE f = "results"
    BY <1>2 DEF Write, Files
  <1>3. CASE f = "report"
    BY <1>3 DEF Write, Files
  <1>. QED
    BY <1>1, <1>2, <1>3

\* A result that says the call was refused, failed or stopped.
LEMMA AbortedType ==
  ASSUME NEW s \in Statuses \ {"COMPLETED"}, Aborted(s)
  PROVE  /\ pc' = "config" /\ result' \in Results
         /\ result'.status = s /\ result'.tag \notin Citable /\ result'.metric = None
  BY DEF Aborted, Finish, Results, Statuses, Tags, Citable

\* What a hook's outcome is made into.
LEMMA ReportType ==
  ASSUME TypeOK, IInv, pc = "measure", NEW o \in Outcomes
  PROVE  /\ ReportOf(o) \in Reports
         /\ ReportOf(o).metric = o.metric /\ o.metric \in Metrics
         /\ ReportOf(o).by = calls
         /\ ReportOf(o).differs <=> Differs(o)
         /\ ReportOf(o).facts = FactsOf(o)
  <1>1. artifact.made \in Artifacts /\ artifact.live \in BOOLEAN
    BY DEF TypeOK
  <1>2. FactsOf(o) \in Facts
    BY <1>1 DEF FactsOf, Facts, Artifacts, Outcomes
  <1>3. o.metric \in Metrics /\ o.phases \in BOOLEAN
    BY DEF Outcomes
  <1>4. calls \in 1 .. MaxCalls
    BY <1>3, ConfigAssumption DEF TypeOK, IInv, MeasuredOncePerCall, Unmeasured
  <1>5. Differs(o) \in BOOLEAN
    BY DEF Differs
  <1>. QED
    BY <1>2, <1>3, <1>4, <1>5 DEF ReportOf, Reports

\* What the facts of a measurement say.
LEMMA FactsMean ==
  ASSUME NEW o
  PROVE  /\ FactsOf(o).deviated = "measure" => o.clamped # {}
         /\ FactsOf(o).deviated = "prep" => artifact.made.clamped \ o.used # {}
         /\ FactsOf(o).foreign <=> (artifact.made.env # env)
         /\ FactsOf(o).path = IF Subprocess THEN "subprocess"
                              ELSE IF artifact.live THEN "live" ELSE "loaded"
  BY DEF FactsOf

\* A report as a result.
LEMMA ResultType ==
  ASSUME NEW rep \in Reports, NEW st \in Statuses, calls \in Nat
  PROVE  /\ ResultOf(rep, st) \in Results
         /\ ResultOf(rep, st).status = st
         /\ ResultOf(rep, st).metric = rep.metric /\ rep.metric \in Metrics
         /\ ResultOf(rep, st).tag =
              IF st # "COMPLETED" THEN "UNRELIABLE"
              ELSE Classify(rep.facts.valid, rep.phases, Reproduced(call.prior, rep.metric),
                            rep.differs)
         /\ ResultOf(rep, st).facts.fresh <=> (rep.by = calls)
         /\ ResultOf(rep, st).facts.valid = rep.facts.valid
         /\ ResultOf(rep, st).facts.deviated = rep.facts.deviated
         /\ ResultOf(rep, st).facts.path = rep.facts.path
         /\ ResultOf(rep, st).facts.foreign = rep.facts.foreign
  <1> DEFINE fs == [rep.facts EXCEPT !.fresh = rep.by = calls]
  <1>1. rep.facts \in Facts /\ rep.metric \in Metrics /\ rep.by \in Nat
    BY ConfigAssumption DEF Reports
  <1>2. /\ fs \in Facts /\ (fs.fresh <=> (rep.by = calls))
        /\ fs.valid = rep.facts.valid /\ fs.deviated = rep.facts.deviated
        /\ fs.path = rep.facts.path /\ fs.foreign = rep.facts.foreign
    BY <1>1 DEF Facts
  <1>3. \A v, p, r, d : Classify(v, p, r, d) \in Tags
    BY DEF Classify, Tags
  <1> HIDE DEF fs
  <1>4. "UNRELIABLE" \in Tags
    BY DEF Tags
  <1>5. ResultOf(rep, st).facts = fs
    BY DEF ResultOf, fs
  <1>6. ResultOf(rep, st) \in Results
    BY <1>1, <1>2, <1>3, <1>4 DEF ResultOf, Results, fs
  <1>. QED
    BY <1>1, <1>2, <1>5, <1>6 DEF ResultOf

\* One more measurement gave m.
LEMMA CountType ==
  ASSUME TypeOK, IInv, pc = "measure", NEW m \in Metrics,
         measured' = [measured EXCEPT ![m] = @ + 1]
  PROVE  /\ measured' \in [Metrics -> 0 .. MaxCalls]
         /\ \A x \in Metrics : measured[x] <= measured'[x] /\ measured'[x] <= calls
         /\ measured'[m] = measured[m] + 1
  <1>1. \A x \in Metrics : measured[x] \in Nat /\ measured[x] < calls
    BY DEF TypeOK, IInv, MeasuredOncePerCall, Unmeasured
  <1>2. calls \in Nat /\ MaxCalls \in Nat /\ calls <= MaxCalls
    BY ConfigAssumption DEF TypeOK
  <1>. QED
    BY <1>1, <1>2 DEF TypeOK

\* The call's locals are gone; whatever else a call can leave is typed.
LEMMA LeaveType ==
  ASSUME TypeOK, Leave, UNCHANGED <<env, store, last, calls>>,
         left' \in [Configs -> Reports \cup {None, Partial}],
         records' \in [Configs -> Files], torn' \subseteq Configs,
         measured' \in [Metrics -> 0 .. MaxCalls]
  PROVE  TypeOK'
  BY DEF TypeOK, Leave

\* A call that concludes is on its way to its record, or over.
LEMMA ConcludeType ==
  ASSUME TypeOK, NEW rep \in Reports, Conclude(rep),
         UNCHANGED <<env, store, persisted, left, calls>>, pc # "idle",
         measured' \in [Metrics -> 0 .. MaxCalls]
  PROVE  TypeOK'
  <1>1. CASE Leave
    BY <1>1, LeaveType DEF persisted, TypeOK
  <1>2. CASE ~Leave
    <2>1. PICK st \in Statuses : Finish(ResultOf(rep, st)) /\ UNCHANGED <<call, artifact, captured, mutated>>
      BY <1>2 DEF Conclude, Statuses
    <2>2. calls \in Nat
      BY ConfigAssumption DEF TypeOK
    <2>. QED
      BY <2>1, <2>2, ResultType DEF Finish, TypeOK, persisted
  <1>. QED
    BY <1>1, <1>2

\* Every step keeps the types.
LEMMA TypeStep == TypeOK /\ IInv /\ [Next]_vars => TypeOK'
  <1> SUFFICES ASSUME TypeOK, IInv, [Next]_vars PROVE TypeOK'
    OBVIOUS
  <1>1. ASSUME NEW c \in Configs, NEW o \in Options, NEW prior \in Returned \cup {None},
               Submit(c, o, prior)
        PROVE  TypeOK'
    <2>1. prior \in Results \cup {None}
      BY DEF Returned, TypeOK
    <2>. QED
      BY <1>1, <2>1, ConfigAssumption DEF Submit, TypeOK, persisted
  <1>2. CASE Refuse \/ PrepFails \/ MeasureFails \/ NoAnswer
    <2>1. pc' = "config" /\ result' \in Results
      BY <1>2, AbortedType DEF Refuse, PrepFails, MeasureFails, NoAnswer, Statuses
    <2>. QED
      BY <1>2, <2>1 DEF Refuse, PrepFails, MeasureFails, NoAnswer, TypeOK, persisted
  <1>3. CASE Freeze
    BY <1>3 DEF Freeze, TypeOK, persisted
  <1>4. CASE HookRaises \/ StoreRaises \/ LauncherRaises \/ AnswerTorn
    BY <1>4, LeaveType DEF HookRaises, StoreRaises, LauncherRaises, AnswerTorn, persisted, TypeOK
  <1>5. CASE PrepHit
    BY <1>5 DEF PrepHit, Hit, Key, Keys, TypeOK, persisted
  <1>6. ASSUME NEW clamped \in SUBSET Params, PrepBuild(clamped) PROVE TypeOK'
    <2>1. [env |-> env, clamped |-> clamped] \in Artifacts
      BY DEF Artifacts, TypeOK
    <2>2. store' \in [Keys -> Artifacts \cup {None}]
      BY <1>6, <2>1 DEF PrepBuild, TypeOK
    <2>3. artifact'.made \in Artifacts /\ artifact'.live \in BOOLEAN
      <3>1. Subprocess \in BOOLEAN
        BY <1>6, ConfigAssumption DEF Subprocess, TypeOK, PrepBuild, IsOption
      <3>. QED
        BY <1>6, <2>1, <3>1 DEF PrepBuild
    <2>. QED
      BY <1>6, <2>2, <2>3 DEF PrepBuild, TypeOK, persisted
  <1>7. CASE Mutate
    BY <1>7 DEF Mutate, TypeOK, persisted
  <1>8. ASSUME NEW o \in Outcomes, Measure(o) PROVE TypeOK'
    <2>1. pc = "measure" /\ ReportOf(o) \in Reports /\ o.metric \in Metrics
      BY <1>8, ReportType DEF Measure
    <2>2. measured' \in [Metrics -> 0 .. MaxCalls]
      BY <1>8, <2>1, CountType DEF Measure, Count
    <2>. QED
      BY <1>8, <2>1, <2>2, ConcludeType DEF Measure
  <1>9. ASSUME NEW o \in Outcomes, WorkerReports(o) PROVE TypeOK'
    <2>1. pc = "measure" /\ ReportOf(o) \in Reports /\ o.metric \in Metrics
      BY <1>9, ReportType DEF WorkerReports
    <2>2. measured' \in [Metrics -> 0 .. MaxCalls]
      BY <1>9, <2>1, CountType DEF WorkerReports, Count
    <2>. QED
      BY <1>9, <2>1, <2>2 DEF WorkerReports, TypeOK, persisted
  <1>16. CASE WorkerFails
    <2>1. PICK x \in {None, Partial, left[call.cfg]} : left' = [left EXCEPT ![call.cfg] = x]
      BY <1>16 DEF WorkerFails
    <2>2. call.cfg \in Configs
      BY <1>16 DEF WorkerFails, TypeOK
    <2>3. left' \in [Configs -> Reports \cup {None, Partial}]
      BY <2>1, <2>2 DEF TypeOK
    <2>. QED
      BY <1>16, <2>3 DEF WorkerFails, TypeOK, persisted
  <1>17. CASE Answer
    <2>1. call.cfg \in Configs /\ pc # "idle"
      BY <1>17 DEF Answer, TypeOK
    <2>2. left[call.cfg] \in Reports
      BY <1>17, <2>1 DEF Answer, TypeOK
    <2>. QED
      BY <1>17, <2>1, <2>2, ConcludeType DEF Answer, TypeOK
  <1>10. CASE WriteConfig
    BY <1>10, WriteType DEF WriteConfig, TypeOK
  <1>11. CASE WriteResults
    BY <1>11, WriteType DEF WriteResults, TypeOK
  <1>12. CASE WriteReport
    <2>1. records' \in [Configs -> Files]
      BY <1>12, WriteType DEF WriteReport, TypeOK
    <2>2. last' \in [Configs -> Results \cup {None}]
      BY <1>12 DEF WriteReport, TypeOK
    <2>. QED
      BY <1>12, <2>1, <2>2 DEF WriteReport, Leave, TypeOK
  <1>13. CASE Crash
    <2>1. records' \in [Configs -> Files] /\ torn' \subseteq Configs
      <3>1. CASE Persisting /\ Write(pc, Partial)
        BY <1>13, <3>1, WriteType DEF Crash, Persisting, TypeOK
      <3>2. CASE UNCHANGED records
        BY <1>13, <3>2 DEF Crash, TypeOK
      <3>. QED
        BY <1>13, <3>1, <3>2 DEF Crash, TypeOK
    <2>. QED
      BY <1>13, <2>1, LeaveType DEF Crash, TypeOK
  <1>14. CASE NewEnvironment
    BY <1>14 DEF NewEnvironment, TypeOK, persisted
  <1>15. CASE UNCHANGED vars
    BY <1>15 DEF vars, persisted, TypeOK
  <1>. QED
    BY <1>1, <1>2, <1>3, <1>4, <1>5, <1>6, <1>7, <1>8, <1>9, <1>10, <1>11, <1>12,
       <1>13, <1>14, <1>15, <1>16, <1>17 DEF Next, Returned

------------------------------------------------------------------------------
(* The invariant.  Most steps leave the results that are known, or the     *)
(* records that are settled, as they were.                                 *)

\* Measured counts only grow.
Grows == \A m \in Metrics : measured'[m] \in Nat /\ measured[m] <= measured'[m]

\* Counting a measurement takes no earlier one away.
LEMMA CountsGrow ==
  ASSUME TypeOK, IInv, pc = "measure", NEW m \in Metrics,
         measured' = [measured EXCEPT ![m] = @ + 1]
  PROVE  Grows
  <1>1. measured' \in [Metrics -> 0 .. MaxCalls]
    BY CountType
  <1>2. \A x \in Metrics : measured'[x] \in Nat
    BY <1>1, ConfigAssumption
  <1>3. \A x \in Metrics : measured[x] <= measured'[x]
    BY CountType
  <1>. QED
    BY <1>2, <1>3 DEF Grows

\* No result becomes known.
LEMMA ResultsKept ==
  ASSUME TypeOK, IInv, Grows, last' = last,
         ~Persisting' \/ (Persisting /\ result' = result),
         pc' = "idle" \/ (pc # "idle" /\ call' = call)
           \/ call'.prior \in Returned \cup {None}
  PROVE  MetricsAreMeasured' /\ KnownIsGood'
  <1>1. Returned' = Returned
    BY DEF Returned
  <1>2. \A r \in Results : Known(r)' => Known(r)
    BY <1>1 DEF Known
  <1>3. MetricsAreMeasured'
    <2> SUFFICES ASSUME NEW r \in Results \ {None}, r.metric # None,
                        (Known(r) \/ (pc # "idle" /\ call.prior = r))'
                 PROVE  measured'[r.metric] >= 1
      BY DEF MetricsAreMeasured
    <2>1. CASE r \in Returned \/ Known(r) \/ (pc # "idle" /\ call.prior = r)
      <3>1. measured[r.metric] >= 1 /\ r.metric \in Metrics
        BY <2>1 DEF IInv, MetricsAreMeasured, Known, Results
      <3>. QED
        BY <3>1 DEF Grows, TypeOK
    <2>. QED
      BY <1>2, <2>1
  <1>4. KnownIsGood'
    <2> SUFFICES ASSUME NEW r \in Results, Known(r)
                 PROVE  (Sound(r) /\ Twice(r) /\ Comparable(r))'
      BY <1>2 DEF KnownIsGood
    <2>1. Sound(r) /\ Twice(r) /\ Comparable(r)
      BY DEF IInv, KnownIsGood
    <2>. QED
      BY <2>1 DEF Sound, Twice, Comparable, Grows, TypeOK
  <1>. QED
    BY <1>3, <1>4

\* The result on its way to the disk is the only one that becomes known.
LEMMA ResultMade ==
  ASSUME TypeOK, IInv, Grows, last' = last, call' = call, ~Persisting,
         pc' = "config", result' \in Results, pc # "idle",
         (Sound(result) /\ Twice(result) /\ Comparable(result))',
         result'.metric # None => measured'[result'.metric] >= 1
  PROVE  MetricsAreMeasured' /\ KnownIsGood'
  <1>1. Returned' = Returned
    BY DEF Returned
  <1>2. \A r \in Results : Known(r)' => Known(r) \/ r = result'
    BY <1>1 DEF Known
  <1>3. MetricsAreMeasured'
    <2> SUFFICES ASSUME NEW r \in Results \ {None}, r.metric # None,
                        (Known(r) \/ (pc # "idle" /\ call.prior = r))'
                 PROVE  measured'[r.metric] >= 1
      BY DEF MetricsAreMeasured
    <2>1. CASE Known(r) \/ call.prior = r
      <3>1. measured[r.metric] >= 1 /\ r.metric \in Metrics
        BY <2>1 DEF IInv, MetricsAreMeasured, Results
      <3>. QED
        BY <3>1 DEF Grows, TypeOK
    <2>. QED
      BY <1>2, <2>1
  <1>4. KnownIsGood'
    <2> SUFFICES ASSUME NEW r \in Results, Known(r) \/ r = result'
                 PROVE  (Sound(r) /\ Twice(r) /\ Comparable(r))'
      BY <1>2 DEF KnownIsGood
    <2>1. CASE Known(r)
      <3>1. Sound(r) /\ Twice(r) /\ Comparable(r)
        BY <2>1 DEF IInv, KnownIsGood
      <3>. QED
        BY <3>1 DEF Sound, Twice, Comparable, Grows, TypeOK
    <2>2. CASE r = result'
      BY <2>2 DEF Sound, Twice, Comparable
    <2>. QED
      BY <2>1, <2>2
  <1>. QED
    BY <1>3, <1>4

\* The records that are settled after the step were settled before, and are as
\* they were.
LEMMA RecordsKept ==
  ASSUME TypeOK, IInv,
         \A c \in Configs : Settled(c)' =>
           Settled(c) /\ records'[c] = records[c] /\ last'[c] = last[c]
  PROVE  RecordIsTheLastResult' /\ CompletedKeepsItsConfig'
  BY DEF IInv, RecordIsTheLastResult, CompletedKeepsItsConfig

\* No worker has written a file.
LEMMA LeftKept ==
  ASSUME TypeOK, IInv, Grows, left' = left,
         (calls' = calls /\ (Unmeasured' => Unmeasured)) \/ calls' = calls + 1
  PROVE  LeftIsTold'
  <1> SUFFICES ASSUME NEW c \in Configs, left[c] \in Reports
               PROVE  /\ Told(left[c])
                      /\ measured'[left[c].metric] >= 1
                      /\ left[c].by <= calls' /\ (Unmeasured' => left[c].by < calls')
    BY DEF LeftIsTold, Told
  <1>1. left[c].metric \in Metrics /\ left[c].by \in Nat /\ calls \in Nat
    BY ConfigAssumption DEF Reports, TypeOK
  <1>2. /\ Told(left[c]) /\ measured[left[c].metric] >= 1
        /\ left[c].by <= calls /\ (Unmeasured => left[c].by < calls)
    BY DEF IInv, LeftIsTold
  <1>3. measured[left[c].metric] \in Nat
    BY <1>1, ConfigAssumption DEF TypeOK
  <1>. QED
    BY <1>1, <1>2, <1>3 DEF Grows

\* A call that ends, by an exception or with the harness, makes no result known.
LEMMA LeaveStep ==
  ASSUME TypeOK, IInv, Leave, Grows, last' = last, calls' = calls, left' = left,
         \A m \in Metrics : measured'[m] <= calls,
         \A c \in Configs : Settled(c)' => Settled(c) /\ records'[c] = records[c]
  PROVE  IInv'
  <1>1. pc' = "idle"
    BY DEF Leave
  <1>2. MetricsAreMeasured' /\ KnownIsGood'
    BY <1>1, ResultsKept DEF Persisting
  <1>3. RecordIsTheLastResult' /\ CompletedKeepsItsConfig'
    BY RecordsKept
  <1>4. MeasuredOncePerCall' /\ LiveIsKnown' /\ FreshIsAnother' /\ RecordInProgress'
    BY <1>1 DEF MeasuredOncePerCall, Unmeasured, LiveIsKnown, FreshIsAnother,
                RecordInProgress, Persisting
  <1>5. LeftIsTold'
    BY <1>1, LeftKept DEF Unmeasured
  <1>. QED
    BY <1>2, <1>3, <1>4, <1>5 DEF IInv

\* A refused or failed call has nothing to be cited for.
LEMMA AbortStep ==
  ASSUME TypeOK, IInv, Refuse \/ PrepFails \/ MeasureFails \/ NoAnswer
  PROVE  IInv'
  <1>1. /\ pc' = "config" /\ result' \in Results /\ ~Persisting /\ pc # "idle"
        /\ result'.status # "COMPLETED" /\ result'.tag \notin Citable
        /\ result'.metric = None
    BY AbortedType DEF Refuse, PrepFails, MeasureFails, NoAnswer, Statuses, Persisting
  <1>2. UNCHANGED <<call, env, store, captured, mutated, records, last, torn, left,
                    measured, calls>>
    BY DEF Refuse, PrepFails, MeasureFails, NoAnswer, persisted
  <1>3. Grows
    BY <1>2, ConfigAssumption DEF Grows, TypeOK
  <1>4. (Sound(result) /\ Twice(result) /\ Comparable(result))'
    BY <1>1 DEF Sound, Twice, Comparable, Citable
  <1>5. MetricsAreMeasured' /\ KnownIsGood'
    BY <1>1, <1>2, <1>3, <1>4, ResultMade
  <1>6. RecordIsTheLastResult' /\ CompletedKeepsItsConfig'
    BY <1>1, <1>2, RecordsKept DEF Settled, Persisting
  <1>7. MeasuredOncePerCall' /\ LiveIsKnown' /\ FreshIsAnother' /\ RecordInProgress'
    BY <1>1, <1>2 DEF IInv, MeasuredOncePerCall, Unmeasured, LiveIsKnown,
                      FreshIsAnother, RecordInProgress, Persisting
  <1>8. LeftIsTold'
    BY <1>1, <1>2, <1>3, LeftKept DEF Unmeasured
  <1>. QED
    BY <1>5, <1>6, <1>7, <1>8 DEF IInv

\* The tag is earned: by this measurement or the one found, by what prep left,
\* and by the prior.
LEMMA ConcludeStep ==
  ASSUME TypeOK, IInv, pc \in {"measure", "answer"},
         NEW rep \in Reports, Conclude(rep),
         UNCHANGED <<env, store, persisted, left, calls>>,
         Grows, \A m \in Metrics : measured'[m] <= calls,
         measured'[rep.metric] >= 1,
         rep.by = calls /\ Reproduced(call.prior, rep.metric) => measured'[rep.metric] >= 2,
         rep.facts.deviated = "measure" => rep.differs,
         rep.facts.path = "live" /\ rep.facts.deviated = "prep" => rep.differs,
         rep.facts.path # "subprocess" => ~rep.facts.foreign
  PROVE  IInv'
  <1>0. ~Persisting /\ pc # "idle" /\ UNCHANGED <<records, last, torn>>
    BY DEF Persisting, persisted
  <1>1. CASE Leave
    <2>1. pc' = "idle"
      BY <1>1 DEF Leave
    <2>2. \A c \in Configs : Settled(c)' => Settled(c) /\ records'[c] = records[c]
      BY <1>0, <2>1 DEF Settled
    <2>. QED
      BY <1>0, <1>1, <2>2, LeaveStep
  <1>2. CASE ~Leave
    <2>1. PICK st \in {"COMPLETED", "ABORTED_GUARDRAIL"} :
            /\ pc' = "config" /\ result' = ResultOf(rep, st)
            /\ UNCHANGED <<call, artifact, captured, mutated>>
            /\ st = "COMPLETED" => ~mutated
      BY <1>2 DEF Conclude, Finish
    <2>2. calls \in Nat /\ st \in Statuses
      BY ConfigAssumption DEF TypeOK, Statuses
    <2>3. /\ result' \in Results /\ result'.status = st
          /\ result'.metric = rep.metric /\ rep.metric \in Metrics
          /\ result'.tag = IF st # "COMPLETED" THEN "UNRELIABLE"
                           ELSE Classify(rep.facts.valid, rep.phases,
                                         Reproduced(call.prior, rep.metric), rep.differs)
          /\ result'.facts.fresh <=> (rep.by = calls)
          /\ result'.facts.valid = rep.facts.valid
          /\ result'.facts.deviated = rep.facts.deviated
          /\ result'.facts.path = rep.facts.path
          /\ result'.facts.foreign = rep.facts.foreign
      BY <2>1, <2>2, ResultType
    <2>4. Sound(result)'
      <3> SUFFICES ASSUME result'.tag \in Citable
                   PROVE  /\ result'.status = "COMPLETED"
                          /\ result'.facts.valid \notin {"failed", "skipped"}
                          /\ result'.facts.deviated # "measure"
                          /\ result'.facts.path = "live" => result'.facts.deviated # "prep"
        BY DEF Sound
      <3>1. st = "COMPLETED" /\ ~rep.differs /\ rep.facts.valid \notin {"failed", "skipped"}
        BY <2>3 DEF Classify, Citable
      <3>. QED
        BY <2>3, <3>1
    <2>5. Comparable(result)'
      BY <2>3 DEF Comparable
    <2>6. Twice(result)'
      <3> SUFFICES ASSUME result'.tag = "RELIABLE", result'.facts.fresh
                   PROVE  measured'[rep.metric] >= 2
        BY <2>3 DEF Twice
      <3>1. Reproduced(call.prior, rep.metric)
        BY <2>3 DEF Classify
      <3>. QED
        BY <2>3, <3>1
    <2>7. MetricsAreMeasured' /\ KnownIsGood'
      BY <1>0, <2>1, <2>3, <2>4, <2>5, <2>6, ResultMade
    <2>8. RecordIsTheLastResult' /\ CompletedKeepsItsConfig'
      BY <1>0, <2>1, RecordsKept DEF Settled, Persisting
    <2>9. /\ MeasuredOncePerCall' /\ LiveIsKnown' /\ FreshIsAnother' /\ RecordInProgress'
      BY <2>1, <2>3 DEF MeasuredOncePerCall, Unmeasured, LiveIsKnown, FreshIsAnother,
                        RecordInProgress
    <2>10. LeftIsTold'
      BY <2>1, LeftKept DEF Unmeasured
    <2>. QED
      BY <2>7, <2>8, <2>9, <2>10 DEF IInv
  <1>. QED
    BY <1>1, <1>2

\* What the measurement adds to the counts.
LEMMA CountedStep ==
  ASSUME TypeOK, IInv, pc = "measure", NEW m \in Metrics, Count(m)
  PROVE  /\ Grows /\ \A x \in Metrics : measured'[x] <= calls
         /\ measured'[m] >= 1
         /\ Reproduced(call.prior, m) => measured'[m] >= 2
  <1>1. Grows /\ \A x \in Metrics : measured'[x] <= calls
    BY CountsGrow, CountType DEF Count
  <1>2. measured'[m] = measured[m] + 1 /\ measured[m] \in Nat
    BY CountType, ConfigAssumption DEF Count, TypeOK
  <1>3. ASSUME Reproduced(call.prior, m) PROVE measured[m] >= 1
    <2>1. call.prior \in Results \ {None} /\ call.prior.metric = m /\ m # None
      BY <1>3, ConfigAssumption DEF TypeOK, Reproduced
    <2>. QED
      BY <2>1 DEF IInv, MetricsAreMeasured
  <1>. QED
    BY <1>1, <1>2, <1>3

\* A measurement in this process.
LEMMA MeasureStep ==
  ASSUME TypeOK, IInv, NEW o \in Outcomes, Measure(o)
  PROVE  IInv'
  <1>1. /\ pc = "measure" /\ ~Subprocess /\ ~ForeignArtifact
        /\ Conclude(ReportOf(o)) /\ Count(o.metric)
        /\ UNCHANGED <<env, store, persisted, left, calls>>
    BY DEF Measure
  <1>2. /\ ReportOf(o) \in Reports
        /\ ReportOf(o).metric = o.metric /\ o.metric \in Metrics
        /\ ReportOf(o).differs <=> Differs(o)
        /\ ReportOf(o).facts = FactsOf(o)
    BY <1>1, ReportType
  <1>3. artifact.live \in BOOLEAN
    BY <1>1 DEF TypeOK
  <1>4. FactsOf(o).deviated = "measure" => Differs(o)
    BY FactsMean DEF Differs
  <1>5. FactsOf(o).path = "live" /\ FactsOf(o).deviated = "prep" => Differs(o)
    <2> SUFFICES ASSUME FactsOf(o).path = "live", FactsOf(o).deviated = "prep"
                 PROVE  Differs(o)
      OBVIOUS
    <2>1. artifact.live /\ artifact.made.clamped \ o.used # {}
      BY <1>1, FactsMean
    <2>2. captured = artifact.made.clamped
      BY <1>1, <2>1 DEF IInv, LiveIsKnown
    <2>. QED
      BY <1>1, <2>1, <2>2 DEF Differs
  <1>6. ~FactsOf(o).foreign
    <2>1. artifact.made.env = env
      BY <1>1, <1>3 DEF ForeignArtifact, IInv, LiveIsKnown
    <2>. QED
      BY <2>1, FactsMean
  <1>. QED
    BY <1>1, <1>2, <1>4, <1>5, <1>6, CountedStep, ConcludeStep

\* The launcher hands back what result.json holds.
LEMMA AnswerStep ==
  ASSUME TypeOK, IInv, Answer
  PROVE  IInv'
  <1>1. /\ pc = "answer" /\ Conclude(left[call.cfg])
        /\ UNCHANGED <<env, store, persisted, left, measured, calls>>
    BY DEF Answer
  <1>2. call.cfg \in Configs /\ left[call.cfg] \in Reports
    BY DEF Answer, TypeOK
  <1>3. Told(left[call.cfg]) /\ measured[left[call.cfg].metric] >= 1
    BY <1>2 DEF IInv, LeftIsTold
  <1>4. Grows /\ \A m \in Metrics : measured'[m] <= calls
    BY <1>1, ConfigAssumption DEF Grows, TypeOK, IInv, MeasuredOncePerCall
  <1>5. left[call.cfg].by = calls /\ Reproduced(call.prior, left[call.cfg].metric)
          => measured[left[call.cfg].metric] >= 2
    BY <1>1, <1>2 DEF IInv, FreshIsAnother
  <1>. QED
    BY <1>1, <1>2, <1>3, <1>4, <1>5, ConcludeStep DEF Told

\* A worker ends: with a report of its own, or leaving another file or none.
LEMMA WorkerStep ==
  ASSUME TypeOK, IInv, WorkerFails \/ \E o \in Outcomes : WorkerReports(o)
  PROVE  IInv'
  <1>1. /\ pc = "measure" /\ Subprocess /\ pc' = "answer" /\ ~Persisting /\ ~Persisting'
        /\ UNCHANGED <<call, env, result, records, last, torn, calls>>
    BY DEF WorkerFails, WorkerReports, persisted, Persisting
  <1>2. call.cfg \in Configs /\ calls \in Nat
    BY <1>1, ConfigAssumption DEF TypeOK
  <1>3. /\ Grows /\ (\A m \in Metrics : measured'[m] <= calls)
        /\ LeftIsTold' /\ FreshIsAnother'
    <2>1. ASSUME NEW o \in Outcomes, WorkerReports(o)
          PROVE  /\ Grows /\ (\A m \in Metrics : measured'[m] <= calls)
                 /\ LeftIsTold' /\ FreshIsAnother'
      <3>1. /\ Count(o.metric) /\ left' = [left EXCEPT ![call.cfg] = ReportOf(o)]
        BY <2>1 DEF WorkerReports
      <3>2. /\ ReportOf(o) \in Reports
            /\ ReportOf(o).metric = o.metric /\ o.metric \in Metrics
            /\ ReportOf(o).by = calls
            /\ ReportOf(o).differs <=> Differs(o)
            /\ ReportOf(o).facts = FactsOf(o)
        BY <1>1, ReportType
      <3>3. /\ Grows /\ (\A m \in Metrics : measured'[m] <= calls)
            /\ measured'[o.metric] >= 1
            /\ Reproduced(call.prior, o.metric) => measured'[o.metric] >= 2
        BY <1>1, <3>1, <3>2, CountedStep
      <3>4. Told(ReportOf(o))
        BY <1>1, <3>2, FactsMean DEF Told, Differs
      <3>5. left'[call.cfg] = ReportOf(o) /\ \A c \in Configs \ {call.cfg} : left'[c] = left[c]
        BY <1>2, <3>1 DEF TypeOK
      <3>6. LeftIsTold'
        <4> SUFFICES ASSUME NEW c \in Configs, left'[c] \in Reports
                     PROVE  /\ Told(left'[c])
                            /\ measured'[left'[c].metric] >= 1
                            /\ left'[c].by <= calls
          BY <1>1 DEF LeftIsTold, Told, Unmeasured
        <4>1. CASE c = call.cfg
          BY <1>2, <3>2, <3>3, <3>4, <3>5, <4>1
        <4>2. CASE c # call.cfg
          <5>1. left'[c] = left[c] /\ left[c].metric \in Metrics
            BY <3>5, <4>2 DEF Reports
          <5>2. /\ Told(left[c]) /\ measured[left[c].metric] >= 1 /\ left[c].by <= calls
            BY <5>1 DEF IInv, LeftIsTold
          <5>3. measured[left[c].metric] \in Nat
            BY <5>1, ConfigAssumption DEF TypeOK
          <5>. QED
            BY <3>3, <5>1, <5>2, <5>3 DEF Grows
        <4>. QED
          BY <4>1, <4>2
      <3>7. FreshIsAnother'
        BY <1>1, <3>2, <3>3, <3>5 DEF FreshIsAnother, Reproduced
      <3>. QED
        BY <3>3, <3>6, <3>7
    <2>2. CASE WorkerFails
      <3>1. PICK x \in {None, Partial, left[call.cfg]} : left' = [left EXCEPT ![call.cfg] = x]
        BY <2>2 DEF WorkerFails
      <3>2. measured' = measured
        BY <2>2 DEF WorkerFails
      <3>3. Grows /\ \A m \in Metrics : measured'[m] <= calls
        BY <3>2, ConfigAssumption DEF Grows, TypeOK, IInv, MeasuredOncePerCall
      <3>4. \A c \in Configs : left'[c] \in Reports => left'[c] = left[c]
        BY <1>2, <3>1, ConfigAssumption DEF TypeOK
      <3>5. \A c \in Configs : left'[c] \in Reports =>
              /\ Told(left[c]) /\ measured[left[c].metric] >= 1 /\ left[c].by < calls
        BY <1>1, <3>4 DEF IInv, LeftIsTold, Unmeasured
      <3>6. \A c \in Configs : left'[c] \in Reports => left[c].by \in Nat
        BY <3>4, ConfigAssumption DEF Reports
      <3>7. LeftIsTold'
        BY <1>1, <1>2, <3>2, <3>4, <3>5, <3>6 DEF LeftIsTold, Told, Unmeasured
      <3>8. FreshIsAnother'
        BY <1>1, <1>2, <3>4, <3>5, <3>6 DEF FreshIsAnother
      <3>. QED
        BY <3>3, <3>7, <3>8
    <2>. QED
      BY <2>1, <2>2
  <1>4. MetricsAreMeasured' /\ KnownIsGood'
    BY <1>1, <1>3, ResultsKept
  <1>5. RecordIsTheLastResult' /\ CompletedKeepsItsConfig'
    BY <1>1, RecordsKept DEF Settled
  <1>6. MeasuredOncePerCall' /\ LiveIsKnown' /\ RecordInProgress'
    BY <1>1, <1>3 DEF MeasuredOncePerCall, Unmeasured, LiveIsKnown, RecordInProgress,
                      Persisting
  <1>. QED
    BY <1>3, <1>4, <1>5, <1>6 DEF IInv

\* Steps between the submission and the measurement.
LEMMA UnmeasuredStep ==
  ASSUME TypeOK, IInv, Unmeasured', ~Persisting, ~Persisting',
         UNCHANGED <<env, records, last, torn, left, measured>>,
         \/ Unmeasured /\ UNCHANGED <<call, calls>>
         \/ calls' = calls + 1 /\ call'.prior \in Returned \cup {None},
         LiveIsKnown'
  PROVE  IInv'
  <1>1. Grows
    BY ConfigAssumption DEF Grows, TypeOK
  <1>2. MetricsAreMeasured' /\ KnownIsGood'
    BY <1>1, ResultsKept DEF Unmeasured
  <1>3. RecordIsTheLastResult' /\ CompletedKeepsItsConfig'
    BY RecordsKept DEF Settled
  <1>4. RecordInProgress'
    BY DEF RecordInProgress, Persisting
  <1>5. MeasuredOncePerCall'
    BY ConfigAssumption DEF IInv, MeasuredOncePerCall, Unmeasured, TypeOK, Persisting
  <1>6. LeftIsTold' /\ FreshIsAnother'
    BY <1>1, LeftKept DEF FreshIsAnother, Unmeasured
  <1>. QED
    BY <1>2, <1>3, <1>4, <1>5, <1>6 DEF IInv

\* From the gates to an artifact: only the prep step has anything to say.
LEMMA PrepStep ==
  ASSUME TypeOK, IInv,
         \/ Freeze \/ PrepHit \/ (\E clamped \in SUBSET Params : PrepBuild(clamped)) \/ Mutate
  PROVE  IInv'
  <1>1. /\ Unmeasured /\ Unmeasured' /\ ~Persisting /\ ~Persisting' /\ pc # "idle"
        /\ UNCHANGED <<call, env, records, last, torn, left, measured, calls>>
    BY DEF Freeze, PrepHit, PrepBuild, Mutate, Unmeasured, Persisting, persisted
  <1>2. LiveIsKnown'
    <2>1. CASE Freeze \/ PrepHit
      BY <2>1 DEF Freeze, PrepHit, LiveIsKnown
    <2>2. ASSUME NEW clamped \in SUBSET Params, PrepBuild(clamped) PROVE LiveIsKnown'
      BY <2>2 DEF PrepBuild, LiveIsKnown
    <2>3. CASE Mutate
      BY <2>3 DEF Mutate, LiveIsKnown, IInv
    <2>. QED
      BY <2>1, <2>2, <2>3
  <1>. QED
    BY <1>1, <1>2, UnmeasuredStep

\* A call may be given the result of any earlier one.
LEMMA SubmitStep ==
  ASSUME TypeOK, IInv,
         NEW c \in Configs, NEW o \in Options, NEW prior \in Returned \cup {None},
         Submit(c, o, prior)
  PROVE  IInv'
  <1>1. /\ Unmeasured' /\ ~Persisting /\ ~Persisting' /\ calls' = calls + 1
        /\ call'.prior = prior
        /\ UNCHANGED <<env, records, last, torn, left, measured>>
    BY DEF Submit, Unmeasured, Persisting, persisted
  <1>2. LiveIsKnown'
    BY DEF Submit, LiveIsKnown
  <1>. QED
    BY <1>1, <1>2, UnmeasuredStep

\* An exception leaves run_lifecycle with nothing written.
LEMMA RaiseStep ==
  ASSUME TypeOK, IInv, HookRaises \/ StoreRaises \/ LauncherRaises \/ AnswerTorn
  PROVE  IInv'
  <1>1. /\ Leave /\ UNCHANGED <<records, last, torn, left, measured, calls>>
        /\ ~Persisting /\ ~Persisting'
    BY DEF HookRaises, StoreRaises, LauncherRaises, AnswerTorn, Leave, Persisting, persisted
  <1>2. \A c \in Configs : Settled(c)' => Settled(c) /\ records'[c] = records[c]
    BY <1>1 DEF Settled
  <1>3. Grows /\ \A m \in Metrics : measured'[m] <= calls
    BY <1>1, ConfigAssumption DEF Grows, TypeOK, IInv, MeasuredOncePerCall
  <1>. QED
    BY <1>1, <1>2, <1>3, LeaveStep

\* The harness dies: of the records it may have been writing one, which is then
\* no longer settled.
LEMMA CrashStep ==
  ASSUME TypeOK, IInv, Crash
  PROVE  IInv'
  <1>1. Leave /\ ~Persisting' /\ UNCHANGED <<last, left, calls, measured>>
    BY DEF Crash, Leave, Persisting
  <1>2. Grows /\ \A m \in Metrics : measured'[m] <= calls
    BY <1>1, ConfigAssumption DEF Grows, TypeOK, IInv, MeasuredOncePerCall
  <1>3. \A c \in Configs : Settled(c)' => Settled(c) /\ records'[c] = records[c]
    <2>1. CASE Persisting
      <3>1. call.cfg \in Configs /\ torn' = torn \cup {call.cfg}
        BY <2>1 DEF Crash, Persisting, TypeOK
      <3>2. \A c \in Configs : c # call.cfg => records'[c] = records[c]
        BY <2>1 DEF Crash, Write, TypeOK
      <3>. QED
        BY <3>1, <3>2 DEF Settled
    <2>2. CASE ~Persisting
      BY <1>1, <2>2 DEF Crash, Settled
    <2>. QED
      BY <2>1, <2>2
  <1>. QED
    BY <1>1, <1>2, <1>3, LeaveStep

\* The first two files of a record are written; the record is not settled.
LEMMA PersistStep ==
  ASSUME TypeOK, IInv, WriteConfig \/ WriteResults
  PROVE  IInv'
  <1>1. /\ Persisting /\ Persisting' /\ pc \in {"config", "results"}
        /\ UNCHANGED <<call, env, artifact, captured, mutated, result, last, torn,
                      left, measured, calls>>
    BY DEF WriteConfig, WriteResults, Persisting
  <1>2. call.cfg \in Configs /\ result \in Results /\ records \in [Configs -> Files]
    BY <1>1 DEF TypeOK
  <1>3. \A c \in Configs : c # call.cfg => records'[c] = records[c]
    BY <1>2 DEF WriteConfig, WriteResults, Write
  <1>4. MetricsAreMeasured' /\ KnownIsGood' /\ LeftIsTold'
    <2>1. Grows
      BY <1>1, ConfigAssumption DEF Grows, TypeOK
    <2>. QED
      BY <1>1, <2>1, ResultsKept, LeftKept DEF Unmeasured, Persisting
  <1>5. RecordIsTheLastResult' /\ CompletedKeepsItsConfig'
    BY <1>1, <1>3, RecordsKept DEF Settled
  <1>6. MeasuredOncePerCall' /\ LiveIsKnown' /\ FreshIsAnother'
    BY <1>1 DEF IInv, MeasuredOncePerCall, Unmeasured, LiveIsKnown, FreshIsAnother,
                Persisting
  <1>7. RecordInProgress'
    <2>1. CASE WriteConfig
      BY <1>1, <1>2, <2>1, WriteType DEF WriteConfig, RecordInProgress, IInv
    <2>2. CASE WriteResults
      BY <1>1, <1>2, <2>2, WriteType DEF WriteResults, RecordInProgress, IInv
    <2>. QED
      BY <2>1, <2>2
  <1>. QED
    BY <1>4, <1>5, <1>6, <1>7 DEF IInv

\* The last file is written: the record is settled, and the call returns.
LEMMA ReturnStep ==
  ASSUME TypeOK, IInv, WriteReport
  PROVE  IInv'
  <1>1. /\ pc = "report" /\ Persisting /\ pc' = "idle" /\ ~Persisting'
        /\ Write("report", result) /\ last' = [last EXCEPT ![call.cfg] = result]
        /\ torn' = torn \ {call.cfg} /\ UNCHANGED <<env, left, measured, calls>>
    BY DEF WriteReport, Leave, Persisting
  <1>2. call.cfg \in Configs /\ result \in Results
    BY <1>1 DEF TypeOK
  <1>3. /\ \A c \in Configs \ {call.cfg} : records'[c] = records[c] /\ last'[c] = last[c]
        /\ last'[call.cfg] = result
        /\ records'[call.cfg].report = result
        /\ records'[call.cfg].results = records[call.cfg].results
        /\ records'[call.cfg].config = records[call.cfg].config
    BY <1>1, <1>2, WriteType DEF TypeOK
  <1>4. \A r \in Results : Known(r)' => Known(r)
    BY <1>1, <1>2, <1>3 DEF Known, Returned
  <1>5. MetricsAreMeasured'
    BY <1>1, <1>4 DEF IInv, MetricsAreMeasured
  <1>6. KnownIsGood'
    <2> SUFFICES ASSUME NEW r \in Results, Known(r)
                 PROVE  (Sound(r) /\ Twice(r) /\ Comparable(r))'
      BY <1>4 DEF KnownIsGood
    <2>1. Sound(r) /\ Twice(r) /\ Comparable(r)
      BY DEF IInv, KnownIsGood
    <2>. QED
      BY <1>1, <2>1 DEF Sound, Twice, Comparable
  <1>7. \A c \in Configs \ {call.cfg} : Settled(c)' => Settled(c)
    BY <1>1 DEF Settled
  <1>8. RecordIsTheLastResult'
    BY <1>1, <1>2, <1>3, <1>7 DEF IInv, RecordIsTheLastResult, RecordInProgress
  <1>9. CompletedKeepsItsConfig'
    BY <1>1, <1>2, <1>3, <1>7 DEF IInv, CompletedKeepsItsConfig, RecordInProgress
  <1>10. MeasuredOncePerCall' /\ LiveIsKnown' /\ FreshIsAnother' /\ RecordInProgress'
    BY <1>1 DEF IInv, MeasuredOncePerCall, Unmeasured, LiveIsKnown, FreshIsAnother,
               RecordInProgress, Persisting
  <1>11. LeftIsTold'
    <2>1. Grows
      BY <1>1, ConfigAssumption DEF Grows, TypeOK
    <2>. QED
      BY <1>1, <2>1, LeftKept DEF Unmeasured
  <1>. QED
    BY <1>5, <1>6, <1>8, <1>9, <1>10, <1>11 DEF IInv

\* No step disturbs the invariant.
LEMMA InvariantStep == TypeOK /\ IInv /\ [Next]_vars => IInv'
  <1> SUFFICES ASSUME TypeOK, IInv, [Next]_vars PROVE IInv'
    OBVIOUS
  <1>1. CASE NewEnvironment \/ UNCHANGED vars
    <2>1. /\ UNCHANGED <<pc, call, artifact, captured, mutated, result, records, last,
                        torn, left, measured, calls>>
          /\ pc = "idle" \/ env' = env
      BY <1>1 DEF NewEnvironment, vars, persisted
    <2>2. /\ MeasuredOncePerCall' /\ MetricsAreMeasured' /\ LiveIsKnown'
          /\ RecordInProgress' /\ LeftIsTold' /\ FreshIsAnother'
      BY <2>1 DEF IInv, MeasuredOncePerCall, Unmeasured, MetricsAreMeasured, Known,
                  Returned, LiveIsKnown, RecordInProgress, Persisting, LeftIsTold,
                  FreshIsAnother
    <2>3. KnownIsGood'
      BY <2>1 DEF IInv, KnownIsGood, Known, Returned, Persisting, Sound, Twice, Comparable
    <2>4. RecordIsTheLastResult' /\ CompletedKeepsItsConfig'
      BY <2>1, RecordsKept DEF Settled, Persisting
    <2>. QED
      BY <2>2, <2>3, <2>4 DEF IInv
  <1>. QED
    BY <1>1, SubmitStep, PrepStep, AbortStep, MeasureStep, WorkerStep, AnswerStep,
       RaiseStep, PersistStep, ReturnStep, CrashStep DEF Next, Returned

------------------------------------------------------------------------------
\* The inductive invariant holds in every state: what prep recorded reaches the
\* tag, what measurements gave reaches the prior, and what is on its way to the
\* disk is what the call returns.
THEOREM Inductive == Spec => [](TypeOK /\ IInv)
  <1>1. Init => TypeOK
    <2> SUFFICES ASSUME Init PROVE TypeOK
      OBVIOUS
    <2>1. records \in [Configs -> Files] /\ last \in [Configs -> Results \cup {None}]
      BY DEF Init, Files
    <2>2. store \in [Keys -> Artifacts \cup {None}]
      BY DEF Init
    <2>3. measured \in [Metrics -> 0 .. MaxCalls] /\ calls \in 0 .. MaxCalls
      BY ConfigAssumption DEF Init
    <2>4. left \in [Configs -> Reports \cup {None, Partial}]
      BY DEF Init
    <2>. QED
      BY <2>1, <2>2, <2>3, <2>4 DEF Init, TypeOK
  <1>2. Init => IInv
    BY ConfigAssumption DEF Init, IInv, MeasuredOncePerCall, Unmeasured, MetricsAreMeasured,
      Known, Returned, Persisting, LiveIsKnown, KnownIsGood, RecordInProgress,
      RecordIsTheLastResult, CompletedKeepsItsConfig, Settled, LeftIsTold, FreshIsAnother
  <1>3. TypeOK /\ IInv /\ [Next]_vars => (TypeOK /\ IInv)'
    BY TypeStep, InvariantStep
  <1>. QED
    BY <1>1, <1>2, <1>3, PTL DEF Spec

\* Every variable keeps its type: the files of a record hold what _persist can
\* leave in them, and no metric is counted more often than calls allow.
THEOREM TypeCorrect == Spec => []TypeOK
  BY Inductive, PTL

\* A result that may be cited completed, and neither a failed or skipped
\* validation nor a deviation that measure recorded, or prep did in the same
\* process, is behind it.
THEOREM CitedResultIsSound == Spec => []CitedIsSound
  <1>1. TypeOK /\ IInv => CitedIsSound
    BY DEF TypeOK, IInv, KnownIsGood, Known, Sound, Returned, CitedIsSound
  <1>. QED
    BY <1>1, Inductive, PTL

\* RELIABLE rests on two measurements of one value when the call that gives it
\* has measured.
THEOREM ReliableResultIsRepeated == Spec => []ReliableIsMeasuredTwice
  <1>1. TypeOK /\ IInv => ReliableIsMeasuredTwice
    BY DEF TypeOK, IInv, KnownIsGood, Known, Twice, Returned, ReliableIsMeasuredTwice
  <1>. QED
    BY <1>1, Inductive, PTL

\* What completed in this process was measured on an artifact of this environment.
THEOREM InProcessResultIsComparable == Spec => []InProcessIsComparable
  <1>1. TypeOK /\ IInv => InProcessIsComparable
    BY DEF TypeOK, IInv, KnownIsGood, Known, Comparable, Returned, InProcessIsComparable
  <1>. QED
    BY <1>1, Inductive, PTL

\* The files of a settled record are those of the last result returned for it.
THEOREM RecordHoldsTheLastResult == Spec => []RecordIsTheLastResult
  <1>1. IInv => RecordIsTheLastResult
    BY DEF IInv
  <1>. QED
    BY <1>1, Inductive, PTL

\* A completed result is persisted beside the configuration it was measured with.
THEOREM CompletedRecordKeepsItsConfig == Spec => []CompletedKeepsItsConfig
  <1>1. IInv => CompletedKeepsItsConfig
    BY DEF IInv
  <1>. QED
    BY <1>1, Inductive, PTL
==============================================================================
