------------------------------- MODULE Command -------------------------------
(***************************************************************************)
(* CommandDomain (benchmark_domains/command.py) over its stage runner      *)
(* (benchmark_ops/command.py): calls of run_lifecycle, one after another,  *)
(* for several configurations over one workroot.                           *)
(*                                                                         *)
(* A pipeline is a function from stages to what their spec says; a stage   *)
(* produces one artifact, known by the stage's name.  A file's content is  *)
(* what determined it: the triples <<stage, parameter, value>> its command *)
(* and the commands upstream of it were given.  A command that exits 0 has *)
(* written its files; one that fails, or is cut short with the harness,    *)
(* has written any of them, or part of one.  How stages that are ready     *)
(* overlap is the Scheduler's matter: here they go one by one in any order *)
(* their needs allow.                                                      *)
(***************************************************************************)
EXTENDS Naturals, FiniteSets, Gates

CONSTANTS
    Pipelines,   \* the pipelines considered
    Configs,     \* the configurations submitted: functions from parameters
    Baselines,   \* the baselines considered: configurations, or None
    Treated,     \* parameters whose path ends with the treatment's name
    Allowed,     \* parameters listed in expected_diff_from_baseline
    Required,    \* the manifest
    MaxCalls,    \* bound: calls over the workroot
    None,        \* no baseline, no file, no result
    Partial      \* {Partial}: the content of a file cut short

IsStage(st) ==
    /\ st.kind \in {"prep", "measure"}
    /\ st.gpu \in BOOLEAN
    /\ st.effective \in BOOLEAN

ASSUME CommandAssumption ==
    /\ \A pl \in Pipelines :
        IsFiniteSet(DOMAIN pl) /\ \A s \in DOMAIN pl : IsStage(pl[s])
    /\ Baselines \subseteq Configs \cup {None}
    /\ None \notin Configs \cup {"ran", "hit", "failed"}
    /\ MaxCalls \in Nat

VARIABLES
    pipe,      \* the pipeline, the same in every call
    base,      \* the baseline, the same in every call
    pc,        \* "idle", or the phase being run: "prep", "measure"
    cfg,       \* the configuration of the call
    out,       \* out[s]: how stage s ended in this call
    disk,      \* disk[s]: the files in the workdir of s, kept between calls
    cache,     \* the signature cache: keys to the files stored under them
    captured,  \* captured[s]: what the recorder was told for s in this call
    spent,     \* the GPU stages whose command was started in this call
    result,    \* what the last call that ended came to
    calls

vars == <<pipe, base, pc, cfg, out, disk, cache, captured, spent, result, calls>>

------------------------------------------------------------------------------
Stages == DOMAIN pipe
Phase(kind) == {s \in Stages : pipe[s].kind = kind}

\* The stages from which s is reached along edge, s included.
From(edge, s) ==
    {t \in Stages : \A T \in SUBSET Stages :
        s \in T /\ (\A u \in T : edge[u] \subseteq T) => t \in T}

\* What a command is told of a configuration: the parameters it names.
Given(s, c) == {<<s, p, c[p]>> : p \in pipe[s].refs \cap DOMAIN c}

\* Mutant: the key of a stage leaves out its upstream stages.
KeyOwn(s, c) == <<s, Given(s, c)>>

\* _prep_key: the stage's own parameters and, through needs, those of the
\* prep stages upstream of it.
Key(s, c) ==
    <<s, UNION {Given(t, c) :
            t \in From([u \in Stages |-> pipe[u].needs \cap Phase("prep")], s)}>>

\* The artifacts a stage's command can be given: a prep stage has those of the
\* stages it needs, a measure stage has every prep artifact as well.
Supplied(s) ==
    (pipe[s].needs \cap Phase(pipe[s].kind))
        \cup IF pipe[s].kind = "measure" THEN Phase("prep") ELSE {}

\* The placeholders of the command that are replaced by a path.
Reads(s) == pipe[s].reads \cap Supplied(s)

------------------------------------------------------------------------------
\* Mutant: validate() does not look for cycles.
ValidAcyclicOrNot(c) ==
    \A s \in Stages :
        /\ pipe[s].needs \subseteq Stages
        /\ pipe[s].refs \subseteq DOMAIN c
        /\ pipe[s].reads \subseteq Stages

\* validate(): known needs, placeholders that are a parameter of the
\* configuration or an artifact of some stage, and no cycle.
Valid(c) ==
    /\ \A s \in Stages :
        /\ pipe[s].needs \subseteq Stages
        /\ pipe[s].refs \subseteq DOMAIN c
        /\ pipe[s].reads \subseteq Stages
    /\ \A s \in Stages : \A d \in pipe[s].needs :
        s \notin From([u \in Stages |-> pipe[u].needs], d)

\* The gates a call passes before its first stage; apply_config and
\* verify_config of this domain do nothing.
Admitted(c) ==
    /\ Missing(c, Required) = {}
    /\ Valid(c)
    /\ base # None => PhaseAOk(c, base, Treated, Allowed)

------------------------------------------------------------------------------
\* Mutant: a dependent of a stage served from the cache is given the path in
\* the stage's workdir.
ArtifactInWorkdir(d) == disk[d].artifact

\* _artifact_path: in the workdir of a stage that ran, in the cache entry of
\* one that did not.
Artifact(d) == IF out[d] = "hit" THEN cache[Key(d, cfg)].artifact ELSE disk[d].artifact

Made(s) == Given(s, cfg) \cup UNION {Artifact(d) : d \in Reads(s)}

\* The files a command that ran to its end leaves.
Written(s) == [artifact |-> Made(s),
               effective |-> IF pipe[s].effective THEN Given(s, cfg) ELSE None]

\* Mutant: a stage served from the cache is charged like one that ran.
ChargedHits == {s \in Stages : pipe[s].gpu /\ out[s] \in {"ran", "hit"}}

\* The stages whose gpu_hours the run's metrics add up: a hit has none.
Charged == {s \in Stages : pipe[s].gpu /\ out[s] = "ran"}

------------------------------------------------------------------------------
Outcomes == {None, "ran", "hit", "failed"}

Init ==
    /\ pipe \in Pipelines
    /\ base \in Baselines
    /\ pc = "idle" /\ cfg = None /\ result = None
    /\ out = [s \in Stages |-> None]
    /\ disk = [s \in Stages |-> [artifact |-> None, effective |-> None]]
    /\ cache = << >>
    /\ captured = [s \in Stages |-> None]
    /\ spent = {}
    /\ calls = 0

\* run_lifecycle up to the freeze: the gates refuse or admit.
Submit(c) ==
    /\ pc = "idle" /\ calls < MaxCalls
    /\ calls' = calls + 1
    /\ cfg' = c
    /\ out' = [s \in Stages |-> None]
    /\ captured' = [s \in Stages |-> None]
    /\ spent' = {}
    /\ IF Admitted(c)
         THEN pc' = "prep" /\ result' = None
         ELSE pc' = "idle" /\ result' = [status |-> "ABORTED_PREFLIGHT"]
    /\ UNCHANGED <<pipe, base, disk, cache>>

Finish(r) == result' = r /\ pc' = "idle"

Needed(s) == pipe[s].needs \cap Phase(pc)
Ready(s) ==
    /\ s \in Phase(pc) /\ out[s] = None
    /\ \A d \in Needed(s) : out[d] # None
Runnable(s) == Ready(s) /\ \A d \in Needed(s) : out[d] # "failed"
InCache(s) == pc = "prep" /\ Key(s, cfg) \in DOMAIN cache

\* A stage with a failed dependency is not run.
UpstreamFailed(s) ==
    /\ Ready(s) /\ ~Runnable(s)
    /\ out' = [out EXCEPT ![s] = "failed"]
    /\ UNCHANGED <<pipe, base, pc, cfg, disk, cache, captured, spent, result, calls>>

Hit(s) ==
    /\ Runnable(s) /\ InCache(s)
    /\ out' = [out EXCEPT ![s] = "hit"]
    /\ UNCHANGED <<pipe, base, pc, cfg, disk, cache, captured, spent, result, calls>>

Spend(s) == spent' = IF pipe[s].gpu THEN spent \cup {s} ELSE spent

\* run_command_stage to its end; the workdir of a prep stage is then copied to
\* the cache.
Run(s) ==
    /\ Runnable(s) /\ ~InCache(s)
    /\ out' = [out EXCEPT ![s] = "ran"]
    /\ disk' = [disk EXCEPT ![s] = Written(s)]
    /\ cache' = IF pc # "prep" THEN cache
                ELSE [k \in DOMAIN cache \cup {Key(s, cfg)} |->
                        IF k = Key(s, cfg) THEN Written(s) ELSE cache[k]]
    /\ Spend(s)
    /\ UNCHANGED <<pipe, base, pc, cfg, captured, result, calls>>

\* What a command that did not get to its end leaves of each file.
Scribble(s) ==
    \E a \in {disk[s].artifact, {Partial}, Written(s).artifact},
       e \in {disk[s].effective, Written(s).effective}
               \cup IF pipe[s].effective THEN {{Partial}} ELSE {} :
        disk' = [disk EXCEPT ![s] = [artifact |-> a, effective |-> e]]

\* A non-zero exit, a VRAM peak above the budget, or metrics that cannot be read.
Fail(s) ==
    /\ Runnable(s) /\ ~InCache(s)
    /\ out' = [out EXCEPT ![s] = "failed"]
    /\ Scribble(s)
    /\ Spend(s)
    /\ UNCHANGED <<pipe, base, pc, cfg, cache, captured, result, calls>>

\* The harness dies, while a command runs or between two.
Die ==
    /\ pc # "idle"
    /\ pc' = "idle" /\ result' = None
    /\ \/ UNCHANGED disk
       \/ \E s \in Stages : Runnable(s) /\ ~InCache(s) /\ Scribble(s)
    /\ UNCHANGED <<pipe, base, cfg, out, cache, captured, spent, calls>>

------------------------------------------------------------------------------
Ended == \A s \in Phase(pc) : out[s] # None

\* Scheduler.run: stages are left and none is ready.
Stuck == pc # "idle" /\ ~Ended /\ \A s \in Stages : ~Ready(s)

\* _capture_effective looks in the workdir first, then in the cache entry.
EffectiveFile(s) ==
    IF disk[s].effective # None \/ out[s] # "hit" THEN disk[s].effective
    ELSE cache[Key(s, cfg)].effective

\* Mutant: only a stage that did not complete aborts the run.
BrokenIfFailed(s) == out[s] = "failed"

\* _run_stages aborts the run for a stage that did not complete; an effective
\* file that does not parse raises.
Broken(s) == out[s] = "failed" \/ (pipe[s].effective /\ EffectiveFile(s) = {Partial})

PhaseFails ==
    /\ pc # "idle"
    /\ \/ Stuck
       \/ Ended /\ \E s \in Phase(pc) : Broken(s)
    /\ Finish([status |-> "FAILED"])
    /\ UNCHANGED <<pipe, base, cfg, out, disk, cache, captured, spent, calls>>

PhaseSucceeds ==
    /\ pc # "idle" /\ Ended
    /\ \A s \in Phase(pc) : ~Broken(s)
    /\ captured' = [s \in Stages |->
         IF s \in Phase(pc) /\ pipe[s].effective THEN EffectiveFile(s) ELSE captured[s]]
    /\ IF pc = "prep"
         THEN pc' = "measure" /\ UNCHANGED result
         ELSE Finish([status |-> "COMPLETED", charged |-> Charged,
                      measured |-> [s \in Phase("measure") |-> disk[s].artifact]])
    /\ UNCHANGED <<pipe, base, cfg, out, disk, cache, spent, calls>>

OfStage == \E s \in Stages :
    UpstreamFailed(s) \/ Hit(s) \/ Run(s) \/ Fail(s)

Next == (\E c \in Configs : Submit(c)) \/ OfStage \/ PhaseFails \/ PhaseSucceeds \/ Die

Spec == Init /\ [][Next]_vars

------------------------------------------------------------------------------
Contents ==
    SUBSET (Stages \X (UNION {DOMAIN c : c \in Configs})
                   \X (UNION {{c[p] : p \in DOMAIN c} : c \in Configs}))
Files == LET content == Contents \cup {None, {Partial}}
         IN [artifact : content, effective : content]

TypeOK ==
    /\ pipe \in Pipelines /\ base \in Baselines
    /\ pc \in {"idle", "prep", "measure"}
    /\ pc # "idle" => cfg \in Configs /\ result = None
    /\ out \in [Stages -> Outcomes]
    /\ disk \in [Stages -> Files]
    /\ \A k \in DOMAIN cache : k \in Phase("prep") \X Contents /\ cache[k] \in Files
    /\ captured \in [Stages -> Contents \cup {None}]
    /\ spent \subseteq Stages
    /\ calls \in 0 .. MaxCalls

\* What the pipeline's author reads in it: the artifact of s is made from what
\* its command, and the commands of every stage it names, are given under c.
\* It presumes that each placeholder of an artifact is one the code replaces;
\* validate() accepts others.
Resolved == \A s \in Stages : pipe[s].reads \subseteq Supplied(s)
Declared(s, c) ==
    UNION {Given(t, c) : t \in From([u \in Stages |-> pipe[u].reads], s)}

\* command.py:226-231, the key of a stage is the identity of its content: every
\* entry was made from exactly what its key says of the stages it is made from,
\* whatever else ran, failed or was cut short in the same workdirs.
EntryMatchesKey ==
    Resolved => \A k \in DOMAIN cache :
        cache[k].artifact =
            {g \in k[2] : g[1] \in From([u \in Stages |-> pipe[u].reads], k[1])}

\* A completed run measured artifacts made under its own configuration, from
\* the first stage on, although any of them may come from an earlier call.
MeasuredIsDeclared ==
    Resolved /\ result # None /\ result.status = "COMPLETED" =>
        \A s \in Phase("measure") : result.measured[s] = Declared(s, cfg)

\* sweep.py:4-5, preflight-gated so that only the treatment differs: whatever
\* went into a completed run's measurement has the baseline's value, unless it
\* is the treatment, an allowed drift, or a parameter the baseline lacks.
OnlyTheTreatmentDiffers ==
    base # None /\ result # None /\ result.status = "COMPLETED" =>
        \A s \in Phase("measure") : \A g \in result.measured[s] :
            \/ g[2] \in Treated \cup Allowed
            \/ g[2] \notin DOMAIN base
            \/ g[3] = base[g[2]]

\* command.py:131, the GPU-hours of a completed run are those of the commands
\* this call started: nothing for a hit, everything for the rest.
ChargedIsSpent ==
    result # None /\ result.status = "COMPLETED" => result.charged = spent

\* command.py:95-112, the cycle check stands for the scheduler's: a pipeline it
\* admits never leaves the scheduler without a stage to start.
AdmittedNeverSticks == ~Stuck

------------------------------------------------------------------------------
\* command.py:173-174, a statement the code does not keep: what is recorded for
\* a stage as its effective configuration is what its command used.
EffectiveIsOwn ==
    result # None /\ result.status = "COMPLETED" =>
        \A s \in Stages : pipe[s].effective => captured[s] = Given(s, cfg)

==============================================================================
