---------------------------- MODULE CommandProofs ----------------------------
(***************************************************************************)
(* Proofs about Command, for any pipelines, configurations and baselines,  *)
(* and any number of calls over one workroot.  What a file holds is given  *)
(* by a closure over the stages its command read; the invariant says that  *)
(* of every file a call relies on, whichever call wrote it.                *)
(***************************************************************************)
EXTENDS Command, TLAPS, FiniteSetTheorems

Prep == Phase("prep")
ReadsOf == [u \in Stages |-> Reads(u)]
NeedsOf == [u \in Stages |-> pipe[u].needs]
PrepNeeds == [u \in Stages |-> pipe[u].needs \cap Prep]

\* What the artifact of s is made from: what its command, and those of the
\* stages whose artifacts it was given, are told of c.
Content(s, c) == UNION {Given(t, c) : t \in From(ReadsOf, s)}

\* A call that got past its gates.
Running == pc # "idle"
Completed == result # None /\ result.status = "COMPLETED"

\* Prep stages run before measure stages; only they have cache entries.
PhasesInOrder ==
    /\ pc = "prep" => \A s \in Stages \ Prep : out[s] = None
    /\ pc = "measure" => \A s \in Prep : out[s] \in {"ran", "hit"}
    /\ Running => \A s \in Stages : out[s] = "hit" => s \in Prep
\* The artifacts a call relies on are those of its own configuration.
ArtifactsAreCurrent ==
    Running => \A s \in Stages :
        /\ out[s] = "ran" => disk[s].artifact = Content(s, cfg)
        /\ out[s] = "hit" => Key(s, cfg) \in DOMAIN cache
\* The key of an entry says what its artifact is made from.
EntriesAreKeyed ==
    \A k \in DOMAIN cache :
        cache[k].artifact = {g \in k[2] : g[1] \in From(ReadsOf, k[1])}
\* What was started on a GPU ran or failed; all that ran was started.
SpentIsStarted ==
    Running =>
        /\ {s \in Stages : pipe[s].gpu /\ out[s] = "ran"} \subseteq spent
        /\ spent \subseteq {s \in Stages : pipe[s].gpu /\ out[s] \in {"ran", "failed"}}
\* What a completed call reported.
ResultIsCurrent ==
    Completed =>
        /\ result.charged = spent
        /\ result.measured = [s \in Phase("measure") |-> Content(s, cfg)]

IInv ==
    /\ Running \/ Completed => Admitted(cfg)
    /\ PhasesInOrder
    /\ ArtifactsAreCurrent
    /\ EntriesAreKeyed
    /\ SpentIsStarted
    /\ ResultIsCurrent


------------------------------------------------------------------------------
(* The closure.                                                            *)

\* A stage is reached from itself.
LEMMA FromSelf ==
    ASSUME NEW edge, NEW s \in Stages
    PROVE  s \in From(edge, s) /\ From(edge, s) \subseteq Stages
  BY DEF From

\* What an edge leads to is reached.
LEMMA FromClosed ==
    ASSUME NEW edge, NEW s, NEW u \in From(edge, s)
    PROVE  edge[u] \cap Stages \subseteq From(edge, s)
  BY DEF From

\* Nothing outside a closed set is reached from inside.
LEMMA FromLeast ==
    ASSUME NEW edge, NEW T \in SUBSET Stages, NEW s \in T,
           \A u \in T : edge[u] \subseteq T
    PROVE  From(edge, s) \subseteq T
  BY DEF From

\* What is reached over d is reached.
LEMMA FromTransitive ==
    ASSUME NEW edge, \A u \in Stages : edge[u] \subseteq Stages,
           NEW s \in Stages, NEW d \in From(edge, s)
    PROVE  From(edge, d) \subseteq From(edge, s)
  <1>1. From(edge, s) \in SUBSET Stages
    BY FromSelf
  <1>2. \A u \in From(edge, s) : edge[u] \subseteq From(edge, s)
    BY <1>1, FromClosed
  <1>. QED
    BY <1>1, <1>2, FromLeast

\* A stage reaches itself, and what the stages it has an edge to reach.
LEMMA FromStep ==
    ASSUME NEW edge, \A u \in Stages : edge[u] \subseteq Stages, NEW s \in Stages
    PROVE  From(edge, s) = {s} \cup UNION {From(edge, d) : d \in edge[s]}
  <1> DEFINE T == {s} \cup UNION {From(edge, d) : d \in edge[s]}
  <1>1. s \in From(edge, s) /\ edge[s] \subseteq From(edge, s)
    BY FromSelf, FromClosed
  <1>2. T \subseteq From(edge, s)
    BY <1>1, FromTransitive
  <1>3. T \in SUBSET Stages
    BY <1>2, FromSelf
  <1>4. \A u \in T : edge[u] \subseteq T
    <2> SUFFICES ASSUME NEW u \in T, NEW v \in edge[u] PROVE v \in T
      OBVIOUS
    <2>1. v \in Stages
      BY <1>3
    <2>2. CASE u = s
      BY <2>1, <2>2, FromSelf
    <2>3. CASE \E d \in edge[s] : u \in From(edge, d)
      BY <2>1, <2>3, FromClosed
    <2>. QED
      BY <2>2, <2>3
  <1>5. From(edge, s) \subseteq T
    <2>. HIDE DEF T
    <2>1. s \in T
      BY DEF T
    <2>. QED
      BY <2>1, <1>3, <1>4, FromLeast
  <1>. QED
    BY <1>2, <1>5

------------------------------------------------------------------------------
(* The pipeline does not change.                                           *)

\* What the pipeline alone determines stays when the pipeline does.
LEMMA SamePipe ==
    ASSUME pipe' = pipe
    PROVE  /\ Stages' = Stages /\ Prep' = Prep /\ ReadsOf' = ReadsOf
           /\ \A kind : Phase(kind)' = Phase(kind)
           /\ \A edge, s : From(edge, s)' = From(edge, s)
           /\ \A s, c : Given(s, c)' = Given(s, c)
           /\ \A s, c : Key(s, c)' = Key(s, c)
           /\ \A s, c : Content(s, c)' = Content(s, c)
  <1>1. Stages' = Stages /\ \A kind : Phase(kind)' = Phase(kind)
    BY DEF Stages, Phase
  <1>2. Prep' = Prep
    BY <1>1 DEF Prep
  <1>3. \A edge, s : From(edge, s)' = From(edge, s)
    BY <1>1 DEF From
  <1>4. \A s, c : Given(s, c)' = Given(s, c)
    BY DEF Given
  <1>5. ReadsOf' = ReadsOf
    BY <1>1 DEF ReadsOf, Reads, Supplied
  <1>6. \A s, c : Key(s, c)' = Key(s, c)
    BY <1>1, <1>3, <1>4 DEF Key
  <1>7. \A s, c : Content(s, c)' = Content(s, c)
    BY <1>3, <1>4, <1>5 DEF Content
  <1>. QED
    BY <1>1, <1>2, <1>3, <1>4, <1>5, <1>6, <1>7

\* Kinds, and the edges of the closures.
LEMMA PipeShape ==
    ASSUME pipe \in Pipelines
    PROVE  /\ IsFiniteSet(Stages)
           /\ Prep \subseteq Stages /\ Phase("measure") = Stages \ Prep
           /\ \A u \in Stages : ReadsOf[u] = Reads(u) /\ ReadsOf[u] \subseteq Stages
           /\ \A u \in Prep : ReadsOf[u] \subseteq PrepNeeds[u]
           /\ \A u \in Stages : PrepNeeds[u] \subseteq Prep
  BY CommandAssumption DEF IsStage, Stages, Prep, Phase, ReadsOf, PrepNeeds, Reads, Supplied

\* Only prep stages are upstream of a prep stage's key.
LEMMA PrepReachesPrep ==
    ASSUME pipe \in Pipelines, NEW s \in Prep
    PROVE  /\ From(PrepNeeds, s) \subseteq Prep
           /\ From(ReadsOf, s) \subseteq From(PrepNeeds, s)
  <1>1. From(PrepNeeds, s) \subseteq Prep
    BY PipeShape, FromLeast
  <1>2. \A u \in From(PrepNeeds, s) : ReadsOf[u] \subseteq From(PrepNeeds, s)
    BY <1>1, PipeShape, FromClosed
  <1>3. s \in From(PrepNeeds, s) /\ From(PrepNeeds, s) \in SUBSET Stages
    BY PipeShape, FromSelf
  <1>. QED
    BY <1>1, <1>2, <1>3, FromLeast

\* The part of a key that is about the stages read is the content.
LEMMA KeyNamesContent ==
    ASSUME pipe \in Pipelines, NEW s \in Prep, NEW c
    PROVE  /\ Key(s, c)[1] = s
           /\ {g \in Key(s, c)[2] : g[1] \in From(ReadsOf, s)} = Content(s, c)
  <1>1. Key(s, c) = <<s, UNION {Given(t, c) : t \in From(PrepNeeds, s)}>>
    BY DEF Key, PrepNeeds, Prep
  <1>2. \A t : \A g \in Given(t, c) : g[1] = t
    BY DEF Given
  <1>. QED
    BY <1>1, <1>2, PrepReachesPrep DEF Content

\* The content of a stage is what its command is told, and the contents of the
\* artifacts it reads.
LEMMA ContentStep ==
    ASSUME pipe \in Pipelines, NEW s \in Stages, NEW c
    PROVE  Content(s, c) = Given(s, c) \cup UNION {Content(d, c) : d \in Reads(s)}
  <1>1. From(ReadsOf, s) = {s} \cup UNION {From(ReadsOf, d) : d \in Reads(s)}
    BY PipeShape, FromStep
  <1>. QED
    BY <1>1 DEF Content

------------------------------------------------------------------------------
(* What a command finds and leaves.                                        *)

\* An artifact's content is a set of triples of this pipeline's stages.
LEMMA ContentType ==
    ASSUME pipe \in Pipelines, NEW s \in Stages, NEW c \in Configs
    PROVE  /\ Given(s, c) \in Contents /\ Content(s, c) \in Contents
           /\ s \in Prep => Key(s, c) \in Phase("prep") \X Contents
  <1>1. \A t \in Stages : Given(t, c) \in Contents
    BY DEF Given, Contents
  <1>2. From(ReadsOf, s) \subseteq Stages
    BY FromSelf
  <1>3. Content(s, c) \in Contents
    BY <1>1, <1>2 DEF Content, Contents
  <1>4. s \in Prep => Key(s, c) \in Phase("prep") \X Contents
    <2> SUFFICES ASSUME s \in Prep PROVE Key(s, c) \in Phase("prep") \X Contents
      OBVIOUS
    <2> DEFINE K == UNION {Given(t, c) : t \in From(PrepNeeds, s)}
    <2>1. Key(s, c) = <<s, K>> /\ s \in Phase("prep")
      BY DEF Key, PrepNeeds, Prep
    <2>2. K \in Contents
      BY <1>1, FromSelf DEF Contents
    <2>. HIDE DEF K
    <2>. QED
      BY <2>1, <2>2
  <1>. QED
    BY <1>1, <1>3, <1>4

\* A stage that can start is of the phase being run.
LEMMA RunnableRuns ==
    ASSUME TypeOK, NEW s \in Stages, Ready(s)
    PROVE  Running /\ pipe[s].kind = pc /\ out[s] = None /\ cfg \in Configs
  BY CommandAssumption DEF TypeOK, Ready, Phase, Running, Stages, IsStage

\* A stage that ended well in this call has the artifact of this configuration.
LEMMA ArtifactIsContent ==
    ASSUME TypeOK, IInv, Running, NEW d \in Stages, out[d] \in {"ran", "hit"}
    PROVE  Artifact(d) = Content(d, cfg)
  <1>1. CASE out[d] = "ran"
    BY <1>1 DEF Artifact, IInv, ArtifactsAreCurrent
  <1>2. CASE out[d] = "hit"
    <2>1. d \in Prep /\ Key(d, cfg) \in DOMAIN cache
      BY <1>2 DEF IInv, ArtifactsAreCurrent, PhasesInOrder, TypeOK, Running
    <2>2. pipe \in Pipelines
      BY DEF TypeOK
    <2>3. Artifact(d) = {g \in Key(d, cfg)[2] : g[1] \in From(ReadsOf, Key(d, cfg)[1])}
      BY <1>2, <2>1 DEF Artifact, IInv, EntriesAreKeyed
    <2>. QED
      BY <2>1, <2>2, <2>3, KeyNamesContent
  <1>. QED
    BY <1>1, <1>2

\* A command that can start finds every artifact it reads; what it writes is
\* its content.
LEMMA WritesContent ==
    ASSUME TypeOK, IInv, NEW s \in Stages, Runnable(s)
    PROVE  Written(s).artifact = Content(s, cfg) /\ Written(s) \in Files
  <1>1. Running /\ pipe[s].kind = pc /\ cfg \in Configs /\ pipe \in Pipelines
    BY RunnableRuns DEF Runnable, TypeOK
  <1>2. \A d \in Reads(s) : d \in Stages /\ out[d] \in {"ran", "hit"}
    <2> SUFFICES ASSUME NEW d \in Reads(s) PROVE d \in Stages /\ out[d] \in {"ran", "hit"}
      OBVIOUS
    <2>1. CASE d \in pipe[s].needs \cap Phase(pc)
      <3>1. d \in Stages /\ out[d] # None /\ out[d] # "failed"
        BY <2>1 DEF Runnable, Ready, Needed, Phase
      <3>. QED
        BY <3>1 DEF TypeOK, Outcomes
    <2>2. CASE pc = "measure" /\ d \in Prep
      BY <2>2, PipeShape, <1>1 DEF IInv, PhasesInOrder
    <2>. QED
      BY <1>1, <2>1, <2>2 DEF Reads, Supplied, Prep
  <1>3. Made(s) = Given(s, cfg) \cup UNION {Content(d, cfg) : d \in Reads(s)}
    BY <1>1, <1>2, ArtifactIsContent DEF Made
  <1>4. Made(s) = Content(s, cfg)
    BY <1>1, <1>3, ContentStep
  <1>. QED
    BY <1>1, <1>4, ContentType DEF Written, Files

\* What a command that stopped half-way leaves.
LEMMA ScribbleType ==
    ASSUME TypeOK, IInv, NEW s \in Stages, Runnable(s), Scribble(s)
    PROVE  /\ disk' \in [Stages -> Files]
           /\ \A t \in Stages \ {s} : disk'[t] = disk[t]
  <1>1. disk[s] \in Files /\ Written(s) \in Files
    BY WritesContent DEF TypeOK
  <1>. QED
    BY <1>1 DEF Scribble, Files, TypeOK

\* The entry stored by a prep stage.
LEMMA StoreType ==
    ASSUME NEW s, Run(s), pc = "prep"
    PROVE  /\ DOMAIN cache' = DOMAIN cache \cup {Key(s, cfg)}
           /\ cache'[Key(s, cfg)] = Written(s)
           /\ \A k \in DOMAIN cache \ {Key(s, cfg)} : cache'[k] = cache[k]
  BY DEF Run

\* Every step keeps the types.
LEMMA TypeStep == TypeOK /\ IInv /\ [Next]_vars => TypeOK'
  <1> SUFFICES ASSUME TypeOK, IInv, [Next]_vars PROVE TypeOK'
    OBVIOUS
  <1>1. pipe' = pipe /\ base' = base
    BY DEF Next, Submit, OfStage, UpstreamFailed, Hit, Run, Fail, PhaseFails,
           PhaseSucceeds, Die, vars
  <1>2. /\ Stages' = Stages /\ Prep' = Prep /\ Contents' = Contents /\ Files' = Files
        /\ Phase("prep")' = Phase("prep")
    <2>1. Stages' = Stages /\ Prep' = Prep /\ Phase("prep")' = Phase("prep")
      BY <1>1, SamePipe
    <2>. QED
      BY <2>1 DEF Contents, Files
  <1>3. ASSUME NEW c \in Configs, Submit(c) PROVE TypeOK'
    BY <1>1, <1>2, <1>3, CommandAssumption DEF Submit, TypeOK, Outcomes
  <1>4. ASSUME NEW s \in Stages, UpstreamFailed(s) \/ Hit(s) PROVE TypeOK'
    BY <1>1, <1>2, <1>4 DEF UpstreamFailed, Hit, TypeOK, Outcomes
  <1>5. ASSUME NEW s \in Stages, Run(s) PROVE TypeOK'
    <2>1. Written(s) \in Files /\ cfg \in Configs /\ pipe[s].kind = pc
      BY <1>5, WritesContent, RunnableRuns DEF Run, Runnable
    <2>2. disk' \in [Stages -> Files] /\ out' \in [Stages -> Outcomes] /\ spent' \subseteq Stages
      BY <1>5, <2>1 DEF Run, Spend, TypeOK, Outcomes
    <2>3. \A k \in DOMAIN cache' : k \in Phase("prep") \X Contents /\ cache'[k] \in Files
      <3>1. CASE pc = "prep"
        <4>1. s \in Prep
          BY <2>1, <3>1 DEF Prep, Phase
        <4>2. Key(s, cfg) \in Phase("prep") \X Contents
          BY <2>1, <4>1, ContentType DEF TypeOK
        <4>3. \A k \in DOMAIN cache' :
                k = Key(s, cfg) \/ (k \in DOMAIN cache /\ cache'[k] = cache[k])
          <5>1. /\ DOMAIN cache' = DOMAIN cache \cup {Key(s, cfg)}
                /\ \A k \in DOMAIN cache \ {Key(s, cfg)} : cache'[k] = cache[k]
            BY <1>5, <3>1, StoreType
          <5>. QED
            BY <5>1
        <4>4. cache'[Key(s, cfg)] \in Files
          BY <1>5, <2>1, <3>1, StoreType
        <4>. QED
          BY <4>2, <4>3, <4>4 DEF TypeOK
      <3>2. CASE pc # "prep"
        BY <1>5, <3>2 DEF Run, TypeOK
      <3>. QED
        BY <3>1, <3>2
    <2>. QED
      BY <1>1, <1>2, <1>5, <2>2, <2>3 DEF Run, TypeOK
  <1>6. ASSUME NEW s \in Stages, Fail(s) PROVE TypeOK'
    <2>1. disk' \in [Stages -> Files]
      BY <1>6, ScribbleType DEF Fail
    <2>2. out' \in [Stages -> Outcomes] /\ spent' \subseteq Stages
      BY <1>6 DEF Fail, Spend, TypeOK, Outcomes
    <2>. QED
      BY <1>1, <1>2, <1>6, <2>1, <2>2 DEF Fail, TypeOK
  <1>7. CASE PhaseFails
    BY <1>1, <1>2, <1>7 DEF PhaseFails, Finish, TypeOK
  <1>8. CASE PhaseSucceeds
    <2>1. captured' \in [Stages -> Contents \cup {None}]
      <3>1. \A s \in Phase(pc) : pipe[s].effective =>
              EffectiveFile(s) \in Contents \cup {None}
        <4> SUFFICES ASSUME NEW s \in Phase(pc), pipe[s].effective
                     PROVE  EffectiveFile(s) \in Contents \cup {None}
          OBVIOUS
        <4>1. s \in Stages /\ EffectiveFile(s) # {Partial} /\ Running
          BY <1>8 DEF PhaseSucceeds, Broken, Phase, Running
        <4>2. out[s] = "hit" => Key(s, cfg) \in DOMAIN cache
          BY <4>1 DEF IInv, ArtifactsAreCurrent
        <4>3. /\ disk[s].effective \in Contents \cup {None, {Partial}}
              /\ out[s] = "hit" =>
                   cache[Key(s, cfg)].effective \in Contents \cup {None, {Partial}}
          BY <4>1, <4>2 DEF TypeOK, Files
        <4>. QED
          BY <4>1, <4>3 DEF EffectiveFile
      <3>. QED
        BY <1>8, <3>1 DEF PhaseSucceeds, TypeOK
    <2>2. pc' \in {"prep", "measure", "idle"} /\ (pc' # "idle" => cfg' \in Configs /\ result' = None)
      BY <1>8 DEF PhaseSucceeds, Finish, TypeOK
    <2>. QED
      BY <1>1, <1>2, <1>8, <2>1, <2>2 DEF PhaseSucceeds, TypeOK
  <1>9. CASE Die
    <2>1. disk' \in [Stages -> Files]
      BY <1>9, ScribbleType DEF Die, TypeOK
    <2>. QED
      BY <1>1, <1>2, <1>9, <2>1 DEF Die, TypeOK
  <1>10. CASE UNCHANGED vars
    BY <1>1, <1>2, <1>10 DEF vars, TypeOK
  <1>. QED
    BY <1>3, <1>4, <1>5, <1>6, <1>7, <1>8, <1>9, <1>10 DEF Next, OfStage

------------------------------------------------------------------------------
(* The invariant.                                                          *)

\* The gates decide on the configuration, the pipeline and the baseline only.
LEMMA SameAdmission ==
    ASSUME pipe' = pipe, base' = base, NEW c
    PROVE  Admitted(c)' <=> Admitted(c)
  <1>1. NeedsOf' = NeedsOf /\ Stages' = Stages
    BY DEF NeedsOf, Stages
  <1>2. Valid(c)' <=> Valid(c)
    BY <1>1, SamePipe DEF Valid, NeedsOf
  <1>. QED
    BY <1>2 DEF Admitted

\* Entries that were there keep saying what they are made from.
LEMMA EntriesKept ==
    ASSUME IInv, pipe' = pipe, cache' = cache
    PROVE  EntriesAreKeyed'
  BY SamePipe DEF IInv, EntriesAreKeyed

\* How a stage ends: nothing is known of the call's result yet.
LEMMA StageKeeps ==
    ASSUME TypeOK, IInv, NEW s \in Stages, Ready(s),
           NEW v \in {"ran", "hit", "failed"}, v = "hit" => pc = "prep",
           out' = [out EXCEPT ![s] = v], UNCHANGED <<pipe, base, pc, cfg, result>>
    PROVE  /\ Running' \/ Completed' => Admitted(cfg)'
           /\ PhasesInOrder' /\ ResultIsCurrent'
           /\ \A t \in Stages \ {s} : out'[t] = out[t]
           /\ out[s] = None /\ out'[s] = v /\ Running
  <1>1. Running /\ pipe[s].kind = pc /\ out[s] = None
    BY RunnableRuns
  <1>2. ~Completed'
    BY <1>1 DEF TypeOK, Completed, Running
  <1>3. Admitted(cfg)'
    BY <1>1, SameAdmission DEF IInv
  <1>4. Stages' = Stages /\ Prep' = Prep
    BY SamePipe
  <1>5. out'[s] = v /\ \A t \in Stages \ {s} : out'[t] = out[t]
    BY DEF TypeOK
  <1>6. s \in Prep <=> pc = "prep"
    BY <1>1 DEF Prep, Phase
  <1>7. PhasesInOrder'
    BY <1>1, <1>4, <1>5, <1>6 DEF IInv, PhasesInOrder, Running, TypeOK
  <1>. QED
    BY <1>1, <1>2, <1>3, <1>5, <1>7 DEF ResultIsCurrent

\* A call passes its gates, or is refused, with nothing started yet.
LEMMA SubmitStep ==
    ASSUME TypeOK, IInv, NEW c \in Configs, Submit(c)
    PROVE  IInv'
  <1>1. /\ pipe' = pipe /\ base' = base /\ cfg' = c /\ cache' = cache /\ spent' = {}
        /\ out' = [s \in Stages |-> None]
        /\ IF Admitted(c) THEN pc' = "prep" /\ result' = None
           ELSE pc' = "idle" /\ result' = [status |-> "ABORTED_PREFLIGHT"]
    BY DEF Submit
  <1>2. ~Completed' /\ (Running' => Admitted(c))
    BY <1>1 DEF Completed, Running
  <1>3. Running' => Admitted(cfg)'
    BY <1>1, <1>2, SameAdmission
  <1>4. Stages' = Stages /\ Prep' = Prep /\ \A s \in Stages : out'[s] = None
    BY <1>1, SamePipe
  <1>5. PhasesInOrder' /\ ArtifactsAreCurrent' /\ SpentIsStarted'
    BY <1>1, <1>4, CommandAssumption DEF PhasesInOrder, ArtifactsAreCurrent, SpentIsStarted,
                                         Running
  <1>. QED
    BY <1>1, <1>2, <1>3, <1>5, EntriesKept DEF IInv, ResultIsCurrent

\* A hit has the entry of its key; a stage below a failed one has nothing.
LEMMA NoCommandStep ==
    ASSUME TypeOK, IInv, NEW s \in Stages, UpstreamFailed(s) \/ Hit(s)
    PROVE  IInv'
  <1> DEFINE v == IF Hit(s) THEN "hit" ELSE "failed"
  <1>1. /\ Ready(s) /\ (v = "hit" => pc = "prep" /\ Key(s, cfg) \in DOMAIN cache)
        /\ v \in {"hit", "failed"} /\ out' = [out EXCEPT ![s] = v]
        /\ UNCHANGED <<pipe, base, pc, cfg, disk, cache, spent, result>>
    BY DEF UpstreamFailed, Hit, Runnable, InCache
  <1>. HIDE DEF v
  <1>2. /\ Running' \/ Completed' => Admitted(cfg)'
        /\ PhasesInOrder' /\ ResultIsCurrent'
        /\ \A t \in Stages \ {s} : out'[t] = out[t]
        /\ out[s] = None /\ out'[s] = v /\ Running
    BY <1>1, StageKeeps
  <1>3. ArtifactsAreCurrent'
    BY <1>1, <1>2, SamePipe DEF IInv, ArtifactsAreCurrent
  <1>4. SpentIsStarted'
    BY <1>1, <1>2, SamePipe, CommandAssumption DEF IInv, SpentIsStarted
  <1>. QED
    BY <1>1, <1>2, <1>3, <1>4, EntriesKept DEF IInv

\* A command that ran leaves its content, and stores it under its key.
LEMMA RunStep ==
    ASSUME TypeOK, IInv, NEW s \in Stages, Run(s)
    PROVE  IInv'
  <1>1. /\ Runnable(s) /\ Ready(s) /\ out' = [out EXCEPT ![s] = "ran"]
        /\ disk' = [disk EXCEPT ![s] = Written(s)] /\ Spend(s)
        /\ UNCHANGED <<pipe, base, pc, cfg, result>>
    BY DEF Run, Runnable
  <1>2. /\ Running' \/ Completed' => Admitted(cfg)'
        /\ PhasesInOrder' /\ ResultIsCurrent'
        /\ \A t \in Stages \ {s} : out'[t] = out[t]
        /\ out[s] = None /\ out'[s] = "ran" /\ Running
    BY <1>1, StageKeeps
  <1>3. Written(s).artifact = Content(s, cfg) /\ pipe[s].kind = pc /\ pipe \in Pipelines
    BY <1>1, WritesContent, RunnableRuns DEF TypeOK
  <1>4. DOMAIN cache \subseteq DOMAIN cache'
    BY DEF Run
  <1>5. ArtifactsAreCurrent'
    <2> SUFFICES ASSUME NEW t \in Stages
                 PROVE  /\ out'[t] = "ran" => disk'[t].artifact = Content(t, cfg)
                        /\ out'[t] = "hit" => Key(t, cfg) \in DOMAIN cache'
      BY <1>1, SamePipe DEF ArtifactsAreCurrent
    <2>1. CASE t = s
      BY <1>1, <1>2, <1>3, <2>1 DEF TypeOK
    <2>2. CASE t # s
      BY <1>1, <1>2, <1>4, <2>2 DEF IInv, ArtifactsAreCurrent, TypeOK
    <2>. QED
      BY <2>1, <2>2
  <1>6. EntriesAreKeyed'
    <2>1. CASE pc = "prep"
      <3>1. s \in Prep
        BY <1>3, <2>1 DEF Prep, Phase
      <3>2. Written(s).artifact =
              {g \in Key(s, cfg)[2] : g[1] \in From(ReadsOf, Key(s, cfg)[1])}
        BY <1>3, <3>1, KeyNamesContent
      <3> SUFFICES ASSUME NEW k \in DOMAIN cache'
                   PROVE  cache'[k].artifact = {g \in k[2] : g[1] \in From(ReadsOf, k[1])}
        BY <1>1, SamePipe DEF EntriesAreKeyed
      <3>3. CASE k = Key(s, cfg)
        BY <2>1, <3>2, <3>3, StoreType
      <3>4. CASE k # Key(s, cfg)
        <4>1. k \in DOMAIN cache /\ cache'[k] = cache[k]
          <5>1. /\ DOMAIN cache' = DOMAIN cache \cup {Key(s, cfg)}
                /\ \A j \in DOMAIN cache \ {Key(s, cfg)} : cache'[j] = cache[j]
            BY <2>1, StoreType
          <5>. QED
            BY <3>4, <5>1
        <4>. QED
          BY <4>1 DEF IInv, EntriesAreKeyed
      <3>. QED
        BY <3>3, <3>4
    <2>2. CASE pc # "prep"
      BY <1>1, <2>2, EntriesKept DEF Run
    <2>. QED
      BY <2>1, <2>2
  <1>7. SpentIsStarted'
    BY <1>1, <1>2, SamePipe, CommandAssumption DEF IInv, SpentIsStarted, Spend
  <1>. QED
    BY <1>2, <1>5, <1>6, <1>7 DEF IInv

\* A command that failed has touched the files of its own stage only.
LEMMA FailStep ==
    ASSUME TypeOK, IInv, NEW s \in Stages, Fail(s)
    PROVE  IInv'
  <1>1. /\ Runnable(s) /\ Ready(s) /\ out' = [out EXCEPT ![s] = "failed"]
        /\ Scribble(s) /\ Spend(s)
        /\ UNCHANGED <<pipe, base, pc, cfg, cache, result>>
    BY DEF Fail, Runnable
  <1>2. /\ Running' \/ Completed' => Admitted(cfg)'
        /\ PhasesInOrder' /\ ResultIsCurrent'
        /\ \A t \in Stages \ {s} : out'[t] = out[t]
        /\ out[s] = None /\ out'[s] = "failed" /\ Running
    BY <1>1, StageKeeps
  <1>3. \A t \in Stages \ {s} : disk'[t] = disk[t]
    BY <1>1, ScribbleType
  <1>4. ArtifactsAreCurrent'
    BY <1>1, <1>2, <1>3, SamePipe DEF IInv, ArtifactsAreCurrent
  <1>5. SpentIsStarted'
    BY <1>1, <1>2, SamePipe, CommandAssumption DEF IInv, SpentIsStarted, Spend
  <1>. QED
    BY <1>1, <1>2, <1>4, <1>5, EntriesKept DEF IInv

\* The call goes on to its measure stages, or is completed.
LEMMA SucceedStep ==
    ASSUME TypeOK, IInv, PhaseSucceeds
    PROVE  IInv'
  <1>1. /\ Running /\ UNCHANGED <<pipe, base, cfg, out, disk, cache, spent>>
        /\ \A s \in Phase(pc) : out[s] # None /\ out[s] # "failed"
    BY DEF PhaseSucceeds, Ended, Broken, Running
  <1>2. /\ Stages' = Stages /\ Prep' = Prep /\ EntriesAreKeyed'
        /\ (Running' \/ Completed' => Admitted(cfg)')
    BY <1>1, SamePipe, EntriesKept, SameAdmission DEF IInv
  <1>3. \A s \in Phase(pc) : out[s] \in {"ran", "hit"}
    BY <1>1 DEF TypeOK, Outcomes, Phase
  <1>4. CASE pc = "prep"
    <2>1. pc' = "measure" /\ result' = result /\ ~Completed'
      BY <1>1, <1>4 DEF PhaseSucceeds, TypeOK, Running, Completed
    <2>2. PhasesInOrder'
      BY <1>1, <1>2, <1>3, <1>4, <2>1 DEF IInv, PhasesInOrder, Running, Prep
    <2>3. ArtifactsAreCurrent' /\ SpentIsStarted'
      BY <1>1, <2>1, SamePipe DEF IInv, ArtifactsAreCurrent, SpentIsStarted, Running
    <2>. QED
      BY <1>2, <2>1, <2>2, <2>3 DEF IInv, ResultIsCurrent
  <1>5. CASE pc = "measure"
    <2>1. /\ pc' = "idle"
          /\ result' = [status |-> "COMPLETED", charged |-> Charged,
                        measured |-> [s \in Phase("measure") |-> disk[s].artifact]]
      BY <1>5 DEF PhaseSucceeds, Finish
    <2>2. \A s \in Stages : out[s] \in {"ran", "hit"}
      BY <1>3, <1>5, PipeShape DEF IInv, PhasesInOrder, TypeOK
    <2>3. Charged = spent
      BY <1>1, <2>2 DEF Charged, IInv, SpentIsStarted, TypeOK
    <2>4. \A s \in Phase("measure") : disk[s].artifact = Content(s, cfg)
      <3>1. \A s \in Phase("measure") : s \in Stages /\ out[s] = "ran"
        BY <1>1, <2>2, PipeShape DEF IInv, PhasesInOrder, TypeOK
      <3>. QED
        BY <1>1, <3>1 DEF IInv, ArtifactsAreCurrent
    <2>5. ResultIsCurrent'
      <3>1. result'.charged = spent'
        BY <1>1, <2>1, <2>3
      <3>2. result'.measured = [s \in Phase("measure") |-> Content(s, cfg)]
        BY <2>1, <2>4
      <3>. QED
        BY <1>1, <3>1, <3>2, SamePipe DEF ResultIsCurrent
    <2>6. PhasesInOrder' /\ ArtifactsAreCurrent' /\ SpentIsStarted'
      BY <2>1 DEF PhasesInOrder, ArtifactsAreCurrent, SpentIsStarted, Running
    <2>. QED
      BY <1>2, <2>5, <2>6 DEF IInv
  <1>. QED
    BY <1>1, <1>4, <1>5 DEF TypeOK, Running

\* A call that failed or died says nothing.
LEMMA EndStep ==
    ASSUME TypeOK, IInv, PhaseFails \/ Die
    PROVE  IInv'
  <1>1. /\ pipe' = pipe /\ cache' = cache /\ pc' = "idle"
        /\ result' = None \/ result' = [status |-> "FAILED"]
    BY DEF PhaseFails, Finish, Die
  <1>2. ~Running' /\ ~Completed'
    BY <1>1 DEF Running, Completed
  <1>. QED
    BY <1>1, <1>2, EntriesKept DEF IInv, PhasesInOrder, ArtifactsAreCurrent,
       SpentIsStarted, ResultIsCurrent, Running

\* No step disturbs the invariant.
LEMMA InvariantStep == TypeOK /\ IInv /\ [Next]_vars => IInv'
  <1>1. ASSUME TypeOK, IInv, UNCHANGED vars PROVE IInv'
    <2>1. /\ UNCHANGED <<pipe, base, pc, cfg, out, disk, cache, spent, result>>
          /\ (Admitted(cfg)' <=> Admitted(cfg))
      BY <1>1, SameAdmission DEF vars
    <2>2. PhasesInOrder' /\ ArtifactsAreCurrent' /\ SpentIsStarted'
      BY <1>1, <2>1, SamePipe DEF IInv, PhasesInOrder, ArtifactsAreCurrent, SpentIsStarted,
                                  Running
    <2>3. ResultIsCurrent'
      BY <1>1, <2>1, SamePipe DEF IInv, ResultIsCurrent, Completed
    <2>. QED
      BY <1>1, <2>1, <2>2, <2>3, EntriesKept DEF IInv, Running, Completed
  <1>. QED
    BY <1>1, SubmitStep, NoCommandStep, RunStep, FailStep, SucceedStep, EndStep
    DEF Next, OfStage

------------------------------------------------------------------------------
\* The inductive invariant holds in every state: what a call relies on is its
\* own content, although files and entries outlive the calls that wrote them.
THEOREM Inductive == Spec => [](TypeOK /\ IInv)
  <1>1. Init => TypeOK /\ IInv
    <2> SUFFICES ASSUME Init PROVE TypeOK /\ IInv
      OBVIOUS
    <2>1. DOMAIN cache = {} /\ pc = "idle" /\ result = None /\ ~Running /\ ~Completed
      BY DEF Init, Running, Completed
    <2>2. disk \in [Stages -> Files] /\ captured \in [Stages -> Contents \cup {None}]
      BY DEF Init, Files
    <2>3. TypeOK
      BY <2>1, <2>2, CommandAssumption DEF Init, TypeOK, Outcomes
    <2>4. IInv
      BY <2>1 DEF IInv, PhasesInOrder, ArtifactsAreCurrent, EntriesAreKeyed, SpentIsStarted,
                  ResultIsCurrent, Running
    <2>. QED
      BY <2>3, <2>4
  <1>2. TypeOK /\ IInv /\ [Next]_vars => (TypeOK /\ IInv)'
    BY TypeStep, InvariantStep
  <1>. QED
    BY <1>1, <1>2, PTL DEF Spec

\* Every variable keeps its type: whole files hold triples of the stages,
\* parameters and values there are, entries are whole and have a stage's key.
THEOREM TypeCorrect == Spec => []TypeOK
  BY Inductive, PTL

\* Where every placeholder is one the code replaces, the artifacts a stage's
\* command is given are those its author named.
LEMMA ResolvedReads ==
    ASSUME Resolved
    PROVE  ReadsOf = [u \in Stages |-> pipe[u].reads]
  BY DEF Resolved, ReadsOf, Reads

\* The key of a cache entry is the identity of its content, whatever else ran,
\* failed or was cut short in the workdirs the stages share.
THEOREM EntriesMatchTheirKeys == Spec => []EntryMatchesKey
  <1>1. IInv => EntryMatchesKey
    BY ResolvedReads DEF IInv, EntriesAreKeyed, EntryMatchesKey
  <1>. QED
    BY <1>1, Inductive, PTL

\* A completed run measured artifacts made under its own configuration.
THEOREM MeasurementsAreDeclared == Spec => []MeasuredIsDeclared
  <1>1. IInv => MeasuredIsDeclared
    BY ResolvedReads DEF IInv, ResultIsCurrent, Completed, Content, Declared,
                         MeasuredIsDeclared
  <1>. QED
    BY <1>1, Inductive, PTL

\* Whatever went into a completed run's measurement has the baseline's value,
\* the treatment, the allowed drifts and added parameters apart.
THEOREM MeasurementsAreComparable == Spec => []OnlyTheTreatmentDiffers
  <1>1. IInv => OnlyTheTreatmentDiffers
    <2> SUFFICES ASSUME IInv, base # None, Completed,
                        NEW s \in Phase("measure"), NEW g \in result.measured[s],
                        g[2] \notin Treated \cup Allowed, g[2] \in DOMAIN base
                 PROVE  g[3] = base[g[2]]
      BY DEF OnlyTheTreatmentDiffers, Completed
    <2>1. g \in Content(s, cfg)
      BY DEF IInv, ResultIsCurrent
    <2>2. g[2] \in DOMAIN cfg /\ g[3] = cfg[g[2]]
      BY <2>1 DEF Content, Given
    <2>3. Unexpected(cfg, base, Treated, Allowed) = {}
      BY DEF IInv, Admitted, PhaseAOk
    <2>. QED
      BY <2>2, <2>3 DEF Unexpected
  <1>. QED
    BY <1>1, Inductive, PTL

\* A completed run is charged for the GPU stages its call started, and no other.
THEOREM OwnStagesAreCharged == Spec => []ChargedIsSpent
  <1>1. IInv => ChargedIsSpent
    BY DEF IInv, ResultIsCurrent, Completed, ChargedIsSpent
  <1>. QED
    BY <1>1, Inductive, PTL

\* In a finite pipeline without a cycle some stage of those that are left waits
\* for none of them: one that reaches the fewest.
LEMMA SomeStageIsFirst ==
    ASSUME pipe \in Pipelines, NEW c, Valid(c),
           NEW U \in SUBSET Stages, U # {}
    PROVE  \E s \in U : pipe[s].needs \cap U = {}
  <1> DEFINE Reach == {From(NeedsOf, s) : s \in U}
  <1>1. \A u \in Stages : NeedsOf[u] = pipe[u].needs /\ NeedsOf[u] \subseteq Stages
    BY DEF Valid, NeedsOf
  <1>2. Reach # {} /\ Reach \subseteq FiniteSubsetsOf(Stages)
    <2>1. \A s \in U : From(NeedsOf, s) \in SUBSET Stages
      BY FromSelf
    <2>2. FiniteSubsetsOf(Stages) = SUBSET Stages
      BY PipeShape, FS_FiniteSubsetsOfFinite
    <2>. QED
      BY <2>1, <2>2
  <1>3. PICK R \in Reach : \A Q \in Reach : <<Q, R>> \notin StrictSubsetOrdering(Stages)
    <2>. HIDE DEF Reach
    <2>. QED
      BY <1>2, WFMin, FS_StrictSubsetOrderingWellFounded
  <1>4. PICK s \in U : R = From(NeedsOf, s)
    OBVIOUS
  <1>5. ASSUME NEW d \in pipe[s].needs \cap U PROVE FALSE
    <2>1. d \in From(NeedsOf, s)
      BY <1>1, FromSelf, FromClosed
    <2>2. From(NeedsOf, d) \subseteq From(NeedsOf, s)
      BY <1>1, <2>1, FromTransitive
    <2>3. s \in From(NeedsOf, s) /\ s \notin From(NeedsOf, d)
      BY FromSelf DEF Valid, NeedsOf
    <2>4. From(NeedsOf, d) \in SUBSET Stages /\ From(NeedsOf, s) \in SUBSET Stages
      BY FromSelf
    <2>5. <<From(NeedsOf, d), R>> \in StrictSubsetOrdering(Stages)
      BY <1>4, <2>2, <2>3, <2>4 DEF StrictSubsetOrdering
    <2>. QED
      BY <1>3, <2>5
  <1>. QED
    BY <1>5

\* A pipeline that passed validate() never leaves the scheduler with stages and
\* none to start, however its stages end.
THEOREM AdmittedPipelinesMoveOn == Spec => []AdmittedNeverSticks
  <1>1. TypeOK /\ IInv => AdmittedNeverSticks
    <2> SUFFICES ASSUME TypeOK, IInv, Running, ~Ended
                 PROVE  \E s \in Stages : Ready(s)
      BY DEF AdmittedNeverSticks, Stuck, Running
    <2> DEFINE U == {s \in Phase(pc) : out[s] = None}
    <2>1. U # {} /\ U \in SUBSET Stages
      BY DEF Ended, Phase
    <2>2. Valid(cfg) /\ pipe \in Pipelines
      BY DEF IInv, Admitted, TypeOK
    <2>3. PICK s \in U : pipe[s].needs \cap U = {}
      <3>. HIDE DEF U
      <3>. QED
        BY <2>1, <2>2, SomeStageIsFirst
    <2>4. Ready(s)
      BY <2>3 DEF Ready, Needed
    <2>. QED
      BY <2>1, <2>4
  <1>. QED
    BY <1>1, Inductive, PTL
==============================================================================
