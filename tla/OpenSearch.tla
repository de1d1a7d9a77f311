----------------------------- MODULE OpenSearch -----------------------------
(***************************************************************************)
(* OpenSearchDomain (benchmark_domains/opensearch/domain.py) in the calls  *)
(* of run_lifecycle, over sessions.  A build is remembered in three places *)
(* that live for different times: the index in a container, the handle in  *)
(* the session's memory, and the prep entry in the engine's cache of a     *)
(* workdir.  One session runs at a time; it starts a container of its own  *)
(* or is pointed at one that is up; containers and the harness may die.    *)
(*                                                                         *)
(* A build key stands for its configuration and names its index.  An index *)
(* is the chunks ingested (documents have fixed ids, so ingesting one      *)
(* again changes nothing) and its segments over all shards.  Settings are  *)
(* in the key and read back as created; the heap is not modelled.          *)
(***************************************************************************)
EXTENDS Integers

CONSTANTS
    Keys, Workdirs, Containers,
    Chunks, Shards, Target,  \* index.ingest_chunks, number_of_shards and
                             \* forcemerge.max_num_segments of each key
    Modes,                   \* where the measurement runs
    MaxSessions, MaxRuns,    \* bounds
    None

Indexes == [chunks : SUBSET Nat, segments : Nat]
Whole(k) == 1 .. Chunks[k]

ASSUME OpenSearchAssumption ==
    /\ Chunks \in [Keys -> Nat \ {0}]
    /\ Shards \in [Keys -> Nat \ {0}]
    /\ Target \in [Keys -> Nat \ {0}]
    /\ Modes \subseteq {"process", "subprocess"}
    /\ MaxSessions \in Nat /\ MaxRuns \in Nat
    /\ None \notin Containers \cup Indexes \cup {"created", "populated"}

VARIABLES
    status,    \* status[c]: "unused", "up", "gone"
    index,     \* index[c][k]: the index of k in container c, or None
    home,      \* the container of the session, None between sessions
    handle,    \* handle[k]: the session's _cache: None, "created", "populated"
    entry,     \* entry[w][k]: the container a prep entry points to, or None
    pc, call, result,
    sessions, runs

vars == <<status, index, home, handle, entry, pc, call, result, sessions, runs>>
containers == <<status, index>>
counters == <<sessions, runs>>

TypeOK ==
    /\ status \in [Containers -> {"unused", "up", "gone"}]
    /\ \A c \in Containers, k \in Keys :
        index[c][k] # None =>
            /\ index[c][k] \in Indexes /\ status[c] = "up"
            /\ index[c][k].chunks \subseteq Whole(k)
    /\ home \in Containers \cup {None}
    /\ handle \in [Keys -> {None, "created", "populated"}]
    /\ entry \in [Workdirs -> [Keys -> Containers \cup {None}]]
    /\ pc \in {"idle", "apply", "verify", "prep", "build", "load", "search"}
    /\ pc # "idle" => /\ home # None
                      /\ call.key \in Keys /\ call.workdir \in Workdirs /\ call.mode \in Modes
    /\ pc \in {"prep", "build", "load", "search"} => handle[call.key] # None
    /\ sessions \in 0 .. MaxSessions /\ runs \in 0 .. MaxRuns

Init ==
    /\ status = [c \in Containers |-> "unused"]
    /\ index = [c \in Containers |-> [k \in Keys |-> None]]
    /\ home = None
    /\ handle = [k \in Keys |-> None]
    /\ entry = [w \in Workdirs |-> [k \in Keys |-> None]]
    /\ pc = "idle" /\ call = None /\ result = None
    /\ sessions = 0 /\ runs = 0

------------------------------------------------------------------------------
(* Containers and sessions.                                                *)

\* cluster.start and the domain's constructor; or a domain over a cluster given
\* by port and name.
Session(c) ==
    /\ home = None /\ sessions < MaxSessions
    /\ status[c] # "gone"
    /\ status' = [status EXCEPT ![c] = "up"]
    /\ home' = c
    /\ handle' = [k \in Keys |-> None]
    /\ sessions' = sessions + 1
    /\ UNCHANGED <<index, entry, pc, call, result, runs>>

\* The session ends or dies, in the middle of a call if need be.
Leave ==
    /\ home # None
    /\ home' = None /\ pc' = "idle" /\ call' = None /\ result' = None
    /\ handle' = [k \in Keys |-> None]
    /\ UNCHANGED <<containers, entry, counters>>

\* Mutant: a container that stopped still has its indexes.
StopKeepsIndexes(c) ==
    /\ status[c] = "up"
    /\ status' = [status EXCEPT ![c] = "gone"]
    /\ UNCHANGED <<index, home, handle, entry, pc, call, result, counters>>

\* The container stops and, run with --rm, takes its indexes along.
Stop(c) ==
    /\ status[c] = "up"
    /\ status' = [status EXCEPT ![c] = "gone"]
    /\ index' = [index EXCEPT ![c] = [k \in Keys |-> None]]
    /\ UNCHANGED <<home, handle, entry, pc, call, result, counters>>

------------------------------------------------------------------------------
(* The call: gates, prep step, measurement.                                *)
Key == call.key
Entry == entry[call.workdir][Key]
Up == status[home] = "up"
Live == index[home][Key]

Submit(k, w, mode) ==
    /\ pc = "idle" /\ home # None /\ runs < MaxRuns
    /\ runs' = runs + 1
    /\ call' = [key |-> k, workdir |-> w, mode |-> mode, chunk |-> 1,
                counted |-> FALSE, hit |-> FALSE]
    /\ pc' = "apply" /\ result' = None
    /\ UNCHANGED <<containers, home, handle, entry, sessions>>

End(r) == pc' = "idle" /\ call' = None /\ result' = r

\* An exception of a preflight hook leaves run_lifecycle; there is no record.
HookRaises ==
    /\ \/ pc = "apply" /\ handle[Key] = None /\ ~Up
       \/ pc = "verify" /\ Live = None
    /\ End(None)
    /\ UNCHANGED <<containers, home, handle, entry, counters>>

HasHandle == handle[Key] # None

ApplyReuse ==
    /\ pc = "apply" /\ HasHandle
    /\ pc' = "verify"
    /\ UNCHANGED <<containers, home, handle, entry, call, result, counters>>

\* An index of that name is deleted, whoever built it, and created empty.
ApplyCreate ==
    /\ pc = "apply" /\ ~HasHandle /\ Up
    /\ index' = [index EXCEPT ![home][Key] = [chunks |-> {}, segments |-> 0]]
    /\ handle' = [handle EXCEPT ![Key] = "created"]
    /\ pc' = "verify"
    /\ UNCHANGED <<status, home, entry, call, result, counters>>

\* Mutant: the segments are recorded and not compared.
SegmentsAny(observed) == TRUE

\* What _segment_count makes of a request that fails.
NoCount == -1

\* _verify_jvm_and_segments compares all shards' segments with the target, if
\* there is a count.
SegmentsOk(observed) == observed < 0 \/ observed <= Target[Key]

Verify ==
    /\ pc = "verify" /\ Live # None
    /\ \E observed \in {Live.segments, NoCount} :
         IF SegmentsOk(observed)
           THEN /\ pc' = "prep" /\ UNCHANGED result
                /\ call' = [call EXCEPT !.counted = observed # NoCount]
           ELSE End([status |-> "ABORTED_PREFLIGHT"])
    /\ UNCHANGED <<containers, home, handle, entry, counters>>

PrepHit ==
    /\ pc = "prep" /\ Entry # None
    /\ pc' = "load" /\ call' = [call EXCEPT !.hit = TRUE]
    /\ UNCHANGED <<containers, home, handle, entry, result, counters>>

\* save_prep: the entry points to this session's container.  In process the
\* artifact is handed on; a subprocess reads it back.
Store ==
    /\ entry' = [entry EXCEPT ![call.workdir][Key] = home]
    /\ pc' = IF call.mode = "process" THEN "search" ELSE "load"

PrepPopulated ==
    /\ pc = "prep" /\ Entry = None /\ handle[Key] = "populated"
    /\ Store
    /\ UNCHANGED <<containers, home, handle, call, result, counters>>

\* Mutant: the handle is marked populated before the build, not after it.
PrepBuildMarksFirst ==
    /\ pc = "prep" /\ Entry = None /\ handle[Key] = "created"
    /\ pc' = "build"
    /\ handle' = [handle EXCEPT ![Key] = "populated"]
    /\ UNCHANGED <<containers, home, entry, call, result, counters>>

PrepBuild ==
    /\ pc = "prep" /\ Entry = None /\ handle[Key] = "created"
    /\ pc' = "build"
    /\ UNCHANGED <<containers, home, handle, entry, call, result, counters>>

\* A bulk request and a refresh: at most one new segment in each shard.
Grown(i) == {[chunks |-> i.chunks \cup {call.chunk}, segments |-> i.segments + n] :
                n \in 1 .. Shards[Key]}

\* Force-merge brings every shard to the target; it adds no segment.
Merged(i) == {[i EXCEPT !.segments = n] :
                n \in {n \in 1 .. i.segments : n <= Shards[Key] * Target[Key]}}

Ingest ==
    /\ pc = "build" /\ Live # None /\ call.chunk <= Chunks[Key]
    /\ \E i \in Grown(Live) : index' = [index EXCEPT ![home][Key] = i]
    /\ call' = [call EXCEPT !.chunk = call.chunk + 1]
    /\ UNCHANGED <<status, home, handle, entry, pc, result, counters>>

Merge ==
    /\ pc = "build" /\ Live # None /\ call.chunk > Chunks[Key]
    /\ \E i \in Merged(Live) : index' = [index EXCEPT ![home][Key] = i]
    /\ handle' = [handle EXCEPT ![Key] = "populated"]
    /\ Store
    /\ UNCHANGED <<status, home, call, result, counters>>

\* A request of the build fails or times out, with or without effect.
BuildFails ==
    /\ pc = "build"
    /\ \/ UNCHANGED index
       \/ /\ Live # None
          /\ \E i \in IF call.chunk <= Chunks[Key] THEN Grown(Live) ELSE Merged(Live) :
                index' = [index EXCEPT ![home][Key] = i]
    /\ End([status |-> "FAILED", stale |-> None])
    /\ UNCHANGED <<status, home, handle, entry, counters>>

------------------------------------------------------------------------------
\* A subprocess rebuilds its client from the endpoint in the prep entry.
Where == IF call.mode = "process" THEN home ELSE Entry
Searched == index[Where][Key]

\* load_prep: the index must be there with the documents of the build.
CountIsRight == Searched # None /\ Searched.chunks = Whole(Key)

Load ==
    /\ pc = "load"
    /\ IF CountIsRight
         THEN pc' = "search" /\ UNCHANGED <<call, result>>
         ELSE End([status |-> "FAILED", stale |-> Entry])
    /\ UNCHANGED <<containers, home, handle, entry, counters>>

Search ==
    /\ pc = "search"
    /\ End(IF Searched = None
             THEN [status |-> "FAILED", stale |-> None]
             ELSE [status |-> "COMPLETED", key |-> Key, where |-> Where,
                   counted |-> call.counted, hit |-> call.hit,
                   passed |-> CountIsRight, index |-> Searched])
    /\ UNCHANGED <<containers, home, handle, entry, counters>>

------------------------------------------------------------------------------
Call == \/ \E k \in Keys, w \in Workdirs, m \in Modes : Submit(k, w, m)
        \/ HookRaises \/ ApplyReuse \/ ApplyCreate \/ Verify
        \/ PrepHit \/ PrepPopulated \/ PrepBuild
        \/ Ingest \/ Merge \/ BuildFails
        \/ Load \/ Search

Next == Call \/ Leave \/ \E c \in Containers : Session(c) \/ Stop(c)

Spec == Init /\ [][Next]_vars

------------------------------------------------------------------------------
IsMerged(k, i) == i.segments <= Shards[k] * Target[k]
Built(k, i) == i.chunks = Whole(k) /\ IsMerged(k, i)

\* domain.py:132, "reused" means what it says: as long as its container is up,
\* the index a session has populated stays whole and force-merged, whatever other
\* workdirs, failed builds and refusals come between.
PopulatedIsBuilt ==
    \A k \in Keys :
        handle[k] = "populated" /\ status[home] = "up" =>
            index[home][k] # None /\ Built(k, index[home][k])

\* domain.py:319-323, a measurement that passes its data-integrity check in the
\* session's own container searched an index with all documents; and it was
\* force-merged too, which is not looked at after the build, unless the prep was a
\* cache hit and phase C got no segment count: an entry and a half-built index of
\* the same name may both be there.
PassedIsBuilt ==
    result # None /\ result.status = "COMPLETED" /\ result.where = home /\ result.passed =>
        /\ result.index.chunks = Whole(result.key)
        /\ result.counted \/ ~result.hit => IsMerged(result.key, result.index)

------------------------------------------------------------------------------
\* README.md:91, a statement the code does not keep: prep is reused across
\* sessions, so an entry is found stale only when its container is gone or is
\* not the session's.
EntryIsReused ==
    result # None /\ result.status = "FAILED" /\ result.stale # None =>
        status[result.stale] = "gone" \/ result.stale # home

==============================================================================
