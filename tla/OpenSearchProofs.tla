--------------------------- MODULE OpenSearchProofs ---------------------------
(***************************************************************************)
(* Theorems about OpenSearch: its invariants, for any number of            *)
(* containers, workdirs, build keys, sessions and runs.                    *)
(***************************************************************************)
EXTENDS OpenSearch, TLAPS

Calls == [key : Keys, workdir : Workdirs, mode : Modes, chunk : Nat \ {0},
          counted : BOOLEAN, hit : BOOLEAN]

\* The values the actions rely on, and what is over between two sessions.
Shape ==
    /\ index \in [Containers -> [Keys -> Indexes \cup {None}]]
    /\ pc # "idle" => call \in Calls
    /\ home = None => result = None /\ handle = [k \in Keys |-> None]

\* A handle means that there is an index, as long as the container is up.
HandleIsIndexed ==
    \A k \in Keys : handle[k] # None /\ status[home] = "up" => index[home][k] # None

\* From the verification on, the session holds a handle for the key.
HandleFromVerify ==
    pc \in {"verify", "prep", "build", "load", "search"} => handle[call.key] # None

\* A build starts with the first chunk, has ingested the chunks before the
\* current one, and nothing else has marked the handle.
BuildKeepsChunks ==
    /\ pc \in {"apply", "verify", "prep"} => call.chunk = 1
    /\ pc = "build" =>
         /\ handle[call.key] = "created"
         /\ status[home] = "up" => 1 .. (call.chunk - 1) \subseteq index[home][call.key].chunks

\* What phase C counted of the segments still holds when the search begins, or a
\* force-merge has come between: of this call, or one the handle remembers.
MergedBeforeSearch ==
    /\ index[home][call.key] # None
    /\ \/ pc \in {"prep", "load", "search"} /\ call.counted
       \/ pc \in {"load", "search"} /\ ~call.hit
    => IsMerged(call.key, index[home][call.key])

IInv ==
    /\ TypeOK /\ Shape
    /\ HandleIsIndexed /\ HandleFromVerify
    /\ BuildKeepsChunks /\ MergedBeforeSearch
    /\ PopulatedIsBuilt /\ PassedIsBuilt

------------------------------------------------------------------------------
\* Several shards have at least the segments that one is merged to.
LEMMA TargetOfOneShard ==
    ASSUME NEW k \in Keys
    PROVE  /\ Shards[k] * Target[k] \in Nat /\ Target[k] \in Nat /\ Chunks[k] \in Nat
           /\ Target[k] <= Shards[k] * Target[k]
  <1>1. /\ Shards[k] \in Nat \ {0} /\ Target[k] \in Nat /\ Chunks[k] \in Nat
    BY OpenSearchAssumption
  <1>2. ASSUME NEW a \in Nat \ {0}, NEW b \in Nat
        PROVE  a * b \in Nat /\ b <= a * b
    BY <1>2
  <1> QED BY <1>1, <1>2

\* Before the first session there is nothing to be wrong about.
LEMMA InitIsInductive == Init => IInv
  BY OpenSearchAssumption
     DEF Init, IInv, TypeOK, Shape, HandleIsIndexed, HandleFromVerify, BuildKeepsChunks,
         MergedBeforeSearch, PopulatedIsBuilt, PassedIsBuilt

\* A new session has no handles.
LEMMA SessionKeeps ==
    ASSUME IInv, NEW c \in Containers, Session(c)
    PROVE  IInv'
  <1> USE OpenSearchAssumption DEF IInv, Session
  <1>1. TypeOK'
    BY DEF TypeOK, counters
  <1>2. Shape'
    BY DEF TypeOK, Shape
  <1>3. HandleIsIndexed' /\ HandleFromVerify' /\ BuildKeepsChunks' /\ MergedBeforeSearch'
    BY DEF TypeOK, HandleIsIndexed, HandleFromVerify, BuildKeepsChunks, MergedBeforeSearch, IsMerged
  <1>4. PopulatedIsBuilt' /\ PassedIsBuilt'
    BY DEF Shape, PopulatedIsBuilt, PassedIsBuilt
  <1> QED BY <1>1, <1>2, <1>3, <1>4

\* A session that ends takes its handles along.
LEMMA LeaveKeeps ==
    ASSUME IInv, Leave
    PROVE  IInv'
  <1> USE OpenSearchAssumption DEF IInv, Leave, containers, counters
  <1>1. TypeOK'
    BY DEF TypeOK
  <1>2. Shape'
    BY DEF TypeOK, Shape
  <1>3. HandleIsIndexed' /\ HandleFromVerify' /\ BuildKeepsChunks' /\ MergedBeforeSearch'
    BY DEF TypeOK, HandleIsIndexed, HandleFromVerify, BuildKeepsChunks, MergedBeforeSearch, IsMerged
  <1>4. PopulatedIsBuilt' /\ PassedIsBuilt'
    BY DEF PopulatedIsBuilt, PassedIsBuilt
  <1> QED BY <1>1, <1>2, <1>3, <1>4

\* A container that stops takes its indexes along.
LEMMA StopKeeps ==
    ASSUME IInv, NEW c \in Containers, Stop(c)
    PROVE  IInv'
  <1> USE OpenSearchAssumption DEF IInv, Stop, counters
  <1>1. TypeOK'
    BY DEF TypeOK, Shape
  <1>2. Shape'
    BY DEF TypeOK, Shape
  <1>3. home \in Containers =>
           /\ status'[home] = "up" => home # c
           /\ home # c => index'[home] = index[home] /\ status'[home] = status[home]
           /\ home = c => \A k \in Keys : index'[home][k] = None
    BY DEF TypeOK, Shape
  <1>4. HandleIsIndexed' /\ HandleFromVerify' /\ BuildKeepsChunks' /\ MergedBeforeSearch'
    BY <1>3 DEF TypeOK, Shape, Calls, HandleIsIndexed, HandleFromVerify, BuildKeepsChunks, MergedBeforeSearch, IsMerged
  <1>5. PopulatedIsBuilt' /\ PassedIsBuilt'
    BY <1>3 DEF TypeOK, Shape, PopulatedIsBuilt, PassedIsBuilt, Built, IsMerged
  <1> QED BY <1>1, <1>2, <1>4, <1>5

------------------------------------------------------------------------------

\* What replacing the session's index of the call's key changes, and what not.
LEMMA LiveReplaced ==
    ASSUME TypeOK, Shape, pc # "idle", NEW i \in Indexes,
           index' = [index EXCEPT ![home][Key] = i]
    PROVE  /\ index' \in [Containers -> [Keys -> Indexes \cup {None}]]
           /\ index'[home][Key] = i /\ i # None
           /\ \A c \in Containers, k \in Keys :
                c # home \/ k # Key => index'[c][k] = index[c][k]
           /\ home \in Containers /\ Key \in Keys
  <1>1. home \in Containers /\ Key \in Keys /\ i # None
    BY OpenSearchAssumption DEF TypeOK, Shape, Calls, Key
  <1>2. index[home] \in [Keys -> Indexes \cup {None}]
    BY <1>1 DEF Shape
  <1>3. index' = [index EXCEPT ![home] = [index[home] EXCEPT ![Key] = i]]
    OBVIOUS
  <1>4. index'[home] = [index[home] EXCEPT ![Key] = i]
    BY <1>1, <1>3 DEF Shape
  <1>5. \A c \in Containers \ {home} : index'[c] = index[c]
    BY <1>3 DEF Shape
  <1>6. index' \in [Containers -> [Keys -> Indexes \cup {None}]]
    BY <1>1, <1>2, <1>3 DEF Shape
  <1>7. index'[home][Key] = i /\ \A k \in Keys \ {Key} : index'[home][k] = index[home][k]
    BY <1>1, <1>2, <1>4
  <1> QED BY <1>1, <1>5, <1>6, <1>7

\* The live index of a call is an index, in a container that is up.
LEMMA LiveIsIndex ==
    ASSUME TypeOK, Shape, pc # "idle", Live # None
    PROVE  /\ Live \in Indexes /\ Live.chunks \subseteq Whole(Key) /\ Live.segments \in Nat
           /\ home \in Containers /\ status[home] = "up" /\ Key \in Keys
    BY DEF TypeOK, Shape, Calls, Live, Key, Indexes

\* A bulk request leaves an index of this build.
LEMMA GrownIsIndex ==
    ASSUME TypeOK, Shape, pc # "idle", Live # None, call.chunk <= Chunks[Key],
           NEW i \in Grown(Live)
    PROVE  /\ i \in Indexes /\ i.chunks = Live.chunks \cup {call.chunk}
           /\ i.chunks \subseteq Whole(Key)
  <1>1. call.chunk \in Whole(Key) /\ call.chunk \in Nat
    BY TargetOfOneShard DEF Shape, Calls, Key, Whole
  <1>2. Shards[Key] \in Nat
    BY LiveIsIndex, OpenSearchAssumption
  <1>3. PICK n \in 1 .. Shards[Key] :
            i = [chunks |-> Live.chunks \cup {call.chunk}, segments |-> Live.segments + n]
    BY DEF Grown
  <1>4. Live.chunks \in SUBSET Nat /\ Live.segments + n \in Nat
    BY <1>2, LiveIsIndex DEF Indexes
  <1> QED BY <1>1, <1>3, <1>4, LiveIsIndex DEF Indexes

\* A force-merge leaves the chunks of an index as they are.
LEMMA MergedIsIndex ==
    ASSUME TypeOK, Shape, pc # "idle", Live # None, NEW i \in Merged(Live)
    PROVE  /\ i \in Indexes /\ i.chunks = Live.chunks
           /\ i.segments <= Shards[Key] * Target[Key]
  <1>1. PICK n \in 1 .. Live.segments :
            n <= Shards[Key] * Target[Key] /\ i = [Live EXCEPT !.segments = n]
    BY DEF Merged
  <1> QED BY <1>1, LiveIsIndex DEF Indexes

\* The gates touch no index.
LEMMA SubmitKeeps ==
    ASSUME IInv, NEW k \in Keys, NEW w \in Workdirs, NEW m \in Modes, Submit(k, w, m)
    PROVE  IInv'
  <1> USE OpenSearchAssumption DEF IInv, Submit, containers
  <1>1. TypeOK'
    BY DEF TypeOK, Shape, Calls
  <1>2. Shape'
    BY DEF TypeOK, Shape, Calls
  <1>3. HandleIsIndexed' /\ HandleFromVerify'
    BY DEF TypeOK, Shape, Calls, HandleIsIndexed, HandleFromVerify
  <1>4. BuildKeepsChunks' /\ MergedBeforeSearch'
    BY DEF TypeOK, Shape, Calls, HandleIsIndexed, HandleFromVerify, BuildKeepsChunks, MergedBeforeSearch, IsMerged
  <1>5. PopulatedIsBuilt' /\ PassedIsBuilt'
    BY DEF TypeOK, Shape, Calls, PopulatedIsBuilt, PassedIsBuilt, Built, IsMerged
  <1> QED BY <1>1, <1>2, <1>3, <1>4, <1>5

\* A hook that raises touches no index.
LEMMA HookRaisesKeeps ==
    ASSUME IInv, HookRaises
    PROVE  IInv'
  <1> USE OpenSearchAssumption DEF IInv, HookRaises, End, containers, counters
  <1>1. TypeOK'
    BY DEF TypeOK, Shape, Calls
  <1>2. Shape'
    BY DEF TypeOK, Shape, Calls
  <1>3. HandleIsIndexed' /\ HandleFromVerify'
    BY DEF TypeOK, Shape, Calls, HandleIsIndexed, HandleFromVerify
  <1>4. BuildKeepsChunks' /\ MergedBeforeSearch'
    BY DEF TypeOK, Shape, Calls, HandleIsIndexed, HandleFromVerify, BuildKeepsChunks, MergedBeforeSearch, IsMerged
  <1>5. PopulatedIsBuilt' /\ PassedIsBuilt'
    BY DEF TypeOK, Shape, Calls, PopulatedIsBuilt, PassedIsBuilt, Built, IsMerged
  <1> QED BY <1>1, <1>2, <1>3, <1>4, <1>5

\* apply_config reuses what its handle says is there.
LEMMA ApplyReuseKeeps ==
    ASSUME IInv, ApplyReuse
    PROVE  IInv'
  <1> USE OpenSearchAssumption DEF IInv, ApplyReuse, HasHandle, Key, containers, counters
  <1>1. TypeOK'
    BY DEF TypeOK, Shape, Calls
  <1>2. Shape'
    BY DEF TypeOK, Shape, Calls
  <1>3. HandleIsIndexed' /\ HandleFromVerify'
    BY DEF TypeOK, Shape, Calls, HandleIsIndexed, HandleFromVerify
  <1>4. BuildKeepsChunks' /\ MergedBeforeSearch'
    BY DEF TypeOK, Shape, Calls, HandleIsIndexed, HandleFromVerify, BuildKeepsChunks, MergedBeforeSearch, IsMerged
  <1>5. PopulatedIsBuilt' /\ PassedIsBuilt'
    BY DEF TypeOK, Shape, Calls, PopulatedIsBuilt, PassedIsBuilt, Built, IsMerged
  <1> QED BY <1>1, <1>2, <1>3, <1>4, <1>5

\* apply_config replaces an index by an empty one, and the handle says so.
LEMMA ApplyCreateKeeps ==
    ASSUME IInv, ApplyCreate
    PROVE  IInv'
  <1> USE OpenSearchAssumption DEF IInv, Key, Up, HasHandle
  <1>1. /\ pc = "apply" /\ status[home] = "up" /\ handle[Key] = None /\ pc' = "verify"
        /\ index' = [index EXCEPT ![home][Key] = [chunks |-> {}, segments |-> 0]]
        /\ handle' = [handle EXCEPT ![Key] = "created"]
        /\ UNCHANGED <<status, home, entry, call, result, sessions, runs>>
    BY DEF ApplyCreate, counters
  <1>2. [chunks |-> {}, segments |-> 0] \in Indexes
    BY DEF Indexes
  <1>3. /\ index' \in [Containers -> [Keys -> Indexes \cup {None}]]
        /\ index'[home][Key] = [chunks |-> {}, segments |-> 0] /\ index'[home][Key] # None
        /\ \A c \in Containers, k \in Keys :
             c # home \/ k # Key => index'[c][k] = index[c][k]
        /\ home \in Containers /\ Key \in Keys
    BY <1>1, <1>2, LiveReplaced
  <1>4. /\ handle' \in [Keys -> {None, "created", "populated"}] /\ handle'[Key] = "created"
        /\ \A k \in Keys \ {Key} : handle'[k] = handle[k]
    BY <1>1, <1>3 DEF TypeOK
  <1> HIDE DEF Key
  <1>5. \A c \in Containers, k \in Keys : index'[c][k] # None =>
          /\ index'[c][k] \in Indexes /\ status[c] = "up" /\ index'[c][k].chunks \subseteq Whole(k)
    BY <1>1, <1>2, <1>3 DEF TypeOK
  <1> USE DEF Key
  <1>11. TypeOK'
    BY <1>1, <1>3, <1>4, <1>5 DEF TypeOK, Shape, Calls
  <1>12. Shape'
    BY <1>1, <1>3, <1>4, <1>5 DEF TypeOK, Shape, Calls
  <1>13. HandleIsIndexed' /\ HandleFromVerify'
    BY <1>1, <1>3, <1>4, <1>5 DEF TypeOK, Shape, Calls, HandleIsIndexed, HandleFromVerify
  <1>14. BuildKeepsChunks' /\ MergedBeforeSearch'
    BY <1>1, <1>3, <1>4, <1>5 DEF TypeOK, Shape, Calls, HandleIsIndexed, HandleFromVerify, BuildKeepsChunks, MergedBeforeSearch, IsMerged
  <1>15. PopulatedIsBuilt' /\ PassedIsBuilt'
    BY <1>1, <1>3, <1>4, <1>5 DEF TypeOK, Shape, Calls, PopulatedIsBuilt, PassedIsBuilt, Built, IsMerged
  <1> QED BY <1>11, <1>12, <1>13, <1>14, <1>15

\* Phase C looks at the segments, if the request for them is answered.
LEMMA VerifyKeeps ==
    ASSUME IInv, Verify
    PROVE  IInv'
  <1> USE OpenSearchAssumption DEF IInv, Key
  <1>1. /\ pc = "verify" /\ Live # None
        /\ UNCHANGED <<status, index, home, handle, entry, sessions, runs>>
    BY DEF Verify, containers, counters
  <1>2. PICK observed \in {Live.segments, NoCount} :
          IF SegmentsOk(observed)
            THEN /\ pc' = "prep" /\ UNCHANGED result
                 /\ call' = [call EXCEPT !.counted = observed # NoCount]
            ELSE End([status |-> "ABORTED_PREFLIGHT"])
    BY DEF Verify
  <1>3. CASE SegmentsOk(observed)
    <2>1. pc' = "prep" /\ UNCHANGED result /\ call' = [call EXCEPT !.counted = observed # NoCount]
      BY <1>2, <1>3
    <2>2. /\ call' \in Calls /\ call'.key = call.key /\ call'.workdir = call.workdir
          /\ call'.mode = call.mode /\ call'.chunk = call.chunk
          /\ call'.counted = (observed # NoCount)
      BY <1>1, <2>1 DEF Shape, Calls
    <2>3. observed # NoCount => IsMerged(call.key, Live)
      <3>1. observed # NoCount => observed = Live.segments /\ observed <= Target[Key]
        BY <1>1, <1>2, <1>3, LiveIsIndex DEF SegmentsOk
      <3> QED BY <1>1, <3>1, LiveIsIndex, TargetOfOneShard DEF IsMerged
    <2>4. TypeOK' /\ Shape'
      BY <1>1, <2>1, <2>2 DEF TypeOK, Shape, HandleFromVerify
    <2>5. HandleIsIndexed' /\ HandleFromVerify' /\ BuildKeepsChunks'
      BY <1>1, <2>1, <2>2 DEF HandleIsIndexed, HandleFromVerify, BuildKeepsChunks
    <2>6. MergedBeforeSearch'
      BY <1>1, <2>1, <2>2, <2>3 DEF Live, MergedBeforeSearch, IsMerged
    <2>7. PopulatedIsBuilt' /\ PassedIsBuilt'
      BY <1>1, <2>1 DEF PopulatedIsBuilt, PassedIsBuilt
    <2> QED BY <2>4, <2>5, <2>6, <2>7
  <1>4. CASE ~SegmentsOk(observed)
    <2>1. pc' = "idle" /\ call' = None /\ result' = [status |-> "ABORTED_PREFLIGHT"]
      BY <1>2, <1>4 DEF End
    <2>2. TypeOK' /\ Shape'
      BY <1>1, <2>1 DEF TypeOK, Shape
    <2>3. HandleIsIndexed' /\ HandleFromVerify' /\ BuildKeepsChunks' /\ MergedBeforeSearch'
      BY <1>1, <2>1 DEF HandleIsIndexed, HandleFromVerify, BuildKeepsChunks, MergedBeforeSearch, IsMerged
    <2>4. PopulatedIsBuilt' /\ PassedIsBuilt'
      BY <1>1, <2>1 DEF PopulatedIsBuilt, PassedIsBuilt
    <2> QED BY <2>2, <2>3, <2>4
  <1> QED BY <1>3, <1>4

\* A cache hit touches no index.
LEMMA PrepHitKeeps ==
    ASSUME IInv, PrepHit
    PROVE  IInv'
  <1> USE OpenSearchAssumption DEF IInv, Key
  <1>1. /\ pc = "prep" /\ pc' = "load" /\ call' = [call EXCEPT !.hit = TRUE]
        /\ UNCHANGED <<status, index, home, handle, entry, result, sessions, runs>>
    BY DEF PrepHit, containers, counters
  <1>2. /\ call' \in Calls /\ call'.key = call.key /\ call'.workdir = call.workdir
        /\ call'.mode = call.mode /\ call'.chunk = call.chunk
        /\ call'.counted = call.counted /\ call'.hit
    BY <1>1 DEF Shape, Calls
  <1>3. TypeOK' /\ Shape'
    BY <1>1, <1>2 DEF TypeOK, Shape, HandleFromVerify
  <1>4. HandleIsIndexed' /\ HandleFromVerify' /\ BuildKeepsChunks'
    BY <1>1, <1>2 DEF HandleIsIndexed, HandleFromVerify, BuildKeepsChunks
  <1>5. MergedBeforeSearch'
    BY <1>1, <1>2 DEF MergedBeforeSearch, IsMerged
  <1>6. PopulatedIsBuilt' /\ PassedIsBuilt'
    BY <1>1 DEF PopulatedIsBuilt, PassedIsBuilt
  <1> QED BY <1>3, <1>4, <1>5, <1>6

\* prep finds a populated handle and builds nothing.
LEMMA PrepPopulatedKeeps ==
    ASSUME IInv, PrepPopulated
    PROVE  IInv'
  <1> USE OpenSearchAssumption DEF IInv, PrepPopulated, Store, Entry, Key, containers, counters
  <1>1. TypeOK'
    BY DEF TypeOK, Shape, Calls
  <1>2. Shape'
    BY DEF TypeOK, Shape, Calls
  <1>3. HandleIsIndexed' /\ HandleFromVerify'
    BY DEF TypeOK, Shape, Calls, HandleIsIndexed, HandleFromVerify
  <1>4. BuildKeepsChunks' /\ MergedBeforeSearch'
    <2>1. home \in Containers /\ call.key \in Keys
      BY DEF TypeOK
    <2>2. index[home][call.key] # None => IsMerged(call.key, index[home][call.key])
      BY <2>1 DEF TypeOK, PopulatedIsBuilt, Built
    <2> QED BY <2>2 DEF BuildKeepsChunks, MergedBeforeSearch, IsMerged
  <1>5. PopulatedIsBuilt' /\ PassedIsBuilt'
    BY DEF TypeOK, Shape, Calls, PopulatedIsBuilt, PassedIsBuilt, Built, IsMerged
  <1> QED BY <1>1, <1>2, <1>3, <1>4, <1>5

\* prep starts to build.
LEMMA PrepBuildKeeps ==
    ASSUME IInv, PrepBuild
    PROVE  IInv'
  <1> USE OpenSearchAssumption DEF IInv, PrepBuild, Entry, Key, containers, counters
  <1>11. TypeOK'
    BY TargetOfOneShard DEF TypeOK, Shape, Calls
  <1>12. Shape'
    BY TargetOfOneShard DEF TypeOK, Shape, Calls
  <1>13. HandleIsIndexed' /\ HandleFromVerify'
    BY TargetOfOneShard DEF TypeOK, Shape, Calls, HandleIsIndexed, HandleFromVerify
  <1>14. BuildKeepsChunks' /\ MergedBeforeSearch'
    BY TargetOfOneShard DEF TypeOK, Shape, Calls, HandleIsIndexed, HandleFromVerify, BuildKeepsChunks, MergedBeforeSearch, IsMerged
  <1>15. PopulatedIsBuilt' /\ PassedIsBuilt'
    BY TargetOfOneShard DEF TypeOK, Shape, Calls, PopulatedIsBuilt, PassedIsBuilt, Built, IsMerged
  <1> QED BY <1>11, <1>12, <1>13, <1>14, <1>15

\* A chunk is ingested.
LEMMA IngestKeeps ==
    ASSUME IInv, Ingest
    PROVE  IInv'
  <1> USE OpenSearchAssumption DEF IInv, Key
  <1>1. /\ pc = "build" /\ Live # None /\ call.chunk <= Chunks[Key]
        /\ call' = [call EXCEPT !.chunk = call.chunk + 1]
        /\ UNCHANGED <<status, home, handle, entry, pc, result, sessions, runs>>
    BY DEF Ingest, counters
  <1>2. PICK i \in Grown(Live) : index' = [index EXCEPT ![home][Key] = i]
    BY DEF Ingest
  <1>3. /\ i \in Indexes /\ i.chunks = Live.chunks \cup {call.chunk} /\ i.chunks \subseteq Whole(Key)
    BY <1>1, GrownIsIndex
  <1>4. /\ index' \in [Containers -> [Keys -> Indexes \cup {None}]]
        /\ index'[home][Key] = i /\ i # None
        /\ \A c \in Containers, k \in Keys :
             c # home \/ k # Key => index'[c][k] = index[c][k]
        /\ home \in Containers /\ Key \in Keys /\ status[home] = "up"
    BY <1>1, <1>2, <1>3, LiveReplaced, LiveIsIndex
  <1>5. call' \in Calls /\ call'.key = call.key /\ call'.chunk = call.chunk + 1 /\ call.chunk \in Nat
        /\ call'.workdir = call.workdir /\ call'.mode = call.mode
    BY <1>1 DEF Shape, Calls
  <1>6. \A c \in Containers, k \in Keys : index'[c][k] # None =>
          /\ index'[c][k] \in Indexes /\ status[c] = "up" /\ index'[c][k].chunks \subseteq Whole(k)
    <2> HIDE DEF Key
    <2> TAKE c \in Containers, k \in Keys
    <2>1. CASE c = home /\ k = Key
      BY <2>1, <1>1, <1>3, <1>4 DEF TypeOK
    <2>2. CASE c # home \/ k # Key
      BY <2>2, <1>1, <1>3, <1>4 DEF TypeOK
    <2> QED BY <2>1, <2>2
  <1>11. TypeOK'
    BY <1>1, <1>3, <1>4, <1>5, <1>6 DEF TypeOK, Shape, Calls, Live
  <1>12. Shape'
    BY <1>1, <1>3, <1>4, <1>5, <1>6 DEF TypeOK, Shape, Calls
  <1>13. HandleIsIndexed' /\ HandleFromVerify'
    <2>1. \A k \in Keys : index[home][k] # None => index'[home][k] # None
      BY <1>4
    <2> QED BY <1>1, <1>5, <2>1 DEF HandleIsIndexed, HandleFromVerify
  <1>14. BuildKeepsChunks' /\ MergedBeforeSearch'
    <2>1. 1 .. (call.chunk - 1) \subseteq Live.chunks
      BY <1>1, <1>4 DEF BuildKeepsChunks, Live
    <2>2. 1 .. (call'.chunk - 1) \subseteq i.chunks
      BY <1>3, <1>5, <2>1
    <2> QED BY <1>1, <1>4, <1>5, <2>2 DEF BuildKeepsChunks, MergedBeforeSearch, IsMerged
  <1>15. PopulatedIsBuilt' /\ PassedIsBuilt'
    <2>1. \A k \in Keys : handle[k] = "populated" => k # Key
      BY <1>1 DEF BuildKeepsChunks
    <2>2. \A k \in Keys : handle[k] = "populated" => index'[home][k] = index[home][k]
      BY <1>4, <2>1
    <2> QED BY <1>1, <2>2 DEF PopulatedIsBuilt, PassedIsBuilt
  <1> QED BY <1>11, <1>12, <1>13, <1>14, <1>15

\* The force-merge ends a build: the handle may say populated.
LEMMA MergeKeeps ==
    ASSUME IInv, Merge
    PROVE  IInv'
  <1> USE OpenSearchAssumption DEF IInv, Key
  <1>1. /\ pc = "build" /\ Live # None /\ call.chunk > Chunks[Key]
        /\ handle' = [handle EXCEPT ![Key] = "populated"]
        /\ entry' = [entry EXCEPT ![call.workdir][Key] = home]
        /\ pc' \in {"search", "load"}
        /\ UNCHANGED <<status, home, call, result, sessions, runs>>
    BY DEF Merge, Store, counters
  <1>2. PICK i \in Merged(Live) : index' = [index EXCEPT ![home][Key] = i]
    BY DEF Merge
  <1>3. /\ i \in Indexes /\ i.chunks = Live.chunks
        /\ i.segments <= Shards[Key] * Target[Key]
    BY <1>1, MergedIsIndex
  <1>4. /\ index' \in [Containers -> [Keys -> Indexes \cup {None}]]
        /\ index'[home][Key] = i /\ i # None
        /\ \A c \in Containers, k \in Keys :
             c # home \/ k # Key => index'[c][k] = index[c][k]
        /\ home \in Containers /\ Key \in Keys /\ status[home] = "up"
        /\ Live.chunks \subseteq Whole(Key)
    BY <1>1, <1>2, <1>3, LiveReplaced, LiveIsIndex
  <1>5. \A c \in Containers, k \in Keys : index'[c][k] # None =>
          /\ index'[c][k] \in Indexes /\ status[c] = "up" /\ index'[c][k].chunks \subseteq Whole(k)
    <2> HIDE DEF Key
    <2> TAKE c \in Containers, k \in Keys
    <2>1. CASE c = home /\ k = Key
      BY <2>1, <1>1, <1>3, <1>4 DEF TypeOK
    <2>2. CASE c # home \/ k # Key
      BY <2>2, <1>1, <1>3, <1>4 DEF TypeOK
    <2> QED BY <2>1, <2>2
  <1>6. /\ handle' \in [Keys -> {None, "created", "populated"}] /\ handle'[Key] = "populated"
        /\ \A k \in Keys \ {Key} : handle'[k] = handle[k]
    BY <1>1, <1>4 DEF TypeOK
  <1>7. entry' \in [Workdirs -> [Keys -> Containers \cup {None}]]
    BY <1>1, <1>4 DEF TypeOK
  <1>8. Whole(Key) \subseteq 1 .. (call.chunk - 1)
    BY <1>1, <1>4, TargetOfOneShard DEF Whole, Shape, Calls
  <1>9. Built(Key, i)
    BY <1>1, <1>3, <1>4, <1>8 DEF BuildKeepsChunks, Built, IsMerged, Live
  <1>11. TypeOK'
    BY <1>1, <1>3, <1>4, <1>5, <1>6, <1>7, <1>9 DEF TypeOK, Shape, Calls
  <1>12. Shape'
    BY <1>1, <1>3, <1>4, <1>5, <1>6, <1>7, <1>9 DEF TypeOK, Shape, Calls
  <1>13. HandleIsIndexed' /\ HandleFromVerify'
    BY <1>1, <1>3, <1>4, <1>5, <1>6, <1>7, <1>9 DEF TypeOK, Shape, Calls, HandleIsIndexed, HandleFromVerify
  <1>14. BuildKeepsChunks' /\ MergedBeforeSearch'
    BY <1>1, <1>3, <1>4, <1>5, <1>6, <1>7, <1>9 DEF TypeOK, Shape, Calls, HandleIsIndexed, HandleFromVerify, BuildKeepsChunks, MergedBeforeSearch, IsMerged
  <1>15. PopulatedIsBuilt' /\ PassedIsBuilt'
    BY <1>1, <1>3, <1>4, <1>5, <1>6, <1>7, <1>9 DEF TypeOK, Shape, Calls, PopulatedIsBuilt, PassedIsBuilt, Built, IsMerged
  <1> QED BY <1>11, <1>12, <1>13, <1>14, <1>15

\* A build that fails leaves its handle as it was.
LEMMA BuildFailsKeeps ==
    ASSUME IInv, BuildFails
    PROVE  IInv'
  <1> USE OpenSearchAssumption DEF IInv, Key
  <1>1. /\ pc = "build" /\ pc' = "idle" /\ call' = None
        /\ result' = [status |-> "FAILED", stale |-> None]
        /\ UNCHANGED <<status, home, handle, entry, sessions, runs>>
    BY DEF BuildFails, End, counters
  <1>2. /\ index' \in [Containers -> [Keys -> Indexes \cup {None}]]
        /\ \A c \in Containers, k \in Keys :
             c # home \/ k # Key => index'[c][k] = index[c][k]
        /\ \/ index'[home][Key] = index[home][Key]
           \/ /\ index'[home][Key] \in Indexes /\ index'[home][Key] # None
              /\ index'[home][Key].chunks \subseteq Whole(Key)
              /\ status[home] = "up"
        /\ home \in Containers /\ Key \in Keys
    <2>1. CASE UNCHANGED index
      BY <2>1, <1>1 DEF TypeOK, Shape, Calls
    <2>2. CASE /\ Live # None
               /\ \E i \in IF call.chunk <= Chunks[Key] THEN Grown(Live) ELSE Merged(Live) :
                     index' = [index EXCEPT ![home][Key] = i]
      <3>1. PICK i \in IF call.chunk <= Chunks[Key] THEN Grown(Live) ELSE Merged(Live) :
                     index' = [index EXCEPT ![home][Key] = i]
        BY <2>2
      <3>2. i \in Indexes /\ i.chunks \subseteq Whole(Key)
        BY <1>1, <2>2, GrownIsIndex, MergedIsIndex, LiveIsIndex
      <3> QED BY <1>1, <2>2, <3>1, <3>2, LiveReplaced, LiveIsIndex
    <2> QED BY <2>1, <2>2 DEF BuildFails
  <1>3. \A c \in Containers, k \in Keys : index'[c][k] # None =>
          /\ index'[c][k] \in Indexes /\ status[c] = "up" /\ index'[c][k].chunks \subseteq Whole(k)
    <2> HIDE DEF Key
    <2> TAKE c \in Containers, k \in Keys
    <2>1. CASE c = home /\ k = Key
      BY <2>1, <1>1, <1>2 DEF TypeOK
    <2>2. CASE c # home \/ k # Key
      BY <2>2, <1>1, <1>2 DEF TypeOK
    <2> QED BY <2>1, <2>2
  <1>11. TypeOK'
    BY <1>1, <1>2, <1>3 DEF TypeOK, Shape, Calls, BuildKeepsChunks
  <1>12. Shape'
    BY <1>1, <1>2, <1>3 DEF TypeOK, Shape, Calls
  <1>13. HandleIsIndexed' /\ HandleFromVerify'
    <2>1. \A k \in Keys : index[home][k] # None => index'[home][k] # None
      BY <1>2
    <2> QED BY <1>1, <2>1 DEF HandleIsIndexed, HandleFromVerify
  <1>14. BuildKeepsChunks' /\ MergedBeforeSearch'
    BY <1>1 DEF BuildKeepsChunks, MergedBeforeSearch, IsMerged
  <1>15. PopulatedIsBuilt' /\ PassedIsBuilt'
    <2>1. \A k \in Keys : handle[k] = "populated" => k # Key
      BY <1>1 DEF BuildKeepsChunks
    <2>2. \A k \in Keys : handle[k] = "populated" => index'[home][k] = index[home][k]
      BY <1>2, <2>1
    <2> QED BY <1>1, <2>2 DEF PopulatedIsBuilt, PassedIsBuilt
  <1> QED BY <1>11, <1>12, <1>13, <1>14, <1>15

\* load_prep compares the index with the entry.
LEMMA LoadKeeps ==
    ASSUME IInv, Load
    PROVE  IInv'
  <1> USE OpenSearchAssumption DEF IInv, Load, Entry, End, containers, counters
  <1>1. TypeOK'
    BY DEF TypeOK, Shape, Calls
  <1>2. Shape'
    BY DEF TypeOK, Shape, Calls
  <1>3. HandleIsIndexed' /\ HandleFromVerify'
    BY DEF TypeOK, Shape, Calls, HandleIsIndexed, HandleFromVerify
  <1>4. BuildKeepsChunks' /\ MergedBeforeSearch'
    BY DEF TypeOK, Shape, Calls, HandleIsIndexed, HandleFromVerify, BuildKeepsChunks, MergedBeforeSearch, IsMerged
  <1>5. PopulatedIsBuilt' /\ PassedIsBuilt'
    BY DEF TypeOK, Shape, Calls, PopulatedIsBuilt, PassedIsBuilt, Built, IsMerged
  <1> QED BY <1>1, <1>2, <1>3, <1>4, <1>5

\* The search is on the index that phase C and prep saw.
LEMMA SearchKeeps ==
    ASSUME IInv, Search
    PROVE  IInv'
  <1> USE OpenSearchAssumption DEF IInv
  <1>1. /\ pc = "search" /\ pc' = "idle" /\ call' = None
        /\ result' = IF Searched = None
                        THEN [status |-> "FAILED", stale |-> None]
                        ELSE [status |-> "COMPLETED", key |-> Key, where |-> Where,
                              counted |-> call.counted, hit |-> call.hit,
                              passed |-> CountIsRight, index |-> Searched]
        /\ UNCHANGED <<status, index, home, handle, entry, sessions, runs>>
    BY DEF Search, End, containers, counters
  <1>2. TypeOK' /\ Shape'
    BY <1>1 DEF TypeOK, Shape
  <1>3. HandleIsIndexed' /\ HandleFromVerify' /\ BuildKeepsChunks' /\ MergedBeforeSearch'
    BY <1>1 DEF HandleIsIndexed, HandleFromVerify, BuildKeepsChunks, MergedBeforeSearch, IsMerged
  <1>4. PopulatedIsBuilt'
    BY <1>1 DEF PopulatedIsBuilt
  <1>5. PassedIsBuilt'
    <2>1. CASE Searched = None
      <3>1. result' = [status |-> "FAILED", stale |-> None]
        BY <1>1, <2>1
      <3> QED BY <3>1 DEF PassedIsBuilt
    <2>2. CASE Searched # None
      <3>1. /\ result'.key = Key /\ result'.where = Where /\ result'.passed = CountIsRight
            /\ result'.counted = call.counted /\ result'.hit = call.hit
            /\ result'.index = Searched
        BY <1>1, <2>2
      <3>2. ASSUME Where = home, CountIsRight
            PROVE  /\ Searched.chunks = Whole(Key)
                   /\ call.counted \/ ~call.hit => IsMerged(Key, Searched)
        <4>1. Searched = index[home][call.key]
          BY <3>2 DEF Searched, Key
        <4>2. call.counted \/ ~call.hit => IsMerged(Key, Searched)
          BY <1>1, <2>2, <4>1 DEF MergedBeforeSearch, Key
        <4> QED BY <3>2, <4>2 DEF CountIsRight
      <3> QED BY <1>1, <3>1, <3>2 DEF PassedIsBuilt
    <2> QED BY <2>1, <2>2
  <1> QED BY <1>2, <1>3, <1>4, <1>5

-----------------------------------------------------------------------------
\* A step that changes nothing.
LEMMA StutterKeeps ==
    ASSUME IInv, UNCHANGED vars
    PROVE  IInv'
  <1>1. TypeOK' /\ Shape'
    BY DEF IInv, vars, TypeOK, Shape
  <1>2. HandleIsIndexed' /\ HandleFromVerify' /\ BuildKeepsChunks' /\ MergedBeforeSearch'
    BY DEF IInv, vars, HandleIsIndexed, HandleFromVerify, BuildKeepsChunks, MergedBeforeSearch, IsMerged
  <1>3. PopulatedIsBuilt' /\ PassedIsBuilt'
    BY DEF IInv, vars, PopulatedIsBuilt, PassedIsBuilt
  <1> QED BY <1>1, <1>2, <1>3 DEF IInv

\* Every step.
LEMMA NextKeeps ==
    ASSUME IInv, Next
    PROVE  IInv'
  <1>1. CASE Leave
    BY <1>1, LeaveKeeps
  <1>2. CASE \E c \in Containers : Session(c) \/ Stop(c)
    BY <1>2, SessionKeeps, StopKeeps
  <1>3. CASE \E k \in Keys, w \in Workdirs, m \in Modes : Submit(k, w, m)
    BY <1>3, SubmitKeeps
  <1>4. CASE HookRaises \/ ApplyReuse \/ ApplyCreate \/ Verify
    BY <1>4, HookRaisesKeeps, ApplyReuseKeeps, ApplyCreateKeeps, VerifyKeeps
  <1>5. CASE PrepHit \/ PrepPopulated \/ PrepBuild
    BY <1>5, PrepHitKeeps, PrepPopulatedKeeps, PrepBuildKeeps
  <1>6. CASE Ingest \/ Merge \/ BuildFails
    BY <1>6, IngestKeeps, MergeKeeps, BuildFailsKeeps
  <1>7. CASE Load \/ Search
    BY <1>7, LoadKeeps, SearchKeeps
  <1> QED BY <1>1, <1>2, <1>3, <1>4, <1>5, <1>6, <1>7 DEF Next, Call

\* The inductive invariant: index, session handle and prep entry, which live
\* for different times, stay in step.
THEOREM Inductive == Spec => []IInv
  <1>1. IInv /\ [Next]_vars => IInv'
    BY NextKeeps, StutterKeeps
  <1> QED BY InitIsInductive, <1>1, PTL DEF Spec

\* Type correctness, the index part included: an index is in a container that is
\* up and holds chunks of its own build only.
THEOREM TypeCorrect == Spec => []TypeOK
  <1>1. IInv => TypeOK
    BY DEF IInv
  <1> QED BY Inductive, <1>1, PTL

\* domain.py:132: what a session reuses because its handle says populated is
\* whole and force-merged, whatever failed, stopped or was refused before.
THEOREM PopulatedIndexIsBuilt == Spec => []PopulatedIsBuilt
  <1>1. IInv => PopulatedIsBuilt
    BY DEF IInv
  <1> QED BY Inductive, <1>1, PTL

\* domain.py:319-323: a measurement that passed in the session's own container
\* searched an index with all documents; and a force-merged one, if its own call
\* got the segment count or did not take the prep from the cache.
THEOREM PassedIndexIsBuilt == Spec => []PassedIsBuilt
  <1>1. IInv => PassedIsBuilt
    BY DEF IInv
  <1> QED BY Inductive, <1>1, PTL

==============================================================================
