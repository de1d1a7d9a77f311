------------------------------ MODULE CacheProofs ------------------------------
(***************************************************************************)
(* Proofs about Cache, for any number of processes and of runs, with and   *)
(* without crashes.  While no two processes have been past the lookup at   *)
(* the same time, the one that is has the entry to itself.                 *)
(***************************************************************************)
EXTENDS Cache, TLAPS

\* Outside the interference that `shared' records, one process stores at a time.
OneStore == ~shared => \A p, q \in InStore : p = q
\* It found no entry, so nobody relies on one, and it makes none visible before
\* its rename.
StoreSeesNoEntry ==
    ~shared /\ InStore # {} => /\ ~Has
                               /\ \A p \in Procs : pc[p] \notin {"using", "stored"}
\* What is renamed into place is whole.
TmpIsWhole ==
    \A p \in Procs :
        /\ pc[p] = "describe" => tmp[p] = {"artifact"}
        /\ pc[p] \in {"swap", "remove", "rename"} => tmp[p] = Files

IInv ==
    /\ OneStore
    /\ StoreSeesNoEntry
    /\ TmpIsWhole
    /\ VisibleIsWhole

\* Every variable of the cache and of the processes keeps its type.
THEOREM TypeCorrect == Spec => []TypeOK
  <1>1. Init => TypeOK
    <2> SUFFICES ASSUME Init PROVE TypeOK
      OBVIOUS
    <2>1. turn \in [Procs -> 1..MaxRuns]
      BY CacheAssumption DEF Init
    <2>2. final \in [by : {Nobody} \cup (Procs \X (1..MaxRuns)), files : SUBSET Files]
      BY DEF Init, Absent
    <2>3. listing \in [Procs -> [by : {Nobody} \cup (Procs \X (1..MaxRuns)),
                                 todo : SUBSET Files]]
      BY DEF Init
    <2>. QED
      BY <2>1, <2>2, <2>3 DEF Init, TypeOK
  <1>2. TypeOK /\ [Next]_vars => TypeOK'
    <2> SUFFICES ASSUME TypeOK, [Next]_vars PROVE TypeOK'
      OBVIOUS
    <2> USE DEF TypeOK, Goto, Over
    <2>1. ASSUME NEW p \in Procs, Lookup(p) PROVE TypeOK'
      BY <2>1 DEF Lookup
    <2>2. ASSUME NEW p \in Procs, Store(p) PROVE TypeOK'
      <3>1. CASE Produce(p)
        BY <3>1 DEF Produce, Files
      <3>2. CASE ProducerRaises(p)
        BY <3>2 DEF ProducerRaises
      <3>3. CASE WriteDescriptor(p)
        BY <3>3 DEF WriteDescriptor, Files
      <3>4. CASE CheckFinal(p)
        BY <3>4 DEF CheckFinal
      <3>5. CASE Unlink(p)
        BY <3>5 DEF Unlink
      <3>6. CASE RemoveDir(p)
        BY <3>6 DEF RemoveDir, Absent
      <3>7. CASE Rename(p)
        BY <3>7 DEF Rename
      <3>8. CASE Cleanup(p)
        BY <3>8 DEF Cleanup
      <3>. QED
        BY <2>2, <3>1, <3>2, <3>3, <3>4, <3>5, <3>6, <3>7, <3>8 DEF Store
    <2>3. ASSUME NEW p \in Procs, Crash(p) PROVE TypeOK'
      BY <2>3 DEF Crash
    <2>4. ASSUME NEW p \in Procs, RunAgain(p) PROVE TypeOK'
      BY <2>4, CacheAssumption DEF RunAgain
    <2>5. CASE UNCHANGED vars
      BY <2>5 DEF vars
    <2>. QED
      BY <2>1, <2>2, <2>3, <2>4, <2>5 DEF Next, AllOver
  <1>. QED
    BY <1>1, <1>2, PTL DEF Spec

\* The step of a process that stores leaves the others where they are, and it
\* never reaches "using".
LEMMA StoreMoves ==
    ASSUME TypeOK, NEW p \in Procs, Store(p)
    PROVE  /\ p \in InStore
           /\ \A q \in Procs \ {p} : pc'[q] = pc[q] /\ tmp'[q] = tmp[q]
           /\ InStore' \subseteq InStore
           /\ shared' = shared
           /\ pc'[p] # "using"
  <1>1. p \in InStore
    BY DEF Store, Produce, ProducerRaises, WriteDescriptor, CheckFinal, Unlink,
           RemoveDir, Rename, Cleanup, InStore, Over
  <1>2. /\ \A q \in Procs \ {p} : pc'[q] = pc[q] /\ tmp'[q] = tmp[q]
        /\ shared' = shared
        /\ pc'[p] # "using"
    BY DEF TypeOK, Goto, Store, Produce, ProducerRaises, WriteDescriptor, CheckFinal,
           Unlink, RemoveDir, Rename, Cleanup
  <1>3. InStore' \subseteq InStore
    BY <1>1, <1>2 DEF InStore
  <1>. QED
    BY <1>1, <1>2, <1>3

\* A store that is alone shows nothing before its rename, which shows all of it.
LEMMA StoreShows ==
    ASSUME TypeOK, IInv, ~shared, NEW p \in Procs, Store(p)
    PROVE  \/ ~Has' /\ pc'[p] # "stored"
           \/ final'.files = Files /\ pc'[p] = "stored"
  <1>1. ~Has
    BY StoreMoves DEF IInv, StoreSeesNoEntry
  <1>2. CASE Rename(p)
    BY <1>1, <1>2 DEF Rename, IInv, TmpIsWhole, Has, TypeOK, Goto
  <1>3. CASE ~Rename(p)
    BY <1>1, <1>3 DEF TypeOK, Goto, Store, Produce, ProducerRaises, WriteDescriptor,
         CheckFinal, Unlink, RemoveDir, Cleanup, Has, Absent
  <1>. QED
    BY <1>2, <1>3

\* A step of store() keeps the invariant.
LEMMA StoreStep ==
    ASSUME TypeOK, IInv, NEW p \in Procs, Store(p)
    PROVE  IInv'
  <1>1. OneStore'
    BY StoreMoves DEF IInv, OneStore
  <1>2. StoreSeesNoEntry'
    <2> SUFFICES ASSUME ~shared, InStore' # {}
                 PROVE  ~Has' /\ \A q \in Procs : pc'[q] \notin {"using", "stored"}
      BY StoreMoves DEF StoreSeesNoEntry
    <2>1. InStore' = {p}
      BY StoreMoves DEF IInv, OneStore
    <2>2. pc'[p] # "stored"
      BY <2>1 DEF InStore, Over
    <2>3. \A q \in Procs \ {p} : pc'[q] \notin {"using", "stored"}
      BY StoreMoves DEF IInv, StoreSeesNoEntry
    <2>. QED
      BY <2>2, <2>3, StoreMoves, StoreShows DEF Files, Has
  <1>3. TmpIsWhole'
    <2>1. /\ pc'[p] = "describe" => tmp'[p] = {"artifact"}
          /\ pc'[p] \in {"swap", "remove", "rename"} => tmp'[p] = Files
      BY DEF IInv, TmpIsWhole, TypeOK, Goto, Files, Store, Produce, ProducerRaises,
             WriteDescriptor, CheckFinal, Unlink, RemoveDir, Rename, Cleanup
    <2>. QED
      BY <2>1, StoreMoves DEF IInv, TmpIsWhole
  <1>4. VisibleIsWhole'
    <2>1. ASSUME ~shared PROVE \A q \in Procs \ {p} : pc'[q] \notin {"using", "stored"}
      BY <2>1, StoreMoves DEF IInv, StoreSeesNoEntry
    <2>. QED
      BY <2>1, StoreMoves, StoreShows DEF VisibleIsWhole
  <1>. QED
    BY <1>1, <1>2, <1>3, <1>4 DEF IInv

\* The inductive invariant of the cache.
THEOREM Inductive == Spec => []IInv
  <1>1. Init => IInv
    BY DEF Init, IInv, OneStore, StoreSeesNoEntry, TmpIsWhole, VisibleIsWhole,
           InStore, Has, Absent
  <1>2. TypeOK /\ IInv /\ [Next]_vars => IInv'
    <2> SUFFICES ASSUME TypeOK, IInv, [Next]_vars PROVE IInv'
      OBVIOUS
    <2>1. ASSUME NEW p \in Procs, Lookup(p) PROVE IInv'
      <3>1. /\ pc' = [pc EXCEPT ![p] = IF Has THEN "using" ELSE "copy"]
            /\ shared' = (shared \/ (~Has /\ InStore # {}))
            /\ UNCHANGED <<turn, final, tmp, listing, failed>>
            /\ pc[p] = "idle"
        BY <2>1 DEF Lookup, Goto
      <3>2. /\ Has' = Has
            /\ \A q \in Procs \ {p} : pc'[q] = pc[q]
            /\ pc'[p] = IF Has THEN "using" ELSE "copy"
        BY <3>1 DEF Has, TypeOK
      <3>3. InStore' = IF Has THEN InStore ELSE InStore \cup {p}
        BY <3>1, <3>2 DEF InStore, Over
      <3>4. OneStore'
        BY <3>1, <3>3 DEF IInv, OneStore
      <3>5. StoreSeesNoEntry'
        <4> SUFFICES ASSUME ~shared', InStore' # {}
                     PROVE  ~Has' /\ \A q \in Procs : pc'[q] \notin {"using", "stored"}
          BY DEF StoreSeesNoEntry
        <4>1. ~shared /\ (~Has => InStore = {})
          BY <3>1
        <4>2. ~Has
          BY <3>3, <4>1 DEF IInv, StoreSeesNoEntry
        <4>3. final.files # Files
          BY <4>2 DEF Has, Files
        <4>4. \A q \in Procs : pc[q] \notin {"using", "stored"}
          BY <4>1, <4>3 DEF IInv, VisibleIsWhole
        <4>. QED
          BY <3>2, <4>2, <4>4
      <3>6. TmpIsWhole'
        BY <3>1, <3>2 DEF IInv, TmpIsWhole
      <3>7. VisibleIsWhole'
        <4> SUFFICES ASSUME ~shared', Has' \/ \E q \in Procs : pc'[q] \in {"using", "stored"}
                     PROVE  final'.files = Files
          BY DEF VisibleIsWhole
        <4>1. ~shared /\ final' = final
          BY <3>1
        <4>2. Has \/ \E q \in Procs : pc[q] \in {"using", "stored"}
          BY <3>2
        <4>. QED
          BY <4>1, <4>2 DEF IInv, VisibleIsWhole
      <3>. QED
        BY <3>4, <3>5, <3>6, <3>7 DEF IInv
    <2>2. ASSUME NEW p \in Procs, Crash(p) \/ RunAgain(p) PROVE IInv'
      <3>1. /\ UNCHANGED <<final, shared>>
            /\ pc'[p] \in {"dead", "idle"}
            /\ \A q \in Procs \ {p} : pc'[q] = pc[q] /\ tmp'[q] = tmp[q]
        BY <2>2 DEF Crash, RunAgain, Goto, TypeOK
      <3>2. InStore' \subseteq InStore
        BY <3>1 DEF InStore, Over
      <3>. QED
        BY <3>1, <3>2 DEF IInv, OneStore, StoreSeesNoEntry, TmpIsWhole,
                          VisibleIsWhole, Has
    <2>3. CASE UNCHANGED vars
      BY <2>3 DEF vars, IInv, OneStore, StoreSeesNoEntry, TmpIsWhole, VisibleIsWhole,
                  InStore, Has
    <2>. QED
      BY <2>1, <2>2, <2>3, StoreStep DEF Next, AllOver
  <1>. QED
    BY <1>1, <1>2, TypeCorrect, PTL DEF Spec

\* A hit, and a cache_dir in use, is whole: for any processes, runs, raising
\* producers and crashes, as long as no two stores overlap.
THEOREM VisibleEntryIsWhole == Spec => []VisibleIsWhole
  <1>1. IInv => VisibleIsWhole
    BY DEF IInv
  <1>. QED
    BY <1>1, Inductive, PTL

\* A visible entry is neither replaced nor removed, as long as no two stores
\* overlap: has() was false when the only storing process looked.
THEOREM VisibleEntryIsStable == Spec => EntryIsStable
  <1>1. TypeOK /\ IInv /\ [Next]_vars => [Has /\ ~shared' => final' = final]_final
    <2> SUFFICES ASSUME TypeOK, IInv, [Next]_vars, Has, ~shared'
                 PROVE  final' = final
      OBVIOUS
    <2>1. ASSUME NEW p \in Procs, Store(p) PROVE FALSE
      BY <2>1, StoreMoves DEF IInv, StoreSeesNoEntry
    <2>. QED
      BY <2>1 DEF Next, AllOver, vars, Lookup, Crash, RunAgain
  <1>. QED
    BY <1>1, Inductive, TypeCorrect, PTL DEF Spec, EntryIsStable

------------------------------------------------------------------------------
(* Stores that do overlap, of two processes.  They may take the same entry *)
(* apart, but one of the two made it, and comes back to it only when the   *)
(* other has removed the descriptor: one file is left at most to fight for.*)

\* A directory is of an earlier turn of its process, or of one that is over.
Owned(d) ==
    \E o \in Procs : \E t \in 1..MaxRuns :
        d = <<o, t>> /\ t <= turn[o] /\ (t = turn[o] => pc[o] \in Over)
DirectoriesAreOwned ==
    /\ Exists => Owned(final.by)
    /\ ~Exists => final.files = {}
    /\ \A p \in Procs : pc[p] = "remove" => Owned(listing[p].by)
\* A process that stores over its own entry found the descriptor gone.
OwnerSeesNoEntry ==
    \A o \in InStore : (\E t \in 1..MaxRuns : final.by = <<o, t>>) => ~Has
\* Who removes the entry as it is now has listed just what is left of it, or
\* nothing is left.
Removing(p) == pc[p] = "remove" /\ listing[p].by = final.by
RemovesTheRest ==
    \A p \in Procs : Removing(p) =>
        /\ final.files \subseteq listing[p].todo
        /\ final.files = {} \/ listing[p].todo = final.files
\* There is a whole entry, or somebody who will yet rename one into place unless
\* the other does.
Winner(p) ==
    \/ pc[p] = "idle" /\ ~Has
    \/ pc[p] \in {"copy", "describe", "swap"}
    \/ Removing(p) /\ listing[p].todo = final.files
    \/ pc[p] = "rename" /\ final.files = {}
SomeoneWins == failed \/ final.files = Files \/ \E p \in Procs : Winner(p)

Contest ==
    /\ DirectoriesAreOwned
    /\ OwnerSeesNoEntry
    /\ RemovesTheRest
    /\ SomeoneWins

\* A step of one process: the others keep their place, turn and listing.
LEMMA OthersStay ==
    ASSUME TypeOK, NEW p \in Procs, Lookup(p) \/ Store(p) \/ Crash(p) \/ RunAgain(p)
    PROVE  \A q \in Procs \ {p} :
              pc'[q] = pc[q] /\ turn'[q] = turn[q] /\ listing'[q] = listing[q]
  <1>1. CASE Lookup(p) \/ Crash(p) \/ RunAgain(p)
    BY <1>1 DEF TypeOK, Lookup, Crash, RunAgain, Goto
  <1>2. CASE Store(p)
    <2>1. /\ turn' = turn
          /\ \A q \in Procs \ {p} : listing'[q] = listing[q]
      BY <1>2 DEF TypeOK, Store, Produce, ProducerRaises, WriteDescriptor, CheckFinal,
                  Unlink, RemoveDir, Rename, Cleanup
    <2>. QED
      BY <1>2, <2>1, StoreMoves
  <1>. QED
    BY <1>1, <1>2

\* Whose a directory is does not change.
LEMMA OwnedStays ==
    ASSUME TypeOK, NEW p \in Procs, Lookup(p) \/ Store(p) \/ Crash(p) \/ RunAgain(p),
           NEW d, Owned(d)
    PROVE  Owned(d)'
  <1>1. PICK o \in Procs, t \in 1..MaxRuns :
            d = <<o, t>> /\ t <= turn[o] /\ (t = turn[o] => pc[o] \in Over)
    BY DEF Owned
  <1>2. turn[o] \in Nat /\ t \in Nat
    BY CacheAssumption DEF TypeOK
  <1>3. turn'[o] \in Nat /\ t <= turn'[o] /\ (t = turn'[o] => pc'[o] \in Over)
    <2>1. CASE o # p
      BY <1>1, <1>2, <2>1, OthersStay
    <2>2. CASE o = p /\ RunAgain(p)
      <3>1. turn'[o] = turn[o] + 1
        BY <2>2 DEF RunAgain, TypeOK
      <3>2. PICK u \in Nat : u = turn[o]
        BY <1>2
      <3>3. t <= u + 1 /\ t # u + 1
        BY <1>1, <1>2, <3>2
      <3>. QED
        BY <3>1, <3>2, <3>3
    <2>3. CASE o = p /\ ~RunAgain(p)
      <3>1. pc[p] \notin Over /\ turn' = turn
        BY <2>3 DEF Lookup, Crash, Over, Store, Produce, ProducerRaises, WriteDescriptor,
                    CheckFinal, Unlink, RemoveDir, Rename, Cleanup
      <3>. QED
        BY <1>1, <1>2, <2>3, <3>1
    <2>. QED
      BY <2>1, <2>2, <2>3
  <1>. QED
    BY <1>1, <1>3 DEF Owned

\* A directory that is nobody's is no one's, and a process that is renaming has
\* made none in this turn.
LEMMA NotOwned ==
    ASSUME TypeOK
    PROVE  /\ ~Owned(Nobody)
           /\ \A p \in Procs : pc[p] \notin Over => ~Owned(<<p, turn[p]>>)
  BY CacheAssumption DEF TypeOK, Owned, Nobody

\* What a step does to the entry.
LEMMA EntryMoves ==
    ASSUME TypeOK, NEW p \in Procs, Lookup(p) \/ Store(p) \/ Crash(p) \/ RunAgain(p)
    PROVE  \/ final' = final /\ (pc'[p] = "remove" => CheckFinal(p))
           \/ /\ Unlink(p) /\ pc' = pc /\ final.by = listing[p].by
              /\ \E f \in listing[p].todo \cap final.files :
                    /\ final' = [final EXCEPT !.files = @ \ {f}]
                    /\ listing' = [listing EXCEPT ![p].todo = @ \ {f}]
           \/ /\ RemoveDir(p) /\ final' = Absent /\ pc'[p] = "rename"
              /\ UNCHANGED listing
           \/ /\ Rename(p) /\ final' = [by |-> <<p, turn[p]>>, files |-> tmp[p]]
              /\ pc'[p] = "stored" /\ UNCHANGED listing
  <1>1. CASE Lookup(p) \/ Crash(p) \/ RunAgain(p)
    BY <1>1 DEF TypeOK, Lookup, Crash, RunAgain, Goto
  <1>2. CASE Unlink(p)
    BY <1>2 DEF TypeOK, Unlink, Goto
  <1>3. CASE RemoveDir(p)
    BY <1>3 DEF TypeOK, RemoveDir, Goto
  <1>4. CASE Rename(p)
    BY <1>4 DEF TypeOK, Rename, Goto
  <1>5. CASE Produce(p) \/ ProducerRaises(p) \/ WriteDescriptor(p) \/ CheckFinal(p) \/ Cleanup(p)
    BY <1>5 DEF TypeOK, Produce, ProducerRaises, WriteDescriptor, CheckFinal, Cleanup, Goto
  <1>. QED
    BY <1>1, <1>2, <1>3, <1>4, <1>5 DEF Store

\* Every directory keeps an owner.
LEMMA DirectoriesStayOwned ==
    ASSUME TypeOK, DirectoriesAreOwned,
           NEW p \in Procs, Lookup(p) \/ Store(p) \/ Crash(p) \/ RunAgain(p)
    PROVE  DirectoriesAreOwned'
  <1>1. ASSUME NEW q \in Procs, pc'[q] = "remove", NEW d, d = listing'[q].by
        PROVE  Owned(d)'
    <2>1. Owned(d)
      <3>1. CASE q # p
        BY <1>1, <3>1, OthersStay DEF DirectoriesAreOwned
      <3>2. CASE q = p /\ CheckFinal(p)
        BY <1>1, <3>2 DEF DirectoriesAreOwned, CheckFinal, Goto, TypeOK
      <3>3. CASE q = p /\ ~CheckFinal(p)
        <4>1. Unlink(p) /\ pc' = pc /\ listing'[p].by = listing[p].by
          BY <1>1, <3>3, EntryMoves DEF TypeOK
        <4>. QED
          BY <1>1, <3>3, <4>1 DEF DirectoriesAreOwned
      <3>. QED
        BY <3>1, <3>2, <3>3
    <2>. QED
      BY <2>1, OwnedStays
  <1>2. ASSUME NEW d, d = final'.by
        PROVE  IF d # Nobody THEN Owned(d)' ELSE final'.files = {}
    <2>1. CASE d = final.by /\ final'.files \subseteq final.files
      BY <2>1, OwnedStays DEF DirectoriesAreOwned, Exists
    <2>2. CASE final' = Absent
      BY <1>2, <2>2 DEF Absent
    <2>3. CASE /\ Rename(p) /\ final' = [by |-> <<p, turn[p]>>, files |-> tmp[p]]
               /\ pc'[p] = "stored"
      <3>1. turn' = turn /\ turn[p] \in 1..MaxRuns /\ turn[p] <= turn[p]
        BY <2>3, CacheAssumption DEF Rename, TypeOK
      <3>2. d = <<p, turn[p]>>
        BY <1>2, <2>3
      <3>3. Owned(d)'
        BY <2>3, <3>1, <3>2 DEF Owned, Over
      <3>4. d # Nobody
        BY <3>1, <3>2 DEF Nobody
      <3>. QED
        BY <3>3, <3>4
    <2>. QED
      BY <1>2, <2>1, <2>2, <2>3, EntryMoves DEF TypeOK
  <1>3. \A q \in Procs : pc'[q] = "remove" => Owned(listing[q].by)'
    BY <1>1 DEF Owned
  <1>4. Exists' => Owned(final.by)'
    BY <1>2 DEF Owned, Exists
  <1>5. ~Exists' => final'.files = {}
    BY <1>2 DEF Exists
  <1>. QED
    BY <1>3, <1>4, <1>5 DEF DirectoriesAreOwned

\* The owner does not see its entry come back.
LEMMA OwnerStillSeesNone ==
    ASSUME TypeOK, OwnerSeesNoEntry,
           NEW p \in Procs, Lookup(p) \/ Store(p) \/ Crash(p) \/ RunAgain(p)
    PROVE  OwnerSeesNoEntry'
  <1> SUFFICES ASSUME NEW o \in InStore', NEW t \in 1..MaxRuns, final'.by = <<o, t>>, Has'
               PROVE  FALSE
    BY DEF OwnerSeesNoEntry
  <1>1. o \in Procs /\ pc'[o] \notin Over \cup {"idle"}
    BY DEF InStore
  <1>2. CASE final'.by = final.by /\ final'.files \subseteq final.files
    <2>1. Has
      BY <1>2 DEF Has
    <2>2. CASE o \in InStore
      BY <1>2, <2>1, <2>2 DEF OwnerSeesNoEntry
    <2>3. CASE o \notin InStore
      <3>1. o = p
        BY <1>1, <2>3, OthersStay DEF InStore
      <3>. QED
        BY <1>1, <2>1, <2>3, <3>1, StoreMoves
           DEF InStore, Over, TypeOK, Lookup, Crash, RunAgain, Goto
    <2>. QED
      BY <2>2, <2>3
  <1>3. CASE final' = Absent
    BY <1>3 DEF Absent, Has
  <1>4. CASE final'.by = <<p, turn[p]>> /\ pc'[p] = "stored"
    BY <1>1, <1>4 DEF Over
  <1>. QED
    BY <1>2, <1>3, <1>4, EntryMoves DEF TypeOK

\* Of two processes that remove the same entry one made it.
LEMMA OneFileLeft ==
    ASSUME NEW a, NEW b, Procs = {a, b}, TypeOK, DirectoriesAreOwned, OwnerSeesNoEntry,
           NEW p \in Procs, NEW q \in Procs, p # q, Removing(p), Removing(q)
    PROVE  final.files \subseteq {"artifact"}
  <1>1. PICK o \in Procs, t \in 1..MaxRuns : final.by = <<o, t>>
    BY DEF DirectoriesAreOwned, Owned, Removing
  <1>2. o = p \/ o = q
    OBVIOUS
  <1>3. o \in InStore
    BY <1>2 DEF InStore, Over, Removing
  <1>4. ~Has
    BY <1>1, <1>3 DEF OwnerSeesNoEntry
  <1>. QED
    BY <1>4 DEF Has, TypeOK, Files

\* Who removes the entry still lists what is left of it.
LEMMA TheRestIsRemoved ==
    ASSUME NEW a, NEW b, Procs = {a, b}, TypeOK,
           DirectoriesAreOwned, OwnerSeesNoEntry, RemovesTheRest,
           NEW p \in Procs, Lookup(p) \/ Store(p) \/ Crash(p) \/ RunAgain(p)
    PROVE  RemovesTheRest'
  <1> SUFFICES ASSUME NEW q \in Procs, pc'[q] = "remove", listing'[q].by = final'.by
               PROVE  /\ final'.files \subseteq listing'[q].todo
                      /\ final'.files = {} \/ listing'[q].todo = final'.files
    BY DEF RemovesTheRest, Removing
  <1>1. CASE final' = final /\ (pc'[p] = "remove" => CheckFinal(p))
    <2>1. CASE q = p
      BY <1>1, <2>1 DEF CheckFinal, TypeOK, Goto
    <2>2. CASE q # p
      BY <1>1, <2>2, OthersStay DEF RemovesTheRest, Removing
    <2>. QED
      BY <2>1, <2>2
  <1>2. CASE /\ Unlink(p) /\ pc' = pc /\ final.by = listing[p].by
             /\ \E f \in listing[p].todo \cap final.files :
                    /\ final' = [final EXCEPT !.files = @ \ {f}]
                    /\ listing' = [listing EXCEPT ![p].todo = @ \ {f}]
    <2>1. PICK f \in final.files :
              /\ f \in listing[p].todo
              /\ final' = [final EXCEPT !.files = @ \ {f}]
              /\ listing' = [listing EXCEPT ![p].todo = @ \ {f}]
      BY <1>2
    <2>2. /\ final'.by = final.by /\ final'.files = final.files \ {f}
          /\ listing'[p].todo = listing[p].todo \ {f} /\ listing'[p].by = listing[p].by
      BY <2>1 DEF TypeOK
    <2>3. Removing(p)
      BY <1>2 DEF Unlink, Removing
    <2>4. CASE q = p
      BY <2>1, <2>2, <2>3, <2>4 DEF RemovesTheRest
    <2>5. CASE q # p
      <3>1. Removing(q) /\ listing'[q] = listing[q]
        BY <1>2, <2>2, <2>5, OthersStay DEF Removing
      <3>2. final.files \subseteq {"artifact"}
        BY <2>3, <2>5, <3>1, OneFileLeft
      <3>. QED
        BY <2>1, <2>2, <3>1, <3>2 DEF RemovesTheRest
    <2>. QED
      BY <2>4, <2>5
  <1>3. CASE RemoveDir(p) /\ final' = Absent /\ pc'[p] = "rename" /\ UNCHANGED listing
    <2>1. q # p
      BY <1>3
    <2>2. pc[q] = "remove" /\ listing[q].by = Nobody
      BY <1>3, <2>1, OthersStay DEF Absent
    <2>. QED
      BY <2>2, NotOwned DEF DirectoriesAreOwned
  <1>4. CASE /\ Rename(p) /\ final' = [by |-> <<p, turn[p]>>, files |-> tmp[p]]
             /\ pc'[p] = "stored" /\ UNCHANGED listing
    <2>1. q # p
      BY <1>4
    <2>2. pc[q] = "remove" /\ listing[q].by = <<p, turn[p]>>
      BY <1>4, <2>1, OthersStay
    <2>3. pc[p] \notin Over
      BY <1>4 DEF Rename, Over
    <2>. QED
      BY <2>2, <2>3, NotOwned DEF DirectoriesAreOwned
  <1>. QED
    BY <1>1, <1>2, <1>3, <1>4, EntryMoves

\* Whoever takes the winner's place is the next winner, or has stored.
LEMMA SomeoneStillWins ==
    ASSUME TypeOK, TmpIsWhole, DirectoriesAreOwned, RemovesTheRest, SomeoneWins,
           NEW p \in Procs, Lookup(p) \/ Store(p) \/ Crash(p) \/ RunAgain(p)
    PROVE  SomeoneWins'
  <1> SUFFICES ASSUME ~failed' PROVE final'.files = Files \/ \E q \in Procs : Winner(q)'
    BY DEF SomeoneWins
  <1>1. ~failed /\ ~Crash(p) /\ ~ProducerRaises(p)
    BY DEF Lookup, Crash, RunAgain, Store, Produce, ProducerRaises, WriteDescriptor,
           CheckFinal, Unlink, RemoveDir, Rename, Cleanup, TypeOK
  <1>2. ASSUME final' = final, NEW q \in Procs \ {p}, Winner(q) PROVE Winner(q)'
    BY <1>2, OthersStay DEF Winner, Removing, Has
  <1>3. ASSUME final' = final, ~Winner(p) \/ Winner(p)'
        PROVE  final'.files = Files \/ \E q \in Procs : Winner(q)'
    <2>1. final.files = Files \/ \E q \in Procs : Winner(q)
      BY <1>1 DEF SomeoneWins
    <2>2. CASE final.files = Files
      BY <1>3, <2>2
    <2>3. CASE final.files # Files
      <3>1. PICK q \in Procs : Winner(q)
        BY <2>1, <2>3
      <3>. QED
        BY <1>2, <1>3, <3>1
    <2>. QED
      BY <2>2, <2>3
  <1>4. CASE Lookup(p) \/ RunAgain(p) \/ Produce(p) \/ WriteDescriptor(p) \/ Cleanup(p)
    <2>1. final' = final
      BY <1>4 DEF Lookup, RunAgain, Produce, WriteDescriptor, Cleanup
    <2>2. ~Winner(p) \/ Winner(p)'
      BY <1>4 DEF Lookup, RunAgain, Produce, WriteDescriptor, Cleanup, Goto, TypeOK,
                  Winner, Removing, Over
    <2>. QED
      BY <1>3, <2>1, <2>2
  <1>5. CASE CheckFinal(p)
    <2>1. Winner(p)'
      <3>1. CASE Exists
        BY <1>5, <3>1 DEF CheckFinal, Goto, TypeOK, Winner, Removing
      <3>2. CASE ~Exists
        BY <1>5, <3>2 DEF CheckFinal, Goto, TypeOK, Winner, DirectoriesAreOwned
      <3>. QED
        BY <3>1, <3>2
    <2>. QED
      BY <2>1
  <1>6. CASE Unlink(p)
    <2>1. PICK f \in listing[p].todo :
            IF final.by = listing[p].by /\ f \in final.files
            THEN /\ final' = [final EXCEPT !.files = @ \ {f}]
                 /\ listing' = [listing EXCEPT ![p].todo = @ \ {f}]
                 /\ UNCHANGED pc
            ELSE pc' = [pc EXCEPT ![p] = "cleanup"] /\ UNCHANGED <<final, listing>>
      BY <1>6 DEF Unlink, Goto
    <2>2. CASE final.by = listing[p].by /\ f \in final.files
      <3>1. /\ final'.by = final.by /\ final'.files = final.files \ {f} /\ pc' = pc
            /\ listing'[p].todo = listing[p].todo \ {f} /\ listing'[p].by = listing[p].by
        BY <2>1, <2>2 DEF TypeOK
      <3>2. pc[p] = "remove" /\ listing[p].todo = final.files
        BY <1>6, <2>2 DEF Unlink, RemovesTheRest, Removing
      <3>3. Winner(p)'
        BY <2>2, <3>1, <3>2 DEF Winner, Removing
      <3>. QED
        BY <3>3
    <2>3. CASE ~(final.by = listing[p].by /\ f \in final.files)
      <3>1. final' = final
        BY <2>1, <2>3
      <3>2. ~Winner(p)
        BY <1>6, <2>1, <2>3 DEF Unlink, Winner, Removing
      <3>. QED
        BY <1>3, <3>1, <3>2
    <2>. QED
      BY <2>2, <2>3
  <1>7. CASE RemoveDir(p)
    <2>1. CASE Exists /\ final.files = {}
      <3>1. Winner(p)'
        BY <1>7, <2>1 DEF RemoveDir, Goto, TypeOK, Winner, Absent
      <3>. QED
        BY <3>1
    <2>2. CASE ~(Exists /\ final.files = {})
      <3>1. final' = final
        BY <1>7, <2>2 DEF RemoveDir
      <3>2. ~Winner(p)
        BY <1>7, <2>2, NotOwned DEF RemoveDir, Winner, Removing, Exists, DirectoriesAreOwned
      <3>. QED
        BY <1>3, <3>1, <3>2
    <2>. QED
      BY <2>1, <2>2
  <1>8. CASE Rename(p)
    <2>1. CASE final.files = {}
      BY <1>8, <2>1 DEF Rename, TmpIsWhole
    <2>2. CASE final.files # {}
      <3>1. final' = final
        BY <1>8, <2>2 DEF Rename
      <3>2. ~Winner(p)
        BY <1>8, <2>2 DEF Rename, Winner, Removing
      <3>. QED
        BY <1>3, <3>1, <3>2
    <2>. QED
      BY <2>1, <2>2
  <1>. QED
    BY <1>1, <1>4, <1>5, <1>6, <1>7, <1>8 DEF Store

\* With at most two processes an entry is not lost, however their stores
\* interleave.  With a third it may be: two that did not make it take a whole
\* entry apart between them, and both raise.
THEOREM TwoDoNotLoseTheEntry ==
    ASSUME NEW a, NEW b, Procs = {a, b}
    PROVE  Spec => []EntryNotLost
  <1>1. Init => Contest
    <2> SUFFICES ASSUME Init PROVE Contest
      OBVIOUS
    <2>1. DirectoriesAreOwned /\ OwnerSeesNoEntry /\ RemovesTheRest
      BY DEF Init, DirectoriesAreOwned, OwnerSeesNoEntry, RemovesTheRest, Removing,
             InStore, Absent, Exists
    <2>2. Winner(a)
      BY DEF Init, Winner, Has, Absent
    <2>. QED
      BY <2>1, <2>2 DEF Contest, SomeoneWins
  <1>2. TypeOK /\ IInv /\ Contest /\ [Next]_vars => Contest'
    <2> SUFFICES ASSUME TypeOK, IInv, Contest, [Next]_vars PROVE Contest'
      OBVIOUS
    <2>1. ASSUME NEW p \in Procs, Lookup(p) \/ Store(p) \/ Crash(p) \/ RunAgain(p)
          PROVE  Contest'
      BY <2>1, DirectoriesStayOwned, OwnerStillSeesNone, TheRestIsRemoved, SomeoneStillWins
         DEF IInv, Contest
    <2>2. CASE UNCHANGED vars
      BY <2>2 DEF vars, Contest, DirectoriesAreOwned, OwnerSeesNoEntry, RemovesTheRest,
                  SomeoneWins, Winner, Removing, Owned, Exists, Has, InStore
    <2>. QED
      BY <2>1, <2>2 DEF Next, AllOver
  <1>3. Contest => EntryNotLost
    BY DEF Contest, SomeoneWins, EntryNotLost, Winner, Removing, Over
  <1>. QED
    BY <1>1, <1>2, <1>3, TypeCorrect, Inductive, PTL DEF Spec

================================================================================
