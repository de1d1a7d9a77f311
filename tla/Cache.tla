--------------------------------- MODULE Cache ---------------------------------
(***************************************************************************)
(* engine/cache.py SignatureCache, as Scheduler._run_one uses it: look an  *)
(* entry up, and on a miss produce the artifact and store it.  One entry   *)
(* <root>/<step>/<sig> is modelled at the grain of the file operations     *)
(* that another process, or a crash, can come between.  The root is        *)
(* <workdir>/_cache, which several harness processes may share and which   *)
(* outlives each of them.                                                  *)
(***************************************************************************)
EXTENDS Integers, FiniteSets

CONSTANTS
    Procs,     \* harness processes using the same workdir
    MaxRuns,   \* bound: runs of each process
    Crashes    \* may a process die between two steps?

ASSUME CacheAssumption ==
    /\ MaxRuns \in Nat \ {0}
    /\ Crashes \in BOOLEAN

VARIABLES
    pc,       \* where each process is
    turn,     \* which of its runs a process is in
    final,    \* the entry's directory: who renamed it into place, its files
    tmp,      \* each process's temporary directory: its files
    listing,  \* what a process's rmtree(final) has still to unlink, and where
    failed,   \* has a producer raised, or a process died?
    shared    \* have two processes been past the lookup at the same time?

vars == <<pc, turn, final, tmp, listing, failed, shared>>

\* The artifact stands for everything the producer copies.
Files  == {"artifact", "descriptor"}
Nobody == <<"nobody", 0>>
Absent == [by |-> Nobody, files |-> {}]
Exists == final.by # Nobody
Has    == "descriptor" \in final.files

Over == {"stored", "using", "raised", "dead"}

TypeOK ==
    /\ pc \in [Procs -> Over \cup {"idle", "copy", "describe", "swap", "remove",
                                   "rename", "cleanup"}]
    /\ turn \in [Procs -> 1..MaxRuns]
    /\ final \in [by : {Nobody} \cup (Procs \X (1..MaxRuns)), files : SUBSET Files]
    /\ tmp \in [Procs -> SUBSET Files]
    /\ listing \in [Procs -> [by : {Nobody} \cup (Procs \X (1..MaxRuns)),
                              todo : SUBSET Files]]
    /\ failed \in BOOLEAN
    /\ shared \in BOOLEAN

Init ==
    /\ pc = [p \in Procs |-> "idle"]
    /\ turn = [p \in Procs |-> 1]
    /\ final = Absent
    /\ tmp = [p \in Procs |-> {}]
    /\ listing = [p \in Procs |-> [by |-> Nobody, todo |-> {}]]
    /\ failed = FALSE
    /\ shared = FALSE

Goto(p, place) == pc' = [pc EXCEPT ![p] = place]

-----------------------------------------------------------------------------
InStore == {p \in Procs : pc[p] \notin Over \cup {"idle"}}

\* Mutant: the entry is produced again whether it is there or not.
LookupNever(p) ==
    /\ pc[p] = "idle"
    /\ Goto(p, "copy")
    /\ shared' = (shared \/ InStore # {})
    /\ UNCHANGED <<turn, final, tmp, listing, failed>>

\* cache.has(): on a hit the step is given path_for() and reads it later; on a
\* miss the launcher runs the step, and store() makes its temporary directory.
Lookup(p) ==
    /\ pc[p] = "idle"
    /\ Goto(p, IF Has THEN "using" ELSE "copy")
    /\ shared' = (shared \/ (~Has /\ InStore # {}))
    /\ UNCHANGED <<turn, final, tmp, listing, failed>>

\* Mutant: the producer leaves a file of its own.
ProduceStray(p) ==
    /\ pc[p] = "copy"
    /\ tmp' = [tmp EXCEPT ![p] = {"artifact", "lock"}]
    /\ Goto(p, "describe")
    /\ UNCHANGED <<turn, final, listing, failed, shared>>

Produce(p) ==
    /\ pc[p] = "copy"
    /\ tmp' = [tmp EXCEPT ![p] = {"artifact"}]
    /\ Goto(p, "describe")
    /\ UNCHANGED <<turn, final, listing, failed, shared>>

ProducerRaises(p) ==
    /\ pc[p] = "copy"
    /\ failed' = TRUE
    /\ Goto(p, "cleanup")
    /\ UNCHANGED <<turn, final, tmp, listing, shared>>

\* Mutant: the descriptor is written to the entry, before the artifact is moved.
WriteDescriptorInPlace(p) ==
    /\ pc[p] = "describe"
    /\ final' = [by |-> <<p, turn[p]>>, files |-> final.files \cup {"descriptor"}]
    /\ Goto(p, "swap")
    /\ UNCHANGED <<turn, tmp, listing, failed, shared>>

WriteDescriptor(p) ==
    /\ pc[p] = "describe"
    /\ tmp' = [tmp EXCEPT ![p] = @ \cup {"descriptor"}]
    /\ Goto(p, "swap")
    /\ UNCHANGED <<turn, final, listing, failed, shared>>

\* if final.exists(): shutil.rmtree(final), which opens the directory and
\* lists it first.
CheckFinal(p) ==
    /\ pc[p] = "swap"
    /\ IF Exists
         THEN /\ Goto(p, "remove")
              /\ listing' = [listing EXCEPT ![p] = [by |-> final.by, todo |-> final.files]]
         ELSE Goto(p, "rename") /\ UNCHANGED listing
    /\ UNCHANGED <<turn, final, tmp, failed, shared>>

\* Unlink one file of the directory that was opened; it is an error if it is
\* gone, or the directory is.
Unlink(p) ==
    /\ pc[p] = "remove"
    /\ \E f \in listing[p].todo :
          IF final.by = listing[p].by /\ f \in final.files
            THEN /\ final' = [final EXCEPT !.files = @ \ {f}]
                 /\ listing' = [listing EXCEPT ![p].todo = @ \ {f}]
                 /\ UNCHANGED pc
            ELSE Goto(p, "cleanup") /\ UNCHANGED <<final, listing>>
    /\ UNCHANGED <<turn, tmp, failed, shared>>

\* Mutant: waits for the directory to be empty.
RemoveDirWaits(p) ==
    /\ pc[p] = "remove"
    /\ listing[p].todo = {}
    /\ Exists /\ final.files = {}
    /\ final' = Absent
    /\ Goto(p, "rename")
    /\ UNCHANGED <<turn, tmp, listing, failed, shared>>

\* os.rmdir(final): by name, and only an empty directory.
RemoveDir(p) ==
    /\ pc[p] = "remove"
    /\ listing[p].todo = {}
    /\ IF Exists /\ final.files = {}
         THEN final' = Absent /\ Goto(p, "rename")
         ELSE Goto(p, "cleanup") /\ UNCHANGED final
    /\ UNCHANGED <<turn, tmp, listing, failed, shared>>

\* tmp.rename(final): the target may be missing or an empty directory.
Rename(p) ==
    /\ pc[p] = "rename"
    /\ IF final.files = {}
         THEN /\ final' = [by |-> <<p, turn[p]>>, files |-> tmp[p]]
              /\ tmp' = [tmp EXCEPT ![p] = {}]
              /\ Goto(p, "stored")
         ELSE Goto(p, "cleanup") /\ UNCHANGED <<final, tmp>>
    /\ UNCHANGED <<turn, listing, failed, shared>>

\* Mutant: the error path removes the entry too.
CleanupEntry(p) ==
    /\ pc[p] = "cleanup"
    /\ tmp' = [tmp EXCEPT ![p] = {}]
    /\ final' = Absent
    /\ Goto(p, "raised")
    /\ UNCHANGED <<turn, listing, failed, shared>>

\* except: remove the temporary directory and re-raise.
Cleanup(p) ==
    /\ pc[p] = "cleanup"
    /\ tmp' = [tmp EXCEPT ![p] = {}]
    /\ Goto(p, "raised")
    /\ UNCHANGED <<turn, final, listing, failed, shared>>

\* The process dies; its temporary directory stays, under a name of its own.
Crash(p) ==
    /\ Crashes
    /\ pc[p] \notin Over
    /\ failed' = TRUE
    /\ Goto(p, "dead")
    /\ UNCHANGED <<turn, final, tmp, listing, shared>>

\* The same config is run again, in this process or after a restart.
RunAgain(p) ==
    /\ pc[p] \in Over
    /\ turn[p] < MaxRuns
    /\ turn' = [turn EXCEPT ![p] = @ + 1]
    /\ tmp' = [tmp EXCEPT ![p] = {}]      \* mkdtemp gives another name
    /\ Goto(p, "idle")
    /\ UNCHANGED <<final, listing, failed, shared>>

Store(p) == \/ Produce(p) \/ ProducerRaises(p) \/ WriteDescriptor(p)
            \/ CheckFinal(p) \/ Unlink(p) \/ RemoveDir(p) \/ Rename(p) \/ Cleanup(p)

AllOver == (\A p \in Procs : pc[p] \in Over /\ turn[p] = MaxRuns) /\ UNCHANGED vars

Next == (\E p \in Procs : Lookup(p) \/ Store(p) \/ Crash(p) \/ RunAgain(p)) \/ AllOver

Spec == Init /\ [][Next]_vars
FairSpec == Spec /\ \A p \in Procs : WF_vars(Lookup(p) \/ Store(p))

-----------------------------------------------------------------------------
\* A hit is whole, and so is the cache_dir a step was given, by a hit or by its own
\* store, while the steps that depend on it read it: whatever producers raised and
\* wherever processes died, as long as no two processes store at the same time.
VisibleIsWhole ==
    ~shared /\ (Has \/ \E p \in Procs : pc[p] \in {"using", "stored"}) =>
        final.files = Files

\* An entry that is visible is never replaced or removed: every later run reuses
\* the same artifact, after a restart too, as long as no two processes store at
\* the same time.
EntryIsStable == [][Has /\ ~shared' => final' = final]_final

\* Two processes may fight over the directory: one store() removes the other's
\* entry, or loses the rename and raises.  If no producer raised and nobody died,
\* a whole entry is left when all are over.
EntryNotLost ==
    ~failed /\ (\A p \in Procs : pc[p] \in Over) => final.files = Files

\* A directory left half removed does not block the entry: a run that misses
\* and produces either stores the entry or raises, and never hangs.
StoreEnds == \A p \in Procs : pc[p] = "copy" ~> pc[p] \in Over

\* cache.py:9-10, "Stores are atomic: the producer writes into a temp dir that is
\* renamed into place only on success", which the code does not keep when two
\* processes store the same entry: the first one's rmtree takes the second one's
\* entry apart, file by file, while it is visible.
StoresAreAtomic == Has => final.files = Files
=============================================================================
