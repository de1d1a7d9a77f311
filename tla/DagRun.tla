-------------------------------- MODULE DagRun --------------------------------
(***************************************************************************)
(* What Scheduler.run promises its caller (the doc string of               *)
(* engine/scheduler.py), without waves, pools, threads or cache: steps     *)
(* start when their dependencies have completed, a performance measure has *)
(* the machine to itself, a step below a failure is blocked, and the run   *)
(* ends with every step settled, or with an error that has a reason.       *)
(***************************************************************************)
CONSTANTS Steps, Names, Graphs

VARIABLES deps, kind, state, outcome

vars == <<deps, kind, state, outcome>>

Status == {"COMPLETED", "FAILED", "ABORTED_GUARDRAIL"}
Settled == Status \cup {"blocked"}

Init ==
    /\ deps \in Graphs
    /\ kind \in [Steps -> {"prep", "parallel", "perf"}]
    /\ state = [n \in Steps |-> "pending"]
    /\ outcome = "open"

Running == {n \in Steps : state[n] = "running"}

Start(n) ==
    /\ outcome = "open" \/ (outcome = "failing" /\ kind[n] # "perf")
    /\ state[n] = "pending"
    /\ \A d \in deps[n] : d \in Steps /\ state[d] = "COMPLETED"
    /\ kind[n] = "perf" => Running = {}
    /\ \A m \in Running : kind[m] # "perf"
    /\ state' = [state EXCEPT ![n] = "running"]
    /\ UNCHANGED <<deps, kind, outcome>>

Finish(n) ==
    /\ state[n] = "running"
    /\ \E s \in Status \cup {"error"} : state' = [state EXCEPT ![n] = s]
    /\ UNCHANGED <<deps, kind, outcome>>

\* Every step of S has a dependency that has settled without completing.
Block(S) ==
    /\ outcome = "open"
    /\ \A n \in S :
          /\ state[n] = "pending"
          /\ \E d \in deps[n] \cap Steps : state[d] \in Settled \ {"COMPLETED"}
    /\ state' = [n \in Steps |-> IF n \in S THEN "blocked" ELSE state[n]]
    /\ UNCHANGED <<deps, kind, outcome>>

\* A step's error stops the run: it will end with the error.  Steps that may run
\* beside others can still start, a performance measure cannot.
GiveUp ==
    /\ outcome = "open"
    /\ \E n \in Steps : state[n] = "error"
    /\ outcome' = "failing"
    /\ UNCHANGED <<deps, kind, state>>

End ==
    /\ Running = {}
    /\ \/ /\ outcome = "open"
          /\ \A n \in Steps : state[n] \in Settled
          /\ outcome' = "returned"
       \/ /\ outcome = "failing"
          /\ outcome' = "raised"
       \/ \* the pending steps wait for one another or for an unknown name
          /\ outcome = "open"
          /\ \E n \in Steps : state[n] = "pending"
          /\ \A n \in Steps : \/ state[n] \in Settled
                              \/ /\ state[n] = "pending"
                                 /\ \E d \in deps[n] : d \in Steps => state[d] = "pending"
          /\ outcome' = "cycle"
    /\ UNCHANGED <<deps, kind, state>>

Next == \/ \E n \in Steps : Start(n) \/ Finish(n)
        \/ \E S \in SUBSET Steps : Block(S)
        \/ GiveUp
        \/ End

Spec == Init /\ [][Next]_vars
=============================================================================
