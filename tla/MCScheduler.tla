----------------------------- MODULE MCScheduler -----------------------------
(* Small instances of Scheduler: every dependency relation over three steps *)
(* (cycles, self-loops and an unknown name included).                       *)
EXTENDS Scheduler, TLC

CONSTANTS a, b, c, ghost

MCSteps  == {a, b, c}
MCNames  == {a, b, c, ghost}
\* Any relation: a may depend on anything, the others on steps only.
MCGraphs == {g \in [MCSteps -> SUBSET MCNames] :
                \A n \in MCSteps \ {a} : ghost \notin g[n]}
=============================================================================
