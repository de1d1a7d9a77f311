------------------------------ MODULE MCCommand ------------------------------
(***************************************************************************)
(* Pipelines of up to three stages and two parameters, "n" the treatment.  *)
(***************************************************************************)
EXTENDS Command

St(kind, needs, refs, reads) ==
    [kind |-> kind, needs |-> needs, refs |-> refs, reads |-> reads,
     gpu |-> refs # {}, effective |-> refs # {}]

\* a -> b -> m, where m reads both: a downstream stage whose own command does
\* not name the parameter its upstream stage does.
MCChain == [a |-> St("prep", {}, {"n"}, {}),
            b |-> St("prep", {"a"}, {"x"}, {"a"}),
            m |-> St("measure", {"b"}, {}, {"a", "b"})]

\* Two independent stages, and a measurement that names a parameter.
MCFork == [a |-> St("prep", {}, {"n"}, {}),
           b |-> St("prep", {}, {"x"}, {}),
           m |-> St("measure", {"a", "b"}, {"n"}, {"a", "b"})]

\* Two measurements, the second of the first's output.
MCTwoMeasures == [a |-> St("prep", {}, {"n"}, {}),
                  m |-> St("measure", {"a"}, {"x"}, {"a"}),
                  s |-> St("measure", {"m"}, {}, {"m"})]

\* b needs c only through a, and its command names c: the placeholder stays.
MCSkipped == [c |-> St("prep", {}, {"n"}, {}),
              a |-> St("prep", {"c"}, {}, {"c"}),
              b |-> St("prep", {"a"}, {}, {"c"}),
              m |-> St("measure", {"b"}, {}, {"b"})]

MCCycle == [a |-> St("prep", {"b"}, {"n"}, {}),
            b |-> St("prep", {"a"}, {}, {"a"}),
            m |-> St("measure", {"b"}, {}, {"b"})]

MCUnknown == [a |-> St("prep", {"z"}, {"n"}, {}),
              m |-> St("measure", {"a"}, {}, {"a"})]

MCPipelines == {MCChain, MCFork, MCTwoMeasures, MCSkipped, MCCycle, MCUnknown}
MCConfigs == [{"n", "x"} -> {1, 2}] \cup {[n |-> 1], [n |-> 1, x |-> 1, y |-> 1]}
MCBaselines == {None, [n |-> 1, x |-> 1]}

==============================================================================
