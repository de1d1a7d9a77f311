-------------------------------- MODULE Gates --------------------------------
(***************************************************************************)
(* What the gates before a run decide, as operators: the manifest gate     *)
(* (discipline/manifest.py) and phase A of the preflight                   *)
(* (discipline/preflight.py).                                              *)
(*                                                                         *)
(* A configuration is the function from its parameters to their values.    *)
(* The code compares str() of values; a value here is its str().           *)
(***************************************************************************)

\* check_manifest: the manifest's parameters that the configuration lacks.
Missing(cfg, manifest) == manifest \ DOMAIN cfg

\* baseline_diff: a parameter that changed is a treatment if its path ends with
\* the treatment's name (treated), or an allowed drift, or unexpected.
Unexpected(new, base, treated, allowed) ==
    {k \in DOMAIN new \cap DOMAIN base : new[k] # base[k]} \ (treated \cup allowed)

\* Mutant: only what the baseline has and the new configuration lacks blocks.
PhaseAOkMissing(new, base, treated, allowed) == DOMAIN base \subseteq DOMAIN new

\* BaselineDiff.ok: a parameter only the new configuration has is listed as
\* extra and does not block.
PhaseAOk(new, base, treated, allowed) ==
    /\ Unexpected(new, base, treated, allowed) = {}
    /\ DOMAIN base \subseteq DOMAIN new

==============================================================================
