----------------------------- MODULE MCLifecycle -----------------------------
(* One build key and two configurations that differ in their repro_nonce;  *)
(* a call without a cache that asks for a subprocess it cannot have and    *)
(* has a ceiling, and with the cache one in process and one in a           *)
(* subprocess (with guard and ceiling).                                    *)
EXTENDS Lifecycle, TLC

CONSTANTS c1, c2

MCConfigs == {c1, c2}
MCBuildKey == [c \in MCConfigs |-> "key"]

Option(cacheable, subprocess, budget) ==
  [cacheable |-> cacheable, subprocess |-> subprocess, budget |-> budget]
MCOptions ==
  {Option(FALSE, TRUE, TRUE), Option(TRUE, FALSE, FALSE), Option(TRUE, TRUE, TRUE)}

Interchangeable ==
  Permutations(MCConfigs) \cup Permutations(Envs) \cup Permutations(Metrics)
==============================================================================
