------------------------------- MODULE OOMGuard -------------------------------
(***************************************************************************)
(* The decision logic of benchmark_engine/guard.py and the thresholds of   *)
(* model.ResourceBudget it reads.  A guard's state is its count of         *)
(* consecutive samples above the hard threshold; _warn_count is written    *)
(* and never read, so it is left out.                                      *)
(***************************************************************************)
EXTENDS Integers

Warns  == "WARN"
Kills  == {"HARD_KILL", "EMERGENCY_KILL"}
Action == {"OK", "WARN", "HARD_KILL", "EMERGENCY_KILL"}

HardSustained == 2

\* The budget's fields: sizes in KB, and the fractions of the total (75, 85 and 92 by
\* default) in percent.  Nothing in the code puts the fractions in order.
ResourceBudget == [total_ram_kb : Nat, estimated_peak_kb : Nat,
                   warn_frac : Nat, hard_frac : Nat, emergency_frac : Nat]

\* int() truncates.
WarnKb(b)      == (b.total_ram_kb * b.warn_frac) \div 100
HardKb(b)      == (b.total_ram_kb * b.hard_frac) \div 100
EmergencyKb(b) == (b.total_ram_kb * b.emergency_frac) \div 100

\* The budget gate of the lifecycle: an estimate of 0 is no estimate.
Verdict(b) ==
    IF b.estimated_peak_kb # 0 /\ b.estimated_peak_kb > HardKb(b) THEN "REJECT" ELSE "GO"

\* The branch of observe() a sample takes, in the order of its tests.
Level(b, rss) ==
    CASE rss > EmergencyKb(b) -> "emergency"
      [] rss <= EmergencyKb(b) /\ rss > HardKb(b) -> "hard"
      [] rss <= EmergencyKb(b) /\ rss <= HardKb(b) /\ rss > WarnKb(b) -> "warn"
      [] OTHER -> "ok"

\* observe(): the action, and the count of hard samples afterwards.
ObserveAction(count, level) ==
    CASE level = "emergency" -> "EMERGENCY_KILL"
      [] level = "hard" -> IF count + 1 >= HardSustained THEN "HARD_KILL" ELSE Warns
      [] level = "warn" -> Warns
      [] level = "ok" -> "OK"

\* Mutants: a sample below the hard threshold does not reset the count; it takes
\* one off it.
ObserveCountKeeps(count, level) == IF level = "hard" THEN count + 1 ELSE count
ObserveCountDecays(count, level) ==
    CASE level = "emergency" -> count
      [] level = "hard" -> count + 1
      [] OTHER -> count - 1

ObserveCount(count, level) ==
    CASE level = "emergency" -> count
      [] level = "hard" -> count + 1
      [] OTHER -> 0
=============================================================================
