---------------------------- MODULE OOMGuardProofs ----------------------------
(***************************************************************************)
(* Theorems about the thresholds of OOMGuard, for any budget.              *)
(***************************************************************************)
EXTENDS OOMGuard, TLAPS

\* int(total * frac) keeps the order of two fractions, also where truncation
\* makes the thresholds equal.
LEMMA ThresholdsOrdered ==
    ASSUME NEW b \in ResourceBudget, b.hard_frac <= b.emergency_frac
    PROVE  HardKb(b) \in Nat /\ EmergencyKb(b) \in Nat /\ HardKb(b) <= EmergencyKb(b)
  <1>1. ASSUME NEW t \in Nat, NEW x \in Nat, NEW y \in Nat, x <= y
        PROVE  /\ (t * x) \div 100 \in Nat /\ (t * y) \div 100 \in Nat
               /\ (t * x) \div 100 <= (t * y) \div 100
    <2>1. t * x \in Nat /\ t * y \in Nat /\ t * x <= t * y
      BY <1>1
    <2>2. ASSUME NEW m \in Nat, NEW n \in Nat, m <= n
          PROVE  m \div 100 \in Nat /\ n \div 100 \in Nat /\ m \div 100 <= n \div 100
      BY <2>2
    <2> QED BY <2>1, <2>2
  <1>2. /\ b.total_ram_kb \in Nat /\ b.hard_frac \in Nat /\ b.emergency_frac \in Nat
    BY DEF ResourceBudget
  <1> QED BY <1>1, <1>2 DEF HardKb, EmergencyKb

\* model.py:118 and guard.py:32-48, the gate and the guard agree: a run that the
\* budget gate lets pass and that stays within its estimate takes neither of the
\* two branches of observe() that lead to a kill, whatever the memory and the
\* fractions, as long as the emergency fraction is not below the hard one.
THEOREM AcceptedEstimateIsSafe ==
    ASSUME NEW b \in ResourceBudget, b.hard_frac <= b.emergency_frac,
           b.estimated_peak_kb # 0, Verdict(b) = "GO",
           NEW rss \in Nat, rss <= b.estimated_peak_kb
    PROVE  Level(b, rss) \notin {"hard", "emergency"}
  <1>1. HardKb(b) \in Nat /\ EmergencyKb(b) \in Nat /\ HardKb(b) <= EmergencyKb(b)
    BY ThresholdsOrdered
  <1>2. b.estimated_peak_kb \in Nat /\ b.estimated_peak_kb <= HardKb(b)
    BY <1>1 DEF Verdict, ResourceBudget
  <1>3. rss <= HardKb(b) /\ rss <= EmergencyKb(b)
    BY <1>1, <1>2
  <1>4. ~(rss > HardKb(b)) /\ ~(rss > EmergencyKb(b))
    BY <1>1, <1>3
  <1>5. Level(b, rss) \in {"warn", "ok"}
    BY <1>3, <1>4 DEF Level
  <1> QED BY <1>5

==============================================================================
