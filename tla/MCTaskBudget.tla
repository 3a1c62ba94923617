---------------------------- MODULE MCTaskBudget ----------------------------
(* A small instance of TaskBudget for TLC: one task worth two credits and one *)
(* that is worth nothing.                                                     *)
EXTENDS TaskBudget, TLC

CONSTANTS m1, s1, s2, k1, k2, k3, t1, t2

MCAccounts == Tasks \cup Members \cup {Pool, Residue}
MCReward == [t \in Tasks |-> IF t = t1 THEN 2 ELSE 0]

Symmetry == Permutations(Sessions) \cup Permutations(Keys)

=============================================================================
