-------------------------- MODULE MCExpenseClaims --------------------------
(* A small instance of ExpenseClaims for TLC. *)
EXTENDS ExpenseClaims, TLC

CONSTANTS m1, m2, m3, s1, s2, c1, f1, f2, f3, f4

Symmetry == Permutations(Sessions) \cup Permutations(Objects)

=============================================================================
