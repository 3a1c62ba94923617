--------------------------- MODULE MCMemberCredits ---------------------------
(* A small instance of MemberCredits for TLC. *)
EXTENDS MemberCredits, TLC

CONSTANTS m1, m2, s1, s2, k1, o1, o2, c1

MCAccounts == Members \cup SystemAccounts
MCOpening == [a \in Accounts |-> IF a = m1 THEN 4 ELSE 0]

Symmetry == Permutations(Sessions) \cup Permutations(FreshIds)

=============================================================================
