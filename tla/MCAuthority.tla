---------------------------- MODULE MCAuthority ----------------------------
(***************************************************************************)
(* Small instances of Authority.  The parts share no state: focus says     *)
(* which of them acts, the others rest in their initial state.             *)
(* RoleBaseline acts in two instances, neither of them beyond the bounds   *)
(* of Authority.                                                           *)
(***************************************************************************)
EXTENDS Authority, TLC

CONSTANTS
    m1,                      \* a member with assignments
    n1, n2,                  \* members with credentials
    s1, s2,                  \* concurrent requests
    admin, expert, other     \* the members of the role baseline, and one more

VARIABLE focus

\* Qualifications are recorded, revoked and run out while the baseline is reloaded.
Office == INSTANCE RoleBaseline WITH
    Members <- Staff, Sessions <- {s1}, MaxTime <- LastMoment, MaxEvents <- 0, MaxResets <- 1,
    now <- clock, sess <- records

\* The baseline is loaded twice while members, qualifications of others than the expert and
\* the event chain change.
Reload == INSTANCE RoleBaseline WITH
    Members <- Staff, Sessions <- {s1}, MaxTime <- LastMoment, MaxRows <- 1,
    now <- clock, sess <- records

MCInit ==
    /\ focus \in {"projection", "desk", "reload", "numbers"}
    /\ AuthorityInit
    /\ focus \in {"projection", "numbers"} => roles[admin] = {}
    /\ focus # "numbers" => config["builtin"] = "unset"
    /\ subjects = IF focus = "desk" THEN Staff ELSE Staff \ {expert}

MCNext ==
    \/ focus = "projection" /\ Next /\ UNCHANGED <<focus, numberVars, deskVars>>
    \/ focus = "numbers" /\ Numbers!Next /\ UNCHANGED <<focus, vars, deskVars>>
    \/ focus = "desk" /\ Office!Next /\ UNCHANGED <<focus, vars, numberVars>>
    \/ focus = "reload" /\ Reload!Next /\ UNCHANGED <<focus, vars, numberVars>>

MCSpec == MCInit /\ [][MCNext]_<<focus, authorityVars>>

Symmetry == Permutations({s1, s2}) \cup Permutations({n1, n2})

=============================================================================
