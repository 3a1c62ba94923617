----------------------------- MODULE Authority -----------------------------
(***************************************************************************)
(* What a member may do and what says so: role assignments and their       *)
(* tuples in OpenFGA (RoleProjection), professional qualifications and the *)
(* command that reloads the role baseline (RoleBaseline), covenanter       *)
(* numbers and credentials (Credentials).  Each is modelled with the rows  *)
(* it writes, so they share no state here: a step is a step of one.        *)
(***************************************************************************)
EXTENDS RoleProjection

CONSTANTS
    Holders, NoSession, MaxGrants, MaxRollbacks, MaxEdits,           \* of Credentials
    Staff, Administrator, Expert, LastMoment, MaxRows, MaxEvents, MaxChanges, MaxResets
                                                                     \* of RoleBaseline

VARIABLES
    grants, holder, config, requests, rollbacks, edits,             \* of Credentials
    clock, allowed, roles, domain, quals, chain, hashes, records, cmd, spent,
    subjects                                                        \* of RoleBaseline

Numbers == INSTANCE Credentials WITH Members <- Holders, sess <- requests

Desk == INSTANCE RoleBaseline WITH
    Members <- Staff, MaxTime <- LastMoment, now <- clock, sess <- records

ASSUME AuthorityAssumption ==
    RoleProjectionAssumption /\ Numbers!CredentialsAssumption /\ Desk!BaselineAssumption

---------------------------------------------------------------------------
(* The three parts side by side *)

numberVars == <<grants, holder, config, requests, rollbacks, edits>>
deskVars == <<clock, allowed, roles, domain, quals, chain, hashes, records, cmd, spent, subjects>>
authorityVars == <<vars, numberVars, deskVars>>

AuthorityInit == Init /\ Numbers!Init /\ Desk!Init

AuthorityNext ==
    \/ Next /\ UNCHANGED <<numberVars, deskVars>>
    \/ Numbers!Next /\ UNCHANGED <<vars, deskVars>>
    \/ Desk!Next /\ UNCHANGED <<vars, numberVars>>

AuthoritySpec == AuthorityInit /\ [][AuthorityNext]_authorityVars

---------------------------------------------------------------------------
(* The properties of the parts *)

\* Access rests on facts (RoleProjection, RoleBaseline): a role is held by one running
\* assignment; a check that answers yes found the fact in the database when it began,
\* whatever late, lost or reordered calls left in the store; a rebuild that nothing
\* disturbs leaves the store equal to the facts; rosters and single checks of a
\* qualification agree.
AccessFollowsFacts == ProjectionSound /\ Desk!TypeOK /\ Desk!SelectionAgrees

\* Covenanter numbers are given out as 1, 2, 3... and never used again, and a member gets
\* one number and one credential per key (Credentials).
NumbersSound == Numbers!NumbersSound

\* A revoked qualification is never used again; the command that reloads the baseline
\* reports PASS on nothing less than the baseline in force, where the qualification of
\* the expert is left to it (RoleBaseline).
QualificationsHold == Desk!QualificationsHold

=============================================================================
