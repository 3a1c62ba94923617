------------------------------ MODULE MCWorlds ------------------------------
(***************************************************************************)
(* Instances of WorldsAndAvatars for model checking.  The parts share no   *)
(* state, so focus says which of them acts and within which bounds, the    *)
(* other one rests in its initial state; and it says how the system was    *)
(* set up when it started.                                                 *)
(***************************************************************************)
EXTENDS WorldsAndAvatars, TLC

CONSTANTS
    real, sim1, sim2,      \* worlds
    db1, db2,              \* their databases
    o1, o2,                \* operators
    m1, m2,                \* members with avatars
    s1, s2                 \* requests and commands about avatars

VARIABLE focus

---------------------------------------------------------------------------
(* The instances *)

\* One simulation, one operator who may die at any step, one member at work.
Lifecycle == INSTANCE WorldLifecycle WITH Worlds <- {real, sim1}, MaxSeeds <- 0

\* Two simulations for two databases.
Registry == INSTANCE WorldLifecycle WITH Requests <- {}

\* Two operators at a time, who register worlds under any type.
Race == INSTANCE WorldLifecycle WITH Worlds <- {real, sim1}, Requests <- {}, MaxSeeds <- 0

\* Storage calls and transactions fail, processes die; one member's avatar, still in the
\* old layout, is replaced and removed.
Faulty == INSTANCE Avatars WITH Members <- {m1}, MaxUploads <- 2

\* Everything that goes wrong, for one member.
Served == INSTANCE Avatars WITH Members <- {m1}, MaxUploads <- 2, MaxNotices <- 0

ofWorlds == {"lifecycle", "registry", "race"}

MCInit ==
    /\ focus \in ofWorlds \cup {"faulty", "served", "quiet"}
    /\ WorldsInit
    /\ IF focus = "race" THEN env.staff = {o1, o2} /\ env.retype
       ELSE env.staff \in {{o1}, {o2}} /\ ~env.retype
    /\ focus \notin ofWorlds => env.administrator = "off"
    /\ faults = CASE focus = "served" -> AllFaults
                  [] focus = "quiet" -> {}
                  [] OTHER -> {"failures", "crashes"}
    /\ legacy = IF focus = "quiet" THEN {} ELSE {m1}

MCNext ==
    /\ UNCHANGED focus
    /\ \/ /\ \/ focus = "lifecycle" /\ Lifecycle!Next
             \/ focus = "registry" /\ Registry!Next
             \/ focus = "race" /\ Race!Next
          /\ UNCHANGED vars
       \/ /\ \/ focus = "faulty" /\ Faulty!Next
             \/ focus = "served" /\ Served!Next
             \/ focus = "quiet" /\ Next
          /\ UNCHANGED lifeVars

MCSpec == MCInit /\ [][MCNext]_<<focus, worldsVars>>

Symmetry == Permutations({db1, db2}) \cup Permutations({o1, o2}) \cup Permutations({s1, s2})

=============================================================================
