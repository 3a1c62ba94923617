-------------------------- MODULE WorldsAndAvatars --------------------------
(***************************************************************************)
(* Worlds and the objects kept for their members: the registry of worlds   *)
(* with the operations on their databases (WorldLifecycle), and the        *)
(* avatars of the members of one world (Avatars).  Each is modelled with   *)
(* the rows and objects it writes, so they share no state here: a step is  *)
(* a step of one.                                                          *)
(***************************************************************************)
EXTENDS Avatars

CONSTANTS
    Worlds, RealWorld, Aliases, Operators, Requests, Storages, Crashes,
    MaxSeeds, MaxResets                                             \* of WorldLifecycle

VARIABLES env, registry, dbs, files, log, begun, op, req            \* of WorldLifecycle

Life == INSTANCE WorldLifecycle

ASSUME WorldsAndAvatarsAssumption == AvatarsAssumption /\ Life!WorldAssumption

---------------------------------------------------------------------------
(* The two parts side by side *)

lifeVars == <<env, registry, dbs, files, log, begun, op, req>>
worldsVars == <<vars, lifeVars>>

WorldsInit == Init /\ Life!Init

WorldsNext ==
    \/ Next /\ UNCHANGED lifeVars
    \/ Life!Next /\ UNCHANGED vars

WorldsSpec == WorldsInit /\ [][WorldsNext]_worldsVars

---------------------------------------------------------------------------
(* The properties of the registry; AvatarsSound is that of avatars *)

\* No two worlds that are not deleted share a database, and a reset that is logged as
\* succeeded counted a whole zero-start baseline, when commands come one at a time; the
\* real world is never archived or deleted, under whatever type it is registered and
\* whichever commands race (WorldLifecycle).
WorldsSound == Life!WorldsSound

\* No reset takes rows of the real world out of its database, when commands come one at a
\* time and worlds keep their type (WorldLifecycle).
RealRowsSafe == Life!RealRowsSafe

=============================================================================
