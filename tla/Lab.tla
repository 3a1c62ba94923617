-------------------------------- MODULE Lab --------------------------------
(***************************************************************************)
(* The simulation lab beside the worlds it runs in: the engine that runs   *)
(* plans (PlanSimulation), the desk at which a reviewer decides the change *)
(* sets of one run (LabReview), and the archive of finished runs           *)
(* (RunArchive).  Each is modelled with the rows it writes and what it     *)
(* reads of them, so they share no state here: a step is a step of one.    *)
(***************************************************************************)

CONSTANTS
    ChangeSets, Operations, Closure, Forms,                    \* of LabReview
    Runs, Workers, MaxTurns,                                   \* of RunArchive
    Plan, Situations, ClosureSteps, Limits, MaxRuns, MaxRevisions, MaxAborts
                                                               \* of PlanSimulation

VARIABLES
    run, sets, revisions, reviews,                             \* of LabReview
    runs, snapshots, dispositions, workers, crew,              \* of RunArchive
    world, planRevisions, planRuns, drivers, planChanges, desk, aborts
                                                               \* of PlanSimulation

Review == INSTANCE LabReview WITH Requests <- Forms, req <- reviews

Archive == INSTANCE RunArchive

Engine == INSTANCE PlanSimulation WITH
    Worlds <- Situations, revisions <- planRevisions, runs <- planRuns,
    changeSets <- planChanges

ASSUME LabAssumption ==
    /\ Review!LabReviewAssumption
    /\ Archive!RunArchiveAssumption
    /\ Engine!PlanSimulationAssumption

---------------------------------------------------------------------------
(* The three parts side by side *)

reviewVars == <<run, sets, revisions, reviews>>
archiveVars == <<runs, snapshots, dispositions, workers, crew>>
engineVars == <<world, planRevisions, planRuns, drivers, planChanges, desk, aborts>>
labVars == <<reviewVars, archiveVars, engineVars>>

LabInit == Review!Init /\ Archive!Init /\ Engine!Init

LabNext ==
    \/ Review!Next /\ UNCHANGED <<archiveVars, engineVars>>
    \/ Archive!Next /\ UNCHANGED <<reviewVars, engineVars>>
    \/ Engine!Next /\ UNCHANGED <<reviewVars, archiveVars>>

LabSpec == LabInit /\ [][LabNext]_labVars

---------------------------------------------------------------------------
(* The properties of the parts *)

\* The review desk and the archive (LabReview, RunArchive): the plan has one published
\* baseline, whichever change sets are applied, applied again or rejected at the same
\* time, and one revision per change set; archiving is advised only when nothing waits
\* for a decision, and what the page recommends can be applied; a snapshot has its
\* complete package and a disposition, wherever the worker that writes it dies, and
\* verifies when nobody advances the run meanwhile.
DeskSound == Review!DeskSound /\ Archive!ArchiveSound

\* A plan run (PlanSimulation): its budget is what it started with less what it
\* completed, no node is completed before what it depends on, a stage exactly when its
\* required children are; a run that failed left a change set that answers the failure, a
\* driver that stopped left its run ended or paused, and a change set is applied once.
PlanRunSound == Engine!PlanRunSound

\* Snapshots and dispositions are never changed or removed, and every finished run has
\* its disposition before another one starts when requests come one at a time
\* (RunArchive).
DispositionsStand == Archive!DispositionsStand

=============================================================================
