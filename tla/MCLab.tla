------------------------------- MODULE MCLab -------------------------------
(***************************************************************************)
(* Small instances of Lab, and of the page of the plan as the observer     *)
(* shows it (Mainline).  They share no state: focus says which of them     *)
(* acts, the others rest in their initial state.  The engine rests here,   *)
(* at a plan of one node: it acts in MCSimulation.                         *)
(***************************************************************************)
EXTENDS Lab, Integers, TLC

CONSTANTS
    c1, c2, c3,    \* change sets
    r1, r2,        \* simulation runs
    w1, w2,        \* workers that archive, discard, reset and run
    NoNode

VARIABLES focus, nodes, active

pageVars == <<nodes, active>>

---------------------------------------------------------------------------
(* The instances *)

SoundNode == [type |-> "add_node", required |-> TRUE, keys |-> {"code", "title"}]
SoundDependency == [type |-> "add_dependency", required |-> TRUE,
                    keys |-> {"node_code", "depends_on_code"}]
Nameless == [type |-> "add_requirement", required |-> TRUE, keys |-> {"node_id"}]
Unknown == [type |-> "remove_node", required |-> FALSE, keys |-> {}]

\* One sound change set, one with an operation that is not known, one with an
\* operation that lacks a key.
MCOperations ==
    c1 :> {SoundNode, SoundDependency} @@ c2 :> {SoundNode, Unknown} @@ c3 :> {SoundNode, Nameless}

MCPlan ==
    [nodes |-> <<"A">> :> [sequence |-> 1, kind |-> "work", parent |-> <<"none">>,
                           status |-> "planned", required |-> TRUE, cost |-> 0,
                           duration |-> 1, people |-> 0, skills |-> {}, resources |-> 0,
                           closures |-> {}],
     deps |-> {}]
MCSituations == {[budget |-> 0, people |-> 0, skills |-> {}, tired |-> FALSE, stock |-> 0]}
MCClosureSteps == <<>>

\* Two workers at one run.
OneRun == INSTANCE RunArchive WITH Runs <- {r1}, MaxTurns <- 1

\* Three nodes of one revision and one of another, under any parents.
Groups == INSTANCE Mainline WITH
    Order <- <<"a", "b", "x", "c">>,
    RevisionOf <- [n \in {"a", "b", "c", "x"} |-> IF n = "x" THEN 2 ELSE 1],
    Types <- {"work_package", "stage"}, Statuses <- {"planned"},
    CurrentLimit <- 6, ShownLimit <- 4, WalkLimit <- 5, None <- NoNode

\* Three nodes of one revision, planned, under way or done, more than the page reads.
Work == INSTANCE Mainline WITH
    Order <- <<"a", "b", "c">>, RevisionOf <- [n \in {"a", "b", "c"} |-> 1],
    Types <- {"work_package", "stage"}, Statuses <- {"planned", "in_progress", "completed"},
    CurrentLimit <- 2, ShownLimit <- 1, WalkLimit <- 5, None <- NoNode

ASSUME PageAssumption == Groups!MainlineAssumption /\ Work!MainlineAssumption

\* At the archive, one worker with two runs, of which one may be left by an older version,
\* or two workers at one run.
MCInit ==
    /\ focus \in {"review", "archive", "race", "groups", "work"}
    /\ LabInit
    /\ focus # "review" => run.status = "running"
    /\ IF focus = "race" THEN crew = {w1, w2} /\ runs[r2].status = "absent"
       ELSE crew \in {{w1}, {w2}}
    /\ focus \notin {"archive", "race"} => \A r \in Runs : runs[r].status = "absent"
    /\ IF focus = "work" THEN Work!Init ELSE Groups!Init
    /\ focus # "groups" => active = 1

MCNext ==
    /\ UNCHANGED <<focus, engineVars>>
    /\ \/ focus = "review" /\ Review!Next /\ UNCHANGED <<archiveVars, pageVars>>
       \/ focus = "archive" /\ Archive!Next /\ UNCHANGED <<reviewVars, pageVars>>
       \/ focus = "race" /\ OneRun!Next /\ UNCHANGED <<reviewVars, pageVars>>
       \/ focus = "groups" /\ Groups!Next /\ UNCHANGED <<reviewVars, archiveVars>>
       \/ focus = "work" /\ Work!Next /\ UNCHANGED <<reviewVars, archiveVars>>

MCSpec == MCInit /\ [][MCNext]_<<focus, labVars, pageVars>>

Symmetry == Permutations({w1, w2}) \cup Permutations(Forms)

---------------------------------------------------------------------------
(* The property of the page *)

\* The dashboard (Mainline): every node is on the page once, under the stage right above
\* it and as deep as its distance from it, whatever circles of parents the edits make;
\* the stage at the top is the marked group; work that is read is shown, work of the
\* current stage first.
PageSound ==
    /\ focus = "groups" => Groups!TypeOK /\ Groups!GroupedByStage /\ Groups!DepthIsDistance
    /\ focus = "work" => Work!TypeOK /\ Work!StageAgreesWithGroups /\ Work!CurrentWorkShown

=============================================================================
