---------------------------- MODULE MCProgress ----------------------------
(***************************************************************************)
(* What must eventually happen: whoever asks for a covenanter number gets  *)
(* an answer, the loop of a simulation run ends, the requests of the       *)
(* review desk end.  The three share no state: focus says which of them    *)
(* acts, the others rest in their initial state, where none of their       *)
(* fair steps is possible.                                                 *)
(***************************************************************************)
EXTENDS Integers, TLC

CONSTANTS
    n1, s1, s2,            \* a member and the requests for its number
    c1, c2, c3, q1, q2,    \* change sets and requests of the desk
    NoSession

VARIABLES
    focus,
    grants, holder, config, requests, rollbacks, edits,
    world, planRevisions, planRuns, drivers, planChanges, desk, aborts,
    run, sets, revisions, req

numberVars == <<grants, holder, config, requests, rollbacks, edits>>
planVars == <<world, planRevisions, planRuns, drivers, planChanges, desk, aborts>>
reviewVars == <<run, sets, revisions, req>>
vars == <<focus, numberVars, planVars, reviewVars>>

---------------------------------------------------------------------------
(* The instances *)

Numbers == INSTANCE Credentials WITH
    Members <- {n1}, Sessions <- {s1, s2}, MaxGrants <- 2, MaxRollbacks <- 1,
    MaxEdits <- 0, sess <- requests

Node == [sequence |-> 10, kind |-> "work", parent |-> <<"none">>, status |-> "planned",
         required |-> TRUE, cost |-> 10, duration |-> 1, people |-> 1, skills |-> {},
         resources |-> 0, closures |-> {}]

\* Two stages of work, of which the second needs what a world may lack.
SeededPlan ==
    [nodes |-> (<<"P">> :> [Node EXCEPT !.kind = "stage", !.cost = 0])
            @@ (<<"A">> :> [Node EXCEPT !.sequence = 30, !.parent = <<"P">>])
            @@ (<<"B">> :> [Node EXCEPT !.sequence = 50, !.parent = <<"P">>, !.cost = 20,
                                        !.people = 3, !.skills = {"wiring"}, !.duration = 2])
            @@ (<<"C">> :> [Node EXCEPT !.sequence = 60, !.resources = 1, !.people = 0]),
     deps |-> {<< <<"B">>, <<"A">> >>}]

Rich == [budget |-> 100, people |-> 6, skills |-> {"wiring", "recruiting"},
         tired |-> FALSE, stock |-> 1]

Engine == INSTANCE PlanSimulation WITH
    Plan <- SeededPlan,
    Worlds <- {Rich, [Rich EXCEPT !.budget = 25], [Rich EXCEPT !.skills = {}],
               [Rich EXCEPT !.people = 2, !.tired = TRUE], [Rich EXCEPT !.stock = 0]},
    Limits <- {2, 9}, ClosureSteps <- <<"GRID-PRESCREEN", "STRUCTURE-DOC">>,
    MaxRuns <- 1, MaxRevisions <- 2, MaxAborts <- 1,
    revisions <- planRevisions, runs <- planRuns, changeSets <- planChanges

SoundNode == [type |-> "add_node", required |-> TRUE, keys |-> {"code", "title"}]
Nameless == [type |-> "add_requirement", required |-> TRUE, keys |-> {"node_id"}]
Unknown == [type |-> "remove_node", required |-> FALSE, keys |-> {}]

Review == INSTANCE LabReview WITH
    ChangeSets <- {c1, c2, c3}, Closure <- {c1, c3}, Requests <- {q1, q2},
    Operations <- (c1 :> {SoundNode} @@ c2 :> {SoundNode, Unknown}
                   @@ c3 :> {SoundNode, Nameless})

ASSUME ProgressAssumption ==
    /\ Numbers!CredentialsAssumption
    /\ Engine!PlanSimulationAssumption
    /\ Review!LabReviewAssumption

Init ==
    /\ focus \in {"numbers", "plan", "review"}
    /\ Numbers!Init
    /\ focus # "numbers" => config["builtin"] = "unset"
    /\ Engine!Init
    /\ focus # "plan" => world = Rich
    /\ Review!Init
    /\ focus # "review" => run.status = "running"

Next ==
    \/ focus = "numbers" /\ Numbers!Next /\ UNCHANGED <<focus, planVars, reviewVars>>
    \/ focus = "plan" /\ Engine!Next /\ UNCHANGED <<focus, numberVars, reviewVars>>
    \/ focus = "review" /\ Review!Next /\ UNCHANGED <<focus, numberVars, planVars>>

FairSpec ==
    /\ Init /\ [][Next]_vars
    /\ Numbers!Progress /\ Engine!Fairness /\ Review!Progress

---------------------------------------------------------------------------
(* The properties of the components *)

\* Everything that was asked for ends: everyone who asks for a number is answered
\* (Credentials), the loop of a simulation run fails, completes or stops at its limit
\* (PlanSimulation), every request of the review desk ends, those that wait for the lock
\* of the plan or of a change set included (LabReview).
RequestsEnd == Numbers!NumberAnswered /\ Engine!LoopEnds /\ Review!RequestsEnd

====
