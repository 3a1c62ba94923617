--------------------------- MODULE MCSimulation ---------------------------
(***************************************************************************)
(* The simulation engine of Lab, whose other parts rest in their initial   *)
(* state, and the zero-start simulation.  They share no state in these     *)
(* instances: focus says which of them acts.  ZeroStart acts in three      *)
(* instances: a small scenario with hours for days, the same with two runs *)
(* whose feedback is applied, and the scenario the repository ships.       *)
(***************************************************************************)
EXTENDS Lab, Integers, TLC, ZeroStartScenario

CONSTANT
    c1, r1, w1,   \* a change set, a run and a worker, all at rest
    q1            \* a lab request

VARIABLES
    focus,
    zeroRuns, members, partners, turns, zeroRevisions, zeroChanges, resolved, request

zeroVars ==
    <<zeroRuns, members, partners, turns, zeroRevisions, zeroChanges, resolved, request>>
vars == <<focus, labVars, zeroVars>>

---------------------------------------------------------------------------
(* A plan with a stage that is over, a nested stage, a dependency, a       *)
(* cancelled node and nodes that need each kind of thing a world may lack; *)
(* the last one lacks its responsibility documents.                        *)

Node == [sequence |-> 10, kind |-> "work", parent |-> <<"none">>, status |-> "planned",
         required |-> TRUE, cost |-> 0, duration |-> 1, people |-> 1, skills |-> {},
         resources |-> 0, closures |-> {}]

MCPlan ==
    [nodes |-> (<<"P">> :> [Node EXCEPT !.kind = "stage"])
            @@ (<<"S">> :> [Node EXCEPT !.kind = "stage", !.sequence = 20, !.parent = <<"P">>])
            @@ (<<"A">> :> [Node EXCEPT !.sequence = 30, !.parent = <<"S">>, !.cost = 10])
            @@ (<<"X">> :> [Node EXCEPT !.sequence = 40, !.parent = <<"S">>, !.status = "cancelled"])
            @@ (<<"B">> :> [Node EXCEPT !.sequence = 50, !.parent = <<"P">>, !.cost = 20,
                                        !.people = 3, !.skills = {"wiring"}, !.duration = 2])
            @@ (<<"C">> :> [Node EXCEPT !.sequence = 60, !.resources = 1, !.people = 0,
                                        !.closures = {"structure"}])
            @@ (<<"R">> :> [Node EXCEPT !.kind = "stage", !.status = "completed"])
            @@ (<<"T">> :> [Node EXCEPT !.parent = <<"R">>, !.status = "completed"]),
     deps |-> {<< <<"B">>, <<"A">> >>, << <<"A">>, <<"T">> >>}]

Rich == [budget |-> 100, people |-> 6, skills |-> {"wiring", "recruiting", "documents"},
         tired |-> FALSE, stock |-> 1]
\* The stock is read when a node needs it, so a run that was begun in a rich world may
\* find none.
MCSituations ==
    {Rich, [Rich EXCEPT !.budget = 25], [Rich EXCEPT !.skills = {}],
     [Rich EXCEPT !.people = 2, !.tired = TRUE, !.stock = 0]}

MCClosureSteps == <<"GRID-PRESCREEN", "STRUCTURE-DOC">>

---------------------------------------------------------------------------
(* A zero-start scenario of two fixed members, one fixed partner, two      *)
(* documents, and waves close enough to be cut by the end of a window.     *)

FewMembers ==
    {Applicant(1, 1, 3, [carry |-> 70], 10, 3), Applicant(2, 2, 4, [carry |-> 70], 30, -1)}
FewPartners == {Partner(1, 1, 2, "standby", FALSE, {})}
TwoProfiles ==
    <<[skills |-> [cook |-> 120], available |-> 8, withdraw |-> -1],
      [skills |-> [draw |-> 40], available |-> 2, withdraw |-> -1]>>
TwoSigners ==
    <<[review |-> "qualified", issues |-> TRUE, documents |-> {"structure"}],
      [review |-> "qualified", issues |-> TRUE, documents |-> {"grid"}]>>
QuickMembers == [first |-> 4, every |-> 3, growth |-> 1, extra |-> 1,
                 spacing |-> 1, delay |-> 2, stagger |-> 1, drift |-> 0]
QuickPartners == [first |-> 3, every |-> 2, growth |-> 2, extra |-> 1,
                  spacing |-> 1, delay |-> 2, stagger |-> 1, drift |-> 1]
TwoCapabilities ==
    {[code |-> "coordination", min |-> 1, aliases |-> {"lead"}],
     [code |-> "logistics", min |-> 2, aliases |-> {"carry", "cook"}]}
TwoSites == {[code |-> "roof", grid |-> "conditional_pass", legal |-> "conditional_pass"],
             [code |-> "ground", grid |-> "rejected", legal |-> "blocked"]}

\* One run in windows of several lengths; any form may break.
Small == INSTANCE ZeroStart WITH
    runs <- zeroRuns, revisions <- zeroRevisions, changeSets <- zeroChanges,
    Requests <- {q1}, Windows <- {1, 2, 3, 5},
    FixedMembers <- FewMembers, FixedPartners <- FewPartners,
    MemberProfiles <- TwoProfiles, PartnerProfiles <- TwoSigners,
    MemberWave <- QuickMembers, PartnerWave <- QuickPartners,
    Founder <- [lead |-> 70], Capabilities <- TwoCapabilities,
    Documents <- {"structure", "grid"}, Milestones <- {0, 1, 2}, Sites <- TwoSites,
    GridHours <- 1, LegalHours <- 2, GateNode <- TRUE, FormsMayFail <- TRUE,
    MaxRuns <- 1, MaxHour <- 14, MaxRevisions <- 1

\* Two runs of a plan without the gate's node, with feedback applied between windows.
Gates == INSTANCE ZeroStart WITH
    runs <- zeroRuns, revisions <- zeroRevisions, changeSets <- zeroChanges,
    Requests <- {q1}, Windows <- {2, 3},
    FixedMembers <- FewMembers, FixedPartners <- FewPartners,
    MemberProfiles <- TwoProfiles, PartnerProfiles <- TwoSigners,
    MemberWave <- QuickMembers, PartnerWave <- QuickPartners,
    Founder <- [lead |-> 70], Capabilities <- TwoCapabilities,
    Documents <- {"structure", "grid"}, Milestones <- {0, 1, 2}, Sites <- TwoSites,
    GridHours <- 1, LegalHours <- 2, GateNode <- FALSE, FormsMayFail <- FALSE,
    MaxRuns <- 2, MaxHour <- 6, MaxRevisions <- 3

\* The shipped scenario, in windows of three days.
Shipped == INSTANCE ZeroStart WITH
    runs <- zeroRuns, revisions <- zeroRevisions, changeSets <- zeroChanges,
    Requests <- {q1}, Windows <- {72},
    FixedMembers <- MEMBER_APPLICANTS, FixedPartners <- PARTNER_APPLICANTS,
    MemberProfiles <- capability_profiles, PartnerProfiles <- PARTNER_GROWTH_PROFILES,
    MemberWave <- MemberGrowth, PartnerWave <- PartnerGrowth,
    Founder <- FounderSkills, Capabilities <- STARTUP_CAPABILITY_REQUIREMENTS,
    Documents <- STARTUP_DOCUMENT_SIGNER_REQUIREMENTS,
    Milestones <- PRE_ENGINEERING_MILESTONES, Sites <- PRE_ENGINEERING_SITE_CANDIDATES,
    GridHours <- 24, LegalHours <- 48, GateNode <- TRUE, FormsMayFail <- FALSE,
    MaxRuns <- 1, MaxHour <- 580, MaxRevisions <- 1

\* The hours at which the gate is planned to open.
SmallGate == 8
ShippedGate == 353

ASSUME SimulationAssumption ==
    /\ Small!WavesApart /\ Gates!WavesApart /\ Shipped!WavesApart
    /\ Small!PlannedGate = SmallGate /\ Shipped!PlannedGate = ShippedGate

MCInit ==
    /\ focus \in {"plan", "small", "gates", "shipped"}
    /\ LabInit
    /\ run.status = "running" /\ crew = {w1} /\ runs[r1].status = "absent"
    /\ focus # "plan" => world = Rich
    /\ IF focus = "gates" THEN Gates!Init ELSE Small!Init
    /\ focus \in {"plan", "shipped"} => zeroRuns = <<>>

MCNext ==
    /\ UNCHANGED <<focus, reviewVars, archiveVars>>
    /\ \/ focus = "plan" /\ Engine!Next /\ UNCHANGED zeroVars
       \/ focus = "small" /\ Small!Next /\ UNCHANGED engineVars
       \/ focus = "gates" /\ Gates!Next /\ UNCHANGED engineVars
       \/ focus = "shipped" /\ Shipped!Next /\ UNCHANGED engineVars

MCSpec == MCInit /\ [][MCNext]_vars

---------------------------------------------------------------------------
(* The properties of the components *)

\* Recruitment (ZeroStart): however a run is cut into windows, an applicant whose
\* screening is due has applied at the planned hour and has been screened; a completed
\* run has the capabilities, the signers, a site and a turn for every hour since the
\* gate; the gate opens no later than planned and the first window that ends after the
\* last milestone completes the run, in the shipped scenario too; the feedback of a
\* missed gate is drafted once and suffices.
RecruitmentSound ==
    /\ focus = "small" => /\ Small!TypeOK
                          /\ Small!NobodyForgotten
                          /\ Small!CompletionEarned
                          /\ Small!WindowOutcome
                          /\ Small!RunningUntil(SmallGate)
    /\ focus = "gates" => /\ Gates!TypeOK
                          /\ Gates!CompletionEarned
                          /\ Gates!OneDraft
                          /\ Gates!FeedbackSuffices
    /\ focus = "shipped" => /\ Shipped!TypeOK
                            /\ Shipped!CompletionEarned
                            /\ Shipped!RunningUntil(ShippedGate)

\* A revision never changes once it is there, so a run keeps the plan it started with,
\* and an applicant screened in two windows gets the same decision both times
\* (PlanSimulation, ZeroStart).
HistoryKept ==
    [][/\ focus = "plan" => Engine!RevisionsKept
       /\ focus = "small" => Small!DecisionsStand]_vars

====
