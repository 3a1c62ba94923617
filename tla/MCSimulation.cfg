SPECIFICATION MCSpec
CONSTANTS
    c1 = c1
    r1 = r1
    w1 = w1
    q1 = q1
    ChangeSets = {c1}
    Operations = {}
    Closure = {}
    Forms = {}
    Runs = {r1}
    Workers = {w1}
    MaxTurns = 1
    Plan <- MCPlan
    Situations <- MCSituations
    ClosureSteps <- MCClosureSteps
    Limits = {2, 9}
    MaxRuns = 2
    MaxRevisions = 2
    MaxAborts = 1
CHECK_DEADLOCK FALSE
INVARIANTS
    PlanRunSound
    RecruitmentSound
PROPERTIES
    HistoryKept
