SPECIFICATION MCSpec
CONSTANTS
    c1 = c1
    c2 = c2
    c3 = c3
    r1 = r1
    r2 = r2
    w1 = w1
    w2 = w2
    NoNode = NoNode
    ChangeSets = {c1, c2, c3}
    Operations <- MCOperations
    Closure = {c1, c3}
    Forms = {q1, q2}
    Runs = {r1, r2}
    Workers = {w1, w2}
    MaxTurns = 2
    Plan <- MCPlan
    Situations <- MCSituations
    ClosureSteps <- MCClosureSteps
    Limits = {1}
    MaxRuns = 0
    MaxRevisions = 1
    MaxAborts = 0
SYMMETRY Symmetry
CHECK_DEADLOCK FALSE
INVARIANTS
    DeskSound
    PageSound
PROPERTIES
    DispositionsStand
