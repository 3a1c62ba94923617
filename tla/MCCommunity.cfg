SPECIFICATION MCSpec
CONSTANTS
    m1 = m1
    m2 = m2
    a1 = a1
    s1 = s1
    s2 = s2
    q1 = q1
    q2 = q2
    f1 = f1
    f2 = f2
    p1 = p1
    c1 = c1
    NoMember = NoMember
    NoOne = NoOne
    NothingLoaded = NothingLoaded
    Members = {m1, m2, a1}
    Founders = {m1, m2}
    Operators = {m1}
    Policies <- MCPolicies
    Sessions = {s1, s2}
    MaxCases = 2
    MaxVersions = 2
    MaxRevisions = 2
    MaxLifecycle = 1
    Candidates = {m1}
    Questions = {q1, q2}
    Percents = {50, 60, 100}
    MaxQuestionVersions = 2
    MaxPolicies = 2
    MaxAttempts = 2
    MaxReplaced = 1
    MaxChanges = 2
    MaxTerms = 1
    Speakers = {f1, f2}
    Posts = {p1}
    Cases = {c1}
    MaxEvents = 2
    MaxStages = 3
    Administrators = {f1, f2}
    Challenges = {c1}
    MaxReviews = 3
SYMMETRY Symmetry
CHECK_DEADLOCK FALSE
INVARIANTS
    AdmissionSound
    AppointmentSound
    RecordTold
PROPERTIES
    DecisionsHold
