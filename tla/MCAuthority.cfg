SPECIFICATION MCSpec
CONSTANTS
    m1 = m1
    n1 = n1
    n2 = n2
    s1 = s1
    s2 = s2
    admin = admin
    expert = expert
    other = other
    NoMember = NoMember
    NoSession = NoSession
    Members = {m1}
    Sessions = {s1, s2}
    MaxTime = 1
    Term = 1
    MaxAssignments = 3
    MaxLost = 1
    MaxSuspensions = 1
    Holders = {n1, n2}
    MaxGrants = 3
    MaxRollbacks = 1
    MaxEdits = 1
    Staff = {admin, expert, other}
    Administrator = admin
    Expert = expert
    LastMoment = 1
    MaxRows = 2
    MaxEvents = 1
    MaxChanges = 2
    MaxResets = 2
SYMMETRY Symmetry
CHECK_DEADLOCK FALSE
INVARIANTS
    AccessFollowsFacts
    NumbersSound
PROPERTIES
    QualificationsHold
