CONSTANTS
    m1 = m1
    m2 = m2
    m3 = m3
    s1 = s1
    s2 = s2
    c1 = c1
    f1 = f1
    f2 = f2
    f3 = f3
    f4 = f4
    Members = {m1, m2, m3}
    Claimants = {m1, m2}
    Reviewers = {m1, m2}
    Payers = {m1, m3}
    Publishers = {m3}
    Readers = {m1, m2, m3}
    Sessions = {s1, s2}
    Claims = {c1}
    Objects = {f1, f2, f3, f4}
    NoMember = NoMember
    NoClaim = NoClaim
    NoObject = NoObject
    MaxFiles = 2
SPECIFICATION Spec
SYMMETRY Symmetry
INVARIANTS
    PaidOnceAfterApproval
    StatusJustified
    EvidenceMatchesRows
