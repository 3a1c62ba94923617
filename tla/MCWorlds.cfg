SPECIFICATION MCSpec
CONSTANTS
    real = real
    sim1 = sim1
    sim2 = sim2
    db1 = db1
    db2 = db2
    o1 = o1
    o2 = o2
    m1 = m1
    m2 = m2
    s1 = s1
    s2 = s2
    Worlds = {real, sim1, sim2}
    RealWorld = real
    Aliases = {db1, db2}
    Operators = {o1, o2}
    Requests = {q1}
    Storages = {attachments}
    Crashes = TRUE
    MaxSeeds = 1
    MaxResets = 1
    Members = {m1, m2}
    Sessions = {s1, s2}
    MaxUploads = 3
    MaxNotices = 1
    NoKey = NoKey
SYMMETRY Symmetry
CHECK_DEADLOCK FALSE
INVARIANTS
    WorldsSound
    AvatarsSound
PROPERTIES
    RealRowsSafe
