CONSTANTS
    m1 = m1
    s1 = s1
    s2 = s2
    k1 = k1
    k2 = k2
    k3 = k3
    t1 = t1
    t2 = t2
    Members = {m1}
    Assignable = {m1}
    Sessions = {s1, s2}
    Tasks = {t1, t2}
    Rewarded = {t1}
    Keys = {k1, k2, k3}
    Amounts = {2}
    MaxRows = 3
    MaxReversals = 2
    NoAccount = NoAccount
    NoKey = NoKey
    NoTask = NoTask
    NoOrder = NoOrder
    Accounts <- MCAccounts
    Reward <- MCReward
SPECIFICATION Spec
SYMMETRY Symmetry
INVARIANTS
    PoolNeverOverspent
    PaidOnceIfAccepted
PROPERTIES
    FundedPublication
    TaskForward
