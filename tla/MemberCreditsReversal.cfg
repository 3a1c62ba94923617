CONSTANTS
    m1 = m1
    m2 = m2
    s1 = s1
    s2 = s2
    k1 = k1
    o1 = o1
    o2 = o2
    c1 = c1
    Members = {m1, m2}
    Sessions = {s1, s2}
    Keys = {k1}
    FreshIds = {o1}
    Merchants = {c1}
    Amounts = {2}
    MaxRows = 3
    NoAccount = NoAccount
    NoKey = NoKey
    NoTask = NoTask
    NoOrder = NoOrder
    NoMerchant = NoMerchant
    Accounts <- MCAccounts
    Opening <- MCOpening
SPECIFICATION Spec
SYMMETRY Symmetry
PROPERTY ReversedOrderStaysOpen
