CONSTANTS
    m1 = m1
    m2 = m2
    m3 = m3
    m4 = m4
    m5 = m5
    s1 = s1
    s2 = s2
    q1 = q1
    q2 = q2
    Members = {m1, m2, m3, m4, m5}
    Governors = {m1, m2, m4, m5}
    Finance = {m2, m3}
    Sessions = {s1, s2}
    Quotes = {q1, q2}
    Tiers = {"single", "standard", "major"}
    Quantities = {2}
    Deltas <- MCDeltas
    OpeningStock = 0
    DailyLimit = 2
    LastDay = 1
    MaxAdjust = 1
    DisplayLimit = 1
    NoQuote = NoQuote
    NoMember = NoMember
    NoRole = NoRole
SPECIFICATION MCSpec
SYMMETRY Symmetry
CHECK_DEADLOCK FALSE
INVARIANTS
    ProposalAgrees
    BoughtWithAllSlots
    StockFollowsReceipts
    CreditedOnlyDelivered
    WorkListsComplete
