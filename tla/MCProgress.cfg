SPECIFICATION FairSpec
CONSTANTS
    n1 = n1
    s1 = s1
    s2 = s2
    c1 = c1
    c2 = c2
    c3 = c3
    q1 = q1
    q2 = q2
    NoSession = NoSession
CHECK_DEADLOCK FALSE
PROPERTIES
    RequestsEnd
