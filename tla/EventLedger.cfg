CONSTANTS
    t1 = t1
    t2 = t2
    t3 = t3
    e1 = e1
    Txns = {t1, t2, t3}
    Bodies = {e1}
    NoBody = NoBody
    MaxAttempts = 3
    MaxBatch = 2
    MaxEvents = 3
SPECIFICATION FairSpec
CHECK_DEADLOCK FALSE
INVARIANTS
    TypeOK
    ChainVerifies
    SingleWriter
PROPERTIES
    ImplementsLog
    AppendsEnd
