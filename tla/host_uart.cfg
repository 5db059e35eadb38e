CONSTANTS
    RingCapacity = 4
    QueueDepth = 2
    BurstMax = 3
SPECIFICATION Spec
INVARIANTS
    TypeOK
    BreakEndsWithBurst
    CutReplyIsStopped
PROPERTIES
    LossIsStopped
    RepliesLeave
