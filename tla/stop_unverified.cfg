CONSTANTS
    LinkCapacity = 2
    ControlTick = 1
    MinLead = 1
    MaxLead = 2
    QueueCapacity = 2
    MinStart = 1
    HeartbeatTimeout = 1
    MaxTime = 4
    MaxBatch = 2
    MaxEpoch = 2
    FailureLimit = 2
    Plans <- MCPlans
SPECIFICATION Spec
INVARIANT
    StoppedIsOff
CHECK_DEADLOCK FALSE
