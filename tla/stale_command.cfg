SPECIFICATION Spec
CONSTANTS
    TickModulus = 64
    Joints <- OneJoint
    Arms = {left, right}
    ControlTick = 2
    QueueCapacity = 3
    WireMaxSamples = 2
    SpliceLead = 2
    HardCaps <- MCHardCaps
    MinPosition <- MCMinPosition
    MaxPosition <- MCMaxPosition
    StartTick = 60
    RunLength = 10
    MaxSamples = 3
    EventJitter = 0
    OpenRequests <- MCOpenRequests
    BatchRequests <- MCBatchRequests
    Anchors <- MCAnchors
    FeedbackErrors = {2, 3}
    OpenStreams = TRUE
    FiniteHorizons = {}
    Splices = "none"
    FirstLeads = {2, 3, 4}
    SecondGaps = {2}
    StepSize = 2
    OpenTargets = {0, 4}
    TargetValues = {0, 4}
    MinimumStarts = {1, 2}
PROPERTIES
    TimeoutIsEarned
