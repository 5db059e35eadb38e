SPECIFICATION AnyCallerSpec
CONSTANTS
    TickModulus = 12
    Joints <- OneJoint
    Arms = {left, right}
    ControlTick = 2
    QueueCapacity = 3
    WireMaxSamples = 2
    SpliceLead = 2
    HardCaps <- MCHardCaps
    MinPosition <- MCMinPosition
    MaxPosition <- MCMaxPosition
    StartTick = 10
    RunLength = 3
    MaxSamples = 2
    EventJitter = 0
    OpenRequests <- MCOpenRequests
    BatchRequests <- MCBatchRequests
    Anchors <- MCAnchors
    FeedbackErrors = {3}
    OpenStreams = FALSE
    FiniteHorizons = {4}
    Splices = "any"
    FirstLeads = {2, 3}
    SecondGaps = {}
    StepSize = 2
    OpenTargets = {4}
    TargetValues = {4}
    MinimumStarts = {1}
INVARIANTS
    OutputWithinLimits
