SPECIFICATION FairSpec
CONSTANTS
    TickModulus = 14
    Joints <- OneJoint
    Arms = {left, right}
    ControlTick = 2
    QueueCapacity = 3
    WireMaxSamples = 2
    SpliceLead = 2
    HardCaps <- MCHardCaps
    MinPosition <- MCMinPosition
    MaxPosition <- MCMaxPosition
    StartTick = 12
    RunLength = 14
    MaxSamples = 2
    EventJitter = 0
    OpenRequests <- MCOpenRequests
    BatchRequests <- MCBatchRequests
    Anchors <- MCAnchors
    FeedbackErrors = {3}
    OpenStreams = TRUE
    FiniteHorizons = {4}
    Splices = "none"
    FirstLeads = {2, 3}
    SecondGaps = {}
    StepSize = 2
    OpenTargets = {1}
    TargetValues = {1}
    MinimumStarts = {1}
PROPERTIES
    RunEnds
    PlannedRunSucceeds
