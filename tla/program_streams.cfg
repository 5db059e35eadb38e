SPECIFICATION Spec
CONSTANTS
    TickModulus = 64
    Joints <- OneJoint
    Arms = {left, right}
    ControlTick = 2
    QueueCapacity = 3
    WireMaxSamples = 2
    SpliceLead = 2
    HardCaps <- MCHardCaps
    MinPosition <- MCMinPosition
    MaxPosition <- MCMaxPosition
    StartTick = 60
    RunLength = 10
    MaxSamples = 4
    EventJitter = 0
    OpenRequests <- MCOpenRequests
    BatchRequests <- MCBatchRequests
    Anchors <- MCAnchors
    FeedbackErrors = {2, 3}
    OpenStreams = TRUE
    OpenTargets = {0, 4}
    FiniteHorizons = {5, 6}
    Splices = "aligned"
    FirstLeads = {2, 3, 4}
    SecondGaps = {2, 4}
    StepSize = 1
    TargetValues = {0, 1, 3}
    MinimumStarts = {1}
INVARIANTS
    TypeOK
    QueueOrdered
    SuccessIsComplete
    TimelineHolds
    SamplesAccounted
PROPERTIES
    AppliedOnTime
    SeamlessOutputRate
    OpenStreamIsFresh
