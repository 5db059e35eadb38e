CONSTANTS
    LEFT = LEFT
    RIGHT = RIGHT
    HeartbeatTimeout = 1
    PrepareInMotion = FALSE
SPECIFICATION FairSpec
INVARIANTS
    LatchReachesArms
PROPERTIES
    StopEndsOutput
    OutputIsWatched
    AnchorIsUsedOnce
    ArmsGoOffTogether
    SilenceStops
