CONSTANTS
    LEFT = LEFT
    RIGHT = RIGHT
    Joints = 2
    FailureLimit = 3
    SettlePairs = 4
    BusFaults = TRUE
SPECIFICATION FairSpec
INVARIANT
    TypeOK
PROPERTIES
    SamplesMatch
    SetpointsAvoidRequests
    SettledAtGoal
    EveryJointIsRead
    SettlingEnds
