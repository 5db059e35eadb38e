CONSTANTS
    LEFT = LEFT
    RIGHT = RIGHT
    Joints = 2
    FailureLimit = 3
    SettlePairs = 4
    BusFaults = FALSE
SPECIFICATION Spec
PROPERTY
    FailuresAreTolerated
