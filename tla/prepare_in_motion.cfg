CONSTANTS
    LEFT = LEFT
    RIGHT = RIGHT
    HeartbeatTimeout = 1
    PrepareInMotion = TRUE
SPECIFICATION Spec
PROPERTIES
    StopEndsOutput
