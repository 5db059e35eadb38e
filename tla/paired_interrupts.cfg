CONSTANTS
    LEFT = LEFT
    RIGHT = RIGHT
    MaxLaunches = 4
SPECIFICATION FairSpec
INVARIANTS
    ReadyMeansQuiet
    Lockstep
PROPERTIES
    FaultEndsOutput
    CycleEnds
    ImplementsCycle
