SPECIFICATION FairSpec
CONSTANTS
    MaxPos = 4
    Targets = {0, 1, 2, 3, 4}
    Yaws = {y1, y2}
    Step = 2
    Drop = 1
PROPERTIES
    NoJump
    HoldAfterGoal
    SetpointReachesTarget
