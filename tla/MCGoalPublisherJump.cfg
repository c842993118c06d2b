SPECIFICATION Spec
CONSTANTS
    MaxPos = 4
    Targets = {1, 4}
    Yaws = {y1, y2}
    Step = 1
    Drop = 2
PROPERTIES
    NeverJumps
