SPECIFICATION Spec
CONSTANTS
    Plans <- SoundPlans
    LandHandler = TRUE
    MaxCmds = 2
PROPERTIES
    FirstActionNotSkipped
CHECK_DEADLOCK FALSE
