SPECIFICATION FairSpec
CONSTANTS
    Plans <- MCPlans
    LandHandler = TRUE
    MaxCmds = 5
INVARIANTS
    GoalMatchesPlan
    GoalUnderOwnSafety
PROPERTIES
    ImplementsMission
    LandingIsCommanded
CHECK_DEADLOCK FALSE
