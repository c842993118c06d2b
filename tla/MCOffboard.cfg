SPECIFICATION FairSpec
CONSTANTS
    Alts = {0, 3, 6}
    HomeZ = 5
    GroundMargin = 3
    MaxRetries = 2
    MaxWorkers = 2
INVARIANTS
    OverrideAtMostOnce
    FailuresOfThisLoss
PROPERTIES
    LossResolved
    LandedAllowsTakeoff
