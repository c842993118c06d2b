SPECIFICATION Spec
CONSTANTS
    Alts = {0, 6}
    HomeZ = 5
    GroundMargin = 3
    MaxRetries = 2
    MaxWorkers = 2
INVARIANTS
    LandingNotOverridden
