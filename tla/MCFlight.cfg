SPECIFICATION FlightSpec
CONSTANTS
    MaxPos = 3
    Alts <- MCAlts
    Targets = {3}
    Yaws = {y1}
    Step = 3
    Drop = 2
    HomeZ = 2
    GroundMargin = 2
    MaxRetries = 2
    MaxWorkers = 1
PROPERTIES
    RearmNeedsReason
