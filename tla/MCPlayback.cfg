SPECIFICATION ReplayFairSpec
CONSTANTS
    s1 = s1
    s2 = s2
    s3 = s3
    Sessions = {s1, s2, s3}
    Raw <- MCRaw
    NoSession = none
    MaxStep = 2
    MaxLoads = 2
    MaxInputs = 8
INVARIANTS
    FrameOfTime
    OwnFlight
    LoopAsSaid
PROPERTIES
    PlayEnds
CHECK_DEADLOCK FALSE
