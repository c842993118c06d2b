SPECIFICATION BoardSpec
CONSTANTS
    PoseFields <- Fields
    MaxPoints = 7
    MaxPose = 3
    MaxAlerts = 2
    MaxHandlers = 6
INVARIANTS
    BarsFresh
    SeriesComplete
    AlertsCounted
