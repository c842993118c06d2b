SPECIFICATION IpcFairSpec
CONSTANTS
    Conns = {c1, c2, c3}
    None = none
    MaxFrames = 1
    MaxFaults = 2
    MaxSlow = 2
INVARIANTS
    UiTells
    HoverOnLoss
PROPERTIES
    LinkHeals
