SPECIFICATION FairSpec
CONSTANTS
    MissLimit = 2
    MaxLingering = 1
    MaxPush = 2
    Fetches = {f1, f2}
INVARIANTS
    NeverStranded
    LinkShown
PROPERTIES
    DeadLinkNoticed
    Reconnects
