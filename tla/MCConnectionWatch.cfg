SPECIFICATION FairSpec
CONSTANTS
    MissLimit = 1
    MaxLingering = 1
    MaxPush = 1
    Fetches = {f1, f2}
INVARIANTS
    OpenIsWatched
