SPECIFICATION Spec
CONSTANTS
    t1 = t1
    t2 = t2
    TaskIds = {t1, t2}
    Kept = {t1}
    NoTask = none
    MaxNames = 2
    MaxOps = 2
    MaxLists = 2
    MaxFails = 1
    MaxActs = 2
INVARIANTS
    TaskShown
    ListFresh
CHECK_DEADLOCK FALSE
