SPECIFICATION FairSpec
CONSTANTS
    Routes = {overview, alpha, beta}
    Home = overview
    ViewPages = {alpha, beta}
    Alpha = alpha
    Nowhere = nowhere
    Plans = {p1, p2}
    MaxStream = 2
    MaxFails = 1
INVARIANTS
    OnePage
    ViewsFollow
PROPERTIES
    Arrives
