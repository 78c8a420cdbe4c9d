SPECIFICATION FairSpec
CONSTANTS
    Keys = {1}
    Helpers = {h1, h2, h3}
    Nobody = Nobody
    MaxFlaps = 2
    MaxSweeps = 2
    MaxRuns = 2
    MaxMarkers = 1
    MaxHung = 1
CHECK_DEADLOCK FALSE
INVARIANT OneProbe
INVARIANT HeldStaysOpen
INVARIANT CachedHasKeeper
PROPERTY NoSecondOpen
PROPERTY HealthyNotQuarantined
PROPERTY LoopComesBack
