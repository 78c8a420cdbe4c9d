SPECIFICATION FairSpec
CONSTANTS
    Pollers = {p1, p2}
    Stale = 2
    MaxFast = 2
    Troubles = 2
INVARIANT TypeOK
INVARIANT OneWorker
PROPERTY OnlySilentKilled
PROPERTY GivesUpOnFastFails
PROPERTY ServesAgain
