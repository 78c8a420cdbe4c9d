SPECIFICATION ClientFairSpec
CONSTANTS
    None = None
    Digests = {d1}
    MaxSubs = 1
    MaxQueued = 1
    Workers = {w1, w2}
    UserOps = {"cancel", "delete", "prune"}
    BadPlans = {}
    LateOps = {}
    MaxLost = 0
    MaxDeaths = 1
    Signals = {"kill"}
    Clients = {c1}
    Kinds = {"submit", "md"}
    MaxBlips = 0
 
PROPERTY MarkerResolved
 
 
