SPECIFICATION ClientSpec
CONSTANTS
    None = None
    Digests = {d1}
    MaxSubs = 2
    MaxQueued = 1
    Workers = {w1, w2}
    UserOps = {}
    BadPlans = {}
    LateOps = {}
    MaxLost = 0
    MaxDeaths = 1
    Signals = {"kill"}
    Clients = {c1, c2}
    Kinds = {"submit", "fetch", "md", "fresh"}
    MaxBlips = 1
SYMMETRY ActorSymmetry
CHECK_DEADLOCK FALSE
INVARIANT OneSessionPerDigest
INVARIANT SessionHasRecord
INVARIANT ResultNotOlder
 
