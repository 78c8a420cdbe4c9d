SPECIFICATION Spec
CONSTANTS
    None = None
    Digests = {d1}
    MaxSubs = 1
    MaxQueued = 1
    Workers = {w1, w2}
    UserOps = {"submit", "cancel"}
    BadPlans = {}
    LateOps = {}
    MaxLost = 0
    MaxDeaths = 0
    Signals = {}
SYMMETRY WorkerSymmetry
PROPERTY MarkerFoundAgain
