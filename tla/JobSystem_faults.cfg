SPECIFICATION Spec
CONSTANTS
    None = None
    Digests = {d1}
    MaxSubs = 1
    MaxQueued = 1
    Workers = {w1, w2}
    UserOps = {"submit", "cancel", "delete", "delete_tar", "prune", "wipe"}
    BadPlans = {}
    LateOps = {"push", "stale", "upload"}
    MaxLost = 1
    MaxDeaths = 1
    Signals = {"kill", "int"}
SYMMETRY WorkerSymmetry
INVARIANT TypeOK
PROPERTY KeepsTheLedger
