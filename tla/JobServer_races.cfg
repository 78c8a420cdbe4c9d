SPECIFICATION Spec
CONSTANTS
    None = None
    Digests = {d1}
    MaxSubs = 2
    MaxQueued = 1
    Threads = {t1, t2}
    Traffic <- Mixes
    MetaSubs = {1}
SYMMETRY ThreadSymmetry
INVARIANT TypeOK
INVARIANT CanceledQueuedNotDelivered
INVARIANT JobAlwaysListed
INVARIANT PlanKept
INVARIANT MetaIsOwn
PROPERTY DeliveredOnce
