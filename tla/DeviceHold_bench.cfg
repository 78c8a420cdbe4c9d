SPECIFICATION Spec
CONSTANTS
    Sessions = {s1, s2}
    Keys = {1, 2, 3}
    Refs = {1, 2}
    AnyKeys = {1}
    Targets <- WithAny
    Family <- WithAny
    NoSession = NoSession
    MarkerKeys = {2}
    MaxOps = 2
    MaxFlaps = 1
SYMMETRY SessionSymmetry
INVARIANT TypeOK
INVARIANT JobAtomic
INVARIANT LocksReturned
INVARIANT CleanHandover
