SPECIFICATION Spec
CONSTANTS
    Sessions = {s1, s2}
    Keys = {1, 2}
    Refs = {1, 2, 3}
    AnyKeys = {}
    Targets <- Aliased
    Family <- Aliased
    NoSession = NoSession
    MarkerKeys = {}
    MaxOps = 2
    MaxFlaps = 1
SYMMETRY SessionSymmetry
INVARIANT LocksReturned
