SPECIFICATION FairSpec
CONSTANTS
    Sessions = {s1, s2}
    Keys = {1, 2}
    Refs = {1, 2}
    AnyKeys = {}
    Targets <- Apart
    Family <- Apart
    NoSession = NoSession
    MarkerKeys = {}
    MaxOps = 1
    MaxFlaps = 1
PROPERTY SessionEnds
