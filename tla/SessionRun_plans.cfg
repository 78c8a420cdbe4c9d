SPECIFICATION FairSpec
CONSTANTS
    Plans <- ShortPlans
    Budget = 2
    SoftGrace = 1
    HardGrace = 3
    Recheck = 2
    OpTime = 3
    Needle <- AAB
    Chunks <- Letters
    StreamMax = 3
    Transfer = 2
    MaxHeard = 6
CHECK_DEADLOCK FALSE
INVARIANT TypeOK
INVARIANT SearchIsExact
INVARIANT HardStop
INVARIANT NoChildLeft
INVARIANT NoFalseOk
PROPERTY SealedAtEnd
 
PROPERTY RunSettles
