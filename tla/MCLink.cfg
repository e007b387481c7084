SPECIFICATION FairSpec
CONSTANTS
    Radix = 4
    BUFFSIZE = 2
    Levels <- MCLevels
INVARIANTS
    TypeOK
    Lockstep
PROPERTIES
    ImplementsHalfCycle
    CallsReturn
