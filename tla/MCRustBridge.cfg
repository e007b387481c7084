SPECIFICATION RFairSpec
CONSTANTS
    Radix = 4
    BUFFSIZE = 2
    Levels <- MCLevels
    FirstLevels <- MCFirst
    MaxHosts = 2
    MaxCuts = 1
    ReadSize = 64
CHECK_DEADLOCK FALSE
INVARIANTS
    RTypeOK
    OnlyTearsDesynchronise
    DisconnectDropsPartial
PROPERTIES
    WireEquivalent
    WaitingHostIsAnswered
