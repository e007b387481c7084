SPECIFICATION SFairSpec
CONSTANTS
    Radix = 256
    BUFFSIZE = 5
    Levels <- AllLevels
    FirstLevels <- ResetLow
    MaxHosts = 3
    MaxCuts = 1
CHECK_DEADLOCK FALSE
INVARIANTS
    STypeOK
    OnlyCutsDesynchronise
    CutCostsOneSession
PROPERTIES
    WaitingHostIsAnswered
