SPECIFICATION SSpec
CONSTANTS
    Radix = 256
    BUFFSIZE = 5
    Levels <- AllLevels
    FirstLevels <- ResetLow
    MaxHosts = 2
    MaxCuts = 1
CHECK_DEADLOCK FALSE
INVARIANTS
    WellFormedIsServed
