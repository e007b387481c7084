SPECIFICATION FairSpec
CONSTANTS
    Faults <- MCFaults
    Strays <- Jumps
    CYCLES_PER_LOOP = 1
INVARIANTS
    GTypeOK
    PassedMeansAllSeen
    StuckLinesAreCaught
PROPERTIES
    VerdictIsPrinted
