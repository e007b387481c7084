SPECIFICATION FairSpec
CONSTANTS
    Addr = {0, 1}
    Data = {0, 1}
    Zero = 0
INVARIANTS
    TypeOK
    NoContention
    RunnerFollowsCpu
    MemoryIsCurrent
PROPERTIES
    NoWriteLostAtStop
    ResetHeldTwoCycles
    CpuSeesRam
    ClockRuns
