SPECIFICATION FairSpec
CONSTANTS
    RING = 4
    MAX_COLS = 2
    WAVE_COLS = 3
    REFRESH = 1
    SECOND = 2
    Samples <- AllSamples
    MaxCaptures = 4
    MaxSessions = 2
INVARIANTS
    DTypeOK
    RingHoldsNewest
    WaveIsTheSignal
PROPERTIES
    WaveCatchesUp
    FooterCatchesUp
    SlowRefreshShowsAll
