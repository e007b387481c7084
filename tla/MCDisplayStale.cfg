SPECIFICATION Spec
CONSTANTS
    RING = 4
    MAX_COLS = 2
    WAVE_COLS = 3
    REFRESH = 1
    SECOND = 2
    Samples <- Fetches
    MaxCaptures = 2
    MaxSessions = 3
INVARIANTS
    OnlyThisSession
