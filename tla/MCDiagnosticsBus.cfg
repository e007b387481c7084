SPECIFICATION Spec
CONSTANTS
    Faults <- NoFaults
    Strays <- NoStrays
    CYCLES_PER_LOOP = 4
INVARIANTS
    ReadsAreDriven
