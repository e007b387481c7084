SPECIFICATION Spec
CONSTANTS
    Setups <- MCSetups
    MAX_CYCLES = 5
    BRK_CYCLE = 3
    MaxSteps = 2
    MaxCycle = 6
CHECK_DEADLOCK FALSE
INVARIANTS
    TypeOK
    HostSeesChip
    ControlHeld
    ChipSeesRam
    Twins
    PanelAgrees
    StepsAsAsked
    BrkEndsRun
