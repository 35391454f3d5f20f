SPECIFICATION Spec
CONSTANTS
    SEQS = 3
    MAX_FB_AGE = 2
    MAX_LATE = 1
    WATCHDOG_MS = 3
    PERIOD_MS = 1
    MAX_HANG = 1
    BUSY_MS = 1
INVARIANTS
    MachineOffStops
    LatchIsShown
PROPERTIES
    StuckIsShown
