SPECIFICATION Spec
CONSTANTS
    NJ = 2
    WATCHDOG_MS = 3
    PERIOD_MS = 2
    BUSY_MS = 1
INVARIANTS
    OffInTime
    TripIsComplete
    MovesOnlyEnabled
    PinsAgree
PROPERTIES
    SilenceTurnsOff
    PowerContract
    McuContract
