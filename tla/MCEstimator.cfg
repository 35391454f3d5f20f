SPECIFICATION Spec
CONSTANTS
    MAX_FB_AGE = 3
    DUR_MAX = 5
    WATCHDOG = 4
    Velocities = {0, 1}
INVARIANT EstimateIsExact
INVARIANT EstimateIsBack
PROPERTY EstimateRecovers
