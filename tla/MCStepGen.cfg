SPECIFICATION Spec
CONSTANTS
    NJ = 1
    INCR_MAX = 8
    RAMP = 4
    CmdGap = 4
INVARIANTS
    DirSetup
    NoStaleStep
PROPERTIES
    StepsAreDriven
    EveryOtherTick
    OverflowIsOneStep
    OwedStepIsMade
