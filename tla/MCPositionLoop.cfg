SPECIFICATION LoopSpec
CONSTANTS
    UNIT = 6
    Limits <- MCLimits
    RATE_MAX = 9
    DEADBAND = 3
    Feeds <- MCFeeds
    TRAVEL = 9
    SETTLE = 60
INVARIANT LoopTypeOK
INVARIANT EstimateWithinStep
INVARIANT Settles
PROPERTY StartsTowards
