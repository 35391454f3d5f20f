SPECIFICATION Spec
CONSTANTS
    MAX_FAULTS = 1
PROPERTIES
    MarkMeansComplete
