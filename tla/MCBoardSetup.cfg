SPECIFICATION Spec
CONSTANTS
    MAX_FAULTS = 3
INVARIANTS
    StockIsKept
PROPERTIES
    FirstBootEnds
