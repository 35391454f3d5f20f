SPECIFICATION Spec
CONSTANTS
    NFRAMES = 5
    SEQS = 2
    Earlier = {4, 5, 6}
INVARIANTS
    VerdictIsExact
CHECK_DEADLOCK FALSE
