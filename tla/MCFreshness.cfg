SPECIFICATION Spec
CONSTANTS
    SEQS = 8
    MAX_FB_AGE = 3
    MAX_LATE = 2
INVARIANTS
    ConnectedComesBack
    ConnectedIsRecent
    EnableNeedsFreshness
PROPERTIES
    LinkComesBack
