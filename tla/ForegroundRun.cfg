SPECIFICATION FairSpec
CONSTANTS
    Limit = 2
    MaxBytes = 3
CHECK_DEADLOCK FALSE
INVARIANTS VerdictTrue OutputIsWhole BundleAccounted
PROPERTIES RunEnds
