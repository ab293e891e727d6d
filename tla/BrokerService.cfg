SPECIFICATION FairSpec
CONSTANTS
    Conns = {c1, c2, c3}
    None = None
CHECK_DEADLOCK FALSE
INVARIANTS HandlesOwned CleanEndIsQuiet
PROPERTIES ServiceAnswers
