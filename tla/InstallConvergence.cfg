SPECIFICATION InstallSpec
CONSTANTS
    MaxRuns = 1
    MaxForeign = 0
    MaxStray = 0
INVARIANTS
    FailedConvergenceRestores
CHECK_DEADLOCK FALSE
