SPECIFICATION InstallSpec
CONSTANTS
    MaxRuns = 3
    MaxForeign = 1
    MaxStray = 1
CHECK_DEADLOCK FALSE
INVARIANTS CleanFailureLeavesLittle DependenciesKept UninstallRestores
PROPERTIES ForeignKept
