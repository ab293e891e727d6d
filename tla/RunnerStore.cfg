SPECIFICATION FairSpec
CONSTANTS
    Fold <- MCFold
    ReservedRoots <- MCReserved
    RequiredFiles <- MCRequired
    MaxPathDepth = 2
    Archives <- MCArchives
    RuntimeDirs <- MCRuntimeDirs
    ControlImage <- MCControlImage
    StateFiles <- MCStateFiles
    Logs <- MCLogs
CHECK_DEADLOCK FALSE
INVARIANTS AcceptedPackageExtracts CommittedIsSealed RollbackComplete
PROPERTIES RegistrationUndone
