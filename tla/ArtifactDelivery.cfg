SPECIFICATION FairDelivery
CONSTANTS
    WalkOrder <- MCWalkOrder
    Patterns <- MCPatterns
    Sensitive <- MCSensitive
    Reserved <- MCReserved
    LinuxTrees <- MCLinuxTrees
    WindowsTrees <- MCWindowsTrees
    MaxChanges = 1
    MaxFiles = 2
    MaxScanned = 3
    MaxTotal = 2
    MaxPlan = 4
    PipeParts = 1
    EntryOverhead = 1
    MaxReport = 4
CHECK_DEADLOCK FALSE
INVARIANTS SelectionAccounted NeverRefused ResponseWhole BundleAccounted
PROPERTIES DeliveryEnds
