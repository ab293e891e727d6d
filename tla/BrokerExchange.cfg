SPECIFICATION FairSpec
CONSTANTS
    MaxArtifacts = 2
    Buffer = 2
    InterruptsActive = TRUE
CHECK_DEADLOCK FALSE
INVARIANTS BundleReleased DeliveredWhenServed
PROPERTIES ExchangeEnds IsPublication
