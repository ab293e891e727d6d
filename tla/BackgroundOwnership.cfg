SPECIFICATION Spec
CONSTANTS
    e1 = e1
    e2 = e2
    h1 = h1
    h2 = h2
    k1 = k1
    k2 = k2
    d1 = d1
    d2 = d2
    Handlers = {h1, h2}
    Entries = {e1, e2}
    Keys = {k1, k2}
    Dirs = {d1}
    MaxBackground = 1
    FailingSites = {"stop", "lifetime", "close"}
    NoEntry = NoEntry
    NoHandler = NoHandler
SYMMETRY Symmetry
INVARIANTS RegistryConsistent VerdictAgrees LiveTreeOwned TreesReaped
PROPERTIES FinalStatesStable
