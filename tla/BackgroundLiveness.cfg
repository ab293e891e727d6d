SPECIFICATION FairSpec
CONSTANTS
    e1 = e1
    e2 = e2
    h1 = h1
    h2 = h2
    k1 = k1
    k2 = k2
    d1 = d1
    d2 = d2
    Handlers = {h1}
    Entries = {e1}
    Keys = {k1, k2}
    Dirs = {d1, d2}
    MaxBackground = 2
    FailingSites = {}
    NoEntry = NoEntry
    NoHandler = NoHandler
PROPERTIES EverythingSettles
