SPECIFICATION MCFairSpec
CONSTANTS
    r1 = r1
    r2 = r2
    d1 = d1
    d2 = d2
    q1 = q1
    Runs = {r1, r2}
    RequestIds = {q1}
    Digests = {d1, d2}
    Malformed = Malformed
    MaxAttempts = 2
    None = None
    ControlFiles = {"workflow", "version"}
    Ours = "ours"
    Foreign = "foreign"
    NoFile = "nofile"
    RunnerIds = {1, 2}
    NoRunner = 0
CHECK_DEADLOCK FALSE
INVARIANTS LedgerTrue
PROPERTIES CreateOnce OwnersWorkKept 
