SPECIFICATION FairSpec
CONSTANTS
    p1 = p1
    p2 = p2
    p3 = p3
    c1 = c1
    c2 = c2
    Procs = {p1, p2, p3}
    Leader = p1
    Callers = {c1, c2}
    Broker = Broker
CHECK_DEADLOCK FALSE
PROPERTIES ReapDoneComplete TerminationTakesEffect KeepsContract
