\* Two workers, two pausers, two Resume calls.
CONSTANTS
    w1 = w1
    w2 = w2
    p1 = p1
    p2 = p2
    Workers = {w1, w2}
    Pausers = {p1, p2}
    MaxGen = 2
SPECIFICATION PauserLiveSpec
INVARIANTS
    PauserInv
PROPERTIES
    ImplementsGate
    PauseReturns
CHECK_DEADLOCK FALSE
