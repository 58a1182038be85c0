\* Both halves: requests of a closed payload end, and Pause returns although
\* pong, POST and GET wait for each other.
CONSTANTS
    f1 = f1
    g1 = g1
    g2 = g2
    p1 = p1
    p2 = p2
    r = r
    x = x
    NoOne = NoOne
    Feeders = {f1}
    Flushers = {g1, g2}
    Readers = {r}
    Writers = {x}
    Pongers = {x}
    Workers = {f1, g1, g2, r, x}
    Spare = {g2, p2}
    Pausers = {p1, p2}
    MaxGen = 2
    MaxFrames = 1
    MaxArms = 0
    Tails = {"eof"}
SPECIFICATION FairSpec
CONSTRAINT UpgradesOverlap
INVARIANTS
    PayloadInv
    PauseQuiesces
PROPERTIES
    CloseDrains
    UpgradePauseReturns
    PauseTellsFlushOut
CHECK_DEADLOCK FALSE
