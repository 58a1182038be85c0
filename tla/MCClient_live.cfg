\* Responses of any number of frames, which end well.
CONSTANTS
    Nil = Nil
    Tails = {"eof"}
SPECIFICATION FairSpec
INVARIANTS
    ClientInv
    PostIsComplete
PROPERTIES
    ClosedClientEnds
ACTION_CONSTRAINT AppClosesOpened
CHECK_DEADLOCK FALSE
