\* Two upgrade requests, a writer, any close.
CONSTANTS
    u1 = u1
    u2 = u2
    x1 = x1
    Reader = Reader
    Poll = Poll
    Upgraders = {u1, u2}
    Writers = {x1}
    MayClose = TRUE
SPECIFICATION FairSpec
INVARIANTS
    SessionInv
    NotLeftPaused
    CurrentIsOpen
PROPERTIES
    OldClosedIdle
    ReaderFollows
    BrokenSessionEnds
CHECK_DEADLOCK FALSE
