\* Two polling sessions and a websocket session, a later request, a close.
CONSTANTS
    a = a
    b = b
    w = w
    r = r
    Sids = {a, b, w}
    Polled = {a, b}
    Requests = {r}
    Cap = 1
    Options = {"close", "initFails", "connectFails"}
SPECIFICATION FairSpec
INVARIANTS
    EngineInv
    EOFIsLast
PROPERTIES
    SidIsKnown
    AddedIsAccepted
CHECK_DEADLOCK FALSE
