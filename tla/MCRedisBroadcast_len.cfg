\* Two servers with a caller each, two calls, or one call and a loss.
CONSTANTS
    a = a
    b = b
    c = c
    r = r
    Nobody = Nobody
    Servers = {a, b}
    Late = {b}
    Callers <- TwoCallers
    Conns = {c}
    Rooms = {r}
    MaxCalls = 2
    Fragile <- SomeConns
SPECIFICATION FairSpec
CONSTRAINT CallsOrLosses
INVARIANTS
    RedisInv
    SendOnce
PROPERTIES
    AnswerIsRight
    CallReturns
CHECK_DEADLOCK FALSE
