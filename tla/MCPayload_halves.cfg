\* Either half by itself (constraint OneHalf): two POST requests with up to two
\* frames each, well or badly ended, the reader and one new deadline; or two GET
\* requests and two writers, or one of each with a new deadline.  In both an upgrade.
CONSTANTS
    f1 = f1
    f2 = f2
    g1 = g1
    g2 = g2
    p1 = p1
    r = r
    x = x
    y = y
    NoOne = NoOne
    Feeders = {f1, f2}
    Flushers = {g1, g2}
    Readers = {r}
    Writers = {x, y}
    Pongers = {}
    Workers = {f1, f2, g1, g2, r, x, y}
    Spare = {}
    Pausers = {p1}
    MaxGen = 0
    MaxFrames = 2
    MaxArms = 1
    Tails = {"eof", "bad"}
SPECIFICATION Spec
SYMMETRY Symmetry
CONSTRAINT OneHalf
INVARIANTS
    HandlerStays
    FeedInComplete
    EncoderExclusive
    FlushOutNonEmpty
CHECK_DEADLOCK FALSE
