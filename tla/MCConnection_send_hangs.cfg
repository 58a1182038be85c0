\* A broadcast to a connection whose connect fails.
CONSTANTS
    c1 = c1
    s1 = s1
    Root = Root
    Conns = {c1}
    Senders = {s1}
    Namespaces = {Root}
    Options = {"connectFails"}
SPECIFICATION FairSpec
PROPERTIES
    SendReturns
CHECK_DEADLOCK FALSE
