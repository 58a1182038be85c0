\* One connection that connects, one broadcast: everything ends that should.
CONSTANTS
    c1 = c1
    s1 = s1
    Root = Root
    Chat = Chat
    Conns = {c1}
    Senders = {s1}
    Namespaces = {Root, Chat}
    Options = {"onError", "appCloses"}
SPECIFICATION FairSpec
CONSTRAINT RootStays
PROPERTIES
    BrokenConnEnds
    SendReturns
CHECK_DEADLOCK FALSE
