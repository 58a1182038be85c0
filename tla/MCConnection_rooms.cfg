\* One connection, two namespaces, a broadcast: the rooms.
CONSTANTS
    c1 = c1
    s1 = s1
    Root = Root
    Chat = Chat
    Conns = {c1}
    Senders = {s1}
    Namespaces = {Root, Chat}
    Options = {"onError", "connectFails", "appCloses"}
SPECIFICATION Spec
INVARIANTS
    ConnInv
    RoomsAgree
    ClosedLeavesRooms
    ToldOnce
CHECK_DEADLOCK FALSE
