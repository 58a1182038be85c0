\* Up to two packets and a pong.
CONSTANTS
    Nil = Nil
    Scripts <- MCScripts
    Data <- MCData
    Known <- MCKnown
    MaxPongs = 1
SPECIFICATION FairSpec
INVARIANTS
    StreamInv
    PacketsArrive
    ReaderStaysInSync
PROPERTIES
    WritersReturn
    PacketsHandled
CHECK_DEADLOCK FALSE
