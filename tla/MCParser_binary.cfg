\* Up to two packets and no pong.
CONSTANTS
    Nil = Nil
    Scripts <- MCScripts
    Data <- MCData
    Known <- MCKnown
    MaxPongs = 0
SPECIFICATION Spec
INVARIANTS
    BuffersAsBinary
CHECK_DEADLOCK FALSE
