SPECIFICATION Spec
CONSTANTS
    c1 = c1
    c2 = c2
    Conns = {c1, c2}
    Server = Server
    None = None
    MaxReads <- MCOneSends
    MaxFrames = 2
    MaxBuffers = 3
    MaxPartial = 1
INVARIANTS
    TypeOK
    WriteInterest
    BufferOnce
PROPERTIES
    EveryFrameLeaves
    EndedCloses
CHECK_DEADLOCK FALSE
