SPECIFICATION Spec
CONSTANTS
    c1 = c1
    c2 = c2
    Conns = {c1, c2}
    Server = Server
    None = None
    MaxReads <- MCBothSend
    MaxFrames = 1
    MaxBuffers = 3
    MaxPartial = 0
INVARIANT ServeGoesOn
CHECK_DEADLOCK FALSE
