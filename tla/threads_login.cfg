SPECIFICATION Spec
CONSTANTS
    Conns = {c1, c2}
    Names = {n1}
    Destinations = {d1}
    None = None
    MaxFrames = 3
CHECK_DEADLOCK FALSE
PROPERTY ImplementsUserSessions
