SPECIFICATION Spec
CONSTANTS
    Conns = {c1, c2}
    Names = {n1, n2}
    Destinations = {d1, d2}
    None = None
    MaxFrames = 3
SYMMETRY MCSymmetry
CHECK_DEADLOCK FALSE
INVARIANTS
    TypeOK
    QueuedOnce
    LoggedInHasSession
PROPERTIES
    ChannelStaysSettled
    SteadySubscribersServed
    DiesOnlyByOverlap
