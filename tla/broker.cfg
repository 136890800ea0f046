SPECIFICATION Spec
CONSTANTS
    MaxConnections = 2
    MaxMessages = 1
    Names = {n1, n2}
    Passcodes = {p1, p2}
    Destinations <- MCDestinations
    StripSlash <- MCStripSlash
    SubIds = {s1, s2}
    Receipts = {r1}
    NULL = NULL
VIEW MCView
SYMMETRY MCSymmetry
INVARIANTS
    TypeOK
    MapsInverse
    SubscriptionsMatch
    SessionsExact
    UniqueUserNames
PROPERTIES
    LastFrameIsLast
    EverySubscriberServed
    ImplementsUserSessions
