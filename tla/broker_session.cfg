SPECIFICATION Spec
CONSTANTS
    MaxConnections = 2
    MaxMessages = 1
    Names = {n1}
    Passcodes = {p1}
    Destinations <- MCDestinations
    StripSlash <- MCStripSlash
    SubIds = {s1}
    Receipts = {r1}
    NULL = NULL
SYMMETRY MCSymmetry
PROPERTY RefusedOnlyForLiveSession
