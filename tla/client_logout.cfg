SPECIFICATION Spec
CONSTANTS
    Channels = {fire}
    None = None
    MaxReceipts = 4
    MaxEvents = 1
    MaxLogins = 1
    MaxInFlight = 2
PROPERTY CanLogOut
CHECK_DEADLOCK FALSE
