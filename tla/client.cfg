SPECIFICATION Spec
CONSTANTS
    Channels = {fire, police}
    None = None
    MaxReceipts = 4
    MaxEvents = 1
    MaxLogins = 2
    MaxInFlight = 2
INVARIANTS
    TypeOK
    ReceiptsUnderstood
    HandlerKept
PROPERTIES
    JoinReturns
    QueueDrains
CHECK_DEADLOCK FALSE
