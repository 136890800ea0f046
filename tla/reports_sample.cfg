SPECIFICATION Spec
CONSTANTS
    Users = {"ann"}
    Files <- MCSampleFile
    InfoKeys <- MCInfoKeys
    EventNames <- MCSampleNames
    Half = 4
    Decimal <- MCDecimal
    MaxEvents = 1
INVARIANT SummaryAsSample
CHECK_DEADLOCK FALSE
