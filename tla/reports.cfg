SPECIFICATION Spec
CONSTANTS
    Users = {"ann", "bob"}
    Files <- MCFiles
    InfoKeys <- MCInfoKeys
    EventNames <- MCEventNames
    Half = 4
    Decimal <- MCDecimal
    MaxEvents = 1
CHECK_DEADLOCK FALSE
INVARIANTS
    ReportsFaithful
    EndedByIrregularOnly
    SummaryTells
