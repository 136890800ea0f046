SPECIFICATION Spec
CONSTANTS
    Actors = {a1, a2, a3}
    Threads = {t1, t2}
    MaxTasks = 3
INVARIANTS
    TypeOK
    OnePlace
    NothingStranded
PROPERTIES
    ImplementsSerialActors
CHECK_DEADLOCK FALSE
