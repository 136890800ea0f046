SPECIFICATION Spec
CONSTANT MaxConnections = 4
CHECK_DEADLOCK FALSE
INVARIANTS
    TypeOK
    RegistryExact
