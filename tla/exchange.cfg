SPECIFICATION Spec
CONSTANTS
    Sizes <- MCSizes
    Cap = 2
    MaxBody = 5
    MaxSent = 4
    Nil = Nil
INVARIANTS
    TypeOK
    BodyIntegrity
    AuditRecordsWire
    
CHECK_DEADLOCK FALSE
