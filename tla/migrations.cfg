SPECIFICATION Spec
CONSTANTS
    Procs = {gateway, dashboard, replica}
    N = 3
INVARIANTS
    TypeOK
    RecordedInOrder
    DoneMeansMigrated
    OnlyRacesFail
