SPECIFICATION Spec
CONSTANTS
    Requests = {r1, r2}
    BufferSize = 1
    Nil = Nil
    Keys = {k1, k2}
    Admins = {a1}
    Durations <- MCDurations
    MaxTime = 2
    Never = Never
INVARIANTS
    TypeOK
    ShownRevokedIsFinal
    LostOnlyWhenDeleted
PROPERTY
    AdmissionSpec
CHECK_DEADLOCK FALSE
SYMMETRY MCSymmetry
