SPECIFICATION Spec
CONSTANTS
    Keys = {k1}
    Procs = {p1, p2}
    BucketIds = {b1, b2}
    Nil = Nil
    Cfgs <- MCCfgs
    DefaultCfg <- MCDefault
    TicksPerMs = 2
    MsPerSec = 2
    IdleTicks = 1
    MaxTime = 3
    MaxDisturb = 1
VIEW MCView
SYMMETRY MCSymmetry
INVARIANTS
    TypeOK
    AdmissionBound
    BucketOwnership
    QuotaMatchesRow
    RetryAfterWithinMs
