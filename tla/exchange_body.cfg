SPECIFICATION Spec
CONSTANTS
    Sizes <- MCSizes
    Cap = 2
    MaxBody = 5
    MaxSent = 2
    Nil = Nil
INVARIANT
    WholeBodyForwarded
CHECK_DEADLOCK FALSE
