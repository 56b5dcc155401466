SPECIFICATION Spec
CONSTANTS
    Requests = {q1, q2, q3}
    Probes = {b1}
    BufferSize = 2
    Nil = Nil
CHECK_DEADLOCK FALSE
INVARIANTS
    TypeOK
    FifoDelivery
    DropsCounted
    WrittenBeforeDbClose
    GracefulMeansQuiet
PROPERTIES
    ShutdownTerminates
    TrailSpec
