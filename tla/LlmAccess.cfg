CONSTANTS
    Task = {t1, t2, t3}
    Key = {k1, k2, k3}
    NoKey = NoKey
    NoTask = NoTask
    MaxCalls = 4
    MaxFaults = 2
SPECIFICATION Spec
SYMMETRY Interchangeable
INVARIANTS
    TypeOK
    StoppedHasNoKey
    NoStrayKey
PROPERTIES
    KeyIsRegister
CHECK_DEADLOCK FALSE
