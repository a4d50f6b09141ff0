CONSTANTS
    Task = {t1, t2}
    Key = {k1, k2, k3}
    NoKey = NoKey
    NoTask = NoTask
    MaxCalls = 4
    MaxFaults = 0
SPECIFICATION Spec
SYMMETRY Interchangeable
INVARIANT DisabledHasNoKey
CHECK_DEADLOCK FALSE
