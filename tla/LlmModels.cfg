CONSTANTS
    Task = {t1, t2}
    Model = {m1, m2}
    Nobody = Nobody
    MaxCalls = 3
    MaxFaults = 1
    MaxCrashes = 1
SPECIFICATION Spec
SYMMETRY Interchangeable
CONSTRAINT Few
INVARIANTS
    TypeOK
    GoneIsUnregistered
    PulledIsWatched
CHECK_DEADLOCK FALSE
