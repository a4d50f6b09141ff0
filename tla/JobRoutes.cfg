CONSTANTS
    Server = {s1, s2}
    User = {u1}
    Port = {p1}
    None = None
    MaxJobs = 1
    MaxCalls = 2
    MaxFaults = 1
SPECIFICATION FairSpec
INVARIANTS
    TypeOK
    OneOpenWebui
    StoppedAreEnded
PROPERTIES
    RoutesSettle
CHECK_DEADLOCK FALSE
