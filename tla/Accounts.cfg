CONSTANTS
    Name = {n1}
    Id = {i1, i2}
    Token = {k1, k2}
    Task = {t1, t2}
    Sync = sync
    None = None
    Gone = Gone
    MaxCalls = 4
    MaxFaults = 1
SPECIFICATION FairSpec
INVARIANTS
    TypeOK
    TokensOnRecord
    DeletedIsForgotten
PROPERTIES
    PolicySettles
