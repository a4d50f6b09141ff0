CONSTANTS
    User = {u1, u2}
    Owner = {u1}
    Call = {c1}
    Sync = sync
    Port = {p1}
    Listener <- Listeners
    None = None
    MaxCrashes = 1
SPECIFICATION FairSpec
INVARIANTS
    TypeOK
    ReachesOwner
    PublishedIsGuarded
    ServedIsGuarded
PROPERTIES
    PortFreed
    Republished
