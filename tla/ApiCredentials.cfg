CONSTANTS
    Request = {r1}
    Sync = sync
    Owner = {o1, o2}
    HubId = {1, 2, 3}
    CfId = {1, 2}
    NoRecord = NoRecord
    NoToken = NoToken
    NoAccount = NoAccount
    MaxCrashes = 1
SPECIFICATION Spec
SYMMETRY Interchangeable
INVARIANTS
    TypeOK
    ReadyIsUsable
    TokensOnRecord
    DisabledIsRevoked
    SettledIsSole
PROPERTIES
    DenialStands
    RevocationStands
