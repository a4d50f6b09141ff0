CONSTANTS
    Request = {r1}
    Sync = sync
    Owner = {o1}
    HubId = {1, 2, 3}
    CfId = {1}
    NoRecord = NoRecord
    NoToken = NoToken
    NoAccount = NoAccount
    MaxCrashes = 0
SPECIFICATION FairSpec
PROPERTIES
    ServiceCompletes
    HubSettles
    RevocationCompletes
