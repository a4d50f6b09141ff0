CONSTANTS
    Request = {r1}
    Sync = sync
    Owner = {o1}
    Api = {a1}
    AppId = {x1, x2, x3}
    Token = {k1, k2}
    NoAccount = NoAccount
    NoRecord = NoRecord
    NoApp = NoApp
    NoToken = NoToken
    NoApi = NoApi
    MaxApps = 1
    MaxLost = 0
    MaxCrashes = 1
SPECIFICATION FairSpec
PROPERTIES
    StopCompletes
    PublicationSettles
