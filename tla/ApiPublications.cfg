CONSTANTS
    Request = {r1}
    Sync = sync
    Owner = {o1, o2}
    Api = {a1}
    AppId = {x1, x2, x3}
    Token = {k1, k2}
    NoAccount = NoAccount
    NoRecord = NoRecord
    NoApp = NoApp
    NoToken = NoToken
    NoApi = NoApi
    MaxApps = 1
    MaxLost = 1
    MaxCrashes = 0
SPECIFICATION Spec
INVARIANTS
    TypeOK
    CleanIsClean
    AppAdmitsOwner
PROPERTIES
    StopStands
