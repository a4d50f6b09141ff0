CONSTANTS
    Call = {c1, c2}
    Host = {h1}
    Refused = Refused
    Public = {pub}
    Private = {prv}
    None = None
    Permits = 1
    MaxResults = 2
    MaxPages = 2
    MaxRedirects = 1
SPECIFICATION FairSpec
INVARIANTS
    TypeOK
    OnlyPublic
PROPERTIES
    AnswersCome
