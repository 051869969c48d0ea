CONSTANTS
    Id = {i1, i2, i3}
    NoId = NoId
    Handler = {h1, h2}
    MaxRequestAge = 1
    ReplayRetention = 4
    MaxLead = 1
    MaxStep = 1
    MaxStall = 1
    MaxTime = 6
SPECIFICATION Spec
SYMMETRY Symmetric
INVARIANTS
    TypeOK
    AcceptedOnce
    FreshIsRemembered
PROPERTY NothingStaleAfterInsert
