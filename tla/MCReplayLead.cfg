CONSTANTS
    Id = {i1, i2}
    NoId = NoId
    Handler = {h1, h2}
    MaxRequestAge = 1
    ReplayRetention = 2
    MaxLead = 2
    MaxStep = 0
    MaxStall = 0
    MaxTime = 6
SPECIFICATION Spec
SYMMETRY Symmetric
INVARIANT FreshIsRemembered
