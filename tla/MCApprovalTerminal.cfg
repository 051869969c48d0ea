CONSTANTS
    i1 = i1
    i2 = i2
    i3 = i3
    i4 = i4
    Id = {i1, i2, i3, i4}
    Conn = {c1, c2, c3}
    NoConn = NoConn
    Requests <- TerminalRequests
    MaxInFlight = 2
    MaxRequestAge = 1
    ReplayRetention = 2
    MaxLead = 0
    MaxTime = 0
    MaxLives = 1
SPECIFICATION Spec
SYMMETRY AlsoSymmetric
INVARIANTS
    TypeOK
    TerminalExclusive
    InFlightExact
CHECK_DEADLOCK FALSE
