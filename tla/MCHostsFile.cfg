\* Two concurrent writers, two operations, two edits, two hosts; writers and
\* hosts are interchangeable.
SPECIFICATION Spec
SYMMETRY Symmetry
CONSTANTS
    Proc = {p1, p2}
    Host = {h1, h2}
    NoHost = NoHost
    Versions = {"", "v1"}
    MaxOps = 2
    MaxEdits = 2
INVARIANTS
    TypeOK
    NeverTorn
    EligibleOnlyByOperator
    UidUsedIsValid
PROPERTIES
    OthersChangesKept
    PolicyRaisedOnlyByOverlap
\* Everybody is idle and the bounds are reached.
CHECK_DEADLOCK FALSE
