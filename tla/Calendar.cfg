\* From 1970 to the end of March 2101, midnight, 12:34:56 and the last second of each day.
SPECIFICATION Spec
CONSTANTS
    LastDay = 47936
    Ticks = {0, 45296, 86399}
INVARIANTS
    DatesExact
    StampsReadBack
PROPERTIES
    LaterReadsLater
\* The walk ends at LastDay.
CHECK_DEADLOCK FALSE
