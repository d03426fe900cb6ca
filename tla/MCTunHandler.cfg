\* Two starts and two stops that overlap in any way, two dialling goroutines;
\* dials may come back for ever.
SPECIFICATION FairSpec
CONSTANTS
    Starts = {s1, s2}
    Stops = {p1, p2}
    Dials = {d1, d2}
    Nil = Nil
INVARIANTS
    TypeOK
    CallbackLive
    StoppedIsClosed
    StoppedLeavesNothing
    OpenTunIsHooked
PROPERTIES
    KeepsContract
    NobodyStarves
CHECK_DEADLOCK FALSE
