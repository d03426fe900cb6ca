\* Three overlapping requests that move, start and stop the listeners, and others
\* that queue with them for the lock and for a slot.
SPECIFICATION FairSpec
CONSTANTS
    c1 = c1
    c2 = c2
    broken = broken
    a = a
    b = b
    Nil = Nil
    Default = Default
    Raws = {Default, c1, c2}
    NullProxies = {c2}
    PortOf <- MCPortOf
    GroupOf <- MCGroupOf
    Requests = {r1, r2, r3}
    Ops <- MixedOps
    BatchSize = 1
INVARIANTS
    TypeOK
    ListenersFollow
    PanicOnlyAtTheEdges
PROPERTIES
    EveryRequestAnswered
CHECK_DEADLOCK FALSE
