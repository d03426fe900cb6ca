\* Four overlapping requests that read and change the configuration.
SPECIFICATION Spec
CONSTANTS
    c1 = c1
    c2 = c2
    broken = broken
    a = a
    b = b
    Nil = Nil
    Default = Default
    Raws = {Default, c1, c2}
    NullProxies = {c2}
    PortOf <- MCPortOf
    GroupOf <- MCGroupOf
    Requests = {r1, r2, r3, r4}
    Ops <- ConfigOps
    BatchSize = 1
PROPERTIES
    KeepsContract
SYMMETRY Symmetry
CHECK_DEADLOCK FALSE
