\* The tile alone, and together with the application, starts that fail and
\* the end of the process; with and without a permission.
SPECIFICATION FairSpec
CONSTANTS
    Nil = Nil
    Syncs = {y1}
    Modes = {"vpn", "proxy"}
    MaxInputs = 5
    Worlds <- MCWorlds
INVARIANTS
    TypeOK
    OnIsNotStopped
PROPERTIES
    PendingEnds
CHECK_DEADLOCK FALSE
