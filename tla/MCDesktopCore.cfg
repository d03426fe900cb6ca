\* Three restarts, a shutdown and two requests, in either world.
SPECIFICATION Spec
CONSTANTS
    Nil = Nil
    First = r1
    Restarts = {r1, r2, r3}
    Shutdowns = {s1}
    Calls = {c1, c2}
    Worlds <- SafetyWorlds
SYMMETRY Symmetry
INVARIANTS
    TypeOK
    ServerKeepsAccepting
    StartLosesNoCall
    NoStrayCore
CHECK_DEADLOCK FALSE
