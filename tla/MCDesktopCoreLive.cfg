\* Liveness: three restarts without a shutdown or a crash.
SPECIFICATION FairSpec
CONSTANTS
    Nil = Nil
    First = r1
    Restarts = {r1, r2, r3}
    Shutdowns = {}
    Calls = {c1, c2}
    Worlds <- LiveWorlds
PROPERTIES
    RestartConnects
    StartAnswersCalls
CHECK_DEADLOCK FALSE
