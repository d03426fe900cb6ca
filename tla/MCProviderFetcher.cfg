\* Two setups, two requests and one change of the environment.
SPECIFICATION FairSpec
CONSTANTS
    x = x
    y = y
    bad = bad
    r1 = r1
    r2 = r2
    None = None
    Contents <- ContentsDef
    Parsable <- ParsableDef
    Requests = {r1, r2}
    MaxSetups = 2
    Worlds <- WorldsDef
INVARIANTS
    TypeOK
    FileAgrees
PROPERTIES
    Converges
    OldLoopsEnd
    RequestsEnd
CHECK_DEADLOCK FALSE
