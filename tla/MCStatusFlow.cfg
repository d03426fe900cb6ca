\* Four calls after one another or overlapping, with any clicks of the button,
\* on either platform.  When the calls are used up the model may stop.
SPECIFICATION FairSpec
CONSTANTS
    Nil = Nil
    MaxCalls = 4
    Worlds <- AllWorlds
INVARIANTS
    TypeOK
    ShownIsStarted
    StatusAgrees
PROPERTIES
    StartIsShown
CHECK_DEADLOCK FALSE
