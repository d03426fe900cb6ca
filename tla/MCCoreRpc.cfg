\* Three requests around two engines that follow each other, or none.
SPECIFICATION FairSpec
CONSTANTS
    Requests = {r1, r2, r3}
    MaxEngines = 2
    RealTimeout = 100
    CommonDuration = 1
INVARIANTS
    TypeOK
PROPERTIES
    KeepsContract
    AnswerInTimeCounts
    EveryCallReturns
    PortFollows
CHECK_DEADLOCK FALSE
