\* Two starts and a stop, either one at a time or overlapping in any way, and
\* two goroutines that log.  The model may stop: requests that overlap can
\* leave a subscriber unread, and then everybody who logs waits for ever.
SPECIFICATION FairSpec
CONSTANTS
    Starts = {s1, s2}
    Stops = {p1}
    Loggers = {l1, l2}
    Capacity = 2
    Nil = Nil
INVARIANTS
    TypeOK
    SendOnOpen
    SubscriberIsRead
PROPERTIES
    KeepsContract
    NobodyBlocks
CHECK_DEADLOCK FALSE
