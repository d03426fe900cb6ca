---------------------------- MODULE LogContract -----------------------------
(***************************************************************************)
(* What the log stream of the core promises: an event that is logged is    *)
(* put, at one moment and once, into every subscription that is open then, *)
(* and into no other; it waits while one of them has more events than its  *)
(* channel holds; and events leave a subscription only through a reader,   *)
(* which stays until the subscription is closed and has no more of them.   *)
(***************************************************************************)
EXTENDS Naturals

CONSTANTS
    Starts,     \* the subscriptions, and the goroutines that read
    Loggers,    \* goroutines that log
    Capacity    \* the buffer of a subscription

VARIABLES
    queue,   \* subscription -> events it has still to forward
    open,    \* the subscriptions that are open
    closed,  \* those that have been closed
    readers, \* subscription -> the goroutines that read it
    logger   \* goroutine -> "idle" or "logging"

vars == <<queue, open, closed, readers, logger>>

Init ==
    /\ queue = [s \in Starts |-> 0]
    /\ open = {}
    /\ closed = {}
    /\ readers = [s \in Starts |-> {}]
    /\ logger = [l \in Loggers |-> "idle"]

\* A subscription is opened once.
Subscribe(s) ==
    /\ s \notin open \cup closed
    /\ open' = open \cup {s}
    /\ UNCHANGED <<queue, closed, readers, logger>>

Close(s) ==
    /\ s \in open
    /\ open' = open \ {s}
    /\ closed' = closed \cup {s}
    /\ UNCHANGED <<queue, readers, logger>>

Log(l) ==
    /\ logger[l] = "idle"
    /\ logger' = [logger EXCEPT ![l] = "logging"]
    /\ UNCHANGED <<queue, open, closed, readers>>

\* One event more than a channel holds may be on its way to it.
Publish(l) ==
    /\ logger[l] = "logging"
    /\ \A s \in open : queue[s] <= Capacity
    /\ logger' = [logger EXCEPT ![l] = "idle"]
    /\ queue' = [s \in Starts |-> IF s \in open THEN queue[s] + 1 ELSE queue[s]]
    /\ UNCHANGED <<open, closed, readers>>

\* A goroutine reads one subscription, not always its own.
Join(t, s) ==
    /\ s \in open \cup closed
    /\ \A u \in Starts : t \notin readers[u]
    /\ readers' = [readers EXCEPT ![s] = @ \cup {t}]
    /\ UNCHANGED <<queue, open, closed, logger>>

Forward(s) ==
    /\ queue[s] > 0
    /\ readers[s] # {}
    /\ queue' = [queue EXCEPT ![s] = @ - 1]
    /\ UNCHANGED <<open, closed, readers, logger>>

Leave(t, s) ==
    /\ t \in readers[s]
    /\ s \in closed
    /\ queue[s] = 0
    /\ readers' = [readers EXCEPT ![s] = @ \ {t}]
    /\ UNCHANGED <<queue, open, closed, logger>>

Next ==
    \/ \E s \in Starts : Subscribe(s) \/ Close(s) \/ Forward(s)
    \/ \E s, t \in Starts : Join(t, s) \/ Leave(t, s)
    \/ \E l \in Loggers : Log(l) \/ Publish(l)

Spec == Init /\ [][Next]_vars
=============================================================================
