----------------------------- MODULE LogStream -----------------------------
(***************************************************************************)
(* The log stream of the core: log.go and observable.go of Clash.Meta, and *)
(* the handlers that subscribe to it for the client (core/hub.go).         *)
(*                                                                         *)
(* Whoever logs hands the event to one goroutine, process, which holds a   *)
(* mutex while it puts the event into the buffer of every subscriber.  A   *)
(* subscriber nobody reads fills up, then process blocks with the mutex    *)
(* held, and from then on every goroutine of the core that logs.           *)
(*                                                                         *)
(* A start request, the subscription it makes and the goroutine it spawns  *)
(* to read one are one identity.                                           *)
(***************************************************************************)
EXTENDS Naturals, FiniteSets

CONSTANTS
    Starts,     \* startLog requests
    Stops,      \* stopLog requests
    Loggers,    \* goroutines that log
    Capacity,   \* the buffer of a subscriber (200 in the code)
    Nil

Requests == Starts \cup Stops

ASSUME ConstantsAssumption ==
    /\ Starts \cap Stops = {}
    /\ Nil \notin Requests \cup Loggers
    /\ Capacity \in Nat \ {0}

VARIABLES
    pc,             \* where the goroutine of each request is
    old,            \* the subscription it is about to give up
    logSubscriber,  \* the global logSubscriber
    listener,       \* the subscribers of the observable
    closed,         \* subscribers whose channel is closed
    buffer,         \* subscriber -> events in its channel
    todo,           \* subscribers process has still to put its event into
    processing,     \* whether process has an event, and so holds the mutex
    reader,         \* where the goroutine that reads a subscription is
    source,         \* the subscription it reads
    logger,         \* goroutine -> "idle" or "logging"
    serial          \* is a request handled only when no other one is?

vars == <<pc, old, logSubscriber, listener, closed, buffer, todo, processing,
          reader, source, logger, serial>>

requestVars == <<pc, old, logSubscriber>>
processVars == <<todo, processing, logger>>
readerVars  == <<reader, source>>

Init ==
    /\ pc = [r \in Requests |-> "idle"]
    /\ old = [r \in Requests |-> Nil]
    /\ logSubscriber = Nil
    /\ listener = {}
    /\ closed = {}
    /\ buffer = [s \in Starts |-> 0]
    /\ todo = {}
    /\ processing = FALSE
    /\ reader = [s \in Starts |-> "none"]
    /\ source = [s \in Starts |-> Nil]
    /\ logger = [l \in Loggers |-> "idle"]
    /\ serial \in BOOLEAN

-----------------------------------------------------------------------------
(* The handlers.                                                             *)

Goto(r, label) == pc' = [pc EXCEPT ![r] = label]

\* Mutant: a start does not give up the subscription there is.
HandleLogResubscribing(r) ==
    /\ pc[r] = "idle"
    /\ serial => \A q \in Requests : pc[q] \in {"idle", "done"}
    /\ old' = [old EXCEPT ![r] = logSubscriber]
    /\ Goto(r, IF r \in Starts THEN "subscribe"
               ELSE IF logSubscriber # Nil THEN "unsubscribe" ELSE "done")
    /\ UNCHANGED <<logSubscriber, listener, closed, buffer, processVars, readerVars>>

\* handleStartLog and handleStopLog look at the global first; the argument of
\* UnSubscribe is read together with the test.
HandleLog(r) ==
    /\ pc[r] = "idle"
    /\ serial => \A q \in Requests : pc[q] \in {"idle", "done"}
    /\ old' = [old EXCEPT ![r] = logSubscriber]
    /\ Goto(r, IF logSubscriber # Nil THEN "unsubscribe"
               ELSE IF r \in Starts THEN "subscribe" ELSE "done")
    /\ UNCHANGED <<logSubscriber, listener, closed, buffer, processVars, readerVars>>

\* Mutant: the channel is closed without the mutex.
UnSubscribeUnlocked(r) ==
    /\ pc[r] = "unsubscribe"
    /\ listener' = listener \ {old[r]}
    /\ closed' = closed \cup {old[r]}
    /\ Goto(r, "clear")
    /\ UNCHANGED <<old, logSubscriber, buffer, processVars, readerVars>>

\* A subscription that is given up is removed and closed under the mutex; one
\* that is no longer known is left alone.
UnSubscribe(r) ==
    /\ pc[r] = "unsubscribe"
    /\ ~processing
    /\ listener' = listener \ {old[r]}
    /\ closed' = closed \cup (listener \cap {old[r]})
    /\ Goto(r, "clear")
    /\ UNCHANGED <<old, logSubscriber, buffer, processVars, readerVars>>

ClearSubscriber(r) ==
    /\ pc[r] = "clear"
    /\ logSubscriber' = Nil
    /\ Goto(r, IF r \in Starts THEN "subscribe" ELSE "done")
    /\ UNCHANGED <<old, listener, closed, buffer, processVars, readerVars>>

Subscribe(s) ==
    /\ pc[s] = "subscribe"
    /\ ~processing
    /\ listener' = listener \cup {s}
    /\ Goto(s, "assign")
    /\ UNCHANGED <<old, logSubscriber, closed, buffer, processVars, readerVars>>

\* The global is assigned and the reading goroutine spawned.
SpawnReader(s) ==
    /\ pc[s] = "assign"
    /\ logSubscriber' = s
    /\ reader' = [reader EXCEPT ![s] = "spawned"]
    /\ Goto(s, "done")
    /\ UNCHANGED <<old, listener, closed, buffer, processVars, source>>

-----------------------------------------------------------------------------
(* The reading goroutine.                                                    *)

\* Its range expression reads the global when the goroutine first runs, which
\* may be after a later request: ranging over nil blocks for ever.
RangeSubscriber(s) ==
    /\ reader[s] = "spawned"
    /\ source' = [source EXCEPT ![s] = logSubscriber]
    /\ reader' = [reader EXCEPT ![s] = IF logSubscriber = Nil THEN "stuck" ELSE "ranging"]
    /\ UNCHANGED <<requestVars, listener, closed, buffer, processVars>>

\* Mutant: the goroutine returns at an event it does not forward.
ForwardEventOnce(s) ==
    /\ reader[s] = "ranging"
    /\ buffer[source[s]] > 0
    /\ buffer' = [buffer EXCEPT ![source[s]] = @ - 1]
    /\ reader' = [reader EXCEPT ![s] = "done"]
    /\ UNCHANGED <<requestVars, listener, closed, processVars, source>>

\* An event is taken out and sent to the client.
ForwardEvent(s) ==
    /\ reader[s] = "ranging"
    /\ buffer[source[s]] > 0
    /\ buffer' = [buffer EXCEPT ![source[s]] = @ - 1]
    /\ UNCHANGED <<requestVars, listener, closed, processVars, readerVars>>

\* The channel is closed and empty: the goroutine ends.
EndOfStream(s) ==
    /\ reader[s] = "ranging"
    /\ buffer[source[s]] = 0
    /\ source[s] \in closed
    /\ reader' = [reader EXCEPT ![s] = "done"]
    /\ UNCHANGED <<requestVars, listener, closed, buffer, processVars, source>>

-----------------------------------------------------------------------------
(* Logging.                                                                  *)

\* Infoln and the others: the event is offered on an unbuffered channel.
Log(l) ==
    /\ logger[l] = "idle"
    /\ logger' = [logger EXCEPT ![l] = "logging"]
    /\ UNCHANGED <<requestVars, listener, closed, buffer, todo, processing, readerVars>>

\* process takes an event of some logger and locks the mutex ...
Process(l) ==
    /\ logger[l] = "logging"
    /\ ~processing
    /\ logger' = [logger EXCEPT ![l] = "idle"]
    /\ processing' = TRUE
    /\ todo' = listener
    /\ UNCHANGED <<requestVars, listener, closed, buffer, readerVars>>

\* Mutant: the buffer has no end.
EmitUnbounded(s) ==
    /\ s \in todo
    /\ buffer' = [buffer EXCEPT ![s] = @ + 1]
    /\ todo' = todo \ {s}
    /\ UNCHANGED <<requestVars, listener, closed, processing, logger, readerVars>>

\* Mutant: a full buffer loses the event.
EmitDropping(s) ==
    /\ s \in todo
    /\ buffer' = [buffer EXCEPT ![s] = IF @ < Capacity THEN @ + 1 ELSE @]
    /\ todo' = todo \ {s}
    /\ UNCHANGED <<requestVars, listener, closed, processing, logger, readerVars>>

\* ... puts it into each buffer, waiting where one is full (putting it into a
\* closed channel would panic) ...
Emit(s) ==
    /\ s \in todo
    /\ buffer[s] < Capacity
    /\ buffer' = [buffer EXCEPT ![s] = @ + 1]
    /\ todo' = todo \ {s}
    /\ UNCHANGED <<requestVars, listener, closed, processing, logger, readerVars>>

\* ... and unlocks.
Processed ==
    /\ processing
    /\ todo = {}
    /\ processing' = FALSE
    /\ UNCHANGED <<requestVars, listener, closed, buffer, todo, logger, readerVars>>

-----------------------------------------------------------------------------
RequestStep(r) ==
    \/ UnSubscribe(r) \/ ClearSubscriber(r)
    \/ r \in Starts /\ (Subscribe(r) \/ SpawnReader(r))

ReaderStep(s) == RangeSubscriber(s) \/ ForwardEvent(s) \/ EndOfStream(s)

Next ==
    /\ UNCHANGED serial
    /\ \/ \E r \in Requests : HandleLog(r) \/ RequestStep(r)
       \/ \E s \in Starts : ReaderStep(s) \/ Emit(s)
       \/ \E l \in Loggers : Log(l) \/ Process(l)
       \/ Processed

Spec == Init /\ [][Next]_vars

\* Goroutines run; a mutex and a channel serve those who wait for them.  Nobody
\* has to log or to send a request.
Fairness ==
    /\ \A r \in Requests : SF_vars(RequestStep(r) /\ UNCHANGED serial)
    /\ \A s \in Starts : /\ WF_vars(ReaderStep(s) /\ UNCHANGED serial)
                        /\ WF_vars(Emit(s) /\ UNCHANGED serial)
    /\ \A l \in Loggers : SF_vars(Process(l) /\ UNCHANGED serial)
    /\ WF_vars(Processed /\ UNCHANGED serial)

FairSpec == Spec /\ Fairness

-----------------------------------------------------------------------------
\* Every variable has its type; a buffer holds at most Capacity events.
TypeOK ==
    /\ pc \in [Requests -> {"idle", "unsubscribe", "clear", "subscribe", "assign", "done"}]
    /\ old \in [Requests -> Starts \cup {Nil}]
    /\ logSubscriber \in Starts \cup {Nil}
    /\ listener \subseteq Starts
    /\ closed \subseteq Starts
    /\ buffer \in [Starts -> 0..Capacity]
    /\ todo \subseteq Starts
    /\ processing \in BOOLEAN
    /\ reader \in [Starts -> {"none", "spawned", "ranging", "stuck", "done"}]
    /\ source \in [Starts -> Starts \cup {Nil}]
    /\ logger \in [Loggers -> {"idle", "logging"}]
    /\ serial \in BOOLEAN

\* However starts, stops and events overlap, process never puts an event into
\* a channel that has been closed, which would panic (observable.go,
\* UnSubscribe and process share the mutex).
SendOnOpen == todo \cap closed = {}

\* The events a subscription has still to forward: those in its channel, and
\* the one process has still to put there.
QueueOf == [s \in Starts |-> IF s \in todo THEN buffer[s] + 1 ELSE buffer[s]]

ReadersOf == [s \in Starts |-> {t \in Starts : reader[t] = "ranging" /\ source[t] = s}]

Contract == INSTANCE LogContract
                WITH queue <- QueueOf, open <- listener, readers <- ReadersOf

\* However requests and loggers overlap, each event reaches once every
\* subscription that was open when process took it, and no other, as if it were
\* put into all of them at one moment (observable.go, process); and a goroutine
\* that reads one stops only when it is closed and empty, for good (hub.go,
\* handleStartLog): LogContract.
KeepsContract == Contract!Spec

\* With one request at a time no subscriber is left without a goroutine that
\* reads it or is about to, although that goroutine looks the subscription up
\* in the global only when it first runs (hub.go, handleStartLog).
SubscriberIsRead ==
    serial => \A s \in listener :
        \/ pc[s] = "assign"
        \/ \E t \in Starts : \/ reader[t] = "spawned" /\ logSubscriber = s
                             \/ reader[t] = "ranging" /\ source[t] = s

\* With one request at a time nobody waits for ever: the mutex is never held
\* by a process that waits for a full buffer nobody empties, so a goroutine that
\* logs gets on, and a stop gets the mutex even while events keep coming.
NobodyBlocks ==
    /\ \A l \in Loggers : serial /\ logger[l] = "logging" ~> logger[l] = "idle"
    /\ \A r \in Stops : serial /\ pc[r] = "unsubscribe" ~> pc[r] = "done"
=============================================================================
