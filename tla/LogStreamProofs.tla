-------------------------- MODULE LogStreamProofs ---------------------------
(***************************************************************************)
(* For any number of requests, loggers and events, however they overlap:   *)
(* the types, the bound of the channels included, that the log stream      *)
(* never puts an event into a channel that was closed, and that it keeps   *)
(* LogContract; and, one request at a time, that every subscriber is read, *)
(* so that process is never held up for good.                              *)
(*                                                                         *)
(* Why: a subscription is removed and closed under the mutex, which the    *)
(* goroutine that distributes an event holds from taking the list of       *)
(* subscribers to the last of them; and a subscription, once closed, is    *)
(* never subscribed again.                                                 *)
(***************************************************************************)
EXTENDS LogStream, TLAPS

\* The requests that have subscribed, the ones since given up included.
Subscribed == {s \in Starts : pc[s] \in {"assign", "done"}}

Inv ==
    /\ pc \in [Requests -> {"idle", "unsubscribe", "clear", "subscribe", "assign", "done"}]
    /\ listener \subseteq Subscribed
    /\ closed \subseteq Subscribed
    /\ listener \cap closed = {}
    /\ todo \subseteq listener
    /\ todo = {} \/ processing

\* The invariant is kept by every step.
LEMMA InvKept == Inv /\ [Next]_vars => Inv'
<1> SUFFICES ASSUME Inv, [Next]_vars PROVE Inv'
  OBVIOUS
<1> USE DEF Inv, Subscribed, Requests
<1>1. CASE UNCHANGED vars
  BY <1>1 DEF vars
<1>2. ASSUME NEW r \in Requests, HandleLog(r) PROVE Inv'
  BY <1>2 DEF HandleLog, Goto, processVars
<1>3. ASSUME NEW r \in Requests, UnSubscribe(r) PROVE Inv'
  <2>1. /\ pc[r] = "unsubscribe" /\ pc' = [pc EXCEPT ![r] = "clear"]
        /\ listener' = listener \ {old[r]}
        /\ closed' = closed \cup (listener \cap {old[r]})
        /\ todo' = todo
    BY <1>3 DEF UnSubscribe, Goto, processVars
  <2>2. todo = {}
    BY <1>3, Zenon DEF UnSubscribe
  <2>3. Subscribed' = Subscribed
    BY <2>1
  <2>4. QED BY <2>1, <2>2, <2>3
<1>4. ASSUME NEW r \in Requests, ClearSubscriber(r) PROVE Inv'
  BY <1>4 DEF ClearSubscriber, Goto, processVars
<1>5. ASSUME NEW s \in Starts, Subscribe(s) PROVE Inv'
  BY <1>5 DEF Subscribe, Goto, processVars
<1>6. ASSUME NEW s \in Starts, SpawnReader(s) PROVE Inv'
  BY <1>6 DEF SpawnReader, Goto, processVars
<1>7. ASSUME NEW s \in Starts, ReaderStep(s) PROVE Inv'
  BY <1>7
     DEF ReaderStep, RangeSubscriber, ForwardEvent, EndOfStream, processVars, requestVars
<1>8. ASSUME NEW s \in Starts, Emit(s) PROVE Inv'
  BY <1>8 DEF Emit, requestVars
<1>9. ASSUME NEW l \in Loggers, Log(l) PROVE Inv'
  BY <1>9 DEF Log, requestVars
<1>10. ASSUME NEW l \in Loggers, Process(l) PROVE Inv'
  BY <1>10 DEF Process, requestVars
<1>11. CASE Processed
  BY <1>11 DEF Processed, requestVars
<1>12. QED
  BY <1>1, <1>2, <1>3, <1>4, <1>5, <1>6, <1>7, <1>8, <1>9, <1>10, <1>11
     DEF Next, RequestStep

\* process never puts an event into a channel that has been closed.
THEOREM NeverSendsOnClosed == Spec => []SendOnOpen
<1>1. Init => Inv
  BY DEF Init, Inv, Requests
<1>2. Inv => SendOnOpen
  BY DEF Inv, SendOnOpen
<1>3. QED BY <1>1, <1>2, InvKept, PTL DEF Spec

-----------------------------------------------------------------------------
(* One request at a time.                                                    *)

Active(r) == pc[r] \notin {"idle", "done"}

\* The goroutine of the start that made a subscription reads it, or will find
\* it in the global when it first runs.
ReadBy(s) ==
    /\ logSubscriber = s
    /\ \/ reader[s] = "spawned"
       \/ reader[s] = "ranging" /\ source[s] = s

\* With one request at a time there is one subscriber at most; it is that of
\* the start under way, or the global one.
SerialInv ==
    /\ reader \in [Starts -> {"none", "spawned", "ranging", "stuck", "done"}]
    /\ source \in [Starts -> Starts \cup {Nil}]
    /\ old \in [Requests -> Starts \cup {Nil}]
    /\ logSubscriber \in Starts \cup {Nil}
    /\ serial =>
        /\ \A q, r \in Requests : Active(q) /\ Active(r) => q = r
        /\ \A r \in Requests : /\ pc[r] = "unsubscribe" => old[r] = logSubscriber
                               /\ pc[r] \in {"clear", "subscribe"} => listener = {}
                               /\ pc[r] = "assign" => listener = {r}
        /\ \A s \in listener : pc[s] = "assign" \/ ReadBy(s)

\* A step that leaves the requests and their subscriptions alone, and whose
\* readers go on.
LEMMA ReadersGoOn ==
    ASSUME Inv, SerialInv, serial' = serial, UNCHANGED <<pc, old, logSubscriber, listener>>,
           reader' \in [Starts -> {"none", "spawned", "ranging", "stuck", "done"}],
           source' \in [Starts -> Starts \cup {Nil}],
           \A s \in listener : ReadBy(s) => ReadBy(s)'
    PROVE  SerialInv'
BY DEF SerialInv, Active

LEMMA SerialKept == Inv /\ SerialInv /\ [Next]_vars => SerialInv'
<1> SUFFICES ASSUME Inv, SerialInv, [Next]_vars PROVE SerialInv'
  OBVIOUS
<1>0. ConstantsAssumption
  BY ConstantsAssumption
<1>1. CASE UNCHANGED vars
  BY <1>1 DEF vars, SerialInv, Active, ReadBy
<1>2. ASSUME NEW r \in Requests, HandleLog(r), serial' = serial PROVE SerialInv'
  <2>1. /\ pc[r] = "idle" /\ old' = [old EXCEPT ![r] = logSubscriber]
        /\ pc' = [pc EXCEPT ![r] = IF logSubscriber # Nil THEN "unsubscribe"
                                   ELSE IF r \in Starts THEN "subscribe" ELSE "done"]
        /\ serial => \A q \in Requests : ~Active(q)
        /\ UNCHANGED <<logSubscriber, listener, reader, source, serial>>
    BY <1>2 DEF HandleLog, Goto, readerVars, Active
  <2>2. serial /\ logSubscriber = Nil => listener = {}
    BY <2>1, <1>0 DEF SerialInv, ReadBy, Active, Inv, Subscribed, Requests
  <2>3. \A s \in listener : pc'[s] = pc[s]
    BY <2>1 DEF Inv, Subscribed, Requests
  <2>4. QED BY <2>1, <2>2, <2>3 DEF SerialInv, Active, ReadBy, Inv, Requests
<1>3. ASSUME NEW r \in Requests, UnSubscribe(r), serial' = serial PROVE SerialInv'
  <2>1. /\ pc[r] = "unsubscribe" /\ pc' = [pc EXCEPT ![r] = "clear"]
        /\ listener' = listener \ {old[r]}
        /\ UNCHANGED <<old, logSubscriber, reader, source, serial>>
    BY <1>3 DEF UnSubscribe, Goto, readerVars
  <2>2. serial => listener' = {}
    <3> SUFFICES ASSUME serial, NEW s \in listener PROVE s = old[r]
      BY <2>1
    <3>1. pc[s] # "assign"
      BY <2>1 DEF SerialInv, Active, Inv, Subscribed, Requests
    <3>2. logSubscriber = s
      BY <3>1 DEF SerialInv, ReadBy
    <3>3. QED BY <2>1, <3>2 DEF SerialInv
  <2>3. QED BY <2>1, <2>2 DEF SerialInv, Active, Inv
<1>4. ASSUME NEW r \in Requests, ClearSubscriber(r), serial' = serial PROVE SerialInv'
  <2>1. /\ pc[r] = "clear" /\ logSubscriber' = Nil
        /\ pc' = [pc EXCEPT ![r] = IF r \in Starts THEN "subscribe" ELSE "done"]
        /\ UNCHANGED <<old, listener, reader, source, serial>>
    BY <1>4 DEF ClearSubscriber, Goto, readerVars
  <2>2. serial => listener = {}
    BY <2>1 DEF SerialInv
  <2>3. QED BY <2>1, <2>2 DEF SerialInv, Active, Inv
<1>5. ASSUME NEW s \in Starts, Subscribe(s), serial' = serial PROVE SerialInv'
  <2>1. /\ pc[s] = "subscribe" /\ pc' = [pc EXCEPT ![s] = "assign"]
        /\ listener' = listener \cup {s}
        /\ UNCHANGED <<old, logSubscriber, reader, source, serial>>
    BY <1>5 DEF Subscribe, Goto, readerVars
  <2>2. s \in Requests
    BY DEF Requests
  <2>3. serial => listener' = {s}
    BY <2>1, <2>2 DEF SerialInv
  <2>4. QED BY <2>1, <2>2, <2>3 DEF SerialInv, Active, Inv
<1>6. ASSUME NEW s \in Starts, SpawnReader(s), serial' = serial PROVE SerialInv'
  <2>1. /\ pc[s] = "assign" /\ pc' = [pc EXCEPT ![s] = "done"]
        /\ logSubscriber' = s /\ reader' = [reader EXCEPT ![s] = "spawned"]
        /\ UNCHANGED <<old, listener, source, serial>>
    BY <1>6 DEF SpawnReader, Goto
  <2>2. s \in Requests
    BY DEF Requests
  <2>3. serial => listener = {s}
    BY <2>1, <2>2 DEF SerialInv
  <2>4. ReadBy(s)'
    BY <2>1 DEF ReadBy, SerialInv
  <2>5. QED BY <2>1, <2>2, <2>3, <2>4 DEF SerialInv, Active, Inv
<1>7. ASSUME NEW t \in Starts, ReaderStep(t), serial' = serial PROVE SerialInv'
  <2>1. UNCHANGED <<pc, old, logSubscriber, listener, closed>>
    BY <1>7 DEF ReaderStep, RangeSubscriber, ForwardEvent, EndOfStream, requestVars
  <2>2. /\ reader' \in [Starts -> {"none", "spawned", "ranging", "stuck", "done"}]
        /\ source' \in [Starts -> Starts \cup {Nil}]
    BY <1>7 DEF ReaderStep, RangeSubscriber, ForwardEvent, EndOfStream, readerVars, SerialInv
  <2>3. ASSUME NEW s \in listener, ReadBy(s) PROVE ReadBy(s)'
    <3>1. s \in Starts /\ s # Nil /\ s \notin closed
      BY <1>0 DEF Inv, Subscribed, Requests
    <3>2. QED
      BY <1>7, <2>1, <2>3, <3>1
         DEF ReaderStep, RangeSubscriber, ForwardEvent, EndOfStream, readerVars, ReadBy, SerialInv
  <2>4. QED BY <1>7, <2>1, <2>2, <2>3, ReadersGoOn
<1>8. ASSUME UNCHANGED <<pc, old, logSubscriber, listener, reader, source, serial>>
      PROVE  SerialInv'
  BY <1>8 DEF SerialInv, Active, ReadBy
<1>9. ASSUME NEW s \in Starts, Emit(s), serial' = serial PROVE SerialInv'
  BY <1>8, <1>9 DEF Emit, requestVars, readerVars
<1>10. ASSUME NEW l \in Loggers, Log(l) \/ Process(l), serial' = serial PROVE SerialInv'
  BY <1>8, <1>10 DEF Log, Process, requestVars, readerVars
<1>11. ASSUME Processed, serial' = serial PROVE SerialInv'
  BY <1>8, <1>11 DEF Processed, requestVars, readerVars
<1>12. QED
  BY <1>1, <1>2, <1>3, <1>4, <1>5, <1>6, <1>7, <1>9, <1>10, <1>11 DEF Next, RequestStep

\* With one request at a time every subscriber has a goroutine that reads it,
\* or is about to, in however many starts and stops (hub.go, handleStartLog).
THEOREM EverySubscriberRead == Spec => []SubscriberIsRead
<1>1. Init => Inv /\ SerialInv
  BY DEF Init, Inv, SerialInv, Active, Requests
<1>2. Inv /\ SerialInv => SubscriberIsRead
  <2> SUFFICES ASSUME Inv, SerialInv, serial, NEW s \in listener
               PROVE  \/ pc[s] = "assign"
                      \/ \E t \in Starts : \/ reader[t] = "spawned" /\ logSubscriber = s
                                           \/ reader[t] = "ranging" /\ source[t] = s
    BY DEF SubscriberIsRead
  <2>1. s \in Starts
    BY DEF Inv, Subscribed
  <2>2. QED BY <2>1 DEF SerialInv, ReadBy
<1>3. QED BY <1>1, <1>2, InvKept, SerialKept, PTL DEF Spec

-----------------------------------------------------------------------------
(* Types.                                                                    *)

\* What SerialInv leaves of the types.
BufferType ==
    /\ buffer \in [Starts -> 0..Capacity]
    /\ processing \in BOOLEAN
    /\ logger \in [Loggers -> {"idle", "logging"}]
    /\ serial \in BOOLEAN

\* An event goes only into a buffer that is not full, and is taken only out of
\* one that is not empty.
LEMMA BufferKept == BufferType /\ [Next]_vars => BufferType'
<1> SUFFICES ASSUME BufferType, [Next]_vars PROVE BufferType'
  OBVIOUS
<1>0. Capacity \in Nat \ {0}
  BY ConstantsAssumption
<1>1. processing' = processing \/ processing' \in BOOLEAN
  BY DEF Next, vars, processVars, requestVars, HandleLog, RequestStep, UnSubscribe,
         ClearSubscriber, Subscribe, SpawnReader, ReaderStep, RangeSubscriber, ForwardEvent,
         EndOfStream, Emit, Log, Process, Processed
<1>2. serial' = serial
  BY DEF Next, vars
<1>3. CASE UNCHANGED <<buffer, logger>>
  BY <1>1, <1>2, <1>3 DEF BufferType
<1>4. ASSUME NEW s \in Starts, ForwardEvent(s) PROVE BufferType'
  <2>1. /\ buffer[source[s]] > 0 /\ logger' = logger
        /\ buffer' = [buffer EXCEPT ![source[s]] = buffer[source[s]] - 1]
    BY <1>4 DEF ForwardEvent, processVars
  <2>2. CASE source[s] \in Starts
    <3>1. buffer[source[s]] - 1 \in 0..Capacity
      BY <1>0, <2>1, <2>2 DEF BufferType
    <3>2. QED BY <1>1, <1>2, <2>1, <3>1 DEF BufferType
  <2>3. CASE source[s] \notin Starts
    <3>1. buffer' = buffer
      BY <2>1, <2>3 DEF BufferType
    <3>2. QED BY <1>1, <1>2, <2>1, <3>1 DEF BufferType
  <2>4. QED BY <2>2, <2>3
<1>5. ASSUME NEW s \in Starts, Emit(s) PROVE BufferType'
  <2>1. /\ buffer[s] < Capacity /\ logger' = logger
        /\ buffer' = [buffer EXCEPT ![s] = buffer[s] + 1]
    BY <1>5 DEF Emit
  <2>2. buffer' \in [Starts -> 0..Capacity]
    BY <1>0, <2>1 DEF BufferType
  <2>3. QED BY <1>1, <1>2, <2>1, <2>2 DEF BufferType
<1>6. ASSUME NEW l \in Loggers, Log(l) \/ Process(l) PROVE BufferType'
  <2>1. buffer' = buffer /\ logger' \in [Loggers -> {"idle", "logging"}]
    BY <1>6 DEF Log, Process, BufferType
  <2>2. QED BY <1>1, <1>2, <2>1 DEF BufferType
<1>7. \/ UNCHANGED <<buffer, logger>>
      \/ \E s \in Starts : ForwardEvent(s) \/ Emit(s)
      \/ \E l \in Loggers : Log(l) \/ Process(l)
  BY Zenon
     DEF Next, vars, processVars, HandleLog, RequestStep, UnSubscribe, ClearSubscriber,
         Subscribe, SpawnReader, ReaderStep, RangeSubscriber, EndOfStream, Processed
<1>8. QED BY <1>3, <1>4, <1>5, <1>6, <1>7

\* The channels are empty.
LEMMA InitBuffer == Init => BufferType
<1> SUFFICES ASSUME Init PROVE BufferType
  OBVIOUS
<1>1. buffer \in [Starts -> 0..Capacity]
  BY ConstantsAssumption DEF Init
<1>2. processing \in BOOLEAN /\ serial \in BOOLEAN
  BY Zenon DEF Init
<1>3. logger \in [Loggers -> {"idle", "logging"}]
  BY DEF Init
<1>4. QED BY <1>1, <1>2, <1>3 DEF BufferType

\* Every variable always has its type; a buffer holds at most Capacity events,
\* however many requests and loggers overlap.
THEOREM TypeCorrect == Spec => []TypeOK
<1>1. Init => Inv /\ SerialInv
  BY DEF Init, Inv, SerialInv, Active, Requests
<1>2. Inv /\ SerialInv /\ BufferType => TypeOK
  BY DEF Inv, SerialInv, BufferType, TypeOK, Subscribed
<1>3. QED BY <1>1, <1>2, InitBuffer, InvKept, SerialKept, BufferKept, PTL DEF Spec
-----------------------------------------------------------------------------
(* The contract.                                                             *)

\* What process has still to put is nothing while it holds no event.
LEMMA QueueIsBuffer ==
    ASSUME Inv, ~processing
    PROVE  todo = {} /\ \A s \in Starts : QueueOf[s] = buffer[s]
<1>1. todo = {}
  BY Zenon DEF Inv
<1>2. QED BY <1>1 DEF QueueOf

\* Whatever was subscribed is open or closed, the global is one of these, and a
\* goroutine is spawned once.
KnownInv ==
    /\ Subscribed = listener \cup closed
    /\ logSubscriber \in Subscribed \cup {Nil}
    /\ \A s \in Starts : pc[s] # "done" => reader[s] = "none"

LEMMA KnownKept == Inv /\ SerialInv /\ KnownInv /\ [Next]_vars => KnownInv'
<1> SUFFICES ASSUME Inv, SerialInv, KnownInv, [Next]_vars PROVE KnownInv'
  OBVIOUS
<1> USE DEF Goto, requestVars, processVars, readerVars, KnownInv, Inv, Subscribed, Requests
<1>0. ConstantsAssumption
  BY ConstantsAssumption
<1>1. CASE UNCHANGED vars
  BY <1>1 DEF vars
<1>2. ASSUME NEW r \in Requests, HandleLog(r) PROVE KnownInv'
  <2>1. Subscribed' = Subscribed
    BY <1>2, <1>0 DEF HandleLog, ConstantsAssumption
  <2>2. QED BY <1>2, <2>1 DEF HandleLog
<1>3. ASSUME NEW r \in Requests, UnSubscribe(r) PROVE KnownInv'
  <2>1. Subscribed' = Subscribed
    BY <1>3 DEF UnSubscribe
  <2>2. listener' \cup closed' = listener \cup closed
    BY <1>3 DEF UnSubscribe
  <2>3. QED BY <1>3, <2>1, <2>2 DEF UnSubscribe
<1>4. ASSUME NEW r \in Requests, ClearSubscriber(r) PROVE KnownInv'
  <2>1. Subscribed' = Subscribed
    BY <1>4, <1>0 DEF ClearSubscriber, ConstantsAssumption
  <2>2. QED BY <1>4, <2>1 DEF ClearSubscriber
<1>5. ASSUME NEW s \in Starts, Subscribe(s) PROVE KnownInv'
  <2>1. Subscribed' = Subscribed \cup {s}
    BY <1>5 DEF Subscribe
  <2>2. QED BY <1>5, <2>1 DEF Subscribe
<1>6. ASSUME NEW s \in Starts, SpawnReader(s) PROVE KnownInv'
  <2>1. Subscribed' = Subscribed /\ s \in Subscribed
    BY <1>6 DEF SpawnReader
  <2>2. QED BY <1>6, <2>1 DEF SpawnReader, SerialInv
<1>7. ASSUME NEW s \in Starts, ReaderStep(s) \/ Emit(s) PROVE KnownInv'
  BY <1>7 DEF ReaderStep, RangeSubscriber, ForwardEvent, EndOfStream, Emit, SerialInv
<1>8. ASSUME NEW l \in Loggers, Log(l) \/ Process(l) PROVE KnownInv'
  BY <1>8 DEF Log, Process
<1>9. CASE Processed
  BY <1>9 DEF Processed
<1>10. QED
  BY <1>1, <1>2, <1>3, <1>4, <1>5, <1>6, <1>7, <1>8, <1>9 DEF Next, RequestStep

\* Steps that touch no queue leave QueueOf alone.
LEMMA QueueFrame == ASSUME UNCHANGED <<buffer, todo>> PROVE QueueOf' = QueueOf
BY DEF QueueOf

\* Nor do others touch who reads.
LEMMA ReadersFrame == ASSUME UNCHANGED <<reader, source>> PROVE ReadersOf' = ReadersOf
BY DEF ReadersOf

\* Each step of the log stream is one of the contract, or none of it: taking an
\* event is the moment at which every open subscription gets it.
LEMMA ContractStep ==
    ASSUME Inv, SerialInv, BufferType, KnownInv, [Next]_vars
    PROVE  [Contract!Next]_(Contract!vars)
<1> USE DEF Goto, requestVars, processVars, readerVars
<1>0. ConstantsAssumption
  BY ConstantsAssumption
<1>1. CASE UNCHANGED vars
  BY <1>1, QueueFrame, ReadersFrame DEF vars, Contract!vars
<1>2. ASSUME NEW r \in Requests, HandleLog(r) \/ ClearSubscriber(r)
      PROVE  UNCHANGED Contract!vars
  BY <1>2, QueueFrame, ReadersFrame DEF HandleLog, ClearSubscriber, Contract!vars
<1>3. ASSUME NEW r \in Requests, UnSubscribe(r) PROVE [Contract!Next]_(Contract!vars)
  <2>1. UNCHANGED <<QueueOf, ReadersOf, logger>>
    BY <1>3, QueueFrame, ReadersFrame DEF UnSubscribe
  <2>2. CASE old[r] \in listener
    <3>1. Contract!Close(old[r]) /\ old[r] \in Starts
      BY <1>3, <2>1, <2>2 DEF UnSubscribe, Contract!Close, Inv, Subscribed
    <3>2. QED BY <3>1 DEF Contract!Next
  <2>3. CASE old[r] \notin listener
    BY <1>3, <2>1, <2>3 DEF UnSubscribe, Contract!vars
  <2>4. QED BY <2>2, <2>3
<1>4. ASSUME NEW s \in Starts, Subscribe(s) PROVE Contract!Next
  <2>1. UNCHANGED <<QueueOf, ReadersOf, logger>>
    BY <1>4, QueueFrame, ReadersFrame DEF Subscribe
  <2>2. s \notin listener \cup closed
    BY <1>4 DEF Subscribe, Inv, Subscribed
  <2>3. Contract!Subscribe(s)
    BY <1>4, <2>1, <2>2 DEF Subscribe, Contract!Subscribe
  <2>4. QED BY <2>3 DEF Contract!Next
<1>5. ASSUME NEW s \in Starts, SpawnReader(s) PROVE UNCHANGED Contract!vars
  <2>1. reader[s] = "none" /\ reader' = [reader EXCEPT ![s] = "spawned"] /\ source' = source
    BY <1>5 DEF SpawnReader, KnownInv
  <2>2. ReadersOf' = ReadersOf
    BY <2>1 DEF ReadersOf, SerialInv
  <2>3. QED BY <1>5, <2>2, QueueFrame DEF SpawnReader, Contract!vars
<1>6. ASSUME NEW t \in Starts, RangeSubscriber(t) PROVE [Contract!Next]_(Contract!vars)
  <2> DEFINE s == logSubscriber
  <2>1. /\ reader[t] = "spawned" /\ QueueOf' = QueueOf /\ UNCHANGED <<listener, closed, logger>>
        /\ source' = [source EXCEPT ![t] = s]
        /\ reader' = [reader EXCEPT ![t] = IF s = Nil THEN "stuck" ELSE "ranging"]
    BY <1>6, QueueFrame DEF RangeSubscriber
  <2>2. \A u \in Starts : t \notin ReadersOf[u]
    BY <2>1 DEF ReadersOf
  <2>3. CASE s = Nil
    <3>1. ReadersOf' = ReadersOf
      BY <2>1, <2>3 DEF ReadersOf, SerialInv
    <3>2. QED BY <2>1, <3>1 DEF Contract!vars
  <2>4. CASE s # Nil
    <3>1. s \in listener \cup closed /\ s \in Starts
      BY <2>4 DEF KnownInv, Subscribed
    <3>2. ASSUME NEW u \in Starts
          PROVE  ReadersOf'[u] = IF u = s THEN ReadersOf[u] \cup {t} ELSE ReadersOf[u]
      BY <2>1, <2>4 DEF ReadersOf, SerialInv
    <3>3. ReadersOf' = [ReadersOf EXCEPT ![s] = @ \cup {t}]
      BY <3>1, <3>2 DEF ReadersOf
    <3>4. Contract!Join(t, s)
      BY <2>1, <2>2, <3>1, <3>3 DEF Contract!Join
    <3>5. QED BY <3>1, <3>4 DEF Contract!Next
  <2>5. QED BY <2>3, <2>4
<1>7. ASSUME NEW t \in Starts, ForwardEvent(t) PROVE [Contract!Next]_(Contract!vars)
  <2> DEFINE s == source[t]
  <2>1. /\ buffer[s] > 0 /\ buffer' = [buffer EXCEPT ![s] = buffer[s] - 1]
        /\ UNCHANGED <<todo, listener, closed, logger>> /\ ReadersOf' = ReadersOf
    BY <1>7, ReadersFrame DEF ForwardEvent
  <2>2. CASE s \in Starts
    <3>1. QueueOf[s] > 0 /\ QueueOf' = [QueueOf EXCEPT ![s] = @ - 1]
      BY <2>1, <2>2, <1>0 DEF QueueOf, BufferType, ConstantsAssumption
    <3>2. t \in ReadersOf[s]
      BY <1>7, <2>2 DEF ForwardEvent, ReadersOf
    <3>3. Contract!Forward(s)
      BY <2>1, <3>1, <3>2 DEF Contract!Forward
    <3>4. QED BY <2>2, <3>3 DEF Contract!Next
  <2>3. CASE s \notin Starts
    <3>1. buffer' = buffer
      BY <2>1, <2>3 DEF BufferType
    <3>2. QED BY <2>1, <3>1, QueueFrame DEF Contract!vars
  <2>4. QED BY <2>2, <2>3
<1>8. ASSUME NEW t \in Starts, EndOfStream(t) PROVE Contract!Next
  <2> DEFINE s == source[t]
  <2>1. /\ reader[t] = "ranging" /\ buffer[s] = 0 /\ s \in closed
        /\ reader' = [reader EXCEPT ![t] = "done"]
        /\ source' = source /\ QueueOf' = QueueOf /\ UNCHANGED <<listener, closed, logger>>
    BY <1>8, QueueFrame DEF EndOfStream
  <2>2. s \in Starts /\ s \notin todo
    BY <2>1 DEF Inv, Subscribed
  <2>3. t \in ReadersOf[s] /\ QueueOf[s] = 0
    BY <2>1, <2>2 DEF ReadersOf, QueueOf
  <2>4. ASSUME NEW u \in Starts
        PROVE  ReadersOf'[u] = IF u = s THEN ReadersOf[u] \ {t} ELSE ReadersOf[u]
    BY <2>1 DEF ReadersOf, SerialInv
  <2>5. ReadersOf' = [ReadersOf EXCEPT ![s] = @ \ {t}]
    BY <2>2, <2>4 DEF ReadersOf
  <2>6. Contract!Leave(t, s)
    BY <2>1, <2>3, <2>5 DEF Contract!Leave
  <2>7. QED BY <2>2, <2>6 DEF Contract!Next
<1>9. ASSUME NEW s \in Starts, Emit(s) PROVE UNCHANGED Contract!vars
  <2>1. QueueOf' = QueueOf /\ ReadersOf' = ReadersOf
    BY <1>9, ReadersFrame DEF Emit, QueueOf, BufferType
  <2>2. QED BY <1>9, <2>1 DEF Emit, Contract!vars
<1>10. ASSUME NEW l \in Loggers, Log(l) PROVE Contract!Next
  <2>1. Contract!Log(l)
    BY <1>10, QueueFrame, ReadersFrame DEF Log, Contract!Log
  <2>2. QED BY <2>1 DEF Contract!Next
<1>11. ASSUME NEW l \in Loggers, Process(l) PROVE Contract!Next
  <2>1. ~processing
    BY <1>11, Zenon DEF Process
  <2>2. \A s \in listener : s \in Starts /\ QueueOf[s] <= Capacity
    BY <2>1, <1>0, QueueIsBuffer
       DEF Inv, Subscribed, BufferType, ConstantsAssumption
  <2>3. todo' = listener /\ UNCHANGED <<buffer, listener, closed>> /\ ReadersOf' = ReadersOf
    BY <1>11, ReadersFrame DEF Process
  <2>4. QueueOf' = [s \in Starts |-> IF s \in listener THEN QueueOf[s] + 1 ELSE QueueOf[s]]
    BY <2>1, <2>3, QueueIsBuffer DEF QueueOf
  <2>5. Contract!Publish(l)
    BY <1>11, <2>2, <2>3, <2>4 DEF Process, Contract!Publish
  <2>6. QED BY <2>5 DEF Contract!Next
<1>12. CASE Processed
  BY <1>12, QueueFrame, ReadersFrame DEF Processed, Contract!vars
<1>13. QED
  BY <1>1, <1>2, <1>3, <1>4, <1>5, <1>6, <1>7, <1>8, <1>9, <1>10, <1>11, <1>12
     DEF Next, RequestStep, ReaderStep

\* The log stream keeps its contract, for any number of requests and loggers,
\* however they overlap, and any size of the channels: each event reaches once
\* every subscription that was open when process took it, and no other
\* (observable.go, process), and leaves it only through a goroutine that reads it
\* until it is closed and empty (hub.go, handleStartLog).
THEOREM Refinement == Spec => KeepsContract
<1>1. Init => Contract!Init
  <2> SUFFICES ASSUME Init PROVE Contract!Init
    OBVIOUS
  <2>1. QueueOf = [s \in Starts |-> 0]
    BY DEF Init, QueueOf
  <2>2. ReadersOf = [s \in Starts |-> {}]
    BY DEF Init, ReadersOf
  <2>3. QED BY <2>1, <2>2 DEF Init, Contract!Init
<1>2. Init => Inv /\ SerialInv /\ KnownInv
  BY DEF Init, Inv, SerialInv, KnownInv, Subscribed, Active, Requests
<1>3. QED
  BY <1>1, <1>2, InitBuffer, InvKept, SerialKept, BufferKept, KnownKept, ContractStep, PTL
     DEF Spec, KeepsContract, Contract!Spec

-----------------------------------------------------------------------------
(* Nobody stands in the way of everybody.                                    *)

\* The next event of a subscription, or its end, can be read, or the goroutine
\* that will read it has still to look it up or to be spawned.
CanBeRead(s) ==
    \/ pc[s] = "assign"
    \/ \E t \in Starts : \/ reader[t] = "spawned" /\ logSubscriber = s
                         \/ reader[t] = "ranging" /\ source[t] = s

\* While process holds the mutex it can go on, or whoever it waits for can.
ProcessGoesOn ==
    serial /\ processing =>
        \/ todo = {}
        \/ \E s \in todo : buffer[s] < Capacity \/ CanBeRead(s)

\* With one request at a time the mutex of the observable is never held by a
\* process that nobody will free: the buffer it waits for, of whatever size, has
\* a reader (observable.go, process; hub.go, handleStartLog).
THEOREM NoStandstill == Spec => []ProcessGoesOn
<1>1. Inv /\ SubscriberIsRead => ProcessGoesOn
  <2> SUFFICES ASSUME Inv, SubscriberIsRead, serial, NEW s \in todo PROVE CanBeRead(s)
    BY DEF ProcessGoesOn
  <2>1. QED BY DEF SubscriberIsRead, CanBeRead, Inv
<1>2. Init => Inv
  BY DEF Init, Inv, Requests
<1>3. QED BY <1>1, <1>2, InvKept, EverySubscriberRead, PTL DEF Spec
=============================================================================
