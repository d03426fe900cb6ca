--------------------------- MODULE CoreRpcProofs ----------------------------
(***************************************************************************)
(* For any number of requests and engines and any two durations: CoreRpc   *)
(* implements RpcContract, an answer in time reaches its caller, a message *)
(* that is in an isolate is in the one that lives (EngineInv), whose port  *)
(* the application has or gets.                                            *)
(*                                                                         *)
(* Why: how far its message has come tells whether a request has been      *)
(* carried out (Inv), and no message goes back to where it has been; the   *)
(* time-out of a request is due before the removal, which therefore waits  *)
(* for it as long as it is not cancelled (TimerInv).                       *)
(***************************************************************************)
EXTENDS CoreRpc, TLAPS

Before == {"none", "queued", "sent", "running"}
After  == {"answering", "coming"}

Inv ==
    /\ out \in [Requests -> {"none", "pending", "answer", "default"}]
    /\ message \in [Requests -> Before \cup After \cup {"over"}]
    /\ runs \in [Requests -> {0, 1}]
    /\ \A r \in Requests : /\ message[r] \in Before => runs[r] = 0
                           /\ message[r] \in After => runs[r] = 1
                           /\ message[r] \notin {"none", "over"} => out[r] # "none"
                           /\ out[r] = "none" => message[r] = "none"

-----------------------------------------------------------------------------

\* A step that leaves the caller and the core alone, and moves messages on
\* without making one appear: a message keeps its side of the run or is over.
LEMMA MessagesMove ==
    ASSUME Inv, UNCHANGED <<out, runs>>,
           message' \in [Requests -> Before \cup After \cup {"over"}],
           \A r \in Requests : \/ message'[r] = message[r]
                               \/ message[r] # "none" /\ message'[r] = "over"
                               \/ /\ message[r] \in Before \ {"none"}
                                  /\ message'[r] \in Before \ {"none"}
                               \/ message[r] \in After /\ message'[r] \in After
    PROVE  Inv'
BY DEF Inv, Before, After

\* A caller waits as long as its time-out is armed; then the removal is armed
\* too, and until it fires the completer is in the map.
TimerInv ==
    /\ timers \in [Requests -> SUBSET {"timeOut", "remove"}]
    /\ \A r \in Requests : /\ "timeOut" \in timers[r] <=> out[r] = "pending"
                           /\ "timeOut" \in timers[r] => "remove" \in timers[r]
                           /\ "remove" \in timers[r] => r \in completers

\* The time-out of a request is due before its removal.
LEMMA RemovalIsLast ==
    ASSUME NEW r \in Requests, Fires(r, "remove")
    PROVE  "timeOut" \notin timers[r]
BY ConstantsAssumption DEF Fires, Due

\* Every step keeps it: the removal fires when nobody waits.
LEMMA TimerKept ==
    ASSUME Inv, TimerInv, [Next]_vars
    PROVE  TimerInv'
<1>1. CASE UNCHANGED callerVars
  BY <1>1 DEF TimerInv, callerVars
<1>2. ASSUME NEW r \in Requests, Invoke(r) PROVE TimerInv'
  BY <1>2 DEF Invoke, TimerInv, Due, Inv
<1>3. ASSUME NEW r \in Requests, HandleResult(r) PROVE TimerInv'
  BY <1>3 DEF HandleResult, Disarm, TimerInv, Inv
<1>4. ASSUME NEW r \in Requests, TimeOut(r) PROVE TimerInv'
  BY <1>4 DEF TimeOut, Disarm, TimerInv, Inv
<1>5. ASSUME NEW r \in Requests, Remove(r) PROVE TimerInv'
  BY <1>5, RemovalIsLast DEF Remove, Disarm, TimerInv
<1>6. \/ UNCHANGED callerVars
      \/ \E r \in Requests : Invoke(r) \/ HandleResult(r) \/ TimeOut(r) \/ Remove(r)
  BY Zenon
     DEF Next, Way, vars, requestVars, PortArrives, CreateEngine, DestroyEngine,
         InvokeAction, HandleAction, Forward
<1>7. QED BY <1>1, <1>2, <1>3, <1>4, <1>5, <1>6

\* The invariant is kept, and every step is one of the contract's or none.
LEMMA StepKeeps ==
    ASSUME Inv, TimerInv, [Next]_vars
    PROVE  Inv' /\ [Contract!Next]_(Contract!vars)
<1> USE DEF Before, After, callerVars
<1>0. ASSUME UNCHANGED <<out, runs>> PROVE [Contract!Next]_(Contract!vars)
  BY <1>0 DEF Contract!vars
<1>1. CASE UNCHANGED vars
  <2>1. UNCHANGED <<out, runs, message>>
    BY <1>1 DEF vars, requestVars
  <2>2. QED BY <1>0, <2>1 DEF Inv
<1>2. ASSUME NEW r \in Requests, Invoke(r) PROVE Inv' /\ Contract!Next
  <2>1. /\ out[r] = "none" /\ out' = [out EXCEPT ![r] = "pending"]
        /\ runs' = runs
    BY <1>2 DEF Invoke
  <2>2. PICK place \in {"queued", "sent", "over"} : message' = [message EXCEPT ![r] = place]
    BY <1>2 DEF Invoke, Reaches
  <2>3. Inv'
    BY <2>1, <2>2 DEF Inv
  <2>4. Contract!Next
    BY <2>1 DEF Contract!Next, Contract!Invoke
  <2>5. QED BY <2>3, <2>4
<1>3. CASE PortArrives
  <2>1. /\ UNCHANGED <<out, runs>>
        /\ message' = [r \in Requests |->
                          IF message[r] = "queued" THEN Reaches(Head(ports)) ELSE message[r]]
    BY <1>3 DEF PortArrives
  <2>2. Reaches(Head(ports)) \in {"sent", "over"}
    BY DEF Reaches
  <2>3. message' \in [Requests -> Before \cup After \cup {"over"}]
    BY <2>1, <2>2 DEF Inv
  <2>4. \A r \in Requests : \/ message'[r] = message[r]
                            \/ message[r] = "queued" /\ message'[r] \in {"sent", "over"}
    BY <2>1, <2>2 DEF Inv
  <2>5. Inv'
    BY <2>1, <2>3, <2>4, MessagesMove
  <2>6. QED BY <1>0, <2>1, <2>5
<1>4. ASSUME NEW r \in Requests, HandleResult(r)
      PROVE  Inv' /\ [Contract!Next]_(Contract!vars)
  <2>1. /\ message[r] = "coming" /\ message' = [message EXCEPT ![r] = "over"]
        /\ runs' = runs /\ runs[r] = 1
    BY <1>4 DEF HandleResult, Inv
  <2>2. CASE out' = out
    BY <1>0, <2>1, <2>2 DEF Inv
  <2>3. CASE out' # out
    <3>1. out[r] = "pending" /\ out' = [out EXCEPT ![r] = "answer"]
      BY <1>4, <2>3 DEF HandleResult, TimerInv
    <3>2. Inv'
      BY <2>1, <3>1 DEF Inv
    <3>3. Contract!Next
      BY <2>1, <3>1 DEF Contract!Next, Contract!Answer
    <3>4. QED BY <3>2, <3>3
  <2>4. QED BY <2>2, <2>3
<1>5. ASSUME NEW r \in Requests, TimeOut(r) PROVE Inv' /\ Contract!Next
  <2>1. /\ out[r] = "pending" /\ out' = [out EXCEPT ![r] = "default"]
        /\ UNCHANGED <<message, runs>>
    BY <1>5 DEF TimeOut, Fires, TimerInv
  <2>2. QED BY <2>1 DEF Inv, Contract!Next, Contract!Default
<1>6. ASSUME NEW r \in Requests, Remove(r)
      PROVE  Inv' /\ [Contract!Next]_(Contract!vars)
  <2>1. UNCHANGED <<out, runs, message>>
    BY <1>6 DEF Remove
  <2>2. QED BY <1>0, <2>1 DEF Inv
<1>7. CASE CreateEngine
  <2>1. UNCHANGED <<out, runs, message>>
    BY <1>7 DEF CreateEngine, requestVars
  <2>2. QED BY <1>0, <2>1 DEF Inv
<1>8. CASE DestroyEngine
  <2>1. /\ UNCHANGED <<out, runs>>
        /\ message' = [r \in Requests |-> IF Sent(r) \/ message[r] = "answering"
                                          THEN "over" ELSE message[r]]
    BY <1>8 DEF DestroyEngine
  <2>2. message' \in [Requests -> Before \cup After \cup {"over"}]
    BY <2>1 DEF Inv
  <2>3. \A r \in Requests : \/ message'[r] = message[r]
                            \/ message[r] # "none" /\ message'[r] = "over"
    BY <2>1 DEF Inv, Sent
  <2>4. QED BY <1>0, <2>1, <2>2, <2>3, MessagesMove
<1>9. ASSUME NEW r \in Requests, InvokeAction(r)
      PROVE  Inv' /\ [Contract!Next]_(Contract!vars)
  <2>1. /\ UNCHANGED <<out, runs>>
        /\ message[r] = "sent" /\ message' = [message EXCEPT ![r] = "running"]
    BY <1>9 DEF InvokeAction, Sent
  <2>2. QED BY <1>0, <2>1 DEF Inv
<1>10. ASSUME NEW r \in Requests, HandleAction(r) PROVE Inv' /\ Contract!Next
  <2>1. /\ message[r] = "running" /\ runs[r] = 0 /\ out[r] # "none" /\ out' = out
        /\ runs' = [runs EXCEPT ![r] = runs[r] + 1]
    BY <1>10 DEF HandleAction, Inv
  <2>2. PICK place \in {"answering", "over"} : message' = [message EXCEPT ![r] = place]
    BY <1>10 DEF HandleAction
  <2>3. runs' = [runs EXCEPT ![r] = 1]
    BY <1>2, <2>1
  <2>4. Inv'
    BY <2>1, <2>2, <2>3 DEF Inv
  <2>5. Contract!Next
    BY <2>1, <2>3 DEF Contract!Next, Contract!Run
  <2>6. QED BY <2>4, <2>5
<1>11. ASSUME NEW r \in Requests, Forward(r)
       PROVE  Inv' /\ [Contract!Next]_(Contract!vars)
  <2>1. /\ UNCHANGED <<out, runs>>
        /\ message[r] = "answering" /\ message' = [message EXCEPT ![r] = "coming"]
    BY <1>11 DEF Forward
  <2>2. QED BY <1>0, <2>1 DEF Inv
<1>12. QED
  BY <1>1, <1>2, <1>3, <1>4, <1>5, <1>6, <1>7, <1>8, <1>9, <1>10, <1>11 DEF Next, Way

\* A request is carried out once at most and returns its own answer or a
\* default: every behaviour of CoreRpc is one of RpcContract.
THEOREM ImplementsContract == Spec => KeepsContract
<1>1. Init => Inv /\ TimerInv /\ Contract!Init
  BY DEF Init, Inv, Before, After, TimerInv, Contract!Init
<1>2. Inv /\ TimerInv /\ [Next]_vars => Inv' /\ TimerInv' /\ [Contract!Next]_(Contract!vars)
  BY StepKeeps, TimerKept
<1>3. QED BY <1>1, <1>2, PTL DEF Spec, KeepsContract, Contract!Spec

-----------------------------------------------------------------------------

\* An answer that comes while its caller waits reaches it, for any time-out and
\* any common duration above zero (future.dart:13-18).
THEOREM AnswerReachesCaller == Spec => AnswerInTimeCounts
<1>1. Init => Inv /\ TimerInv
  BY DEF Init, Inv, Before, After, TimerInv
<1>2. Inv /\ TimerInv /\ [Next]_vars => Inv' /\ TimerInv'
  BY StepKeeps, TimerKept
<1>3. ASSUME Inv, TimerInv, [Next]_vars, NEW r \in Requests,
             message[r] = "coming", message'[r] = "over", out[r] = "pending"
      PROVE  out'[r] = "answer"
  <2>1. CASE HandleResult(r)
    BY <1>3, <2>1 DEF HandleResult, TimerInv, Inv
  <2>2. ASSUME NEW d \in Requests, Invoke(d) \/ Way(d) \/ TimeOut(d) \/ Remove(d)
        PROVE  HandleResult(r)
    <3>1. CASE TimeOut(d) \/ Remove(d)
      BY <1>3, <3>1 DEF TimeOut, Remove
    <3>2. CASE Invoke(d)
      BY <1>3, <3>2 DEF Invoke, Inv
    <3>3. CASE InvokeAction(d) \/ HandleAction(d) \/ Forward(d)
      BY <1>3, <3>3 DEF InvokeAction, HandleAction, Forward, Sent, Inv
    <3>4. CASE HandleResult(d)
      BY <1>3, <3>4 DEF HandleResult, Inv
    <3>5. QED BY <2>2, <3>1, <3>2, <3>3, <3>4 DEF Way
  <2>3. ~PortArrives /\ ~CreateEngine /\ ~DestroyEngine /\ ~UNCHANGED vars
    BY <1>3 DEF PortArrives, CreateEngine, DestroyEngine, Sent, vars, requestVars
  <2>4. QED BY <1>3, <2>1, <2>2, <2>3 DEF Next
<1>4. Inv /\ TimerInv /\ [Next]_vars =>
         [\A r \in Requests :
             message[r] = "coming" /\ message'[r] = "over" /\ out[r] = "pending"
                 => out'[r] = "answer"]_vars
  BY <1>3
<1>5. QED BY <1>1, <1>2, <1>4, PTL DEF Spec, AnswerInTimeCounts

-----------------------------------------------------------------------------
(* Types.                                                                    *)

\* What Inv leaves of the types; who waits for an engine has been sent to the
\* one that lives.
EngineInv ==
    /\ completers \subseteq Requests
    /\ via \in [Requests -> 0..MaxEngines]
    /\ sendPort \in 0..MaxEngines /\ engine \in 0..MaxEngines /\ created \in 0..MaxEngines
    /\ ports \in Seq(Engines)
    /\ \A r \in Requests : Sent(r) \/ message[r] = "answering" => via[r] = engine /\ engine # 0
    /\ \A r \in Requests : message[r] = "running" => via[r] # 0

\* A step that leaves the engines alone and sends nothing.
LEMMA EngineFrame ==
    ASSUME EngineInv, UNCHANGED <<via, engineVars>>, completers' \subseteq Requests,
           \A r \in Requests : message'[r] \in {"sent", "answering"} =>
               \/ message[r] \in {"sent", "answering"}
               \/ via[r] = engine /\ engine # 0,
           \A r \in Requests : message'[r] = "running" => via[r] # 0
    PROVE  EngineInv'
BY DEF EngineInv, engineVars, Sent

LEMMA EngineKept == Inv /\ EngineInv /\ [Next]_vars => EngineInv'
<1> SUFFICES ASSUME Inv, EngineInv, [Next]_vars PROVE EngineInv'
  OBVIOUS
<1> USE DEF callerVars
<1>0. MaxEngines \in Nat
  BY ConstantsAssumption
<1>1. CASE UNCHANGED vars
  BY <1>1, EngineFrame DEF vars, requestVars, EngineInv
<1>2. ASSUME NEW r \in Requests, Invoke(r) PROVE EngineInv'
  <2>1. /\ UNCHANGED engineVars
        /\ completers' \subseteq Requests
        /\ via' = [via EXCEPT ![r] = sendPort]
        /\ message[r] = "none"
    BY <1>2 DEF Invoke, EngineInv, Inv
  <2>2. \A place : /\ message' = [message EXCEPT ![r] = place]
                   /\ place \in {"queued", "sent", "over"}
                   /\ place = "sent" => sendPort = engine /\ engine # 0
                   => EngineInv'
    BY <2>1 DEF EngineInv, Inv, Sent, engineVars
  <2>3. CASE sendPort = 0
    BY <1>2, <2>2, <2>3 DEF Invoke
  <2>4. CASE sendPort # 0
    BY <1>2, <2>2, <2>4 DEF Invoke, Reaches
  <2>5. QED BY <2>3, <2>4
<1>3. CASE PortArrives
  <2>1. /\ Head(ports) \in Engines /\ Tail(ports) \in Seq(Engines)
        /\ UNCHANGED <<completers, engine, created>>
        /\ sendPort' = Head(ports) /\ ports' = Tail(ports)
    BY <1>3 DEF PortArrives, EngineInv
  <2>2. \A r \in Requests :
           /\ message'[r] = IF message[r] = "queued" THEN Reaches(Head(ports)) ELSE message[r]
           /\ via'[r] = IF message[r] = "queued" THEN Head(ports) ELSE via[r]
    BY <1>3 DEF PortArrives
  <2>3. via' \in [Requests -> 0..MaxEngines]
    BY <1>0, <1>3, <2>1 DEF PortArrives, EngineInv, Engines
  <2>4. \A r \in Requests : Sent(r)' \/ message'[r] = "answering" =>
                               via'[r] = engine' /\ engine' # 0
    BY <2>1, <2>2 DEF EngineInv, Sent, Reaches
  <2>5. \A r \in Requests : message'[r] = "running" => via'[r] # 0
    BY <2>2 DEF EngineInv, Reaches
  <2>6. QED BY <1>0, <2>1, <2>3, <2>4, <2>5 DEF EngineInv, Engines
<1>4. CASE CreateEngine
  <2>1. /\ engine = 0 /\ created + 1 \in Engines
        /\ engine' = created + 1 /\ created' = created + 1
        /\ ports' = Append(ports, created + 1)
        /\ UNCHANGED <<completers, message, via, sendPort>>
    BY <1>0, <1>4 DEF CreateEngine, EngineInv, Engines, requestVars
  <2>2. ports' \in Seq(Engines)
    BY <2>1 DEF EngineInv
  <2>3. \A r \in Requests : ~Sent(r) /\ message[r] # "answering"
    BY <2>1 DEF EngineInv
  <2>4. QED BY <1>0, <2>1, <2>2, <2>3 DEF EngineInv, Engines, Sent
<1>5. CASE DestroyEngine
  <2>1. /\ engine' = 0
        /\ message' = [r \in Requests |-> IF Sent(r) \/ message[r] = "answering"
                                          THEN "over" ELSE message[r]]
        /\ UNCHANGED <<completers, via, sendPort, ports, created>>
    BY <1>5 DEF DestroyEngine
  <2>2. \A r \in Requests : message'[r] \notin {"sent", "answering"}
    BY <2>1 DEF Sent
  <2>3. QED BY <1>0, <2>1, <2>2 DEF EngineInv, Sent
<1>6. ASSUME NEW r \in Requests, Way(r) PROVE EngineInv'
  <2>1. UNCHANGED <<completers, via, engineVars>>
    BY <1>6 DEF Way, InvokeAction, HandleAction, Forward, HandleResult
  <2>2. completers' \subseteq Requests
    BY <2>1 DEF EngineInv
  <2>3. \A d \in Requests :
           /\ message'[d] \in {"sent", "answering"} =>
                 \/ message[d] \in {"sent", "answering"}
                 \/ via[d] = engine /\ engine # 0
           /\ message'[d] = "running" => via[d] # 0
    <3>1. CASE HandleAction(r)
      BY <3>1 DEF EngineInv, Inv, HandleAction
    <3>2. CASE InvokeAction(r)
      BY <3>2 DEF EngineInv, Inv, InvokeAction
    <3>3. CASE Forward(r) \/ HandleResult(r)
      BY <3>3 DEF EngineInv, Inv, Forward, HandleResult
    <3>4. QED BY <1>6, <3>1, <3>2, <3>3 DEF Way
  <2>4. QED BY <2>1, <2>2, <2>3, EngineFrame
<1>7. ASSUME NEW r \in Requests, TimeOut(r) \/ Remove(r) PROVE EngineInv'
  BY <1>7, EngineFrame DEF TimeOut, Remove, EngineInv
<1>8. QED
  BY <1>1, <1>2, <1>3, <1>4, <1>5, <1>6, <1>7 DEF Next

\* Every variable always has its type, and a message that waits in an isolate
\* waits in the one that lives.
THEOREM TypeCorrect == Spec => []TypeOK
<1>1. Init => Inv /\ TimerInv /\ EngineInv
  BY ConstantsAssumption DEF Init, Inv, Before, After, TimerInv, EngineInv, Engines, Sent
<1>2. Inv /\ TimerInv /\ [Next]_vars => Inv' /\ TimerInv'
  BY StepKeeps, TimerKept
<1>3. Inv /\ TimerInv /\ EngineInv => TypeOK
  <2>1. DOMAIN Due = {"timeOut", "remove"}
    BY DEF Due
  <2>2. QED BY <2>1 DEF Inv, TimerInv, EngineInv, TypeOK, Before, After
<1>4. QED BY <1>1, <1>2, <1>3, EngineKept, PTL DEF Spec

-----------------------------------------------------------------------------
(* The ports.                                                                *)

\* The ports come in the order of their engines, the last one's last; requests
\* wait only until the first one has come.
PortInv ==
    /\ ports \in Seq(Engines) /\ {sendPort, created} \subseteq Nat
    /\ sendPort + Len(ports) = created
    /\ \A i \in 1..Len(ports) : ports[i] = sendPort + i
    /\ engine \in {0, created}
    /\ \A r \in Requests : message[r] = "queued" => sendPort = 0

\* The port that has come is the next one.
LEMMA NextPort ==
    ASSUME PortInv, ports # <<>>
    PROVE  /\ Head(ports) = sendPort + 1
           /\ Tail(ports) \in Seq(Engines) /\ Len(Tail(ports)) = Len(ports) - 1
           /\ \A i \in 1..Len(Tail(ports)) : Tail(ports)[i] = sendPort + 1 + i
<1>1. Len(ports) \in Nat \ {0} /\ Head(ports) = ports[1]
  BY DEF PortInv
<1>2. /\ Tail(ports) \in Seq(Engines) /\ Len(Tail(ports)) = Len(ports) - 1
      /\ \A i \in 1..Len(Tail(ports)) : Tail(ports)[i] = ports[i + 1]
  BY <1>1 DEF PortInv
<1>3. ASSUME NEW i \in 1..Len(Tail(ports)) PROVE Tail(ports)[i] = sendPort + 1 + i
  <2>1. i + 1 \in 1..Len(ports)
    BY <1>1, <1>2
  <2>2. QED BY <1>2, <2>1 DEF PortInv
<1>4. QED BY <1>1, <1>2, <1>3 DEF PortInv

\* Ports are added at one end and taken from the other, and none is made up.
LEMMA PortKept ==
    ASSUME Inv, EngineInv, PortInv, [Next]_vars
    PROVE  PortInv'
<1> USE DEF callerVars
<1>1. ASSUME UNCHANGED engineVars,
             \A r \in Requests : message'[r] = "queued" => message[r] = "queued" \/ sendPort = 0
      PROVE  PortInv'
  BY <1>1 DEF PortInv, engineVars
<1>2. CASE UNCHANGED vars
  BY <1>1, <1>2 DEF vars, requestVars
<1>3. ASSUME NEW r \in Requests, Invoke(r) PROVE PortInv'
  <2>1. UNCHANGED engineVars
    BY <1>3 DEF Invoke
  <2>2. CASE sendPort = 0
    BY <1>1, <2>1, <2>2
  <2>3. CASE sendPort # 0
    <3>1. message' = [message EXCEPT ![r] = Reaches(sendPort)]
      BY <1>3, <2>3 DEF Invoke
    <3>2. Reaches(sendPort) # "queued"
      BY DEF Reaches
    <3>3. QED BY <1>1, <2>1, <3>1, <3>2 DEF Inv
  <2>4. QED BY <2>2, <2>3
<1>4. ASSUME NEW r \in Requests, Way(r) \/ TimeOut(r) \/ Remove(r) PROVE PortInv'
  <2>1. UNCHANGED engineVars
        /\ \/ message' = message
           \/ \E place : message' = [message EXCEPT ![r] = place] /\ place # "queued"
    BY <1>4
       DEF Way, InvokeAction, HandleAction, Forward, HandleResult, TimeOut, Remove
  <2>2. QED BY <1>1, <2>1 DEF Inv
<1>5. CASE PortArrives
  <2>1. /\ ports # <<>> /\ sendPort' = Head(ports) /\ ports' = Tail(ports)
        /\ UNCHANGED <<engine, created>>
        /\ message' = [r \in Requests |->
                          IF message[r] = "queued" THEN Reaches(Head(ports)) ELSE message[r]]
    BY <1>5 DEF PortArrives
  <2>2. \A r \in Requests : message'[r] # "queued"
    BY <2>1 DEF Reaches
  <2>3. Len(ports) \in Nat
    BY DEF PortInv
  <2>4. QED BY <2>1, <2>2, <2>3, NextPort DEF PortInv
<1>6. CASE CreateEngine
  <2>1. /\ created' = created + 1 /\ engine' = created'
        /\ ports' = Append(ports, created') /\ UNCHANGED <<message, sendPort>>
        /\ created' \in Engines
    BY <1>6, ConstantsAssumption DEF CreateEngine, EngineInv, PortInv, Engines, requestVars
  <2>2. /\ ports' \in Seq(Engines) /\ Len(ports') = Len(ports) + 1
        /\ \A i \in 1..Len(ports) : ports'[i] = ports[i]
        /\ ports'[Len(ports) + 1] = created' /\ Len(ports) \in Nat
    BY <2>1 DEF PortInv
  <2>3. \A i \in 1..Len(ports') : ports'[i] = sendPort + i
    BY <2>1, <2>2 DEF PortInv
  <2>4. QED BY <2>1, <2>2, <2>3 DEF PortInv
<1>7. CASE DestroyEngine
  <2>1. engine' = 0 /\ UNCHANGED <<ports, sendPort, created>>
    BY <1>7 DEF DestroyEngine
  <2>2. \A r \in Requests : message'[r] = "queued" => message[r] = "queued"
    BY <1>7 DEF DestroyEngine
  <2>3. QED BY <2>1, <2>2 DEF PortInv
<1>8. QED
  BY <1>2, <1>3, <1>4, <1>5, <1>6, <1>7 DEF Next

\* The application has the port of the engine that lives, or it is the last one
\* on its way, whatever engines came and went (lib.dart:40-46); and a request
\* waits for a port only until the first one has come.
THEOREM EngineIsFound ==
    Spec => [](/\ engine # 0 =>
                     sendPort = engine \/ (ports # <<>> /\ ports[Len(ports)] = engine)
               /\ \A r \in Requests : message[r] = "queued" => sendPort = 0)
<1>1. Init => Inv /\ TimerInv /\ EngineInv /\ PortInv
  BY ConstantsAssumption
     DEF Init, Inv, Before, After, TimerInv, EngineInv, PortInv, Engines, Sent
<1>2. Inv /\ TimerInv /\ [Next]_vars => Inv' /\ TimerInv'
  BY StepKeeps, TimerKept
<1>3. Inv /\ EngineInv /\ PortInv /\ [Next]_vars => PortInv'
  BY PortKept
<1>4. ASSUME PortInv, engine # 0
      PROVE  sendPort = engine \/ (ports # <<>> /\ ports[Len(ports)] = engine)
  <2>1. Len(ports) \in Nat /\ (ports = <<>> => Len(ports) = 0) /\ engine = created
    BY <1>4 DEF PortInv
  <2>2. CASE Len(ports) = 0
    BY <1>4, <2>1, <2>2 DEF PortInv
  <2>3. CASE Len(ports) # 0
    BY <1>4, <2>1, <2>3 DEF PortInv
  <2>4. QED BY <2>2, <2>3
<1>5. PortInv => \A r \in Requests : message[r] = "queued" => sendPort = 0
  BY DEF PortInv
<1>6. QED BY <1>1, <1>2, <1>3, <1>4, <1>5, EngineKept, PTL DEF Spec
=============================================================================
