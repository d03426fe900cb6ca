------------------------------ MODULE CoreRpc --------------------------------
(***************************************************************************)
(* Requests to the core on Android: invoke and handleResult                *)
(* (lib/clash/interface.dart), the timers of safeFuture                    *)
(* (lib/common/future.dart), the port to the service engine's isolate      *)
(* (lib/clash/lib.dart), and that isolate, which hands every request to a  *)
(* goroutine of the core (lib/main.dart, core/lib.go).                     *)
(*                                                                         *)
(* The service engine may be destroyed and created anew at any time; what  *)
(* its isolate has not passed on is lost, what a goroutine does is not.    *)
(*                                                                         *)
(* Abstractions: identifiers are unique (a timestamp and eight random      *)
(* letters); a port keeps the order of one sender; every method answers;   *)
(* of time there is only which of the timers of a request is due first.    *)
(***************************************************************************)
EXTENDS Naturals, Sequences

CONSTANTS
    Requests,
    RealTimeout, CommonDuration,   \* of the timers, in any unit
    MaxEngines   \* how many service engines there are (a bound)

ASSUME ConstantsAssumption ==
    /\ MaxEngines \in Nat
    /\ RealTimeout \in Nat /\ CommonDuration \in Nat \ {0}

\* 0 stands for no engine.
Engines == 1..MaxEngines

VARIABLES
    out,         \* what the caller has: none, pending, answer, default
    completers,  \* the requests in callbackCompleterMap
    timers,      \* the timers of each request that have not fired
    message,     \* each request on its way: none, queued (no port yet), sent,
                 \* running, answering, coming, over
    via,         \* the engine it was sent to
    runs,        \* how often the core has carried the request out
    sendPort,    \* the engine whose port the application has
    ports,       \* the ports on their way to the application
    engine,      \* the engine that lives
    created      \* how many engines have been created

callerVars  == <<out, completers, timers>>
requestVars == <<callerVars, message, via, runs>>
engineVars  == <<sendPort, ports, engine, created>>
vars == <<requestVars, engineVars>>

Init ==
    /\ out = [r \in Requests |-> "none"]
    /\ completers = {}
    /\ timers = [r \in Requests |-> {}]
    /\ message = [r \in Requests |-> "none"]
    /\ via = [r \in Requests |-> 0]
    /\ runs = [r \in Requests |-> 0]
    /\ sendPort = 0 /\ ports = <<>>
    /\ engine = 0 /\ created = 0

-----------------------------------------------------------------------------
(* The application.                                                          *)

Sent(r) == message[r] = "sent"

\* A dead isolate takes no message.
Reaches(e) == IF e = engine /\ e # 0 THEN "sent" ELSE "over"

\* Mutant: the completer is removed when the time is over.
DueTogether == [timeOut |-> RealTimeout, remove |-> RealTimeout]

\* When a timer is due, from the call of safeFuture.
Due == [timeOut |-> RealTimeout, remove |-> RealTimeout + CommonDuration]

\* Timers fire in the order in which they are due.
Fires(r, t) == t \in timers[r] /\ \A u \in timers[r] : Due[t] <= Due[u]

Disarm(r, t) == timers' = [timers EXCEPT ![r] = @ \ {t}]

\* sendMessage waits until there is a port; safeFuture arms both timers.
Invoke(r) ==
    /\ out[r] = "none" /\ out' = [out EXCEPT ![r] = "pending"]
    /\ completers' = completers \cup {r}
    /\ timers' = [timers EXCEPT ![r] = DOMAIN Due]
    /\ message' = [message EXCEPT ![r] = IF sendPort = 0 THEN "queued" ELSE Reaches(sendPort)]
    /\ via' = [via EXCEPT ![r] = sendPort]
    /\ UNCHANGED <<runs, engineVars>>

\* Mutant: what was sent to the old engine is sent again.
PortArrivesResending ==
    /\ ports # <<>>
    /\ sendPort' = Head(ports) /\ ports' = Tail(ports)
    /\ message' = [r \in Requests |->
                      IF message[r] = "queued" \/ out[r] = "pending"
                      THEN Reaches(Head(ports)) ELSE message[r]]
    /\ via' = [r \in Requests |->
                  IF message[r] = "queued" \/ out[r] = "pending" THEN Head(ports) ELSE via[r]]
    /\ UNCHANGED <<callerVars, runs, engine, created>>

\* Mutant: only the first port is taken.
PortArrivesOnce ==
    /\ ports # <<>>
    /\ sendPort' = IF sendPort = 0 THEN Head(ports) ELSE sendPort
    /\ ports' = Tail(ports)
    /\ message' = [r \in Requests |->
                      IF message[r] = "queued" THEN Reaches(Head(ports)) ELSE message[r]]
    /\ via' = [r \in Requests |-> IF message[r] = "queued" THEN Head(ports) ELSE via[r]]
    /\ UNCHANGED <<callerVars, runs, engine, created>>

\* A port arrives (listen, in _initService): it replaces the last one, and who
\* has waited for it sends.
PortArrives ==
    /\ ports # <<>>
    /\ sendPort' = Head(ports) /\ ports' = Tail(ports)
    /\ message' = [r \in Requests |->
                      IF message[r] = "queued" THEN Reaches(Head(ports)) ELSE message[r]]
    /\ via' = [r \in Requests |-> IF message[r] = "queued" THEN Head(ports) ELSE via[r]]
    /\ UNCHANGED <<callerVars, runs, engine, created>>

\* handleResult completes the completer there is.  If the time is not over the
\* caller gets the answer and the time-out is cancelled; late answers fall on a
\* completer nobody waits for, or on none.
HandleResult(r) ==
    /\ message[r] = "coming" /\ message' = [message EXCEPT ![r] = "over"]
    /\ IF r \in completers /\ "timeOut" \in timers[r]
       THEN out' = [out EXCEPT ![r] = "answer"] /\ Disarm(r, "timeOut")
       ELSE UNCHANGED <<out, timers>>
    /\ UNCHANGED <<completers, via, runs, engineVars>>

\* Mutant: the time runs from the moment the request is sent.
TimeOutOfSent(r) ==
    /\ Fires(r, "timeOut") /\ message[r] # "queued"
    /\ Disarm(r, "timeOut")
    /\ out' = [out EXCEPT ![r] = "default"]
    /\ UNCHANGED <<completers, message, via, runs, engineVars>>

\* The time is over.
TimeOut(r) ==
    /\ Fires(r, "timeOut") /\ Disarm(r, "timeOut")
    /\ out' = [out EXCEPT ![r] = "default"]
    /\ UNCHANGED <<completers, message, via, runs, engineVars>>

\* The second timer removes the completer (onLast).
Remove(r) ==
    /\ Fires(r, "remove") /\ Disarm(r, "remove")
    /\ completers' = completers \ {r}
    /\ UNCHANGED <<out, message, via, runs, engineVars>>

-----------------------------------------------------------------------------
(* The service engine and the core.                                          *)

\* The new isolate sends its port (_handleMainIpc).
CreateEngine ==
    /\ engine = 0 /\ created < MaxEngines
    /\ created' = created + 1
    /\ engine' = created' /\ ports' = Append(ports, created')
    /\ UNCHANGED <<requestVars, sendPort>>

\* The isolate ends with the requests it has not handed to the core.
DestroyEngine ==
    /\ engine # 0 /\ engine' = 0
    /\ message' = [r \in Requests |-> IF Sent(r) \/ message[r] = "answering"
                                      THEN "over" ELSE message[r]]
    /\ UNCHANGED <<callerVars, via, runs, sendPort, ports, created>>

\* invokeAction: a goroutine of its own for each request.
InvokeAction(r) ==
    /\ Sent(r) /\ message' = [message EXCEPT ![r] = "running"]
    /\ UNCHANGED <<callerVars, via, runs, engineVars>>

\* Mutant: any isolate takes the answer.
HandleActionForAny(r) ==
    /\ message[r] = "running"
    /\ runs' = [runs EXCEPT ![r] = @ + 1]
    /\ message' = [message EXCEPT ![r] = IF engine # 0 THEN "answering" ELSE "over"]
    /\ UNCHANGED <<callerVars, via, engineVars>>

\* The goroutine ends; the isolate may have ended before it.
HandleAction(r) ==
    /\ message[r] = "running"
    /\ runs' = [runs EXCEPT ![r] = @ + 1]
    /\ message' = [message EXCEPT ![r] = IF engine = via[r] THEN "answering" ELSE "over"]
    /\ UNCHANGED <<callerVars, via, engineVars>>

\* The isolate passes the answer on.
Forward(r) ==
    /\ message[r] = "answering" /\ message' = [message EXCEPT ![r] = "coming"]
    /\ UNCHANGED <<callerVars, via, runs, engineVars>>

-----------------------------------------------------------------------------

Way(r) == InvokeAction(r) \/ HandleAction(r) \/ Forward(r) \/ HandleResult(r)

Next ==
    \/ \E r \in Requests : Invoke(r) \/ Way(r) \/ TimeOut(r) \/ Remove(r)
    \/ PortArrives \/ CreateEngine \/ DestroyEngine

Spec == Init /\ [][Next]_vars

\* Timers fire and ports deliver; no engine has to live, no core to answer.
Fairness ==
    /\ \A r \in Requests : WF_vars(TimeOut(r)) /\ WF_vars(Remove(r))
    /\ WF_vars(PortArrives)

FairSpec == Spec /\ Fairness

-----------------------------------------------------------------------------
(* Properties.                                                               *)

\* Every variable has its type, and a message that waits in an isolate waits in
\* the one that lives (main.dart:313-350).
TypeOK ==
    /\ out \in [Requests -> {"none", "pending", "answer", "default"}]
    /\ completers \subseteq Requests
    /\ timers \in [Requests -> SUBSET DOMAIN Due]
    /\ message \in [Requests -> {"none", "queued", "sent", "running", "answering",
                                 "coming", "over"}]
    /\ via \in [Requests -> 0..MaxEngines]
    /\ runs \in [Requests -> Nat]
    /\ sendPort \in 0..MaxEngines /\ engine \in 0..MaxEngines /\ created \in 0..MaxEngines
    /\ ports \in Seq(Engines)
    /\ \A r \in Requests : Sent(r) \/ message[r] = "answering" => via[r] = engine /\ engine # 0

\* An answer that comes while its caller waits reaches it, although the
\* completer it looks for is removed by a timer that no answer and no time-out
\* cancels (future.dart:13-18, interface.dart:150-155).
AnswerInTimeCounts ==
    [][\A r \in Requests :
          message[r] = "coming" /\ message'[r] = "over" /\ out[r] = "pending"
              => out'[r] = "answer"]_vars

\* A request is carried out once at most and returns its own answer or a
\* default, whatever engines end under it and however late answers come
\* (interface.dart:150-158).
Contract == INSTANCE RpcContract
KeepsContract == Contract!Spec

\* Every request returns (interface.dart:155), also when there never is an
\* engine to send it to, and then its completer leaves the map.
EveryCallReturns ==
    \A r \in Requests : r \in completers ~> (out[r] # "pending" /\ r \notin completers)

\* When an engine lives on, the requests come to go to it and not to one
\* before it (lib.dart:40-46).
PortFollows == \A e \in Engines : engine = e ~> (sendPort = e \/ engine # e)
=============================================================================
