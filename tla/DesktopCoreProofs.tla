-------------------------- MODULE DesktopCoreProofs --------------------------
(***************************************************************************)
(* For any number of restarts, shutdowns, requests and crashes, with or    *)
(* without the helper: types, and that the loop that accepts cores ends    *)
(* only at a socket whose write failed; one operation at a time and while  *)
(* no write has failed, that no core is left behind and that the one that  *)
(* is held is reached; and that the first start loses no request.          *)
(*                                                                         *)
(* Why: the loop completes the completer only after it has found it new or *)
(* has replaced it, and nobody else completes one; restarts and shutdowns  *)
(* that run meanwhile can only replace it again.  A core that runs is held *)
(* by the application or by the helper; the one operation that is active   *)
(* will kill it, unless it is the one of the current socket.  A request is *)
(* lost only with its socket or its completer, and while the first restart *)
(* is alone at most one core comes, so nobody closes or replaces either.   *)
(***************************************************************************)
EXTENDS DesktopCore, TLAPS

\* The types, part by part.
AppType ==
    /\ pc \in [Ops -> {"idle", "ignored", "shutdown", "stopping", "destroy", "closing",
                       "kill", "server", "starting", "spawn", "spawned", "done", "failed"}]
    /\ isStarting \in BOOLEAN
    /\ process \in Cores \cup {Nil}

SocketType == socket \in Cores \cup {Nil}

CallType ==
    /\ call \in [Calls -> {At("idle"), At("waiting"), At("lost")}
                              \cup {AtCore("sent", k) : k \in Cores}]
    /\ answered \subseteq {c \in Calls : call[c].at = "sent"}

CoreType == core \in [Cores -> {"none", "spawned", "connected", "dead", "crashed"}]

ClosedType == closed \subseteq Cores /\ flushed \subseteq Cores /\ failed \subseteq Cores

BacklogType == backlog \in Seq(Cores)

ServerType ==
    server \in [at : {"idle", "closing", "complete", "ended"},
                core : Cores \cup {Nil}, last : Cores \cup {Nil}]

HelperType ==
    /\ helperUp \in {FALSE, world.windows}
    /\ child \in Cores \cup {Nil}
    /\ stopReq \in [Ops -> {"none", "sent", "done"}]
    /\ startReq \in [Restarts -> {"none", "sent", "stopped", "ok", "failed"}]
    /\ world \in Worlds

\* When the loop is about to complete the completer, it is a new one.
LoopInv ==
    /\ server.at = "complete" => socket = Nil
    /\ server.at \in {"closing", "complete"} => server.core \in Cores
    /\ server.at = "closing" => server.last \in Cores
    /\ server.at = "ended" => server.last \in failed

\* An operation that closes a socket has one.
CloseInv ==
    /\ lastSocket \in [Ops -> Cores \cup {Nil}]
    /\ \A o \in Ops : pc[o] = "closing" => lastSocket[o] \in Cores

Inv ==
    /\ AppType /\ SocketType /\ CallType /\ CoreType /\ ClosedType
    /\ BacklogType /\ ServerType /\ HelperType /\ LoopInv /\ CloseInv

\* The types of the parts are those of the whole.
LEMMA InvTypes == Inv => TypeOK
BY DEF Inv, TypeOK, AppType, SocketType, CallType, CoreType, ClosedType, BacklogType,
       ServerType, HelperType, CloseInv

\* A part whose variables a step leaves alone is kept.
LEMMA Frames ==
    ASSUME Inv
    PROVE  /\ UNCHANGED <<pc, isStarting, process>> => AppType'
           /\ UNCHANGED socket => SocketType'
           /\ UNCHANGED <<call, answered>> => CallType'
           /\ UNCHANGED core => CoreType'
           /\ UNCHANGED <<closed, flushed, failed>> => ClosedType'
           /\ UNCHANGED backlog => BacklogType'
           /\ UNCHANGED server => ServerType'
           /\ UNCHANGED <<helperUp, child, stopReq, startReq, world>> => HelperType'
           /\ UNCHANGED <<server, socket, failed>> => LoopInv'
           /\ UNCHANGED <<pc, lastSocket>> => CloseInv'
<1>1. UNCHANGED <<pc, isStarting, process>> => AppType'
  BY DEF Inv, AppType
<1>2. UNCHANGED socket => SocketType'
  BY DEF Inv, SocketType
<1>3. UNCHANGED <<call, answered>> => CallType'
  BY DEF Inv, CallType
<1>4. UNCHANGED core => CoreType'
  BY DEF Inv, CoreType
<1>5. UNCHANGED <<closed, flushed, failed>> => ClosedType'
  BY DEF Inv, ClosedType
<1>6. UNCHANGED backlog => BacklogType'
  BY DEF Inv, BacklogType
<1>7. UNCHANGED server => ServerType'
  BY DEF Inv, ServerType
<1>8. UNCHANGED <<helperUp, child, stopReq, startReq, world>> => HelperType'
  BY DEF Inv, HelperType
<1>9. UNCHANGED <<server, socket, failed>> => LoopInv'
  BY DEF Inv, LoopInv
<1>10. UNCHANGED <<pc, lastSocket>> => CloseInv'
  BY DEF Inv, CloseInv
<1>11. QED BY <1>1, <1>2, <1>3, <1>4, <1>5, <1>6, <1>7, <1>8, <1>9, <1>10

-----------------------------------------------------------------------------

\* Killing keeps the type.
LEMMA KilledType ==
    ASSUME Inv, NEW k \in Cores \cup {Nil}, core' = Killed(k)
    PROVE  CoreType'
BY DEF Killed, CoreType, Inv

\* The completer is replaced: those who wait are lost, nobody is answered.
LEMMA ReplaceType ==
    ASSUME Inv, ReplaceCompleter, answered' = answered
    PROVE  socket' = Nil /\ SocketType' /\ CallType'
<1>1. /\ socket' = Nil
      /\ call' = [c \in Calls |-> IF call[c].at = "waiting" THEN At("lost") ELSE call[c]]
  BY DEF ReplaceCompleter
<1>2. \A c \in Calls : call[c].at = "sent" => call'[c] = call[c]
  BY <1>1
<1>3. CallType'
  BY <1>1, <1>2 DEF Inv, CallType
<1>4. QED BY <1>1, <1>3 DEF SocketType

\* Every step keeps the types and finds the completer new.
LEMMA InvKept == Inv /\ [Next]_vars => Inv'
<1> SUFFICES ASSUME Inv, [Next]_vars PROVE Inv'
  OBVIOUS
<1> USE DEF Goto, appVars, callVars, coreVars, closeVars, serverVars, helperVars
<1>1. CASE UNCHANGED vars
  BY <1>1, Frames DEF vars, Inv
<1>2. ASSUME NEW o \in Ops, AskStop(o), world' = world PROVE Inv'
  <2>1. AppType'
    BY <1>2 DEF AskStop, AppType, Inv, Ops
  <2>2. HelperType'
    BY <1>2 DEF AskStop, HelperType, Inv, Ops
  <2>3. CloseInv'
    BY <1>2 DEF AskStop, CloseInv, AppType, Inv, Ops
  <2>4. QED BY <1>2, <2>1, <2>2, <2>3, Frames DEF AskStop, Inv
<1>3. ASSUME NEW o \in Ops, StopAnswered(o), world' = world PROVE Inv'
  <2>1. AppType'
    BY <1>3 DEF StopAnswered, AppType, Inv, Ops
  <2>2. CloseInv'
    BY <1>3 DEF StopAnswered, CloseInv, AppType, Inv, Ops
  <2>3. QED BY <1>3, <2>1, <2>2, Frames DEF StopAnswered, Inv
<1>4. ASSUME NEW o \in Ops, DestroySocket(o), world' = world PROVE Inv'
  <2>1. AppType'
    BY <1>4 DEF DestroySocket, AppType, Inv, Ops
  <2>2. ClosedType'
    BY <1>4 DEF DestroySocket, ClosedType, SocketType, Inv
  <2>3. CloseInv'
    BY <1>4 DEF DestroySocket, CloseInv, SocketType, AppType, Inv
  <2>4. QED BY <1>4, <2>1, <2>2, <2>3, Frames DEF DestroySocket, Inv
<1>5. ASSUME NEW o \in Ops, SocketDestroyed(o), world' = world PROVE Inv'
  <2>1. AppType'
    BY <1>5 DEF SocketDestroyed, AppType, Inv, Ops
  <2>2. socket' = Nil /\ SocketType' /\ CallType' /\ LoopInv'
    BY <1>5, ReplaceType DEF SocketDestroyed, LoopInv, Inv
  <2>3. ClosedType' /\ CloseInv'
    BY <1>5 DEF SocketDestroyed, ClosedType, CloseInv, AppType, Inv
  <2>4. QED BY <1>5, <2>1, <2>2, <2>3, Frames DEF SocketDestroyed, Inv
<1>5a. ASSUME NEW o \in Ops, SocketBroken(o), world' = world PROVE Inv'
  <2>1. AppType'
    BY <1>5a DEF SocketBroken, AppType, Inv, Ops
  <2>2. CloseInv'
    BY <1>5a DEF SocketBroken, CloseInv, AppType, Inv
  <2>3. QED BY <1>5a, <2>1, <2>2, Frames DEF SocketBroken, Inv
<1>6. ASSUME NEW o \in Ops, Kill(o), world' = world PROVE Inv'
  <2>1. AppType'
    BY <1>6 DEF Kill, AppType, Inv, Ops
  <2>2. CoreType'
    BY <1>6, KilledType DEF Kill, AppType, Inv
  <2>3. CloseInv'
    BY <1>6 DEF Kill, CloseInv, AppType, Inv, Ops
  <2>4. QED BY <1>6, <2>1, <2>2, <2>3, Frames DEF Kill, Inv
<1>7. ASSUME NEW o \in Ops, HelperStop(o), world' = world PROVE Inv'
  <2>1. HelperType'
    BY <1>7 DEF HelperStop, HelperType, Inv, Ops
  <2>2. CoreType'
    BY <1>7, KilledType DEF HelperStop, HelperType, Inv
  <2>3. QED BY <1>7, <2>1, <2>2, Frames DEF HelperStop, Inv
<1>8. ASSUME NEW r \in Restarts, RestartIgnored(r), world' = world PROVE Inv'
  <2>1. AppType'
    BY <1>8 DEF RestartIgnored, AppType, Inv, Ops
  <2>2. CloseInv'
    BY <1>8 DEF RestartIgnored, CloseInv, AppType, Inv, Ops
  <2>3. QED BY <1>8, <2>1, <2>2, Frames DEF RestartIgnored, Inv
<1>9. ASSUME NEW r \in Restarts, RestartBegin(r), world' = world PROVE Inv'
  <2>1. AppType'
    BY <1>9 DEF RestartBegin, AppType, Inv, Ops
  <2>2. socket' = Nil /\ SocketType' /\ CallType' /\ LoopInv'
    BY <1>9, ReplaceType DEF RestartBegin, LoopInv, Inv
  <2>3. CloseInv'
    BY <1>9 DEF RestartBegin, CloseInv, AppType, Inv, Ops
  <2>4. QED BY <1>9, <2>1, <2>2, <2>3, Frames DEF RestartBegin, Inv
<1>10. ASSUME NEW r \in Restarts, AskStart(r), world' = world PROVE Inv'
  <2>1. AppType'
    BY <1>10 DEF AskStart, AppType, Inv, Ops
  <2>2. HelperType'
    BY <1>10 DEF AskStart, HelperType, Inv, Ops
  <2>3. CloseInv'
    BY <1>10 DEF AskStart, CloseInv, AppType, Inv, Ops
  <2>4. QED BY <1>10, <2>1, <2>2, <2>3, Frames DEF AskStart, Inv
<1>11. ASSUME NEW r \in Restarts, StartedByHelper(r), world' = world PROVE Inv'
  <2>1. AppType'
    BY <1>11 DEF StartedByHelper, AppType, Inv, Ops
  <2>2. CloseInv'
    BY <1>11 DEF StartedByHelper, CloseInv, AppType, Inv, Ops
  <2>3. QED BY <1>11, <2>1, <2>2, Frames DEF StartedByHelper, Inv
<1>12. ASSUME NEW r \in Restarts, StartByHelperFailed(r), world' = world PROVE Inv'
  <2>1. AppType'
    BY <1>12 DEF StartByHelperFailed, AppType, Inv, Ops
  <2>2. CloseInv'
    BY <1>12 DEF StartByHelperFailed, CloseInv, AppType, Inv, Ops
  <2>3. QED BY <1>12, <2>1, <2>2, Frames DEF StartByHelperFailed, Inv
<1>13. ASSUME NEW r \in Restarts, Spawn(r), world' = world PROVE Inv'
  <2>1. AppType'
    BY <1>13 DEF Spawn, AppType, Inv, Ops
  <2>2. CoreType'
    BY <1>13 DEF Spawn, CoreType, Inv, Ops
  <2>3. CloseInv'
    BY <1>13 DEF Spawn, CloseInv, AppType, Inv, Ops
  <2>4. QED BY <1>13, <2>1, <2>2, <2>3, Frames DEF Spawn, Inv
<1>14. ASSUME NEW r \in Restarts, Spawned(r), world' = world PROVE Inv'
  <2>1. AppType'
    BY <1>14 DEF Spawned, AppType, Inv, Ops, Cores
  <2>2. CloseInv'
    BY <1>14 DEF Spawned, CloseInv, AppType, Inv, Ops
  <2>3. QED BY <1>14, <2>1, <2>2, Frames DEF Spawned, Inv
<1>15. ASSUME NEW r \in Restarts, HelperStartStops(r), world' = world PROVE Inv'
  <2>1. HelperType'
    BY <1>15 DEF HelperStartStops, HelperType, Inv, Ops
  <2>2. CoreType'
    BY <1>15, KilledType DEF HelperStartStops, HelperType, Inv
  <2>3. QED BY <1>15, <2>1, <2>2, Frames DEF HelperStartStops, Inv
<1>16. ASSUME NEW r \in Restarts, HelperStartSpawns(r), world' = world PROVE Inv'
  <2>1. CoreType'
    BY <1>16 DEF HelperStartSpawns, CoreType, Inv, Ops
  <2>2. HelperType'
    <3>1. <<r, "helper">> \in Cores
      BY DEF Cores
    <3>2. QED BY <1>16, <3>1 DEF HelperStartSpawns, HelperType, Inv
  <2>3. QED BY <1>16, <2>1, <2>2, Frames DEF HelperStartSpawns, Inv
<1>17. ASSUME NEW s \in Shutdowns, ShutdownBegin(s), world' = world PROVE Inv'
  <2>1. AppType'
    BY <1>17 DEF ShutdownBegin, AppType, Inv, Ops
  <2>2. CloseInv'
    BY <1>17 DEF ShutdownBegin, CloseInv, AppType, Inv, Ops
  <2>3. QED BY <1>17, <2>1, <2>2, Frames DEF ShutdownBegin, Inv
<1>18. ASSUME NEW k \in Cores, Dial(k), world' = world PROVE Inv'
  <2>1. CoreType'
    BY <1>18 DEF Dial, CoreType, Inv, Ops
  <2>2. BacklogType'
    BY <1>18 DEF Dial, BacklogType, Inv, Ops
  <2>3. QED BY <1>18, <2>1, <2>2, Frames DEF Dial, Inv
<1>19. ASSUME NEW k \in Cores, Exit(k), world' = world PROVE Inv'
  <2>1. CoreType'
    BY <1>19, KilledType DEF Exit
  <2>2. ClosedType'
    BY <1>19 DEF Exit, ClosedType, Inv
  <2>3. QED BY <1>19, <2>1, <2>2, Frames DEF Exit, Inv
<1>19a. ASSUME NEW k \in Cores, WriteFails(k), world' = world PROVE Inv'
  <2>1. ClosedType'
    BY <1>19a DEF WriteFails, ClosedType, Inv
  <2>2. LoopInv'
    BY <1>19a DEF WriteFails, LoopInv, Inv
  <2>3. QED BY <1>19a, <2>1, <2>2, Frames DEF WriteFails, Inv
<1>20. ASSUME NEW k \in Cores, Crash(k), world' = world PROVE Inv'
  <2>1. CoreType'
    BY <1>20 DEF Crash, CoreType, Inv, Ops
  <2>2. QED BY <1>20, <2>1, Frames DEF Crash, Inv
<1>21. ASSUME NEW c \in Calls, SendMessage(c), world' = world PROVE Inv'
  <2>1. CallType'
    <3>1. /\ call[c].at = "idle"
          /\ \E x \in {At("waiting"), At("lost")} \cup {AtCore("sent", k) : k \in Cores} :
                call' = [call EXCEPT ![c] = x]
          /\ answered' = answered
      BY <1>21 DEF SendMessage, SocketType, Inv
    <3>2. c \notin answered
      BY <3>1 DEF CallType, Inv
    <3>3. QED BY <3>1, <3>2 DEF CallType, Inv
  <2>2. QED BY <1>21, <2>1, Frames DEF SendMessage, Inv
<1>22. ASSUME NEW c \in Calls, Reply(c), world' = world PROVE Inv'
  <2>1. CallType'
    BY <1>22 DEF Reply, CallType, Inv, Ops
  <2>2. QED BY <1>22, <2>1, Frames DEF Reply, Inv
<1>23. ASSUME Accept, world' = world PROVE Inv'
  <2>1. ClosedType'
    BY <1>23 DEF Accept, ClosedType, SocketType, Inv
  <2>2. BacklogType'
    BY <1>23 DEF Accept, BacklogType, Inv, Ops
  <2>3. Head(backlog) \in Cores
    BY <1>23 DEF Accept, BacklogType, Inv
  <2>4. ServerType'
    BY <1>23, <2>3 DEF Accept, ServerType, SocketType, Inv, LoopAt
  <2>5. LoopInv'
    BY <1>23, <2>3 DEF Accept, LoopInv, LoopAt, SocketType, Inv
  <2>6. QED BY <1>23, <2>1, <2>2, <2>4, <2>5, Frames DEF Accept, Inv
<1>24. ASSUME LastDestroyed, world' = world PROVE Inv'
  <2>1. ServerType'
    BY <1>24 DEF LastDestroyed, ServerType, Inv, Ops
  <2>2. LoopInv'
    BY <1>24, ReplaceType DEF LastDestroyed, LoopInv, ServerType, Inv
  <2>3. SocketType' /\ CallType'
    BY <1>24, ReplaceType DEF LastDestroyed
  <2>4. ClosedType'
    BY <1>24 DEF LastDestroyed, ClosedType, LoopInv, Inv
  <2>5. QED BY <1>24, <2>1, <2>2, <2>3, <2>4, Frames DEF LastDestroyed, Inv
<1>24a. ASSUME LastBroken, world' = world PROVE Inv'
  <2>1. ServerType' /\ LoopInv'
    BY <1>24a DEF LastBroken, ServerType, LoopInv, Inv
  <2>2. QED BY <1>24a, <2>1, Frames DEF LastBroken, Inv
<1>25. ASSUME AcceptComplete, world' = world PROVE Inv'
  <2>1. SocketType' /\ CallType' /\ ServerType' /\ LoopInv'
    <3>1. server.at = "complete" /\ socket = Nil /\ server.core \in Cores
      BY <1>25 DEF AcceptComplete, LoopInv, ServerType, Inv
    <3>2. /\ socket' = server.core /\ server' = LoopIdle /\ answered' = answered
          /\ call' = [c \in Calls |-> IF call[c].at = "waiting"
                                    THEN AtCore("sent", server.core) ELSE call[c]]
      BY <1>25, <3>1 DEF AcceptComplete, Complete
    <3>3. SocketType'
      BY <3>1, <3>2 DEF SocketType
    <3>4. CallType'
      BY <3>1, <3>2 DEF CallType, Inv
    <3>5. ServerType' /\ LoopInv'
      BY <3>2 DEF ServerType, LoopInv, LoopIdle
    <3>6. QED BY <3>3, <3>4, <3>5
  <2>2. QED BY <1>25, <2>1, Frames DEF AcceptComplete, Inv
<1>26. ASSUME InstallHelper, world' = world PROVE Inv'
  <2>1. HelperType'
    BY <1>26 DEF InstallHelper, HelperType, Inv, Ops
  <2>2. QED BY <1>26, <2>1, Frames DEF InstallHelper, Inv
<1>27. world.calls \subseteq Calls /\ Restarts \subseteq Ops
  BY ConstantsAssumption DEF Inv, HelperType, Ops
<1>28. QED
  BY <1>1, <1>2, <1>3, <1>4, <1>5, <1>5a, <1>6, <1>7, <1>8, <1>9, <1>10, <1>11, <1>12, <1>13,
     <1>14, <1>15, <1>16, <1>17, <1>18, <1>19, <1>19a, <1>20, <1>21, <1>22, <1>23, <1>24,
     <1>24a, <1>25, <1>26, <1>27
     DEF Next, OpStep, RestartStep, ServerStep, CoreStep

-----------------------------------------------------------------------------

\* Nothing has happened yet.
LEMMA InitInv == Init => Inv
<1> SUFFICES ASSUME Init PROVE Inv
  OBVIOUS
<1>1. AppType /\ SocketType /\ CallType /\ CoreType /\ ClosedType
  BY DEF Init, AppType, SocketType, CallType, CoreType, ClosedType
<1>2. BacklogType /\ ServerType /\ LoopInv
  BY DEF Init, BacklogType, ServerType, LoopInv, LoopIdle
<1>3. HelperType /\ CloseInv
  BY DEF Init, HelperType, CloseInv
<1>4. QED BY <1>1, <1>2, <1>3 DEF Inv

\* Types, for any number of operations and requests.
THEOREM TypeCorrect == Spec => []TypeOK
<1>1. Inv => TypeOK
  BY InvTypes
<1>2. QED BY <1>1, InitInv, InvKept, PTL DEF Spec

\* The loop that accepts cores ends only because a write to the last core has
\* failed, so that its socket throws when it is closed (service.dart:145): it
\* never completes a completer twice (service.dart:51), however restarts,
\* shutdowns and crashes overlap.
THEOREM KeepsAccepting == Spec => []ServerKeepsAccepting
<1>1. Inv => ServerKeepsAccepting
  BY DEF Inv, LoopInv, ServerKeepsAccepting
<1>2. QED BY <1>1, InitInv, InvKept, PTL DEF Spec

-----------------------------------------------------------------------------
(* Operations one after the other: no core is left behind.                   *)

Ending == {"shutdown", "stopping", "destroy", "closing", "kill"}
Starting == {"server", "starting", "spawn", "spawned"}

\* An operation is under way, or has left a request with the helper.
Active(o) ==
    \/ pc[o] \in Ending \cup Starting
    \/ stopReq[o] = "sent"
    \/ o \in Restarts /\ startReq[o] \in {"sent", "stopped"}

Alone == \A o, p \in Ops : Active(o) /\ Active(p) => o = p

\* What is so of the process and of the requests at each label of a restart.
StageInv ==
    \A r \in Restarts :
        /\ pc[r] \in Ending \cup Starting => isStarting
        /\ pc[r] \in Starting => process = Nil
        /\ pc[r] \in {"idle", "server"} \cup Ending => startReq[r] = "none"
        /\ startReq[r] \in {"sent", "stopped"} => helperUp /\ (isStarting \/ process # Nil)
        /\ startReq[r] = "stopped" => child = Nil

\* An operation past its request to stop leaves no child, and none is there
\* when a restart finds no process.
ChildInv ==
    /\ child # Nil => helperUp
    /\ \A o \in Ops : pc[o] \in Ending \ {"shutdown"} => child = Nil \/ stopReq[o] = "sent"
    /\ process = Nil /\ ~isStarting => child = Nil \/ \E o \in Ops : stopReq[o] = "sent"

OpInv == Alone /\ StageInv /\ ChildInv

\* An operation under way will kill the core.
Doomed(k) ==
    \/ k = process /\ \E o \in Ops : pc[o] \in Ending
    \/ k = child /\ \E o \in Ops : pc[o] = "shutdown" \/ stopReq[o] = "sent"

\* The core waits to be accepted, or is being accepted.
Queued(k) ==
    \/ \E i \in 1..Len(backlog) : backlog[i] = k
    \/ server.at \in {"closing", "complete"} /\ server.core = k

\* A core that runs is held by somebody who can kill it.
HeldInv ==
    \A k \in Cores : Live(k) => \/ k \in {process, child}
                                \/ \E r \in Restarts : pc[r] = "spawned" /\ k = <<r, "app">>

\* A core that is connected is, or will be, the one the application talks to,
\* or its end is settled.
ReachInv ==
    /\ server.at = "closing" => socket = Nil \/ socket \in closed
    /\ \A k \in Cores : core[k] = "connected" =>
          Queued(k) \/ socket = k \/ k \in closed \/ Doomed(k)

SerialInv == world.serial => OpInv /\ (NoneFailed => HeldInv /\ ReachInv)

\* It reads nothing else.
LEMMA OpFrame ==
    ASSUME OpInv, UNCHANGED <<pc, isStarting, process, helperUp, child, stopReq, startReq>>
    PROVE  OpInv'
BY DEF OpInv, Alone, Active, StageInv, ChildInv

\* What the operations and the helper know is kept.
LEMMA OpKept ==
    ASSUME Inv, world.serial, OpInv, [Next]_vars
    PROVE  OpInv'
<1> USE DEF Goto, appVars, callVars, coreVars, closeVars, serverVars, helperVars
<1>a. /\ Restarts \subseteq Ops /\ Shutdowns \subseteq Ops
      /\ \A o \in Ops : o \in Restarts <=> o \notin Shutdowns
  BY ConstantsAssumption DEF Ops
<1>b. pc \in [Ops -> {"idle", "ignored", "shutdown", "stopping", "destroy", "closing",
                      "kill", "server", "starting", "spawn", "spawned", "done", "failed"}]
  BY DEF Inv, AppType
<1>c. /\ stopReq \in [Ops -> {"none", "sent", "done"}]
      /\ startReq \in [Restarts -> {"none", "sent", "stopped", "ok", "failed"}]
  BY DEF Inv, HelperType
<1>d. \A r \in Restarts, w \in {"app", "helper"} : <<r, w>> # Nil
  BY CoresAssumption DEF Cores
<1>1. CASE UNCHANGED vars
  BY <1>1, OpFrame DEF vars
<1>2. ASSUME NEW o \in Ops, AskStop(o) PROVE OpInv'
  <2>1. Alone'
    BY <1>2, <1>b, <1>c DEF AskStop, OpInv, Alone, Active, Ending
  <2>2. StageInv'
    BY <1>2, <1>a, <1>b DEF AskStop, OpInv, StageInv, Ending, Starting
  <2>3. ChildInv'
    BY <1>2, <1>b, <1>c DEF AskStop, OpInv, ChildInv
  <2>4. QED BY <2>1, <2>2, <2>3 DEF OpInv
<1>3. ASSUME NEW o \in Ops, StopAnswered(o) PROVE OpInv'
  <2>1. Alone'
    BY <1>3 DEF StopAnswered, OpInv, Alone, Active, Ending
  <2>2. StageInv'
    BY <1>3 DEF StopAnswered, OpInv, StageInv, Ending, Starting
  <2>3. ChildInv'
    BY <1>3 DEF StopAnswered, OpInv, ChildInv, Ending
  <2>4. QED BY <2>1, <2>2, <2>3 DEF OpInv
<1>4. ASSUME NEW o \in Ops, DestroySocket(o) PROVE OpInv'
  <2>1. Alone'
    BY <1>4, <1>b DEF DestroySocket, OpInv, Alone, Active, Ending
  <2>2. StageInv'
    BY <1>4, <1>a, <1>b DEF DestroySocket, OpInv, StageInv, Ending, Starting
  <2>3. ChildInv'
    BY <1>4, <1>b DEF DestroySocket, OpInv, ChildInv, Ending
  <2>4. QED BY <2>1, <2>2, <2>3 DEF OpInv
<1>5. ASSUME NEW o \in Ops, SocketDestroyed(o) PROVE OpInv'
  <2>1. Alone'
    BY <1>5 DEF SocketDestroyed, OpInv, Alone, Active, Ending
  <2>2. StageInv'
    BY <1>5 DEF SocketDestroyed, OpInv, StageInv, Ending, Starting
  <2>3. ChildInv'
    BY <1>5 DEF SocketDestroyed, OpInv, ChildInv, Ending
  <2>4. QED BY <2>1, <2>2, <2>3 DEF OpInv
<1>5a. ASSUME NEW o \in Ops, SocketBroken(o) PROVE OpInv'
  <2>1. Alone'
    BY <1>5a, <1>b DEF SocketBroken, OpInv, Alone, Active, Ending, Starting
  <2>2. StageInv'
    BY <1>5a, <1>a, <1>b DEF SocketBroken, OpInv, StageInv, Ending, Starting
  <2>3. ChildInv'
    BY <1>5a, <1>b DEF SocketBroken, OpInv, ChildInv, Ending
  <2>4. QED BY <2>1, <2>2, <2>3 DEF OpInv
<1>6. ASSUME NEW o \in Ops, Kill(o) PROVE OpInv'
  <2>1. Alone'
    BY <1>6 DEF Kill, OpInv, Alone, Active, Ending
  <2>2. StageInv'
    BY <1>6, <1>a DEF Kill, OpInv, StageInv, Alone, Active, Ending
  <2>3. ChildInv'
    BY <1>6 DEF Kill, OpInv, ChildInv, Ending
  <2>4. QED BY <2>1, <2>2, <2>3 DEF OpInv
<1>7. ASSUME NEW o \in Ops, HelperStop(o) PROVE OpInv'
  <2>1. Alone'
    BY <1>7 DEF HelperStop, OpInv, Alone, Active
  <2>2. StageInv'
    BY <1>7 DEF HelperStop, OpInv, StageInv
  <2>3. ChildInv'
    BY <1>7 DEF HelperStop, OpInv, ChildInv
  <2>4. QED BY <2>1, <2>2, <2>3 DEF OpInv
<1>8. ASSUME NEW r \in Restarts, RestartIgnored(r) PROVE OpInv'
  <2>1. Alone'
    BY <1>8 DEF RestartIgnored, OpInv, Alone, Active, Ending, Starting
  <2>2. StageInv'
    BY <1>8 DEF RestartIgnored, OpInv, StageInv, Starting
  <2>3. ChildInv'
    BY <1>8 DEF RestartIgnored, OpInv, ChildInv, Ending
  <2>4. QED BY <2>1, <2>2, <2>3 DEF OpInv
<1>9. ASSUME NEW r \in Restarts, RestartBegin(r) PROVE OpInv'
  <2>1. Alone'
    BY <1>9 DEF RestartBegin, OpInv, Alone, Active, Ending, Starting, MayBegin, Settled
  <2>2. StageInv'
    BY <1>9 DEF RestartBegin, OpInv, StageInv, Starting
  <2>3. ChildInv'
    BY <1>9 DEF RestartBegin, OpInv, ChildInv, MayBegin, Settled
  <2>4. QED BY <2>1, <2>2, <2>3 DEF OpInv
<1>10. ASSUME NEW r \in Restarts, AskStart(r) PROVE OpInv'
  <2>1. Alone'
    BY <1>10, <1>b, <1>c DEF AskStart, OpInv, Alone, Active, Starting
  <2>2. StageInv'
    BY <1>10, <1>a, <1>b, <1>c DEF AskStart, OpInv, StageInv, Ending, Starting
  <2>3. ChildInv'
    BY <1>10, <1>b DEF AskStart, OpInv, ChildInv, Ending
  <2>4. QED BY <2>1, <2>2, <2>3 DEF OpInv
<1>11. ASSUME NEW r \in Restarts, StartedByHelper(r) PROVE OpInv'
  <2>1. Alone'
    BY <1>11 DEF StartedByHelper, OpInv, Alone, Active, Starting
  <2>2. StageInv'
    BY <1>11 DEF StartedByHelper, OpInv, StageInv, Ending, Starting
  <2>3. ChildInv'
    BY <1>11 DEF StartedByHelper, OpInv, ChildInv, Ending
  <2>4. QED BY <2>1, <2>2, <2>3 DEF OpInv
<1>12. ASSUME NEW r \in Restarts, StartByHelperFailed(r) PROVE OpInv'
  <2>1. Alone'
    BY <1>12 DEF StartByHelperFailed, OpInv, Alone, Active, Starting
  <2>2. StageInv'
    BY <1>12 DEF StartByHelperFailed, OpInv, StageInv, Ending, Starting
  <2>3. ChildInv'
    BY <1>12 DEF StartByHelperFailed, OpInv, ChildInv, Ending
  <2>4. QED BY <2>1, <2>2, <2>3 DEF OpInv
<1>13. ASSUME NEW r \in Restarts, Spawn(r) PROVE OpInv'
  <2>1. Alone'
    BY <1>13, <1>b DEF Spawn, OpInv, Alone, Active, Starting
  <2>2. StageInv'
    BY <1>13, <1>a, <1>b DEF Spawn, OpInv, StageInv, Ending, Starting
  <2>3. ChildInv'
    BY <1>13, <1>b DEF Spawn, OpInv, ChildInv, Ending
  <2>4. QED BY <2>1, <2>2, <2>3 DEF OpInv
<1>14. ASSUME NEW r \in Restarts, Spawned(r) PROVE OpInv'
  <2>1. Alone'
    BY <1>14 DEF Spawned, OpInv, Alone, Active, Starting
  <2>2. StageInv'
    BY <1>14, <1>a, <1>b, <1>d DEF Spawned, OpInv, StageInv, Alone, Active, Ending, Starting
  <2>3. ChildInv'
    BY <1>14, <1>d DEF Spawned, OpInv, ChildInv, Ending
  <2>4. QED BY <2>1, <2>2, <2>3 DEF OpInv
<1>15. ASSUME NEW r \in Restarts, HelperStartStops(r) PROVE OpInv'
  <2>1. Alone'
    BY <1>15 DEF HelperStartStops, OpInv, Alone, Active
  <2>2. StageInv'
    BY <1>15 DEF HelperStartStops, OpInv, StageInv
  <2>3. ChildInv'
    BY <1>15 DEF HelperStartStops, OpInv, ChildInv
  <2>4. QED BY <2>1, <2>2, <2>3 DEF OpInv
<1>16. ASSUME NEW r \in Restarts, HelperStartSpawns(r) PROVE OpInv'
  <2>1. Alone'
    BY <1>16, <1>c DEF HelperStartSpawns, OpInv, Alone, Active
  <2>2. StageInv'
    BY <1>16, <1>a, <1>c DEF HelperStartSpawns, OpInv, StageInv, Alone, Active
  <2>3. ChildInv'
    BY <1>16, <1>a DEF HelperStartSpawns, OpInv, ChildInv, StageInv, Alone, Active
  <2>4. QED BY <2>1, <2>2, <2>3 DEF OpInv
<1>17. ASSUME NEW s \in Shutdowns, ShutdownBegin(s) PROVE OpInv'
  <2>1. Alone'
    BY <1>17 DEF ShutdownBegin, OpInv, Alone, Active, Ending, Starting, MayBegin, Settled
  <2>2. StageInv'
    BY <1>17, <1>a DEF ShutdownBegin, OpInv, StageInv
  <2>3. ChildInv'
    BY <1>17 DEF ShutdownBegin, OpInv, ChildInv
  <2>4. QED BY <2>1, <2>2, <2>3 DEF OpInv
<1>18. ASSUME NEW k \in Cores, Dial(k) PROVE OpInv'
  BY <1>18, OpFrame DEF Dial
<1>19. ASSUME NEW k \in Cores, Exit(k) PROVE OpInv'
  BY <1>19, OpFrame DEF Exit
<1>19a. ASSUME NEW k \in Cores, WriteFails(k) PROVE OpInv'
  BY <1>19a, OpFrame DEF WriteFails
<1>20. ASSUME NEW k \in Cores, Crash(k) PROVE OpInv'
  BY <1>20, OpFrame DEF Crash
<1>21. ASSUME NEW c \in Calls, SendMessage(c) PROVE OpInv'
  BY <1>21, OpFrame DEF SendMessage
<1>22. ASSUME NEW c \in Calls, Reply(c) PROVE OpInv'
  BY <1>22, OpFrame DEF Reply
<1>23. ASSUME Accept PROVE OpInv'
  BY <1>23, OpFrame DEF Accept
<1>24. ASSUME LastDestroyed PROVE OpInv'
  BY <1>24, OpFrame DEF LastDestroyed
<1>24a. ASSUME LastBroken PROVE OpInv'
  BY <1>24a, OpFrame DEF LastBroken
<1>25. ASSUME AcceptComplete PROVE OpInv'
  BY <1>25, OpFrame DEF AcceptComplete
<1>26. ASSUME InstallHelper PROVE OpInv'
  <2>1. Alone'
    BY <1>26 DEF InstallHelper, OpInv, Alone, Active
  <2>2. StageInv'
    BY <1>26 DEF InstallHelper, OpInv, StageInv
  <2>3. ChildInv'
    BY <1>26 DEF InstallHelper, OpInv, ChildInv
  <2>4. QED BY <2>1, <2>2, <2>3 DEF OpInv
<1>27. world.calls \subseteq Calls
  BY ConstantsAssumption DEF Inv, HelperType
<1>28. QED
  BY <1>1, <1>2, <1>3, <1>4, <1>5, <1>5a, <1>6, <1>7, <1>8, <1>9, <1>10, <1>11, <1>12, <1>13,
     <1>14, <1>15, <1>16, <1>17, <1>18, <1>19, <1>19a, <1>20, <1>21, <1>22, <1>23, <1>24,
     <1>24a, <1>25, <1>26, <1>27
     DEF Next, OpStep, RestartStep, ServerStep, CoreStep

-----------------------------------------------------------------------------

\* A core that is killed runs no more; the others run as before.
LEMMA KilledCore ==
    ASSUME Inv, NEW j \in Cores \cup {Nil}, core' = Killed(j), NEW k \in Cores
    PROVE  /\ core'[k] = "connected" => core[k] = "connected" /\ k # j
           /\ Live(k)' => Live(k) /\ k # j
BY CoresAssumption DEF Inv, CoreType, Killed, Live

\* A step that touches no process and no socket keeps both parts.
LEMMA StrayFrame ==
    ASSUME Inv
    PROVE  /\ HeldInv /\ UNCHANGED <<pc, process, child, core>> => HeldInv'
           /\ ReachInv /\ UNCHANGED <<pc, process, child, core, stopReq, backlog, server,
                                      socket, closed>> => ReachInv'
BY DEF HeldInv, ReachInv, Live, Queued, Doomed

\* A write that failed has failed for good.
LEMMA FailedStays == [Next]_vars /\ NoneFailed' => NoneFailed
<1> SUFFICES ASSUME [Next]_vars PROVE failed \subseteq failed'
  BY DEF NoneFailed
<1> USE DEF Goto, appVars, callVars, coreVars, closeVars, serverVars, helperVars
<1>1. CASE UNCHANGED vars
  BY <1>1 DEF vars
<1>2. ASSUME NEW k \in Cores, WriteFails(k) PROVE failed \subseteq failed'
  BY <1>2 DEF WriteFails
<1>3. ASSUME NEW o \in Ops, OpStep(o) PROVE UNCHANGED failed
  BY <1>3
     DEF OpStep, AskStop, StopAnswered, HelperStop, DestroySocket, SocketDestroyed,
         SocketBroken, Kill
<1>4. ASSUME NEW r \in Restarts, RestartBegin(r) \/ RestartIgnored(r) \/ RestartStep(r)
      PROVE  UNCHANGED failed
  BY <1>4
     DEF RestartBegin, RestartIgnored, RestartStep, AskStart, StartedByHelper,
         StartByHelperFailed, HelperStartStops, HelperStartSpawns, Spawn, Spawned
<1>5. ASSUME ServerStep PROVE UNCHANGED failed
  BY <1>5 DEF ServerStep, Accept, LastDestroyed, LastBroken, AcceptComplete
<1>6. ASSUME NEW k \in Cores, CoreStep(k) \/ Crash(k) PROVE UNCHANGED failed
  BY <1>6 DEF CoreStep, Dial, Exit, Crash
<1>7. ASSUME NEW c \in world.calls, SendMessage(c) \/ Reply(c) PROVE UNCHANGED failed
  BY <1>7 DEF SendMessage, Reply
<1>8. (\E s \in Shutdowns : ShutdownBegin(s)) \/ InstallHelper => UNCHANGED failed
  BY DEF ShutdownBegin, InstallHelper
<1>9. QED BY <1>1, <1>2, <1>3, <1>4, <1>5, <1>6, <1>7, <1>8 DEF Next

\* No step leaves a running core behind.
LEMMA StrayKept ==
    ASSUME Inv, world.serial, NoneFailed', OpInv, HeldInv, ReachInv, [Next]_vars
    PROVE  HeldInv' /\ ReachInv'
<1> USE DEF Goto, appVars, callVars, coreVars, closeVars, serverVars, helperVars
<1>a. /\ Restarts \subseteq Ops /\ Shutdowns \subseteq Ops
      /\ \A o \in Ops : o \in Restarts <=> o \notin Shutdowns
  BY ConstantsAssumption DEF Ops
<1>b. pc \in [Ops -> {"idle", "ignored", "shutdown", "stopping", "destroy", "closing",
                      "kill", "server", "starting", "spawn", "spawned", "done", "failed"}]
  BY DEF Inv, AppType
<1>c. /\ stopReq \in [Ops -> {"none", "sent", "done"}]
      /\ startReq \in [Restarts -> {"none", "sent", "stopped", "ok", "failed"}]
      /\ child \in Cores \cup {Nil} /\ process \in Cores \cup {Nil}
      /\ socket \in Cores \cup {Nil} /\ backlog \in Seq(Cores)
      /\ server \in [at : {"idle", "closing", "complete", "ended"}, core : Cores \cup {Nil},
                     last : Cores \cup {Nil}]
  BY DEF Inv, HelperType, AppType, SocketType, BacklogType, ServerType
<1>d. \A r \in Restarts, w \in {"app", "helper"} : <<r, w>> # Nil /\ <<r, w>> \in Cores
  BY CoresAssumption DEF Cores
<1>e. Nil \notin Cores /\ core \in [Cores -> {"none", "spawned", "connected", "dead", "crashed"}]
  BY CoresAssumption DEF Inv, CoreType
<1>n. failed = {} /\ failed' = {}
  BY FailedStays DEF NoneFailed
<1>1. CASE UNCHANGED vars
  BY <1>1, StrayFrame DEF vars
<1>2. ASSUME NEW o \in Ops, AskStop(o) PROVE HeldInv' /\ ReachInv'
  <2>1. HeldInv'
    BY <1>2, <1>a, <1>b DEF AskStop, OpInv, HeldInv, Live
  <2>2. ReachInv'
    BY <1>2, <1>b, <1>c, <1>e DEF AskStop, OpInv, ChildInv, ReachInv, Doomed, Queued, Ending
  <2>3. QED BY <2>1, <2>2
<1>3. ASSUME NEW o \in Ops, StopAnswered(o) PROVE HeldInv' /\ ReachInv'
  <2>1. HeldInv'
    BY <1>3 DEF StopAnswered, OpInv, HeldInv, Live
  <2>2. ReachInv'
    BY <1>3 DEF StopAnswered, OpInv, ReachInv, Doomed, Queued, Ending
  <2>3. QED BY <2>1, <2>2
<1>4. ASSUME NEW o \in Ops, DestroySocket(o) PROVE HeldInv' /\ ReachInv'
  <2>1. HeldInv'
    BY <1>4, <1>a, <1>b DEF DestroySocket, OpInv, HeldInv, Live
  <2>2. ReachInv'
    BY <1>4, <1>b DEF DestroySocket, OpInv, ReachInv, Doomed, Queued, Ending
  <2>3. QED BY <2>1, <2>2
<1>5. ASSUME NEW o \in Ops, SocketDestroyed(o) PROVE HeldInv' /\ ReachInv'
  <2>1. HeldInv'
    BY <1>5 DEF SocketDestroyed, ReplaceCompleter, HeldInv, Live
  <2>2. ReachInv'
    BY <1>5, <1>a
       DEF SocketDestroyed, ReplaceCompleter, OpInv, Alone, Active, ChildInv, HeldInv, ReachInv,
           Live, Doomed, Ending, Starting
  <2>3. QED BY <2>1, <2>2
<1>5a. ASSUME NEW o \in Ops, SocketBroken(o) PROVE HeldInv' /\ ReachInv'
  BY <1>5a, <1>n DEF SocketBroken
<1>6. ASSUME NEW o \in Ops, Kill(o) PROVE HeldInv' /\ ReachInv'
  <2>1. HeldInv'
    BY <1>6, <1>c, KilledCore DEF Kill, OpInv, HeldInv
  <2>2. ReachInv'
    BY <1>6, <1>c, KilledCore DEF Kill, OpInv, ReachInv, Doomed, Queued
  <2>3. QED BY <2>1, <2>2
<1>7. ASSUME NEW o \in Ops, HelperStop(o) PROVE HeldInv' /\ ReachInv'
  <2>1. HeldInv'
    BY <1>7, <1>c, KilledCore DEF HelperStop, OpInv, HeldInv
  <2>2. ReachInv'
    BY <1>7, <1>c, KilledCore DEF HelperStop, OpInv, ReachInv, Doomed, Queued
  <2>3. QED BY <2>1, <2>2
<1>8. ASSUME NEW r \in Restarts, RestartIgnored(r) PROVE HeldInv' /\ ReachInv'
  <2>1. HeldInv'
    BY <1>8 DEF RestartIgnored, OpInv, HeldInv, Live
  <2>2. ReachInv'
    BY <1>8 DEF RestartIgnored, OpInv, ReachInv, Doomed, Queued, Ending
  <2>3. QED BY <2>1, <2>2
<1>9. ASSUME NEW r \in Restarts, RestartBegin(r) PROVE HeldInv' /\ ReachInv'
  <2>1. HeldInv'
    BY <1>9 DEF RestartBegin, ReplaceCompleter, HeldInv, Live
  <2>2. ReachInv'
    BY <1>9, <1>a, <1>b
       DEF RestartBegin, ReplaceCompleter, OpInv, StageInv, ChildInv, HeldInv, ReachInv, Live,
           Doomed, Ending, Starting
  <2>3. QED BY <2>1, <2>2
<1>10. ASSUME NEW r \in Restarts, AskStart(r) PROVE HeldInv' /\ ReachInv'
  <2>1. HeldInv'
    BY <1>10, <1>a, <1>b DEF AskStart, OpInv, HeldInv, Live
  <2>2. ReachInv'
    BY <1>10, <1>b DEF AskStart, OpInv, ReachInv, Doomed, Queued, Ending
  <2>3. QED BY <2>1, <2>2
<1>11. ASSUME NEW r \in Restarts, StartedByHelper(r) PROVE HeldInv' /\ ReachInv'
  <2>1. HeldInv'
    BY <1>11 DEF StartedByHelper, OpInv, HeldInv, Live
  <2>2. ReachInv'
    BY <1>11 DEF StartedByHelper, OpInv, ReachInv, Doomed, Queued, Ending
  <2>3. QED BY <2>1, <2>2
<1>12. ASSUME NEW r \in Restarts, StartByHelperFailed(r) PROVE HeldInv' /\ ReachInv'
  <2>1. HeldInv'
    BY <1>12 DEF StartByHelperFailed, OpInv, HeldInv, Live
  <2>2. ReachInv'
    BY <1>12 DEF StartByHelperFailed, OpInv, ReachInv, Doomed, Queued, Ending
  <2>3. QED BY <2>1, <2>2
<1>13. ASSUME NEW r \in Restarts, Spawn(r) PROVE HeldInv' /\ ReachInv'
  <2>1. HeldInv'
    BY <1>13, <1>a, <1>b, <1>e DEF Spawn, OpInv, HeldInv, Live
  <2>2. ASSUME NEW k \in Cores, core'[k] = "connected" PROVE core[k] = "connected"
    BY <1>13, <1>e, <2>2 DEF Spawn
  <2>3. ASSUME NEW k \in Cores, Doomed(k) PROVE Doomed(k)'
    BY <1>13, <1>b, <2>3 DEF Spawn, Doomed, Ending
  <2>4. UNCHANGED <<backlog, server, socket, closed>>
    BY <1>13 DEF Spawn
  <2>5. QED BY <2>1, <2>2, <2>3, <2>4 DEF ReachInv, Queued
<1>14. ASSUME NEW r \in Restarts, Spawned(r) PROVE HeldInv' /\ ReachInv'
  <2>1. HeldInv'
    BY <1>14, <1>e DEF Spawned, OpInv, StageInv, HeldInv, Live, Starting
  <2>2. ReachInv'
    BY <1>14, <1>e DEF Spawned, OpInv, StageInv, ReachInv, Doomed, Queued, Starting
  <2>3. QED BY <2>1, <2>2
<1>15. ASSUME NEW r \in Restarts, HelperStartStops(r) PROVE HeldInv' /\ ReachInv'
  <2>1. HeldInv'
    BY <1>15, <1>c, KilledCore DEF HelperStartStops, OpInv, HeldInv
  <2>2. ReachInv'
    BY <1>15, <1>c, KilledCore DEF HelperStartStops, OpInv, ReachInv, Doomed, Queued
  <2>3. QED BY <2>1, <2>2
<1>16. ASSUME NEW r \in Restarts, HelperStartSpawns(r) PROVE HeldInv' /\ ReachInv'
  <2>1. HeldInv'
    BY <1>16, <1>e
       DEF HelperStartSpawns, OpInv, Alone, StageInv, HeldInv, Live, Ending, Starting
  <2>2. ReachInv'
    BY <1>16, <1>b, <1>e
       DEF HelperStartSpawns, OpInv, Alone, Active, StageInv, ChildInv, HeldInv, ReachInv, Live,
           Doomed, Queued, Starting
  <2>3. QED BY <2>1, <2>2
<1>17. ASSUME NEW s \in Shutdowns, ShutdownBegin(s) PROVE HeldInv' /\ ReachInv'
  <2>1. HeldInv'
    BY <1>17 DEF ShutdownBegin, OpInv, HeldInv, Live
  <2>2. ReachInv'
    BY <1>17, <1>b DEF ShutdownBegin, OpInv, ReachInv, Doomed, Queued, Ending
  <2>3. QED BY <2>1, <2>2
<1>18. ASSUME NEW k \in Cores, Dial(k) PROVE HeldInv' /\ ReachInv'
  <2>1. HeldInv'
    BY <1>18 DEF Dial, OpInv, HeldInv, Live
  <2>2. ReachInv'
    BY <1>18 DEF Dial, OpInv, ReachInv, Doomed, Queued
  <2>3. QED BY <2>1, <2>2
<1>19. ASSUME NEW k \in Cores, Exit(k) PROVE HeldInv' /\ ReachInv'
  <2>1. HeldInv'
    BY <1>19, KilledCore DEF Exit, OpInv, HeldInv
  <2>2. ReachInv'
    BY <1>19, KilledCore DEF Exit, OpInv, ReachInv, Doomed, Queued
  <2>3. QED BY <2>1, <2>2
<1>19a. ASSUME NEW k \in Cores, WriteFails(k) PROVE HeldInv' /\ ReachInv'
  BY <1>19a, <1>n DEF WriteFails
<1>20. ASSUME NEW k \in Cores, Crash(k) PROVE HeldInv' /\ ReachInv'
  <2>1. HeldInv'
    BY <1>20 DEF Crash, OpInv, HeldInv, Live
  <2>2. ReachInv'
    BY <1>20 DEF Crash, OpInv, ReachInv, Doomed, Queued
  <2>3. QED BY <2>1, <2>2
<1>21. ASSUME NEW c \in Calls, SendMessage(c) PROVE HeldInv' /\ ReachInv'
  BY <1>21, StrayFrame DEF SendMessage
<1>22. ASSUME NEW c \in Calls, Reply(c) PROVE HeldInv' /\ ReachInv'
  BY <1>22, StrayFrame DEF Reply
<1>23. ASSUME Accept PROVE HeldInv' /\ ReachInv'
  <2>1. HeldInv'
    BY <1>23, StrayFrame DEF Accept
  <2>2. ASSUME NEW k \in Cores, Queued(k) PROVE Queued(k)'
    <3>1. server.at = "idle" /\ backlog # <<>> /\ backlog' = Tail(backlog)
      BY <1>23 DEF Accept
    <3>2. PICK i \in 1..Len(backlog) : backlog[i] = k
      BY <2>2, <3>1 DEF Queued
    <3>3. CASE i = 1
      <4>1. Head(backlog) = k
        BY <3>1, <3>2, <3>3
      <4>2. server'.at \in {"closing", "complete"} /\ server'.core = k
        BY <1>23, <4>1 DEF Accept, LoopAt
      <4>3. QED BY <4>2 DEF Queued
    <3>4. CASE i # 1
      <4>1. i - 1 \in 1..Len(backlog') /\ backlog'[i - 1] = k
        BY <3>1, <3>2, <3>4
      <4>2. QED BY <4>1 DEF Queued
    <3>5. QED BY <3>3, <3>4
  <2>3. ASSUME NEW k \in Cores, Doomed(k) PROVE Doomed(k)'
    BY <1>23, <2>3 DEF Accept, Doomed
  <2>4. UNCHANGED <<core, socket>> /\ closed \subseteq closed'
    BY <1>23 DEF Accept
  <2>5. server'.at = "closing" => socket' = Nil \/ socket' \in closed'
    BY <1>23, <1>c DEF Accept
  <2>6. QED BY <2>1, <2>2, <2>3, <2>4, <2>5 DEF ReachInv
<1>24. ASSUME LastDestroyed PROVE HeldInv' /\ ReachInv'
  <2>1. HeldInv'
    BY <1>24, StrayFrame DEF LastDestroyed, ReplaceCompleter
  <2>2. ReachInv'
    BY <1>24 DEF LastDestroyed, ReplaceCompleter, ReachInv, Doomed, Queued
  <2>3. QED BY <2>1, <2>2
<1>24a. ASSUME LastBroken PROVE HeldInv' /\ ReachInv'
  BY <1>24a, <1>n DEF LastBroken
<1>25. ASSUME AcceptComplete PROVE HeldInv' /\ ReachInv'
  <2>1. HeldInv'
    BY <1>25, StrayFrame DEF AcceptComplete, Complete
  <2>2. ReachInv'
    BY <1>25, <1>e DEF AcceptComplete, Complete, LoopInv, Inv, LoopIdle, ReachInv, Doomed, Queued
  <2>3. QED BY <2>1, <2>2
<1>26. ASSUME InstallHelper PROVE HeldInv' /\ ReachInv'
  BY <1>26, StrayFrame DEF InstallHelper
<1>27. world.calls \subseteq Calls
  BY ConstantsAssumption DEF Inv, HelperType
<1>28. QED
  BY <1>1, <1>2, <1>3, <1>4, <1>5, <1>5a, <1>6, <1>7, <1>8, <1>9, <1>10, <1>11, <1>12, <1>13,
     <1>14, <1>15, <1>16, <1>17, <1>18, <1>19, <1>19a, <1>20, <1>21, <1>22, <1>23, <1>24,
     <1>24a, <1>25, <1>26, <1>27
     DEF Next, OpStep, RestartStep, ServerStep, CoreStep

\* The first restart is alone.
LEMMA InitSerial == Init => SerialInv
<1> SUFFICES ASSUME Init PROVE OpInv /\ HeldInv /\ ReachInv
  BY DEF SerialInv
<1>1. OpInv
  BY ConstantsAssumption
     DEF Init, OpInv, Alone, Active, StageInv, ChildInv, Ops, Ending, Starting
<1>2. HeldInv /\ ReachInv
  BY DEF Init, HeldInv, ReachInv, Live, LoopIdle
<1>3. QED BY <1>1, <1>2

\* Every step keeps the whole.
LEMMA SerialKept == Inv /\ SerialInv /\ [Next]_vars => SerialInv'
<1>1. [Next]_vars => world' = world
  BY DEF Next, vars
<1>2. QED BY <1>1, FailedStays, OpKept, StrayKept DEF SerialInv

\* When operations wait for each other and nothing is under way, every core
\* that runs is the one the application talks to (service.dart:73-120,
\* hub.rs:42-94), for any number of restarts and shutdowns, however late the
\* helper answers and whatever crashes or fails to start, while no write to a
\* core has failed.
THEOREM NoCoreLeftBehind == Spec => []NoStrayCore
<1>1. Inv /\ SerialInv => NoStrayCore
  <2> SUFFICES ASSUME Inv, SerialInv, world.serial, NoneFailed, Quiet, NEW k \in Cores,
                      Live(k)
               PROVE  socket = k
    BY DEF NoStrayCore
  <2>1. ReachInv /\ core[k] = "connected" /\ k \notin closed
    BY DEF SerialInv, Quiet, Live
  <2>2. ~Queued(k)
    BY DEF Queued, Quiet
  <2>3. ~Doomed(k)
    BY DEF Doomed, Quiet, Settled, Ending
  <2>4. QED BY <2>1, <2>2, <2>3 DEF ReachInv
<1>2. QED BY <1>1, InitInv, InvKept, InitSerial, SerialKept, PTL DEF Spec

-----------------------------------------------------------------------------
(* The first restart, while no other operation has begun.                    *)

\* Another operation has begun, or a core has crashed.
Disturbed ==
    \/ \E o \in Ops \ {First} : pc[o] \notin {"idle", "ignored"}
    \/ \E k \in Cores : core[k] = "crashed"

\* The helper answers in time, or there is none.
Patient == world.windows => ~world.slow

\* A restart asks the helper once, and makes a core once.
AskedOnce ==
    \A r \in Restarts :
        pc[r] \in {"idle", "ignored", "server"} \cup Ending => startReq[r] = "none"

MadeOnce ==
    \A r \in Restarts :
        /\ pc[r] \notin {"spawned", "done"} => core[<<r, "app">>] = "none"
        /\ startReq[r] # "ok" => core[<<r, "helper">>] = "none"

\* The first restart has asked the helper, if there is one, and has started a
\* core itself only after the helper has failed.
FirstStage ==
    /\ pc[First] \in {"server", "starting", "spawn", "spawned", "done", "failed"}
    /\ pc[First] = "server" => startReq[First] = "none"
    /\ pc[First] \in {"spawn", "spawned", "failed"} => startReq[First] \in {"none", "failed"}
    /\ core[<<First, "app">>] # "none" => startReq[First] \in {"none", "failed"}
    /\ startReq[First] # "none" => world.windows
    /\ startReq[First] # "ok" => child = Nil
    /\ \A o \in Ops : stopReq[o] = "none"
    /\ \A r \in Restarts \ {First} :
          core[<<r, "app">>] = "none" /\ startReq[r] = "none"

\* A core that has connected is in one place: in the queue, at the loop, or at
\* the socket.
FirstSocket ==
    /\ closed = {}
    /\ server.at \in {"idle", "complete"}
    /\ backlog # <<>> => socket = Nil /\ server.at = "idle" /\ Tail(backlog) = <<>>
    /\ backlog # <<>> \/ server.at = "complete" \/ socket # Nil
          <=> \E k \in Cores : core[k] = "connected"
    /\ \A c \in Calls : call[c].at # "lost"

StartInv == Patient /\ ~Disturbed => FirstStage /\ FirstSocket

\* Only the requests of the world are made.
CallsInv == \A c \in Calls \ world.calls : call[c] = At("idle")

FirstInv == AskedOnce /\ MadeOnce /\ StartInv /\ CallsInv

\* Nobody asks again.
LEMMA AskedKept ==
    ASSUME Inv, AskedOnce, [Next]_vars
    PROVE  AskedOnce'
<1> USE DEF Goto, appVars, callVars, coreVars, closeVars, serverVars, helperVars
<1>a. /\ Restarts \subseteq Ops /\ First \in Restarts /\ First \in Ops /\ Shutdowns \subseteq Ops
      /\ \A o \in Ops : o \in Restarts <=> o \notin Shutdowns
  BY ConstantsAssumption DEF Ops
<1>b. pc \in [Ops -> {"idle", "ignored", "shutdown", "stopping", "destroy", "closing",
                      "kill", "server", "starting", "spawn", "spawned", "done", "failed"}]
  BY DEF Inv, AppType
<1>c. /\ stopReq \in [Ops -> {"none", "sent", "done"}]
      /\ startReq \in [Restarts -> {"none", "sent", "stopped", "ok", "failed"}]
      /\ child \in Cores \cup {Nil}
  BY DEF Inv, HelperType
<1>1. CASE UNCHANGED vars
  BY <1>1 DEF vars, AskedOnce
<1>2. ASSUME NEW o \in Ops, AskStop(o), world' = world PROVE AskedOnce'
  BY <1>2, <1>a, <1>b DEF AskStop, AskedOnce, Ending
<1>3. ASSUME NEW o \in Ops, StopAnswered(o), world' = world PROVE AskedOnce'
  BY <1>3 DEF StopAnswered, AskedOnce, Ending
<1>4. ASSUME NEW o \in Ops, HelperStop(o), world' = world PROVE AskedOnce'
  BY <1>4 DEF HelperStop, AskedOnce
<1>5. ASSUME NEW o \in Ops, DestroySocket(o), world' = world PROVE AskedOnce'
  BY <1>5, <1>a, <1>b DEF DestroySocket, AskedOnce, Ending
<1>6. ASSUME NEW o \in Ops, SocketDestroyed(o), world' = world PROVE AskedOnce'
  BY <1>6 DEF SocketDestroyed, AskedOnce, Ending
<1>6a. ASSUME NEW o \in Ops, SocketBroken(o), world' = world PROVE AskedOnce'
  BY <1>6a, <1>a, <1>b DEF SocketBroken, AskedOnce, Ending
<1>7. ASSUME NEW o \in Ops, Kill(o), world' = world PROVE AskedOnce'
  BY <1>7 DEF Kill, AskedOnce, Ending
<1>8. ASSUME NEW r \in Restarts, RestartBegin(r), world' = world PROVE AskedOnce'
  BY <1>8 DEF RestartBegin, AskedOnce
<1>9. ASSUME NEW r \in Restarts, RestartIgnored(r), world' = world PROVE AskedOnce'
  BY <1>9 DEF RestartIgnored, AskedOnce
<1>10. ASSUME NEW r \in Restarts, AskStart(r), world' = world PROVE AskedOnce'
  BY <1>10, <1>a, <1>b, <1>c DEF AskStart, AskedOnce, Ending
<1>11. ASSUME NEW r \in Restarts, StartedByHelper(r), world' = world PROVE AskedOnce'
  BY <1>11 DEF StartedByHelper, AskedOnce, Ending
<1>12. ASSUME NEW r \in Restarts, StartByHelperFailed(r), world' = world PROVE AskedOnce'
  BY <1>12 DEF StartByHelperFailed, AskedOnce, Ending
<1>13. ASSUME NEW r \in Restarts, HelperStartStops(r), world' = world PROVE AskedOnce'
  BY <1>13 DEF HelperStartStops, AskedOnce
<1>14. ASSUME NEW r \in Restarts, HelperStartSpawns(r), world' = world PROVE AskedOnce'
  BY <1>14, <1>c DEF HelperStartSpawns, AskedOnce
<1>15. ASSUME NEW r \in Restarts, Spawn(r), world' = world PROVE AskedOnce'
  BY <1>15, <1>a, <1>b DEF Spawn, AskedOnce, Ending
<1>16. ASSUME NEW r \in Restarts, Spawned(r), world' = world PROVE AskedOnce'
  BY <1>16 DEF Spawned, AskedOnce, Ending
<1>17. ASSUME NEW s \in Shutdowns, ShutdownBegin(s), world' = world PROVE AskedOnce'
  BY <1>17 DEF ShutdownBegin, AskedOnce
<1>18. ASSUME NEW k \in Cores, Dial(k), world' = world PROVE AskedOnce'
  BY <1>18 DEF Dial, AskedOnce
<1>19. ASSUME NEW k \in Cores, Exit(k), world' = world PROVE AskedOnce'
  BY <1>19 DEF Exit, AskedOnce
<1>19a. ASSUME NEW k \in Cores, WriteFails(k), world' = world PROVE AskedOnce'
  BY <1>19a DEF WriteFails, AskedOnce
<1>20. ASSUME NEW k \in Cores, Crash(k), world' = world PROVE AskedOnce'
  BY <1>20 DEF Crash, AskedOnce
<1>21. ASSUME NEW c \in world.calls, SendMessage(c), world' = world PROVE AskedOnce'
  BY <1>21 DEF SendMessage, AskedOnce
<1>22. ASSUME NEW c \in world.calls, Reply(c), world' = world PROVE AskedOnce'
  BY <1>22 DEF Reply, AskedOnce
<1>23. ASSUME Accept, world' = world PROVE AskedOnce'
  BY <1>23 DEF Accept, AskedOnce
<1>24. ASSUME LastDestroyed, world' = world PROVE AskedOnce'
  BY <1>24 DEF LastDestroyed, AskedOnce
<1>24a. ASSUME LastBroken, world' = world PROVE AskedOnce'
  BY <1>24a DEF LastBroken, AskedOnce
<1>25. ASSUME AcceptComplete, world' = world PROVE AskedOnce'
  BY <1>25 DEF AcceptComplete, AskedOnce
<1>26. ASSUME InstallHelper, world' = world PROVE AskedOnce'
  BY <1>26 DEF InstallHelper, AskedOnce
<1>27. QED
  BY <1>1, <1>2, <1>3, <1>4, <1>5, <1>6, <1>6a, <1>7, <1>8, <1>9, <1>10, <1>11, <1>12, <1>13,
     <1>14, <1>15, <1>16, <1>17, <1>18, <1>19, <1>19a, <1>20, <1>21, <1>22, <1>23, <1>24,
     <1>24a, <1>25, <1>26
     DEF Next, OpStep, RestartStep, ServerStep, CoreStep

\* A core that is made was not there before.
LEMMA MadeKept ==
    ASSUME Inv, AskedOnce, MadeOnce, [Next]_vars
    PROVE  MadeOnce'
<1> USE DEF Goto, appVars, callVars, coreVars, closeVars, serverVars, helperVars
<1>a. /\ Restarts \subseteq Ops /\ First \in Restarts /\ First \in Ops /\ Shutdowns \subseteq Ops
      /\ \A o \in Ops : o \in Restarts <=> o \notin Shutdowns
  BY ConstantsAssumption DEF Ops
<1>b. pc \in [Ops -> {"idle", "ignored", "shutdown", "stopping", "destroy", "closing",
                      "kill", "server", "starting", "spawn", "spawned", "done", "failed"}]
  BY DEF Inv, AppType
<1>c. /\ stopReq \in [Ops -> {"none", "sent", "done"}]
      /\ startReq \in [Restarts -> {"none", "sent", "stopped", "ok", "failed"}]
      /\ child \in Cores \cup {Nil}
  BY DEF Inv, HelperType
<1>d. Nil \notin Cores /\ core \in [Cores -> {"none", "spawned", "connected", "dead", "crashed"}]
  BY CoresAssumption DEF Inv, CoreType
<1>e. \A r \in Restarts :
        /\ <<r, "app">> \in Cores /\ <<r, "helper">> \in Cores
        /\ <<r, "app">> # Nil /\ <<r, "helper">> # Nil
        /\ \A q \in Restarts : <<r, "app">> # <<q, "helper">>
        /\ \A q \in Restarts : r # q => <<r, "app">> # <<q, "app">>
        /\ \A q \in Restarts : r # q => <<r, "helper">> # <<q, "helper">>
  BY <1>d DEF Cores
<1>1. CASE UNCHANGED vars
  BY <1>1 DEF vars, MadeOnce
<1>2. ASSUME NEW o \in Ops, AskStop(o), world' = world PROVE MadeOnce'
  BY <1>2, <1>a, <1>b DEF AskStop, MadeOnce
<1>3. ASSUME NEW o \in Ops, StopAnswered(o), world' = world PROVE MadeOnce'
  BY <1>3, <1>a, <1>b DEF StopAnswered, MadeOnce
<1>4. ASSUME NEW o \in Ops, HelperStop(o), world' = world PROVE MadeOnce'
  BY <1>4, <1>d, <1>e DEF HelperStop, Killed, MadeOnce, Live
<1>5. ASSUME NEW o \in Ops, DestroySocket(o), world' = world PROVE MadeOnce'
  BY <1>5, <1>a, <1>b DEF DestroySocket, MadeOnce
<1>6. ASSUME NEW o \in Ops, SocketDestroyed(o), world' = world PROVE MadeOnce'
  BY <1>6, <1>a, <1>b DEF SocketDestroyed, MadeOnce
<1>6a. ASSUME NEW o \in Ops, SocketBroken(o), world' = world PROVE MadeOnce'
  BY <1>6a, <1>a, <1>b DEF SocketBroken, MadeOnce
<1>7. ASSUME NEW o \in Ops, Kill(o), world' = world PROVE MadeOnce'
  BY <1>7, <1>a, <1>b, <1>d, <1>e DEF Kill, Killed, MadeOnce, Live
<1>8. ASSUME NEW r \in Restarts, RestartBegin(r), world' = world PROVE MadeOnce'
  BY <1>8, <1>a, <1>b DEF RestartBegin, MadeOnce
<1>9. ASSUME NEW r \in Restarts, RestartIgnored(r), world' = world PROVE MadeOnce'
  BY <1>9, <1>a, <1>b DEF RestartIgnored, MadeOnce
<1>10. ASSUME NEW r \in Restarts, AskStart(r), world' = world PROVE MadeOnce'
  <2>1. /\ core' = core
        /\ startReq' \in {startReq, [startReq EXCEPT ![r] = "sent"]}
        /\ pc[r] = "server"
        /\ pc' \in {[pc EXCEPT ![r] = "starting"], [pc EXCEPT ![r] = "spawn"]}
    BY <1>10 DEF AskStart
  <2>2. startReq[r] = "none"
    BY <2>1 DEF AskedOnce
  <2>3. \A q \in Restarts : startReq'[q] # "ok" => startReq[q] # "ok"
    BY <2>1, <2>2, <1>c
  <2>4. \A q \in Restarts : pc'[q] \notin {"spawned", "done"} => pc[q] \notin {"spawned", "done"}
    BY <2>1, <1>a, <1>b
  <2>5. QED BY <2>1, <2>3, <2>4 DEF MadeOnce
<1>11. ASSUME NEW r \in Restarts, StartedByHelper(r), world' = world PROVE MadeOnce'
  BY <1>11, <1>a, <1>b DEF StartedByHelper, MadeOnce
<1>12. ASSUME NEW r \in Restarts, StartByHelperFailed(r), world' = world PROVE MadeOnce'
  BY <1>12, <1>a, <1>b DEF StartByHelperFailed, MadeOnce
<1>13. ASSUME NEW r \in Restarts, HelperStartStops(r), world' = world PROVE MadeOnce'
  BY <1>13, <1>c, <1>d, <1>e DEF HelperStartStops, Killed, MadeOnce, Live
<1>14. ASSUME NEW r \in Restarts, HelperStartSpawns(r), world' = world PROVE MadeOnce'
  <2>1. /\ pc' = pc
        /\ startReq[r] = "stopped"
        /\ \/ /\ core' = [core EXCEPT ![<<r, "helper">>] = "spawned"]
              /\ startReq' = [startReq EXCEPT ![r] = "ok"]
           \/ core' = core /\ startReq' = [startReq EXCEPT ![r] = "failed"]
    BY <1>14 DEF HelperStartSpawns
  <2>2. SUFFICES ASSUME NEW q \in Restarts PROVE
        /\ pc[q] \notin {"spawned", "done"} => core'[<<q, "app">>] = "none"
        /\ startReq'[q] # "ok" => core'[<<q, "helper">>] = "none"
    BY <2>1 DEF MadeOnce
  <2>3. core'[<<q, "app">>] = core[<<q, "app">>]
    BY <2>1, <1>e, <1>d
  <2>4. startReq'[q] # "ok" =>
           core'[<<q, "helper">>] = core[<<q, "helper">>] /\ startReq[q] # "ok"
    BY <2>1, <1>e, <1>d, <1>c
  <2>5. QED BY <2>3, <2>4 DEF MadeOnce
<1>15. ASSUME NEW r \in Restarts, Spawn(r), world' = world PROVE MadeOnce'
  <2>1. /\ startReq' = startReq
        /\ pc[r] = "spawn"
        /\ \/ /\ core' = [core EXCEPT ![<<r, "app">>] = "spawned"]
              /\ pc' = [pc EXCEPT ![r] = "spawned"]
           \/ core' = core /\ pc' = [pc EXCEPT ![r] = "failed"]
    BY <1>15 DEF Spawn
  <2>2. SUFFICES ASSUME NEW q \in Restarts PROVE
        /\ pc'[q] \notin {"spawned", "done"} => core'[<<q, "app">>] = "none"
        /\ startReq[q] # "ok" => core'[<<q, "helper">>] = "none"
    BY <2>1 DEF MadeOnce
  <2>3. core'[<<q, "helper">>] = core[<<q, "helper">>]
    BY <2>1, <1>e, <1>d
  <2>4. /\ pc'[q] \notin {"spawned", "done"} => core'[<<q, "app">>] = core[<<q, "app">>]
        /\ pc'[q] \notin {"spawned", "done"} => pc[q] \notin {"spawned", "done"}
    BY <2>1, <1>e, <1>d, <1>b, <1>a
  <2>5. QED BY <2>3, <2>4 DEF MadeOnce
<1>16. ASSUME NEW r \in Restarts, Spawned(r), world' = world PROVE MadeOnce'
  BY <1>16, <1>a, <1>b DEF Spawned, MadeOnce
<1>17. ASSUME NEW s \in Shutdowns, ShutdownBegin(s), world' = world PROVE MadeOnce'
  BY <1>17, <1>a, <1>b DEF ShutdownBegin, MadeOnce
<1>18. ASSUME NEW k \in Cores, Dial(k), world' = world PROVE MadeOnce'
  BY <1>18, <1>d, <1>e DEF Dial, MadeOnce
<1>19. ASSUME NEW k \in Cores, Exit(k), world' = world PROVE MadeOnce'
  BY <1>19, <1>d, <1>e DEF Exit, Killed, MadeOnce
<1>19a. ASSUME NEW k \in Cores, WriteFails(k), world' = world PROVE MadeOnce'
  BY <1>19a DEF WriteFails, MadeOnce
<1>20. ASSUME NEW k \in Cores, Crash(k), world' = world PROVE MadeOnce'
  BY <1>20, <1>d, <1>e DEF Crash, MadeOnce, Live
<1>21. ASSUME NEW c \in world.calls, SendMessage(c), world' = world PROVE MadeOnce'
  BY <1>21 DEF SendMessage, MadeOnce
<1>22. ASSUME NEW c \in world.calls, Reply(c), world' = world PROVE MadeOnce'
  BY <1>22 DEF Reply, MadeOnce
<1>23. ASSUME Accept, world' = world PROVE MadeOnce'
  BY <1>23 DEF Accept, MadeOnce
<1>24. ASSUME LastDestroyed, world' = world PROVE MadeOnce'
  BY <1>24 DEF LastDestroyed, MadeOnce
<1>24a. ASSUME LastBroken, world' = world PROVE MadeOnce'
  BY <1>24a DEF LastBroken, MadeOnce
<1>25. ASSUME AcceptComplete, world' = world PROVE MadeOnce'
  BY <1>25 DEF AcceptComplete, MadeOnce
<1>26. ASSUME InstallHelper, world' = world PROVE MadeOnce'
  BY <1>26 DEF InstallHelper, MadeOnce
<1>27. QED
  BY <1>1, <1>2, <1>3, <1>4, <1>5, <1>6, <1>6a, <1>7, <1>8, <1>9, <1>10, <1>11, <1>12, <1>13,
     <1>14, <1>15, <1>16, <1>17, <1>18, <1>19, <1>19a, <1>20, <1>21, <1>22, <1>23, <1>24,
     <1>24a, <1>25, <1>26
     DEF Next, OpStep, RestartStep, ServerStep, CoreStep

\* Whoever has begun stays so, and a crashed core is not made again.
LEMMA DisturbedKept ==
    ASSUME Inv, MadeOnce, Disturbed, [Next]_vars
    PROVE  Disturbed'
<1> USE DEF Goto, appVars, callVars, coreVars, closeVars, serverVars, helperVars
<1>a. /\ Restarts \subseteq Ops /\ First \in Restarts /\ First \in Ops /\ Shutdowns \subseteq Ops
      /\ \A o \in Ops : o \in Restarts <=> o \notin Shutdowns
  BY ConstantsAssumption DEF Ops
<1>b. pc \in [Ops -> {"idle", "ignored", "shutdown", "stopping", "destroy", "closing",
                      "kill", "server", "starting", "spawn", "spawned", "done", "failed"}]
  BY DEF Inv, AppType
<1>d. Nil \notin Cores /\ core \in [Cores -> {"none", "spawned", "connected", "dead", "crashed"}]
  BY CoresAssumption DEF Inv, CoreType
<1>1. CASE UNCHANGED vars
  BY <1>1 DEF vars, Disturbed
<1>2. ASSUME NEW o \in Ops, AskStop(o), world' = world PROVE Disturbed'
  BY <1>2, <1>b DEF AskStop, Disturbed
<1>3. ASSUME NEW o \in Ops, StopAnswered(o), world' = world PROVE Disturbed'
  BY <1>3 DEF StopAnswered, Disturbed
<1>4. ASSUME NEW o \in Ops, HelperStop(o), world' = world PROVE Disturbed'
  BY <1>4 DEF HelperStop, Killed, Disturbed, Live
<1>5. ASSUME NEW o \in Ops, DestroySocket(o), world' = world PROVE Disturbed'
  BY <1>5, <1>b DEF DestroySocket, Disturbed
<1>6. ASSUME NEW o \in Ops, SocketDestroyed(o), world' = world PROVE Disturbed'
  BY <1>6 DEF SocketDestroyed, Disturbed
<1>6a. ASSUME NEW o \in Ops, SocketBroken(o), world' = world PROVE Disturbed'
  BY <1>6a, <1>b DEF SocketBroken, Disturbed
<1>7. ASSUME NEW o \in Ops, Kill(o), world' = world PROVE Disturbed'
  BY <1>7 DEF Kill, Killed, Disturbed, Live
<1>8. ASSUME NEW r \in Restarts, RestartBegin(r), world' = world PROVE Disturbed'
  BY <1>8 DEF RestartBegin, Disturbed
<1>9. ASSUME NEW r \in Restarts, RestartIgnored(r), world' = world PROVE Disturbed'
  BY <1>9 DEF RestartIgnored, Disturbed
<1>10. ASSUME NEW r \in Restarts, AskStart(r), world' = world PROVE Disturbed'
  BY <1>10, <1>b DEF AskStart, Disturbed
<1>11. ASSUME NEW r \in Restarts, StartedByHelper(r), world' = world PROVE Disturbed'
  BY <1>11 DEF StartedByHelper, Disturbed
<1>12. ASSUME NEW r \in Restarts, StartByHelperFailed(r), world' = world PROVE Disturbed'
  BY <1>12 DEF StartByHelperFailed, Disturbed
<1>13. ASSUME NEW r \in Restarts, HelperStartStops(r), world' = world PROVE Disturbed'
  BY <1>13 DEF HelperStartStops, Killed, Disturbed, Live
<1>14. ASSUME NEW r \in Restarts, HelperStartSpawns(r), world' = world PROVE Disturbed'
  <2>1. /\ pc' = pc
        /\ core[<<r, "helper">>] = "none"
        /\ core' \in {core, [core EXCEPT ![<<r, "helper">>] = "spawned"]}
    BY <1>14 DEF HelperStartSpawns, MadeOnce
  <2>2. \A k \in Cores : core[k] = "crashed" => core'[k] = "crashed"
    BY <2>1, <1>d
  <2>3. QED BY <2>1, <2>2 DEF Disturbed
<1>15. ASSUME NEW r \in Restarts, Spawn(r), world' = world PROVE Disturbed'
  <2>1. /\ pc[r] = "spawn"
        /\ core[<<r, "app">>] = "none"
        /\ core' \in {core, [core EXCEPT ![<<r, "app">>] = "spawned"]}
        /\ pc' \in {[pc EXCEPT ![r] = "spawned"], [pc EXCEPT ![r] = "failed"]}
    BY <1>15 DEF Spawn, MadeOnce
  <2>2. \A k \in Cores : core[k] = "crashed" => core'[k] = "crashed"
    BY <2>1, <1>d
  <2>3. QED BY <2>1, <2>2, <1>a, <1>b DEF Disturbed
<1>16. ASSUME NEW r \in Restarts, Spawned(r), world' = world PROVE Disturbed'
  BY <1>16 DEF Spawned, Disturbed
<1>17. ASSUME NEW s \in Shutdowns, ShutdownBegin(s), world' = world PROVE Disturbed'
  BY <1>17 DEF ShutdownBegin, Disturbed
<1>18. ASSUME NEW k \in Cores, Dial(k), world' = world PROVE Disturbed'
  BY <1>18 DEF Dial, Disturbed
<1>19. ASSUME NEW k \in Cores, Exit(k), world' = world PROVE Disturbed'
  BY <1>19 DEF Exit, Killed, Disturbed
<1>19a. ASSUME NEW k \in Cores, WriteFails(k), world' = world PROVE Disturbed'
  BY <1>19a DEF WriteFails, Disturbed
<1>20. ASSUME NEW k \in Cores, Crash(k), world' = world PROVE Disturbed'
  BY <1>20 DEF Crash, Disturbed
<1>21. ASSUME NEW c \in world.calls, SendMessage(c), world' = world PROVE Disturbed'
  BY <1>21 DEF SendMessage, Disturbed
<1>22. ASSUME NEW c \in world.calls, Reply(c), world' = world PROVE Disturbed'
  BY <1>22 DEF Reply, Disturbed
<1>23. ASSUME Accept, world' = world PROVE Disturbed'
  BY <1>23 DEF Accept, Disturbed
<1>24. ASSUME LastDestroyed, world' = world PROVE Disturbed'
  BY <1>24 DEF LastDestroyed, Disturbed
<1>24a. ASSUME LastBroken, world' = world PROVE Disturbed'
  BY <1>24a DEF LastBroken, Disturbed
<1>25. ASSUME AcceptComplete, world' = world PROVE Disturbed'
  BY <1>25 DEF AcceptComplete, Disturbed
<1>26. ASSUME InstallHelper, world' = world PROVE Disturbed'
  BY <1>26 DEF InstallHelper, Disturbed
<1>27. QED
  BY <1>1, <1>2, <1>3, <1>4, <1>5, <1>6, <1>6a, <1>7, <1>8, <1>9, <1>10, <1>11, <1>12, <1>13,
     <1>14, <1>15, <1>16, <1>17, <1>18, <1>19, <1>19a, <1>20, <1>21, <1>22, <1>23, <1>24,
     <1>24a, <1>25, <1>26
     DEF Next, OpStep, RestartStep, ServerStep, CoreStep

\* The first restart goes on alone.
LEMMA StartKept ==
    ASSUME Inv, MadeOnce, FirstStage, FirstSocket, Patient, ~Disturbed, ~Disturbed', [Next]_vars
    PROVE  FirstStage' /\ FirstSocket'
<1> USE DEF Goto, appVars, callVars, coreVars, closeVars, serverVars, helperVars
<1>a. /\ Restarts \subseteq Ops /\ First \in Restarts /\ First \in Ops /\ Shutdowns \subseteq Ops
      /\ \A o \in Ops : o \in Restarts <=> o \notin Shutdowns
  BY ConstantsAssumption DEF Ops
<1>b. pc \in [Ops -> {"idle", "ignored", "shutdown", "stopping", "destroy", "closing",
                      "kill", "server", "starting", "spawn", "spawned", "done", "failed"}]
  BY DEF Inv, AppType
<1>c. /\ stopReq \in [Ops -> {"none", "sent", "done"}]
      /\ startReq \in [Restarts -> {"none", "sent", "stopped", "ok", "failed"}]
      /\ child \in Cores \cup {Nil}
  BY DEF Inv, HelperType
<1>d. Nil \notin Cores /\ core \in [Cores -> {"none", "spawned", "connected", "dead", "crashed"}]
  BY CoresAssumption DEF Inv, CoreType
<1>e. \A r \in Restarts :
        /\ <<r, "app">> \in Cores /\ <<r, "helper">> \in Cores
        /\ <<r, "app">> # Nil /\ <<r, "helper">> # Nil
        /\ \A q \in Restarts : <<r, "app">> # <<q, "helper">>
        /\ \A q \in Restarts : r # q => <<r, "app">> # <<q, "app">>
        /\ \A q \in Restarts : r # q => <<r, "helper">> # <<q, "helper">>
  BY <1>d DEF Cores
<1>g. \A o \in Ops : pc[o] \notin {"idle", "ignored"} => o = First
  BY DEF Disturbed
<1>h. \A r \in Restarts : startReq[r] # "none" => r = First
  BY DEF FirstStage
<1>i. \A k \in Cores : core[k] # "none" => k = <<First, "app">> \/ k = <<First, "helper">>
  <2> SUFFICES ASSUME NEW k \in Cores, core[k] # "none"
               PROVE  k = <<First, "app">> \/ k = <<First, "helper">>
    OBVIOUS
  <2>1. PICK r \in Restarts : k = <<r, "app">> \/ k = <<r, "helper">>
    BY DEF Cores
  <2>2. CASE k = <<r, "app">>
    BY <2>2 DEF FirstStage
  <2>3. CASE k = <<r, "helper">>
    BY <2>3, <1>h DEF MadeOnce
  <2>4. QED BY <2>1, <2>2, <2>3
<1>j. \A j, k \in Cores : core[j] # "none" /\ core[k] # "none" => j = k
  BY <1>a, <1>i DEF FirstStage, MadeOnce
<1>k. helperUp => world.windows
  BY DEF Inv, HelperType
<1>1. CASE UNCHANGED vars
  <2>1. FirstStage'
    BY <1>1 DEF vars, FirstStage
  <2>2. FirstSocket'
    BY <1>1 DEF vars, FirstSocket
  <2>3. QED BY <2>1, <2>2
<1>2. ASSUME NEW o \in Ops, AskStop(o), world' = world
      PROVE FirstStage' /\ FirstSocket'
  <2>1. FirstStage'
    BY <1>2 DEF AskStop, FirstStage, Disturbed
  <2>2. FirstSocket'
    BY <1>2 DEF AskStop, FirstSocket
  <2>3. QED BY <2>1, <2>2
<1>3. ASSUME NEW o \in Ops, StopAnswered(o), world' = world
      PROVE FirstStage' /\ FirstSocket'
  <2>1. FirstStage'
    BY <1>3 DEF StopAnswered, FirstStage
  <2>2. FirstSocket'
    BY <1>3 DEF StopAnswered, FirstSocket
  <2>3. QED BY <2>1, <2>2
<1>4. ASSUME NEW o \in Ops, HelperStop(o), world' = world
      PROVE FirstStage' /\ FirstSocket'
  <2>1. FirstStage'
    BY <1>4 DEF HelperStop, FirstStage
  <2>2. FirstSocket'
    BY <1>4 DEF HelperStop, FirstStage
  <2>3. QED BY <2>1, <2>2
<1>5. ASSUME NEW o \in Ops, DestroySocket(o), world' = world
      PROVE FirstStage' /\ FirstSocket'
  <2>1. FirstStage'
    BY <1>5, <1>a, <1>b DEF DestroySocket, FirstStage
  <2>2. FirstSocket'
    BY <1>5 DEF DestroySocket, FirstStage, Disturbed
  <2>3. QED BY <2>1, <2>2
<1>6. ASSUME NEW o \in Ops, SocketDestroyed(o), world' = world
      PROVE FirstStage' /\ FirstSocket'
  <2>1. FirstStage'
    BY <1>6 DEF SocketDestroyed, FirstStage
  <2>2. FirstSocket'
    BY <1>6 DEF SocketDestroyed, FirstStage, Disturbed
  <2>3. QED BY <2>1, <2>2
<1>6a. ASSUME NEW o \in Ops, SocketBroken(o), world' = world
      PROVE FirstStage' /\ FirstSocket'
  BY <1>6a DEF SocketBroken, FirstStage, Disturbed
<1>7. ASSUME NEW o \in Ops, Kill(o), world' = world
      PROVE FirstStage' /\ FirstSocket'
  <2>1. FirstStage'
    BY <1>7 DEF Kill, FirstStage, Disturbed
  <2>2. FirstSocket'
    BY <1>7 DEF Kill, FirstStage, Disturbed
  <2>3. QED BY <2>1, <2>2
<1>8. ASSUME NEW r \in Restarts, RestartBegin(r), world' = world
      PROVE FirstStage' /\ FirstSocket'
  <2>1. FirstStage'
    BY <1>8 DEF RestartBegin, FirstStage
  <2>2. FirstSocket'
    BY <1>8, <1>a, <1>b DEF RestartBegin, FirstStage, Disturbed
  <2>3. QED BY <2>1, <2>2
<1>9. ASSUME NEW r \in Restarts, RestartIgnored(r), world' = world
      PROVE FirstStage' /\ FirstSocket'
  <2>1. FirstStage'
    BY <1>9 DEF RestartIgnored, FirstStage
  <2>2. FirstSocket'
    BY <1>9 DEF RestartIgnored, FirstSocket
  <2>3. QED BY <2>1, <2>2
<1>10. ASSUME NEW r \in Restarts, AskStart(r), world' = world
      PROVE FirstStage' /\ FirstSocket'
  <2>1. FirstStage'
    <3>1. /\ r = First /\ core' = core /\ child' = child /\ stopReq' = stopReq
          /\ startReq[First] = "none"
          /\ \/ helperUp /\ pc' = [pc EXCEPT ![First] = "starting"]
                         /\ startReq' = [startReq EXCEPT ![First] = "sent"]
             \/ startReq' = startReq /\ pc' = [pc EXCEPT ![First] = "spawn"]
      BY <1>10, <1>a, <1>g DEF AskStart, FirstStage
    <3>2. core[<<First, "app">>] = "none"
      BY <1>10, <3>1 DEF MadeOnce, AskStart
    <3>3. startReq'[First] # "none" => world.windows
      BY <3>1, <1>k
    <3>4. QED BY <1>10, <3>1, <3>2, <3>3, <1>a, <1>b, <1>c DEF FirstStage
  <2>2. FirstSocket'
    BY <1>10 DEF AskStart, FirstSocket
  <2>3. QED BY <2>1, <2>2
<1>11. ASSUME NEW r \in Restarts, StartedByHelper(r), world' = world
      PROVE FirstStage' /\ FirstSocket'
  <2>1. FirstStage'
    BY <1>11 DEF StartedByHelper, FirstStage
  <2>2. FirstSocket'
    BY <1>11 DEF StartedByHelper, FirstSocket
  <2>3. QED BY <2>1, <2>2
<1>12. ASSUME NEW r \in Restarts, StartByHelperFailed(r), world' = world
      PROVE FirstStage' /\ FirstSocket'
  <2>1. FirstStage'
    BY <1>12 DEF StartByHelperFailed, FirstStage, Patient
  <2>2. FirstSocket'
    BY <1>12 DEF StartByHelperFailed, FirstSocket
  <2>3. QED BY <2>1, <2>2
<1>13. ASSUME NEW r \in Restarts, HelperStartStops(r), world' = world
      PROVE FirstStage' /\ FirstSocket'
  <2>1. FirstStage'
    <3>1. r = First /\ core' = core /\ child' = Nil
      BY <1>13 DEF HelperStartStops, Killed, FirstStage
    <3>2. QED BY <1>13, <3>1, <1>a, <1>c DEF HelperStartStops, FirstStage
  <2>2. FirstSocket'
    <3>1. r = First /\ core' = core /\ child' = Nil
      BY <1>13 DEF HelperStartStops, Killed, FirstStage
    <3>2. QED BY <1>13, <3>1 DEF HelperStartStops, FirstSocket
  <2>3. QED BY <2>1, <2>2
<1>14. ASSUME NEW r \in Restarts, HelperStartSpawns(r), world' = world
      PROVE FirstStage' /\ FirstSocket'
  <2>1. FirstStage'
    <3>1. /\ r = First /\ pc' = pc /\ stopReq' = stopReq /\ startReq[First] = "stopped"
          /\ \/ /\ core' = [core EXCEPT ![<<First, "helper">>] = "spawned"]
                /\ startReq' = [startReq EXCEPT ![First] = "ok"]
             \/ /\ core' = core /\ child' = child
                /\ startReq' = [startReq EXCEPT ![First] = "failed"]
      BY <1>14, <1>h DEF HelperStartSpawns
    <3>2. core[<<First, "app">>] = "none" /\ pc[First] \in {"starting", "done"}
      BY <3>1 DEF FirstStage
    <3>3. \A q \in Restarts : core'[<<q, "app">>] = core[<<q, "app">>]
      BY <3>1, <1>d, <1>e
    <3>4. QED BY <1>14, <3>1, <3>2, <3>3, <1>a, <1>c DEF FirstStage
  <2>2. FirstSocket'
    <3>1. core[<<r, "helper">>] = "none"
      BY <1>14 DEF HelperStartSpawns, MadeOnce
    <3>2. core' \in {core, [core EXCEPT ![<<r, "helper">>] = "spawned"]}
      BY <1>14 DEF HelperStartSpawns
    <3>3. \A k \in Cores : core'[k] = "connected" <=> core[k] = "connected"
      BY <3>1, <3>2, <1>d
    <3>4. QED BY <1>14, <3>3 DEF HelperStartSpawns, FirstSocket
  <2>3. QED BY <2>1, <2>2
<1>15. ASSUME NEW r \in Restarts, Spawn(r), world' = world
      PROVE FirstStage' /\ FirstSocket'
  <2>1. FirstStage'
    <3>1. /\ r = First /\ UNCHANGED <<child, stopReq, startReq>>
          /\ startReq[First] \in {"none", "failed"}
          /\ \/ /\ core' = [core EXCEPT ![<<First, "app">>] = "spawned"]
                /\ pc' = [pc EXCEPT ![First] = "spawned"]
             \/ core' = core /\ pc' = [pc EXCEPT ![First] = "failed"]
      BY <1>15, <1>a, <1>g DEF Spawn, FirstStage
    <3>2. \A q \in Restarts \ {First} : core'[<<q, "app">>] = core[<<q, "app">>]
      BY <3>1, <1>d, <1>e
    <3>3. pc'[First] \in {"spawned", "failed"}
      BY <3>1, <1>a, <1>b
    <3>4. QED BY <1>15, <3>1, <3>2, <3>3 DEF FirstStage
  <2>2. FirstSocket'
    <3>1. core[<<r, "app">>] = "none"
      BY <1>15 DEF Spawn, MadeOnce
    <3>2. core' \in {core, [core EXCEPT ![<<r, "app">>] = "spawned"]}
      BY <1>15 DEF Spawn
    <3>3. \A k \in Cores : core'[k] = "connected" <=> core[k] = "connected"
      BY <3>1, <3>2, <1>d
    <3>4. QED BY <1>15, <3>3 DEF Spawn, FirstSocket
  <2>3. QED BY <2>1, <2>2
<1>16. ASSUME NEW r \in Restarts, Spawned(r), world' = world
      PROVE FirstStage' /\ FirstSocket'
  <2>1. FirstStage'
    BY <1>16 DEF Spawned, FirstStage
  <2>2. FirstSocket'
    BY <1>16 DEF Spawned, FirstSocket
  <2>3. QED BY <2>1, <2>2
<1>17. ASSUME NEW s \in Shutdowns, ShutdownBegin(s), world' = world
      PROVE FirstStage' /\ FirstSocket'
  <2>1. FirstStage'
    BY <1>17, <1>a, <1>b DEF ShutdownBegin, Disturbed
  <2>2. FirstSocket'
    BY <1>17, <1>a, <1>b DEF ShutdownBegin, Disturbed
  <2>3. QED BY <2>1, <2>2
<1>18. ASSUME NEW k \in Cores, Dial(k), world' = world
      PROVE FirstStage' /\ FirstSocket'
  <2>1. FirstStage'
    <3>1. \A j \in Cores : core'[j] = "none" <=> core[j] = "none"
      BY <1>18 DEF Dial
    <3>2. QED BY <1>18, <3>1, <1>a, <1>e DEF Dial, FirstStage
  <2>2. FirstSocket'
    <3>1. core[k] = "spawned" /\ core'[k] = "connected" /\ backlog' = Append(backlog, k)
      BY <1>18, <1>d DEF Dial
    <3>2. \A j \in Cores : core[j] # "connected"
      BY <3>1, <1>j
    <3>3. backlog = <<>> /\ server.at = "idle" /\ socket = Nil
      BY <3>2 DEF FirstSocket
    <3>4. backlog' # <<>> /\ Tail(backlog') = <<>>
      BY <3>1, <3>3
    <3>5. QED BY <1>18, <3>1, <3>3, <3>4 DEF Dial, FirstSocket
  <2>3. QED BY <2>1, <2>2
<1>19. ASSUME NEW k \in Cores, Exit(k), world' = world
      PROVE FirstStage' /\ FirstSocket'
  <2>1. FirstStage'
    BY <1>19, <1>b, <1>c, <1>d DEF Exit, Killed, FirstStage, Disturbed, Patient
  <2>2. FirstSocket'
    BY <1>19 DEF Exit, FirstSocket
  <2>3. QED BY <2>1, <2>2
<1>19a. ASSUME NEW k \in Cores, WriteFails(k), world' = world
      PROVE FirstStage' /\ FirstSocket'
  <2>1. FirstStage'
    BY <1>19a DEF WriteFails, FirstStage
  <2>2. FirstSocket'
    BY <1>19a DEF WriteFails, FirstSocket
  <2>3. QED BY <2>1, <2>2
<1>20. ASSUME NEW k \in Cores, Crash(k), world' = world
      PROVE FirstStage' /\ FirstSocket'
  <2>1. FirstStage'
    BY <1>20, <1>d DEF Crash, Disturbed
  <2>2. FirstSocket'
    BY <1>20, <1>d DEF Crash, Disturbed
  <2>3. QED BY <2>1, <2>2
<1>21. ASSUME NEW c \in world.calls, SendMessage(c), world' = world
      PROVE FirstStage' /\ FirstSocket'
  <2>1. FirstStage'
    BY <1>21 DEF SendMessage, FirstStage
  <2>2. FirstSocket'
    BY <1>21 DEF SendMessage, FirstSocket, At, AtCore
  <2>3. QED BY <2>1, <2>2
<1>22. ASSUME NEW c \in world.calls, Reply(c), world' = world
      PROVE FirstStage' /\ FirstSocket'
  <2>1. FirstStage'
    BY <1>22 DEF Reply, FirstStage
  <2>2. FirstSocket'
    BY <1>22 DEF Reply, FirstSocket
  <2>3. QED BY <2>1, <2>2
<1>23. ASSUME Accept, world' = world
      PROVE FirstStage' /\ FirstSocket'
  <2>1. FirstStage'
    BY <1>23 DEF Accept, FirstStage
  <2>2. FirstSocket'
    BY <1>23 DEF Accept, FirstSocket, LoopAt
  <2>3. QED BY <2>1, <2>2
<1>24. ASSUME LastDestroyed, world' = world
      PROVE FirstStage' /\ FirstSocket'
  <2>1. FirstStage'
    BY <1>24 DEF LastDestroyed, FirstStage
  <2>2. FirstSocket'
    BY <1>24 DEF LastDestroyed, FirstSocket
  <2>3. QED BY <2>1, <2>2
<1>24a. ASSUME LastBroken, world' = world
      PROVE FirstStage' /\ FirstSocket'
  BY <1>24a DEF LastBroken, FirstSocket
<1>25. ASSUME AcceptComplete, world' = world
      PROVE FirstStage' /\ FirstSocket'
  <2>1. FirstStage'
    BY <1>25 DEF AcceptComplete, FirstStage
  <2>2. FirstSocket'
    <3>1. /\ socket' = server.core /\ server' = LoopIdle /\ server.core \in Cores
          /\ call' = [c \in Calls |-> IF call[c].at = "waiting"
                                      THEN AtCore("sent", server.core) ELSE call[c]]
      BY <1>25 DEF AcceptComplete, Complete, Inv, LoopInv
    <3>2. \A c \in Calls : call'[c].at # "lost"
      BY <3>1 DEF FirstSocket, AtCore
    <3>3. backlog = <<>>
      BY <1>25 DEF AcceptComplete, FirstSocket
    <3>4. QED BY <1>25, <3>1, <3>2, <3>3, <1>d DEF AcceptComplete, FirstSocket, LoopIdle
  <2>3. QED BY <2>1, <2>2
<1>26. ASSUME InstallHelper, world' = world
      PROVE FirstStage' /\ FirstSocket'
  <2>1. FirstStage'
    BY <1>26 DEF InstallHelper, FirstStage
  <2>2. FirstSocket'
    BY <1>26 DEF InstallHelper, FirstSocket
  <2>3. QED BY <2>1, <2>2
<1>27. QED
  BY <1>1, <1>2, <1>3, <1>4, <1>5, <1>6, <1>6a, <1>7, <1>8, <1>9, <1>10, <1>11, <1>12, <1>13,
     <1>14, <1>15, <1>16, <1>17, <1>18, <1>19, <1>19a, <1>20, <1>21, <1>22, <1>23, <1>24,
     <1>24a, <1>25, <1>26
     DEF Next, OpStep, RestartStep, ServerStep, CoreStep

\* Nobody makes another request.
LEMMA CallsKept ==
    ASSUME Inv, CallsInv, [Next]_vars
    PROVE  CallsInv'
<1> USE DEF Goto, appVars, callVars, coreVars, closeVars, serverVars, helperVars
<1>1. CASE UNCHANGED vars
  BY <1>1 DEF vars, CallsInv
<1>2. ASSUME NEW o \in Ops, AskStop(o), world' = world PROVE CallsInv'
  BY <1>2 DEF AskStop, CallsInv
<1>3. ASSUME NEW o \in Ops, StopAnswered(o), world' = world PROVE CallsInv'
  BY <1>3 DEF StopAnswered, CallsInv
<1>4. ASSUME NEW o \in Ops, HelperStop(o), world' = world PROVE CallsInv'
  BY <1>4 DEF HelperStop, CallsInv
<1>5. ASSUME NEW o \in Ops, DestroySocket(o), world' = world PROVE CallsInv'
  BY <1>5 DEF DestroySocket, CallsInv
<1>6. ASSUME NEW o \in Ops, SocketDestroyed(o), world' = world PROVE CallsInv'
  BY <1>6 DEF SocketDestroyed, ReplaceCompleter, CallsInv, At
<1>6a. ASSUME NEW o \in Ops, SocketBroken(o), world' = world PROVE CallsInv'
  BY <1>6a DEF SocketBroken, CallsInv
<1>7. ASSUME NEW o \in Ops, Kill(o), world' = world PROVE CallsInv'
  BY <1>7 DEF Kill, CallsInv
<1>8. ASSUME NEW r \in Restarts, RestartBegin(r), world' = world PROVE CallsInv'
  BY <1>8 DEF RestartBegin, ReplaceCompleter, CallsInv, At
<1>9. ASSUME NEW r \in Restarts, RestartIgnored(r), world' = world PROVE CallsInv'
  BY <1>9 DEF RestartIgnored, CallsInv
<1>10. ASSUME NEW r \in Restarts, AskStart(r), world' = world PROVE CallsInv'
  BY <1>10 DEF AskStart, CallsInv
<1>11. ASSUME NEW r \in Restarts, StartedByHelper(r), world' = world PROVE CallsInv'
  BY <1>11 DEF StartedByHelper, CallsInv
<1>12. ASSUME NEW r \in Restarts, StartByHelperFailed(r), world' = world PROVE CallsInv'
  BY <1>12 DEF StartByHelperFailed, CallsInv
<1>13. ASSUME NEW r \in Restarts, HelperStartStops(r), world' = world PROVE CallsInv'
  BY <1>13 DEF HelperStartStops, CallsInv
<1>14. ASSUME NEW r \in Restarts, HelperStartSpawns(r), world' = world PROVE CallsInv'
  BY <1>14 DEF HelperStartSpawns, CallsInv
<1>15. ASSUME NEW r \in Restarts, Spawn(r), world' = world PROVE CallsInv'
  BY <1>15 DEF Spawn, CallsInv
<1>16. ASSUME NEW r \in Restarts, Spawned(r), world' = world PROVE CallsInv'
  BY <1>16 DEF Spawned, CallsInv
<1>17. ASSUME NEW s \in Shutdowns, ShutdownBegin(s), world' = world PROVE CallsInv'
  BY <1>17 DEF ShutdownBegin, CallsInv
<1>18. ASSUME NEW k \in Cores, Dial(k), world' = world PROVE CallsInv'
  BY <1>18 DEF Dial, CallsInv
<1>19. ASSUME NEW k \in Cores, Exit(k), world' = world PROVE CallsInv'
  BY <1>19 DEF Exit, CallsInv
<1>19a. ASSUME NEW k \in Cores, WriteFails(k), world' = world PROVE CallsInv'
  BY <1>19a DEF WriteFails, CallsInv
<1>20. ASSUME NEW k \in Cores, Crash(k), world' = world PROVE CallsInv'
  BY <1>20 DEF Crash, CallsInv
<1>21. ASSUME NEW c \in world.calls, SendMessage(c), world' = world PROVE CallsInv'
  BY <1>21 DEF SendMessage, CallsInv
<1>22. ASSUME NEW c \in world.calls, Reply(c), world' = world PROVE CallsInv'
  BY <1>22 DEF Reply, CallsInv
<1>23. ASSUME Accept, world' = world PROVE CallsInv'
  BY <1>23 DEF Accept, CallsInv
<1>24. ASSUME LastDestroyed, world' = world PROVE CallsInv'
  BY <1>24 DEF LastDestroyed, ReplaceCompleter, CallsInv, At
<1>24a. ASSUME LastBroken, world' = world PROVE CallsInv'
  BY <1>24a DEF LastBroken, CallsInv
<1>25. ASSUME AcceptComplete, world' = world PROVE CallsInv'
  BY <1>25 DEF AcceptComplete, Complete, CallsInv, At
<1>26. ASSUME InstallHelper, world' = world PROVE CallsInv'
  BY <1>26 DEF InstallHelper, CallsInv
<1>27. QED
  BY <1>1, <1>2, <1>3, <1>4, <1>5, <1>6, <1>6a, <1>7, <1>8, <1>9, <1>10, <1>11, <1>12, <1>13,
     <1>14, <1>15, <1>16, <1>17, <1>18, <1>19, <1>19a, <1>20, <1>21, <1>22, <1>23, <1>24,
     <1>24a, <1>25, <1>26
     DEF Next, OpStep, RestartStep, ServerStep, CoreStep

\* The first restart has begun, nothing else.
LEMMA InitStart == Init => FirstInv
<1> SUFFICES ASSUME Init PROVE FirstInv
  OBVIOUS
<1>1. AskedOnce
  BY DEF Init, AskedOnce
<1>2. MadeOnce
  BY DEF Init, MadeOnce, Cores
<1>3. CallsInv
  BY DEF Init, CallsInv
<1>4. FirstStage
  BY ConstantsAssumption DEF Init, FirstStage, Ops, Cores
<1>5. FirstSocket
  BY DEF Init, FirstSocket, At, LoopIdle
<1>6. QED BY <1>1, <1>2, <1>3, <1>4, <1>5 DEF FirstInv, StartInv

\* The requests made while the core starts for the first time are not lost
\* (service.dart:128-131), for any number of them and wherever they come between
\* the steps of the start, unless another operation begins or a core crashes: a
\* helper that fails included, if it answers in time or nobody makes a request.
THEOREM StartKeepsCalls ==
    Spec => []((world.windows /\ world.slow => world.calls = {}) => StartLosesNoCall)
<1>1. Inv /\ FirstInv /\ [Next]_vars => FirstInv'
  <2> SUFFICES ASSUME Inv, AskedOnce, MadeOnce, StartInv, CallsInv, [Next]_vars PROVE FirstInv'
    BY DEF FirstInv
  <2>1. AskedOnce' /\ MadeOnce' /\ CallsInv'
    BY AskedKept, MadeKept, CallsKept
  <2>2. StartInv'
    <3> SUFFICES ASSUME Patient', ~Disturbed' PROVE FirstStage' /\ FirstSocket'
      BY DEF StartInv
    <3>1. Patient
      BY DEF Patient, Next, vars
    <3>2. ~Disturbed
      BY DisturbedKept
    <3>3. QED BY <3>1, <3>2, StartKept DEF StartInv
  <2>3. QED BY <2>1, <2>2 DEF FirstInv
<1>2. FirstInv => ((world.windows /\ world.slow => world.calls = {}) => StartLosesNoCall)
  <2>1. StartInv /\ Patient => StartLosesNoCall
    BY DEF StartInv, FirstSocket, Disturbed, StartLosesNoCall
  <2>2. CallsInv /\ world.calls = {} => StartLosesNoCall
    BY DEF CallsInv, StartLosesNoCall, At
  <2>3. QED BY <2>1, <2>2 DEF FirstInv, Patient
<1>3. Init => FirstInv
  BY InitStart
<1>4. QED BY <1>1, <1>2, <1>3, InitInv, InvKept, PTL DEF Spec

-----------------------------------------------------------------------------
(* Operations one after the other, a helper that answers in time, no crash:  *)
(* the core that is held is reached.                                         *)

\* The core has never met the server.
Unseen(k) ==
    /\ \A i \in 1..Len(backlog) : backlog[i] # k
    /\ server.core # k /\ socket # k /\ k \notin closed

\* A core that has not dialled has never met the server.
UnseenInv == \A k \in Cores : core[k] \in {"none", "spawned"} => Unseen(k)

Timely == world.serial /\ ~world.slow

\* A helper that answers in time leaves no request behind, and holds a child
\* only after a restart that has found no process and no child.
ChildStage ==
    /\ child # Nil => isStarting /\ process = Nil
    /\ \A o \in Ops : stopReq[o] = "sent" => pc[o] = "stopping"
    /\ \A r \in Restarts :
          /\ startReq[r] \in {"sent", "stopped"} => pc[r] = "starting"
          /\ pc[r] \in Ending \cup Starting =>
                (child # Nil <=> pc[r] = "starting" /\ startReq[r] = "ok")

\* The core the application or the helper has started last.
Held(k) ==
    \/ k \in {process, child}
    \/ \E r \in Restarts : pc[r] = "spawned" /\ k = <<r, "app">>

\* The last of the queue, at the loop, or at the socket.
AtEnd(k) ==
    /\ backlog # <<>> /\ backlog[Len(backlog)] = k
    /\ \A i \in 1..(Len(backlog) - 1) : backlog[i] # k
    /\ server.core # k /\ socket # k

AtLoop(k) ==
    /\ backlog = <<>> /\ server.at \in {"closing", "complete"}
    /\ server.core = k /\ socket # k

AtSocket(k) == backlog = <<>> /\ server.at = "idle" /\ socket = k

\* Nobody can take the connection from it: no other comes after it.
Reaches(k) ==
    /\ k \notin closed
    /\ core[k] = "spawned" \/ (core[k] = "connected" /\ (AtEnd(k) \/ AtLoop(k) \/ AtSocket(k)))

NoneEnding == \A o \in Ops : pc[o] \notin Ending

NoneCrashed == \A k \in Cores : core[k] # "crashed"

\* Unless an operation is about to end it, the core that is held will be the
\* one of the socket.
HeldReaches == NoneCrashed /\ NoneEnding => \A k \in Cores : Held(k) => Reaches(k)

\* A restart leaves a core that is held, until a shutdown or a restart that
\* fails.
DoneHolds ==
    (/\ \E r \in Restarts : pc[r] = "done"
     /\ \A r \in Restarts : pc[r] \notin Ending \cup Starting \cup {"failed"}
     /\ \A s \in Shutdowns : pc[s] = "idle")
        => process # Nil \/ child # Nil

TimelyInv == Timely => ChildStage /\ (NoneFailed => HeldReaches) /\ DoneHolds

\* What has not met the server before has not met it after a step, unless it
\* has dialled.
LEMMA UnseenKept ==
    ASSUME Inv, MadeOnce, UnseenInv, [Next]_vars
    PROVE  UnseenInv'
<1> USE DEF Goto, appVars, callVars, coreVars, closeVars, serverVars, helperVars
<1>a. /\ Restarts \subseteq Ops /\ First \in Restarts /\ First \in Ops /\ Shutdowns \subseteq Ops
      /\ \A o \in Ops : o \in Restarts <=> o \notin Shutdowns
  BY ConstantsAssumption DEF Ops
<1>b. pc \in [Ops -> {"idle", "ignored", "shutdown", "stopping", "destroy", "closing",
                      "kill", "server", "starting", "spawn", "spawned", "done", "failed"}]
  BY DEF Inv, AppType
<1>c. /\ stopReq \in [Ops -> {"none", "sent", "done"}]
      /\ startReq \in [Restarts -> {"none", "sent", "stopped", "ok", "failed"}]
      /\ child \in Cores \cup {Nil} /\ process \in Cores \cup {Nil}
  BY DEF Inv, HelperType, AppType
<1>d. Nil \notin Cores /\ core \in [Cores -> {"none", "spawned", "connected", "dead", "crashed"}]
  BY CoresAssumption DEF Inv, CoreType
<1>e. \A r \in Restarts :
        /\ <<r, "app">> \in Cores /\ <<r, "helper">> \in Cores
        /\ <<r, "app">> # Nil /\ <<r, "helper">> # Nil
        /\ \A q \in Restarts : <<r, "app">> # <<q, "helper">>
        /\ \A q \in Restarts : r # q => <<r, "app">> # <<q, "app">>
        /\ \A q \in Restarts : r # q => <<r, "helper">> # <<q, "helper">>
  BY <1>d DEF Cores
<1>f. /\ socket \in Cores \cup {Nil} /\ backlog \in Seq(Cores)
      /\ server \in [at : {"idle", "closing", "complete", "ended"}, core : Cores \cup {Nil},
                     last : Cores \cup {Nil}]
      /\ closed \subseteq Cores
  BY DEF Inv, SocketType, BacklogType, ServerType, ClosedType
<1>1. CASE UNCHANGED vars
  BY <1>1 DEF vars, UnseenInv, Unseen
<1>2. ASSUME NEW o \in Ops, AskStop(o), world' = world PROVE UnseenInv'
  BY <1>2 DEF AskStop, UnseenInv, Unseen
<1>3. ASSUME NEW o \in Ops, StopAnswered(o), world' = world PROVE UnseenInv'
  BY <1>3 DEF StopAnswered, UnseenInv, Unseen
<1>4. ASSUME NEW o \in Ops, HelperStop(o), world' = world PROVE UnseenInv'
  BY <1>4 DEF HelperStop, Killed, UnseenInv, Unseen
<1>5. ASSUME NEW o \in Ops, DestroySocket(o), world' = world PROVE UnseenInv'
  BY <1>5 DEF DestroySocket, UnseenInv, Unseen
<1>6. ASSUME NEW o \in Ops, SocketDestroyed(o), world' = world PROVE UnseenInv'
  BY <1>6, <1>d DEF SocketDestroyed, ReplaceCompleter, UnseenInv, Unseen
<1>6a. ASSUME NEW o \in Ops, SocketBroken(o), world' = world PROVE UnseenInv'
  BY <1>6a DEF SocketBroken, UnseenInv, Unseen
<1>7. ASSUME NEW o \in Ops, Kill(o), world' = world PROVE UnseenInv'
  BY <1>7 DEF Kill, Killed, UnseenInv, Unseen
<1>8. ASSUME NEW r \in Restarts, RestartBegin(r), world' = world PROVE UnseenInv'
  BY <1>8, <1>d DEF RestartBegin, ReplaceCompleter, UnseenInv, Unseen
<1>9. ASSUME NEW r \in Restarts, RestartIgnored(r), world' = world PROVE UnseenInv'
  BY <1>9 DEF RestartIgnored, UnseenInv, Unseen
<1>10. ASSUME NEW r \in Restarts, AskStart(r), world' = world PROVE UnseenInv'
  BY <1>10 DEF AskStart, UnseenInv, Unseen
<1>11. ASSUME NEW r \in Restarts, StartedByHelper(r), world' = world PROVE UnseenInv'
  BY <1>11 DEF StartedByHelper, UnseenInv, Unseen
<1>12. ASSUME NEW r \in Restarts, StartByHelperFailed(r), world' = world PROVE UnseenInv'
  BY <1>12 DEF StartByHelperFailed, UnseenInv, Unseen
<1>13. ASSUME NEW r \in Restarts, HelperStartStops(r), world' = world PROVE UnseenInv'
  BY <1>13 DEF HelperStartStops, Killed, UnseenInv, Unseen
<1>14. ASSUME NEW r \in Restarts, HelperStartSpawns(r), world' = world PROVE UnseenInv'
  BY <1>14, <1>a, <1>b, <1>d
     DEF HelperStartSpawns, UnseenInv, Unseen, MadeOnce, Live, At, AtCore
<1>15. ASSUME NEW r \in Restarts, Spawn(r), world' = world PROVE UnseenInv'
  <2>1. /\ core[<<r, "app">>] = "none"
        /\ core' \in {core, [core EXCEPT ![<<r, "app">>] = "spawned"]}
    BY <1>15 DEF Spawn, MadeOnce
  <2>2. \A k \in Cores : core'[k] \in {"none", "spawned"} => core[k] \in {"none", "spawned"}
    BY <2>1, <1>d
  <2>3. UNCHANGED <<backlog, server, socket, closed>>
    BY <1>15 DEF Spawn
  <2>4. QED BY <2>2, <2>3 DEF UnseenInv, Unseen
<1>16. ASSUME NEW r \in Restarts, Spawned(r), world' = world PROVE UnseenInv'
  BY <1>16 DEF Spawned, UnseenInv, Unseen
<1>17. ASSUME NEW s \in Shutdowns, ShutdownBegin(s), world' = world PROVE UnseenInv'
  BY <1>17 DEF ShutdownBegin, UnseenInv, Unseen
<1>18. ASSUME NEW k \in Cores, Dial(k), world' = world PROVE UnseenInv'
  BY <1>18, <1>d DEF Dial, UnseenInv, Unseen
<1>19. ASSUME NEW k \in Cores, Exit(k), world' = world PROVE UnseenInv'
  BY <1>19 DEF Exit, Killed, UnseenInv, Unseen
<1>19a. ASSUME NEW k \in Cores, WriteFails(k), world' = world PROVE UnseenInv'
  BY <1>19a DEF WriteFails, UnseenInv, Unseen
<1>20. ASSUME NEW k \in Cores, Crash(k), world' = world PROVE UnseenInv'
  BY <1>20 DEF Crash, UnseenInv, Unseen
<1>21. ASSUME NEW c \in world.calls, SendMessage(c), world' = world PROVE UnseenInv'
  BY <1>21 DEF SendMessage, UnseenInv, Unseen
<1>22. ASSUME NEW c \in world.calls, Reply(c), world' = world PROVE UnseenInv'
  BY <1>22 DEF Reply, UnseenInv, Unseen
<1>23. ASSUME Accept, world' = world PROVE UnseenInv'
  BY <1>23 DEF Accept, UnseenInv, Unseen, LoopAt
<1>24. ASSUME LastDestroyed, world' = world PROVE UnseenInv'
  BY <1>24, <1>d DEF LastDestroyed, ReplaceCompleter, UnseenInv, Unseen
<1>24a. ASSUME LastBroken, world' = world PROVE UnseenInv'
  BY <1>24a DEF LastBroken, UnseenInv, Unseen
<1>25. ASSUME AcceptComplete, world' = world PROVE UnseenInv'
  BY <1>25, <1>f DEF AcceptComplete, Complete, UnseenInv, Unseen, LoopIdle
<1>26. ASSUME InstallHelper, world' = world PROVE UnseenInv'
  BY <1>26 DEF InstallHelper, UnseenInv, Unseen
<1>27. QED
  BY <1>1, <1>2, <1>3, <1>4, <1>5, <1>6, <1>6a, <1>7, <1>8, <1>9, <1>10, <1>11, <1>12, <1>13,
     <1>14, <1>15, <1>16, <1>17, <1>18, <1>19, <1>19a, <1>20, <1>21, <1>22, <1>23, <1>24,
     <1>24a, <1>25, <1>26
     DEF Next, OpStep, RestartStep, ServerStep, CoreStep

\* The helper's child, and its requests.
LEMMA ChildStageKept ==
    ASSUME Inv, world.serial, ~world.slow, OpInv, ChildStage, [Next]_vars
    PROVE  ChildStage'
<1> USE DEF Goto, appVars, callVars, coreVars, closeVars, serverVars, helperVars
<1>a. /\ Restarts \subseteq Ops /\ First \in Restarts /\ First \in Ops /\ Shutdowns \subseteq Ops
      /\ \A o \in Ops : o \in Restarts <=> o \notin Shutdowns
  BY ConstantsAssumption DEF Ops
<1>b. pc \in [Ops -> {"idle", "ignored", "shutdown", "stopping", "destroy", "closing",
                      "kill", "server", "starting", "spawn", "spawned", "done", "failed"}]
  BY DEF Inv, AppType
<1>c. /\ stopReq \in [Ops -> {"none", "sent", "done"}]
      /\ startReq \in [Restarts -> {"none", "sent", "stopped", "ok", "failed"}]
      /\ child \in Cores \cup {Nil} /\ process \in Cores \cup {Nil}
  BY DEF Inv, HelperType, AppType
<1>d. Nil \notin Cores /\ core \in [Cores -> {"none", "spawned", "connected", "dead", "crashed"}]
  BY CoresAssumption DEF Inv, CoreType
<1>e. \A r \in Restarts :
        /\ <<r, "app">> \in Cores /\ <<r, "helper">> \in Cores
        /\ <<r, "app">> # Nil /\ <<r, "helper">> # Nil
        /\ \A q \in Restarts : <<r, "app">> # <<q, "helper">>
        /\ \A q \in Restarts : r # q => <<r, "app">> # <<q, "app">>
        /\ \A q \in Restarts : r # q => <<r, "helper">> # <<q, "helper">>
  BY <1>d DEF Cores
<1>f. /\ socket \in Cores \cup {Nil} /\ backlog \in Seq(Cores)
      /\ server \in [at : {"idle", "closing", "complete", "ended"}, core : Cores \cup {Nil},
                     last : Cores \cup {Nil}]
      /\ closed \subseteq Cores
  BY DEF Inv, SocketType, BacklogType, ServerType, ClosedType
<1>1. CASE UNCHANGED vars
  BY <1>1 DEF vars, ChildStage
<1>2. ASSUME NEW o \in Ops, AskStop(o), world' = world PROVE ChildStage'
  BY <1>2, <1>a, <1>b, <1>c DEF AskStop, ChildStage, Ending, Starting
<1>3. ASSUME NEW o \in Ops, StopAnswered(o), world' = world PROVE ChildStage'
  BY <1>3 DEF StopAnswered, ChildStage, Ending
<1>4. ASSUME NEW o \in Ops, HelperStop(o), world' = world PROVE ChildStage'
  BY <1>4, <1>a DEF HelperStop, ChildStage, OpInv, Alone, Active
<1>5. ASSUME NEW o \in Ops, DestroySocket(o), world' = world PROVE ChildStage'
  BY <1>5, <1>a, <1>b DEF DestroySocket, ChildStage, OpInv, ChildInv, Ending
<1>6. ASSUME NEW o \in Ops, SocketDestroyed(o), world' = world PROVE ChildStage'
  BY <1>6 DEF SocketDestroyed, ChildStage, Ending
<1>6a. ASSUME NEW o \in Ops, SocketBroken(o), world' = world PROVE ChildStage'
  BY <1>6a, <1>a, <1>b DEF SocketBroken, ChildStage, Ending, Starting
<1>7. ASSUME NEW o \in Ops, Kill(o), world' = world PROVE ChildStage'
  BY <1>7 DEF Kill, ChildStage, Ending
<1>8. ASSUME NEW r \in Restarts, RestartBegin(r), world' = world PROVE ChildStage'
  BY <1>8 DEF RestartBegin, ChildStage
<1>9. ASSUME NEW r \in Restarts, RestartIgnored(r), world' = world PROVE ChildStage'
  BY <1>9 DEF RestartIgnored, ChildStage, Ending, Starting
<1>10. ASSUME NEW r \in Restarts, AskStart(r), world' = world PROVE ChildStage'
  BY <1>10, <1>a, <1>b, <1>c DEF AskStart, ChildStage, Starting
<1>11. ASSUME NEW r \in Restarts, StartedByHelper(r), world' = world PROVE ChildStage'
  BY <1>11 DEF StartedByHelper, ChildStage, Ending, Starting
<1>12. ASSUME NEW r \in Restarts, StartByHelperFailed(r), world' = world PROVE ChildStage'
  BY <1>12 DEF StartByHelperFailed, ChildStage, Starting
<1>13. ASSUME NEW r \in Restarts, HelperStartStops(r), world' = world PROVE ChildStage'
  BY <1>13 DEF HelperStartStops, ChildStage
<1>14. ASSUME NEW r \in Restarts, HelperStartSpawns(r), world' = world PROVE ChildStage'
  <2>1. /\ pc[r] = "starting" /\ startReq[r] = "stopped"
        /\ child = Nil /\ isStarting /\ process = Nil
    BY <1>14 DEF HelperStartSpawns, ChildStage, OpInv, StageInv, Starting
  <2>2. /\ UNCHANGED <<pc, isStarting, process, stopReq>>
        /\ \/ child' = <<r, "helper">> /\ startReq' = [startReq EXCEPT ![r] = "ok"]
           \/ child' = child /\ startReq' = [startReq EXCEPT ![r] = "failed"]
    BY <1>14 DEF HelperStartSpawns
  <2>3. \A q \in Restarts : q # r => pc[q] \notin Ending \cup Starting
    BY <2>1, <1>a DEF OpInv, Alone, Active
  <2>4. QED BY <2>1, <2>2, <2>3, <1>c, <1>e DEF ChildStage
<1>15. ASSUME NEW r \in Restarts, Spawn(r), world' = world PROVE ChildStage'
  BY <1>15, <1>a, <1>b DEF Spawn, ChildStage, Starting
<1>16. ASSUME NEW r \in Restarts, Spawned(r), world' = world PROVE ChildStage'
  BY <1>16 DEF Spawned, ChildStage, Starting
<1>17. ASSUME NEW s \in Shutdowns, ShutdownBegin(s), world' = world PROVE ChildStage'
  BY <1>17, <1>a DEF ShutdownBegin, ChildStage
<1>18. ASSUME NEW k \in Cores, Dial(k), world' = world PROVE ChildStage'
  BY <1>18 DEF Dial, ChildStage
<1>19. ASSUME NEW k \in Cores, Exit(k), world' = world PROVE ChildStage'
  BY <1>19 DEF Exit, ChildStage
<1>19a. ASSUME NEW k \in Cores, WriteFails(k), world' = world PROVE ChildStage'
  BY <1>19a DEF WriteFails, ChildStage
<1>20. ASSUME NEW k \in Cores, Crash(k), world' = world PROVE ChildStage'
  BY <1>20 DEF Crash, ChildStage
<1>21. ASSUME NEW c \in world.calls, SendMessage(c), world' = world PROVE ChildStage'
  BY <1>21 DEF SendMessage, ChildStage
<1>22. ASSUME NEW c \in world.calls, Reply(c), world' = world PROVE ChildStage'
  BY <1>22 DEF Reply, ChildStage
<1>23. ASSUME Accept, world' = world PROVE ChildStage'
  BY <1>23 DEF Accept, ChildStage
<1>24. ASSUME LastDestroyed, world' = world PROVE ChildStage'
  BY <1>24 DEF LastDestroyed, ChildStage
<1>24a. ASSUME LastBroken, world' = world PROVE ChildStage'
  BY <1>24a DEF LastBroken, ChildStage
<1>25. ASSUME AcceptComplete, world' = world PROVE ChildStage'
  BY <1>25 DEF AcceptComplete, ChildStage
<1>26. ASSUME InstallHelper, world' = world PROVE ChildStage'
  BY <1>26 DEF InstallHelper, ChildStage
<1>27. QED
  BY <1>1, <1>2, <1>3, <1>4, <1>5, <1>6, <1>6a, <1>7, <1>8, <1>9, <1>10, <1>11, <1>12, <1>13,
     <1>14, <1>15, <1>16, <1>17, <1>18, <1>19, <1>19a, <1>20, <1>21, <1>22, <1>23, <1>24,
     <1>24a, <1>25, <1>26
     DEF Next, OpStep, RestartStep, ServerStep, CoreStep

\* A queue that is not empty has a last element.
LEMMA NotEmpty == ASSUME NEW b \in Seq(Cores), b # <<>> PROVE Len(b) \in Nat /\ Len(b) >= 1
OBVIOUS

\* It is one core.
LEMMA HeldIsOne ==
    ASSUME Inv, OpInv, ChildStage, NoneEnding, NEW j \in Cores, NEW k \in Cores, Held(j), Held(k)
    PROVE  j = k
<1>a. Restarts \subseteq Ops /\ Nil \notin Cores
  BY CoresAssumption DEF Ops
<1>1. child # Nil => process = Nil
  BY DEF ChildStage
<1>2. ASSUME NEW r \in Restarts, pc[r] = "spawned"
      PROVE  process = Nil /\ child = Nil /\ \A q \in Restarts : pc[q] = "spawned" => q = r
  BY <1>2, <1>a DEF OpInv, Alone, Active, StageInv, ChildStage, Starting
<1>3. QED BY <1>a, <1>1, <1>2 DEF Held

\* The core that is held.
LEMMA ReachesKept ==
    ASSUME Inv, world.serial, ~world.slow, OpInv, HeldInv, MadeOnce, UnseenInv, ChildStage,
           HeldReaches, NoneFailed', [Next]_vars
    PROVE  HeldReaches'
<1> USE DEF Goto, appVars, callVars, coreVars, closeVars, serverVars, helperVars
<1>a. /\ Restarts \subseteq Ops /\ First \in Restarts /\ First \in Ops /\ Shutdowns \subseteq Ops
      /\ \A o \in Ops : o \in Restarts <=> o \notin Shutdowns
  BY ConstantsAssumption DEF Ops
<1>b. pc \in [Ops -> {"idle", "ignored", "shutdown", "stopping", "destroy", "closing",
                      "kill", "server", "starting", "spawn", "spawned", "done", "failed"}]
  BY DEF Inv, AppType
<1>c. /\ stopReq \in [Ops -> {"none", "sent", "done"}]
      /\ startReq \in [Restarts -> {"none", "sent", "stopped", "ok", "failed"}]
      /\ child \in Cores \cup {Nil} /\ process \in Cores \cup {Nil}
  BY DEF Inv, HelperType, AppType
<1>d. Nil \notin Cores /\ core \in [Cores -> {"none", "spawned", "connected", "dead", "crashed"}]
  BY CoresAssumption DEF Inv, CoreType
<1>e. \A r \in Restarts :
        /\ <<r, "app">> \in Cores /\ <<r, "helper">> \in Cores
        /\ <<r, "app">> # Nil /\ <<r, "helper">> # Nil
        /\ \A q \in Restarts : <<r, "app">> # <<q, "helper">>
        /\ \A q \in Restarts : r # q => <<r, "app">> # <<q, "app">>
        /\ \A q \in Restarts : r # q => <<r, "helper">> # <<q, "helper">>
  BY <1>d DEF Cores
<1>f. /\ socket \in Cores \cup {Nil} /\ backlog \in Seq(Cores)
      /\ server \in [at : {"idle", "closing", "complete", "ended"}, core : Cores \cup {Nil},
                     last : Cores \cup {Nil}]
      /\ closed \subseteq Cores
  BY DEF Inv, SocketType, BacklogType, ServerType, ClosedType
<1>n. failed = {} /\ failed' = {}
  BY FailedStays DEF NoneFailed
<1>1. CASE UNCHANGED vars
  BY <1>1 DEF vars, HeldReaches, NoneCrashed, NoneEnding, Held, Reaches, AtEnd, AtLoop, AtSocket
<1>2. ASSUME NEW o \in Ops, AskStop(o), world' = world PROVE HeldReaches'
  BY <1>2, <1>b DEF AskStop, HeldReaches, NoneEnding, Ending
<1>3. ASSUME NEW o \in Ops, StopAnswered(o), world' = world PROVE HeldReaches'
  BY <1>3 DEF StopAnswered, HeldReaches, NoneEnding, Ending
<1>4. ASSUME NEW o \in Ops, HelperStop(o), world' = world PROVE HeldReaches'
  <2>1. pc'[o] \in Ending
    BY <1>4 DEF HelperStop, ChildStage, Ending
  <2>2. QED BY <2>1 DEF HeldReaches, NoneEnding
<1>5. ASSUME NEW o \in Ops, DestroySocket(o), world' = world PROVE HeldReaches'
  BY <1>5, <1>b DEF DestroySocket, HeldReaches, NoneEnding, Ending
<1>6. ASSUME NEW o \in Ops, SocketDestroyed(o), world' = world PROVE HeldReaches'
  BY <1>6 DEF SocketDestroyed, HeldReaches, NoneEnding, Ending
<1>6a. ASSUME NEW o \in Ops, SocketBroken(o), world' = world PROVE HeldReaches'
  BY <1>6a, <1>n DEF SocketBroken
<1>7. ASSUME NEW o \in Ops, Kill(o), world' = world PROVE HeldReaches'
  <2>1. pc[o] = "kill" /\ stopReq[o] # "sent"
    BY <1>7 DEF Kill, ChildStage
  <2>2. child' = Nil /\ process' = Nil
    BY <1>7, <2>1 DEF Kill, OpInv, ChildInv, Ending
  <2>3. \A q \in Restarts : pc'[q] # "spawned"
    BY <1>7, <1>a DEF Kill, OpInv, Alone, Active, Ending, Starting
  <2>4. QED BY <2>2, <2>3, <1>d DEF HeldReaches, Held
<1>8. ASSUME NEW r \in Restarts, RestartBegin(r), world' = world PROVE HeldReaches'
  <2>1. CASE process # Nil
    BY <1>8, <2>1, <1>a, <1>b DEF RestartBegin, HeldReaches, NoneEnding, Ending
  <2>2. CASE process = Nil
    <3>1. child' = Nil /\ process' = Nil
      BY <1>8, <2>2 DEF RestartBegin, ChildStage
    <3>2. \A q \in Restarts : pc'[q] # "spawned"
      BY <1>8, <1>a DEF RestartBegin, MayBegin, Settled
    <3>3. QED BY <3>1, <3>2, <1>d DEF HeldReaches, Held
  <2>3. QED BY <2>1, <2>2
<1>9. ASSUME NEW r \in Restarts, RestartIgnored(r), world' = world PROVE HeldReaches'
  BY <1>9
     DEF RestartIgnored, HeldReaches, NoneCrashed, NoneEnding, Held, Reaches, AtEnd, AtLoop,
         AtSocket, Ending
<1>10. ASSUME NEW r \in Restarts, AskStart(r), world' = world PROVE HeldReaches'
  BY <1>10, <1>a, <1>b
     DEF AskStart, HeldReaches, NoneCrashed, NoneEnding, Held, Reaches, AtEnd, AtLoop, AtSocket,
         Ending
<1>11. ASSUME NEW r \in Restarts, StartedByHelper(r), world' = world PROVE HeldReaches'
  BY <1>11
     DEF StartedByHelper, HeldReaches, NoneCrashed, NoneEnding, Held, Reaches, AtEnd, AtLoop,
         AtSocket, Ending
<1>12. ASSUME NEW r \in Restarts, StartByHelperFailed(r), world' = world PROVE HeldReaches'
  BY <1>12
     DEF StartByHelperFailed, HeldReaches, NoneCrashed, NoneEnding, Held, Reaches, AtEnd,
         AtLoop, AtSocket, Ending
<1>13. ASSUME NEW r \in Restarts, HelperStartStops(r), world' = world PROVE HeldReaches'
  <2>1. pc[r] = "starting"
    BY <1>13 DEF HelperStartStops, ChildStage
  <2>2. child' = Nil /\ process' = Nil
    BY <1>13, <2>1 DEF HelperStartStops, OpInv, StageInv, Starting
  <2>3. \A q \in Restarts : pc'[q] # "spawned"
    BY <1>13, <2>1, <1>a DEF HelperStartStops, OpInv, Alone, Active, Starting
  <2>4. QED BY <2>2, <2>3, <1>d DEF HeldReaches, Held
<1>14. ASSUME NEW r \in Restarts, HelperStartSpawns(r), world' = world PROVE HeldReaches'
  <2>1. pc[r] = "starting" /\ startReq[r] = "stopped"
    BY <1>14 DEF HelperStartSpawns, ChildStage
  <2>2. process' = Nil /\ child = Nil
    BY <1>14, <2>1 DEF HelperStartSpawns, OpInv, StageInv, Starting
  <2>3. \A q \in Restarts : pc'[q] # "spawned"
    BY <1>14, <2>1, <1>a DEF HelperStartSpawns, OpInv, Alone, Active, Starting
  <2>4. <<r, "helper">> \notin closed
    BY <2>1, <1>e DEF MadeOnce, UnseenInv, Unseen
  <2>5. \/ child' = Nil
        \/ /\ child' = <<r, "helper">> /\ closed' = closed
           /\ core' = [core EXCEPT ![<<r, "helper">>] = "spawned"]
    BY <1>14, <2>2 DEF HelperStartSpawns
  <2>6. QED BY <2>2, <2>3, <2>4, <2>5, <1>d, <1>e DEF HeldReaches, Held, Reaches
<1>15. ASSUME NEW r \in Restarts, Spawn(r), world' = world PROVE HeldReaches'
  <2>1. pc[r] = "spawn"
    BY <1>15 DEF Spawn
  <2>2. process' = Nil /\ child' = Nil
    BY <1>15 DEF Spawn, OpInv, StageInv, ChildStage, Starting
  <2>3. \A q \in Restarts : q # r => pc'[q] # "spawned"
    BY <1>15, <1>a, <1>b DEF Spawn, OpInv, Alone, Active, Starting
  <2>4. <<r, "app">> \notin closed
    BY <2>1, <1>e DEF MadeOnce, UnseenInv, Unseen
  <2>5. \/ pc'[r] = "failed"
        \/ closed' = closed /\ core' = [core EXCEPT ![<<r, "app">>] = "spawned"]
    BY <1>15, <1>a, <1>b DEF Spawn
  <2>6. QED BY <2>2, <2>3, <2>4, <2>5, <1>d, <1>e DEF HeldReaches, Held, Reaches
<1>16. ASSUME NEW r \in Restarts, Spawned(r), world' = world PROVE HeldReaches'
  BY <1>16
     DEF Spawned, HeldReaches, NoneCrashed, NoneEnding, Held, Reaches, AtEnd, AtLoop, AtSocket,
         Ending
<1>17. ASSUME NEW s \in Shutdowns, ShutdownBegin(s), world' = world PROVE HeldReaches'
  BY <1>17, <1>a, <1>b DEF ShutdownBegin, HeldReaches, NoneEnding, Ending
<1>18. ASSUME NEW k \in Cores, Dial(k), world' = world PROVE HeldReaches'
  <2> SUFFICES ASSUME NoneCrashed', NoneEnding', NEW j \in Cores, Held(j)' PROVE Reaches(j)'
    BY DEF HeldReaches
  <2>1. Held(j) /\ NoneEnding
    BY <1>18 DEF Dial, Held, NoneEnding
  <2>2. Held(k)
    BY <1>18 DEF Dial, HeldInv, Held, Live
  <2>3. j = k
    BY <2>1, <2>2, HeldIsOne
  <2>4. Unseen(k)
    BY <1>18 DEF Dial, UnseenInv
  <2>5. /\ core'[k] = "connected" /\ backlog' = Append(backlog, k)
        /\ UNCHANGED <<server, socket, closed>>
    BY <1>18, <1>d DEF Dial
  <2>6. AtEnd(k)'
    BY <2>4, <2>5 DEF AtEnd, Unseen
  <2>7. QED BY <2>3, <2>4, <2>5, <2>6 DEF Reaches, Unseen
<1>19. ASSUME NEW k \in Cores, Exit(k), world' = world PROVE HeldReaches'
  BY <1>19
     DEF Exit, Killed, HeldReaches, NoneCrashed, NoneEnding, Held, Reaches, AtEnd, AtLoop,
         AtSocket
<1>19a. ASSUME NEW k \in Cores, WriteFails(k), world' = world PROVE HeldReaches'
  BY <1>19a, <1>n DEF WriteFails
<1>20. ASSUME NEW k \in Cores, Crash(k), world' = world PROVE HeldReaches'
  BY <1>20, <1>d DEF Crash, HeldReaches, NoneCrashed
<1>21. ASSUME NEW c \in world.calls, SendMessage(c), world' = world PROVE HeldReaches'
  BY <1>21
     DEF SendMessage, HeldReaches, NoneCrashed, NoneEnding, Held, Reaches, AtEnd, AtLoop,
         AtSocket
<1>22. ASSUME NEW c \in world.calls, Reply(c), world' = world PROVE HeldReaches'
  BY <1>22, <1>d
     DEF Reply, HeldReaches, NoneCrashed, NoneEnding, Held, Reaches, AtEnd, AtLoop, AtSocket
<1>23. ASSUME Accept, world' = world PROVE HeldReaches'
  <2> SUFFICES ASSUME NoneCrashed', NoneEnding', NEW j \in Cores, Held(j)' PROVE Reaches(j)'
    BY DEF HeldReaches
  <2>1. /\ server.at = "idle" /\ backlog # <<>> /\ backlog' = Tail(backlog)
        /\ server'.core = Head(backlog) /\ server'.at \in {"closing", "complete"}
        /\ closed' = closed \cup ({socket} \ {Nil})
        /\ UNCHANGED <<pc, process, child, core, socket>>
    BY <1>23 DEF Accept, LoopAt
  <2>2. Reaches(j)
    BY <2>1 DEF HeldReaches, NoneCrashed, NoneEnding, Held
  <2>3. CASE core[j] = "spawned"
    BY <2>1, <2>3 DEF Reaches, UnseenInv, Unseen
  <2>4. CASE AtEnd(j)
    <3>1. j \notin closed' /\ socket' # j
      BY <2>1, <2>2, <2>4 DEF Reaches, AtEnd
    <3>2. CASE Len(backlog) = 1
      <4>1. backlog' = <<>> /\ server'.core = j
        BY <2>1, <2>4, <3>2, <1>f DEF AtEnd
      <4>2. QED BY <2>1, <2>2, <2>4, <3>1, <4>1 DEF Reaches, AtLoop, AtEnd, AtSocket
    <3>3. CASE Len(backlog) # 1
      <4>a. Len(backlog) \in Nat /\ Len(backlog) >= 1
        BY <2>1
      <4>b. /\ Len(backlog') = Len(backlog) - 1
            /\ \A i \in 1..(Len(backlog) - 1) : backlog'[i] = backlog[i + 1]
        BY <2>1
      <4>1. /\ Len(backlog') = Len(backlog) - 1 /\ backlog' # <<>>
            /\ \A i \in 1..Len(backlog') : backlog'[i] = backlog[i + 1]
            /\ Len(backlog) \in Nat /\ Len(backlog) > 1
        BY <3>3, <4>b
      <4>2. backlog'[Len(backlog')] = j /\ \A i \in 1..(Len(backlog') - 1) : backlog'[i] # j
        BY <2>4, <4>1 DEF AtEnd
      <4>3. server'.core # j
        BY <2>1, <2>4, <4>1 DEF AtEnd
      <4>4. QED BY <2>1, <2>2, <2>4, <3>1, <4>1, <4>2, <4>3 DEF Reaches, AtEnd, AtLoop, AtSocket
    <3>4. QED BY <3>2, <3>3
  <2>5. QED BY <2>1, <2>2, <2>3, <2>4 DEF Reaches, AtLoop, AtSocket
<1>24. ASSUME LastDestroyed, world' = world PROVE HeldReaches'
  BY <1>24, <1>d
     DEF LastDestroyed, ReplaceCompleter, HeldReaches, NoneCrashed, NoneEnding, Held, Reaches,
         AtEnd, AtLoop, AtSocket
<1>24a. ASSUME LastBroken, world' = world PROVE HeldReaches'
  BY <1>24a, <1>n DEF LastBroken
<1>25. ASSUME AcceptComplete, world' = world PROVE HeldReaches'
  <2> SUFFICES ASSUME NoneCrashed', NoneEnding', NEW j \in Cores, Held(j)' PROVE Reaches(j)'
    BY DEF HeldReaches
  <2>1. /\ server.at = "complete" /\ socket' = server.core /\ server' = LoopIdle
        /\ UNCHANGED <<pc, process, child, core, closed, backlog>>
    BY <1>25 DEF AcceptComplete, Complete, Inv, LoopInv
  <2>2. Reaches(j)
    BY <2>1 DEF HeldReaches, NoneCrashed, NoneEnding, Held
  <2>3. CASE core[j] = "spawned"
    BY <2>1, <2>2, <2>3 DEF Reaches
  <2>4. CASE AtEnd(j)
    BY <2>1, <2>2, <2>4, <1>d DEF Reaches, AtEnd, LoopIdle
  <2>5. CASE AtLoop(j)
    BY <2>1, <2>2, <2>5 DEF Reaches, AtLoop, AtSocket, LoopIdle
  <2>6. QED BY <2>1, <2>2, <2>3, <2>4, <2>5 DEF Reaches, AtSocket
<1>26. ASSUME InstallHelper, world' = world PROVE HeldReaches'
  BY <1>26
     DEF InstallHelper, HeldReaches, NoneCrashed, NoneEnding, Held, Reaches, AtEnd, AtLoop,
         AtSocket
<1>27. QED
  BY <1>1, <1>2, <1>3, <1>4, <1>5, <1>6, <1>6a, <1>7, <1>8, <1>9, <1>10, <1>11, <1>12, <1>13,
     <1>14, <1>15, <1>16, <1>17, <1>18, <1>19, <1>19a, <1>20, <1>21, <1>22, <1>23, <1>24,
     <1>24a, <1>25, <1>26
     DEF Next, OpStep, RestartStep, ServerStep, CoreStep

\* What a restart leaves.
LEMMA DoneKept ==
    ASSUME Inv, world.serial, ~world.slow, OpInv, ChildStage, DoneHolds, [Next]_vars
    PROVE  DoneHolds'
<1> USE DEF Goto, appVars, callVars, coreVars, closeVars, serverVars, helperVars
<1>a. /\ Restarts \subseteq Ops /\ First \in Restarts /\ First \in Ops /\ Shutdowns \subseteq Ops
      /\ \A o \in Ops : o \in Restarts <=> o \notin Shutdowns
  BY ConstantsAssumption DEF Ops
<1>b. pc \in [Ops -> {"idle", "ignored", "shutdown", "stopping", "destroy", "closing",
                      "kill", "server", "starting", "spawn", "spawned", "done", "failed"}]
  BY DEF Inv, AppType
<1>c. /\ stopReq \in [Ops -> {"none", "sent", "done"}]
      /\ startReq \in [Restarts -> {"none", "sent", "stopped", "ok", "failed"}]
      /\ child \in Cores \cup {Nil} /\ process \in Cores \cup {Nil}
  BY DEF Inv, HelperType, AppType
<1>d. Nil \notin Cores /\ core \in [Cores -> {"none", "spawned", "connected", "dead", "crashed"}]
  BY CoresAssumption DEF Inv, CoreType
<1>e. \A r \in Restarts :
        /\ <<r, "app">> \in Cores /\ <<r, "helper">> \in Cores
        /\ <<r, "app">> # Nil /\ <<r, "helper">> # Nil
        /\ \A q \in Restarts : <<r, "app">> # <<q, "helper">>
        /\ \A q \in Restarts : r # q => <<r, "app">> # <<q, "app">>
        /\ \A q \in Restarts : r # q => <<r, "helper">> # <<q, "helper">>
  BY <1>d DEF Cores
<1>f. /\ socket \in Cores \cup {Nil} /\ backlog \in Seq(Cores)
      /\ server \in [at : {"idle", "closing", "complete", "ended"}, core : Cores \cup {Nil},
                     last : Cores \cup {Nil}]
      /\ closed \subseteq Cores
  BY DEF Inv, SocketType, BacklogType, ServerType, ClosedType
<1>1. CASE UNCHANGED vars
  BY <1>1 DEF vars, DoneHolds
<1>2. ASSUME NEW o \in Ops, AskStop(o), world' = world PROVE DoneHolds'
  BY <1>2, <1>a, <1>b DEF AskStop, DoneHolds, Ending
<1>3. ASSUME NEW o \in Ops, StopAnswered(o), world' = world PROVE DoneHolds'
  BY <1>3 DEF StopAnswered, DoneHolds, Ending
<1>4. ASSUME NEW o \in Ops, HelperStop(o), world' = world PROVE DoneHolds'
  BY <1>4, <1>a DEF HelperStop, DoneHolds, ChildStage, Ending
<1>5. ASSUME NEW o \in Ops, DestroySocket(o), world' = world PROVE DoneHolds'
  BY <1>5, <1>a, <1>b DEF DestroySocket, DoneHolds, Ending
<1>6. ASSUME NEW o \in Ops, SocketDestroyed(o), world' = world PROVE DoneHolds'
  BY <1>6 DEF SocketDestroyed, DoneHolds, Ending
<1>6a. ASSUME NEW o \in Ops, SocketBroken(o), world' = world PROVE DoneHolds'
  BY <1>6a, <1>a, <1>b DEF SocketBroken, DoneHolds, Ending, Starting
<1>7. ASSUME NEW o \in Ops, Kill(o), world' = world PROVE DoneHolds'
  BY <1>7, <1>a, <1>b DEF Kill, DoneHolds, Starting
<1>8. ASSUME NEW r \in Restarts, RestartBegin(r), world' = world PROVE DoneHolds'
  BY <1>8 DEF RestartBegin, DoneHolds, Starting
<1>9. ASSUME NEW r \in Restarts, RestartIgnored(r), world' = world PROVE DoneHolds'
  BY <1>9 DEF RestartIgnored, DoneHolds, Ending, Starting
<1>10. ASSUME NEW r \in Restarts, AskStart(r), world' = world PROVE DoneHolds'
  BY <1>10, <1>b DEF AskStart, DoneHolds, Starting
<1>11. ASSUME NEW r \in Restarts, StartedByHelper(r), world' = world PROVE DoneHolds'
  BY <1>11 DEF StartedByHelper, DoneHolds, ChildStage, Starting
<1>12. ASSUME NEW r \in Restarts, StartByHelperFailed(r), world' = world PROVE DoneHolds'
  BY <1>12 DEF StartByHelperFailed, DoneHolds, Starting
<1>13. ASSUME NEW r \in Restarts, HelperStartStops(r), world' = world PROVE DoneHolds'
  BY <1>13 DEF HelperStartStops, DoneHolds, ChildStage, Starting
<1>14. ASSUME NEW r \in Restarts, HelperStartSpawns(r), world' = world PROVE DoneHolds'
  BY <1>14 DEF HelperStartSpawns, DoneHolds, ChildStage, Starting
<1>15. ASSUME NEW r \in Restarts, Spawn(r), world' = world PROVE DoneHolds'
  BY <1>15, <1>b DEF Spawn, DoneHolds, Starting
<1>16. ASSUME NEW r \in Restarts, Spawned(r), world' = world PROVE DoneHolds'
  BY <1>16, <1>e DEF Spawned, DoneHolds
<1>17. ASSUME NEW s \in Shutdowns, ShutdownBegin(s), world' = world PROVE DoneHolds'
  BY <1>17 DEF ShutdownBegin, DoneHolds
<1>18. ASSUME NEW k \in Cores, Dial(k), world' = world PROVE DoneHolds'
  BY <1>18 DEF Dial, DoneHolds
<1>19. ASSUME NEW k \in Cores, Exit(k), world' = world PROVE DoneHolds'
  BY <1>19 DEF Exit, DoneHolds
<1>19a. ASSUME NEW k \in Cores, WriteFails(k), world' = world PROVE DoneHolds'
  BY <1>19a DEF WriteFails, DoneHolds
<1>20. ASSUME NEW k \in Cores, Crash(k), world' = world PROVE DoneHolds'
  BY <1>20 DEF Crash, DoneHolds
<1>21. ASSUME NEW c \in world.calls, SendMessage(c), world' = world PROVE DoneHolds'
  BY <1>21 DEF SendMessage, DoneHolds
<1>22. ASSUME NEW c \in world.calls, Reply(c), world' = world PROVE DoneHolds'
  BY <1>22 DEF Reply, DoneHolds
<1>23. ASSUME Accept, world' = world PROVE DoneHolds'
  BY <1>23 DEF Accept, DoneHolds
<1>24. ASSUME LastDestroyed, world' = world PROVE DoneHolds'
  BY <1>24 DEF LastDestroyed, DoneHolds
<1>24a. ASSUME LastBroken, world' = world PROVE DoneHolds'
  BY <1>24a DEF LastBroken, DoneHolds
<1>25. ASSUME AcceptComplete, world' = world PROVE DoneHolds'
  BY <1>25 DEF AcceptComplete, DoneHolds
<1>26. ASSUME InstallHelper, world' = world PROVE DoneHolds'
  BY <1>26 DEF InstallHelper, DoneHolds
<1>27. QED
  BY <1>1, <1>2, <1>3, <1>4, <1>5, <1>6, <1>6a, <1>7, <1>8, <1>9, <1>10, <1>11, <1>12, <1>13,
     <1>14, <1>15, <1>16, <1>17, <1>18, <1>19, <1>19a, <1>20, <1>21, <1>22, <1>23, <1>24,
     <1>24a, <1>25, <1>26
     DEF Next, OpStep, RestartStep, ServerStep, CoreStep

\* Nothing has dialled and nothing is under way but the first restart.
LEMMA InitReaches == Init => AskedOnce /\ MadeOnce /\ UnseenInv /\ TimelyInv
<1> SUFFICES ASSUME Init PROVE AskedOnce /\ MadeOnce /\ UnseenInv /\ TimelyInv
  OBVIOUS
<1>1. AskedOnce /\ MadeOnce
  BY InitStart DEF FirstInv
<1>2. UnseenInv
  BY CoresAssumption DEF Init, UnseenInv, Unseen, LoopIdle
<1>3. ChildStage
  BY ConstantsAssumption DEF Init, ChildStage, Ops, Ending, Starting
<1>4. HeldReaches
  BY CoresAssumption, ConstantsAssumption DEF Init, HeldReaches, Held, Ops
<1>5. DoneHolds
  BY ConstantsAssumption DEF Init, DoneHolds, Ops
<1>6. QED BY <1>1, <1>2, <1>3, <1>4, <1>5 DEF TimelyInv

\* A helper in time, operations one after the other.
LEMMA TimelyKept ==
    ASSUME Inv, SerialInv, MadeOnce, UnseenInv, TimelyInv, [Next]_vars
    PROVE  TimelyInv'
<1>1. world' = world
  BY DEF Next, vars
<1>2. CASE Timely
  <2>1. /\ world.serial /\ ~world.slow
        /\ OpInv /\ ChildStage /\ DoneHolds
        /\ NoneFailed => HeldInv /\ HeldReaches
    BY <1>2 DEF Timely, SerialInv, TimelyInv
  <2>2. ChildStage' /\ DoneHolds'
    BY <2>1, ChildStageKept, DoneKept
  <2>3. NoneFailed' => HeldReaches'
    BY <2>1, FailedStays, ReachesKept
  <2>4. QED BY <2>2, <2>3 DEF TimelyInv
<1>3. CASE ~Timely
  BY <1>1, <1>3 DEF Timely, TimelyInv
<1>4. QED BY <1>2, <1>3

WholeInv == Inv /\ SerialInv /\ AskedOnce /\ MadeOnce /\ UnseenInv /\ TimelyInv

\* All parts together, in every reachable state.
LEMMA WholeInvariance == Spec => []WholeInv
<1>1. Init => WholeInv
  BY InitInv, InitSerial, InitReaches DEF WholeInv
<1>2. WholeInv /\ [Next]_vars => WholeInv'
  BY InvKept, SerialKept, AskedKept, MadeKept, UnseenKept, TimelyKept DEF WholeInv
<1>3. QED BY <1>1, <1>2, PTL DEF Spec

\* When nothing is under way, a core that is held is connected.
LEMMA QuietReaches ==
    ASSUME Inv, TimelyInv, Timely, NoneCrashed, NoneFailed, Quiet, NEW k \in Cores, Held(k)
    PROVE  socket = k /\ core[k] = "connected" /\ k \notin closed
<1>1. NoneEnding
  BY DEF NoneEnding, Quiet, Settled, Ending
<1>2. Reaches(k)
  BY <1>1 DEF TimelyInv, HeldReaches
<1>3. QED BY <1>2 DEF Reaches, AtEnd, AtLoop, Quiet, AtSocket

\* Operations one after the other, a helper that is in time, no core that ends
\* by itself and no write that fails: when nothing is under way, whatever the
\* application or the helper holds is the core of the current socket, connected
\* and not closed, after any number of restarts and shutdowns and whatever has
\* failed to start (service.dart:49-65, 73-120).
THEOREM HeldIsConnected ==
    Spec => [](Timely /\ NoneCrashed /\ NoneFailed /\ Quiet
                  => \A k \in {process, child} \ {Nil} :
                        socket = k /\ core[k] = "connected" /\ k \notin closed)
<1>1. WholeInv => (Timely /\ NoneCrashed /\ NoneFailed /\ Quiet
                  => \A k \in {process, child} \ {Nil} :
                        socket = k /\ core[k] = "connected" /\ k \notin closed)
  BY QuietReaches DEF WholeInv, Held, Inv, AppType, HelperType
<1>2. QED BY <1>1, WholeInvariance, PTL

\* The same of a restart that has ended: the application is connected, unless
\* a shutdown has begun, a restart or a write has failed or a core has crashed.
\* This is what RestartConnects comes to when nothing is under way.
THEOREM RestartReaches ==
    Spec => [](Timely /\ NoneFailed /\ Quiet /\ (\E r \in Restarts : pc[r] = "done")
                  => \/ Connected
                     \/ \E s \in Shutdowns : pc[s] # "idle"
                     \/ \E r \in Restarts : pc[r] = "failed"
                     \/ \E k \in Cores : core[k] = "crashed")
<1>1. WholeInv => (Timely /\ NoneFailed /\ Quiet /\ (\E r \in Restarts : pc[r] = "done")
                  => \/ Connected
                     \/ \E s \in Shutdowns : pc[s] # "idle"
                     \/ \E r \in Restarts : pc[r] = "failed"
                     \/ \E k \in Cores : core[k] = "crashed")
  <2> SUFFICES ASSUME WholeInv, Timely, NoneFailed, Quiet, \E r \in Restarts : pc[r] = "done",
                      \A s \in Shutdowns : pc[s] = "idle",
                      \A r \in Restarts : pc[r] # "failed", NoneCrashed
               PROVE  Connected
    BY DEF NoneCrashed
  <2>1. \A r \in Restarts : pc[r] \notin Ending \cup Starting \cup {"failed"}
    BY DEF Quiet, Settled, Ending, Starting, Ops
  <2>2. process # Nil \/ child # Nil
    BY <2>1 DEF WholeInv, TimelyInv, DoneHolds
  <2>3. PICK k \in Cores : Held(k)
    BY <2>2 DEF WholeInv, Held, Inv, AppType, HelperType
  <2>4. QED BY <2>3, QuietReaches DEF WholeInv, Connected
<1>2. QED BY <1>1, WholeInvariance, PTL

=============================================================================
