----------------------------- MODULE DesktopCore ----------------------------
(***************************************************************************)
(* The core process of the desktop application: its start and restart by   *)
(* lib/clash/service.dart, its connection to the application's server, and *)
(* on Windows the helper service that starts it with more rights           *)
(* (services/helper/src/service/hub.rs).                                   *)
(*                                                                         *)
(* Dart runs one event at a time: an action is the code between two        *)
(* awaits.  A completer that was replaced is never completed, so whoever   *)
(* waits for it waits for ever: such a call is "lost" (it ends with its    *)
(* default after 30 seconds).                                              *)
(*                                                                         *)
(* A socket whose write failed throws when it is closed, out of the loop   *)
(* that accepts cores or out of the operation.                             *)
(*                                                                         *)
(* Abstractions: the server is bound (nothing starts before it is); a      *)
(* killed process dies at once.                                            *)
(***************************************************************************)
EXTENDS Naturals, Sequences, FiniteSets

CONSTANTS
    Restarts,    \* the calls of reStart
    First,       \* the one of the constructor
    Shutdowns,   \* the calls of shutdown
    Calls,       \* the requests to the core
    Worlds,      \* what may happen: is this Windows (may a helper run), how many
                 \* cores may end by themselves (a bound), may a process fail to
                 \* start, do restarts and shutdowns wait for each other, may the
                 \* helper take longer than its 2 seconds, which requests are made
    Nil

ASSUME ConstantsAssumption ==
    /\ First \in Restarts
    /\ Restarts \cap Shutdowns = {}
    /\ Worlds \subseteq [windows : BOOLEAN, crashes : Nat, failing : BOOLEAN,
                          serial : BOOLEAN, slow : BOOLEAN, calls : SUBSET Calls]

Ops == Restarts \cup Shutdowns

\* A restart starts at most one process itself and one through the helper.
Cores == Restarts \X {"app", "helper"}

ASSUME CoresAssumption == Nil \notin Cores

VARIABLES
    pc,          \* where each restart or shutdown is
    isStarting,
    process,     \* the process the application started, Nil if none
    socket,      \* the core whose socket completed socketCompleter, or Nil
    call,        \* each request: idle, waiting, lost, or sent to a core
    answered,    \* the requests the core has answered
    core,        \* each core: none, spawned, connected, dead, crashed
    closed,      \* the cores to whom the application has closed its socket
    flushed,     \* those to whom all was written before the socket was closed
    failed,      \* those to whom a write failed
    backlog,     \* the cores that wait to be accepted
    server,      \* the loop that accepts: its state, the core it is at and the
                 \* last one, whose socket it closes
    lastSocket,  \* the core whose socket an operation is closing
    helperUp,    \* does the helper service run?
    child,       \* the process the helper holds
    stopReq,     \* the request of an operation that the helper stop its child
    startReq,    \* the request of a restart that the helper start one
    world        \* the world of this behaviour

vars == <<pc, isStarting, process, socket, call, answered, core, closed,
          flushed, failed, backlog, server, lastSocket, helperUp, child, stopReq, startReq, world>>

appVars    == <<isStarting, process, socket>>
callVars   == <<call, answered>>
closeVars  == <<closed, flushed, failed>>
coreVars   == <<core, closeVars>>
serverVars == <<backlog, server, lastSocket>>
helperVars == <<helperUp, child, stopReq, startReq>>

\* The state of a request, and the core it is at.
At(label) == [at |-> label, core |-> Nil]
AtCore(label, k) == [at |-> label, core |-> k]

\* The loop at core k: it has another to close first, or none.
LoopAt(k, last) ==
    [at |-> IF last # Nil THEN "closing" ELSE "complete", core |-> k, last |-> last]

LoopIdle == [at |-> "idle", core |-> Nil, last |-> Nil]

Live(k) == core[k] \in {"spawned", "connected"}

\* The constructor has begun the first restart.
Init ==
    /\ pc = [o \in Ops |-> IF o = First THEN "server" ELSE "idle"]
    /\ isStarting = TRUE
    /\ process = Nil
    /\ socket = Nil
    /\ call = [c \in Calls |-> At("idle")]
    /\ answered = {}
    /\ core = [k \in Cores |-> "none"]
    /\ closed = {} /\ flushed = {} /\ failed = {}
    /\ backlog = <<>>
    /\ server = LoopIdle
    /\ lastSocket = [o \in Ops |-> Nil]
    /\ world \in Worlds
    /\ helperUp \in {FALSE, world.windows}
    /\ child = Nil
    /\ stopReq = [o \in Ops |-> "none"]
    /\ startReq = [r \in Restarts |-> "none"]

Goto(o, label) == pc' = [pc EXCEPT ![o] = label]

\* The process ends, if it has not ended before.
Killed(k) == IF k # Nil /\ Live(k) THEN [core EXCEPT ![k] = "dead"] ELSE core

-----------------------------------------------------------------------------
(* The completer of the socket.                                              *)

\* socketCompleter = Completer(): who waits for the old one waits for ever.
ReplaceCompleter ==
    /\ socket' = Nil
    /\ call' = [c \in Calls |-> IF call[c].at = "waiting" THEN At("lost") ELSE call[c]]

\* Mutant: only later requests see the new socket.
CompleteForNewcomers(k) ==
    /\ socket' = k
    /\ UNCHANGED call

\* socketCompleter.complete(socket): who waits sends its request.
Complete(k) ==
    /\ socket' = k
    /\ call' = [c \in Calls |-> IF call[c].at = "waiting"
                                THEN AtCore("sent", k) ELSE call[c]]

\* Mutant: a request may be sent again.
SendMessageAgain(c) ==
    /\ call' = [call EXCEPT ![c] = CASE socket = Nil -> At("waiting")
                                     [] socket \in closed -> At("lost")
                                     [] OTHER -> AtCore("sent", socket)]
    /\ UNCHANGED <<pc, appVars, answered, coreVars, serverVars, helperVars>>

\* A request waits for the socket and writes to it; nobody reads what is
\* written to a socket that is closed.
SendMessage(c) ==
    /\ call[c].at = "idle"
    /\ call' = [call EXCEPT ![c] = CASE socket = Nil -> At("waiting")
                                     [] socket \in closed -> At("lost")
                                     [] OTHER -> AtCore("sent", socket)]
    /\ UNCHANGED <<pc, appVars, answered, coreVars, serverVars, helperVars>>

-----------------------------------------------------------------------------
(* reStart and shutdown.                                                     *)

\* No operation is under way, nor a request one has left with the helper.
Settled ==
    /\ \A o \in Ops : pc[o] \in {"idle", "ignored", "done", "failed"} /\ stopReq[o] # "sent"
    /\ \A r \in Restarts : startReq[r] \notin {"sent", "stopped"}

MayBegin == world.serial => Settled

\* A restart while another is under way does nothing.
RestartIgnored(r) ==
    /\ pc[r] = "idle"
    /\ isStarting
    /\ Goto(r, "ignored")
    /\ UNCHANGED <<appVars, callVars, coreVars, serverVars, helperVars>>

RestartBegin(r) ==
    /\ pc[r] = "idle"
    /\ MayBegin
    /\ ~isStarting
    /\ isStarting' = TRUE
    /\ ReplaceCompleter
    /\ Goto(r, IF process # Nil THEN "shutdown" ELSE "server")
    /\ UNCHANGED <<process, answered, coreVars, serverVars, helperVars>>

ShutdownBegin(s) ==
    /\ pc[s] = "idle"
    /\ MayBegin
    /\ Goto(s, "shutdown")
    /\ UNCHANGED <<appVars, callVars, coreVars, serverVars, helperVars>>

\* shutdown asks the helper to stop its child; without a helper the request
\* fails at once.
AskStop(o) ==
    /\ pc[o] = "shutdown"
    /\ IF helperUp
       THEN Goto(o, "stopping") /\ stopReq' = [stopReq EXCEPT ![o] = "sent"]
       ELSE Goto(o, "destroy") /\ UNCHANGED stopReq
    /\ UNCHANGED <<appVars, callVars, coreVars, serverVars, helperUp, child, startReq>>

\* It goes on with the answer, or after 2 seconds without.
StopAnswered(o) ==
    /\ pc[o] = "stopping"
    /\ stopReq[o] = "done" \/ world.slow
    /\ Goto(o, "destroy")
    /\ UNCHANGED <<appVars, callVars, coreVars, serverVars, helperVars>>

\* _destroySocket closes the socket it finds; if there is none, nothing.
DestroySocket(o) ==
    /\ pc[o] = "destroy"
    /\ lastSocket' = [lastSocket EXCEPT ![o] = socket]
    /\ IF socket # Nil
       THEN closed' = closed \cup {socket} /\ Goto(o, "closing")
       ELSE UNCHANGED closed /\ Goto(o, "kill")
    /\ UNCHANGED <<appVars, callVars, core, flushed, failed, backlog, server, helperVars>>

\* Then it replaces the completer, whichever that is by now.
SocketDestroyed(o) ==
    /\ pc[o] = "closing"
    /\ lastSocket[o] \notin failed
    /\ flushed' = flushed \cup {lastSocket[o]}
    /\ lastSocket' = [lastSocket EXCEPT ![o] = Nil]
    /\ ReplaceCompleter
    /\ Goto(o, "kill")
    /\ UNCHANGED <<isStarting, process, answered, core, closed, failed, backlog, server,
                   helperVars>>

\* close throws, and the operation ends: nothing is killed, the completer is
\* kept, and isStarting stays as it is.
SocketBroken(o) ==
    /\ pc[o] = "closing"
    /\ lastSocket[o] \in failed
    /\ lastSocket' = [lastSocket EXCEPT ![o] = Nil]
    /\ Goto(o, "failed")
    /\ UNCHANGED <<appVars, callVars, coreVars, backlog, server, helperVars>>

Kill(o) ==
    /\ pc[o] = "kill"
    /\ core' = Killed(process)
    /\ process' = Nil
    /\ Goto(o, IF o \in Restarts THEN "server" ELSE "done")
    /\ UNCHANGED <<isStarting, socket, callVars, closeVars, serverVars, helperVars>>

\* Mutant: without a helper reStart returns.
AskStartHelperOnly(r) ==
    /\ pc[r] = "server"
    /\ IF helperUp
       THEN /\ Goto(r, "starting")
            /\ startReq' = [startReq EXCEPT ![r] = "sent"]
            /\ UNCHANGED isStarting
       ELSE Goto(r, "done") /\ isStarting' = FALSE /\ UNCHANGED startReq
    /\ UNCHANGED <<process, socket, callVars, coreVars, serverVars,
                   helperUp, child, stopReq>>

\* Where the helper runs it is asked to start the core.
AskStart(r) ==
    /\ pc[r] = "server"
    /\ IF helperUp
       THEN Goto(r, "starting") /\ startReq' = [startReq EXCEPT ![r] = "sent"]
       ELSE Goto(r, "spawn") /\ UNCHANGED startReq
    /\ UNCHANGED <<appVars, callVars, coreVars, serverVars, helperUp, child, stopReq>>

\* It did: reStart returns, and isStarting stays set.
StartedByHelper(r) ==
    /\ pc[r] = "starting"
    /\ startReq[r] = "ok"
    /\ Goto(r, "done")
    /\ UNCHANGED <<appVars, callVars, coreVars, serverVars, helperVars>>

\* It did not, or not within 2 seconds.
StartByHelperFailed(r) ==
    /\ pc[r] = "starting"
    /\ startReq[r] = "failed" \/ world.slow
    /\ Goto(r, "spawn")
    /\ UNCHANGED <<appVars, callVars, coreVars, serverVars, helperVars>>

\* Process.start runs the program, or throws; then isStarting stays set.
Spawn(r) ==
    /\ pc[r] = "spawn"
    /\ \/ /\ core' = [core EXCEPT ![<<r, "app">>] = "spawned"]
          /\ Goto(r, "spawned")
       \/ /\ world.failing
          /\ Goto(r, "failed")
          /\ UNCHANGED core
    /\ UNCHANGED <<appVars, callVars, closeVars, serverVars, helperVars>>

\* Mutant: the completer is replaced at the end of a restart.
SpawnedReplacing(r) ==
    /\ pc[r] = "spawned"
    /\ process' = <<r, "app">>
    /\ isStarting' = FALSE
    /\ ReplaceCompleter
    /\ Goto(r, "done")
    /\ UNCHANGED <<answered, coreVars, serverVars, helperVars>>

\* Its future completes.
Spawned(r) ==
    /\ pc[r] = "spawned"
    /\ process' = <<r, "app">>
    /\ isStarting' = FALSE
    /\ Goto(r, "done")
    /\ UNCHANGED <<socket, callVars, coreVars, serverVars, helperVars>>

-----------------------------------------------------------------------------
(* The server: await for (final socket in server) { ... }                    *)

\* Mutant: the last socket is not closed.
AcceptKeepsLast ==
    /\ server.at = "idle"
    /\ backlog # <<>>
    /\ backlog' = Tail(backlog)
    /\ server' = LoopAt(Head(backlog), socket)
    /\ UNCHANGED <<pc, appVars, callVars, coreVars, lastSocket, helperVars>>

\* It takes the next connection and closes the last one, if any.
Accept ==
    /\ server.at = "idle"
    /\ backlog # <<>>
    /\ backlog' = Tail(backlog)
    /\ server' = LoopAt(Head(backlog), socket)
    /\ closed' = closed \cup ({socket} \ {Nil})
    /\ UNCHANGED <<pc, appVars, callVars, core, flushed, failed, lastSocket, helperVars>>

\* Mutant: the completer of the last socket is kept.
LastDestroyedKept ==
    /\ server.at = "closing"
    /\ server.last \notin failed
    /\ flushed' = flushed \cup {server.last}
    /\ server' = [server EXCEPT !.at = "complete", !.last = Nil]
    /\ UNCHANGED <<pc, appVars, callVars, core, closed, failed, backlog, lastSocket, helperVars>>

LastDestroyed ==
    /\ server.at = "closing"
    /\ server.last \notin failed
    /\ flushed' = flushed \cup {server.last}
    /\ ReplaceCompleter
    /\ server' = [server EXCEPT !.at = "complete", !.last = Nil]
    /\ UNCHANGED <<pc, isStarting, process, answered, core, closed, failed, backlog,
                   lastSocket, helperVars>>

\* close throws, which ends the loop; nobody reads what the new core says.
LastBroken ==
    /\ server.at = "closing"
    /\ server.last \in failed
    /\ server' = [server EXCEPT !.at = "ended"]
    /\ UNCHANGED <<pc, appVars, callVars, coreVars, backlog, lastSocket, helperVars>>

\* Completing a completer twice throws, which ends the loop.
AcceptComplete ==
    /\ server.at = "complete"
    /\ IF socket = Nil
       THEN Complete(server.core) /\ server' = LoopIdle
       ELSE UNCHANGED <<socket, call>> /\ server' = [server EXCEPT !.at = "ended"]
    /\ UNCHANGED <<pc, isStarting, process, answered, coreVars, backlog, lastSocket, helperVars>>

-----------------------------------------------------------------------------
(* The cores (core/server.go).                                               *)

Dial(k) ==
    /\ core[k] = "spawned"
    /\ core' = [core EXCEPT ![k] = "connected"]
    /\ backlog' = Append(backlog, k)
    /\ UNCHANGED <<pc, appVars, callVars, closeVars, server, lastSocket, helperVars>>

\* A core reads its requests and answers them in goroutines of their own.
Reply(c) ==
    /\ call[c].at = "sent"
    /\ core[call[c].core] = "connected"
    /\ c \notin answered
    /\ answered' = answered \cup {c}
    /\ UNCHANGED <<pc, appVars, call, coreVars, serverVars, helperVars>>

\* The end of its input, which comes after all that was written, ends the
\* core, and the answers not yet given.
Exit(k) ==
    /\ core[k] = "connected"
    /\ k \in closed
    /\ core' = Killed(k)
    /\ flushed' = flushed \cup {k}
    /\ UNCHANGED <<pc, appVars, callVars, closed, failed, serverVars, helperVars>>

\* A request written to a core that is gone: the write may fail, unless all has
\* been written before.
WriteFails(k) ==
    /\ core[k] \in {"dead", "crashed"}
    /\ k \notin flushed \cup failed
    /\ \E c \in Calls : call[c] = AtCore("sent", k) /\ c \notin answered
    /\ failed' = failed \cup {k}
    /\ UNCHANGED <<pc, appVars, callVars, core, closed, flushed, serverVars, helperVars>>

Crash(k) ==
    /\ Cardinality({j \in Cores : core[j] = "crashed"}) < world.crashes
    /\ Live(k)
    /\ core' = [core EXCEPT ![k] = "crashed"]
    /\ UNCHANGED <<pc, appVars, callVars, closeVars, serverVars, helperVars>>

-----------------------------------------------------------------------------
(* The helper.  Its requests run in threads of their own and outlive the     *)
(* patience of the application; a mutex makes each of these steps one.       *)

\* The user installs or starts the service.
InstallHelper ==
    /\ world.windows
    /\ ~helperUp
    /\ helperUp' = TRUE
    /\ UNCHANGED <<pc, appVars, callVars, coreVars, serverVars,
                   child, stopReq, startReq>>

HelperStop(o) ==
    /\ stopReq[o] = "sent"
    /\ stopReq' = [stopReq EXCEPT ![o] = "done"]
    /\ core' = Killed(child)
    /\ child' = Nil
    /\ UNCHANGED <<pc, appVars, callVars, closeVars, serverVars, helperUp, startReq>>

\* start calls stop, which locks and unlocks ...
HelperStartStops(r) ==
    /\ startReq[r] = "sent"
    /\ startReq' = [startReq EXCEPT ![r] = "stopped"]
    /\ core' = Killed(child)
    /\ child' = Nil
    /\ UNCHANGED <<pc, appVars, callVars, closeVars, serverVars, helperUp, stopReq>>

\* ... and locks again to spawn; a child it finds then is let go, not killed.
HelperStartSpawns(r) ==
    /\ startReq[r] = "stopped"
    /\ \/ /\ core' = [core EXCEPT ![<<r, "helper">>] = "spawned"]
          /\ child' = <<r, "helper">>
          /\ startReq' = [startReq EXCEPT ![r] = "ok"]
       \/ /\ world.failing
          /\ startReq' = [startReq EXCEPT ![r] = "failed"]
          /\ UNCHANGED <<core, child>>
    /\ UNCHANGED <<pc, appVars, callVars, closeVars, serverVars, helperUp, stopReq>>

-----------------------------------------------------------------------------

\* A step of an operation that has begun.
OpStep(o) ==
    \/ AskStop(o) \/ StopAnswered(o) \/ HelperStop(o)
    \/ DestroySocket(o) \/ SocketDestroyed(o) \/ SocketBroken(o) \/ Kill(o)

RestartStep(r) ==
    \/ AskStart(r) \/ StartedByHelper(r) \/ StartByHelperFailed(r)
    \/ HelperStartStops(r) \/ HelperStartSpawns(r)
    \/ Spawn(r) \/ Spawned(r)

ServerStep == Accept \/ LastDestroyed \/ LastBroken \/ AcceptComplete

CoreStep(k) == Dial(k) \/ Exit(k)

Next ==
    /\ UNCHANGED world
    /\ \/ \E r \in Restarts : RestartBegin(r) \/ RestartIgnored(r) \/ RestartStep(r)
       \/ \E s \in Shutdowns : ShutdownBegin(s)
       \/ \E o \in Ops : OpStep(o)
       \/ \E k \in Cores : CoreStep(k) \/ Crash(k) \/ WriteFails(k)
       \/ \E c \in world.calls : SendMessage(c) \/ Reply(c)
       \/ ServerStep
       \/ InstallHelper

Spec == Init /\ [][Next]_vars

\* The event loop, the server and the helper keep running, a live core
\* dials, reads and answers.  Nobody needs to restart, call or install.
Fairness ==
    /\ \A o \in Ops : WF_vars(OpStep(o) /\ UNCHANGED world)
    /\ \A r \in Restarts : WF_vars(RestartStep(r) /\ UNCHANGED world)
    /\ \A k \in Cores : WF_vars(CoreStep(k) /\ UNCHANGED world)
    /\ \A c \in Calls : WF_vars(Reply(c) /\ UNCHANGED world)
    /\ WF_vars(ServerStep /\ UNCHANGED world)

FairSpec == Spec /\ Fairness

-----------------------------------------------------------------------------
(* Properties.                                                               *)

TypeOK ==
    /\ pc \in [Ops -> {"idle", "ignored", "shutdown", "stopping", "destroy", "closing",
                       "kill", "server", "starting", "spawn", "spawned", "done", "failed"}]
    /\ isStarting \in BOOLEAN
    /\ process \in Cores \cup {Nil}
    /\ socket \in Cores \cup {Nil}
    /\ call \in [Calls -> {At("idle"), At("waiting"), At("lost")}
                              \cup {AtCore("sent", k) : k \in Cores}]
    /\ answered \subseteq {c \in Calls : call[c].at = "sent"}
    /\ core \in [Cores -> {"none", "spawned", "connected", "dead", "crashed"}]
    /\ closed \subseteq Cores /\ flushed \subseteq Cores /\ failed \subseteq Cores
    /\ backlog \in Seq(Cores)
    /\ server \in [at : {"idle", "closing", "complete", "ended"},
                   core : Cores \cup {Nil}, last : Cores \cup {Nil}]
    /\ lastSocket \in [Ops -> Cores \cup {Nil}]
    /\ helperUp \in {FALSE, world.windows}
    /\ child \in Cores \cup {Nil}
    /\ stopReq \in [Ops -> {"none", "sent", "done"}]
    /\ world \in Worlds
    /\ startReq \in [Restarts -> {"none", "sent", "stopped", "ok", "failed"}]

\* The loop that accepts cores ends, so that no later core can connect, only
\* because a write to the last core has failed (service.dart:145): it never
\* completes a completer twice (service.dart:51).
ServerKeepsAccepting == server.at = "ended" => server.last \in failed

\* Nothing is under way, not even a connection.
Quiet ==
    /\ Settled
    /\ server.at = "idle" /\ backlog = <<>>
    /\ \A k \in Cores : core[k] # "spawned" /\ (core[k] = "connected" => k \notin closed)

\* No write to a core has failed.
NoneFailed == failed = {}

\* When operations wait for each other and nothing is under way, every core
\* that runs is the one the application talks to: neither a restart nor the
\* helper leaves an old core behind (service.dart:73-120, hub.rs:42-94), and a
\* shutdown leaves none.  After a write that failed an operation may end before
\* it has killed anything.
NoStrayCore ==
    world.serial /\ NoneFailed /\ Quiet => \A k \in Cores : Live(k) => socket = k

\* The requests made while the core starts wait for its socket and are sent to
\* it: unless there was another operation or the core crashed, none is lost
\* (service.dart:128-131).
StartLosesNoCall ==
    (\E c \in Calls : call[c].at = "lost")
        => \/ \E o \in Ops \ {First} : pc[o] \notin {"idle", "ignored"}
           \/ \E k \in Cores : core[k] = "crashed"

\* A request made while the core starts for the first time is answered, unless
\* another operation begins (main.dart:33, controller.dart:1171).
StartAnswersCalls ==
    \A c \in Calls :
        call[c].at # "idle"
            ~> \/ c \in answered
               \/ \E o \in Ops \ {First} : pc[o] \notin {"idle", "ignored"}

Connected == \E k \in Cores : socket = k /\ core[k] = "connected" /\ k \notin closed

\* After a restart the application is, in the end and for good, connected to a
\* running core (controller.dart:135-138 sends its requests to it), unless the
\* loop or an operation has ended at a socket whose write failed.
RestartConnects ==
    (\E r \in Restarts : pc[r] = "done")
        ~> \/ []Connected
           \/ server.at = "ended"
           \/ \E o \in Ops : pc[o] = "failed"
=============================================================================
