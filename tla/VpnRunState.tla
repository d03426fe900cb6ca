---------------------------- MODULE VpnRunState -----------------------------
(***************************************************************************)
(* The run state of the VPN in the Android process: GlobalState.kt and the *)
(* plugins that write it (VpnPlugin.kt, TilePlugin.kt, ServicePlugin.kt),  *)
(* with the service engine, whose Dart isolate (lib/main.dart, _service)   *)
(* carries out what the tile asks for.                                     *)
(*                                                                         *)
(* An action is a piece of code that Android's main thread, or one of the  *)
(* two Dart isolates, runs without giving way.  Everything else is in      *)
(* flight: a message on the channel of the tile, a service being bound, a  *)
(* dialogue, a goroutine of the core, a status that was asked for.         *)
(*                                                                         *)
(* Abstractions: the core carries out startTun and stopTun in the order    *)
(* they were called (TunHandler is about calls that overlap); the service  *)
(* lives in this process, so it is never disconnected alone; exit(0)       *)
(* follows at once on the stop it comes after.                             *)
(***************************************************************************)
EXTENDS Naturals, Sequences

CONSTANTS
    Syncs,      \* the calls of syncStatus
    Modes,      \* what options.enable says: "vpn", or "proxy" without a tunnel
    MaxInputs,  \* how often the user or the system acts (a bound)
    Worlds,     \* the choices of what else may happen: the user may "open" the
                \* application; a start may "fail" and the system reject a VPN
    Nil

ASSUME ConstantsAssumption ==
    /\ Modes \subseteq {"vpn", "proxy"}
    /\ MaxInputs \in Nat
    /\ Worlds \subseteq SUBSET {"open", "fail"}
    /\ Nil \notin {"vpn", "proxy", "start", "stop"}

VARIABLES
    runState,   \* GlobalState.runState
    ui,         \* flutterEngine: none, opened, destroyed (the service engine), up
    engine,     \* serviceEngine: none, starting, ready
    pending,    \* TilePlugin.pendingAction
    tile,       \* the messages on the service engine's channel "tile"
    starts,     \* how many onStart handlers of its isolate are under way
    options,    \* the mode of VpnPlugin.options
    service,    \* VpnPlugin.FoxCloudService: Nil or its mode
    isBind,
    binding,    \* the services that are being bound
    granted,    \* would VpnService.prepare return null?
    asking,     \* does the user see the system's dialogue?
    coreCalls,  \* the calls of startTun and stopTun the core has not run yet
    tun,        \* does the core have a run time?
    job,        \* is VpnPlugin.timerJob active?
    sync,       \* each syncStatus: where it is and what it was told
    misled,     \* history: the last sync wrote STOP although the VPN is on
    may,        \* the world of this behaviour
    inputs      \* how often the user or the system has acted

stateVars  == <<runState, misled>>
engineVars == <<engine, pending, tile, starts>>
bindVars   == <<options, service, isBind, binding>>
permVars   == <<granted, asking>>
coreVars   == <<coreCalls, tun, job>>

vars == <<stateVars, ui, engineVars, bindVars, permVars, coreVars, sync, may, inputs>>

At(label) == [at |-> label, says |-> FALSE]

Init ==
    /\ runState = "STOP" /\ ui = "none"
    /\ engine = "none" /\ pending = Nil /\ tile = <<>> /\ starts = 0
    /\ options = Nil /\ service = Nil /\ isBind = FALSE /\ binding = {}
    /\ granted \in BOOLEAN /\ asking = FALSE
    /\ coreCalls = <<>> /\ tun = FALSE /\ job = FALSE
    /\ sync = [y \in Syncs |-> At("idle")] /\ misled = FALSE
    /\ may \in Worlds /\ inputs = 0

\* The VPN is on, or will be when the core has done what it was told.
On == IF coreCalls = <<>> THEN tun ELSE coreCalls[Len(coreCalls)] = "start"

Input == inputs < MaxInputs /\ inputs' = inputs + 1

\* The process ends, and with it everything but what Android knows.
ProcessEnds ==
    /\ runState' = "STOP" /\ ui' = "none"
    /\ engine' = "none" /\ pending' = Nil /\ tile' = <<>> /\ starts' = 0
    /\ options' = Nil /\ service' = Nil /\ isBind' = FALSE /\ binding' = {}
    /\ asking' = FALSE /\ UNCHANGED granted
    /\ coreCalls' = <<>> /\ tun' = FALSE /\ job' = FALSE
    /\ sync' = [y \in Syncs |-> IF sync[y].at = "idle" THEN sync[y] ELSE At("done")]
    /\ misled' = FALSE

-----------------------------------------------------------------------------
(* The service engine (GlobalState.kt).                                      *)

\* What its isolate was doing ends; a status asked of it is never told.
destroyServiceEngine ==
    /\ engine' = "none" /\ tile' = <<>> /\ starts' = 0
    /\ sync' = [y \in Syncs |-> IF sync[y].at = "asked" THEN At("done") ELSE sync[y]]
    /\ UNCHANGED pending

initServiceEngine == engine' = IF engine = "none" THEN "starting" ELSE engine

\* Before the isolate listens, its channel keeps the newest message only.
Send(command) ==
    /\ tile' = IF engine = "starting" THEN <<command>> ELSE Append(tile, command)
    /\ UNCHANGED pending

\* The tile, a shortcut or a toggle; in any other state they do nothing.
TileAsks(from, command) ==
    /\ Input
    /\ runState = from
    /\ runState' = "PENDING" /\ UNCHANGED misled
    /\ IF engine # "none" THEN Send(command)
       ELSE pending' = command /\ UNCHANGED tile
    /\ initServiceEngine
    /\ UNCHANGED <<ui, starts, bindVars, permVars, coreVars, sync>>

handleStart == TileAsks("STOP", "start")
handleStop  == TileAsks("START", "stop")

-----------------------------------------------------------------------------
(* VpnPlugin.kt.                                                             *)

\* The part of handleStartService under runLock.
StartVpn ==
    IF runState = "START" THEN UNCHANGED <<stateVars, coreVars>>
    ELSE /\ runState' = "START" /\ misled' = FALSE
         /\ coreCalls' = Append(coreCalls, "start") /\ job' = TRUE /\ UNCHANGED tun

\* The same when the system rejects the VPN: establish() throws.
StartRejected(svc) ==
    /\ "fail" \in may /\ svc = "vpn" /\ runState # "START"
    /\ runState' = "START" /\ misled' = FALSE
    /\ UNCHANGED coreVars

\* handleStartService binds the service it lacks.  Who calls it survives a
\* rejection only if it is Flutter, which catches the exception.
handleStartService(svc, mode) ==
    IF svc = Nil
    THEN /\ binding' = IF isBind THEN {mode} ELSE binding \cup {mode}
         /\ UNCHANGED <<stateVars, coreVars>>
    ELSE /\ StartVpn \/ StartRejected(svc)
         /\ UNCHANGED binding

\* handleStart: options of another mode need another service, and a VPN needs
\* a permission, for which only the activity of the application can ask.
VpnHandleStart(mode) ==
    LET svc == IF options = mode THEN service ELSE Nil IN
    /\ options' = mode /\ service' = svc
    /\ IF mode = "proxy" \/ granted
       THEN handleStartService(svc, mode) /\ UNCHANGED asking
       ELSE /\ asking' = (asking \/ ui # "none")
            /\ UNCHANGED <<stateVars, binding, coreVars>>
    /\ UNCHANGED <<isBind, granted>>

\* Mutant: the core is not told.
VpnHandleStopQuietly ==
    IF runState = "STOP" THEN UNCHANGED <<stateVars, coreVars, engineVars, sync>>
    ELSE /\ runState' = "STOP" /\ misled' = FALSE
         /\ job' = FALSE /\ UNCHANGED <<coreCalls, tun>>
         /\ IF ui = "none" THEN destroyServiceEngine ELSE UNCHANGED <<engineVars, sync>>

\* handleStop; without the application the service engine goes too.
VpnHandleStop ==
    IF runState = "STOP" THEN UNCHANGED <<stateVars, coreVars, engineVars, sync>>
    ELSE /\ runState' = "STOP" /\ misled' = FALSE
         /\ coreCalls' = Append(coreCalls, "stop") /\ job' = FALSE /\ UNCHANGED tun
         /\ IF ui = "none" THEN destroyServiceEngine ELSE UNCHANGED <<engineVars, sync>>

\* onServiceConnected.  The service, when created, has wanted an engine; a
\* rejection here ends the process.
ServiceConnected(mode) ==
    /\ mode \in binding
    /\ UNCHANGED inputs
    /\ \/ /\ isBind' = TRUE /\ binding' = binding \ {mode} /\ service' = mode
          /\ StartVpn
          /\ IF mode = "vpn" THEN initServiceEngine ELSE UNCHANGED engine
          /\ UNCHANGED <<ui, pending, tile, starts, options, permVars, sync>>
       \/ "fail" \in may /\ mode = "vpn" /\ runState # "START" /\ ProcessEnds

\* The user grants the permission (AppPlugin.kt, onActivityResult).
PermissionGranted ==
    /\ asking
    /\ UNCHANGED inputs
    /\ \/ /\ asking' = FALSE /\ granted' = TRUE
          /\ initServiceEngine
          /\ IF service = Nil THEN handleStartService(Nil, options)
             ELSE StartVpn /\ UNCHANGED binding
          /\ UNCHANGED <<ui, pending, tile, starts, options, service, isBind, sync>>
       \/ "fail" \in may /\ service = "vpn" /\ runState # "START" /\ ProcessEnds

\* A refusal is told to nobody.
PermissionRefused ==
    /\ asking /\ asking' = FALSE
    /\ UNCHANGED <<stateVars, ui, engineVars, bindVars, granted, coreVars, sync, inputs>>

\* Another VPN takes over; the binder has the tile's stop carried out
\* (FoxCloudVpnService.kt, onTransact).
Revoked ==
    /\ Input
    /\ granted /\ options = "vpn" /\ On
    /\ granted' = FALSE
    /\ IF engine = "none" THEN UNCHANGED <<tile, pending>> ELSE Send("stop")
    /\ UNCHANGED <<stateVars, ui, engine, starts, bindVars, asking, coreVars, sync>>

\* A goroutine of the core (core/lib_android.go).
CoreRuns ==
    /\ coreCalls # <<>>
    /\ tun' = (Head(coreCalls) = "start")
    /\ coreCalls' = Tail(coreCalls)
    /\ UNCHANGED <<stateVars, ui, engineVars, bindVars, permVars, job, sync, inputs>>

-----------------------------------------------------------------------------
(* The isolate of the service engine (lib/main.dart, _service).              *)

\* Mutant: what is pending is forgotten.
ServiceReadyForgets ==
    /\ engine = "starting" /\ engine' = "ready"
    /\ pending' = Nil
    /\ UNCHANGED <<stateVars, ui, tile, starts, bindVars, permVars, coreVars, sync, inputs>>

\* Its listener is in place; TilePlugin sends it what is pending.
ServiceReady ==
    /\ engine = "starting" /\ engine' = "ready"
    /\ tile' = IF pending = Nil THEN tile ELSE Append(tile, pending)
    /\ pending' = Nil
    /\ UNCHANGED <<stateVars, ui, starts, bindVars, permVars, coreVars, sync, inputs>>

Take(command) == engine = "ready" /\ tile # <<>> /\ Head(tile) = command

\* onStart sets up the core, which takes a while ...
OnStart ==
    /\ Take("start") /\ tile' = Tail(tile)
    /\ starts' = starts + 1
    /\ UNCHANGED <<stateVars, ui, engine, pending, bindVars, permVars, coreVars, sync, inputs>>

\* Mutant: a handler ends more than once.
OnStartEndsTwice ==
    /\ engine = "ready" /\ starts' = starts - 1
    /\ \/ \E mode \in Modes : VpnHandleStart(mode)
       \/ "fail" \in may /\ UNCHANGED <<stateVars, bindVars, permVars, coreVars>>
    /\ UNCHANGED <<ui, engine, pending, tile, sync, inputs>>

\* ... and starts the VPN, or returns because there is no profile.
OnStartEnds ==
    /\ starts > 0 /\ starts' = starts - 1
    /\ \/ \E mode \in Modes : VpnHandleStart(mode)
       \/ "fail" \in may /\ UNCHANGED <<stateVars, bindVars, permVars, coreVars>>
    /\ UNCHANGED <<ui, engine, pending, tile, sync, inputs>>

\* onStop, or an onStart that fails, stops the VPN and ends the process, which
\* it lives to see only if handleStop does not destroy its engine.
StopAndExit ==
    /\ Take("stop") \/ ("fail" \in may /\ starts > 0)
    /\ UNCHANGED inputs
    /\ IF runState # "STOP" /\ ui = "none"
       THEN VpnHandleStop /\ UNCHANGED <<ui, bindVars, permVars>>
       ELSE ProcessEnds

-----------------------------------------------------------------------------
(* The application (MainActivity.kt, ServicePlugin.kt).                      *)

SyncLaunched(y) == sync[y].at = "idle" /\ sync' = [sync EXCEPT ![y] = At("launched")]

\* configureFlutterEngine syncs the status.
OpenApp ==
    /\ "open" \in may /\ Input
    /\ ui = "none" /\ ui' = "opened"
    /\ \E y \in Syncs : SyncLaunched(y)
    /\ UNCHANGED <<stateVars, engineVars, bindVars, permVars, coreVars>>

\* onDestroy leaves the run state as it is.
CloseApp ==
    /\ Input
    /\ ui # "none" /\ ui' = "none"
    /\ asking' = FALSE
    /\ UNCHANGED <<stateVars, engineVars, bindVars, granted, coreVars, sync>>

\* _initService (lib/clash/lib.dart), when the application has been opened or
\* restarts the core: destroy ...
Destroy ==
    /\ \/ ui = "opened" /\ UNCHANGED inputs
       \/ ui = "up" /\ Input
    /\ ui' = "destroyed"
    /\ destroyServiceEngine
    /\ UNCHANGED <<stateVars, bindVars, permVars, coreVars>>

\* ... and init.
InitService ==
    /\ ui = "destroyed" /\ ui' = "up"
    /\ initServiceEngine
    /\ UNCHANGED <<stateVars, pending, tile, starts, bindVars, permVars, coreVars, sync, inputs>>

\* startVpn, after the isolate has told its options; without a service engine
\* neither startVpn nor stopVpn does anything.
StartVpnFromUI(mode) ==
    /\ Input
    /\ ui = "up" /\ engine = "ready"
    /\ VpnHandleStart(mode)
    /\ UNCHANGED <<ui, engineVars, sync>>

StopVpnFromUI ==
    /\ Input
    /\ ui = "up" /\ engine # "none"
    /\ VpnHandleStop
    /\ UNCHANGED <<ui, bindVars, permVars>>

-----------------------------------------------------------------------------
(* syncStatus (GlobalState.kt).                                              *)

\* The tile is shown, or the profile changes.
SyncStatus(y) ==
    /\ SyncLaunched(y)
    /\ UNCHANGED <<stateVars, ui, engineVars, bindVars, permVars, coreVars, inputs>>

\* getStatus asks the service engine's isolate, if there is one.
GetStatus(y) ==
    /\ sync[y].at = "launched"
    /\ sync' = [sync EXCEPT ![y].at = IF engine = "none" THEN "told" ELSE "asked"]
    /\ UNCHANGED <<stateVars, ui, engineVars, bindVars, permVars, coreVars, inputs>>

\* The isolate asks the core for its run time (lib/plugins/vpn.dart).
StatusTold(y) ==
    /\ sync[y].at = "asked"
    /\ sync' = [sync EXCEPT ![y] = [at |-> "told", says |-> tun]]
    /\ UNCHANGED <<stateVars, ui, engineVars, bindVars, permVars, coreVars, inputs>>

\* Back on the main thread.
SetRunState(y) ==
    /\ sync[y].at = "told"
    /\ sync' = [sync EXCEPT ![y].at = "done"]
    /\ runState' = IF sync[y].says THEN "START" ELSE "STOP"
    /\ misled' = (On /\ ~sync[y].says)
    /\ UNCHANGED <<ui, engineVars, bindVars, permVars, coreVars, inputs>>

-----------------------------------------------------------------------------

Isolate == ServiceReady \/ OnStart \/ OnStartEnds \/ StopAndExit

SyncStep(y) == GetStatus(y) \/ StatusTold(y) \/ SetRunState(y)

User ==
    \/ handleStart \/ handleStop
    \/ OpenApp \/ CloseApp
    \/ StopVpnFromUI \/ (\E mode \in Modes : StartVpnFromUI(mode))
    \/ PermissionRefused \/ Revoked

Next ==
    /\ UNCHANGED may
    /\ \/ User
       \/ Isolate
       \/ PermissionGranted
       \/ \E mode \in Modes : ServiceConnected(mode)
       \/ CoreRuns
       \/ Destroy \/ InitService
       \/ \E y \in Syncs : SyncStatus(y) \/ SyncStep(y)

Spec == Init /\ [][Next]_vars

\* Isolates, the system's connections, the core and coroutines go on; the
\* user does as he likes.
Fairness ==
    /\ WF_vars(Isolate /\ UNCHANGED may)
    /\ \A mode \in Modes : WF_vars(ServiceConnected(mode) /\ UNCHANGED may)
    /\ WF_vars(CoreRuns /\ UNCHANGED may)
    /\ WF_vars(InitService /\ UNCHANGED may)
    /\ \A y \in Syncs : WF_vars(SyncStep(y) /\ UNCHANGED may)

FairSpec == Spec /\ Fairness

-----------------------------------------------------------------------------
(* Properties.                                                               *)

TypeOK ==
    /\ runState \in {"STOP", "PENDING", "START"}
    /\ ui \in {"none", "opened", "destroyed", "up"}
    /\ engine \in {"none", "starting", "ready"}
    /\ pending \in {Nil, "start", "stop"}
    /\ tile \in Seq({"start", "stop"})
    /\ starts \in Nat
    /\ options \in Modes \cup {Nil}
    /\ service \in Modes \cup {Nil}
    /\ isBind \in BOOLEAN
    /\ binding \subseteq Modes
    /\ granted \in BOOLEAN /\ asking \in BOOLEAN
    /\ tun \in BOOLEAN /\ job \in BOOLEAN /\ misled \in BOOLEAN
    /\ coreCalls \in Seq({"start", "stop"})
    /\ sync \in [Syncs -> [at : {"idle", "launched", "asked", "told", "done"}, says : BOOLEAN]]
    /\ may \in Worlds
    /\ inputs \in 0..MaxInputs

\* While the VPN is on, or its foreground job runs, the run state is not STOP,
\* so that a stop is not refused (VpnPlugin.kt:318): whatever starts, stops,
\* late connections, permissions and ends of the process overlap, only a sync
\* that was told an old status can break it.
OnIsNotStopped == (On \/ job) /\ ~misled => runState # "STOP"

\* Nothing is in flight that changes the run state.
Quiet ==
    /\ runState # "PENDING"
    /\ coreCalls = <<>> /\ tile = <<>> /\ starts = 0 /\ binding = {}
    /\ \A y \in Syncs : sync[y].at \in {"idle", "done"}

\* The sync made when the application opens "ensures UI reflects actual VPN
\* state" (MainActivity.kt:73): when nothing is in flight, the run state is
\* START exactly when the VPN is on.
UIReflectsVpn == Quiet /\ ui # "none" => (tun <=> runState = "START")

\* A start or a stop the tile has accepted is carried through: the run state
\* does not stay PENDING, in which the tile ignores every click
\* (FoxCloudTileService.kt:84), when nothing fails, the permission is there and
\* the application, which replaces the service engine, is not opened.
PendingEnds ==
    (may = {} /\ runState = "PENDING" /\ granted) ~> (runState # "PENDING" \/ ~granted)
=============================================================================
