-------------------------- MODULE VpnRunStateProofs -------------------------
(***************************************************************************)
(* What holds of VpnRunState for every number of syncs, every mode and     *)
(* every bound on the inputs: the types, and that a VPN that is on is not  *)
(* taken for a stopped one unless a stale status was written.              *)
(*                                                                         *)
(* Also that the run state does not stay PENDING for want of somebody to   *)
(* go on, and that it is START only for a VPN that is on.                  *)
(*                                                                         *)
(* The invariant is inductive together with JobNeedsOn: a sync writes STOP *)
(* without stopping the foreground job, and misled only records what it    *)
(* does to a VPN that is on.                                               *)
(***************************************************************************)
EXTENDS VpnRunState, SequenceTheorems, TLAPS

\* The foreground job runs only while the VPN is on.
JobNeedsOn == job => On

\* The user is asked for the permission only after a start gave its options.
AskingHasOptions == asking => options \in Modes

Commands == {"start", "stop"}

-----------------------------------------------------------------------------
(* The queue of the core.                                                    *)

\* After a call to the core, that call decides whether the VPN is on.
LEMMA OnAfterCall ==
    ASSUME NEW c \in Commands, coreCalls \in Seq(Commands),
           coreCalls' = Append(coreCalls, c)
    PROVE  /\ coreCalls' \in Seq(Commands)
           /\ On' <=> c = "start"
<1>1. /\ coreCalls' \in Seq(Commands) /\ coreCalls' # <<>>
      /\ Len(coreCalls') = Len(coreCalls) + 1
      /\ coreCalls'[Len(coreCalls')] = c
  OBVIOUS
<1>2. On' <=> coreCalls'[Len(coreCalls')] = "start"
  BY <1>1 DEF On
<1>3. QED BY <1>1, <1>2

\* Running a call does not change whether the VPN is on.
LEMMA OnAfterRun ==
    ASSUME TypeOK, CoreRuns
    PROVE  /\ coreCalls' \in Seq(Commands)
           /\ tun' \in BOOLEAN
           /\ On' <=> On
<1>1. /\ coreCalls \in Seq(Commands) /\ coreCalls # <<>>
      /\ coreCalls' = Tail(coreCalls)
      /\ tun' = (Head(coreCalls) = "start")
  BY DEF TypeOK, CoreRuns, Commands
<1>2. coreCalls' \in Seq(Commands) /\ tun' \in BOOLEAN
  BY <1>1
<1>3. CASE Len(coreCalls) = 1
  <2>1. coreCalls' = <<>> /\ Head(coreCalls) = coreCalls[Len(coreCalls)]
    BY <1>1, <1>3
  <2>2. QED BY <1>1, <1>2, <2>1 DEF On
<1>4. CASE Len(coreCalls) # 1
  <2> DEFINE n == Len(coreCalls)
  <2>0. n \in Nat /\ n # 0
    BY <1>1, EmptySeq
  <2>a. \A k \in Nat : k # 0 /\ k # 1 => k > 1
    OBVIOUS
  <2>1. n \in Nat /\ n > 1
    BY <1>4, <2>0, <2>a, Zenon
  <2>2. /\ Len(coreCalls') = n - 1
        /\ \A i \in 1..(n - 1) : coreCalls'[i] = coreCalls[i + 1]
    BY <1>1, <2>1, HeadTailProperties
  <2>3. coreCalls' # <<>> /\ coreCalls'[n - 1] = coreCalls[n]
    BY <2>1, <2>2, EmptySeq
  <2>4. QED BY <1>1, <1>2, <2>2, <2>3 DEF On
<1>5. QED BY <1>3, <1>4

-----------------------------------------------------------------------------
(* Types.                                                                    *)

SyncType == [Syncs -> [at : {"idle", "launched", "asked", "told", "done"}, says : BOOLEAN]]

\* The end of an engine, or of the process, leaves every variable its type.
LEMMA EndsKeepTypes ==
    ASSUME TypeOK
    PROVE  /\ destroyServiceEngine => /\ engine' = "none" /\ tile' \in Seq(Commands)
                                      /\ starts' \in Nat /\ pending' = pending
                                      /\ sync' \in SyncType
           /\ ProcessEnds /\ UNCHANGED <<may, inputs>> => TypeOK'
<1>1. destroyServiceEngine => sync' \in SyncType
  BY DEF TypeOK, destroyServiceEngine, At, SyncType
<1>2. ProcessEnds => sync' \in SyncType
  BY DEF TypeOK, ProcessEnds, At, SyncType
<1>3. destroyServiceEngine => /\ engine' = "none" /\ tile' \in Seq(Commands)
                              /\ starts' \in Nat /\ pending' = pending
  BY DEF destroyServiceEngine, Commands
<1>4. ASSUME ProcessEnds, UNCHANGED <<may, inputs>> PROVE TypeOK'
  <2>1. /\ isBind' \in BOOLEAN /\ granted' \in BOOLEAN /\ asking' \in BOOLEAN
        /\ tun' \in BOOLEAN /\ job' \in BOOLEAN /\ misled' \in BOOLEAN
    BY <1>4, Zenon DEF TypeOK, ProcessEnds
  <2>2. tile' \in Seq(Commands) /\ coreCalls' \in Seq(Commands)
    BY <1>4, EmptySeq DEF ProcessEnds
  <2>3. QED
    BY <1>2, <1>4, <2>1, <2>2, SMT DEF TypeOK, ProcessEnds, SyncType, Commands
<1>5. QED BY <1>1, <1>3, <1>4

\* The steps of VpnPlugin leave the variables they write their types.
LEMMA PluginKeepsTypes ==
    ASSUME TypeOK
    PROVE  /\ StartVpn => /\ runState' = "START" /\ misled' \in BOOLEAN
                          /\ coreCalls' \in Seq(Commands)
                          /\ tun' \in BOOLEAN /\ job' \in BOOLEAN
           /\ VpnHandleStop => /\ runState' = "STOP" /\ misled' \in BOOLEAN
                               /\ coreCalls' \in Seq(Commands)
                               /\ tun' \in BOOLEAN /\ job' \in BOOLEAN
                               /\ engine' \in {"none", "starting", "ready"}
                               /\ tile' \in Seq(Commands)
                               /\ starts' \in Nat /\ pending' = pending
                               /\ sync' \in SyncType
           /\ \A mode \in Modes : VpnHandleStart(mode) =>
                  /\ runState' \in {"STOP", "PENDING", "START"} /\ misled' \in BOOLEAN
                  /\ coreCalls' \in Seq(Commands)
                  /\ tun' \in BOOLEAN /\ job' \in BOOLEAN
                  /\ options' \in Modes /\ service' \in Modes \cup {Nil}
                  /\ isBind' \in BOOLEAN /\ binding' \subseteq Modes
                  /\ granted' \in BOOLEAN /\ asking' \in BOOLEAN
<1> USE DEF TypeOK, Commands
<1>1. ASSUME StartVpn
      PROVE  /\ runState' = "START" /\ misled' \in BOOLEAN
             /\ coreCalls' \in Seq(Commands)
             /\ tun' \in BOOLEAN /\ job' \in BOOLEAN
  <2>1. runState' = "START" /\ misled' \in BOOLEAN /\ tun' \in BOOLEAN /\ job' \in BOOLEAN
    BY <1>1, Zenon DEF StartVpn, stateVars, coreVars
  <2>2. coreCalls' = coreCalls \/ coreCalls' = Append(coreCalls, "start")
    BY <1>1, Zenon DEF StartVpn, stateVars, coreVars
  <2>3. QED BY <2>1, <2>2
<1>2. ASSUME VpnHandleStop
      PROVE  /\ runState' = "STOP" /\ misled' \in BOOLEAN
             /\ coreCalls' \in Seq(Commands)
             /\ tun' \in BOOLEAN /\ job' \in BOOLEAN
             /\ engine' \in {"none", "starting", "ready"}
             /\ tile' \in Seq(Commands)
             /\ starts' \in Nat /\ pending' = pending
             /\ sync' \in SyncType
  <2>1. runState' = "STOP" /\ misled' \in BOOLEAN /\ tun' \in BOOLEAN /\ job' \in BOOLEAN
    BY <1>2, Zenon DEF VpnHandleStop, stateVars, coreVars
  <2>2. coreCalls' = coreCalls \/ coreCalls' = Append(coreCalls, "stop")
    BY <1>2, Zenon DEF VpnHandleStop, stateVars, coreVars
  <2>3. destroyServiceEngine \/ UNCHANGED <<engineVars, sync>>
    BY <1>2, Zenon DEF VpnHandleStop
  <2>4. CASE destroyServiceEngine
    <3>1. coreCalls' \in Seq(Commands)
      BY <2>2
    <3>2. QED BY <2>1, <2>4, <3>1, EndsKeepTypes, Zenon
  <2>5. CASE UNCHANGED <<engineVars, sync>>
    BY <2>1, <2>2, <2>5 DEF engineVars, SyncType
  <2>6. QED BY <2>3, <2>4, <2>5
<1>3. ASSUME NEW mode \in Modes, VpnHandleStart(mode)
      PROVE  /\ runState' \in {"STOP", "PENDING", "START"} /\ misled' \in BOOLEAN
             /\ coreCalls' \in Seq(Commands)
             /\ tun' \in BOOLEAN /\ job' \in BOOLEAN
             /\ options' \in Modes /\ service' \in Modes \cup {Nil}
             /\ isBind' \in BOOLEAN /\ binding' \subseteq Modes
             /\ granted' \in BOOLEAN /\ asking' \in BOOLEAN
  <2>1. StartVpn \/ StartRejected(service) \/ UNCHANGED <<stateVars, coreVars>>
    BY <1>3, Zenon DEF VpnHandleStart, handleStartService
  <2>2. /\ runState' \in {"STOP", "PENDING", "START"} /\ misled' \in BOOLEAN
        /\ coreCalls' \in Seq(Commands)
        /\ tun' \in BOOLEAN /\ job' \in BOOLEAN
    <3>1. CASE StartVpn
      BY <1>1, <3>1
    <3>2. CASE StartRejected(service)
      BY <3>2 DEF StartRejected, coreVars
    <3>3. CASE UNCHANGED <<stateVars, coreVars>>
      BY <3>3 DEF stateVars, coreVars
    <3>4. QED BY <2>1, <3>1, <3>2, <3>3
  <2>3. /\ options' = mode /\ service' \in {service, Nil}
        /\ isBind' = isBind /\ granted' = granted
    BY <1>3, Zenon DEF VpnHandleStart
  <2>4. asking' \in BOOLEAN
    BY <1>3, Zenon DEF VpnHandleStart
  <2>5. \/ binding' = binding
        \/ binding' = {mode}
        \/ binding' = binding \cup {mode}
    BY <1>3, Zenon DEF VpnHandleStart, handleStartService
  <2>6. QED BY <2>2, <2>3, <2>4, <2>5
<1>4. QED BY <1>1, <1>2, <1>3

\* Every step leaves every variable its type.
LEMMA TypesKept == TypeOK /\ AskingHasOptions /\ [Next]_vars => TypeOK'
<1> SUFFICES ASSUME TypeOK, AskingHasOptions, [Next]_vars PROVE TypeOK'
  OBVIOUS
<1> USE DEF stateVars, engineVars, bindVars, permVars, coreVars
<1>1. CASE UNCHANGED vars
  BY <1>1 DEF TypeOK, vars
<1>2. ASSUME UNCHANGED may, handleStart \/ handleStop PROVE TypeOK'
  <2>1. PICK c \in Commands : \E from \in {"STOP", "START"} : TileAsks(from, c)
    BY <1>2 DEF handleStart, handleStop, Commands
  <2>2. tile' \in Seq(Commands) /\ pending' \in {Nil, "start", "stop"}
    <3>1. \/ tile' = <<c>> /\ pending' = pending
          \/ tile' = Append(tile, c) /\ pending' = pending
          \/ tile' = tile /\ pending' = c
      BY <2>1, Zenon DEF TileAsks, Send
    <3>2. tile \in Seq(Commands) /\ pending \in {Nil, "start", "stop"}
      BY DEF TypeOK, Commands
    <3>3. <<c>> \in Seq(Commands) /\ Append(tile, c) \in Seq(Commands)
      BY <3>2
    <3>4. c \in {Nil, "start", "stop"}
      BY DEF Commands
    <3>5. QED BY <3>1, <3>2, <3>3, <3>4, Zenon
  <2>3. inputs' \in 0..MaxInputs
    BY <2>1, ConstantsAssumption DEF TypeOK, TileAsks, Input
  <2>4. runState' = "PENDING" /\ engine' \in {"none", "starting", "ready"}
    BY <2>1 DEF TypeOK, TileAsks, initServiceEngine
  <2>5. UNCHANGED <<misled, ui, starts, bindVars, permVars, coreVars, sync>>
    BY <2>1 DEF TileAsks
  <2>6. QED BY <1>2, <2>2, <2>3, <2>4, <2>5 DEF TypeOK, Commands
<1>3. ASSUME UNCHANGED may, OpenApp PROVE TypeOK'
  BY <1>3, ConstantsAssumption DEF TypeOK, OpenApp, Input, SyncLaunched, At
<1>4. ASSUME UNCHANGED may, CloseApp PROVE TypeOK'
  <2>1. asking' \in BOOLEAN
    BY <1>4, Zenon DEF CloseApp
  <2>2. /\ ui' = "none" /\ inputs' \in 0..MaxInputs
        /\ UNCHANGED <<stateVars, engineVars, bindVars, granted, coreVars, sync>>
    BY <1>4, ConstantsAssumption DEF TypeOK, CloseApp, Input
  <2>3. QED BY <1>4, <2>1, <2>2 DEF TypeOK
<1>5. ASSUME UNCHANGED may, StopVpnFromUI PROVE TypeOK'
  BY <1>5, ConstantsAssumption, PluginKeepsTypes
     DEF TypeOK, StopVpnFromUI, Input, Commands, SyncType
<1>6. ASSUME NEW mode \in Modes, UNCHANGED may, StartVpnFromUI(mode) PROVE TypeOK'
  BY <1>6, ConstantsAssumption, PluginKeepsTypes DEF TypeOK, StartVpnFromUI, Input, Commands
<1>7. ASSUME UNCHANGED may, PermissionRefused PROVE TypeOK'
  <2>1. asking' \in BOOLEAN
    BY <1>7, Zenon DEF PermissionRefused
  <2>2. QED BY <1>7, <2>1 DEF TypeOK, PermissionRefused
<1>8. ASSUME UNCHANGED may, Revoked PROVE TypeOK'
  <2>1. granted' \in BOOLEAN
    BY <1>8, Zenon DEF Revoked
  <2>2. tile' \in Seq(Commands) /\ pending' = pending
    <3>1. /\ \/ tile' = tile \/ tile' = <<"stop">> \/ tile' = Append(tile, "stop")
          /\ pending' = pending
      BY <1>8, Zenon DEF Revoked, Send
    <3>2. tile \in Seq(Commands) /\ "stop" \in Commands
      BY DEF TypeOK, Commands
    <3>3. <<"stop">> \in Seq(Commands) /\ Append(tile, "stop") \in Seq(Commands)
      BY <3>2
    <3>4. QED BY <3>1, <3>2, <3>3, Zenon
  <2>3. /\ inputs' \in 0..MaxInputs
        /\ UNCHANGED <<stateVars, ui, engine, starts, bindVars, asking, coreVars, sync>>
    BY <1>8, ConstantsAssumption DEF TypeOK, Revoked, Input
  <2>4. QED BY <1>8, <2>1, <2>2, <2>3 DEF TypeOK, Commands
<1>9. ASSUME UNCHANGED may, ServiceReady PROVE TypeOK'
  BY <1>9, ConstantsAssumption DEF TypeOK, ServiceReady
<1>10. ASSUME UNCHANGED may, OnStart PROVE TypeOK'
  <2>1. tile' \in Seq(Commands)
    BY <1>10, HeadTailProperties DEF TypeOK, OnStart, Take, Commands
  <2>2. QED BY <1>10, <2>1 DEF TypeOK, OnStart, Commands
<1>11. ASSUME UNCHANGED may, OnStartEnds PROVE TypeOK'
  BY <1>11, PluginKeepsTypes DEF TypeOK, OnStartEnds, Commands
<1>12. ASSUME UNCHANGED may, StopAndExit PROVE TypeOK'
  BY <1>12, PluginKeepsTypes, EndsKeepTypes DEF TypeOK, StopAndExit, Commands, SyncType
<1>13. ASSUME UNCHANGED may, PermissionGranted PROVE TypeOK'
  <2>1. CASE ProcessEnds
    BY <1>13, <2>1, EndsKeepTypes DEF PermissionGranted
  <2>2. CASE ~ProcessEnds
    <3>1. /\ asking' \in BOOLEAN /\ granted' \in BOOLEAN
      BY <1>13, <2>2, Zenon DEF PermissionGranted
    <3>2. StartVpn \/ UNCHANGED <<stateVars, coreVars>>
      BY <1>13, <2>2, Zenon DEF PermissionGranted, handleStartService
    <3>3. binding' \subseteq Modes
      BY <1>13, <2>2 DEF TypeOK, AskingHasOptions, PermissionGranted, handleStartService
    <3>4. /\ engine' \in {"none", "starting", "ready"}
          /\ UNCHANGED <<ui, pending, tile, starts, options, service, isBind, sync, inputs>>
      BY <1>13, <2>2 DEF TypeOK, PermissionGranted, initServiceEngine
    <3>5. CASE StartVpn
      BY <1>13, <3>1, <3>3, <3>4, <3>5, PluginKeepsTypes DEF TypeOK, Commands
    <3>6. CASE UNCHANGED <<stateVars, coreVars>>
      BY <1>13, <3>1, <3>3, <3>4, <3>6 DEF TypeOK
    <3>7. QED BY <3>2, <3>5, <3>6
  <2>3. QED BY <2>1, <2>2
<1>14. ASSUME NEW mode \in Modes, UNCHANGED may, ServiceConnected(mode) PROVE TypeOK'
  BY <1>14, PluginKeepsTypes, EndsKeepTypes
     DEF TypeOK, ServiceConnected, initServiceEngine, Commands
<1>15. ASSUME UNCHANGED may, CoreRuns PROVE TypeOK'
  BY <1>15, OnAfterRun DEF TypeOK, CoreRuns, Commands
<1>16. ASSUME UNCHANGED may, Destroy PROVE TypeOK'
  BY <1>16, ConstantsAssumption, EndsKeepTypes DEF TypeOK, Destroy, Input, Commands, SyncType
<1>17. ASSUME UNCHANGED may, InitService PROVE TypeOK'
  BY <1>17 DEF TypeOK, InitService, initServiceEngine
<1>18. ASSUME NEW y \in Syncs, UNCHANGED may, SyncStatus(y) PROVE TypeOK'
  BY <1>18 DEF TypeOK, SyncStatus, SyncLaunched, At
<1>19. ASSUME NEW y \in Syncs, UNCHANGED may, GetStatus(y) PROVE TypeOK'
  <2>1. sync' \in SyncType
    BY <1>19 DEF TypeOK, GetStatus, SyncType
  <2>2. UNCHANGED <<stateVars, ui, engineVars, bindVars, permVars, coreVars, inputs>>
    BY <1>19 DEF GetStatus
  <2>3. QED BY <1>19, <2>1, <2>2 DEF TypeOK, SyncType
<1>20. ASSUME NEW y \in Syncs, UNCHANGED may, StatusTold(y) PROVE TypeOK'
  <2>1. sync' \in SyncType
    BY <1>20 DEF TypeOK, StatusTold, SyncType
  <2>2. UNCHANGED <<stateVars, ui, engineVars, bindVars, permVars, coreVars, inputs>>
    BY <1>20 DEF StatusTold
  <2>3. QED BY <1>20, <2>1, <2>2 DEF TypeOK, SyncType
<1>21. ASSUME NEW y \in Syncs, UNCHANGED may, SetRunState(y) PROVE TypeOK'
  BY <1>21 DEF TypeOK, SetRunState, On
<1>22. QED
  BY <1>1, <1>2, <1>3, <1>4, <1>5, <1>6, <1>7, <1>8, <1>9, <1>10, <1>11, <1>12, <1>13,
     <1>14, <1>15, <1>16, <1>17, <1>18, <1>19, <1>20, <1>21
     DEF Next, User, Isolate, SyncStep

\* A start replaces the options; only the end of the process, which closes the
\* dialogue, takes them away.
LEMMA AskingKept == TypeOK /\ AskingHasOptions /\ [Next]_vars => AskingHasOptions'
<1> SUFFICES ASSUME TypeOK, AskingHasOptions, [Next]_vars PROVE AskingHasOptions'
  OBVIOUS
<1>1. \/ options' \in Modes
      \/ asking' = FALSE
      \/ options' = options /\ asking' = asking
  <2>1. ASSUME NEW mode \in Modes, VpnHandleStart(mode) PROVE options' \in Modes
    BY <2>1, Zenon DEF VpnHandleStart
  <2>2. CASE UNCHANGED vars
    BY <2>2, Zenon DEF vars, bindVars, permVars
  <2>3. CASE User
    BY <2>1, <2>3, Zenon
       DEF User, handleStart, handleStop, TileAsks, OpenApp, CloseApp, StopVpnFromUI,
           StartVpnFromUI, PermissionRefused, Revoked, bindVars, permVars
  <2>4. CASE Isolate
    BY <2>1, <2>4, Zenon
       DEF Isolate, ServiceReady, OnStart, OnStartEnds, StopAndExit, ProcessEnds,
           bindVars, permVars
  <2>5. CASE PermissionGranted
    BY <2>5, Zenon DEF PermissionGranted, ProcessEnds
  <2>6. ASSUME NEW mode \in Modes, ServiceConnected(mode)
        PROVE  asking' = FALSE \/ (options' = options /\ asking' = asking)
    BY <2>6, Zenon DEF ServiceConnected, ProcessEnds, permVars
  <2>7. CASE CoreRuns \/ Destroy \/ InitService
    BY <2>7, Zenon DEF CoreRuns, Destroy, InitService, bindVars, permVars
  <2>8. ASSUME NEW y \in Syncs, SyncStatus(y) \/ SyncStep(y)
        PROVE  options' = options /\ asking' = asking
    BY <2>8, Zenon
       DEF SyncStatus, SyncStep, GetStatus, StatusTold, SetRunState, bindVars, permVars
  <2>9. QED BY <2>2, <2>3, <2>4, <2>5, <2>6, <2>7, <2>8 DEF Next
<1>2. QED BY <1>1, Zenon DEF AskingHasOptions

\* The initial states have the types.
LEMMA InitHasTypes == Init => TypeOK
<1> SUFFICES ASSUME Init PROVE TypeOK
  OBVIOUS
<1>1. tile \in Seq(Commands) /\ coreCalls \in Seq(Commands)
  BY EmptySeq DEF Init
<1>2. sync \in SyncType
  BY DEF Init, At, SyncType
<1>3. /\ isBind \in BOOLEAN /\ granted \in BOOLEAN /\ asking \in BOOLEAN
      /\ tun \in BOOLEAN /\ job \in BOOLEAN /\ misled \in BOOLEAN
  BY Zenon DEF Init
<1>4. inputs \in 0..MaxInputs
  BY ConstantsAssumption DEF Init
<1>5. QED
  BY <1>1, <1>2, <1>3, <1>4 DEF Init, TypeOK, Commands, SyncType

\* Every variable of VpnRunState always has its type.
THEOREM TypeCorrect == Spec => []TypeOK
<1>1. Init => TypeOK /\ AskingHasOptions
  BY InitHasTypes DEF Init, AskingHasOptions
<1>2. TypeOK /\ AskingHasOptions /\ [Next]_vars => TypeOK' /\ AskingHasOptions'
  BY TypesKept, AskingKept
<1>3. QED BY <1>1, <1>2, PTL DEF Spec

-----------------------------------------------------------------------------
(* A VPN that is on is not taken for a stopped one.                          *)

Inv == TypeOK /\ AskingHasOptions /\ JobNeedsOn /\ OnIsNotStopped

\* A step that tells the core nothing and stops nothing.
Keeps ==
    /\ UNCHANGED coreVars
    /\ runState' = "START" \/ (misled' = misled /\ runState' \in {runState, "PENDING"})

\* Every step is one of a few, as far as the VPN and its run state go.
LEMMA StepsOfTheVpn ==
    ASSUME [Next]_vars
    PROVE  \/ StartVpn \/ VpnHandleStop \/ ProcessEnds \/ CoreRuns
           \/ \E y \in Syncs : SetRunState(y)
           \/ Keeps
<1> USE DEF stateVars, coreVars
<1>1. ASSUME NEW mode \in Modes, VpnHandleStart(mode) PROVE StartVpn \/ Keeps
  <2>1. \/ StartVpn
        \/ runState' = "START" /\ UNCHANGED coreVars
        \/ UNCHANGED <<stateVars, coreVars>>
    <3>1. \/ StartVpn \/ StartRejected(service) \/ UNCHANGED <<stateVars, coreVars>>
      BY <1>1, Zenon DEF VpnHandleStart, handleStartService
    <3>2. QED BY <3>1, Zenon DEF StartRejected
  <2>2. QED BY <2>1 DEF Keeps
<1>2. CASE UNCHANGED vars
  BY <1>2 DEF vars, Keeps
<1>3. CASE handleStart \/ handleStop
  BY <1>3 DEF handleStart, handleStop, TileAsks, Keeps
<1>4. CASE OpenApp \/ CloseApp \/ PermissionRefused \/ Revoked
  BY <1>4 DEF OpenApp, CloseApp, PermissionRefused, Revoked, Keeps
<1>5. CASE StopVpnFromUI \/ StopAndExit
  BY <1>5, Zenon DEF StopVpnFromUI, StopAndExit
<1>6. ASSUME NEW mode \in Modes, StartVpnFromUI(mode) PROVE StartVpn \/ Keeps
  BY <1>1, <1>6, Zenon DEF StartVpnFromUI
<1>7. CASE ServiceReady \/ OnStart
  BY <1>7 DEF ServiceReady, OnStart, Keeps
<1>8. CASE OnStartEnds
  <2>1. (\E mode \in Modes : VpnHandleStart(mode)) \/ UNCHANGED <<stateVars, coreVars>>
    BY <1>8, Zenon DEF OnStartEnds
  <2>2. QED BY <1>1, <2>1 DEF Keeps
<1>9. CASE PermissionGranted
  <2>1. ProcessEnds \/ StartVpn \/ UNCHANGED <<stateVars, coreVars>>
    BY <1>9, Zenon DEF PermissionGranted, handleStartService
  <2>2. QED BY <2>1 DEF Keeps
<1>10. ASSUME NEW mode \in Modes, ServiceConnected(mode) PROVE ProcessEnds \/ StartVpn
  BY <1>10, Zenon DEF ServiceConnected
<1>11. CASE Destroy \/ InitService
  BY <1>11 DEF Destroy, InitService, Keeps
<1>12. ASSUME NEW y \in Syncs, SyncStatus(y) \/ GetStatus(y) \/ StatusTold(y) PROVE Keeps
  BY <1>12 DEF SyncStatus, GetStatus, StatusTold, Keeps
<1>13. QED
  BY <1>2, <1>3, <1>4, <1>5, <1>6, <1>7, <1>8, <1>9, <1>10, <1>11, <1>12, Zenon
     DEF Next, User, Isolate, SyncStep

\* The foreground job, the core and the run state stay in step.
LEMMA InvKept == Inv /\ [Next]_vars => JobNeedsOn' /\ OnIsNotStopped'
<1> SUFFICES ASSUME Inv, [Next]_vars PROVE JobNeedsOn' /\ OnIsNotStopped'
  OBVIOUS
<1>0. TypeOK /\ JobNeedsOn /\ OnIsNotStopped /\ coreCalls \in Seq(Commands)
  BY DEF Inv, TypeOK, Commands
<1>1. CASE StartVpn
  <2>1. CASE runState = "START"
    <3>1. UNCHANGED <<runState, misled, coreCalls, tun, job>>
      BY <1>1, <2>1, Zenon DEF StartVpn, stateVars, coreVars
    <3>2. QED BY <1>0, <3>1 DEF JobNeedsOn, OnIsNotStopped, On
  <2>2. CASE runState # "START"
    <3>1. runState' = "START" /\ coreCalls' = Append(coreCalls, "start")
      BY <1>1, <2>2, Zenon DEF StartVpn
    <3>2. On'
      BY <1>0, <3>1, OnAfterCall DEF Commands
    <3>3. QED BY <3>1, <3>2 DEF JobNeedsOn, OnIsNotStopped
  <2>3. QED BY <2>1, <2>2
<1>2. CASE VpnHandleStop
  <2>1. CASE runState = "STOP"
    <3>1. UNCHANGED <<runState, misled, coreCalls, tun, job>>
      BY <1>2, <2>1, Zenon DEF VpnHandleStop, stateVars, coreVars
    <3>2. QED BY <1>0, <3>1 DEF JobNeedsOn, OnIsNotStopped, On
  <2>2. CASE runState # "STOP"
    <3>1. job' = FALSE /\ coreCalls' = Append(coreCalls, "stop")
      BY <1>2, <2>2, Zenon DEF VpnHandleStop
    <3>2. ~On'
      BY <1>0, <3>1, OnAfterCall DEF Commands
    <3>3. QED BY <3>1, <3>2, Zenon DEF JobNeedsOn, OnIsNotStopped
  <2>3. QED BY <2>1, <2>2
<1>3. CASE ProcessEnds
  <2>1. job' = FALSE /\ tun' = FALSE /\ coreCalls' = <<>>
    BY <1>3, Zenon DEF ProcessEnds
  <2>2. ~On'
    BY <2>1 DEF On
  <2>3. QED BY <2>1, <2>2, Zenon DEF JobNeedsOn, OnIsNotStopped
<1>4. CASE CoreRuns
  <2>1. On' <=> On
    BY <1>0, <1>4, OnAfterRun
  <2>2. job' = job /\ misled' = misled /\ runState' = runState
    BY <1>4, Zenon DEF CoreRuns, stateVars
  <2>3. QED BY <1>0, <2>1, <2>2, Zenon DEF JobNeedsOn, OnIsNotStopped
<1>5. ASSUME NEW y \in Syncs, SetRunState(y) PROVE JobNeedsOn' /\ OnIsNotStopped'
  <2>1. /\ On' <=> On
        /\ job' = job
    BY <1>5 DEF SetRunState, coreVars, On
  <2>2. /\ sync[y].says => runState' = "START"
        /\ ~sync[y].says /\ On => misled'
    BY <1>5, Zenon DEF SetRunState
  <2>3. QED BY <1>0, <2>1, <2>2 DEF JobNeedsOn, OnIsNotStopped
<1>6. CASE Keeps
  <2>1. /\ On' <=> On
        /\ job' <=> job
        /\ runState' = "STOP" => (misled' <=> misled) /\ runState = "STOP"
    BY <1>6 DEF Keeps, coreVars, On
  <2>2. QED BY <1>0, <2>1, Zenon DEF JobNeedsOn, OnIsNotStopped
<1>7. QED BY <1>1, <1>2, <1>3, <1>4, <1>5, <1>6, StepsOfTheVpn, Zenon

\* Unless the last sync wrote an old status, a VPN that is on (or will be when
\* the core has done what it was told) is not STOP, so a stop reaches it.
THEOREM OnNotStopped == Spec => []OnIsNotStopped
<1>1. ASSUME Init PROVE Inv
  <2>1. Init => TypeOK
    BY InitHasTypes
  <2>2. ~asking /\ ~job /\ ~On
    BY <1>1 DEF Init, On
  <2>3. QED
    BY <1>1, <2>1, <2>2, Zenon DEF Inv, AskingHasOptions, JobNeedsOn, OnIsNotStopped
<1>2. Inv /\ [Next]_vars => Inv'
  BY TypesKept, AskingKept, InvKept DEF Inv
<1>3. Inv => OnIsNotStopped
  BY DEF Inv
<1>4. QED BY <1>1, <1>2, <1>3, PTL DEF Spec

-----------------------------------------------------------------------------
(* Nothing the tile has accepted is forgotten.                               *)

\* Somebody who goes on by himself will end the PENDING: the isolate of the
\* service engine, or the system, which connects a service.
InHand ==
    \/ engine = "starting" /\ (pending # Nil \/ tile # <<>>)
    \/ engine = "ready" /\ (tile # <<>> \/ starts > 0)
    \/ binding # {}

\* Without the application the engine has what it was told until it is ready,
\* and nobody is asked for the permission.
TileInv ==
    may = {} =>
        /\ ui = "none" /\ asking = FALSE
        /\ pending # Nil => engine = "starting"
        /\ tile # <<>> => engine # "none"
        /\ starts > 0 => engine = "ready"
        /\ runState = "PENDING" /\ granted => InHand

\* A tile request moves on from hand to hand; only the end of its handling
\* takes the run state out of PENDING.
LEMMA TileKept ==
    ASSUME TypeOK, TileInv, [Next]_vars
    PROVE  TileInv'
<1> SUFFICES ASSUME may = {}, may' = may PROVE TileInv'
  BY DEF TileInv, Next, vars
<1> USE DEF stateVars, engineVars, bindVars, permVars, coreVars
<1>a. /\ ui = "none" /\ asking = FALSE
      /\ pending # Nil => engine = "starting"
      /\ tile # <<>> => engine # "none"
      /\ starts > 0 => engine = "ready"
      /\ runState = "PENDING" /\ granted => InHand
  BY DEF TileInv
<1>b. tile \in Seq(Commands) /\ starts \in Nat /\ engine \in {"none", "starting", "ready"}
  BY DEF TypeOK, Commands
<1>1. CASE UNCHANGED vars
  BY <1>1, <1>a, <1>b DEF vars, TileInv, InHand
<1>2. CASE handleStart \/ handleStop
  <2>1. PICK c \in Commands : \E from \in {"STOP", "START"} : TileAsks(from, c)
    BY <1>2 DEF handleStart, handleStop, Commands
  <2>2. /\ engine' = IF engine = "none" THEN "starting" ELSE engine
        /\ UNCHANGED <<ui, starts, binding, granted, asking>>
        /\ engine = "none" => pending' = c /\ tile' = tile
        /\ engine # "none" => pending' = pending /\ tile' \in {<<c>>, Append(tile, c)}
    BY <2>1 DEF TileAsks, initServiceEngine, Send
  <2>3. c # Nil
    BY ConstantsAssumption DEF Commands
  <2>4. <<c>> # <<>> /\ Append(tile, c) # <<>>
    BY <1>b
  <2>5. CASE engine = "none"
    BY <1>a, <1>b, <2>2, <2>3, <2>5 DEF TileInv, InHand
  <2>6. CASE engine # "none"
    BY <1>a, <1>b, <2>2, <2>4, <2>6 DEF TileInv, InHand
  <2>7. QED BY <2>5, <2>6
<1>3. CASE OpenApp
  BY <1>3, <1>a, <1>b DEF OpenApp, SyncLaunched, TileInv, InHand
<1>4. CASE CloseApp
  BY <1>4, <1>a, <1>b DEF CloseApp, TileInv, InHand
<1>5. CASE StopVpnFromUI
  BY <1>5, <1>a, <1>b DEF StopVpnFromUI, TileInv, InHand
<1>6. ASSUME NEW mode \in Modes, StartVpnFromUI(mode) PROVE TileInv'
  BY <1>6, <1>a, <1>b DEF StartVpnFromUI, TileInv, InHand
<1>7. CASE PermissionRefused
  BY <1>7, <1>a, <1>b DEF PermissionRefused, TileInv, InHand
<1>8. CASE Revoked
  BY <1>8, <1>a, <1>b DEF Revoked, Send, TileInv, InHand
<1>9. CASE ServiceReady
  BY <1>9, <1>a, <1>b DEF ServiceReady, TileInv, InHand
<1>10. CASE OnStart
  BY <1>10, <1>a, <1>b DEF OnStart, Take, TileInv, InHand
<1>11. CASE OnStartEnds
  BY <1>11, <1>a, <1>b
     DEF OnStartEnds, VpnHandleStart, handleStartService, StartVpn, StartRejected, TileInv, InHand
<1>12. CASE StopAndExit
  BY <1>12, <1>a, <1>b
     DEF StopAndExit, Take, VpnHandleStop, destroyServiceEngine, ProcessEnds, TileInv, InHand
<1>13. CASE PermissionGranted
  BY <1>13, <1>a, <1>b DEF PermissionGranted, TileInv, InHand
<1>14. ASSUME NEW mode \in Modes, ServiceConnected(mode) PROVE TileInv'
  BY <1>14, <1>a, <1>b
     DEF ServiceConnected, StartVpn, initServiceEngine, ProcessEnds, TileInv, InHand
<1>15. CASE CoreRuns
  BY <1>15, <1>a, <1>b DEF CoreRuns, TileInv, InHand
<1>16. CASE Destroy
  BY <1>16, <1>a, <1>b DEF Destroy, TileInv, InHand
<1>17. CASE InitService
  BY <1>17, <1>a, <1>b DEF InitService, TileInv, InHand
<1>18. ASSUME NEW y \in Syncs, SyncStatus(y) PROVE TileInv'
  BY <1>18, <1>a, <1>b DEF SyncStatus, SyncLaunched, TileInv, InHand
<1>19. ASSUME NEW y \in Syncs, GetStatus(y) PROVE TileInv'
  BY <1>19, <1>a, <1>b DEF GetStatus, TileInv, InHand
<1>20. ASSUME NEW y \in Syncs, StatusTold(y) PROVE TileInv'
  BY <1>20, <1>a, <1>b DEF StatusTold, TileInv, InHand
<1>21. ASSUME NEW y \in Syncs, SetRunState(y) PROVE TileInv'
  BY <1>21, <1>a, <1>b DEF SetRunState, TileInv, InHand
<1>22. QED
  BY <1>1, <1>2, <1>3, <1>4, <1>5, <1>6, <1>7, <1>8, <1>9, <1>10, <1>11, <1>12, <1>13, <1>14,
     <1>15, <1>16, <1>17, <1>18, <1>19, <1>20, <1>21
     DEF Next, User, Isolate, SyncStep

\* A start or a stop the tile has accepted stays in hand until the run state
\* has left PENDING (FoxCloudTileService.kt:84 ignores every click till then):
\* while nothing fails, the permission is there and the application stays
\* closed, the service engine or the system has something to do that goes on
\* by itself, however starts, stops and connections overlap.
THEOREM PendingIsInHand ==
    Spec => [](may = {} /\ runState = "PENDING" /\ granted => InHand)
<1>1. Init => TypeOK /\ AskingHasOptions /\ TileInv
  <2> SUFFICES ASSUME Init PROVE TypeOK /\ AskingHasOptions /\ TileInv
    OBVIOUS
  <2>1. TypeOK
    BY InitHasTypes
  <2>2. AskingHasOptions /\ TileInv
    BY DEF Init, AskingHasOptions, TileInv
  <2>3. QED BY <2>1, <2>2
<1>2. /\ TypeOK /\ AskingHasOptions /\ TileInv /\ [Next]_vars
      => TypeOK' /\ AskingHasOptions' /\ TileInv'
  BY TypesKept, AskingKept, TileKept
<1>3. TileInv => (may = {} /\ runState = "PENDING" /\ granted => InHand)
  BY DEF TileInv
<1>4. QED BY <1>1, <1>2, <1>3, PTL DEF Spec

-----------------------------------------------------------------------------
(* A run state START means a VPN.                                            *)

\* No status that said START has been written back.
NoStartWritten == \A y \in Syncs : sync[y].at = "done" => ~sync[y].says

StartInv == "fail" \notin may /\ NoStartWritten /\ runState = "START" => On

\* What a sync has written stays written, until the process ends.
LEMMA WrittenStays ==
    ASSUME TypeOK, [Next]_vars, NoStartWritten'
    PROVE  NoStartWritten \/ runState' = "STOP"
<1> USE DEF stateVars, engineVars, bindVars, permVars, coreVars
<1>1. CASE UNCHANGED vars
  BY <1>1 DEF vars, NoStartWritten
<1>2. CASE handleStart \/ handleStop
  BY <1>2 DEF handleStart, handleStop, TileAsks, NoStartWritten
<1>3. CASE OpenApp
  BY <1>3 DEF OpenApp, SyncLaunched, NoStartWritten
<1>4. CASE CloseApp
  BY <1>4 DEF CloseApp, NoStartWritten
<1>5. CASE StopVpnFromUI
  BY <1>5 DEF StopVpnFromUI, VpnHandleStop
<1>6. ASSUME NEW mode \in Modes, StartVpnFromUI(mode) PROVE NoStartWritten \/ runState' = "STOP"
  BY <1>6 DEF StartVpnFromUI, NoStartWritten
<1>7. CASE PermissionRefused
  BY <1>7 DEF PermissionRefused, NoStartWritten
<1>8. CASE Revoked
  BY <1>8 DEF Revoked, NoStartWritten
<1>9. CASE ServiceReady
  BY <1>9 DEF ServiceReady, NoStartWritten
<1>10. CASE OnStart
  BY <1>10 DEF OnStart, NoStartWritten
<1>11. CASE OnStartEnds
  BY <1>11 DEF OnStartEnds, NoStartWritten
<1>12. CASE StopAndExit
  BY <1>12 DEF StopAndExit, VpnHandleStop, ProcessEnds
<1>13. CASE PermissionGranted
  BY <1>13 DEF PermissionGranted, NoStartWritten, ProcessEnds
<1>14. ASSUME NEW mode \in Modes, ServiceConnected(mode)
       PROVE  NoStartWritten \/ runState' = "STOP"
  BY <1>14 DEF ServiceConnected, NoStartWritten, ProcessEnds
<1>15. CASE CoreRuns
  BY <1>15 DEF CoreRuns, NoStartWritten
<1>16. CASE Destroy
  BY <1>16 DEF Destroy, NoStartWritten, destroyServiceEngine
<1>17. CASE InitService
  BY <1>17 DEF InitService, NoStartWritten
<1>18. ASSUME NEW y \in Syncs, SyncStatus(y) PROVE NoStartWritten \/ runState' = "STOP"
  BY <1>18 DEF SyncStatus, SyncLaunched, NoStartWritten
<1>19. ASSUME NEW y \in Syncs, GetStatus(y) PROVE NoStartWritten \/ runState' = "STOP"
  BY <1>19 DEF GetStatus, NoStartWritten
<1>20. ASSUME NEW y \in Syncs, StatusTold(y) PROVE NoStartWritten \/ runState' = "STOP"
  BY <1>20 DEF StatusTold, NoStartWritten
<1>21. ASSUME NEW y \in Syncs, SetRunState(y) PROVE NoStartWritten \/ runState' = "STOP"
  BY <1>21 DEF SetRunState, NoStartWritten
<1>22. QED
  BY <1>1, <1>2, <1>3, <1>4, <1>5, <1>6, <1>7, <1>8, <1>9, <1>10, <1>11, <1>12, <1>13, <1>14,
     <1>15, <1>16, <1>17, <1>18, <1>19, <1>20, <1>21
     DEF Next, User, Isolate, SyncStep

\* What becomes of the run state if nothing fails.
Moves ==
    \/ StartVpn \/ CoreRuns \/ runState' # "START"
    \/ \E y \in Syncs : SetRunState(y)
    \/ runState' = runState /\ UNCHANGED coreVars

\* Besides a sync only StartVpn brings the run state to START, and CoreRuns
\* empties the queue of the core.
LEMMA StepsToStart ==
    ASSUME [Next]_vars, "fail" \notin may
    PROVE  Moves
<1> USE DEF stateVars, coreVars
<1>1. ASSUME NEW mode \in Modes, VpnHandleStart(mode) PROVE Moves
  <2>1. StartVpn \/ UNCHANGED <<stateVars, coreVars>>
    BY <1>1, Zenon DEF VpnHandleStart, handleStartService, StartRejected
  <2>2. QED BY <2>1, Zenon DEF Moves
<1>2. ASSUME VpnHandleStop PROVE Moves
  <2>1. runState' = "STOP" \/ UNCHANGED <<stateVars, coreVars>>
    BY <1>2, Zenon DEF VpnHandleStop
  <2>2. QED BY <2>1 DEF Moves
<1>3. ASSUME ProcessEnds PROVE Moves
  BY <1>3 DEF ProcessEnds, Moves
<1>4. CASE UNCHANGED vars
  BY <1>4 DEF vars, Moves
<1>5. CASE handleStart \/ handleStop
  BY <1>5 DEF handleStart, handleStop, TileAsks, Moves
<1>6. CASE OpenApp \/ CloseApp \/ PermissionRefused \/ Revoked
  BY <1>6 DEF OpenApp, CloseApp, PermissionRefused, Revoked, Moves
<1>7. CASE StopVpnFromUI \/ StopAndExit
  BY <1>2, <1>3, <1>7, Zenon DEF StopVpnFromUI, StopAndExit
<1>8. ASSUME NEW mode \in Modes, StartVpnFromUI(mode) PROVE Moves
  BY <1>1, <1>8, Zenon DEF StartVpnFromUI
<1>9. CASE ServiceReady \/ OnStart
  BY <1>9 DEF ServiceReady, OnStart, Moves
<1>10. CASE OnStartEnds
  BY <1>1, <1>10, Zenon DEF OnStartEnds
<1>11. CASE PermissionGranted
  <2>1. ProcessEnds \/ StartVpn \/ UNCHANGED <<stateVars, coreVars>>
    BY <1>11, Zenon DEF PermissionGranted, handleStartService
  <2>2. QED BY <1>3, <2>1, Zenon DEF Moves
<1>12. ASSUME NEW mode \in Modes, ServiceConnected(mode) PROVE Moves
  <2>1. ProcessEnds \/ StartVpn
    BY <1>12, Zenon DEF ServiceConnected
  <2>2. QED BY <1>3, <2>1, Zenon DEF Moves
<1>13. CASE Destroy \/ InitService
  BY <1>13 DEF Destroy, InitService, Moves
<1>14. ASSUME NEW y \in Syncs, SyncStatus(y) \/ GetStatus(y) \/ StatusTold(y) PROVE Moves
  BY <1>14 DEF SyncStatus, GetStatus, StatusTold, Moves
<1>15. QED
  BY <1>4, <1>5, <1>6, <1>7, <1>8, <1>9, <1>10, <1>11, <1>12, <1>13, <1>14, Zenon
     DEF Next, User, Isolate, SyncStep, Moves

\* Both leave the VPN on where the run state is START.
LEMMA StartKept ==
    ASSUME TypeOK, StartInv, [Next]_vars
    PROVE  StartInv'
<1>a. coreCalls \in Seq(Commands)
  BY DEF TypeOK, Commands
<1> SUFFICES ASSUME "fail" \notin may', NoStartWritten', runState' = "START"
             PROVE  On'
  BY Zenon DEF StartInv
<1>1. "fail" \notin may /\ NoStartWritten
  BY WrittenStays DEF Next, vars
<1>2. runState = "START" => On
  BY <1>1 DEF StartInv
<1>3. CASE StartVpn
  <2>1. CASE runState = "START"
    <3>1. UNCHANGED <<coreCalls, tun>>
      BY <1>3, <2>1, Zenon DEF StartVpn, coreVars
    <3>2. QED BY <1>2, <2>1, <3>1 DEF On
  <2>2. CASE runState # "START"
    <3>1. coreCalls' = Append(coreCalls, "start")
      BY <1>3, <2>2, Zenon DEF StartVpn
    <3>2. QED BY <1>a, <3>1, OnAfterCall DEF Commands
  <2>3. QED BY <2>1, <2>2
<1>4. CASE CoreRuns
  <2>1. runState' = runState
    BY <1>4 DEF CoreRuns, stateVars
  <2>2. QED BY <1>2, <1>4, <2>1, OnAfterRun
<1>5. ASSUME NEW y \in Syncs, SetRunState(y) PROVE FALSE
  BY <1>5 DEF SetRunState, NoStartWritten, TypeOK
<1>6. CASE runState' = runState /\ UNCHANGED coreVars
  BY <1>2, <1>6 DEF coreVars, On
<1>7. QED BY <1>1, <1>3, <1>4, <1>5, <1>6, StepsToStart, Zenon DEF Moves

\* The converse of OnNotStopped: a run state START means that the VPN is on, or
\* will be when the core has done what it was told, whatever starts, stops,
\* late connections and permissions overlap - unless a start has failed, which
\* leaves START behind (VpnPlugin.kt:278), or a sync has written START.
THEOREM StartIsOn ==
    Spec => []("fail" \notin may /\ NoStartWritten /\ runState = "START" => On)
<1>1. Init => TypeOK /\ AskingHasOptions /\ StartInv
  <2>1. Init => runState = "STOP" /\ ~asking
    BY Zenon DEF Init
  <2>2. QED BY <2>1, InitHasTypes DEF AskingHasOptions, StartInv
<1>2. /\ TypeOK /\ AskingHasOptions /\ StartInv /\ [Next]_vars
      => TypeOK' /\ AskingHasOptions' /\ StartInv'
  BY TypesKept, AskingKept, StartKept
<1>3. QED BY <1>1, <1>2, PTL DEF Spec, StartInv

=============================================================================
