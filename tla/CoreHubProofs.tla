---------------------------- MODULE CoreHubProofs ----------------------------
(***************************************************************************)
(* Proofs about the request handlers of the core (CoreHub): types, the     *)
(* listeners, panics, the way of the lock, and that the handlers implement *)
(* HubContract.                                                            *)
(***************************************************************************)
EXTENDS CoreHub, TLAPS

-----------------------------------------------------------------------------
(* The inductive invariant.                                                  *)

\* The request that is at one of these labels holds runLock.
Holding == {"apply", "select", "change", "listeners", "recreate", "udp", "panic"}

Updates == {"setupConfig", "updateConfig", "startListener"}

\* What a request that is under way asked for, and that it has no answer yet.
CallInv ==
    /\ answer = [r \in Requests |-> answer[r]]
    /\ \A r \in Requests :
        /\ pc[r] \in Holding <=> runLock = r
        /\ pc[r] = "idle" <=> op[r] = Nil
        /\ pc[r] \in {"apply", "select"} => op[r].method = "setupConfig"
        /\ pc[r] = "change" => op[r].method = "changeProxy"
        /\ pc[r] \in {"listeners", "recreate", "udp"} => op[r].method \in Updates
        /\ pc[r] = "shutdown" => op[r].method = "shutdown"
        /\ pc[r] = "testing" => op[r].method = "asyncTestDelay"
        /\ pc[r] # "done" => answer[r] = Nil

\* The tunnel uses the proxies of the configuration, except while a setup
\* that holds the lock is about to hand them over.
ConfigInv ==
    /\ \A r \in Requests :
        /\ pc[r] \in {"apply", "select", "recreate", "udp"} => currentConfig # Nil
        /\ pc[r] \in {"recreate", "udp"} => isRunning
        /\ pc[r] = "udp" => currentConfig.port # 0
    /\ (\A r \in Requests : pc[r] # "apply")
        => proxies = IF currentConfig = Nil THEN Nil ELSE currentConfig.raw

\* The sockets of the mixed port are open both, as the variables say, or
\* closed both; a TCP listener that was closed may still be in its variable.
Paired ==
    \/ bound = {} /\ udp = Nil
    \/ /\ udp # Nil /\ tcp = udp /\ isRunning /\ currentConfig # Nil
       /\ bound = {"tcp", "udp"} \X {udp}

\* As long as nobody called shutdown: between the halves of ReCreateMixed the
\* TCP one is open alone, and those who wait for runLock find the sockets of the
\* current port or none.
ListenInv ==
    ~ShutdownCalled =>
        /\ \A r \in Requests : pc[r] = "udp" =>
            /\ tcp = currentConfig.port /\ tcp # Nil /\ udp = Nil
            /\ bound = {<<"tcp", tcp>>}
        /\ (\A r \in Requests : pc[r] # "udp") => Paired
        /\ (\A r \in Requests : pc[r] \notin Holding \ {"change"})
            => bound = {} \/ udp = currentConfig.port

IInv == TypeOK /\ CallInv /\ ConfigInv /\ ListenInv /\ PanicOnlyAtTheEdges
-----------------------------------------------------------------------------

\* The requests that are answered at once.
PlainAnswer(r) == InitClash(r) \/ GetIsInit(r) \/ LockedQuery(r) \/ GetProxies(r)

LEMMA PlainFacts ==
    ASSUME NEW r \in Requests, TypeOK, PlainAnswer(r)
    PROVE  /\ pc[r] = "called" /\ pc' = [pc EXCEPT ![r] = "done"]
           /\ \E v : answer' = [answer EXCEPT ![r] = v]
           /\ isInit' \in BOOLEAN
           /\ UNCHANGED <<op, runLock, isRunning, currentConfig, descriptions, proxies,
                          selected, tcp, udp, bound>>
<1> USE DEF Called, Answer, Goto, configVars, listenerVars, TypeOK
<1>1. CASE InitClash(r)
  BY <1>1 DEF InitClash
<1>2. CASE GetIsInit(r)
  BY <1>2 DEF GetIsInit
<1>3. CASE LockedQuery(r)
  BY <1>3 DEF LockedQuery
<1>4. CASE GetProxies(r)
  BY <1>4 DEF GetProxies
<1>5. QED BY <1>1, <1>2, <1>3, <1>4 DEF PlainAnswer

\* A setup replaces the whole configuration by one that parses.
LEMMA SetupFacts ==
    ASSUME NEW r \in Requests, TypeOK, CallInv, SetupConfig(r)
    PROVE  /\ pc[r] = "called" /\ pc' = [pc EXCEPT ![r] = "apply"]
           /\ runLock = Nil /\ runLock' = r
           /\ op[r] \in Ops /\ op[r].method = "setupConfig"
           /\ currentConfig' = Config(Parsed(SetupParams(op[r]).raw))
           /\ currentConfig' \in [raw : Raws, port : Ports] /\ currentConfig' # Nil
           /\ descriptions' \in RawNames \cup {Nil}
           /\ UNCHANGED <<op, answer, isInit, isRunning, proxies, selected, tcp, udp, bound>>
<1> DEFINE raw == SetupParams(op[r]).raw
<1>1. /\ pc[r] = "called" /\ pc' = [pc EXCEPT ![r] = "apply"]
      /\ runLock = Nil /\ runLock' = r
      /\ currentConfig' = Config(Parsed(raw))
      /\ descriptions' = IF raw \in NullProxies THEN descriptions ELSE raw
      /\ UNCHANGED <<op, answer, isInit, isRunning, proxies, selected, tcp, udp, bound>>
      /\ op[r] \in Ops /\ op[r].method = "setupConfig"
  BY DEF SetupConfig, Called, Goto, TypeOK, CallInv, listenerVars
<1>2. raw \in RawNames
  BY <1>1, ConstantsAssumption DEF SetupParams, RawNames
<1>3. Parsed(raw) \in Raws
  BY ConstantsAssumption DEF Parsed
<1>4. PortOf[Parsed(raw)] \in Ports
  BY <1>3 DEF Ports
<1> HIDE DEF raw
<1>5. currentConfig' \in [raw : Raws, port : Ports]
  BY <1>1, <1>3, <1>4 DEF Config
<1>6. currentConfig' # Nil
  BY <1>5, ConstantsAssumption
<1>7. descriptions' \in RawNames \cup {Nil}
  BY <1>1, <1>2 DEF TypeOK
<1>8. QED BY <1>1, <1>5, <1>6, <1>7 DEF raw

\* An update changes the port alone, or nothing.
LEMMA UpdateFacts ==
    ASSUME NEW r \in Requests, TypeOK, CallInv, UpdateConfig(r)
    PROVE  /\ pc[r] = "called" /\ op[r].method = "updateConfig"
           /\ UNCHANGED <<op, isInit, isRunning, descriptions, proxies, selected, tcp, udp, bound>>
           /\ \/ /\ op[r].port = Nil /\ pc' = [pc EXCEPT ![r] = "done"]
                 /\ answer' = [answer EXCEPT ![r] = Failed]
                 /\ UNCHANGED <<runLock, currentConfig>>
              \/ /\ op[r].port # Nil /\ currentConfig = Nil
                 /\ pc' = [pc EXCEPT ![r] = "panic"]
                 /\ runLock = Nil /\ runLock' = r
                 /\ UNCHANGED <<answer, currentConfig>>
              \/ /\ op[r].port \in Ports /\ op[r].port # Nil
                 /\ currentConfig # Nil /\ currentConfig' # Nil
                 /\ currentConfig' \in [raw : Raws, port : Ports]
                 /\ currentConfig'.raw = currentConfig.raw
                 /\ currentConfig'.port = op[r].port
                 /\ pc' = [pc EXCEPT ![r] = "listeners"]
                 /\ runLock = Nil /\ runLock' = r
                 /\ UNCHANGED answer
<1>1. /\ pc[r] = "called" /\ op[r].method = "updateConfig" /\ op[r] \in Ops
      /\ UNCHANGED <<op, isInit, isRunning, descriptions, proxies, selected, tcp, udp, bound>>
  BY DEF UpdateConfig, Called, TypeOK, CallInv, listenerVars
<1>2. CASE op[r].port = Nil
  BY <1>1, <1>2 DEF UpdateConfig, Answer, Goto
<1>3. CASE op[r].port # Nil
  <2>1. runLock = Nil /\ runLock' = r /\ UNCHANGED answer
    BY <1>3 DEF UpdateConfig
  <2>2. CASE currentConfig = Nil
    BY <1>1, <1>3, <2>1, <2>2 DEF UpdateConfig, Goto
  <2>3. CASE currentConfig # Nil
    <3>1. /\ currentConfig \in [raw : Raws, port : Ports]
          /\ currentConfig' = [currentConfig EXCEPT !.port = op[r].port]
          /\ pc' = [pc EXCEPT ![r] = "listeners"]
      BY <1>3, <2>3 DEF UpdateConfig, Goto, TypeOK
    <3>2. op[r].port \in Ports
      BY <1>1, <1>3 DEF Ports
    <3>3. /\ currentConfig' \in [raw : Raws, port : Ports]
          /\ currentConfig'.raw = currentConfig.raw
          /\ currentConfig'.port = op[r].port
      BY <3>1, <3>2
    <3>4. currentConfig' # Nil
      BY <3>3, ConstantsAssumption
    <3>5. QED BY <1>1, <1>3, <2>1, <2>3, <3>1, <3>2, <3>3, <3>4
  <2>4. QED BY <2>2, <2>3
<1>4. QED BY <1>2, <1>3

\* Types.
LEMMA TypeStep ==
    ASSUME TypeOK, CallInv, ConfigInv, [Next]_vars
    PROVE  TypeOK'
<1> USE DEF TypeOK, CallInv, ConfigInv, Labels, RawNames
<1>1. CASE UNCHANGED vars
  BY <1>1 DEF vars, configVars, listenerVars
<1>2. CASE Next
  <2>1. ASSUME NEW r \in Requests, NEW o \in Ops, HandleAction(r, o)
        PROVE  TypeOK'
    BY <2>1 DEF HandleAction, configVars, listenerVars
  <2>2. ASSUME NEW r \in Requests, PlainAnswer(r) PROVE TypeOK'
    BY <2>2, PlainFacts
  <2>3. ASSUME NEW r \in Requests, SetupConfig(r) PROVE TypeOK'
    BY <2>3, SetupFacts
  <2>4. ASSUME NEW r \in Requests, ApplyConfig(r) PROVE TypeOK'
    BY <2>4 DEF ApplyConfig, Goto, configVars, listenerVars
  <2>5. ASSUME NEW r \in Requests, PatchSelectGroup(r) PROVE TypeOK'
    BY <2>5 DEF PatchSelectGroup, Goto, SetupParams, configVars, listenerVars
  <2>6. ASSUME NEW r \in Requests, UpdateConfig(r) PROVE TypeOK'
    BY <2>6, UpdateFacts
  <2>7. ASSUME NEW r \in Requests, ChangeProxy(r) PROVE TypeOK'
    BY <2>7 DEF ChangeProxy, Called, Goto, configVars, listenerVars
  <2>8. ASSUME NEW r \in Requests, SelectProxy(r) PROVE TypeOK'
    BY <2>8 DEF SelectProxy, Finish, Answer, Goto, configVars, listenerVars
  <2>9. ASSUME NEW r \in Requests, StartListener(r) PROVE TypeOK'
    BY <2>9 DEF StartListener, Called, Goto, configVars, listenerVars
  <2>10. ASSUME NEW r \in Requests, StopListener(r) PROVE TypeOK'
    BY <2>10 DEF StopListener, Called, Answer, Goto, configVars, listenerVars
  <2>11. ASSUME NEW r \in Requests, Shutdown(r) PROVE TypeOK'
    BY <2>11 DEF Shutdown, Called, Goto, configVars, listenerVars
  <2>12. ASSUME NEW r \in Requests, ShutdownUDP(r) PROVE TypeOK'
    BY <2>12 DEF ShutdownUDP, Answer, Goto, configVars, listenerVars
  <2>13. ASSUME NEW r \in Requests, UpdateListeners(r) PROVE TypeOK'
    BY <2>13 DEF UpdateListeners, Goto, FinishUpdate, Finish, Answer, configVars, listenerVars
  <2>14. ASSUME NEW r \in Requests, RecreateTCP(r) PROVE TypeOK'
    BY <2>14 DEF RecreateTCP, Goto, FinishUpdate, Finish, Answer, configVars, listenerVars
  <2>15. ASSUME NEW r \in Requests, RecreateUDP(r) PROVE TypeOK'
    BY <2>15 DEF RecreateUDP, Goto, FinishUpdate, Finish, Answer, configVars, listenerVars
  <2>16. ASSUME NEW r \in Requests, TestDelay(r) PROVE TypeOK'
    BY <2>16 DEF TestDelay, Called, Goto, configVars, listenerVars
  <2>17. ASSUME NEW r \in Requests, TestDelayDone(r) PROVE TypeOK'
    BY <2>17 DEF TestDelayDone, Answer, Goto, configVars, listenerVars
  <2>18. QED
    BY <1>2, <2>1, <2>2, <2>3, <2>4, <2>5, <2>6, <2>7, <2>8, <2>9,
        <2>10, <2>11, <2>12, <2>13, <2>14, <2>15, <2>16, <2>17
    DEF Next, Step, PlainAnswer
<1>3. QED BY <1>1, <1>2

\* Who holds runLock, and what for.
LEMMA CallStep ==
    ASSUME TypeOK, CallInv, [Next]_vars
    PROVE  CallInv'
<1> USE ConstantsAssumption DEF TypeOK, CallInv, Labels, Holding, Updates
<1>1. CASE UNCHANGED vars
  BY <1>1 DEF vars, configVars, listenerVars
<1>2. CASE Next
  <2>1. ASSUME NEW r \in Requests, NEW o \in Ops, HandleAction(r, o)
        PROVE  CallInv'
    BY <2>1 DEF HandleAction, configVars, listenerVars
  <2>2. ASSUME NEW r \in Requests, PlainAnswer(r) PROVE CallInv'
    BY <2>2, PlainFacts
  <2>3. ASSUME NEW r \in Requests, SetupConfig(r) PROVE CallInv'
    BY <2>3 DEF SetupConfig, Called, Goto, SetupParams, Parsed, Config, configVars, listenerVars
  <2>4. ASSUME NEW r \in Requests, ApplyConfig(r) PROVE CallInv'
    BY <2>4 DEF ApplyConfig, Goto, configVars, listenerVars
  <2>5. ASSUME NEW r \in Requests, PatchSelectGroup(r) PROVE CallInv'
    BY <2>5 DEF PatchSelectGroup, Goto, SetupParams, configVars, listenerVars
  <2>6. ASSUME NEW r \in Requests, UpdateConfig(r) PROVE CallInv'
    BY <2>6 DEF UpdateConfig, Called, Answer, Goto, configVars, listenerVars
  <2>7. ASSUME NEW r \in Requests, ChangeProxy(r) PROVE CallInv'
    BY <2>7 DEF ChangeProxy, Called, Goto, configVars, listenerVars
  <2>8. ASSUME NEW r \in Requests, SelectProxy(r) PROVE CallInv'
    BY <2>8 DEF SelectProxy, Finish, Answer, Goto, configVars, listenerVars
  <2>9. ASSUME NEW r \in Requests, StartListener(r) PROVE CallInv'
    BY <2>9 DEF StartListener, Called, Goto, configVars, listenerVars
  <2>10. ASSUME NEW r \in Requests, StopListener(r) PROVE CallInv'
    BY <2>10 DEF StopListener, Called, Answer, Goto, configVars, listenerVars
  <2>11. ASSUME NEW r \in Requests, Shutdown(r) PROVE CallInv'
    BY <2>11 DEF Shutdown, Called, Goto, configVars, listenerVars
  <2>12. ASSUME NEW r \in Requests, ShutdownUDP(r) PROVE CallInv'
    BY <2>12 DEF ShutdownUDP, Answer, Goto, configVars, listenerVars
  <2>13. ASSUME NEW r \in Requests, UpdateListeners(r) PROVE CallInv'
    BY <2>13 DEF UpdateListeners, Goto, FinishUpdate, Finish, Answer, configVars, listenerVars
  <2>14. ASSUME NEW r \in Requests, RecreateTCP(r) PROVE CallInv'
    BY <2>14 DEF RecreateTCP, Goto, FinishUpdate, Finish, Answer, configVars, listenerVars
  <2>15. ASSUME NEW r \in Requests, RecreateUDP(r) PROVE CallInv'
    BY <2>15 DEF RecreateUDP, Goto, FinishUpdate, Finish, Answer, configVars, listenerVars
  <2>16. ASSUME NEW r \in Requests, TestDelay(r) PROVE CallInv'
    BY <2>16 DEF TestDelay, Called, Goto, configVars, listenerVars
  <2>17. ASSUME NEW r \in Requests, TestDelayDone(r) PROVE CallInv'
    BY <2>17 DEF TestDelayDone, Answer, Goto, configVars, listenerVars
  <2>18. QED
    BY <1>2, <2>1, <2>2, <2>3, <2>4, <2>5, <2>6, <2>7, <2>8, <2>9,
        <2>10, <2>11, <2>12, <2>13, <2>14, <2>15, <2>16, <2>17
    DEF Next, Step, PlainAnswer
<1>3. QED BY <1>1, <1>2

\* The configuration, its proxies, and what a handler has tested.
LEMMA ConfigStep ==
    ASSUME TypeOK, CallInv, ConfigInv, [Next]_vars
    PROVE  ConfigInv'
<1> USE ConstantsAssumption DEF TypeOK, CallInv, ConfigInv, Labels, Holding
<1>1. CASE UNCHANGED vars
  BY <1>1 DEF vars, configVars, listenerVars
<1>2. CASE Next
  <2>1. ASSUME NEW r \in Requests, NEW o \in Ops, HandleAction(r, o)
        PROVE  ConfigInv'
    BY <2>1 DEF HandleAction, configVars, listenerVars
  <2>2. ASSUME NEW r \in Requests, PlainAnswer(r) PROVE ConfigInv'
    BY <2>2, PlainFacts
  <2>3. ASSUME NEW r \in Requests, SetupConfig(r) PROVE ConfigInv'
    BY <2>3, SetupFacts
  <2>4. ASSUME NEW r \in Requests, ApplyConfig(r) PROVE ConfigInv'
    BY <2>4 DEF ApplyConfig, Goto, configVars, listenerVars
  <2>5. ASSUME NEW r \in Requests, PatchSelectGroup(r) PROVE ConfigInv'
    BY <2>5 DEF PatchSelectGroup, Goto, SetupParams, configVars, listenerVars
  <2>6. ASSUME NEW r \in Requests, UpdateConfig(r) PROVE ConfigInv'
    BY <2>6, UpdateFacts
  <2>7. ASSUME NEW r \in Requests, ChangeProxy(r) PROVE ConfigInv'
    BY <2>7 DEF ChangeProxy, Called, Goto, configVars, listenerVars
  <2>8. ASSUME NEW r \in Requests, SelectProxy(r) PROVE ConfigInv'
    BY <2>8 DEF SelectProxy, Finish, Answer, Goto, configVars, listenerVars
  <2>9. ASSUME NEW r \in Requests, StartListener(r) PROVE ConfigInv'
    BY <2>9 DEF StartListener, Called, Goto, configVars, listenerVars
  <2>10. ASSUME NEW r \in Requests, StopListener(r) PROVE ConfigInv'
    BY <2>10 DEF StopListener, Called, Answer, Goto, configVars, listenerVars
  <2>11. ASSUME NEW r \in Requests, Shutdown(r) PROVE ConfigInv'
    BY <2>11 DEF Shutdown, Called, Goto, configVars, listenerVars
  <2>12. ASSUME NEW r \in Requests, ShutdownUDP(r) PROVE ConfigInv'
    BY <2>12 DEF ShutdownUDP, Answer, Goto, configVars, listenerVars
  <2>13. ASSUME NEW r \in Requests, UpdateListeners(r) PROVE ConfigInv'
    BY <2>13 DEF UpdateListeners, Goto, FinishUpdate, Finish, Answer, configVars, listenerVars
  <2>14. ASSUME NEW r \in Requests, RecreateTCP(r) PROVE ConfigInv'
    BY <2>14 DEF RecreateTCP, Goto, FinishUpdate, Finish, Answer, configVars, listenerVars
  <2>15. ASSUME NEW r \in Requests, RecreateUDP(r) PROVE ConfigInv'
    BY <2>15 DEF RecreateUDP, Goto, FinishUpdate, Finish, Answer, configVars, listenerVars
  <2>16. ASSUME NEW r \in Requests, TestDelay(r) PROVE ConfigInv'
    BY <2>16 DEF TestDelay, Called, Goto, configVars, listenerVars
  <2>17. ASSUME NEW r \in Requests, TestDelayDone(r) PROVE ConfigInv'
    BY <2>17 DEF TestDelayDone, Answer, Goto, configVars, listenerVars
  <2>18. QED
    BY <1>2, <2>1, <2>2, <2>3, <2>4, <2>5, <2>6, <2>7, <2>8, <2>9,
        <2>10, <2>11, <2>12, <2>13, <2>14, <2>15, <2>16, <2>17
    DEF Next, Step, PlainAnswer
<1>3. QED BY <1>1, <1>2

\* The sockets follow their variables.
LEMMA ListenStep ==
    ASSUME TypeOK, CallInv, ConfigInv, ListenInv, [Next]_vars
    PROVE  ListenInv'
<1> USE ConstantsAssumption DEF TypeOK, CallInv, ConfigInv, ListenInv, Paired, ShutdownCalled,
    Labels, Holding, Updates
<1>1. CASE UNCHANGED vars
  BY <1>1 DEF vars, configVars, listenerVars
<1>2. CASE Next
  <2>1. ASSUME NEW r \in Requests, NEW o \in Ops, HandleAction(r, o)
        PROVE  ListenInv'
    BY <2>1 DEF HandleAction, configVars, listenerVars
  <2>2. ASSUME NEW r \in Requests, PlainAnswer(r) PROVE ListenInv'
    BY <2>2, PlainFacts
  <2>3. ASSUME NEW r \in Requests, SetupConfig(r) PROVE ListenInv'
    BY <2>3, SetupFacts
  <2>4. ASSUME NEW r \in Requests, ApplyConfig(r) PROVE ListenInv'
    BY <2>4 DEF ApplyConfig, Goto, configVars, listenerVars
  <2>5. ASSUME NEW r \in Requests, PatchSelectGroup(r) PROVE ListenInv'
    BY <2>5 DEF PatchSelectGroup, Goto, SetupParams, configVars, listenerVars
  <2>6. ASSUME NEW r \in Requests, UpdateConfig(r) PROVE ListenInv'
    BY <2>6, UpdateFacts
  <2>7. ASSUME NEW r \in Requests, ChangeProxy(r) PROVE ListenInv'
    BY <2>7 DEF ChangeProxy, Called, Goto, configVars, listenerVars
  <2>8. ASSUME NEW r \in Requests, SelectProxy(r) PROVE ListenInv'
    BY <2>8 DEF SelectProxy, Finish, Answer, Goto, configVars, listenerVars
  <2>9. ASSUME NEW r \in Requests, StartListener(r) PROVE ListenInv'
    BY <2>9 DEF StartListener, Called, Goto, configVars, listenerVars
  <2>10. ASSUME NEW r \in Requests, StopListener(r) PROVE ListenInv'
    BY <2>10 DEF StopListener, Called, Answer, Goto, configVars, listenerVars
  <2>11. ASSUME NEW r \in Requests, Shutdown(r) PROVE ListenInv'
    BY <2>11 DEF Shutdown, Called, Goto, configVars, listenerVars
  <2>12. ASSUME NEW r \in Requests, ShutdownUDP(r) PROVE ListenInv'
    BY <2>12 DEF ShutdownUDP, Answer, Goto, configVars, listenerVars
  <2>13. ASSUME NEW r \in Requests, UpdateListeners(r) PROVE ListenInv'
    BY <2>13 DEF UpdateListeners, Goto, FinishUpdate, Finish, Answer, configVars, listenerVars
  <2>14. ASSUME NEW r \in Requests, RecreateTCP(r) PROVE ListenInv'
    BY <2>14 DEF RecreateTCP, Goto, FinishUpdate, Finish, Answer, configVars, listenerVars
  <2>15. ASSUME NEW r \in Requests, RecreateUDP(r) PROVE ListenInv'
    BY <2>15 DEF RecreateUDP, Goto, FinishUpdate, Finish, Answer, configVars, listenerVars
  <2>16. ASSUME NEW r \in Requests, TestDelay(r) PROVE ListenInv'
    BY <2>16 DEF TestDelay, Called, Goto, configVars, listenerVars
  <2>17. ASSUME NEW r \in Requests, TestDelayDone(r) PROVE ListenInv'
    BY <2>17 DEF TestDelayDone, Answer, Goto, configVars, listenerVars
  <2>18. QED
    BY <1>2, <2>1, <2>2, <2>3, <2>4, <2>5, <2>6, <2>7, <2>8, <2>9,
        <2>10, <2>11, <2>12, <2>13, <2>14, <2>15, <2>16, <2>17
    DEF Next, Step, PlainAnswer
<1>3. QED BY <1>1, <1>2


\* A handler panics only before the first setup or when it meets a shutdown.
LEMMA PanicStep ==
    ASSUME TypeOK, CallInv, ConfigInv, ListenInv, PanicOnlyAtTheEdges, [Next]_vars
    PROVE  PanicOnlyAtTheEdges'
<1> USE DEF PanicOnlyAtTheEdges, Panicked
<1>1. CASE UNCHANGED vars
  BY <1>1 DEF vars, ShutdownCalled
<1>2. ASSUME Next, ~Panicked, NEW r \in Requests, pc'[r] = "panic"
      PROVE  currentConfig' = Nil \/ ShutdownCalled'
  <2>1. pc[r] # "panic"
    BY <1>2
  <2>2. UpdateConfig(r) \/ RecreateUDP(r)
    <3>1. PICK s \in Requests : Step(s) \/ \E o \in Ops : HandleAction(s, o)
      BY <1>2 DEF Next
    <3>2. CASE \E o \in Ops : HandleAction(s, o)
      BY <3>2, <1>2, <2>1 DEF HandleAction, TypeOK
    <3>3. CASE Step(s)
      BY <3>3, <1>2, <2>1 DEF Step, TypeOK, InitClash, GetIsInit, LockedQuery, SetupConfig,
          ApplyConfig, PatchSelectGroup, UpdateConfig, ChangeProxy, SelectProxy, GetProxies,
          StartListener, StopListener, Shutdown, ShutdownUDP, UpdateListeners, RecreateTCP,
          RecreateUDP, TestDelay, TestDelayDone, Goto, Answer, Finish, FinishUpdate
    <3>4. QED BY <3>1, <3>2, <3>3
  <2>3. CASE UpdateConfig(r)
    BY <1>2, <2>3, UpdateFacts DEF TypeOK
  <2>4. CASE RecreateUDP(r)
    <3>1. pc[r] = "udp" /\ tcp = Nil /\ UNCHANGED op
      BY <1>2, <2>4 DEF RecreateUDP, FinishUpdate, Finish, Answer, Goto, TypeOK
    <3>2. ShutdownCalled
      BY <3>1 DEF ListenInv
    <3>3. ShutdownCalled'
      BY <1>2, <2>4, <3>1, <3>2 DEF ShutdownCalled, RecreateUDP, FinishUpdate, Finish, Answer,
          Goto, TypeOK
    <3>4. QED BY <3>3
  <2>5. QED BY <2>2, <2>3, <2>4
<1>3. QED BY <1>1, <1>2 DEF Next

-----------------------------------------------------------------------------
(* Theorems.                                                                 *)

\* The inductive invariant: who holds runLock and what for, what the proxies
\* are those of, and which sockets are open.
THEOREM Invariance == Spec => []IInv
<1>1. Init => IInv
  <2> SUFFICES ASSUME Init PROVE IInv
    OBVIOUS
  <2>1. TypeOK
    BY DEF Init, TypeOK, Labels
  <2>2. CallInv
    BY ConstantsAssumption DEF Init, CallInv, Holding
  <2>3. ConfigInv
    BY DEF Init, ConfigInv
  <2>4. ListenInv
    BY DEF Init, ListenInv, Paired
  <2>5. PanicOnlyAtTheEdges
    BY DEF Init, PanicOnlyAtTheEdges
  <2>6. QED BY <2>1, <2>2, <2>3, <2>4, <2>5 DEF IInv
<1>2. IInv /\ [Next]_vars => IInv'
  BY TypeStep, CallStep, ConfigStep, ListenStep, PanicStep DEF IInv
<1>3. QED BY <1>1, <1>2, PTL DEF Spec

\* Types, and that no listener is opened on port 0 (listener.go, portIsZero),
\* for any requests and configurations.
THEOREM TypeCorrect == Spec => []TypeOK
<1>1. IInv => TypeOK
  BY DEF IInv
<1>2. QED BY <1>1, Invariance, PTL

\* However many setups, updates, starts and stops overlap and whichever ports
\* cannot be opened, those who wait for runLock find the two sockets of the
\* current port open, or none (common.go, updateListeners; listener.go,
\* ReCreateMixed), as long as nobody has called shutdown.
THEOREM ListenersAgree == Spec => []ListenersFollow
<1>1. IInv => ListenersFollow
  <2> SUFFICES ASSUME IInv, runLock = Nil, ~ShutdownCalled
               PROVE  \/ bound = {}
                      \/ /\ isRunning /\ currentConfig # Nil
                         /\ bound = {"tcp", "udp"} \X {currentConfig.port}
    BY DEF ListenersFollow
  <2>1. \A r \in Requests : pc[r] \notin Holding
    BY ConstantsAssumption DEF IInv, CallInv
  <2>2. Paired /\ (bound = {} \/ udp = currentConfig.port)
    BY <2>1 DEF IInv, ListenInv, Holding
  <2>3. QED BY <2>2 DEF Paired
<1>2. QED BY <1>1, Invariance, PTL

\* The nil listener that ReCreateMixed would dereference (listener.go:494) and
\* the nil configuration of an update are met only before the first setup or
\* when a shutdown, which takes no lock, runs into a handler (hub.go:82).
THEOREM PanicsAtTheEdges == Spec => []PanicOnlyAtTheEdges
<1>1. IInv => PanicOnlyAtTheEdges
  BY DEF IInv
<1>2. QED BY <1>1, Invariance, PTL

-----------------------------------------------------------------------------
(* The lock comes back.                                                      *)

\* Where a request that keeps runLock goes next.
Onward ==
    [apply |-> {"select"}, select |-> {"listeners"}, listeners |-> {"recreate"},
     recreate |-> {"udp"}, udp |-> {"panic"}, change |-> {}, panic |-> {}]

\* The holder stays, goes one step on, or has its answer and gives the lock back.
LockGoesOn(r) ==
    \/ runLock' = r /\ pc'[r] \in {pc[r]} \cup Onward[pc[r]]
    \/ runLock' = Nil /\ pc'[r] = "done"

\* Whatever holds runLock, from one goroutine or from two (hub.go:152), goes
\* only forward, in five steps at most, and is the only one to give the lock
\* back, with its answer; it never waits for a request that waits for the lock.
THEOREM LockComesBack ==
    Spec => [][\A r \in Requests : runLock = r => LockGoesOn(r)]_vars
<1>1. ASSUME IInv, Next, NEW r \in Requests, runLock = r PROVE LockGoesOn(r)
  <2> USE DEF Goto, Answer, Finish, FinishUpdate, Onward
  <2>1. /\ pc \in [Requests -> Labels] /\ pc[r] \in Holding
        /\ r # Nil /\ \A s \in Requests : s # r => pc[s] \notin Holding
    BY <1>1, ConstantsAssumption DEF IInv, TypeOK, CallInv
  <2>2. ASSUME NEW s \in Requests, s # r, runLock' = runLock,
               \E label : pc' = [pc EXCEPT ![s] = label]
        PROVE  LockGoesOn(r)
    BY <1>1, <2>1, <2>2 DEF LockGoesOn
  <2>3. ASSUME NEW s \in Requests, NEW o \in Ops, HandleAction(s, o) PROVE LockGoesOn(r)
    <3>1. s # r
      BY <2>1, <2>3 DEF HandleAction, Holding
    <3>2. QED BY <2>2, <2>3, <3>1 DEF HandleAction
  <2>4. ASSUME NEW s \in Requests, s # r, Step(s) PROVE LockGoesOn(r)
    <3>1. pc[s] \notin Holding /\ runLock # Nil /\ runLock # s
      BY <1>1, <2>1, <2>4
    <3>2. runLock' = runLock /\ \E label : pc' = [pc EXCEPT ![s] = label]
      BY <2>4, <3>1
         DEF Holding, Step, InitClash, GetIsInit, LockedQuery, SetupConfig, ApplyConfig,
             PatchSelectGroup, UpdateConfig, ChangeProxy, SelectProxy, GetProxies,
             StartListener, StopListener, Shutdown, ShutdownUDP, UpdateListeners,
             RecreateTCP, RecreateUDP, TestDelay, TestDelayDone
    <3>3. QED BY <2>2, <2>4, <3>2
  <2>5. CASE Step(r)
    <3>1. ApplyConfig(r) \/ PatchSelectGroup(r) \/ SelectProxy(r) \/ UpdateListeners(r)
          \/ RecreateTCP(r) \/ RecreateUDP(r)
      BY <2>1, <2>5
         DEF Holding, Step, Called, InitClash, GetIsInit, LockedQuery, SetupConfig, UpdateConfig,
             ChangeProxy, GetProxies, StartListener, StopListener, Shutdown, ShutdownUDP,
             TestDelay, TestDelayDone
    <3>2. CASE ApplyConfig(r) \/ PatchSelectGroup(r)
      BY <1>1, <2>1, <3>2 DEF ApplyConfig, PatchSelectGroup, LockGoesOn
    <3>3. CASE SelectProxy(r)
      BY <2>1, <3>3 DEF SelectProxy, LockGoesOn
    <3>4. CASE UpdateListeners(r)
      BY <1>1, <2>1, <3>4 DEF UpdateListeners, LockGoesOn
    <3>5. CASE RecreateTCP(r)
      BY <1>1, <2>1, <3>5 DEF RecreateTCP, LockGoesOn
    <3>6. CASE RecreateUDP(r)
      BY <1>1, <2>1, <3>6 DEF RecreateUDP, LockGoesOn
    <3>7. QED BY <3>1, <3>2, <3>3, <3>4, <3>5, <3>6
  <2>6. QED BY <1>1, <2>3, <2>4, <2>5 DEF Next
<1>2. IInv /\ [Next]_vars => [\A r \in Requests : runLock = r => LockGoesOn(r)]_vars
  BY <1>1
<1>3. QED BY <1>2, Invariance, PTL DEF Spec

-----------------------------------------------------------------------------
(* Refinement.                                                               *)

\* A request that changes nothing the contract speaks of.
Silent == {"initClash", "getIsInit", "query", "shutdown", "asyncTestDelay"}

\* What AnswerOf gives for a request.
AnswerAt(r) ==
    IF op[r] = Nil \/ op[r].method \in Silent THEN Nil
    ELSE IF ~TookEffect(r) THEN answer[r]
    ELSE IF op[r].method = "setupConfig" THEN SetupAnswer(op[r]) ELSE Ok

LEMMA AnswersAre == AnswerOf = [r \in Requests |-> AnswerAt(r)]
BY DEF AnswerOf, AnswerAt, Silent

\* Only r moves.
Moves(r) ==
    /\ op' = op
    /\ \A s \in Requests \ {r} : pc'[s] = pc[s] /\ answer'[s] = answer[s]

\* The answers of the others stay, so the step of r is known from its own.
LEMMA OthersKeep ==
    ASSUME NEW r \in Requests, IInv, IInv', ~Panicked, Moves(r)
    PROVE  /\ AnswerOf' = [AnswerOf EXCEPT ![r] = AnswerAt(r)']
           /\ AnswerOf[r] = AnswerAt(r)
<1>1. ASSUME NEW s \in Requests \ {r} PROVE AnswerAt(s)' = AnswerAt(s)
  <2>1. pc'[s] = pc[s] /\ answer'[s] = answer[s] /\ op'[s] = op[s] /\ pc[s] # "panic"
    BY DEF Moves, Panicked
  <2>2. runLock = s <=> runLock' = s
    BY <2>1 DEF IInv, CallInv
  <2>3. TookEffect(s)' <=> TookEffect(s)
    BY <2>1, <2>2 DEF TookEffect
  <2>4. SetupAnswer(op[s])' = SetupAnswer(op[s])
    BY <2>1 DEF SetupAnswer
  <2>5. QED BY <2>1, <2>3, <2>4, Zenon DEF AnswerAt
<1>2. AnswerOf = [s \in Requests |-> AnswerAt(s)] /\ AnswerOf' = [s \in Requests |-> AnswerAt(s)']
  BY DEF AnswerOf, AnswerAt, Silent
<1>3. QED BY <1>1, <1>2

\* A step that shows neither in the hub nor in the answer of its request.
LEMMA Stutters ==
    ASSUME NEW r \in Requests, IInv, IInv', ~Panicked, Moves(r),
           HubOf' = HubOf, AnswerAt(r)' = AnswerAt(r)
    PROVE  UNCHANGED <<HubOf, op, AnswerOf>>
<1>1. AnswerOf' = AnswerOf
  BY OthersKeep, AnswersAre
<1>2. QED BY <1>1 DEF Moves

\* A step in which r, not answered yet, is given an answer.
LEMMA Takes ==
    ASSUME NEW r \in Requests, IInv, IInv', ~Panicked, Moves(r), NEW v,
           AnswerAt(r)' = v, AnswerAt(r) = Nil, op[r] # Nil
    PROVE  /\ \A m : op[r].method = m => Contract!Takes(r, m)
           /\ Contract!Answers(r, v)
<1>1. AnswerOf' = [AnswerOf EXCEPT ![r] = v] /\ AnswerOf[r] = Nil
  BY OthersKeep
<1>2. QED BY <1>1 DEF Contract!Takes, Contract!Answers, Moves

\* The hub while a setup is selecting, and otherwise.
HubWith(sel) ==
    [running   |-> isRunning,
     raw       |-> IF currentConfig = Nil THEN Nil ELSE currentConfig.raw,
     port      |-> IF currentConfig = Nil THEN Nil ELSE currentConfig.port,
     selected  |-> sel,
     described |-> descriptions]

HubShape ==
    /\ (\A s \in Requests : pc[s] \notin {"apply", "select"}) => HubOf = HubWith(selected)
    /\ \A s \in Requests :
        pc[s] \in {"apply", "select"} => HubOf = HubWith(SetupParams(op[s]).selected)

LEMMA HubIs == IInv => HubShape
<1> SUFFICES ASSUME IInv PROVE HubShape
  OBVIOUS
<1>1. ASSUME \A s \in Requests : pc[s] \notin {"apply", "select"}
      PROVE  HubOf = HubWith(selected)
  BY <1>1 DEF HubOf, HubWith, IInv, TypeOK
<1>2. ASSUME NEW s \in Requests, pc[s] \in {"apply", "select"}
      PROVE  HubOf = HubWith(SetupParams(op[s]).selected)
  <2>1. runLock = s /\ runLock # Nil
    BY <1>2, ConstantsAssumption DEF IInv, CallInv, Holding
  <2>2. QED BY <1>2, <2>1 DEF HubOf, HubWith
<1>3. QED BY <1>1, <1>2 DEF HubShape

LEMMA HubIsNext == IInv' => HubShape'
BY HubIs, PTL

\* A step of a request that is not selecting and changes no part of the hub.
LEMMA HubKeeps ==
    ASSUME NEW r \in Requests, IInv, IInv', Moves(r),
           UNCHANGED <<isRunning, currentConfig, descriptions, selected>>,
           pc[r] \notin {"apply", "select"}, pc'[r] \notin {"apply", "select"}
    PROVE  HubOf' = HubOf
<1>1. HubShape /\ HubShape'
  BY HubIs, HubIsNext
<1>2. \A s \in Requests : pc'[s] \in {"apply", "select"} <=> pc[s] \in {"apply", "select"}
  BY DEF Moves
<1>3. CASE \A s \in Requests : pc[s] \notin {"apply", "select"}
  <2>1. HubOf = HubWith(selected) /\ HubOf' = HubWith(selected)'
    BY <1>1, <1>2, <1>3 DEF HubShape
  <2>2. QED BY <2>1 DEF HubWith
<1>4. ASSUME NEW s \in Requests, pc[s] \in {"apply", "select"} PROVE HubOf' = HubOf
  <2>1. /\ HubOf = HubWith(SetupParams(op[s]).selected)
        /\ HubOf' = HubWith(SetupParams(op[s]).selected)'
    BY <1>1, <1>2, <1>4 DEF HubShape
  <2>2. op' = op
    BY DEF Moves
  <2>3. QED BY <2>1, <2>2 DEF HubWith, SetupParams
<1>5. QED BY <1>3, <1>4

\* The answers of the requests that update the listeners were told with the
\* lock; the rest of their handlers gives just these.
LEMMA UpdateKeeps ==
    ASSUME NEW r \in Requests, IInv, IInv', ~Panicked, Moves(r),
           UNCHANGED <<isRunning, currentConfig, descriptions, selected>>,
           pc[r] \in {"listeners", "recreate", "udp"},
           \/ pc'[r] \in {"recreate", "udp"}
           \/ pc'[r] = "panic" /\ currentConfig # Nil
           \/ /\ pc'[r] = "done"
              /\ answer'[r] = IF op[r].method = "setupConfig" THEN SetupAnswer(op[r]) ELSE Ok
    PROVE  UNCHANGED <<HubOf, op, AnswerOf>>
<1>1. op[r].method \in Updates /\ op[r] # Nil /\ op'[r] = op[r]
  BY DEF IInv, CallInv, Moves
<1>2. runLock = r
  BY DEF IInv, CallInv, Holding
<1>3. runLock' = r <=> pc'[r] # "done"
  BY DEF IInv, CallInv, Holding
<1>4. TookEffect(r)
  BY <1>2 DEF TookEffect
<1>5. TookEffect(r)' <=> pc'[r] # "done"
  BY <1>3 DEF TookEffect
<1>6. SetupAnswer(op[r])' = SetupAnswer(op[r]) /\ Ok' = Ok
  BY <1>1 DEF SetupAnswer, Ok
<1>7. op[r].method \notin Silent
  BY <1>1 DEF Updates, Silent
<1>8. AnswerAt(r) = IF op[r].method = "setupConfig" THEN SetupAnswer(op[r]) ELSE Ok
  BY <1>1, <1>4, <1>7 DEF AnswerAt
<1>9. AnswerAt(r)' = IF op[r].method = "setupConfig" THEN SetupAnswer(op[r]) ELSE Ok
  <2>1. CASE pc'[r] = "done"
    BY <2>1, <1>1, <1>5, <1>7 DEF AnswerAt
  <2>2. CASE pc'[r] # "done"
    BY <2>2, <1>1, <1>5, <1>6, <1>7 DEF AnswerAt
  <2>3. QED BY <2>1, <2>2
<1>10. HubOf' = HubOf
  BY HubKeeps
<1>11. QED BY <1>8, <1>9, <1>10, Stutters

\* The steps of requests the contract is silent about.
LEMMA SilentKeeps ==
    ASSUME NEW r \in Requests, IInv, IInv', ~Panicked, Moves(r),
           UNCHANGED <<isRunning, currentConfig, descriptions, selected>>,
           op[r].method \in Silent,
           pc[r] \notin {"apply", "select"}, pc'[r] \notin {"apply", "select"}
    PROVE  UNCHANGED <<HubOf, op, AnswerOf>>
<1>1. HubOf' = HubOf
  BY HubKeeps
<1>2. AnswerAt(r)' = AnswerAt(r)
  BY DEF AnswerAt, Moves
<1>3. QED BY <1>1, <1>2, Stutters

\* Before it takes effect a request has no answer.
LEMMA NotAnswered ==
    ASSUME NEW r \in Requests, IInv, pc[r] \in {"called", "change"}
    PROVE  AnswerAt(r) = Nil /\ op[r] # Nil /\ op[r] \in Ops
<1>1. answer[r] = Nil /\ op[r] # Nil /\ op[r] \in Ops
  BY DEF IInv, CallInv, TypeOK
<1>2. ~TookEffect(r)
  BY DEF TookEffect, IInv, CallInv, Holding
<1>3. QED BY <1>1, <1>2 DEF AnswerAt

\* A request that does not wait for runLock any more has answered, and its
\* answer is what the contract sees.
LEMMA Answered ==
    ASSUME NEW r \in Requests, IInv', pc'[r] = "done", op'[r] = op[r],
           op[r] # Nil, op[r].method \notin Silent
    PROVE  AnswerAt(r)' = answer'[r]
<1>1. runLock' # r
  BY DEF IInv, CallInv, Holding
<1>2. ~TookEffect(r)'
  BY <1>1 DEF TookEffect
<1>3. QED BY <1>2 DEF AnswerAt

\* A setup takes effect with the lock: whatever it still has to do, the client
\* can read nothing of it before the lock is free.
LEMMA SetupRefines ==
    ASSUME NEW r \in Requests, IInv, IInv', ~Panicked, SetupConfig(r)
    PROVE  Contract!SetupConfig(r)
<1> DEFINE given == SetupParams(op[r]).raw
<1>1. /\ pc[r] = "called" /\ pc' = [pc EXCEPT ![r] = "apply"] /\ pc \in [Requests -> Labels]
      /\ runLock = Nil /\ runLock' = r
      /\ op[r].method = "setupConfig" /\ op' = op /\ answer' = answer
      /\ currentConfig' = Config(Parsed(given)) /\ currentConfig' # Nil
      /\ isRunning' = isRunning
  BY SetupFacts DEF IInv, TypeOK
<1>2. descriptions' = IF given \in NullProxies THEN descriptions ELSE given
  BY DEF SetupConfig
<1>3. Moves(r)
  BY <1>1 DEF Moves
<1>4. AnswerAt(r) = Nil /\ op[r] # Nil
  BY <1>1, NotAnswered
<1>5. AnswerAt(r)' = SetupAnswer(op[r])
  <2>1. TookEffect(r)'
    BY <1>1 DEF TookEffect
  <2>2. QED BY <1>1, <1>4, <2>1, Zenon DEF AnswerAt, Silent, SetupAnswer
<1>6. /\ Contract!Takes(r, "setupConfig")
      /\ Contract!Answers(r, SetupAnswer(op[r]))
  BY <1>1, <1>3, <1>4, <1>5, Takes
<1>7. HubOf = HubWith(selected)
  <2>1. \A s \in Requests : pc[s] \notin {"apply", "select"}
    BY <1>1, ConstantsAssumption DEF IInv, CallInv, Holding
  <2>2. QED BY <2>1, HubIs DEF HubShape
<1>8. HubOf' = HubWith(SetupParams(op[r]).selected)'
  BY <1>1, HubIsNext DEF HubShape
<1>9. HubOf' = [running |-> isRunning, raw |-> Parsed(given), port |-> PortOf[Parsed(given)],
                selected |-> SetupParams(op[r]).selected,
                described |-> IF given \in NullProxies THEN descriptions ELSE given]
  BY <1>1, <1>2, <1>8 DEF HubWith, Config, SetupParams
<1>10. HubOf.running = isRunning /\ HubOf.described = descriptions
  BY <1>7 DEF HubWith
<1>11. given = IF op[r].raw = Nil THEN Default ELSE op[r].raw
  BY DEF SetupParams
<1>12. SetupParams(op[r]).selected = IF op[r].raw = Nil THEN Nil ELSE op[r].selected
  BY DEF SetupParams
<1>13. SetupAnswer(op[r]) = IF op[r].raw \in Raws THEN Contract!Ok ELSE Contract!Failed
  BY DEF SetupAnswer, Ok, Failed, Contract!Ok, Contract!Failed
<1> HIDE DEF given
<1>14. QED BY <1>6, <1>9, <1>10, <1>11, <1>12, <1>13 DEF Contract!SetupConfig, Parsed

\* An update of a configuration takes effect with the lock, one that is no JSON
\* when it is answered.
LEMMA UpdateRefines ==
    ASSUME NEW r \in Requests, IInv, IInv', ~Panicked, UpdateConfig(r)
    PROVE  Contract!UpdateConfig(r) \/ UNCHANGED <<HubOf, op, AnswerOf>>
<1>1. /\ pc[r] = "called" /\ op[r].method = "updateConfig" /\ pc \in [Requests -> Labels]
      /\ answer = [s \in Requests |-> answer[s]]
      /\ UNCHANGED <<op, isRunning, descriptions, selected>>
  BY UpdateFacts DEF IInv, TypeOK, CallInv
<1>2. AnswerAt(r) = Nil /\ op[r] # Nil
  BY <1>1, NotAnswered
<1>3. Moves(r) /\ pc'[r] \in {"done", "panic", "listeners"}
  BY <1>1, UpdateFacts DEF Moves, IInv, TypeOK
<1>4. CASE op[r].port = Nil
  <2>1. pc'[r] = "done" /\ answer'[r] = Failed /\ UNCHANGED currentConfig
    BY <1>1, <1>4, UpdateFacts DEF IInv, TypeOK
  <2>2. AnswerAt(r)' = Contract!Failed
    BY <1>1, <1>2, <2>1, Answered DEF Silent, Failed, Contract!Failed
  <2>3. HubOf' = HubOf
    BY <1>1, <1>3, <2>1, HubKeeps
  <2>4. Contract!Takes(r, "updateConfig") /\ Contract!Answers(r, Contract!Failed)
    BY <1>1, <1>2, <1>3, <2>2, Takes
  <2>5. QED BY <1>4, <2>3, <2>4 DEF Contract!UpdateConfig
<1>5. CASE op[r].port # Nil /\ currentConfig = Nil
  <2>1. /\ pc'[r] = "panic" /\ answer'[r] = answer[r] /\ UNCHANGED currentConfig
        /\ answer[r] = Nil
    BY <1>1, <1>5, UpdateFacts DEF IInv, TypeOK, CallInv
  <2>2. ~TookEffect(r)'
    BY <1>5, <2>1 DEF TookEffect
  <2>3. AnswerAt(r)' = AnswerAt(r)
    BY <1>2, <2>1, <2>2 DEF AnswerAt
  <2>4. HubOf' = HubOf
    BY <1>1, <1>3, <2>1, HubKeeps
  <2>5. QED BY <1>3, <2>3, <2>4, Stutters
<1>6. CASE op[r].port # Nil /\ currentConfig # Nil
  <2>1. /\ pc'[r] = "listeners" /\ runLock = Nil /\ runLock' = r
        /\ currentConfig' # Nil /\ currentConfig'.raw = currentConfig.raw
        /\ currentConfig'.port = op[r].port
    BY <1>1, <1>6, UpdateFacts DEF IInv, TypeOK
  <2>2. TookEffect(r)'
    BY <2>1 DEF TookEffect
  <2>3. AnswerAt(r)' = Contract!Ok
    BY <1>1, <1>2, <2>2 DEF AnswerAt, Silent, Ok, Contract!Ok
  <2>4. Contract!Takes(r, "updateConfig") /\ Contract!Answers(r, Contract!Ok)
    BY <1>1, <1>2, <1>3, <2>3, Takes
  <2>5. \A s \in Requests : pc[s] \notin {"apply", "select"} /\ pc'[s] \notin {"apply", "select"}
    BY <1>3, <2>1, ConstantsAssumption DEF IInv, CallInv, Holding, Moves
  <2>6. HubOf = HubWith(selected) /\ HubOf' = HubWith(selected)'
    BY <2>5, HubIs, HubIsNext DEF HubShape
  <2>7. HubOf' = [HubOf EXCEPT !.port = op[r].port]
    BY <1>1, <1>6, <2>1, <2>6 DEF HubWith
  <2>8. HubOf.raw # Nil
    <3>1. currentConfig.raw \in Raws
      BY <1>6 DEF IInv, TypeOK
    <3>2. HubOf.raw = currentConfig.raw
      BY <1>6, <2>6 DEF HubWith
    <3>3. QED BY <3>1, <3>2, ConstantsAssumption
  <2>9. QED BY <1>6, <2>4, <2>7, <2>8 DEF Contract!UpdateConfig
<1>7. QED BY <1>4, <1>5, <1>6

\* A selection is made, or refused, in the proxies of the configuration.
LEMMA SelectRefines ==
    ASSUME NEW r \in Requests, IInv, IInv', ~Panicked, SelectProxy(r)
    PROVE  Contract!ChangeProxy(r)
<1>1. /\ pc[r] = "change" /\ op[r].method = "changeProxy" /\ pc \in [Requests -> Labels]
      /\ answer = [s \in Requests |-> answer[s]]
  BY DEF SelectProxy, IInv, CallInv, TypeOK
<1>2. /\ pc' = [pc EXCEPT ![r] = "done"]
      /\ UNCHANGED <<op, isRunning, currentConfig, descriptions>>
      /\ \A s \in Requests \ {r} : answer'[s] = answer[s]
  BY <1>1 DEF SelectProxy, Finish, Answer, Goto
<1>3. Moves(r)
  BY <1>1, <1>2 DEF Moves
<1>4. AnswerAt(r) = Nil /\ op[r] # Nil
  BY <1>1, NotAnswered
<1>5. AnswerAt(r)' = answer'[r]
  BY <1>1, <1>2, <1>4, Answered DEF Silent
<1>6. Contract!Takes(r, "changeProxy") /\ Contract!Answers(r, answer'[r])
  BY <1>1, <1>3, <1>4, <1>5, Takes
<1>7. \A s \in Requests : pc[s] \notin {"apply", "select"} /\ pc'[s] \notin {"apply", "select"}
  BY <1>1, <1>2 DEF IInv, CallInv, Holding
<1>8. HubOf = HubWith(selected) /\ HubOf' = HubWith(selected)'
  BY <1>7, HubIs, HubIsNext DEF HubShape
<1>9. proxies = HubOf.raw
  BY <1>7, <1>8 DEF IInv, ConfigInv, HubWith
<1>10. CASE proxies # Nil /\ GroupOf[proxies] # {} /\ op[r].proxy \in GroupOf[proxies] \cup {Nil}
  <2>1. selected' = op[r].proxy /\ answer'[r] = Contract!Ok
    BY <1>1, <1>10 DEF SelectProxy, Finish, Answer, Ok, Contract!Ok
  <2>2. HubOf' = [HubOf EXCEPT !.selected = op[r].proxy]
    BY <1>2, <1>8, <2>1 DEF HubWith
  <2>3. QED BY <1>6, <1>9, <1>10, <2>1, <2>2 DEF Contract!ChangeProxy
<1>11. CASE ~(proxies # Nil /\ GroupOf[proxies] # {}
              /\ op[r].proxy \in GroupOf[proxies] \cup {Nil})
  <2>1. selected' = selected /\ answer'[r] = Contract!Failed
    BY <1>1, <1>11 DEF SelectProxy, Finish, Answer, Failed, Contract!Failed
  <2>2. HubOf' = HubOf
    BY <1>2, <1>8, <2>1 DEF HubWith
  <2>3. QED BY <1>6, <1>9, <1>11, <2>1, <2>2 DEF Contract!ChangeProxy
<1>12. QED BY <1>10, <1>11

\* The proxies are read with the lock, so they are those of the configuration.
LEMMA ProxiesRefine ==
    ASSUME NEW r \in Requests, IInv, IInv', ~Panicked, GetProxies(r)
    PROVE  Contract!GetProxies(r)
<1>1. /\ pc[r] = "called" /\ op[r].method = "getProxies" /\ pc \in [Requests -> Labels]
      /\ answer = [s \in Requests |-> answer[s]] /\ runLock = Nil
      /\ pc' = [pc EXCEPT ![r] = "done"]
      /\ answer' = [answer EXCEPT ![r] = [raw |-> proxies, now |-> Now, described |-> descriptions]]
      /\ UNCHANGED <<op, isRunning, currentConfig, descriptions, selected>>
  BY DEF GetProxies, Called, Answer, Goto, IInv, CallInv, TypeOK, configVars
<1>2. Moves(r)
  BY <1>1 DEF Moves
<1>3. AnswerAt(r) = Nil /\ op[r] # Nil
  BY <1>1, NotAnswered
<1>4. AnswerAt(r)' = [raw |-> proxies, now |-> Now, described |-> descriptions]
  BY <1>1, <1>3, Answered DEF Silent
<1>5. /\ Contract!Takes(r, "getProxies")
      /\ Contract!Answers(r, [raw |-> proxies, now |-> Now, described |-> descriptions])
  BY <1>1, <1>2, <1>3, <1>4, Takes
<1>6. \A s \in Requests : pc[s] \notin {"apply", "select"}
  BY <1>1, ConstantsAssumption DEF IInv, CallInv, Holding
<1>7. HubOf = HubWith(selected)
  BY <1>6, HubIs DEF HubShape
<1>8. proxies = HubOf.raw
  BY <1>6, <1>7 DEF IInv, ConfigInv, HubWith
<1>9. /\ HubOf.described = descriptions
      /\ Contract!Now(HubOf.raw, HubOf.selected) = Now
  BY <1>7, <1>8 DEF HubWith, Contract!Now, Now
<1>10. HubOf' = HubOf
  BY <1>1, <1>2, HubKeeps
<1>11. QED BY <1>5, <1>8, <1>9, <1>10 DEF Contract!GetProxies

\* A start takes effect with the lock, a stop is one critical section.
LEMMA ListenersRefine ==
    ASSUME NEW r \in Requests, IInv, IInv', ~Panicked, StartListener(r) \/ StopListener(r)
    PROVE  Contract!StartListener(r) \/ Contract!StopListener(r)
<1>1. /\ pc[r] = "called" /\ pc \in [Requests -> Labels] /\ runLock = Nil
      /\ answer = [s \in Requests |-> answer[s]]
      /\ UNCHANGED <<op, currentConfig, descriptions, selected>>
  BY DEF StartListener, StopListener, Called, IInv, CallInv, TypeOK, configVars
<1>2. AnswerAt(r) = Nil /\ op[r] # Nil
  BY <1>1, NotAnswered
<1>3. /\ \A s \in Requests \ {r} : pc'[s] = pc[s] /\ answer'[s] = answer[s]
      /\ pc'[r] \notin {"apply", "select"}
  BY <1>1 DEF StartListener, StopListener, Answer, Goto
<1>4. Moves(r)
  BY <1>1, <1>3 DEF Moves
<1>5. \A s \in Requests : pc[s] \notin {"apply", "select"} /\ pc'[s] \notin {"apply", "select"}
  BY <1>1, <1>3, ConstantsAssumption DEF IInv, CallInv, Holding
<1>6. HubOf = HubWith(selected) /\ HubOf' = HubWith(selected)'
  BY <1>5, HubIs, HubIsNext DEF HubShape
<1>7. HubOf' = [HubOf EXCEPT !.running = isRunning']
  BY <1>1, <1>6 DEF HubWith
<1>8. CASE StartListener(r)
  <2>1. op[r].method = "startListener" /\ isRunning' /\ pc'[r] = "listeners" /\ runLock' = r
    BY <1>1, <1>8 DEF StartListener, Called, Goto
  <2>2. AnswerAt(r)' = Contract!Ok
    <3>1. TookEffect(r)'
      BY <2>1 DEF TookEffect
    <3>2. QED BY <1>1, <1>2, <2>1, <3>1 DEF AnswerAt, Silent, Ok, Contract!Ok
  <2>3. Contract!Takes(r, "startListener") /\ Contract!Answers(r, Contract!Ok)
    BY <1>2, <1>4, <2>1, <2>2, Takes
  <2>4. isRunning' = TRUE
    BY <1>8 DEF StartListener
  <2>5. QED BY <1>7, <2>3, <2>4 DEF Contract!StartListener
<1>9. CASE StopListener(r)
  <2>1. /\ op[r].method = "stopListener" /\ isRunning' = FALSE /\ pc'[r] = "done"
        /\ answer'[r] = Ok
    BY <1>1, <1>9 DEF StopListener, Called, Answer, Goto
  <2>2. AnswerAt(r)' = Contract!Ok
    BY <1>1, <1>2, <2>1, Answered DEF Silent, Ok, Contract!Ok
  <2>3. Contract!Takes(r, "stopListener") /\ Contract!Answers(r, Contract!Ok)
    BY <1>2, <1>4, <2>1, <2>2, Takes
  <2>4. QED BY <1>7, <2>1, <2>3 DEF Contract!StopListener
<1>10. QED BY <1>8, <1>9

\* A request is sent.
LEMMA SendRefines ==
    ASSUME NEW r \in Requests, NEW o \in Ops, IInv, IInv', ~Panicked, HandleAction(r, o)
    PROVE  Contract!Send(r, o)
<1>1. /\ pc[r] = "idle" /\ op[r] = Nil /\ answer[r] = Nil /\ pc \in [Requests -> Labels]
      /\ pc' = [pc EXCEPT ![r] = "called"] /\ op' = [op EXCEPT ![r] = o]
      /\ op \in [Requests -> Ops \cup {Nil}]
      /\ UNCHANGED <<answer, runLock, isRunning, currentConfig, descriptions, selected>>
  BY DEF HandleAction, IInv, CallInv, TypeOK, configVars
<1>2. ASSUME NEW s \in Requests PROVE AnswerAt(s)' = AnswerAt(s)
  <2>1. CASE s = r
    <3>1. AnswerAt(r) = Nil
      BY <1>1 DEF AnswerAt
    <3>2. runLock' # r
      BY <1>1 DEF IInv, CallInv, Holding
    <3>3. ~TookEffect(r)'
      BY <3>2 DEF TookEffect
    <3>4. AnswerAt(r)' = Nil
      BY <1>1, <3>3 DEF AnswerAt
    <3>5. QED BY <2>1, <3>1, <3>4
  <2>2. CASE s # r
    <3>1. /\ pc'[s] = pc[s] /\ op'[s] = op[s] /\ answer'[s] = answer[s]
          /\ runLock' = runLock /\ currentConfig' = currentConfig
      BY <1>1, <2>2
    <3>2. TookEffect(s)' <=> TookEffect(s)
      BY <3>1 DEF TookEffect
    <3>3. SetupAnswer(op[s])' = SetupAnswer(op[s])
      BY <3>1 DEF SetupAnswer
    <3>4. QED BY <3>1, <3>2, <3>3, Zenon DEF AnswerAt
  <2>3. QED BY <2>1, <2>2
<1>3. AnswerOf' = AnswerOf
  BY <1>2 DEF AnswerOf, AnswerAt, Silent
<1>4. \A s \in Requests :
        /\ pc'[s] \in {"apply", "select"} <=> pc[s] \in {"apply", "select"}
        /\ pc[s] \in {"apply", "select"} => op'[s] = op[s]
  BY <1>1
<1>5. HubOf' = HubOf
  <2>1. CASE \A s \in Requests : pc[s] \notin {"apply", "select"}
    <3>1. HubOf = HubWith(selected) /\ HubOf' = HubWith(selected)'
      BY <1>4, <2>1, HubIs, HubIsNext DEF HubShape
    <3>2. QED BY <1>1, <3>1 DEF HubWith
  <2>2. ASSUME NEW s \in Requests, pc[s] \in {"apply", "select"} PROVE HubOf' = HubOf
    <3>1. /\ HubOf = HubWith(SetupParams(op[s]).selected)
          /\ HubOf' = HubWith(SetupParams(op[s]).selected)'
      BY <1>4, <2>2, HubIs, HubIsNext DEF HubShape
    <3>2. QED BY <1>1, <1>4, <2>2, <3>1 DEF HubWith, SetupParams
  <2>3. QED BY <2>1, <2>2
<1>6. QED BY <1>1, <1>3, <1>5 DEF Contract!Send

\* A setup goes on: what the client will read was decided when it locked.
LEMMA SetupGoesOn ==
    ASSUME NEW r \in Requests, IInv, IInv', ~Panicked, ApplyConfig(r) \/ PatchSelectGroup(r)
    PROVE  UNCHANGED <<HubOf, op, AnswerOf>>
<1>1. /\ pc[r] \in {"apply", "select"} /\ pc \in [Requests -> Labels]
      /\ pc' = [pc EXCEPT ![r] = IF pc[r] = "apply" THEN "select" ELSE "listeners"]
      /\ pc[r] = "select" => selected' = SetupParams(op[r]).selected
      /\ UNCHANGED <<op, answer, runLock, isRunning, currentConfig, descriptions>>
  BY DEF ApplyConfig, PatchSelectGroup, Goto, IInv, TypeOK
<1>2. Moves(r)
  BY <1>1 DEF Moves
<1>3. runLock = r /\ \A s \in Requests \ {r} : pc[s] \notin Holding
  BY <1>1 DEF IInv, CallInv, Holding
<1>4. HubOf = HubWith(SetupParams(op[r]).selected)
  BY <1>1, HubIs DEF HubShape
<1>5. HubOf' = HubOf
  <2>1. CASE pc[r] = "apply"
    <3>1. HubOf' = HubWith(SetupParams(op[r]).selected)'
      BY <1>1, <2>1, HubIsNext DEF HubShape
    <3>2. QED BY <1>1, <1>4, <3>1 DEF HubWith, SetupParams
  <2>2. CASE pc[r] = "select"
    <3>1. HubOf' = HubWith(selected)'
      BY <1>1, <1>3, <2>2, HubIsNext DEF HubShape, Holding
    <3>2. QED BY <1>1, <1>4, <2>2, <3>1 DEF HubWith
  <2>3. QED BY <1>1, <2>1, <2>2
<1>6. TookEffect(r) /\ TookEffect(r)'
  BY <1>1, <1>3 DEF TookEffect
<1>7. AnswerAt(r)' = AnswerAt(r)
  BY <1>1, <1>6, Zenon DEF AnswerAt, SetupAnswer
<1>8. QED BY <1>2, <1>5, <1>7, Stutters

\* Every step of a handler is one of the contract, or does not show.
LEMMA StepRefines ==
    ASSUME NEW r \in Requests, IInv, IInv', ~Panicked, Step(r)
    PROVE  [Contract!Next]_(Contract!vars)
<1> USE DEF Contract!Next, Contract!vars
<1>1. IInv => /\ pc \in [Requests -> Labels]
              /\ answer = [s \in Requests |-> answer[s]]
  BY DEF IInv, TypeOK, CallInv
<1>2. CASE SetupConfig(r)
  BY <1>2, SetupRefines
<1>3. CASE ApplyConfig(r) \/ PatchSelectGroup(r)
  BY <1>3, SetupGoesOn
<1>4. CASE UpdateConfig(r)
  BY <1>4, UpdateRefines
<1>5. CASE SelectProxy(r)
  BY <1>5, SelectRefines
<1>6. CASE GetProxies(r)
  BY <1>6, ProxiesRefine
<1>7. CASE StartListener(r) \/ StopListener(r)
  BY <1>7, ListenersRefine
<1>8. CASE ChangeProxy(r)
  <2>1. /\ Moves(r) /\ pc[r] = "called" /\ pc'[r] = "change" /\ answer'[r] = answer[r]
        /\ UNCHANGED <<isRunning, currentConfig, descriptions, selected>>
    BY <1>1, <1>8 DEF ChangeProxy, Called, Goto, Moves, configVars
  <2>2. HubOf' = HubOf
    BY <2>1, HubKeeps
  <2>3. ~TookEffect(r)' /\ AnswerAt(r) = Nil /\ answer[r] = Nil
    BY <2>1, NotAnswered DEF TookEffect, IInv, CallInv
  <2>4. AnswerAt(r)' = AnswerAt(r)
    BY <2>1, <2>3 DEF AnswerAt
  <2>5. QED BY <2>1, <2>2, <2>4, Stutters
<1>9. CASE \/ InitClash(r) \/ GetIsInit(r) \/ LockedQuery(r) \/ Shutdown(r)
           \/ TestDelay(r) \/ ShutdownUDP(r) \/ TestDelayDone(r)
  <2>1. /\ Moves(r) /\ op[r].method \in Silent
        /\ pc[r] \notin {"apply", "select"} /\ pc'[r] \notin {"apply", "select"}
        /\ UNCHANGED <<isRunning, currentConfig, descriptions, selected>>
    <3>1. CASE ShutdownUDP(r) \/ TestDelayDone(r)
      BY <1>1, <3>1 DEF ShutdownUDP, TestDelayDone, Answer, Goto, Moves, Silent, configVars,
          IInv, CallInv
    <3>2. CASE InitClash(r) \/ GetIsInit(r) \/ LockedQuery(r) \/ Shutdown(r) \/ TestDelay(r)
      BY <1>1, <3>2 DEF InitClash, GetIsInit, LockedQuery, Shutdown, TestDelay, Called, Answer,
          Goto, Moves, Silent, configVars
    <3>3. QED BY <1>9, <3>1, <3>2
  <2>2. QED BY <2>1, SilentKeeps
<1>10. CASE UpdateListeners(r) \/ RecreateTCP(r) \/ RecreateUDP(r)
  <2>1. /\ Moves(r) /\ pc[r] \in {"listeners", "recreate", "udp"}
        /\ UNCHANGED <<isRunning, currentConfig, descriptions, selected>>
        /\ \/ pc'[r] \in {"recreate", "udp"}
           \/ pc'[r] = "panic" /\ pc[r] = "udp"
           \/ /\ pc'[r] = "done"
              /\ answer'[r] = IF op[r].method = "setupConfig" THEN SetupAnswer(op[r]) ELSE Ok
    BY <1>1, <1>10 DEF UpdateListeners, RecreateTCP, RecreateUDP, FinishUpdate, Finish, Answer,
        Goto, Moves, configVars
  <2>2. pc[r] = "udp" => currentConfig # Nil
    BY DEF IInv, ConfigInv
  <2>3. QED BY <2>1, <2>2, UpdateKeeps
<1>11. QED BY <1>2, <1>3, <1>4, <1>5, <1>6, <1>7, <1>8, <1>9, <1>10 DEF Step

\* Requests that overlap are answered as if each had run alone at one moment:
\* CoreHub implements HubContract, for any requests, operations and
\* configurations (hub.go, common.go: the handlers under runLock).
THEOREM Refinement == Spec => KeepsContract
<1>1. Init => Contract!Init
  <2> SUFFICES ASSUME Init PROVE Contract!Init
    OBVIOUS
  <2>1. HubOf = [running |-> FALSE, raw |-> Nil, port |-> Nil,
                 selected |-> Nil, described |-> Nil]
    BY DEF Init, HubOf
  <2>2. AnswerOf = [r \in Requests |-> Nil]
    BY DEF Init, AnswerOf
  <2>3. QED BY <2>1, <2>2 DEF Init, Contract!Init
<1>2. IInv /\ IInv' /\ [Next]_vars => [Contract!Next]_(Contract!vars)
  <2> SUFFICES ASSUME IInv, IInv', [Next]_vars PROVE [Contract!Next]_(Contract!vars)
    OBVIOUS
  <2>1. CASE UNCHANGED vars
    BY <2>1 DEF vars, Contract!vars, HubOf, AnswerOf, TookEffect, SetupAnswer, SetupParams
  <2>2. CASE Next
    <3>1. PICK r \in Requests : Step(r) \/ \E o \in Ops : HandleAction(r, o)
      BY <2>2 DEF Next
    <3>2. CASE Step(r)
      BY <2>2, <3>2, StepRefines DEF Next
    <3>3. CASE \E o \in Ops : HandleAction(r, o)
      BY <2>2, <3>3, SendRefines DEF Next, Contract!Next
    <3>4. QED BY <3>1, <3>2, <3>3
  <2>3. QED BY <2>1, <2>2
<1>3. QED BY <1>1, <1>2, Invariance, PTL DEF Spec, KeepsContract, Contract!Spec
=============================================================================
