------------------------------ MODULE CoreHub ------------------------------
(***************************************************************************)
(* The request handlers of the Go core (core/action.go, hub.go,            *)
(* common.go).                                                             *)
(*                                                                         *)
(* Every request is handled by a goroutine of its own, so the requests a   *)
(* client has sent run in any order and interleave.  The handlers that     *)
(* touch the configuration hold the mutex runLock; a shutdown does not,    *)
(* and a changeProxy locks it in one goroutine and unlocks it in another.  *)
(*                                                                         *)
(* Abstractions: the configuration is its name and its mixed port, which   *)
(* stands for all the ports; the proxies are those of one selectable       *)
(* group; the other fields of an update change nothing here.               *)
(***************************************************************************)
EXTENDS Naturals, FiniteSets

CONSTANTS
    Requests,     \* the requests of the client
    Raws,         \* raw configurations that parse
    Default,      \* config.DefaultRawConfig()
    NullProxies,  \* raw configurations whose list of proxies is null
    PortOf,       \* raw configuration -> its mixed port, 0 for none
    GroupOf,      \* raw configuration -> the proxies of its group; {}: no group
    Ops,          \* the operations the client may ask for
    BatchSize,    \* how many delay tests run at once (50 in the code)
    Nil

Ports ==
    {PortOf[c] : c \in Raws}
        \cup ({o.port : o \in {x \in Ops : x.method = "updateConfig"}} \ {Nil})

ASSUME ConstantsAssumption ==
    /\ Default \in Raws /\ PortOf[Default] = 0 /\ GroupOf[Default] = {}
    /\ Nil \notin Raws \cup Ops \cup Requests /\ \A c \in Raws : Nil \notin GroupOf[c]
    /\ Ports \subseteq Nat /\ Nil \notin Nat \cup [raw : Raws, port : Ports]
    /\ BatchSize \in Nat \ {0}

VARIABLES
    pc,             \* where the goroutine of each request is
    op,             \* what the request asks for
    answer,         \* what it was answered
    runLock,        \* the request that holds runLock
    isInit,         \* the globals isInit, isRunning
    isRunning,
    currentConfig,  \* the configuration, Nil before the first setup
    descriptions,   \* the configuration proxyDescriptions was taken from
    proxies,        \* the configuration whose proxies the tunnel uses
    selected,       \* what the group of these proxies was told to use
    tcp,            \* mixedListener: its port, or Nil
    udp,            \* mixedUDPLister: its port, or Nil
    bound           \* the sockets that are open

vars == <<pc, op, answer, runLock, isInit, isRunning, currentConfig,
          descriptions, proxies, selected, tcp, udp, bound>>

configVars   == <<currentConfig, descriptions, proxies, selected>>
listenerVars == <<tcp, udp, bound>>

Config(c) == [raw |-> c, port |-> PortOf[c]]

Init ==
    /\ pc = [r \in Requests |-> "idle"]
    /\ op = [r \in Requests |-> Nil]
    /\ answer = [r \in Requests |-> Nil]
    /\ runLock = Nil
    /\ isInit = FALSE
    /\ isRunning = FALSE
    /\ currentConfig = Nil
    /\ descriptions = Nil
    /\ proxies = Nil
    /\ selected = Nil
    /\ tcp = Nil
    /\ udp = Nil
    /\ bound = {}

-----------------------------------------------------------------------------
(* Requests and answers.                                                     *)

\* Answers that carry no data.
Ok     == [ok |-> TRUE]
Failed == [ok |-> FALSE]

\* The server reads a request and spawns its goroutine.
HandleAction(r, o) ==
    /\ pc[r] = "idle"
    /\ pc' = [pc EXCEPT ![r] = "called"]
    /\ op' = [op EXCEPT ![r] = o]
    /\ UNCHANGED <<answer, runLock, isInit, isRunning, configVars, listenerVars>>

Called(r, method) == pc[r] = "called" /\ op[r].method = method

Goto(r, label) == pc' = [pc EXCEPT ![r] = label]

\* The goroutine sends its answer and ends.
Answer(r, value) ==
    /\ answer' = [answer EXCEPT ![r] = value]
    /\ Goto(r, "done")

\* Requests that take no lock and touch no configuration: initClash sets
\* isInit unless its parameters are no JSON, getIsInit reads it.
InitClash(r) ==
    /\ Called(r, "initClash")
    /\ \/ isInit' = TRUE /\ Answer(r, Ok)
       \/ UNCHANGED isInit /\ Answer(r, Failed)
    /\ UNCHANGED <<op, runLock, isRunning, configVars, listenerVars>>

GetIsInit(r) ==
    /\ Called(r, "getIsInit")
    /\ Answer(r, IF isInit THEN Ok ELSE Failed)
    /\ UNCHANGED <<op, runLock, isInit, isRunning, configVars, listenerVars>>

\* The end of a handler that holds runLock.
Finish(r, value) ==
    /\ runLock = r
    /\ runLock' = Nil
    /\ Answer(r, value)

\* Requests whose handler only reads or closes connections under runLock.
LockedQuery(r) ==
    /\ Called(r, "query")
    /\ runLock = Nil
    /\ Answer(r, Ok)
    /\ UNCHANGED <<op, runLock, isInit, isRunning, configVars, listenerVars>>

-----------------------------------------------------------------------------
(* Configuration.                                                            *)

\* The parameters a setup works with: the defaults if its body is no JSON.
SetupParams(o) ==
    IF o.raw = Nil THEN [raw |-> Default, selected |-> Nil] ELSE o

Parsed(raw) == IF raw \in Raws THEN raw ELSE Default

SetupAnswer(o) == IF o.raw \in Raws THEN Ok ELSE Failed

\* setupConfig parses under the lock; a configuration that does not parse is
\* replaced by the default.  A null list of proxies keeps the descriptions.
SetupConfig(r) ==
    /\ Called(r, "setupConfig")
    /\ runLock = Nil
    /\ runLock' = r
    /\ LET raw == SetupParams(op[r]).raw
       IN  /\ currentConfig' = Config(Parsed(raw))
           /\ descriptions' = IF raw \in NullProxies THEN descriptions ELSE raw
    /\ Goto(r, "apply")
    /\ UNCHANGED <<op, answer, isInit, isRunning, proxies, selected, listenerVars>>

\* hub.ApplyConfig hands the new proxies to the tunnel.
ApplyConfig(r) ==
    /\ pc[r] = "apply"
    /\ proxies' = currentConfig.raw
    /\ selected' = Nil
    /\ Goto(r, "select")
    /\ UNCHANGED <<op, answer, runLock, isInit, isRunning, currentConfig,
                   descriptions, listenerVars>>

\* patchSelectGroup forces the selection the client remembers.
PatchSelectGroup(r) ==
    /\ pc[r] = "select"
    /\ selected' = SetupParams(op[r]).selected
    /\ Goto(r, "listeners")
    /\ UNCHANGED <<op, answer, runLock, isInit, isRunning, currentConfig,
                   descriptions, proxies, listenerVars>>

\* handleUpdateConfig: a body that is no JSON (port Nil) changes nothing; an
\* update before the first setup dereferences nil.
UpdateConfig(r) ==
    /\ Called(r, "updateConfig")
    /\ \/ /\ op[r].port = Nil
          /\ Answer(r, Failed)
          /\ UNCHANGED <<runLock, currentConfig>>
       \/ /\ op[r].port # Nil
          /\ runLock = Nil
          /\ runLock' = r
          /\ UNCHANGED answer
          /\ IF currentConfig = Nil
             THEN Goto(r, "panic") /\ UNCHANGED currentConfig
             ELSE /\ Goto(r, "listeners")
                  /\ currentConfig' = [currentConfig EXCEPT !.port = op[r].port]
    /\ UNCHANGED <<op, isInit, isRunning, descriptions, proxies, selected, listenerVars>>

\* handleChangeProxy locks, and a goroutine it spawns goes on ...
ChangeProxy(r) ==
    /\ Called(r, "changeProxy")
    /\ runLock = Nil
    /\ runLock' = r
    /\ Goto(r, "change")
    /\ UNCHANGED <<op, answer, isInit, isRunning, configVars, listenerVars>>

\* Mutant: the error path forgets to unlock.
SelectProxyKeepsLock(r) ==
    /\ pc[r] = "change"
    /\ IF proxies # Nil /\ GroupOf[proxies] # {}
          /\ op[r].proxy \in GroupOf[proxies] \cup {Nil}
       THEN selected' = op[r].proxy /\ Finish(r, Ok)
       ELSE UNCHANGED <<selected, runLock>> /\ Answer(r, Failed)
    /\ UNCHANGED <<op, isInit, isRunning, currentConfig, descriptions, proxies, listenerVars>>

\* ... finds the group, selects, answers and unlocks.  An empty name (Nil) is
\* forced, another one must be a member.
SelectProxy(r) ==
    /\ pc[r] = "change"
    /\ IF proxies # Nil /\ GroupOf[proxies] # {}
          /\ op[r].proxy \in GroupOf[proxies] \cup {Nil}
       THEN selected' = op[r].proxy /\ Finish(r, Ok)
       ELSE UNCHANGED selected /\ Finish(r, Failed)
    /\ UNCHANGED <<op, isInit, isRunning, currentConfig, descriptions, proxies, listenerVars>>

\* The proxy the group uses: the selected one if it is a member, else its
\* first one (written Nil).
Now == IF proxies # Nil /\ selected \in GroupOf[proxies] THEN selected ELSE Nil

\* Mutant: the proxies are read without the lock.
GetProxiesUnlocked(r) ==
    /\ Called(r, "getProxies")
    /\ Answer(r, [raw |-> proxies, now |-> Now, described |-> descriptions])
    /\ UNCHANGED <<op, runLock, isInit, isRunning, configVars, listenerVars>>

GetProxies(r) ==
    /\ Called(r, "getProxies")
    /\ runLock = Nil
    /\ Answer(r, [raw |-> proxies, now |-> Now, described |-> descriptions])
    /\ UNCHANGED <<op, runLock, isInit, isRunning, configVars, listenerVars>>

-----------------------------------------------------------------------------
(* Listeners.                                                                *)

StartListener(r) ==
    /\ Called(r, "startListener")
    /\ runLock = Nil
    /\ runLock' = r
    /\ isRunning' = TRUE
    /\ Goto(r, "listeners")
    /\ UNCHANGED <<op, answer, isInit, configVars, listenerVars>>

\* Mutant: the listeners are stopped without the lock.
StopListenerUnlocked(r) ==
    /\ Called(r, "stopListener")
    /\ isRunning' = FALSE
    /\ tcp' = Nil
    /\ udp' = Nil
    /\ bound' = bound \ {<<"tcp", tcp>>, <<"udp", udp>>}
    /\ Answer(r, Ok)
    /\ UNCHANGED <<op, runLock, isInit, configVars>>

StopListener(r) ==
    /\ Called(r, "stopListener")
    /\ runLock = Nil
    /\ isRunning' = FALSE
    /\ tcp' = Nil
    /\ udp' = Nil
    /\ bound' = bound \ {<<"tcp", tcp>>, <<"udp", udp>>}
    /\ Answer(r, Ok)
    /\ UNCHANGED <<op, runLock, isInit, configVars>>

\* handleShutdown closes the same listeners without the lock, one after the
\* other, and leaves isRunning and the configuration alone.
Shutdown(r) ==
    /\ Called(r, "shutdown")
    /\ tcp' = Nil
    /\ bound' = bound \ {<<"tcp", tcp>>}
    /\ Goto(r, "shutdown")
    /\ UNCHANGED <<op, answer, runLock, isInit, isRunning, configVars, udp>>

ShutdownUDP(r) ==
    /\ pc[r] = "shutdown"
    /\ udp' = Nil
    /\ bound' = bound \ {<<"udp", udp>>}
    /\ isInit' = FALSE
    /\ Answer(r, Ok)
    /\ UNCHANGED <<op, runLock, isRunning, configVars, tcp>>

FinishUpdate(r) ==
    Finish(r, IF op[r].method = "setupConfig" THEN SetupAnswer(op[r]) ELSE Ok)

\* updateListeners does nothing unless the core runs and has a configuration.
UpdateListeners(r) ==
    /\ pc[r] = "listeners"
    /\ IF isRunning /\ currentConfig # Nil
       THEN Goto(r, "recreate") /\ UNCHANGED <<answer, runLock>>
       ELSE FinishUpdate(r)
    /\ UNCHANGED <<op, isInit, isRunning, configVars, listenerVars>>

\* Mutant: port 0 is opened like any other.
RecreateTCPZero(r) ==
    LET port == currentConfig.port
        open == bound \ {s \in {<<"tcp", tcp>>, <<"udp", udp>>} : s[2] # port}
    IN  /\ pc[r] = "recreate"
        /\ udp' = IF udp = port THEN port ELSE Nil
        /\ tcp' = port
        /\ bound' = open \cup {<<"tcp", port>>}
        /\ Goto(r, "udp")
        /\ UNCHANGED <<op, answer, runLock, isInit, isRunning, configVars>>

\* ReCreateMixed closes the listeners of another port and opens both again if
\* one of them is missing, the TCP one first.  Opening may fail, and does when
\* the port is in use.
RecreateTCP(r) ==
    LET port == currentConfig.port
        keepTCP == IF tcp = port THEN port ELSE Nil
        keepUDP == IF udp = port THEN port ELSE Nil
        open == bound \ {s \in {<<"tcp", tcp>>, <<"udp", udp>>} : s[2] # port}
    IN  /\ pc[r] = "recreate"
        /\ udp' = keepUDP
        /\ \/ /\ port = 0 \/ (keepTCP = port /\ keepUDP = port)
              /\ tcp' = keepTCP
              /\ bound' = open
              /\ FinishUpdate(r)
           \/ /\ port # 0 /\ ~(keepTCP = port /\ keepUDP = port)
              /\ tcp' = Nil
              /\ bound' = open
              /\ FinishUpdate(r)
           \/ /\ port # 0 /\ ~(keepTCP = port /\ keepUDP = port)
              /\ <<"tcp", port>> \notin open
              /\ tcp' = port
              /\ bound' = open \cup {<<"tcp", port>>}
              /\ Goto(r, "udp")
              /\ UNCHANGED <<answer, runLock>>
        /\ UNCHANGED <<op, isInit, isRunning, configVars>>

\* Mutant: the TCP listener stays open when the UDP one fails.
RecreateUDPKeepsTCP(r) ==
    LET port == currentConfig.port
    IN  /\ pc[r] = "udp"
        /\ \/ /\ <<"udp", port>> \notin bound
              /\ udp' = port
              /\ bound' = bound \cup {<<"udp", port>>}
           \/ /\ udp' = Nil
              /\ UNCHANGED bound
        /\ IF tcp = Nil THEN Goto(r, "panic") /\ UNCHANGED <<answer, runLock>>
                        ELSE FinishUpdate(r)
        /\ UNCHANGED <<op, isInit, isRunning, configVars, tcp>>

\* The UDP half: if it fails the TCP one is closed, but stays in its variable.
\* Either way the TCP listener is dereferenced.
RecreateUDP(r) ==
    LET port == currentConfig.port
    IN  /\ pc[r] = "udp"
        /\ \/ /\ <<"udp", port>> \notin bound
              /\ udp' = port
              /\ bound' = bound \cup {<<"udp", port>>}
           \/ /\ udp' = Nil
              /\ bound' = bound \ {<<"tcp", tcp>>}
        /\ IF tcp = Nil THEN Goto(r, "panic") /\ UNCHANGED <<answer, runLock>>
                        ELSE FinishUpdate(r)
        /\ UNCHANGED <<op, isInit, isRunning, configVars, tcp>>

-----------------------------------------------------------------------------
(* Delay tests: a batch runs at most BatchSize of them.                      *)

Testing == {r \in Requests : pc[r] = "testing"}

\* handleAsyncTestDelay: the test waits for a slot of the batch ...
TestDelay(r) ==
    /\ Called(r, "asyncTestDelay")
    /\ Cardinality(Testing) < BatchSize
    /\ Goto(r, "testing")
    /\ UNCHANGED <<op, answer, runLock, isInit, isRunning, configVars, listenerVars>>

\* ... and answers with the delay, or -1 after its timeout.
TestDelayDone(r) ==
    /\ pc[r] = "testing"
    /\ Answer(r, Ok)
    /\ UNCHANGED <<op, runLock, isInit, isRunning, configVars, listenerVars>>

-----------------------------------------------------------------------------
\* A panic in a goroutine ends the process.
Panicked == \E r \in Requests : pc[r] = "panic"

Step(r) ==
    \/ InitClash(r) \/ GetIsInit(r) \/ LockedQuery(r)
    \/ SetupConfig(r) \/ ApplyConfig(r) \/ PatchSelectGroup(r) \/ UpdateConfig(r)
    \/ ChangeProxy(r) \/ SelectProxy(r) \/ GetProxies(r)
    \/ StartListener(r) \/ StopListener(r) \/ Shutdown(r) \/ ShutdownUDP(r)
    \/ UpdateListeners(r) \/ RecreateTCP(r) \/ RecreateUDP(r)
    \/ TestDelay(r) \/ TestDelayDone(r)

Next ==
    /\ ~Panicked
    /\ \E r \in Requests : Step(r) \/ \E o \in Ops : HandleAction(r, o)

Spec == Init /\ [][Next]_vars

\* Goroutines run, the mutex is handed over, and a delay test times out.
Fairness == \A r \in Requests : WF_vars(~Panicked /\ Step(r))

FairSpec == Spec /\ Fairness

-----------------------------------------------------------------------------
(* Types.                                                                    *)

Labels == {"idle", "called", "apply", "select", "change", "listeners", "recreate",
           "udp", "shutdown", "testing", "done", "panic"}

\* Names a setup may carry: a configuration, or a text that does not parse.
RawNames == Raws \cup {o.raw : o \in {x \in Ops : x.method = "setupConfig"}}

\* Every variable has its type, and no listener is opened on port 0, which in
\* a configuration means that there is none (listener.go, portIsZero).
TypeOK ==
    /\ pc \in [Requests -> Labels]
    /\ op \in [Requests -> Ops \cup {Nil}]
    /\ runLock \in Requests \cup {Nil}
    /\ isInit \in BOOLEAN
    /\ isRunning \in BOOLEAN
    /\ currentConfig \in [raw : Raws, port : Ports] \cup {Nil}
    /\ descriptions \in RawNames \cup {Nil}
    /\ proxies \in Raws \cup {Nil}
    /\ tcp \in (Ports \ {0}) \cup {Nil}
    /\ udp \in (Ports \ {0}) \cup {Nil}
    /\ bound \subseteq {"tcp", "udp"} \X (Ports \ {0})

-----------------------------------------------------------------------------
(* Safety.                                                                   *)

ShutdownCalled ==
    \E r \in Requests : pc[r] # "idle" /\ op[r].method = "shutdown"

\* Whenever no handler holds runLock, the open sockets are either none or the
\* two halves of the mixed port of the current configuration, and these only
\* while the core is started: no interleaving of setups, updates, starts and
\* stops, and no failure to open a port, leaves a socket of an old port or
\* half a listener behind.  A shutdown, which takes no lock, is excepted.
ListenersFollow ==
    (runLock = Nil /\ ~ShutdownCalled) =>
        \/ bound = {}
        \/ /\ isRunning /\ currentConfig # Nil
           /\ bound = {"tcp", "udp"} \X {currentConfig.port}

\* ReCreateMixed dereferences mixedListener after it has opened the UDP half:
\* only an update before the first setup or a shutdown that runs into it can
\* make a handler panic.
PanicOnlyAtTheEdges == Panicked => currentConfig = Nil \/ ShutdownCalled

-----------------------------------------------------------------------------
(* Refinement.                                                               *)

\* A setup, an update and a start take effect when they lock runLock.
TookEffect(r) ==
    /\ runLock = r
    /\ pc[r] # "change"
    /\ pc[r] = "panic" => currentConfig # Nil

HubOf ==
    [running   |-> isRunning,
     raw       |-> IF currentConfig = Nil THEN Nil ELSE currentConfig.raw,
     port      |-> IF currentConfig = Nil THEN Nil ELSE currentConfig.port,
     selected  |-> IF runLock # Nil /\ pc[runLock] \in {"apply", "select"}
                   THEN SetupParams(op[runLock]).selected ELSE selected,
     described |-> descriptions]

AnswerOf == [r \in Requests |->
    IF op[r] = Nil \/ op[r].method \in {"initClash", "getIsInit", "query",
                                        "shutdown", "asyncTestDelay"} THEN Nil
    ELSE IF ~TookEffect(r) THEN answer[r]
    ELSE IF op[r].method = "setupConfig" THEN SetupAnswer(op[r]) ELSE Ok]

Contract == INSTANCE HubContract WITH hub <- HubOf, call <- op, answer <- AnswerOf

\* Requests that overlap are answered as if each had run alone at one moment:
\* a client never reads the proxies of one configuration with the selection
\* or the descriptions of another, and no selection is lost to a setup.
KeepsContract == Contract!Spec

-----------------------------------------------------------------------------
(* Liveness.                                                                 *)

\* Every request is answered, although changeProxy hands runLock from one
\* goroutine to another and delay tests queue for a slot.
EveryRequestAnswered ==
    \A r \in Requests : pc[r] = "called" ~> (pc[r] = "done" \/ Panicked)
=============================================================================
