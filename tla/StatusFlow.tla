----------------------------- MODULE StatusFlow ------------------------------
(***************************************************************************)
(* How the application is started and stopped: updateStatus and its        *)
(* callers (lib/controller.dart), handleStart, handleStop and the task     *)
(* that arms its own timer (lib/state.dart), and the start button.         *)
(*                                                                         *)
(* Dart runs one event at a time: an action is the code between two        *)
(* awaits.  The core handles each request in a goroutine of its own; the   *)
(* platform takes startVpn and stopVpn in the order they were sent.        *)
(*                                                                         *)
(* Abstractions: a request is answered (CoreRpc is about time-outs), the   *)
(* platform does what it is asked (VpnRunState is about the rest), the     *)
(* profile is not applied anew, traffic has no figures.                    *)
(***************************************************************************)
EXTENDS Naturals, Sequences

CONSTANTS
    MaxCalls,   \* how many calls there are (a bound)
    Worlds,     \* what may happen: is this "android", do calls "overlap"
    Nil

ASSUME ConstantsAssumption ==
    /\ MaxCalls \in Nat \ {0}
    /\ Worlds \subseteq SUBSET {"android", "overlap"}

Calls == 1..MaxCalls

ASSUME NilAssumption == Nil \notin Calls

VARIABLES
    pc,         \* where each call is; a call not made yet is "unused"
    startTime,  \* is GlobalState.startTime set?
    runTime,    \* is runTimeProvider set: does the application show it runs?
    isStart,    \* the start button: what the next click reverses
    debounce,   \* is a click waiting for its debouncer?
    loop,       \* the task of each call: none, running, armed (by a timer), over
    timer,      \* whose timer GlobalState.timer is
    channel,    \* the calls whose startVpn or stopVpn is on its way
    listening,  \* does the core listen?
    vpn,        \* does the platform run the VPN?
    may         \* the world of this behaviour

displayVars == <<runTime, isStart>>
loopVars    == <<loop, timer>>

vars == <<pc, startTime, displayVars, debounce, loopVars, channel, listening, vpn, may>>

\* The first call is that of _initStatus.  On Android the core and its VPN may
\* have outlived the application.
Init ==
    /\ may \in Worlds
    /\ pc = [c \in Calls |-> IF c = 1 THEN "init" ELSE "unused"]
    /\ startTime = FALSE
    /\ runTime = FALSE /\ isStart = FALSE /\ debounce = FALSE
    /\ loop = [c \in Calls |-> "none"] /\ timer = Nil
    /\ channel = <<>>
    /\ vpn \in {FALSE, "android" \in may} /\ listening = vpn

Goto(c, label) == pc' = [pc EXCEPT ![c] = label]

\* No call is under way, and the display has caught up.
Settled ==
    /\ \A c \in Calls : pc[c] \in {"unused", "done"}
    /\ runTime = startTime

MayBegin == "overlap" \in may \/ (Settled /\ ~debounce)

Unused(c) == pc[c] = "unused" /\ \A d \in 1..(c - 1) : pc[d] # "unused"

-----------------------------------------------------------------------------
(* The task that shows the run time and the traffic, and arms its timer.     *)

\* The button follows the changes of the display (start_button.dart).
Show(on) ==
    /\ runTime' = on
    /\ isStart' = IF on = runTime THEN isStart ELSE on

\* Is there a timer, and has it not fired?
Active == timer # Nil /\ loop[timer] = "armed"

\* Before its first await executorUpdateTask shows the run time.
startUpdateTasks(c) ==
    IF Active THEN UNCHANGED <<displayVars, loopVars>>
    ELSE /\ loop' = [loop EXCEPT ![c] = "running"]
         /\ Show(startTime) /\ UNCHANGED timer

\* While the tasks run the timer is null: then nothing is stopped.
stopUpdateTasks ==
    IF Active THEN loop' = [loop EXCEPT ![timer] = "over"] /\ timer' = Nil
    ELSE UNCHANGED loopVars

\* Mutant: the run time shown is that of before the traffic was asked for.
TasksDoneShow(c) ==
    /\ loop[c] = "running"
    /\ loop' = [loop EXCEPT ![c] = "armed"] /\ timer' = c
    /\ Show(TRUE)
    /\ UNCHANGED <<pc, startTime, debounce, channel, listening, vpn>>

\* The core has told the traffic.
TasksDone(c) ==
    /\ loop[c] = "running"
    /\ loop' = [loop EXCEPT ![c] = "armed"] /\ timer' = c
    /\ UNCHANGED <<pc, startTime, displayVars, debounce, channel, listening, vpn>>

\* Mutant: a timer that has fired counts as active.
TimerFiresInVain(c) ==
    /\ loop[c] = "armed"
    /\ IF timer # Nil
       THEN loop' = [loop EXCEPT ![c] = "over"] /\ UNCHANGED displayVars
       ELSE loop' = [loop EXCEPT ![c] = "running"] /\ Show(startTime)
    /\ UNCHANGED <<pc, startTime, debounce, timer, channel, listening, vpn>>

\* The timer fires; the task goes on unless it finds the timer of another one.
TimerFires(c) ==
    /\ loop[c] = "armed"
    /\ IF timer # c /\ Active
       THEN loop' = [loop EXCEPT ![c] = "over"] /\ UNCHANGED displayVars
       ELSE loop' = [loop EXCEPT ![c] = "running"] /\ Show(startTime)
    /\ UNCHANGED <<pc, startTime, debounce, timer, channel, listening, vpn>>

-----------------------------------------------------------------------------
(* updateStatus: what follows is handleStart and handleStop.                 *)

updateStatus(c, start) ==
    /\ startTime' = start
    /\ Goto(c, IF start THEN "startListener" ELSE "stopListener")

\* _initStatus: the core tells its run time; else the setting autoRun decides.
\* From the answer (updateStartTime) to updateStatus and on to its first request
\* only microtasks of this call run, so no other event comes between.
InitStatus(c) ==
    /\ pc[c] = "init"
    /\ \E autoRun \in BOOLEAN : updateStatus(c, vpn \/ autoRun)
    /\ UNCHANGED <<displayVars, debounce, loopVars, channel, listening, vpn>>

\* The tile, the tray, a hotkey, the end of the last profile.
CallUpdateStatus(c) ==
    /\ Unused(c) /\ MayBegin
    /\ \E start \in BOOLEAN : updateStatus(c, start)
    /\ UNCHANGED <<displayVars, debounce, loopVars, channel, listening, vpn>>

\* handleSwitchStart: the button appears when the application is initialised.
Click ==
    /\ pc[1] = "done"
    /\ "overlap" \in may \/ Settled
    /\ \E c \in Calls : pc[c] = "unused"
    /\ isStart' = ~isStart /\ debounce' = TRUE
    /\ UNCHANGED <<pc, startTime, runTime, loopVars, channel, listening, vpn>>

\* The debouncer reads the button when its time is over, not at the click.
Debounced(c) ==
    /\ Unused(c)
    /\ debounce /\ debounce' = FALSE
    /\ updateStatus(c, isStart)
    /\ UNCHANGED <<displayVars, loopVars, channel, listening, vpn>>

\* The core handles startListener or stopListener ...
CoreListens(c) ==
    /\ pc[c] \in {"startListener", "stopListener"}
    /\ "android" \in may \/ \A d \in Calls : pc[d] # "restart"
    /\ listening' = (pc[c] = "startListener")
    /\ Goto(c, IF listening' THEN "started" ELSE "stopped")
    /\ UNCHANGED <<startTime, displayVars, debounce, loopVars, channel, vpn>>

\* ... and its answer comes back: on Android the VPN is next, and a start first
\* asks for its options.
Started(c) ==
    /\ pc[c] = "started"
    /\ IF "android" \in may
       THEN Goto(c, "options") /\ UNCHANGED <<displayVars, loopVars>>
       ELSE Goto(c, "done") /\ startUpdateTasks(c)
    /\ UNCHANGED <<startTime, debounce, channel, listening, vpn>>

\* Mutant: startVpn is not awaited.
OptionsToldUnawaited(c) ==
    /\ pc[c] = "options"
    /\ Goto(c, "done")
    /\ channel' = Append(channel, c)
    /\ UNCHANGED <<startTime, displayVars, debounce, loopVars, listening, vpn>>

OptionsTold(c) ==
    /\ pc[c] = "options"
    /\ Goto(c, "startVpn")
    /\ channel' = Append(channel, c)
    /\ UNCHANGED <<startTime, displayVars, debounce, loopVars, listening, vpn>>

\* The end of a stop resets what is shown.
StopEnds(c) ==
    /\ Goto(c, "done")
    /\ stopUpdateTasks
    /\ Show(FALSE)

Stopped(c) ==
    /\ pc[c] = "stopped"
    /\ IF "android" \in may
       THEN /\ Goto(c, "stopVpn") /\ channel' = Append(channel, c)
            /\ UNCHANGED <<displayVars, loopVars>>
       ELSE StopEnds(c) /\ UNCHANGED channel
    /\ UNCHANGED <<startTime, debounce, listening, vpn>>

\* The platform answers startVpn or stopVpn.
PlatformAnswers(c) ==
    /\ channel # <<>> /\ c = Head(channel) /\ channel' = Tail(channel)
    /\ vpn' = (pc[c] = "startVpn")
    /\ IF vpn' THEN Goto(c, "done") /\ startUpdateTasks(c) ELSE StopEnds(c)
    /\ UNCHANGED <<startTime, debounce, listening>>

\* restartCore: on the desktop a new core listens only when told to.  (Requests
\* that a restart meets under way are the matter of DesktopCore.)
RestartCore(c) ==
    /\ Unused(c) /\ MayBegin
    /\ \/ "android" \in may
       \/ \A d \in Calls : pc[d] \notin {"startListener", "stopListener", "restart"}
    /\ Goto(c, "restart")
    /\ UNCHANGED <<startTime, displayVars, debounce, loopVars, channel, listening, vpn>>

\* Mutant: the core is not told.
RestartedOnly(c) ==
    /\ pc[c] = "restart"
    /\ listening' = (listening /\ "android" \in may)
    /\ Goto(c, "done")
    /\ UNCHANGED <<startTime, displayVars, debounce, loopVars, channel, vpn>>

Restarted(c) ==
    /\ pc[c] = "restart"
    /\ listening' = (listening /\ "android" \in may)
    /\ IF runTime THEN updateStatus(c, TRUE) ELSE Goto(c, "done") /\ UNCHANGED startTime
    /\ UNCHANGED <<displayVars, debounce, loopVars, channel, vpn>>

-----------------------------------------------------------------------------

\* A step of a call that has begun, or of its task.
Step(c) ==
    \/ InitStatus(c)
    \/ CoreListens(c) \/ Started(c) \/ OptionsTold(c) \/ Stopped(c)
    \/ PlatformAnswers(c) \/ Restarted(c)

LoopStep(c) == TasksDone(c) \/ TimerFires(c)

Next ==
    /\ UNCHANGED may
    /\ \/ Click
       \/ \E c \in Calls : \/ CallUpdateStatus(c) \/ RestartCore(c) \/ Debounced(c)
                           \/ Step(c) \/ LoopStep(c)

Spec == Init /\ [][Next]_vars

\* Requests are answered and timers fire.  Nobody has to start or stop.
Fairness ==
    \A c \in Calls : /\ WF_vars(Step(c) /\ UNCHANGED may)
                     /\ WF_vars(LoopStep(c) /\ UNCHANGED may)
                     /\ WF_vars(Debounced(c) /\ UNCHANGED may)

FairSpec == Spec /\ Fairness

-----------------------------------------------------------------------------
(* Properties.                                                               *)

\* Types; a call whose message is on the channel waits for its answer, and
\* GlobalState.timer is never that of a task that has not run.
TypeOK ==
    /\ pc \in [Calls -> {"unused", "init", "restart", "startListener", "started", "options",
                         "startVpn", "stopListener", "stopped", "stopVpn", "done"}]
    /\ {startTime, runTime, isStart, debounce, listening, vpn} \subseteq BOOLEAN
    /\ loop \in [Calls -> {"none", "running", "armed", "over"}]
    /\ timer = Nil \/ (timer \in Calls /\ loop[timer] # "none")
    /\ \A i \in DOMAIN channel : pc[channel[i]] \in {"startVpn", "stopVpn"}
    /\ may \in Worlds

\* However calls overlap, and although a task whose tasks were running when it
\* was stopped goes on for ever (state.dart:155), a run time is shown only
\* while the application is started or a stop is on its way to reset it.
ShownIsStarted ==
    runTime => \/ startTime
               \/ \E c \in Calls : pc[c] \in {"stopListener", "stopped", "stopVpn"}

\* When calls wait for each other and none is under way, the start time, the
\* listener of the core, the VPN, what is shown and the button all agree,
\* whatever was started, stopped, restarted or found running.
StatusAgrees ==
    "overlap" \notin may /\ Settled /\ ~debounce =>
        /\ listening = startTime
        /\ "android" \in may => vpn = startTime
        /\ isStart = runTime

\* When calls wait for each other, an application that is started comes to be
\* shown as such, also when an older task is still there and the new one gives
\* way to it (state.dart:137).
StartIsShown == ("overlap" \notin may /\ startTime) ~> (runTime \/ ~startTime)
=============================================================================
