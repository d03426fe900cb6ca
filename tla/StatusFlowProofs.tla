-------------------------- MODULE StatusFlowProofs --------------------------
(***************************************************************************)
(* For any number of calls that overlap in any way: the types, and that a  *)
(* stopped application shows a run time only while a stop is on its way.   *)
(* For any number that wait for each other: everything that is displayed   *)
(* agrees with what runs, and a started application has a task that shows  *)
(* it.                                                                     *)
(*                                                                         *)
(* Why: of such calls one is under way at most (SerialInv).  Its label     *)
(* tells what it has done so far, and the button shows what is displayed   *)
(* or what the call will display.                                          *)
(***************************************************************************)
EXTENDS StatusFlow, TLAPS

Labels == {"unused", "init", "restart", "startListener", "started", "options", "startVpn",
           "stopListener", "stopped", "stopVpn", "done"}

\* Is this a call that stops, and has it not reset the display yet?
Stopping(c) == pc[c] \in {"stopListener", "stopped", "stopVpn"}

\* pc is a function on the calls, and a run time is shown only while the
\* application is started or somebody is about to reset it.
Inv ==
    /\ pc \in [Calls -> Labels]
    /\ runTime => startTime \/ \E c \in Calls : Stopping(c)

\* What a step may do to the display and to the start time.
Effect ==
    \/ ~runTime'
    \/ runTime' <=> startTime'
    \/ startTime'
    \/ \E c \in Calls : Stopping(c)'
    \/ /\ runTime' <=> runTime
       /\ startTime' <=> startTime
       /\ \A c \in Calls : Stopping(c) => Stopping(c)'

-----------------------------------------------------------------------------

\* A task shows a run time if the start time is set.
LEMMA ShowEffect ==
    /\ Show(startTime) /\ startTime' = startTime => Effect
    /\ Show(FALSE) => Effect
<1>1. ASSUME Show(startTime), startTime' = startTime PROVE Effect
  <2>1. runTime' <=> startTime'
    BY <1>1, Zenon DEF Show
  <2>2. QED BY <2>1 DEF Effect
<1>2. ASSUME Show(FALSE) PROVE Effect
  <2>1. ~runTime'
    BY <1>2, Zenon DEF Show
  <2>2. QED BY <2>1 DEF Effect
<1>3. QED BY <1>1, <1>2, Zenon

\* A start sets the start time, a stop is a call that stops.
LEMMA UpdateEffect ==
    ASSUME NEW c \in Calls, NEW start \in BOOLEAN, Inv, updateStatus(c, start)
    PROVE  Effect
<1>1. CASE start
  <2>1. startTime'
    BY <1>1, Zenon DEF updateStatus
  <2>2. QED BY <2>1 DEF Effect
<1>2. CASE ~start
  <2>1. pc' = [pc EXCEPT ![c] = "stopListener"]
    BY <1>2, Zenon DEF updateStatus, Goto
  <2>2. Stopping(c)'
    BY <2>1 DEF Inv, Stopping
  <2>3. QED BY <2>2 DEF Effect
<1>3. QED BY <1>1, <1>2

\* A step that leaves the display and the start time alone, and only moves on
\* a call that is not the last to reset the display.
LEMMA MoveEffect ==
    ASSUME NEW c \in Calls, NEW label, Inv, Goto(c, label),
           Stopping(c) => label \in {"stopListener", "stopped", "stopVpn"},
           UNCHANGED <<startTime, runTime>>
    PROVE  Effect
<1>1. \A d \in Calls : Stopping(d) => Stopping(d)'
  BY DEF Inv, Stopping, Goto
<1>2. QED BY <1>1 DEF Effect

\* Every step has one of the effects.
LEMMA StepEffect ==
    ASSUME Inv, [Next]_vars
    PROVE  Effect
<1>0. ASSUME UNCHANGED <<pc, startTime, runTime>> PROVE Effect
  BY <1>0 DEF Effect, Stopping
<1>1. CASE UNCHANGED vars
  BY <1>0, <1>1 DEF vars, displayVars
<1>2. CASE Click
  BY <1>0, <1>2 DEF Click
<1>3. ASSUME NEW c \in Calls, InitStatus(c) \/ CallUpdateStatus(c) PROVE Effect
  <2>1. \E start \in BOOLEAN : updateStatus(c, start)
    <3>1. CASE InitStatus(c)
      <4>1. PICK autoRun \in BOOLEAN : updateStatus(c, vpn \/ autoRun)
        BY <3>1 DEF InitStatus
      <4>2. (vpn \/ autoRun) \in BOOLEAN
        OBVIOUS
      <4>3. QED BY <4>1, <4>2, Zenon
    <3>2. CASE CallUpdateStatus(c)
      BY <3>2 DEF CallUpdateStatus
    <3>3. QED BY <1>3, <3>1, <3>2
  <2>2. QED BY <2>1, UpdateEffect
<1>4. ASSUME NEW c \in Calls, Debounced(c) PROVE Effect
  <2>1. CASE isStart
    <3>1. startTime' = isStart
      BY <1>4, Zenon DEF Debounced, updateStatus
    <3>2. QED BY <2>1, <3>1, Zenon DEF Effect
  <2>2. CASE ~isStart
    <3>1. pc' = [pc EXCEPT ![c] = "stopListener"]
      BY <1>4, <2>2, Zenon DEF Debounced, updateStatus, Goto
    <3>2. Stopping(c)'
      BY <3>1 DEF Inv, Stopping
    <3>3. QED BY <3>2 DEF Effect
  <2>3. QED BY <2>1, <2>2
<1>5. ASSUME NEW c \in Calls, RestartCore(c) PROVE Effect
  <2>1. Goto(c, "restart") /\ ~Stopping(c) /\ UNCHANGED <<startTime, runTime>>
    BY <1>5 DEF RestartCore, Unused, Stopping, displayVars
  <2>2. QED BY <2>1, MoveEffect
<1>6. ASSUME NEW c \in Calls, CoreListens(c) PROVE Effect
  <2>1. UNCHANGED <<startTime, runTime>>
    BY <1>6, Zenon DEF CoreListens, displayVars
  <2>2. CASE pc[c] = "startListener"
    <3>1. Goto(c, "started")
      BY <1>6, <2>2, Zenon DEF CoreListens
    <3>2. QED BY <2>1, <2>2, <3>1, MoveEffect DEF Stopping
  <2>3. CASE pc[c] # "startListener"
    <3>1. Goto(c, "stopped")
      BY <1>6, <2>3, Zenon DEF CoreListens
    <3>2. QED BY <2>1, <3>1, MoveEffect
  <2>4. QED BY <2>2, <2>3
<1>7. ASSUME NEW c \in Calls, startUpdateTasks(c), startTime' = startTime,
             \A d \in Calls : Stopping(d) => Stopping(d)'
      PROVE  Effect
  <2>1. CASE Active
    <3>1. runTime' = runTime
      BY <1>7, <2>1, Zenon DEF startUpdateTasks, displayVars
    <3>2. QED BY <1>7, <3>1 DEF Effect
  <2>2. CASE ~Active
    BY <1>7, <2>2, ShowEffect, Zenon DEF startUpdateTasks
  <2>3. QED BY <2>1, <2>2
<1>8. ASSUME NEW c \in Calls, Goto(c, "done"), ~Stopping(c)
      PROVE  \A d \in Calls : Stopping(d) => Stopping(d)'
  BY <1>8 DEF Inv, Stopping, Goto
<1>9. ASSUME NEW c \in Calls, Started(c) PROVE Effect
  <2>1. startTime' = startTime /\ ~Stopping(c)
    BY <1>9 DEF Started, Stopping
  <2>2. CASE Goto(c, "options") /\ UNCHANGED runTime
    BY <2>1, <2>2, MoveEffect
  <2>3. CASE Goto(c, "done") /\ startUpdateTasks(c)
    BY <1>7, <1>8, <2>1, <2>3
  <2>4. QED BY <1>9, <2>2, <2>3, Zenon DEF Started, displayVars
<1>10. ASSUME NEW c \in Calls, OptionsTold(c) PROVE Effect
  <2>1. Goto(c, "startVpn") /\ ~Stopping(c) /\ UNCHANGED <<startTime, runTime>>
    BY <1>10 DEF OptionsTold, Stopping, displayVars
  <2>2. QED BY <2>1, MoveEffect
<1>11. ASSUME NEW c \in Calls, Stopped(c) PROVE Effect
  <2>1. CASE Goto(c, "stopVpn") /\ UNCHANGED <<displayVars>>
    <3>1. UNCHANGED <<startTime, runTime>>
      BY <1>11, <2>1 DEF Stopped, displayVars
    <3>2. QED BY <2>1, <3>1, MoveEffect
  <2>2. CASE StopEnds(c)
    BY <2>2, ShowEffect DEF StopEnds
  <2>3. QED BY <1>11, <2>1, <2>2, Zenon DEF Stopped
<1>12. ASSUME NEW c \in Calls, PlatformAnswers(c) PROVE Effect
  <2>1. CASE StopEnds(c)
    BY <2>1, ShowEffect DEF StopEnds
  <2>2. CASE ~StopEnds(c)
    <3>1. vpn' /\ Goto(c, "done") /\ startUpdateTasks(c) /\ startTime' = startTime
      BY <1>12, <2>2, Zenon DEF PlatformAnswers
    <3>2. pc[c] = "startVpn"
      BY <1>12, <3>1, Zenon DEF PlatformAnswers
    <3>3. ~Stopping(c)
      BY <3>2 DEF Stopping
    <3>4. QED BY <1>7, <1>8, <3>1, <3>3
  <2>3. QED BY <2>1, <2>2
<1>13. ASSUME NEW c \in Calls, Restarted(c) PROVE Effect
  <2>1. ~Stopping(c) /\ runTime' = runTime
    BY <1>13 DEF Restarted, Stopping, displayVars
  <2>2. CASE updateStatus(c, TRUE)
    BY <2>2, UpdateEffect
  <2>3. CASE Goto(c, "done") /\ UNCHANGED startTime
    BY <2>1, <2>3, <1>8 DEF Effect
  <2>4. QED BY <1>13, <2>2, <2>3, Zenon DEF Restarted
<1>14. ASSUME NEW c \in Calls, LoopStep(c) PROVE Effect
  <2>1. pc' = pc /\ startTime' = startTime
    BY <1>14, Zenon DEF LoopStep, TasksDone, TimerFires
  <2>2. runTime' = runTime \/ Show(startTime)
    BY <1>14, Zenon DEF LoopStep, TasksDone, TimerFires, displayVars
  <2>3. QED BY <1>0, <2>1, <2>2, ShowEffect
<1>15. QED
  BY <1>1, <1>2, <1>3, <1>4, <1>5, <1>6, <1>9, <1>10, <1>11, <1>12, <1>13, <1>14
     DEF Next, Step

\* pc stays a function on the calls.
LEMMA PcKept == Inv /\ [Next]_vars => pc' \in [Calls -> Labels]
<1> SUFFICES ASSUME Inv, [Next]_vars PROVE pc' \in [Calls -> Labels]
  OBVIOUS
<1>1. pc' = pc \/ \E c \in Calls, label \in Labels : Goto(c, label)
  <2>1. CASE UNCHANGED vars
    BY <2>1, Zenon DEF vars
  <2>2. CASE Click
    BY <2>2, Zenon DEF Click
  <2>3. ASSUME NEW c \in Calls, NEW start, updateStatus(c, start)
        PROVE  Goto(c, "startListener") \/ Goto(c, "stopListener")
    <3>1. CASE start
      BY <2>3, <3>1, Zenon DEF updateStatus
    <3>2. CASE ~start
      BY <2>3, <3>2, Zenon DEF updateStatus
    <3>3. QED BY <3>1, <3>2, Zenon
  <2>4. ASSUME NEW c \in Calls, CallUpdateStatus(c) \/ Debounced(c) \/ InitStatus(c)
        PROVE  Goto(c, "startListener") \/ Goto(c, "stopListener")
    BY <2>3, <2>4, Zenon DEF CallUpdateStatus, Debounced, InitStatus
  <2>5. ASSUME NEW c \in Calls, Restarted(c)
        PROVE  Goto(c, "startListener") \/ Goto(c, "stopListener") \/ Goto(c, "done")
    BY <2>3, <2>5, Zenon DEF Restarted
  <2>6. ASSUME NEW c \in Calls, CoreListens(c)
        PROVE  Goto(c, "started") \/ Goto(c, "stopped")
    BY <2>6, Zenon DEF CoreListens
  <2>7. ASSUME NEW c \in Calls,
               RestartCore(c) \/ Started(c) \/ OptionsTold(c) \/ Stopped(c)
                   \/ PlatformAnswers(c)
        PROVE  \/ Goto(c, "restart") \/ Goto(c, "options") \/ Goto(c, "startVpn")
               \/ Goto(c, "stopVpn") \/ Goto(c, "done")
    BY <2>7, Zenon
       DEF RestartCore, Started, OptionsTold, Stopped, StopEnds, PlatformAnswers
  <2>8. ASSUME NEW c \in Calls, LoopStep(c) PROVE pc' = pc
    BY <2>8, Zenon DEF LoopStep, TasksDone, TimerFires
  <2>9. ASSUME NEW c \in Calls,
               \/ CallUpdateStatus(c) \/ RestartCore(c) \/ Debounced(c)
               \/ Step(c) \/ LoopStep(c)
        PROVE  pc' = pc \/ \E label \in Labels : Goto(c, label)
    <3>1. \/ pc' = pc
          \/ Goto(c, "startListener") \/ Goto(c, "stopListener")
          \/ Goto(c, "started") \/ Goto(c, "stopped")
          \/ Goto(c, "restart") \/ Goto(c, "options") \/ Goto(c, "startVpn")
          \/ Goto(c, "stopVpn") \/ Goto(c, "done")
      BY <2>4, <2>5, <2>6, <2>7, <2>8, <2>9, Zenon DEF Step
    <3>2. QED BY <3>1 DEF Labels, Goto
  <2>10. QED BY <2>1, <2>2, <2>9, Zenon DEF Next
<1>2. QED BY <1>1 DEF Inv, Goto

LEMMA InitInv == Init => Inv
<1> SUFFICES ASSUME Init PROVE Inv
  OBVIOUS
<1>1. pc \in [Calls -> Labels]
  <2>1. pc = [c \in Calls |-> IF c = 1 THEN "init" ELSE "unused"]
    BY Zenon DEF Init
  <2>2. QED BY <2>1 DEF Labels
<1>2. ~runTime
  BY Zenon DEF Init
<1>3. QED BY <1>1, <1>2 DEF Inv

LEMMA InvKept == Inv /\ [Next]_vars => Inv'
<1> SUFFICES ASSUME Inv, [Next]_vars PROVE Inv'
  OBVIOUS
<1>1. pc' \in [Calls -> Labels] /\ Effect
  BY PcKept, StepEffect
<1>2. runTime' => startTime' \/ \E c \in Calls : Stopping(c)'
  BY <1>1, Zenon DEF Inv, Effect
<1>3. QED BY <1>1, <1>2, Zenon DEF Inv

\* A run time is shown only while the application is started or a stop is on
\* its way to reset it.
THEOREM ShownOnlyIfStarted == Spec => []ShownIsStarted
<1>1. Inv => ShownIsStarted
  BY DEF Inv, ShownIsStarted, Stopping
<1>2. QED BY <1>1, InitInv, InvKept, PTL DEF Spec

-----------------------------------------------------------------------------
(* Types.                                                                    *)

Waiting == {"startVpn", "stopVpn"}

\* Each call is on the channel once at most, while it waits for the answer.
ChannelInv ==
    /\ channel \in Seq(Calls)
    /\ \A i \in 1..Len(channel) : pc[channel[i]] \in Waiting
    /\ \A i, j \in 1..Len(channel) : channel[i] = channel[j] => i = j

LoopType ==
    /\ loop \in [Calls -> {"none", "running", "armed", "over"}]
    /\ timer = Nil \/ (timer \in Calls /\ loop[timer] # "none")

FlagType ==
    /\ startTime \in BOOLEAN /\ runTime \in BOOLEAN /\ isStart \in BOOLEAN
    /\ debounce \in BOOLEAN /\ listening \in BOOLEAN /\ vpn \in BOOLEAN

MayType == may \in Worlds

\* A step that leaves the channel alone, and the calls on it.
LEMMA ChannelFrame ==
    ASSUME Inv, ChannelInv, channel' = channel,
           \/ pc' = pc
           \/ \E c \in Calls : pc[c] \notin Waiting /\ \E label : Goto(c, label)
    PROVE  ChannelInv'
<1>1. \A i \in 1..Len(channel) : channel[i] \in Calls
  BY DEF ChannelInv
<1>2. \A d \in Calls : pc[d] \in Waiting => pc'[d] = pc[d]
  BY DEF Inv, Goto
<1>3. QED BY <1>1, <1>2 DEF ChannelInv

\* A call that sends its message.
LEMMA ChannelSend ==
    ASSUME Inv, ChannelInv, NEW c \in Calls, pc[c] \notin Waiting,
           NEW label \in Waiting, Goto(c, label), channel' = Append(channel, c)
    PROVE  ChannelInv'
<1>1. /\ channel' \in Seq(Calls) /\ Len(channel') = Len(channel) + 1
      /\ channel'[Len(channel) + 1] = c
      /\ \A i \in 1..Len(channel) : channel'[i] = channel[i] /\ channel[i] \in Calls
  BY DEF ChannelInv
<1>2. \A i \in 1..Len(channel) : channel[i] # c
  BY DEF ChannelInv
<1>3. pc'[c] = label /\ \A d \in Calls : d # c => pc'[d] = pc[d]
  BY DEF Inv, Goto
<1>4. \A i \in 1..Len(channel') : i = Len(channel) + 1 \/ i \in 1..Len(channel)
  BY <1>1 DEF ChannelInv
<1>5. QED BY <1>1, <1>2, <1>3, <1>4 DEF ChannelInv

\* The call whose message is answered.
LEMMA ChannelAnswer ==
    ASSUME Inv, ChannelInv, channel # <<>>, channel' = Tail(channel),
           Goto(Head(channel), "done")
    PROVE  ChannelInv'
<1>1. /\ channel' \in Seq(Calls) /\ Len(channel') = Len(channel) - 1
      /\ \A i \in 1..Len(channel') : channel'[i] = channel[i + 1] /\ i + 1 \in 1..Len(channel)
      /\ Head(channel) = channel[1] /\ 1 \in 1..Len(channel)
  BY DEF ChannelInv
<1>2. \A i \in 1..Len(channel) : channel[i] \in Calls
  BY DEF ChannelInv
<1>3. \A i \in 1..Len(channel') : channel'[i] # Head(channel)
  BY <1>1 DEF ChannelInv
<1>4. \A d \in Calls : d # Head(channel) => pc'[d] = pc[d]
  BY DEF Inv, Goto
<1>5. QED BY <1>1, <1>2, <1>3, <1>4 DEF ChannelInv

LEMMA ChannelKept == Inv /\ ChannelInv /\ [Next]_vars => ChannelInv'
<1> SUFFICES ASSUME Inv, ChannelInv, [Next]_vars PROVE ChannelInv'
  OBVIOUS
<1>1. CASE UNCHANGED vars \/ Click
  BY <1>1, ChannelFrame DEF vars, Click
<1>2. ASSUME NEW c \in Calls, LoopStep(c) PROVE ChannelInv'
  BY <1>2, ChannelFrame DEF LoopStep, TasksDone, TimerFires
<1>3. ASSUME NEW c \in Calls, NEW start, updateStatus(c, start), pc[c] \notin Waiting,
             channel' = channel
      PROVE  ChannelInv'
  BY <1>3, ChannelFrame DEF updateStatus
<1>4. ASSUME NEW c \in Calls, InitStatus(c) \/ CallUpdateStatus(c) \/ Debounced(c)
      PROVE  ChannelInv'
  <2>1. pc[c] \notin Waiting /\ channel' = channel
    BY <1>4 DEF InitStatus, CallUpdateStatus, Debounced, Unused, Waiting
  <2>2. \E start : updateStatus(c, start)
    BY <1>4, Zenon DEF InitStatus, CallUpdateStatus, Debounced
  <2>3. QED BY <1>3, <2>1, <2>2
<1>5. ASSUME NEW c \in Calls, RestartCore(c) \/ CoreListens(c) PROVE ChannelInv'
  <2>1. pc[c] \notin Waiting /\ channel' = channel
    BY <1>5 DEF RestartCore, CoreListens, Unused, Waiting
  <2>2. \E label : Goto(c, label)
    BY <1>5, Zenon DEF RestartCore, CoreListens
  <2>3. QED BY <2>1, <2>2, ChannelFrame
<1>6. ASSUME NEW c \in Calls, Started(c) PROVE ChannelInv'
  <2>1. pc[c] \notin Waiting /\ channel' = channel
    BY <1>6 DEF Started, Waiting
  <2>2. \E label : Goto(c, label)
    BY <1>6, Zenon DEF Started
  <2>3. QED BY <2>1, <2>2, ChannelFrame
<1>7. ASSUME NEW c \in Calls, OptionsTold(c) PROVE ChannelInv'
  BY <1>7, ChannelSend DEF OptionsTold, Waiting
<1>8. ASSUME NEW c \in Calls, Stopped(c) PROVE ChannelInv'
  <2>1. pc[c] \notin Waiting
    BY <1>8 DEF Stopped, Waiting
  <2>2. CASE Goto(c, "stopVpn") /\ channel' = Append(channel, c)
    BY <2>1, <2>2, ChannelSend DEF Waiting
  <2>3. CASE Goto(c, "done") /\ channel' = channel
    BY <2>1, <2>3, ChannelFrame
  <2>4. QED BY <1>8, <2>2, <2>3, Zenon DEF Stopped, StopEnds
<1>9. ASSUME NEW c \in Calls, PlatformAnswers(c) PROVE ChannelInv'
  <2>1. channel # <<>> /\ channel' = Tail(channel) /\ c = Head(channel)
    BY <1>9, Zenon DEF PlatformAnswers
  <2>2. Goto(c, "done")
    BY <1>9, Zenon DEF PlatformAnswers, StopEnds
  <2>3. QED BY <2>1, <2>2, ChannelAnswer
<1>10. ASSUME NEW c \in Calls, Restarted(c) PROVE ChannelInv'
  <2>1. pc[c] \notin Waiting /\ channel' = channel
    BY <1>10 DEF Restarted, Waiting
  <2>2. updateStatus(c, TRUE) \/ Goto(c, "done")
    BY <1>10, Zenon DEF Restarted
  <2>3. QED BY <1>3, <2>1, <2>2, ChannelFrame
<1>11. QED
  BY <1>1, <1>2, <1>4, <1>5, <1>6, <1>7, <1>8, <1>9, <1>10, Zenon DEF Next, Step

\* A step moves one task on, if any, and arms no timer of another.
LEMMA LoopKept == LoopType /\ [Next]_vars => LoopType'
<1> SUFFICES ASSUME LoopType, [Next]_vars PROVE LoopType'
  OBVIOUS
<1>1. ASSUME UNCHANGED loopVars PROVE LoopType'
  BY <1>1 DEF LoopType, loopVars
<1>2. ASSUME NEW c \in Calls, NEW label \in {"running", "armed", "over"},
             loop' = [loop EXCEPT ![c] = label], timer' \in {timer, c, Nil}
      PROVE  LoopType'
  BY <1>2 DEF LoopType
<1>3. ASSUME NEW c \in Calls, startUpdateTasks(c) PROVE LoopType'
  <2>1. UNCHANGED loopVars \/ (loop' = [loop EXCEPT ![c] = "running"] /\ timer' = timer)
    BY <1>3, Zenon DEF startUpdateTasks
  <2>2. QED BY <1>1, <1>2, <2>1
<1>4. ASSUME stopUpdateTasks PROVE LoopType'
  <2>1. CASE ~Active
    BY <1>1, <1>4, <2>1, Zenon DEF stopUpdateTasks
  <2>2. CASE Active
    <3>1. timer \in Calls
      BY <2>2 DEF Active, LoopType
    <3>2. loop' = [loop EXCEPT ![timer] = "over"] /\ timer' = Nil
      BY <1>4, <2>2, Zenon DEF stopUpdateTasks
    <3>3. QED BY <1>2, <3>1, <3>2
  <2>3. QED BY <2>1, <2>2
<1>5. ASSUME NEW c \in Calls, LoopStep(c) PROVE LoopType'
  <2>1. \E label \in {"running", "armed", "over"} :
           loop' = [loop EXCEPT ![c] = label] /\ timer' \in {timer, c}
    BY <1>5 DEF LoopStep, TasksDone, TimerFires
  <2>2. QED BY <1>2, <2>1
<1>6. \/ UNCHANGED loopVars \/ stopUpdateTasks
      \/ \E c \in Calls : startUpdateTasks(c) \/ LoopStep(c)
  <2>1. UNCHANGED vars \/ Click => UNCHANGED loopVars
    BY Zenon DEF vars, Click
  <2>2. ASSUME NEW c \in Calls, CallUpdateStatus(c) \/ RestartCore(c) \/ Debounced(c) \/ Step(c)
        PROVE  UNCHANGED loopVars \/ stopUpdateTasks \/ startUpdateTasks(c)
    BY <2>2, Zenon
       DEF CallUpdateStatus, RestartCore, Debounced, Step, InitStatus, CoreListens, Started,
           OptionsTold, Stopped, StopEnds, PlatformAnswers, Restarted
  <2>3. QED BY <2>1, <2>2, Zenon DEF Next
<1>7. QED BY <1>1, <1>3, <1>4, <1>5, <1>6

\* What is true or false stays so.
LEMMA FlagsKept == FlagType /\ [Next]_vars => FlagType'
<1> SUFFICES ASSUME FlagType, [Next]_vars PROVE FlagType'
  OBVIOUS
<1>1. ASSUME NEW on \in BOOLEAN, Show(on) PROVE runTime' \in BOOLEAN /\ isStart' \in BOOLEAN
  BY <1>1, Zenon DEF FlagType, Show
<1>2. ASSUME UNCHANGED displayVars PROVE runTime' \in BOOLEAN /\ isStart' \in BOOLEAN
  BY <1>2, Zenon DEF FlagType, displayVars
<1>3. ASSUME NEW c \in Calls, startUpdateTasks(c)
      PROVE  runTime' \in BOOLEAN /\ isStart' \in BOOLEAN
  BY <1>1, <1>2, <1>3, Zenon DEF FlagType, startUpdateTasks
<1>4. ASSUME NEW c \in Calls, StopEnds(c) PROVE runTime' \in BOOLEAN /\ isStart' \in BOOLEAN
  BY <1>1, <1>4, Zenon DEF StopEnds
<1>5. runTime' \in BOOLEAN /\ isStart' \in BOOLEAN
  <2>1. CASE UNCHANGED vars
    BY <1>2, <2>1, Zenon DEF vars
  <2>2. CASE Click
    BY <2>2, Zenon DEF Click, FlagType
  <2>3. ASSUME NEW c \in Calls, LoopStep(c) PROVE runTime' \in BOOLEAN /\ isStart' \in BOOLEAN
    BY <1>1, <1>2, <2>3, Zenon DEF LoopStep, TasksDone, TimerFires, FlagType
  <2>4. ASSUME NEW c \in Calls, Step(c)
        PROVE  UNCHANGED displayVars \/ startUpdateTasks(c) \/ StopEnds(c)
    BY <2>4, Zenon
       DEF Step, InitStatus, CoreListens, Started, OptionsTold, Stopped, PlatformAnswers, Restarted
  <2>5. ASSUME NEW c \in Calls, CallUpdateStatus(c) \/ RestartCore(c) \/ Debounced(c)
        PROVE  UNCHANGED displayVars
    BY <2>5, Zenon DEF CallUpdateStatus, RestartCore, Debounced
  <2>6. QED BY <1>2, <1>3, <1>4, <2>1, <2>2, <2>3, <2>4, <2>5, Zenon DEF Next
<1>6. startTime' \in BOOLEAN
  <2>1. ASSUME NEW c \in Calls, Step(c) \/ CallUpdateStatus(c) \/ Debounced(c)
        PROVE  startTime' = startTime \/ \E start \in BOOLEAN : updateStatus(c, start)
    <3>1. CASE InitStatus(c)
      <4>1. PICK autoRun \in BOOLEAN : updateStatus(c, vpn \/ autoRun)
        BY <3>1 DEF InitStatus
      <4>2. (vpn \/ autoRun) \in BOOLEAN
        OBVIOUS
      <4>3. QED BY <4>1, <4>2, Zenon
    <3>2. CASE ~InitStatus(c)
      BY <2>1, <3>2, Zenon
         DEF Step, CoreListens, Started, OptionsTold, Stopped, PlatformAnswers, Restarted,
             CallUpdateStatus, Debounced, FlagType
    <3>3. QED BY <3>1, <3>2
  <2>2. UNCHANGED vars \/ Click => startTime' = startTime
    BY Zenon DEF vars, Click
  <2>3. ASSUME NEW c \in Calls, RestartCore(c) \/ LoopStep(c) PROVE startTime' = startTime
    BY <2>3, Zenon DEF RestartCore, LoopStep, TasksDone, TimerFires
  <2>4. QED BY <2>1, <2>2, <2>3, Zenon DEF Next, updateStatus, FlagType
<1>7. debounce' \in BOOLEAN
  <2>1. debounce' = debounce \/ debounce' = TRUE \/ debounce' = FALSE
    BY Zenon
       DEF Next, vars, Click, CallUpdateStatus, RestartCore, Debounced, Step, InitStatus,
           CoreListens, Started, OptionsTold, Stopped, PlatformAnswers, Restarted, LoopStep,
           TasksDone, TimerFires
  <2>2. QED BY <2>1, Zenon DEF FlagType
<1>8. listening' \in BOOLEAN
  <2>1. ASSUME NEW c \in Calls, CoreListens(c) \/ Restarted(c) PROVE listening' \in BOOLEAN
    BY <2>1 DEF CoreListens, Restarted
  <2>2. listening' = listening \/ \E c \in Calls : CoreListens(c) \/ Restarted(c)
    BY Zenon
       DEF Next, vars, Click, CallUpdateStatus, RestartCore, Debounced, Step, InitStatus,
           Started, OptionsTold, Stopped, PlatformAnswers, LoopStep, TasksDone, TimerFires
  <2>3. QED BY <2>1, <2>2, Zenon DEF FlagType
<1>9. vpn' \in BOOLEAN
  <2>1. ASSUME NEW c \in Calls, PlatformAnswers(c) PROVE vpn' \in BOOLEAN
    BY <2>1 DEF PlatformAnswers
  <2>2. vpn' = vpn \/ \E c \in Calls : PlatformAnswers(c)
    BY Zenon
       DEF Next, vars, Click, CallUpdateStatus, RestartCore, Debounced, Step, InitStatus,
           CoreListens, Started, OptionsTold, Stopped, Restarted, LoopStep, TasksDone,
           TimerFires
  <2>3. QED BY <2>1, <2>2, Zenon DEF FlagType
<1>10. QED BY <1>5, <1>6, <1>7, <1>8, <1>9, Zenon DEF FlagType

LEMMA TypeInit == Init => Inv /\ ChannelInv /\ LoopType /\ FlagType /\ MayType
<1> SUFFICES ASSUME Init PROVE Inv /\ ChannelInv /\ LoopType /\ FlagType /\ MayType
  OBVIOUS
<1>1. Inv
  BY InitInv
<1>2. ChannelInv
  BY DEF Init, ChannelInv
<1>3. LoopType
  BY DEF Init, LoopType
<1>4. vpn \in BOOLEAN
  <2>1. vpn = FALSE \/ vpn = ("android" \in may)
    BY Zenon DEF Init
  <2>2. ("android" \in may) \in BOOLEAN
    OBVIOUS
  <2>3. QED BY <2>1, <2>2, Zenon
<1>5. FlagType
  BY <1>4, Zenon DEF Init, FlagType
<1>6. MayType
  BY Zenon DEF Init, MayType
<1>7. QED BY <1>1, <1>2, <1>3, <1>5, <1>6

\* Every variable always has its type, and a call whose message is on the
\* channel waits for its answer, however calls overlap.
THEOREM TypeCorrect == Spec => []TypeOK
<1>1. MayType /\ [Next]_vars => MayType'
  BY DEF Next, vars, MayType
<1>2. ASSUME Inv, ChannelInv, LoopType, FlagType, MayType PROVE TypeOK
  <2>1. {startTime, runTime, isStart, debounce, listening, vpn} \subseteq BOOLEAN
    BY <1>2, Zenon DEF FlagType
  <2>2. DOMAIN channel = 1..Len(channel)
    BY <1>2 DEF ChannelInv
  <2>3. QED BY <1>2, <2>1, <2>2 DEF Inv, Labels, ChannelInv, LoopType, MayType, TypeOK, Waiting
<1>3. QED
  BY <1>1, <1>2, TypeInit, InvKept, ChannelKept, LoopKept, FlagsKept, PTL DEF Spec

-----------------------------------------------------------------------------
(* Calls that wait for each other.                                           *)

Serial  == "overlap" \notin may
Busy(c) == pc[c] \notin {"unused", "done"}

\* The core, the platform and the start time agree.
Agree == /\ listening <=> startTime
         /\ "android" \in may => (vpn <=> startTime)

\* The button shows what is displayed, or what will be.
ButtonInv == ~debounce => (isStart <=> runTime) \/ (isStart <=> startTime)

\* What is so while the only call is at label, or when it is over.
Fits(label) ==
    /\ label = "init" => ~startTime /\ ~runTime /\ ~isStart
    /\ label = "restart" => (runTime <=> startTime)
    /\ label \in {"startListener", "started", "options", "startVpn"} => startTime
    /\ label \in {"started", "options", "startVpn"} => listening
    /\ label \in {"stopListener", "stopped", "stopVpn"} => ~startTime
    /\ label \in {"stopped", "stopVpn"} => ~listening
    /\ label \in {"restart", "done"} => Agree

\* With calls that wait for each other at most one is under way, none while a
\* click waits for its debouncer.
SerialInv ==
    Serial =>
        /\ \A c, d \in Calls : Busy(c) /\ Busy(d) => c = d
        /\ debounce => \A c \in Calls : ~Busy(c)
        /\ ButtonInv
        /\ \A c \in Calls : Busy(c) => Fits(pc[c])
        /\ (\A c \in Calls : ~Busy(c)) => Agree

\* The only call goes on to label.
LEMMA OneMoves ==
    ASSUME Inv, Serial, may' = may, NEW c \in Calls, NEW label \in Labels, Goto(c, label),
           \A d \in Calls : Busy(d) => d = c,
           ~debounce', ButtonInv', label # "unused", Fits(label)'
    PROVE  SerialInv'
<1>1. pc'[c] = label /\ \A d \in Calls : d # c => pc'[d] = pc[d]
  BY DEF Inv, Goto
<1>2. \A d \in Calls : Busy(d)' => d = c
  BY <1>1 DEF Busy
<1>3. (\A d \in Calls : ~Busy(d)') => label = "done"
  BY <1>1 DEF Busy
<1>4. label = "done" => Agree'
  BY DEF Fits
<1>5. Fits(pc[c])'
  BY <1>1
<1>6. QED BY <1>2, <1>3, <1>4, <1>5 DEF SerialInv

\* A task that shows the start time, and the end of a stop, keep the button.
LEMMA ButtonShow ==
    ASSUME FlagType, ButtonInv, startTime' = startTime, debounce' = debounce,
           \/ UNCHANGED displayVars
           \/ Show(startTime)
           \/ ~startTime /\ Show(FALSE)
    PROVE  ButtonInv'
<1>1. CASE UNCHANGED displayVars
  BY <1>1, Zenon DEF displayVars, ButtonInv
<1>2. CASE Show(startTime)
  <2>1. CASE startTime = runTime
    BY <1>2, <2>1, Zenon DEF Show, ButtonInv
  <2>2. CASE startTime # runTime
    BY <1>2, <2>2, Zenon DEF Show, ButtonInv
  <2>3. QED BY <2>1, <2>2
<1>3. CASE ~startTime /\ Show(FALSE)
  <2>1. CASE runTime = FALSE
    BY <1>3, <2>1, Zenon DEF Show, ButtonInv
  <2>2. CASE runTime # FALSE
    BY <1>3, <2>2, Zenon DEF Show, ButtonInv
  <2>3. QED BY <2>1, <2>2
<1>4. QED BY <1>1, <1>2, <1>3

\* updateStatus by the only call, which has not begun or decides anew.
LEMMA SerialUpdate ==
    ASSUME Inv, FlagType, Serial, may' = may, NEW c \in Calls, NEW start \in BOOLEAN,
           updateStatus(c, start), \A d \in Calls : Busy(d) => d = c,
           UNCHANGED displayVars, ~debounce',
           (isStart <=> runTime) \/ (isStart <=> start)
    PROVE  SerialInv'
<1>1. startTime' = start /\ isStart' = isStart /\ runTime' = runTime
  BY Zenon DEF updateStatus, displayVars
<1>2. ButtonInv'
  BY <1>1, Zenon DEF ButtonInv
<1>3. CASE start
  <2>1. Goto(c, "startListener")
    BY <1>3, Zenon DEF updateStatus
  <2>2. startTime'
    BY <1>1, <1>3, Zenon
  <2>3. QED BY <1>2, <2>1, <2>2, OneMoves DEF Labels, Fits
<1>4. CASE ~start
  <2>1. Goto(c, "stopListener")
    BY <1>4, Zenon DEF updateStatus
  <2>2. ~startTime'
    BY <1>1, <1>4, Zenon
  <2>3. QED BY <1>2, <2>1, <2>2, OneMoves DEF Labels, Fits
<1>5. QED BY <1>3, <1>4

\* A step of the only call.
LEMMA SerialCallStep ==
    ASSUME Inv, ChannelInv, FlagType, SerialInv, Serial, may' = may, NEW c \in Calls, Step(c)
    PROVE  SerialInv'
<1>1. Busy(c)
  <2>1. CASE PlatformAnswers(c)
    <3>1. c = channel[1] /\ 1 \in 1..Len(channel)
      BY <2>1 DEF PlatformAnswers, ChannelInv
    <3>2. QED BY <3>1 DEF ChannelInv, Waiting, Busy
  <2>2. CASE ~PlatformAnswers(c)
    BY <2>2 DEF Step, InitStatus, CoreListens, Started, OptionsTold, Stopped, Restarted, Busy
  <2>3. QED BY <2>1, <2>2
<1>2. /\ \A d \in Calls : Busy(d) => d = c
      /\ ~debounce /\ ButtonInv /\ Fits(pc[c])
  BY <1>1 DEF SerialInv
<1>3. debounce' = debounce
  BY Zenon DEF Step, InitStatus, CoreListens, Started, OptionsTold, Stopped, PlatformAnswers,
               Restarted
<1>4. ~debounce'
  BY <1>2, <1>3, Zenon
<1>5. ASSUME NEW label \in Labels, label # "unused", Goto(c, label), ButtonInv', Fits(label)'
      PROVE  SerialInv'
  BY <1>2, <1>4, <1>5, OneMoves
<1>6. ASSUME startTime' = startTime,
             \/ UNCHANGED displayVars \/ startUpdateTasks(c)
             \/ ~startTime /\ StopEnds(c)
      PROVE  ButtonInv'
  <2>1. \/ UNCHANGED displayVars
        \/ Show(startTime)
        \/ ~startTime /\ Show(FALSE)
    BY <1>6, Zenon DEF startUpdateTasks, StopEnds
  <2>2. QED BY <1>2, <1>3, <1>6, <2>1, ButtonShow
<1>7. CASE InitStatus(c)
  <2>1. PICK autoRun \in BOOLEAN : updateStatus(c, vpn \/ autoRun)
    BY <1>7 DEF InitStatus
  <2>2. (vpn \/ autoRun) \in BOOLEAN
    OBVIOUS
  <2>3. UNCHANGED displayVars
    BY <1>7, Zenon DEF InitStatus
  <2>4. isStart <=> runTime
    BY <1>2, <1>7 DEF InitStatus, Fits
  <2>5. QED BY <1>2, <1>4, <2>1, <2>2, <2>3, <2>4, SerialUpdate
<1>8. CASE CoreListens(c)
  <2>1. UNCHANGED <<startTime, displayVars>>
    BY <1>8, Zenon DEF CoreListens
  <2>2. CASE pc[c] = "startListener"
    <3>1. listening' /\ Goto(c, "started")
      BY <1>8, <2>2, Zenon DEF CoreListens
    <3>2. startTime'
      BY <1>2, <2>1, <2>2 DEF Fits
    <3>3. QED BY <1>5, <1>6, <2>1, <3>1, <3>2 DEF Labels, Fits
  <2>3. CASE pc[c] # "startListener"
    <3>1. ~listening' /\ Goto(c, "stopped")
      BY <1>8, <2>3, Zenon DEF CoreListens
    <3>2. ~startTime'
      BY <1>2, <1>8, <2>1, <2>3 DEF Fits, CoreListens
    <3>3. QED BY <1>5, <1>6, <2>1, <3>1, <3>2 DEF Labels, Fits
  <2>4. QED BY <2>2, <2>3
<1>9. CASE Started(c)
  <2>1. UNCHANGED <<startTime, listening>>
    BY <1>9, Zenon DEF Started
  <2>2. startTime' /\ listening'
    BY <1>2, <1>9, <2>1 DEF Started, Fits
  <2>3. CASE "android" \in may
    <3>1. Goto(c, "options") /\ UNCHANGED displayVars
      BY <1>9, <2>3, Zenon DEF Started
    <3>2. QED BY <1>5, <1>6, <2>1, <2>2, <3>1 DEF Labels, Fits
  <2>4. CASE "android" \notin may
    <3>1. Goto(c, "done") /\ startUpdateTasks(c)
      BY <1>9, <2>4, Zenon DEF Started
    <3>2. Agree'
      BY <2>2, <2>4 DEF Agree
    <3>3. QED BY <1>5, <1>6, <2>1, <3>1, <3>2 DEF Labels, Fits
  <2>5. QED BY <2>3, <2>4
<1>10. CASE OptionsTold(c)
  <2>1. UNCHANGED <<startTime, listening, displayVars>> /\ Goto(c, "startVpn")
    BY <1>10, Zenon DEF OptionsTold
  <2>2. startTime' /\ listening'
    BY <1>2, <1>10, <2>1 DEF OptionsTold, Fits
  <2>3. QED BY <1>5, <1>6, <2>1, <2>2 DEF Labels, Fits
<1>11. CASE Stopped(c)
  <2>1. UNCHANGED <<startTime, listening>>
    BY <1>11, Zenon DEF Stopped
  <2>2. ~startTime /\ ~startTime' /\ ~listening'
    BY <1>2, <1>11, <2>1 DEF Stopped, Fits
  <2>3. CASE "android" \in may
    <3>1. Goto(c, "stopVpn") /\ UNCHANGED displayVars
      BY <1>11, <2>3, Zenon DEF Stopped
    <3>2. QED BY <1>5, <1>6, <2>1, <2>2, <3>1 DEF Labels, Fits
  <2>4. CASE "android" \notin may
    <3>1. StopEnds(c) /\ Goto(c, "done")
      BY <1>11, <2>4, Zenon DEF Stopped, StopEnds
    <3>2. Agree'
      BY <2>2, <2>4 DEF Agree
    <3>3. QED BY <1>5, <1>6, <2>1, <2>2, <3>1, <3>2 DEF Labels, Fits
  <2>5. QED BY <2>3, <2>4
<1>12. CASE PlatformAnswers(c)
  <2>1. UNCHANGED <<startTime, listening>>
    BY <1>12, Zenon DEF PlatformAnswers
  <2>2. pc[c] \in Waiting
    <3>1. c = channel[1] /\ 1 \in 1..Len(channel)
      BY <1>12 DEF PlatformAnswers, ChannelInv
    <3>2. QED BY <3>1 DEF ChannelInv
  <2>3. CASE pc[c] = "startVpn"
    <3>1. vpn' /\ Goto(c, "done") /\ startUpdateTasks(c)
      BY <1>12, <2>3, Zenon DEF PlatformAnswers
    <3>2. startTime' /\ listening'
      BY <1>2, <2>1, <2>3 DEF Fits
    <3>3. QED BY <1>5, <1>6, <2>1, <3>1, <3>2 DEF Labels, Fits, Agree
  <2>4. CASE pc[c] # "startVpn"
    <3>1. ~vpn' /\ Goto(c, "done") /\ StopEnds(c)
      BY <1>12, <2>4, Zenon DEF PlatformAnswers, StopEnds
    <3>2. ~startTime /\ ~startTime' /\ ~listening'
      BY <1>2, <2>1, <2>2, <2>4 DEF Fits, Waiting
    <3>3. QED BY <1>5, <1>6, <2>1, <3>1, <3>2 DEF Labels, Fits, Agree
  <2>5. QED BY <2>3, <2>4
<1>13. CASE Restarted(c)
  <2>1. (runTime <=> startTime) /\ Agree
    BY <1>2, <1>13 DEF Restarted, Fits
  <2>2. UNCHANGED displayVars /\ vpn' = vpn
    BY <1>13, Zenon DEF Restarted
  <2>3. CASE runTime
    <3>1. updateStatus(c, TRUE)
      BY <1>13, <2>3, Zenon DEF Restarted
    <3>2. (isStart <=> runTime) \/ (isStart <=> TRUE)
      BY <1>2, <2>1, <2>3 DEF ButtonInv
    <3>3. TRUE \in BOOLEAN
      OBVIOUS
    <3>4. QED BY <1>2, <1>4, <2>2, <3>1, <3>2, <3>3, SerialUpdate
  <2>4. CASE ~runTime
    <3>1. Goto(c, "done") /\ startTime' = startTime
      BY <1>13, <2>4, Zenon DEF Restarted
    <3>2. listening' = (listening /\ "android" \in may)
      BY <1>13, Zenon DEF Restarted
    <3>3. ~startTime /\ ~listening /\ ~startTime'
      BY <2>1, <2>4, <3>1 DEF Agree
    <3>4. ~listening'
      BY <3>2, <3>3, Zenon
    <3>5. Agree'
      BY <2>1, <2>2, <3>3, <3>4 DEF Agree
    <3>6. QED BY <1>5, <1>6, <2>2, <3>1, <3>5 DEF Labels, Fits
  <2>5. QED BY <2>3, <2>4
<1>14. QED
  BY <1>7, <1>8, <1>9, <1>10, <1>11, <1>12, <1>13 DEF Step

LEMMA SerialKept ==
    Inv /\ ChannelInv /\ FlagType /\ SerialInv /\ [Next]_vars => SerialInv'
<1> SUFFICES ASSUME Inv, ChannelInv, FlagType, SerialInv, [Next]_vars PROVE SerialInv'
  OBVIOUS
<1>0. may' = may
  BY DEF Next, vars
<1>1. CASE ~Serial
  BY <1>0, <1>1 DEF Serial, SerialInv
<1>2. ASSUME Serial, pc' = pc, UNCHANGED <<startTime, listening, vpn>>, ButtonInv',
             debounce' => \A c \in Calls : ~Busy(c),
             \A c \in Calls : pc[c] \in {"init", "restart"} => Fits(pc[c])'
      PROVE  SerialInv'
  <2>1. \A c \in Calls : Busy(c) => Fits(pc[c])'
    BY <1>0, <1>2 DEF SerialInv, Fits, Agree
  <2>2. (\A c \in Calls : ~Busy(c)) => Agree'
    BY <1>0, <1>2 DEF SerialInv, Agree
  <2>3. QED BY <1>0, <1>2, <2>1, <2>2 DEF SerialInv, Busy
<1>3. CASE Serial /\ UNCHANGED vars
  BY <1>3 DEF vars, displayVars, SerialInv, Serial, Busy, ButtonInv, Fits, Agree
<1>4. CASE Serial /\ Click
  <2>1. Settled /\ (\A c \in Calls : ~Busy(c))
    BY <1>4 DEF Click, Settled, Serial, Busy
  <2>2. pc' = pc /\ UNCHANGED <<startTime, listening, vpn>> /\ debounce' = TRUE
    BY <1>4, Zenon DEF Click
  <2>3. ButtonInv'
    BY <2>2, Zenon DEF ButtonInv
  <2>4. QED BY <1>2, <1>4, <2>1, <2>2, <2>3 DEF Busy
<1>5. ASSUME Serial, NEW c \in Calls, LoopStep(c) PROVE SerialInv'
  <2>1. pc' = pc /\ UNCHANGED <<startTime, listening, vpn, debounce>>
    BY <1>5, Zenon DEF LoopStep, TasksDone, TimerFires
  <2>2. UNCHANGED displayVars \/ Show(startTime)
    BY <1>5, Zenon DEF LoopStep, TasksDone, TimerFires
  <2>3. ButtonInv'
    BY <1>5, <2>1, <2>2, ButtonShow DEF SerialInv
  <2>4. ASSUME NEW d \in Calls, pc[d] \in {"init", "restart"} PROVE Fits(pc[d])'
    <3>1. Fits(pc[d])
      BY <1>5, <2>4 DEF SerialInv, Busy
    <3>2. runTime <=> startTime
      BY <2>4, <3>1 DEF Fits
    <3>3. runTime = startTime
      BY <3>2, Zenon DEF FlagType
    <3>4. UNCHANGED displayVars
      BY <2>2, <3>3, Zenon DEF Show, displayVars
    <3>5. QED BY <1>0, <2>1, <2>4, <3>1, <3>4 DEF Fits, Agree, displayVars
  <2>5. debounce' => \A d \in Calls : ~Busy(d)
    BY <1>5, <2>1 DEF SerialInv
  <2>6. QED BY <1>2, <1>5, <2>1, <2>3, <2>4, <2>5
<1>6. ASSUME Serial, NEW c \in Calls, Debounced(c) PROVE SerialInv'
  <2>1. /\ debounce /\ ~debounce' /\ updateStatus(c, isStart) /\ UNCHANGED displayVars
        /\ isStart \in BOOLEAN
    BY <1>6, Zenon DEF Debounced, FlagType
  <2>2. \A d \in Calls : ~Busy(d)
    BY <1>6, <2>1 DEF SerialInv
  <2>3. QED BY <1>0, <1>6, <2>1, <2>2, SerialUpdate
<1>7. ASSUME Serial, Settled, ~debounce
      PROVE  /\ \A d \in Calls : ~Busy(d)
             /\ Agree /\ (runTime <=> startTime) /\ (isStart <=> runTime)
  BY <1>7 DEF SerialInv, Settled, Busy, ButtonInv
<1>8. ASSUME Serial, NEW c \in Calls, CallUpdateStatus(c) PROVE SerialInv'
  <2>1. Settled /\ ~debounce
    BY <1>8 DEF CallUpdateStatus, MayBegin, Serial
  <2>2. /\ UNCHANGED displayVars /\ debounce' = debounce
        /\ \E start \in BOOLEAN : updateStatus(c, start)
    BY <1>8, Zenon DEF CallUpdateStatus
  <2>3. ~debounce'
    BY <2>1, <2>2, Zenon
  <2>4. QED BY <1>0, <1>7, <1>8, <2>1, <2>2, <2>3, SerialUpdate
<1>9. ASSUME Serial, NEW c \in Calls, RestartCore(c) PROVE SerialInv'
  <2>1. Settled /\ ~debounce
    BY <1>9 DEF RestartCore, MayBegin, Serial
  <2>2. /\ UNCHANGED <<startTime, runTime, isStart, debounce, listening, vpn>>
        /\ Goto(c, "restart")
    BY <1>9, Zenon DEF RestartCore, displayVars
  <2>3. ~debounce' /\ ButtonInv'
    BY <1>9, <2>1, <2>2 DEF SerialInv, ButtonInv
  <2>4. Fits("restart")'
    BY <1>0, <1>7, <1>9, <2>1, <2>2 DEF Fits, Agree
  <2>5. QED BY <1>0, <1>7, <1>9, <2>1, <2>2, <2>3, <2>4, OneMoves DEF Labels
<1>10. ASSUME Serial, NEW c \in Calls, Step(c) PROVE SerialInv'
  BY <1>0, <1>10, SerialCallStep
<1>11. QED
  BY <1>1, <1>3, <1>4, <1>5, <1>6, <1>8, <1>9, <1>10, Zenon DEF Next

\* At first only the call of _initStatus is under way.
LEMMA SerialInit == ASSUME Init PROVE SerialInv
<1>1. /\ \A c \in Calls : pc[c] = IF c = 1 THEN "init" ELSE "unused"
      /\ 1 \in Calls
  BY ConstantsAssumption DEF Init, Calls
<1>2. ~startTime /\ ~runTime /\ ~isStart /\ ~debounce
  BY Zenon DEF Init
<1>3. QED BY <1>1, <1>2 DEF SerialInv, Busy, ButtonInv, Fits

\* When calls wait for each other and none is under way, start time, listener,
\* VPN, display and button agree, in however many starts, stops and restarts.
THEOREM CallsAgree == Spec => []StatusAgrees
<1>1. ASSUME FlagType, SerialInv PROVE StatusAgrees
  <2>1. SUFFICES ASSUME Serial, Settled, ~debounce
                 PROVE  /\ listening = startTime
                        /\ "android" \in may => vpn = startTime
                        /\ isStart = runTime
    BY Zenon DEF StatusAgrees, Serial
  <2>2. Agree /\ (isStart <=> runTime)
    BY <1>1, <2>1 DEF SerialInv, Settled, Busy, ButtonInv
  <2>3. QED BY <1>1, <2>2, Zenon DEF Agree, FlagType
<1>2. QED
  BY <1>1, SerialInit, TypeInit, InvKept, ChannelKept, LoopKept, FlagsKept, SerialKept, PTL
     DEF Spec

-----------------------------------------------------------------------------
(* The task that shows the run time.                                         *)

\* Some task runs, or waits for its timer: it will show the run time.
Looping == Active \/ \E c \in Calls : loop[c] = "running"

\* Is this a call that starts, and has it not started the tasks yet?
Starting(c) == pc[c] \in {"startListener", "started", "options", "startVpn"}

TaskInv == Serial /\ startTime => Looping \/ \E c \in Calls : Starting(c)

\* startUpdateTasks leaves a task behind, its own or the one it gives way to.
LEMMA StartLoops ==
    ASSUME LoopType, NEW c \in Calls, startUpdateTasks(c)
    PROVE  Looping'
<1>1. CASE Active
  <2>1. UNCHANGED loopVars
    BY <1>1, Zenon DEF startUpdateTasks
  <2>2. QED BY <1>1, <2>1 DEF loopVars, Looping, Active
<1>2. CASE ~Active
  <2>1. loop' = [loop EXCEPT ![c] = "running"]
    BY <1>2, Zenon DEF startUpdateTasks
  <2>2. loop'[c] = "running"
    BY <2>1 DEF LoopType
  <2>3. QED BY <2>2 DEF Looping
<1>3. QED BY <1>1, <1>2

\* A task that ends has found another one armed.
LEMMA TaskLoops ==
    ASSUME LoopType, NEW c \in Calls, LoopStep(c)
    PROVE  Looping'
<1>1. CASE TasksDone(c)
  <2>1. timer' = c /\ loop'[c] = "armed" /\ c # Nil
    BY <1>1, NilAssumption DEF TasksDone, LoopType
  <2>2. QED BY <2>1 DEF Looping, Active
<1>2. CASE TimerFires(c) /\ timer # c /\ Active
  <2>1. timer' = timer /\ timer \in Calls
    BY <1>2 DEF TimerFires, Active, LoopType
  <2>2. loop' = [loop EXCEPT ![c] = "over"]
    BY <1>2, Zenon DEF TimerFires
  <2>3. loop'[timer] = "armed"
    BY <1>2, <2>1, <2>2 DEF Active, LoopType
  <2>4. QED BY <1>2, <2>1, <2>3 DEF Looping, Active
<1>3. CASE TimerFires(c) /\ ~(timer # c /\ Active)
  <2>1. loop' = [loop EXCEPT ![c] = "running"]
    BY <1>3, Zenon DEF TimerFires
  <2>2. loop'[c] = "running"
    BY <2>1 DEF LoopType
  <2>3. QED BY <2>2 DEF Looping
<1>4. QED BY <1>1, <1>2, <1>3 DEF LoopStep

\* Comes a stop to its end?
StopComes(c) == Stopped(c) \/ (PlatformAnswers(c) /\ pc[c] # "startVpn")

\* Only the end of a stop ends the last task.
LEMMA LoopingKept ==
    ASSUME LoopType, [Next]_vars, Looping
    PROVE  Looping' \/ \E c \in Calls : StopComes(c)
<1>1. ASSUME UNCHANGED loopVars PROVE Looping'
  BY <1>1 DEF loopVars, Looping, Active
<1>2. CASE UNCHANGED vars \/ Click
  <2>1. UNCHANGED loopVars
    BY <1>2, Zenon DEF vars, Click
  <2>2. QED BY <1>1, <2>1
<1>3. ASSUME NEW c \in Calls, CallUpdateStatus(c) \/ RestartCore(c) \/ Debounced(c)
      PROVE  Looping'
  <2>1. UNCHANGED loopVars
    BY <1>3, Zenon DEF CallUpdateStatus, RestartCore, Debounced
  <2>2. QED BY <1>1, <2>1
<1>4. ASSUME NEW c \in Calls, Step(c) PROVE Looping' \/ StopComes(c)
  <2>1. UNCHANGED loopVars \/ startUpdateTasks(c) \/ StopComes(c)
    BY <1>4, Zenon
       DEF Step, InitStatus, CoreListens, Started, OptionsTold, PlatformAnswers, Restarted,
           StopComes
  <2>2. QED BY <1>1, <2>1, StartLoops
<1>5. QED BY <1>2, <1>3, <1>4, TaskLoops, Zenon DEF Next

\* A call that starts goes on until it has started the tasks.
LEMMA StartingKept ==
    ASSUME Inv, ChannelInv, LoopType, [Next]_vars, NEW c \in Calls, Starting(c)
    PROVE  Starting(c)' \/ Looping'
<1>0. ASSUME NEW d \in Calls, d # c, NEW label, Goto(d, label) PROVE Starting(c)'
  BY <1>0 DEF Inv, Goto, Starting
<1>1. ASSUME pc' = pc PROVE Starting(c)'
  BY <1>1 DEF Starting
<1>2. CASE UNCHANGED vars \/ Click
  <2>1. pc' = pc
    BY <1>2, Zenon DEF vars, Click
  <2>2. QED BY <1>1, <2>1
<1>3. ASSUME NEW d \in Calls, LoopStep(d) PROVE Looping'
  BY <1>3, TaskLoops
<1>4. ASSUME NEW d \in Calls, CallUpdateStatus(d) \/ RestartCore(d) \/ Debounced(d) \/ Step(d)
      PROVE  \E label : Goto(d, label)
  <2>1. CASE CallUpdateStatus(d)
    <3>1. PICK start \in BOOLEAN : updateStatus(d, start)
      BY <2>1, Zenon DEF CallUpdateStatus
    <3>2. QED BY <3>1, Zenon DEF updateStatus
  <2>2. CASE RestartCore(d)
    BY <2>2, Zenon DEF RestartCore
  <2>3. CASE Debounced(d)
    BY <2>3, Zenon DEF Debounced, updateStatus
  <2>4. CASE InitStatus(d)
    <3>1. PICK autoRun \in BOOLEAN : updateStatus(d, vpn \/ autoRun)
      BY <2>4, Zenon DEF InitStatus
    <3>2. QED BY <3>1, Zenon DEF updateStatus
  <2>5. CASE CoreListens(d) \/ Started(d) \/ OptionsTold(d)
    BY <2>5, Zenon DEF CoreListens, Started, OptionsTold
  <2>6. CASE Stopped(d) \/ PlatformAnswers(d) \/ Restarted(d)
    BY <2>6, Zenon DEF Stopped, StopEnds, PlatformAnswers, Restarted, updateStatus
  <2>7. QED BY <1>4, <2>1, <2>2, <2>3, <2>4, <2>5, <2>6, Zenon DEF Step
<1>5. CASE CallUpdateStatus(c) \/ RestartCore(c) \/ Debounced(c)
  BY <1>5 DEF CallUpdateStatus, RestartCore, Debounced, Unused, Starting
<1>6. CASE InitStatus(c) \/ Stopped(c) \/ Restarted(c)
  BY <1>6 DEF InitStatus, Stopped, Restarted, Starting
<1>7. CASE CoreListens(c)
  <2>1. pc[c] = "startListener"
    BY <1>7 DEF CoreListens, Starting
  <2>2. Goto(c, "started")
    BY <1>7, <2>1, Zenon DEF CoreListens
  <2>3. QED BY <2>2 DEF Inv, Goto, Starting
<1>8. CASE Started(c)
  <2>1. Goto(c, "options") \/ startUpdateTasks(c)
    BY <1>8, Zenon DEF Started
  <2>2. Goto(c, "options") => Starting(c)'
    BY DEF Inv, Goto, Starting
  <2>3. QED BY <2>1, <2>2, StartLoops
<1>9. CASE OptionsTold(c)
  <2>1. Goto(c, "startVpn")
    BY <1>9, Zenon DEF OptionsTold
  <2>2. QED BY <2>1 DEF Inv, Goto, Starting
<1>10. CASE PlatformAnswers(c)
  <2>1. c = channel[1] /\ 1 \in 1..Len(channel)
    BY <1>10 DEF PlatformAnswers, ChannelInv
  <2>2. pc[c] = "startVpn"
    BY <2>1 DEF ChannelInv, Waiting, Starting
  <2>3. startUpdateTasks(c)
    BY <1>10, <2>2, Zenon DEF PlatformAnswers
  <2>4. QED BY <2>3, StartLoops
<1>11. QED
  BY <1>0, <1>2, <1>3, <1>4, <1>5, <1>6, <1>7, <1>8, <1>9, <1>10, Zenon DEF Next, Step

\* The start time is set by a call that starts.
LEMMA StartTimeSet ==
    ASSUME Inv, FlagType, [Next]_vars, startTime'
    PROVE  startTime \/ \E c \in Calls : Starting(c)'
<1>1. ASSUME NEW c \in Calls, NEW start, updateStatus(c, start) PROVE Starting(c)'
  <2>1. start
    BY <1>1, Zenon DEF updateStatus
  <2>2. Goto(c, "startListener")
    BY <1>1, <2>1, Zenon DEF updateStatus
  <2>3. QED BY <2>2 DEF Inv, Goto, Starting
<1>2. CASE UNCHANGED vars \/ Click
  BY <1>2, Zenon DEF vars, Click
<1>3. ASSUME NEW c \in Calls,
             \/ InitStatus(c) \/ CallUpdateStatus(c) \/ Debounced(c)
             \/ RestartCore(c) \/ Restarted(c)
      PROVE  startTime \/ \E start : updateStatus(c, start)
  BY <1>3, Zenon DEF InitStatus, CallUpdateStatus, Debounced, RestartCore, Restarted
<1>4. ASSUME NEW c \in Calls,
             \/ CoreListens(c) \/ Started(c) \/ OptionsTold(c) \/ Stopped(c)
             \/ PlatformAnswers(c) \/ LoopStep(c)
      PROVE  startTime
  BY <1>4, Zenon
     DEF CoreListens, Started, OptionsTold, Stopped, PlatformAnswers, LoopStep, TasksDone,
         TimerFires
<1>5. QED BY <1>1, <1>2, <1>3, <1>4, Zenon DEF Next, Step

\* While a start is under way it will leave a task behind, and no stop is.
LEMMA TaskKept ==
    ASSUME Inv, ChannelInv, LoopType, FlagType, SerialInv, TaskInv, [Next]_vars
    PROVE  TaskInv'
<1> SUFFICES ASSUME Serial', startTime' PROVE Looping' \/ \E c \in Calls : Starting(c)'
  BY Zenon DEF TaskInv
<1>1. Serial
  BY DEF Serial, Next, vars
<1>2. ASSUME NEW c \in Calls, StopComes(c) PROVE ~startTime'
  <2>1. pc[c] \in {"stopped", "stopVpn"}
    <3>1. CASE Stopped(c)
      BY <3>1 DEF Stopped
    <3>2. CASE PlatformAnswers(c) /\ pc[c] # "startVpn"
      <4>1. c = channel[1] /\ 1 \in 1..Len(channel)
        BY <3>2 DEF PlatformAnswers, ChannelInv
      <4>2. QED BY <3>2, <4>1 DEF ChannelInv, Waiting
    <3>3. QED BY <1>2, <3>1, <3>2 DEF StopComes
  <2>2. Fits(pc[c])
    BY <1>1, <2>1 DEF SerialInv, Busy
  <2>3. startTime' = startTime
    BY <1>2, Zenon DEF StopComes, Stopped, PlatformAnswers
  <2>4. QED BY <2>1, <2>2, <2>3 DEF Fits
<1>3. CASE startTime
  BY <1>1, <1>2, <1>3, LoopingKept, StartingKept, Zenon DEF TaskInv
<1>4. CASE ~startTime
  BY <1>4, StartTimeSet
<1>5. QED BY <1>3, <1>4

\* When calls wait for each other, an application that is started is being
\* started by a call under way, or some task runs or waits for its timer, and
\* will show the run time: no start that gave way to the task of an earlier one
\* (state.dart:137), and no stop that found the timer null (state.dart:155),
\* leaves it without.
THEOREM TasksGoOn ==
    Spec => []("overlap" \notin may /\ startTime => Looping \/ \E c \in Calls : Starting(c))
<1>1. Init => SerialInv /\ TaskInv
  BY SerialInit, Zenon DEF Init, TaskInv
<1>2. QED
  BY <1>1, TypeInit, InvKept, ChannelKept, LoopKept, FlagsKept, SerialKept, TaskKept, PTL
     DEF Spec, TaskInv, Serial
=============================================================================
