----------------------------- MODULE TunHandler -----------------------------
(***************************************************************************)
(* The Android TUN lifecycle of the Go core (core/lib_android.go).         *)
(*                                                                         *)
(* Kotlin calls the exported functions startTUN and stopTun; each call     *)
(* spawns a goroutine and returns at once, so the goroutines of two calls  *)
(* run in any order.  A start first stops whatever runs, then installs a   *)
(* TunHandler that owns a JNI callback and, if the tunnel opens, a         *)
(* listener.  Meanwhile the goroutines that dial out call, through two     *)
(* global hooks, methods of whatever handler is current; a semaphore of    *)
(* four permits per handler keeps the callback alive while it is used.     *)
(*                                                                         *)
(* A start call, its handler and its callback are one identity: a handler  *)
(* is created by one call only, from the callback passed to that call.     *)
(***************************************************************************)
EXTENDS Naturals, Sequences, FiniteSets

CONSTANTS
    Starts,   \* calls of startTUN (and the handlers they create)
    Stops,    \* calls of stopTun
    Dials,    \* goroutines that dial out or resolve the owner of a connection
    Nil       \* no handler, no goroutine

Calls == Starts \cup Stops

Permits == 4

ASSUME ConstantsAssumption ==
    /\ Starts \cap Stops = {}
    /\ Calls \cap Dials = {}
    /\ Nil \notin Calls \cup Dials

VARIABLES
    pc,          \* where the goroutine of each call is
    lock,        \* tunLock: the call that holds it
    tunHandler,  \* the global tunHandler
    runTime,     \* whether the global runTime is set
    hook,        \* whether the two global hooks are installed
    callback,    \* handler -> its callback field is not nil
    listener,    \* handler -> its listener field is not nil
    released,    \* handler -> how often its callback was released (capped at 2)
    tun,         \* handler -> the tunnel it opened
    holders,     \* handler -> goroutines that hold permits of its semaphore
    waiters,     \* handler -> goroutines queued at its semaphore, in order
    dpc,         \* where each dialling goroutine is
    dh,          \* the handler a dialling goroutine has read
    serial       \* this behaviour makes a call only when none is running

vars == <<pc, lock, tunHandler, runTime, hook, callback, listener, released,
          tun, holders, waiters, dpc, dh, serial>>

handlerVars == <<callback, listener, released, tun>>
semVars     == <<holders, waiters>>
dialVars    == <<dpc, dh>>

-----------------------------------------------------------------------------
(* The weighted semaphore of a handler, size Permits: a dial takes one       *)
(* permit, close() takes all four.  A request waits behind those queued      *)
(* before it; a release admits waiters from the front while they fit.        *)

Fits(p, H) ==
    IF p \in Dials THEN H \subseteq Dials /\ Cardinality(H) < Permits
                   ELSE H = {}

Acquire(p, h) ==
    IF waiters[h] = <<>> /\ Fits(p, holders[h])
    THEN /\ holders' = [holders EXCEPT ![h] = @ \cup {p}]
         /\ UNCHANGED waiters
    ELSE /\ waiters' = [waiters EXCEPT ![h] = Append(@, p)]
         /\ UNCHANGED holders

\* The positions of queue W that a release leaving H admits.
Admitted(W, H) ==
    {i \in 1..Len(W) : \A j \in 1..i : Fits(W[j], H \cup {W[k] : k \in 1..(j - 1)})}

Release(p, h) ==
    LET W == waiters[h]
        H == holders[h] \ {p}
        A == Admitted(W, H)
    IN  /\ holders' = [holders EXCEPT ![h] = H \cup {W[i] : i \in A}]
        /\ waiters' = [waiters EXCEPT ![h] = SubSeq(W, Cardinality(A) + 1, Len(W))]

-----------------------------------------------------------------------------
Init ==
    /\ pc = [c \in Calls |-> "idle"]
    /\ lock = Nil
    /\ tunHandler = Nil
    /\ runTime = FALSE
    /\ hook = FALSE
    /\ callback = [s \in Starts |-> FALSE]
    /\ listener = [s \in Starts |-> FALSE]
    /\ released = [s \in Starts |-> 0]
    /\ tun = [s \in Starts |-> "none"]
    /\ holders = [s \in Starts |-> {}]
    /\ waiters = [s \in Starts |-> <<>>]
    /\ dpc = [d \in Dials |-> "idle"]
    /\ dh = [d \in Dials |-> Nil]
    /\ serial \in BOOLEAN

-----------------------------------------------------------------------------
(* The goroutine of a call.                                                  *)

Running(c) == pc[c] \notin {"idle", "done"}

\* Mutant: a start does not stop what runs.
CallWithoutStop(c) ==
    /\ pc[c] = "idle"
    /\ serial => \A e \in Calls : ~Running(e)
    /\ pc' = [pc EXCEPT ![c] = IF c \in Starts THEN "start" ELSE "stop"]
    /\ UNCHANGED <<lock, tunHandler, runTime, hook, handlerVars, semVars, dialVars>>

\* startTUN, stopTun: the exported functions only spawn the goroutine.
Call(c) ==
    /\ pc[c] = "idle"
    /\ serial => \A e \in Calls : ~Running(e)
    /\ pc' = [pc EXCEPT ![c] = "stop"]
    /\ UNCHANGED <<lock, tunHandler, runTime, hook, handlerVars, semVars, dialVars>>

AfterStop(c) == IF c \in Starts THEN "start" ELSE "done"

\* Mutant: close() does not wait for the permits that are in use.
HandleStopTunImpatient(c) ==
    /\ pc[c] = "stop"
    /\ lock = Nil
    /\ runTime' = FALSE
    /\ IF tunHandler = Nil
       THEN /\ pc' = [pc EXCEPT ![c] = AfterStop(c)]
            /\ UNCHANGED <<lock, semVars>>
       ELSE /\ lock' = c
            /\ pc' = [pc EXCEPT ![c] = "acquire"]
            /\ holders' = [holders EXCEPT ![tunHandler] = @ \cup {c}]
            /\ UNCHANGED waiters
    /\ UNCHANGED <<tunHandler, hook, handlerVars, dialVars>>

\* handleStopTun up to close()'s request for all the permits.
HandleStopTun(c) ==
    /\ pc[c] = "stop"
    /\ lock = Nil
    /\ runTime' = FALSE
    /\ IF tunHandler = Nil
       THEN /\ pc' = [pc EXCEPT ![c] = AfterStop(c)]
            /\ UNCHANGED <<lock, semVars>>
       ELSE /\ lock' = c
            /\ pc' = [pc EXCEPT ![c] = "acquire"]
            /\ Acquire(c, tunHandler)
    /\ UNCHANGED <<tunHandler, hook, handlerVars, dialVars>>

\* Mutant: the hooks stay.
CloseHooksKept(c) ==
    /\ pc[c] = "acquire"
    /\ c \in holders[tunHandler]
    /\ pc' = [pc EXCEPT ![c] = "close"]
    /\ UNCHANGED <<lock, tunHandler, runTime, hook, handlerVars, semVars, dialVars>>

\* close(): all permits are held; the hooks go first.
CloseHooks(c) ==
    /\ pc[c] = "acquire"
    /\ c \in holders[tunHandler]
    /\ hook' = FALSE
    /\ pc' = [pc EXCEPT ![c] = "close"]
    /\ UNCHANGED <<lock, tunHandler, runTime, handlerVars, semVars, dialVars>>

\* Mutant: the released callback stays in its field.
ClearFieldsNot(h) ==
    /\ listener' = [listener EXCEPT ![h] = FALSE]
    /\ UNCHANGED callback

\* close() forgets the callback and the listener.
ClearFields(h) ==
    /\ callback' = [callback EXCEPT ![h] = FALSE]
    /\ listener' = [listener EXCEPT ![h] = FALSE]

\* close(): the tunnel, the callback, and the permits; then the mutex.
CloseHandler(c) ==
    /\ pc[c] = "close"
    /\ LET h == tunHandler IN
       /\ tun' = [tun EXCEPT ![h] = IF listener[h] THEN "closed" ELSE @]
       /\ released' = [released EXCEPT ![h] =
                          IF callback[h] /\ @ < 2 THEN @ + 1 ELSE @]
       /\ ClearFields(h)
       /\ Release(c, h)
    /\ lock' = Nil
    /\ pc' = [pc EXCEPT ![c] = AfterStop(c)]
    /\ UNCHANGED <<tunHandler, runTime, hook, dialVars>>

\* handleStartTun with fd = 0 (the service without a VPN): no handler is made.
StartNoFd(s) ==
    /\ pc[s] = "start"
    /\ lock = Nil
    /\ runTime' = TRUE
    /\ pc' = [pc EXCEPT ![s] = "done"]
    /\ UNCHANGED <<lock, tunHandler, hook, handlerVars, semVars, dialVars>>

\* Mutant: the hooks are not installed.
StartHandlerUnhooked(s) ==
    /\ pc[s] = "start"
    /\ lock = Nil
    /\ lock' = s
    /\ runTime' = TRUE
    /\ tunHandler' = s
    /\ callback' = [callback EXCEPT ![s] = TRUE]
    /\ pc' = [pc EXCEPT ![s] = "open"]
    /\ UNCHANGED <<hook, listener, released, tun, semVars, dialVars>>

\* handleStartTun with an fd: the new handler and the hooks are in place
\* before the tunnel is opened.
StartHandler(s) ==
    /\ pc[s] = "start"
    /\ lock = Nil
    /\ lock' = s
    /\ runTime' = TRUE
    /\ tunHandler' = s
    /\ callback' = [callback EXCEPT ![s] = TRUE]
    /\ hook' = TRUE
    /\ pc' = [pc EXCEPT ![s] = "open"]
    /\ UNCHANGED <<listener, released, tun, semVars, dialVars>>

\* t.Start returned a listener; or nil, and the hooks are removed.
OpenTun(s) ==
    /\ pc[s] = "open"
    /\ \/ /\ tun' = [tun EXCEPT ![s] = "open"]
          /\ listener' = [listener EXCEPT ![s] = TRUE]
          /\ UNCHANGED hook
       \/ /\ hook' = FALSE
          /\ UNCHANGED <<tun, listener>>
    /\ lock' = Nil
    /\ pc' = [pc EXCEPT ![s] = "done"]
    /\ UNCHANGED <<tunHandler, runTime, callback, released, semVars, dialVars>>

-----------------------------------------------------------------------------
(* A goroutine that dials out (dialContext of the dialer) or resolves the    *)
(* owner of a connection (FindPackageName).                                  *)

\* dialContext sees a hook and makes the socket control call it later.
DialContext(d) ==
    /\ dpc[d] = "idle"
    /\ hook
    /\ dpc' = [dpc EXCEPT ![d] = "hooked"]
    /\ UNCHANGED <<pc, lock, tunHandler, runTime, hook, handlerVars, semVars, dh>>

\* The socket control reads the global hook again and calls what it reads:
\* calling nil panics.
SocketControl(d) ==
    /\ dpc[d] = "hooked"
    /\ dpc' = [dpc EXCEPT ![d] = IF hook THEN "inhook" ELSE "panic"]
    /\ UNCHANGED <<pc, lock, tunHandler, runTime, hook, handlerVars, semVars, dh>>

\* Mutant: the resolver is called without the nil test.
FindPackageNameUntested(d) ==
    /\ dpc[d] = "idle"
    /\ dpc' = [dpc EXCEPT ![d] = "inhook"]
    /\ UNCHANGED <<pc, lock, tunHandler, runTime, hook, handlerVars, semVars, dh>>

\* FindPackageName copies the resolver, tests the copy and calls it.
FindPackageName(d) ==
    /\ dpc[d] = "idle"
    /\ hook
    /\ dpc' = [dpc EXCEPT ![d] = "inhook"]
    /\ UNCHANGED <<pc, lock, tunHandler, runTime, hook, handlerVars, semVars, dh>>

\* The hook returns early: the connection is blocked, or has no raw address.
HookReturns(d) ==
    /\ dpc[d] = "inhook"
    /\ dpc' = [dpc EXCEPT ![d] = "idle"]
    /\ UNCHANGED <<pc, lock, tunHandler, runTime, hook, handlerVars, semVars, dh>>

\* The hook reads the global tunHandler and asks it for one permit.
HandleHook(d) ==
    /\ dpc[d] = "inhook"
    /\ dpc' = [dpc EXCEPT ![d] = "acquire"]
    /\ dh' = [dh EXCEPT ![d] = tunHandler]
    /\ Acquire(d, tunHandler)
    /\ UNCHANGED <<pc, lock, tunHandler, runTime, hook, handlerVars>>

\* Mutant: a dial that finds no listener returns without its permit's release.
SkipCallbackKeepsPermit(d) ==
    /\ dpc[d] = "acquire"
    /\ d \in holders[dh[d]]
    /\ ~listener[dh[d]]
    /\ dpc' = [dpc EXCEPT ![d] = "idle"]
    /\ dh' = [dh EXCEPT ![d] = Nil]
    /\ UNCHANGED <<pc, lock, tunHandler, runTime, hook, handlerVars, semVars>>

\* handleProtect, handleResolveProcess with the permit: no listener, no call.
SkipCallback(d) ==
    /\ dpc[d] = "acquire"
    /\ d \in holders[dh[d]]
    /\ ~listener[dh[d]]
    /\ dpc' = [dpc EXCEPT ![d] = "idle"]
    /\ dh' = [dh EXCEPT ![d] = Nil]
    /\ Release(d, dh[d])
    /\ UNCHANGED <<pc, lock, tunHandler, runTime, hook, handlerVars>>

\* Mutant: the listener field is not looked at.
UseCallbackUnchecked(d) ==
    /\ dpc[d] = "acquire"
    /\ d \in holders[dh[d]]
    /\ dpc' = [dpc EXCEPT ![d] = "using"]
    /\ UNCHANGED <<pc, lock, tunHandler, runTime, hook, handlerVars, semVars, dh>>

\* The native call with the callback starts ...
UseCallback(d) ==
    /\ dpc[d] = "acquire"
    /\ d \in holders[dh[d]]
    /\ listener[dh[d]]
    /\ dpc' = [dpc EXCEPT ![d] = "using"]
    /\ UNCHANGED <<pc, lock, tunHandler, runTime, hook, handlerVars, semVars, dh>>

\* ... and ends.
CallbackReturns(d) ==
    /\ dpc[d] = "using"
    /\ dpc' = [dpc EXCEPT ![d] = "idle"]
    /\ dh' = [dh EXCEPT ![d] = Nil]
    /\ Release(d, dh[d])
    /\ UNCHANGED <<pc, lock, tunHandler, runTime, hook, handlerVars>>

-----------------------------------------------------------------------------
\* A panic in a goroutine ends the process.
Panicked == \E d \in Dials : dpc[d] = "panic"

CallStep(c) ==
    \/ HandleStopTun(c) \/ CloseHooks(c) \/ CloseHandler(c)
    \/ c \in Starts /\ (StartNoFd(c) \/ StartHandler(c) \/ OpenTun(c))

DialStep(d) ==
    \/ SocketControl(d) \/ HookReturns(d) \/ HandleHook(d)
    \/ SkipCallback(d) \/ UseCallback(d) \/ CallbackReturns(d)

Next ==
    /\ ~Panicked
    /\ UNCHANGED serial
    /\ \/ \E c \in Calls : Call(c) \/ CallStep(c)
       \/ \E d \in Dials : DialContext(d) \/ FindPackageName(d) \/ DialStep(d)

Spec == Init /\ [][Next]_vars

\* A spawned goroutine is run; nobody has to call or to dial.
Fairness ==
    /\ \A c \in Calls : WF_vars(~Panicked /\ CallStep(c) /\ UNCHANGED serial)
    /\ \A d \in Dials : WF_vars(~Panicked /\ DialStep(d) /\ UNCHANGED serial)

FairSpec == Spec /\ Fairness

-----------------------------------------------------------------------------
(* Types.                                                                    *)

CallPC == {"idle", "stop", "acquire", "close", "start", "open", "done"}
DialPC == {"idle", "hooked", "inhook", "acquire", "using", "panic"}

VarTypes ==
    /\ pc \in [Calls -> CallPC]
    /\ lock \in Calls \cup {Nil}
    /\ tunHandler \in Starts \cup {Nil}
    /\ runTime \in BOOLEAN
    /\ hook \in BOOLEAN
    /\ callback \in [Starts -> BOOLEAN]
    /\ listener \in [Starts -> BOOLEAN]
    /\ released \in [Starts -> 0..2]
    /\ tun \in [Starts -> {"none", "open", "closed"}]
    /\ holders \in [Starts -> SUBSET (Calls \cup Dials)]
    /\ waiters \in [Starts -> Seq(Calls \cup Dials)]
    /\ dpc \in [Dials -> DialPC]
    /\ dh \in [Dials -> Starts \cup {Nil}]

\* Every variable has its type, and the pointer a hook is about to follow is
\* not nil: the hooks are installed after the first handler and no handler is
\* ever replaced by nil (lib_android.go, initTunHook).
TypeOK ==
    /\ VarTypes
    /\ serial \in BOOLEAN
    /\ \A d \in Dials : dpc[d] = "inhook" => tunHandler \in Starts

-----------------------------------------------------------------------------
(* Safety.                                                                   *)

\* While a goroutine is inside a native call with a callback, that callback
\* has not been released: close() waits for every permit before it releases
\* (lib_android.go, close / handleProtect / handleResolveProcess).
CallbackLive ==
    \A d \in Dials : dpc[d] = "using" => released[dh[d]] = 0

\* No callback is released twice, whatever stops and starts overlap: a second
\* close() of the same handler finds the field nil.
ReleasedOnce == \A s \in Starts : released[s] <= 1

\* When the core reports that it is stopped (runTime is nil) and nobody is in
\* a critical section, the current handler is closed, its callback released,
\* and no hook is installed.
StoppedIsClosed ==
    (lock = Nil /\ ~runTime) =>
        /\ ~hook
        /\ tunHandler # Nil => /\ ~listener[tunHandler]
                               /\ released[tunHandler] = 1

\* With one call at a time nothing leaks: when the core reports that it is
\* stopped, every tunnel ever opened is closed and every callback a handler
\* was given has been released.
StoppedLeavesNothing ==
    (serial /\ lock = Nil /\ ~runTime) =>
        \A s \in Starts : tun[s] # "open" /\ ~callback[s]

\* With one call at a time an open tunnel has the hooks installed, so that
\* sockets that dial out are protected, except while a close() is under way.
OpenTunIsHooked ==
    (serial /\ \E s \in Starts : tun[s] = "open") => hook \/ lock # Nil

\* The branch of dialContext for a hook that is not null calls a hook that is
\* not null (dialer.go:147), whether or not a tunnel that does not open
\* (lib_android.go:118) or a close() (lib_android.go:41) has removed it since.
HookNotNull == \A d \in Dials : dpc[d] # "panic"

-----------------------------------------------------------------------------
(* Refinement.                                                               *)

\* What became of the callback of a start, and who is inside it.
StageOf == [s \in Starts |-> IF released[s] > 1 THEN "released twice"
                             ELSE IF released[s] = 1 THEN "released"
                             ELSE IF callback[s] THEN "held" ELSE "unused"]
UsersOf == [s \in Starts |-> {d \in Dials : dpc[d] = "using" /\ dh[d] = s}]

Contract == INSTANCE TunContract WITH stage <- StageOf, tunnel <- tun, users <- UsersOf

\* The handlers keep the contract of their callbacks and tunnels (TunContract):
\* close() and the users of a callback exclude each other, a callback is given
\* back once and together with its tunnel, and a closed tunnel stays closed.
KeepsContract == Contract!Spec

-----------------------------------------------------------------------------
(* Liveness.                                                                 *)

\* Nobody waits for the semaphore for ever.  It serves its waiters in order, so
\* a stop goes through although new dials keep asking for permits; and a
\* goroutine that asked a handler for a permit gets it even when that handler
\* was replaced or closed meanwhile.
NobodyStarves ==
    /\ \A c \in Calls : pc[c] = "stop" ~> (pc[c] = "done" \/ Panicked)
    /\ \A d \in Dials : dpc[d] = "acquire" ~> (dpc[d] = "idle" \/ Panicked)
=============================================================================
